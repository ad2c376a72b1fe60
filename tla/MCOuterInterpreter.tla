------------------------- MODULE MCOuterInterpreter -------------------------
(* A small dictionary, a boot text and two evaluated texts for TLC.        *)
EXTENDS OuterInterpreter, TLC

CONSTANTS B0, B1, T1, T2, T3, T4, T5, LineLength

MCWords == {"boot1", "e1", "e2", "e3", "e4", "c1", "c2", "c7", "seven!", "nip3", "c3",
            "e5", "nip6", "c6", "c5"}

Cell(o, a) == [op |-> o, arg |-> a]

MCColon ==
  [w \in MCWords |->
    CASE w = "boot1"  -> << Cell("evaluate", B1) >>
      [] w = "e1"     -> << Cell("evaluate", T1) >>
      [] w = "e2"     -> << Cell("evaluate", T2) >>
      [] w = "e3"     -> << Cell("evaluate", T3) >>
      [] w = "e4"     -> << Cell("evaluate", T4) >>
      [] w = "c1"     -> << Cell("catch", "e1") >>
      [] w = "c2"     -> << Cell("catch", "e2") >>
      [] w = "c7"     -> << Cell("catch", "seven!") >>
      [] w = "seven!" -> << Cell("lit", 7), Cell("throw", 0) >>
      [] w = "nip3"   -> << Cell("drop", 0), Cell("drop", 0), Cell("drop", 0),
                            Cell("lit", 7), Cell("throw", 0) >>
      [] w = "c3"     -> << Cell("catch", "nip3") >>
      [] w = "nip6"   -> [i \in 1..6 |-> Cell("drop", 0)] \o << Cell("lit", 5), Cell("throw", 0) >>
      [] w = "c6"     -> << Cell("catch", "nip6") >>
      [] w = "e5"     -> << Cell("evaluate", T5) >>
      [] w = "c5"     -> << Cell("catch", "e5") >>]

MCNumbers == {"0", "1", "5"}
MCValue == [n \in MCNumbers |-> CASE n = "0" -> 0 [] n = "1" -> 1 [] n = "5" -> 5]
MCUnknown == {"?"}
MCTexts == {B1, T1, T2, T3, T4, T5}

\* boot0 evaluates boot1, which ends in QUIT as boot1.f does.  T1 is balanced;
\* T2 catches a normal return, a throw, then throws; T3 evaluates T1 and then
\* leaves a count that matches over a marker that does not; T4 is no program.
\* T5 catches a throw of the code 5 from below its own saved input, whose six
\* cells come back overwritten, with a 5 on top once two more are dropped.
MCSource ==
  (B0 :> << "1", "boot1" >>) @@ (B1 :> << "e1", "quit" >>)
    @@ (T1 :> << "1", "drop" >>) @@ (T2 :> << "c1", "c7", "seven!" >>)
    @@ (T3 :> << "e1", "drop", "drop", "5" >>) @@ (T4 :> << "?" >>)
    @@ (T5 :> << "c6", "drop", "drop" >>)

\* What lies in memory above the stack: what a SAVE-INPUT has left there too.
MCStale == {Junk, 0, 5, Magic}

LineTokens ==
  {"e1", "e3", "e4", "c2", "c3", "c5", "1", "?", "drop", "throw", "]", "["}
MCLines == UNION {[1..n -> LineTokens] : n \in 0..LineLength}
=============================================================================
