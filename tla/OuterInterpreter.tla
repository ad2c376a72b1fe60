-------------------------- MODULE OuterInterpreter --------------------------
(***************************************************************************)
(* The outer interpreter of AApen's Forth (src/src/armforth.S and the      *)
(* words EVALUATE, SAVE-INPUT and RESTORE-INPUT of src/src/boot0.f): the   *)
(* REPL (QUIT, REFILL, INTERPRET), the evaluation of strings, and the      *)
(* exceptions (CATCH, THROW) that cut across both.                         *)
(*                                                                         *)
(* The machine is the threaded-code machine of the source.  nip is the     *)
(* cell executed next, xt the word being executed (x0 after NEXT), rs and  *)
(* ds the two stacks, and a colon definition is a sequence of cells.  A    *)
(* user's colon definition is data (Colon); QUIT, EVALUATE, CATCH and      *)
(* EXCEPTION-MARKER have the cells of the source, with straight-line       *)
(* stretches that call nothing folded into one cell.  There is one action  *)
(* per primitive.                                                          *)
(*                                                                         *)
(* Abstracted: a word is a token, so >in and srclen count tokens, and the  *)
(* last token of a source runs to its end (no trailing blank); compiling   *)
(* has no effect but to consume the token.                                 *)
(***************************************************************************)
EXTENDS Integers, Sequences

CONSTANTS
  Words,    \* names of the user's colon definitions
  Colon,    \* their bodies, a sequence of user cells each, EXIT left out
  Numbers,  \* the tokens NUMBER can parse
  Value,    \* their values
  Unknown,  \* the tokens that are neither words nor numbers
  Texts,    \* the strings in memory that can be evaluated
  Boot,     \* the text of boot0.f, interpreted at cold start
  TIB,      \* the terminal input buffer (`buffer`)
  Source,   \* the tokens of every text
  Lines,    \* the lines that can be typed
  Magic,    \* the cell 0xabacab that SAVE-INPUT pushes
  Junk,     \* a cell nobody wrote on purpose; an address on the data stack
  Stale,    \* cells the memory above the data stack may still hold
  Slack,    \* cells above data_stack_top followed on underflow (a bound)
  Room      \* data stack depth up to which lines are typed (a bound)

----------------------------------------------------------------------------
(* Cells of colon definitions.                                             *)

Prim == {"drop", "throw", "quit", "[", "]"}

UserCell ==
  [op : Prim, arg : {0}] \union [op : {"lit"}, arg : Int]
    \union [op : {"call"}, arg : Words] \union [op : {"evaluate"}, arg : Texts]
    \union [op : {"catch"}, arg : Words]

Op(o) == [op |-> o, arg |-> 0]

Tokens == Words \union Numbers \union Unknown \union Prim

Buffers == Texts \union {Boot, TIB}

Cells == Int \union Buffers \union {Magic, Junk}

BuiltIn ==
  [start            |-> << Op("interpret"), Op("quit") >>,
   quit             |-> << Op("refill"), Op("0branch"), Op("interpret"),
                           Op("more?"), Op("exit") >>,
   evaluate         |-> << Op("interpret"), Op("eof?"), Op("restore-input") >>,
   catch            |-> << Op("exit") >>,
   exception_marker |-> << Op("rdrop"), [op |-> "lit", arg |-> 0], Op("exit") >>]

BuiltInNames == {"start", "quit", "evaluate", "catch", "exception_marker"}

Body(w) == IF w \in BuiltInNames THEN BuiltIn[w] ELSE Append(Colon[w], Op("exit"))

CellAt(p) == Body(p[1])[p[2]]

\* A return address; the marker of a catch frame is one of them.
Address(p) ==
  p = << p[1], p[2] >> /\ p[1] \in Words \union BuiltInNames /\ p[2] \in 1..Len(Body(p[1]))

Marker == << "exception_marker", 1 >>

ASSUME ConstantsAssumption ==
  /\ Words \intersect BuiltInNames = {}
  /\ "dsp" \notin Words
  /\ (Words \union Numbers) \intersect Prim = {}
  /\ Colon \in [Words -> Seq(UserCell)]
  /\ Value \in [Numbers -> Int]
  /\ Boot \notin Texts /\ TIB \notin Texts /\ TIB # Boot
  /\ Source \in [Texts \union {Boot} -> Seq(Tokens)]
  /\ Lines \subseteq Seq(Tokens)
  /\ Magic \notin Int \union Buffers \union {Junk}
  /\ Stale \subseteq Cells /\ Stale # {}
  /\ Slack \in Nat /\ Room \in Nat

----------------------------------------------------------------------------
VARIABLES
  nip,     \* next cell of the threaded code (register x10)
  xt,      \* the word being executed (register x0)
  rs,      \* return stack, top last: addresses and saved data stack depths
  ds,      \* data stack, top last
  inbuf,   \* input source: its buffer,
  to_in,   \*   the position of the next token,
  srclen,  \*   its length,
  srcid,   \*   0 for the keyboard, -1 for a string
  state,   \* 0 interpreting, 1 compiling
  tib      \* contents of the terminal input buffer

input == << inbuf, to_in, srclen, srcid >>
vars  == << nip, xt, rs, ds, inbuf, to_in, srclen, srcid, state, tib >>

\* The data stack as the last reset leaves it: the cells that happen to lie
\* above data_stack_top (input_stack, which nothing uses).
Floor == [i \in 1..Slack |-> Junk]

Top(s)     == IF s = << >> THEN Junk ELSE s[Len(s)]
Pop(s)     == IF s = << >> THEN s ELSE SubSeq(s, 1, Len(s) - 1)
Push(s, c) == Append(s, c)

NextAt(p) == xt' = CellAt(p) /\ nip' = << p[1], p[2] + 1 >>

\* What `word` can read at position i: past the end of the text lie bytes
\* the text does not determine.
Contents(b) == IF b = TIB THEN tib ELSE Source[b]
TokensAt(b, i) ==
  IF i < Len(Contents(b)) THEN {Contents(b)[i + 1]} ELSE Tokens

Lookup(t) == IF t \in Words THEN [op |-> "call", arg |-> t] ELSE Op(t)

Immediate(t) == t = "["

----------------------------------------------------------------------------
\* _forth_start: empty stacks, the input source is boot0_src, NIP = cold_start.
ColdStart ==
  /\ NextAt(<< "start", 1 >>)
  /\ rs' = << >> /\ ds' = Floor
  /\ inbuf' = Boot /\ to_in' = 0 /\ srclen' = Len(Source[Boot]) /\ srcid' = 0

Init ==
  /\ nip = << "start", 2 >> /\ xt = CellAt(<< "start", 1 >>)
  /\ rs = << >> /\ ds = Floor
  /\ inbuf = Boot /\ to_in = 0 /\ srclen = Len(Source[Boot]) /\ srcid = 0
  /\ state = 0 /\ tib = << >>

\* A CPU exception: _forth_restart, at any moment.
Restart == ColdStart /\ state' = 0 /\ UNCHANGED tib

\* The exception a lost data stack pointer leads to.
Fault == xt.op = "lost" /\ Restart

----------------------------------------------------------------------------
(* INTERPRET.                                                              *)

Advance == to_in' = IF to_in + 1 = srclen THEN srclen + 1 ELSE to_in + 1

\* No word is left: INTERPRET returns to the code that runs it.
InterpretEnd ==
  /\ xt.op = "interpret" /\ to_in >= srclen
  /\ to_in' = srclen + 1
  /\ NextAt(nip)
  /\ UNCHANGED << rs, ds, inbuf, srclen, srcid, state, tib >>

\* A word to execute: NIP is set back so that it returns into INTERPRET.
InterpretWord ==
  /\ xt.op = "interpret" /\ to_in < srclen
  /\ \E t \in TokensAt(inbuf, to_in) \intersect (Words \union Prim) :
       /\ state = 0 \/ Immediate(t)
       /\ xt' = Lookup(t)
  /\ nip' = << nip[1], nip[2] - 1 >>
  /\ Advance
  /\ UNCHANGED << rs, ds, inbuf, srclen, srcid, state, tib >>

InterpretNumber ==
  /\ xt.op = "interpret" /\ to_in < srclen /\ state = 0
  /\ \E t \in TokensAt(inbuf, to_in) \intersect Numbers :
       ds' = Push(ds, Value[t])
  /\ Advance
  /\ UNCHANGED << nip, xt, rs, inbuf, srclen, srcid, state, tib >>

\* A word or a number met while compiling is appended to the definition.
InterpretCompile ==
  /\ xt.op = "interpret" /\ to_in < srclen /\ state = 1
  /\ \E t \in TokensAt(inbuf, to_in) : t \notin Unknown /\ ~ Immediate(t)
  /\ Advance
  /\ UNCHANGED << nip, xt, rs, ds, inbuf, srclen, srcid, state, tib >>

\* Slip: RESET_INPUT forgets source_id.
ParseErrorKeepsSource ==
  /\ xt.op = "interpret" /\ to_in < srclen
  /\ \E t \in TokensAt(inbuf, to_in) : t \in Unknown
  /\ inbuf' = TIB /\ to_in' = 0
  /\ NextAt(<< "start", 2 >>)
  /\ UNCHANGED << rs, ds, srclen, srcid, state, tib >>

\* Neither a word nor a number: RESET_INPUT, then warm_start, which is QUIT.
ParseError ==
  /\ xt.op = "interpret" /\ to_in < srclen
  /\ \E t \in TokensAt(inbuf, to_in) : t \in Unknown
  /\ srcid' = 0 /\ inbuf' = TIB /\ to_in' = 0
  /\ NextAt(<< "start", 2 >>)
  /\ UNCHANGED << rs, ds, srclen, state, tib >>

----------------------------------------------------------------------------
(* QUIT and REFILL.                                                        *)

\* Slip: QUIT forgets R0 RSP!.
QuitKeepsNesting ==
  /\ xt.op = "quit"
  /\ ds' = Floor
  /\ srcid' = 0 /\ state' = 0 /\ inbuf' = TIB
  /\ NextAt(<< "quit", 1 >>)
  /\ UNCHANGED << rs, to_in, srclen, tib >>

Quit ==
  /\ xt.op = "quit"
  /\ rs' = << >> /\ ds' = Floor
  /\ srcid' = 0 /\ state' = 0 /\ inbuf' = TIB
  /\ NextAt(<< "quit", 1 >>)
  /\ UNCHANGED << to_in, srclen, tib >>

\* REFILL fills `buffer` and leaves inbuf alone; its flag is the CR it read.
Refill ==
  /\ xt.op = "refill" /\ Len(ds) <= Room
  /\ \E l \in Lines : tib' = l /\ srclen' = Len(l)
  /\ to_in' = 0
  /\ ds' = Push(ds, 13)
  /\ NextAt(nip)
  /\ UNCHANGED << rs, inbuf, srcid, state >>

\* 0BRANCH after REFILL: on zero, leave QUIT's loop.
RefillBranch ==
  /\ xt.op = "0branch"
  /\ ds' = Pop(ds)
  /\ NextAt(IF Top(ds) = 0 THEN << "quit", 5 >> ELSE nip)
  /\ UNCHANGED << rs, input, state, tib >>

\* Slip: the last branch of QUIT is four cells short of REFILL.
QuitLoopShort ==
  /\ xt.op = "more?"
  /\ NextAt(IF srclen - to_in > 0 THEN << "quit", 2 >> ELSE << "quit", 3 >>)
  /\ UNCHANGED << rs, ds, input, state, tib >>

\* `srclen @ >in @ - 0>`: if positive, the second branch (-96) of QUIT is
\* taken, and it lands on the 0BRANCH behind REFILL; else back to REFILL.
QuitLoop ==
  /\ xt.op = "more?"
  /\ NextAt(IF srclen - to_in > 0 THEN << "quit", 2 >> ELSE << "quit", 1 >>)
  /\ UNCHANGED << rs, ds, input, state, tib >>

----------------------------------------------------------------------------
(* Colon definitions and small primitives.                                 *)

Call ==
  /\ xt.op = "call"
  /\ rs' = Push(rs, nip)
  /\ NextAt(<< xt.arg, 1 >>)
  /\ UNCHANGED << ds, input, state, tib >>

Exit ==
  /\ xt.op = "exit" /\ rs # << >>
  /\ NextAt(Top(rs))
  /\ rs' = Pop(rs)
  /\ UNCHANGED << ds, input, state, tib >>

Lit ==
  /\ xt.op = "lit"
  /\ ds' = Push(ds, xt.arg)
  /\ NextAt(nip)
  /\ UNCHANGED << rs, input, state, tib >>

Drop ==
  /\ xt.op = "drop"
  /\ ds' = Pop(ds)
  /\ NextAt(nip)
  /\ UNCHANGED << rs, input, state, tib >>

Rdrop ==
  /\ xt.op = "rdrop" /\ rs # << >>
  /\ rs' = Pop(rs)
  /\ NextAt(nip)
  /\ UNCHANGED << ds, input, state, tib >>

Brackets ==
  /\ xt.op \in {"[", "]"}
  /\ state' = IF xt.op = "[" THEN 0 ELSE 1
  /\ NextAt(nip)
  /\ UNCHANGED << rs, ds, input, tib >>

----------------------------------------------------------------------------
(* CATCH and THROW.                                                        *)

\* Slip: the marker goes below the depth.
CatchMarkerFirst ==
  /\ xt.op = "catch"
  /\ rs' = rs \o << nip, Marker, << "dsp", Len(ds) >> >>
  /\ xt' = [op |-> "call", arg |-> xt.arg]
  /\ nip' = << "catch", 1 >>
  /\ UNCHANGED << ds, input, state, tib >>

\* CATCH of the word xt.arg: the frame is the address to return to, the data
\* stack depth without the xt, and the marker; then EXECUTE.
Catch ==
  /\ xt.op = "catch"
  /\ rs' = rs \o << nip, << "dsp", Len(ds) >>, Marker >>
  /\ xt' = [op |-> "call", arg |-> xt.arg]
  /\ nip' = << "catch", 1 >>
  /\ UNCHANGED << ds, input, state, tib >>

\* The entries THROW searches, from the top of the return stack down: all but
\* the one at the bottom.
Markers == {i \in 2..Len(rs) : rs[i] = Marker}
Outermost(m) == \A i \in Markers : i >= m   \* slip: searched from the bottom
Topmost(m) == \A i \in Markers : i <= m

\* What THROW leaves above s: three copies of n, and what it shuffled on top
\* of them, n and the saved pointer (Junk: a multiple of 8, and no marker).
Scratch(n) == << n, n, n, Junk, n, Junk >>

\* The data stack cut or extended to depth d.  THROW only moves the pointer:
\* of the cells popped since the CATCH, those THROW has written hold what it
\* wrote, and those further up what is still in memory (old).
Restored(s, n, d, old) ==
  LET written == s \o Scratch(n) IN
    [i \in 1..d |-> IF i <= Len(written) THEN written[i] ELSE old[i]]

\* THROW keeps its three copies of n, and above them the saved pointer, on the
\* stack it is restoring.  It stores n below the saved pointer before DSP!
\* reads that pointer back: in one depth n lands on the pointer itself.
Collides(s, d) == d = Len(s) + 3

\* n THROW with s beneath n: unwind to the topmost frame, marker at m, or,
\* with none left, a message and QUIT.  The pointer lost, the next push faults
\* and the CPU exception is all that is followed.
Uncaught(s) ==
  /\ Markers = {}
  /\ xt' = Op("quit") /\ ds' = s
  /\ UNCHANGED << nip, rs >>

Caught(n, s, m) ==
  /\ m \in Markers /\ Topmost(m)
  /\ rs' = SubSeq(rs, 1, m - 3)
  /\ LET d == rs[m - 1][2] IN
       IF Collides(s, d)
         THEN xt' = Op("lost") /\ ds' = s /\ UNCHANGED nip
         ELSE /\ \E old \in [Len(s) + 7..d -> Stale] : ds' = Push(Restored(s, n, d, old), n)
              /\ NextAt(rs[m - 2])

Throw(n, s) == Uncaught(s) \/ \E m \in Markers : Caught(n, s, m)

ThrowWord ==
  /\ xt.op = "throw" /\ Top(ds) # 0
  /\ Throw(Top(ds), Pop(ds))
  /\ UNCHANGED << input, state, tib >>

ThrowZero ==
  /\ xt.op = "throw" /\ Top(ds) \in {0, Junk}
  /\ ds' = Pop(ds)
  /\ NextAt(nip)
  /\ UNCHANGED << rs, input, state, tib >>

----------------------------------------------------------------------------
(* EVALUATE.                                                               *)

\* SAVE-INPUT leaves six cells on the data stack, under whatever the text does.
SavedSwapped == << inbuf, to_in, srcid, srclen, Magic, 5 >>   \* slip: two cells swapped
SavedInput == << inbuf, to_in, srclen, srcid, Magic, 5 >>

Evaluate ==
  /\ xt.op = "evaluate"
  /\ rs' = Push(rs, nip)
  /\ ds' = ds \o SavedInput
  /\ inbuf' = xt.arg /\ to_in' = 0 /\ srclen' = Len(Source[xt.arg]) /\ srcid' = -1
  /\ NextAt(<< "evaluate", 1 >>)
  /\ UNCHANGED << state, tib >>

\* After INTERPRET, `eof? if restore-input exit then again`.
Eof ==
  /\ xt.op = "eof?"
  /\ NextAt(IF to_in > srclen THEN nip ELSE << "evaluate", 1 >>)
  /\ UNCHANGED << rs, ds, input, state, tib >>

\* RESTORE-INPUT checks the count, then the marker, before it restores.
Mismatch == Top(ds) # 5 \/ Top(Pop(ds)) # Magic

RestoreInput ==
  /\ xt.op = "restore-input" /\ rs # << >>
  /\ ~ Mismatch
  /\ LET b == Len(ds) IN
       /\ srcid' = ds[b - 2] /\ srclen' = ds[b - 3]
       /\ to_in' = ds[b - 4] /\ inbuf' = ds[b - 5]
       /\ ds' = SubSeq(ds, 1, b - 6)
  /\ NextAt(Top(rs))
  /\ rs' = Pop(rs)
  /\ UNCHANGED << state, tib >>

StackMismatch ==
  /\ xt.op = "restore-input"
  /\ Mismatch
  /\ Throw(-1, IF Top(ds) # 5 THEN Pop(ds) ELSE Pop(Pop(ds)))
  /\ UNCHANGED << input, state, tib >>

----------------------------------------------------------------------------
Machine ==
  \/ InterpretEnd \/ InterpretWord \/ InterpretNumber \/ InterpretCompile
  \/ ParseError \/ Quit \/ RefillBranch \/ QuitLoop
  \/ Call \/ Exit \/ Lit \/ Drop \/ Rdrop \/ Brackets
  \/ Catch \/ ThrowWord \/ ThrowZero
  \/ Evaluate \/ Eof \/ RestoreInput \/ StackMismatch

Next == Machine \/ Refill \/ Restart

Spec == Init /\ [][Next]_vars

\* The CPU keeps executing cells; nothing is assumed of the keyboard.
FairSpec == Spec /\ WF_vars(Machine) /\ WF_vars(Fault)

----------------------------------------------------------------------------
(* Properties.                                                             *)

MachineCell ==
  {Op(o) : o \in {"interpret", "refill", "0branch", "more?", "exit", "eof?",
                  "restore-input", "rdrop", "lost"}}

\* The types of the registers, the stacks and the input source.
TypeOK ==
  /\ nip \in (Words \union BuiltInNames) \X Nat
  /\ xt \in UserCell \union MachineCell
  /\ rs \in Seq((Words \union BuiltInNames \union {"dsp"}) \X Nat)
  /\ ds \in Seq(Cells)
  /\ inbuf \in Buffers /\ to_in \in Nat /\ srclen \in Nat /\ srcid \in {0, -1}
  /\ state \in {0, 1}
  /\ tib \in Seq(Tokens)

\* Whatever was evaluated, caught, thrown or abandoned, the return stack is
\* empty whenever QUIT is about to read a line: no nesting leaks into the
\* prompt, and EXIT never pops a return stack that is empty.  (QUIT's second
\* branch has a wrong offset and its loop an EXIT: neither is ever reached.)
PromptUnnested ==
  /\ xt.op \in {"refill", "0branch", "more?"} => rs = << >>
  /\ xt.op \in {"exit", "rdrop", "restore-input"} => rs # << >>

\* Every entry of the return stack is a return address or belongs to a catch
\* frame, and a frame is complete: a return address, a depth, the marker.
\* What THROW unwinds to is therefore always a CATCH still running, and what
\* EXCEPTION-MARKER drops is always a saved depth.
CatchFrames ==
  /\ \A i \in 1..Len(rs) :
       \/ Address(rs[i]) /\ rs[i] # Marker
       \/ rs[i] = Marker /\ i >= 3 /\ rs[i - 1][1] = "dsp"
       \/ /\ rs[i][1] = "dsp" /\ i >= 2 /\ Address(rs[i - 1]) /\ rs[i - 1] # Marker
          /\ i < Len(rs) => rs[i + 1] = Marker
  /\ xt.op = "rdrop" <=> (rs # << >> /\ Top(rs)[1] = "dsp")

\* The source id always tells what the input buffer is, over every order of
\* saving, restoring, resetting and unwinding: 0 for the terminal and the
\* boot text, -1 for an evaluated string.  (Of a program that neither throws
\* the marker nor digs too deep under a CATCH: see Tampers.)
SourceIdTells == srcid = -1 <=> inbuf \in Texts

\* The return stack read from the bottom up: a return address is a call in
\* progress, a saved depth the guard of the call just below it.
Onto(v, c) ==
  CASE c[1] = "dsp" -> [v EXCEPT !.guards =
                          Append(@, [before |-> Len(v.calls) - 1, depth |-> c[2]])]
    [] c = Marker   -> v
    [] OTHER        -> [v EXCEPT !.calls = Append(@, c)]
View(s) ==
  LET upto[i \in 0..Len(s)] ==
        IF i = 0 THEN [calls |-> << >>, guards |-> << >>] ELSE Onto(upto[i - 1], s[i])
  IN  upto[Len(s)]

\* CATCH and THROW, as cells interleaved with return addresses on one return
\* stack, keep the promise of module Exceptions: a return never crosses a
\* guard, a THROW abandons exactly what the innermost CATCH covers and gives
\* back the depth saved by that CATCH.  (Where THROW loses the pointer, see
\* CaughtThrowKeepsStack, the machine counts as started afresh: it does so
\* by the CPU exception that follows.)
Lost == xt.op = "lost"
Promise == INSTANCE Exceptions WITH
  Fresh  <- {<< "quit", 2 >>, << "start", 2 >>},
  calls  <- IF Lost THEN << >> ELSE View(rs).calls,
  guards <- IF Lost THEN << >> ELSE View(rs).guards,
  depth  <- Len(ds),
  at     <- IF Lost THEN << "start", 2 >> ELSE nip
KeepsPromise == Promise!Spec

\* The prompt always comes back, unless CPU exceptions keep restarting it.
PromptReturns == <>[][~ Restart]_vars => []<>(xt.op = "refill")

----------------------------------------------------------------------------
(* The inductive invariant behind PromptUnnested, CatchFrames and          *)
(* SourceIdTells.                                                          *)

\* A word of the machine's own code is the cell just before nip, and behind
\* a word that comes back there is a cell to come back to.
Fetched ==
  /\ xt \in MachineCell /\ ~ Lost =>
       /\ nip[2] >= 2 /\ Address(<< nip[1], nip[2] - 1 >>)
       /\ xt = CellAt(<< nip[1], nip[2] - 1 >>)
  /\ xt \in UserCell /\ xt.op # "quit" => Address(nip)
  /\ nip # Marker

\* The code of QUIT and of the cold start runs under everything else, and only
\* there: its INTERPRET is at the bottom of the return stack or, with nothing
\* on the stack, where NIP points.
Base == {"start", "quit"}
Resume == {<< "start", 1 >>, << "quit", 3 >>}
Bottom ==
  /\ \A i \in 1..Len(rs) : IF i = 1 THEN rs[i] \in Resume ELSE rs[i][1] \notin Base
  /\ xt.op \notin {"quit", "lost"} => (nip[1] \in Base <=> rs = << >>)
  /\ xt \in UserCell /\ xt.op # "quit" /\ nip[1] \in Base => nip \in Resume

\* QUIT's loop goes round by REFILL alone.
QuitLoops ==
  /\ xt.op = "0branch" => ds # << >> /\ Top(ds) = 13
  /\ xt.op = "more?" => to_in > srclen
  /\ xt.op = "exit" => nip[1] # "quit"

\* Under every marker SAVE-INPUT left on a data stack lies an input source.
SavedAt(s, i) ==
  /\ i > 4
  /\ s[i - 4] \in Buffers /\ s[i - 3] \in Nat /\ s[i - 2] \in Nat
  /\ s[i - 1] = IF s[i - 4] \in Texts THEN -1 ELSE 0
WellSaved(s) == \A i \in 1..Len(s) : s[i] = Magic => SavedAt(s, i)

IInv ==
  /\ TypeOK /\ Fetched /\ Bottom /\ QuitLoops /\ CatchFrames
  /\ WellSaved(ds) /\ SourceIdTells

\* Two things a program must not do lest RESTORE-INPUT take other cells for an
\* input source.  It can forge the marker of SAVE-INPUT by throwing it as a code.
Forges == xt.op = "throw" /\ Top(ds) = Magic

\* And it can throw from more than six cells below the depth of the CATCH: the
\* topmost of those cells come back untouched (a marker and a count among them)
\* over others that THROW has overwritten.
Throwing ==
  \/ xt.op = "throw" /\ Top(ds) # 0
  \/ xt.op = "restore-input" /\ Mismatch
Beneath == IF xt.op = "throw" \/ Top(ds) # 5 THEN Pop(ds) ELSE Pop(Pop(ds))
Digs == Throwing /\ \E m \in Markers : Topmost(m) /\ rs[m - 1][2] > Len(Beneath) + 6

Tampers == Forges \/ Digs

----------------------------------------------------------------------------
(* What the source says of itself and the model refutes.                   *)

\* THROW of a code that some CATCH catches restores the data stack of that
\* CATCH, under the code (armforth.S:2647, "the stack is restored to the state
\* from the corresponding catch").
CaughtThrowKeepsStack ==
  [][\A m \in Markers :
       xt.op = "throw" /\ Top(ds) \notin {0, Junk} /\ Topmost(m)
         => Restart \/ Len(ds') = rs[m - 1][2] + 1]_vars

\* REFILL makes the line it read the input buffer (armforth.S:1817).
RefillMakesInput == xt.op = "refill" => inbuf = TIB
=============================================================================
