---------------------------- MODULE ControlFlow ----------------------------
(***************************************************************************)
(* The control structures of AApen (src/src/boot0.f): what IF, BEGIN, DO   *)
(* and CASE with their kin lay down while a definition is compiled, and    *)
(* the addresses and marks they leave for one another on the data stack.   *)
(*                                                                         *)
(* Each word of the definition is an action.  What the compiled code does  *)
(* is compared with what the text says.  Addresses count cells from the    *)
(* beginning of the definition's body; branches are relative to the cell   *)
(* that holds the offset, as BRANCH and 0BRANCH take them.                 *)
(***************************************************************************)
EXTENDS Integers, Sequences, FiniteSets, SequencesExt

CONSTANTS
  Length,   \* a bound: the words of a definition
  Below     \* what the program has on the data stack

ASSUME BoundAssumption == Length \in Nat /\ Below \in Nat

VARIABLES
  code,    \* the cells laid down
  stack,   \* the data stack: addresses, flags of loops, marks of CASE
  text,    \* history: the words compiled
  at,      \* history: HERE when each of them came
  nest     \* history: the structures that are open

vars == << code, stack, text, at, nest >>

Here == Len(code) + 1
Cell(op) == [op |-> op, off |-> 0]
Words(ops) == [i \in 1..Len(ops) |-> Cell(ops[i])]
Offset(n) == [op |-> "offset", off |-> n]
Hole == Offset(0)

Empty ==
  /\ code = << >> /\ stack = << Below >>
  /\ text = << >> /\ at = << >> /\ nest = << >>
Init == Empty

----------------------------------------------------------------------------
(* What the words have in common.                                          *)

\* A bound: there is room for the words that close what is open.
RoomLeft == Len(text) + Len(nest) < Length
Opening == RoomLeft /\ Len(text) + Len(nest) + 1 < Length

Compile(word) ==
  /\ text' = Append(text, word) /\ at' = Append(at, Here)

Within(kinds) == nest # << >> /\ Last(nest) \in kinds
Begins(kind) == Opening /\ nest' = Append(nest, kind)
Turns(kind) == RoomLeft /\ nest' = Append(Front(nest), kind)
Ends == nest' = Front(nest)

\* Slip: an offset counted from the branch and not from the cell behind it.
PatchedLong(c, a) == [c EXCEPT ![a].off = Len(c) + 1 - a + 1]
\* here swap - swap !
Patched(c, a) == [c EXCEPT ![a].off = Len(c) + 1 - a]

\* Branch laid down behind what `before` compiles; its hole is left for later.
Forward(before, branch) == code \o Words(before) \o << Cell(branch), Hole >>
HoleOf(c) == Len(c)

\* here - ,
Back(c, a) == Append(c, Offset(a - (Len(c) + 1)))

----------------------------------------------------------------------------
(* IF and its kin.                                                         *)

Plain == RoomLeft /\ Compile("word") /\ code' = Append(code, Cell("word")) /\ UNCHANGED << stack, nest >>

If ==
  /\ Compile("if") /\ Begins("if")
  /\ code' = Forward(<< >>, "0branch") /\ stack' = Append(stack, HoleOf(code'))

Unless ==
  /\ Compile("unless") /\ Begins("if")
  /\ code' = Forward(<< "not" >>, "0branch") /\ stack' = Append(stack, HoleOf(code'))

Ahead ==
  /\ Compile("ahead") /\ Begins("else")
  /\ code' = Forward(<< >>, "branch") /\ stack' = Append(stack, HoleOf(code'))

\* Slip: the hole of IF is filled before the branch over the else part is laid.
ElseEarly ==
  /\ Within({"if"}) /\ Compile("else") /\ Turns("else")
  /\ code' = Patched(code, Last(stack)) \o << Cell("branch"), Hole >>
  /\ stack' = Append(Front(stack), HoleOf(code'))

Else ==
  /\ Within({"if"}) /\ Compile("else") /\ Turns("else")
  /\ LET c == Forward(<< >>, "branch") IN
       code' = Patched(c, Last(stack)) /\ stack' = Append(Front(stack), HoleOf(c))

Then ==
  /\ Within({"if", "else"}) /\ Compile("then") /\ Ends
  /\ code' = Patched(code, Last(stack)) /\ stack' = Front(stack)

----------------------------------------------------------------------------
(* BEGIN loops.                                                            *)

Begin == Compile("begin") /\ Begins("begin") /\ stack' = Append(stack, Here) /\ UNCHANGED code

Until ==
  /\ Within({"begin"}) /\ Compile("until") /\ Ends
  /\ code' = Back(Append(code, Cell("0branch")), Last(stack)) /\ stack' = Front(stack)

Again ==
  /\ Within({"begin"}) /\ Compile("again") /\ Ends
  /\ code' = Back(Append(code, Cell("branch")), Last(stack)) /\ stack' = Front(stack)

While ==
  /\ Within({"begin"}) /\ Compile("while") /\ Turns("while")
  /\ code' = Forward(<< >>, "0branch") /\ stack' = Append(stack, HoleOf(code'))

Repeat ==
  /\ Within({"while"}) /\ Compile("repeat") /\ Ends
  /\ LET hole == Last(stack)
         start == Last(Front(stack)) IN
       code' = Patched(Back(Append(code, Cell("branch")), start), hole)
  /\ stack' = Front(Front(stack))

----------------------------------------------------------------------------
(* DO loops.  Under the address of the body lies the flag that tells ?DO   *)
(* from DO, and under that of ?DO its hole.                                *)

Do ==
  /\ Compile("do") /\ Begins("do")
  /\ code' = Append(code, Cell("(>loop-sys)")) /\ stack' = stack \o << 0, Len(code') + 1 >>

QDo ==
  /\ Compile("?do") /\ Begins("do")
  /\ code' = Forward(<< "2dup", "(>loop-sys)", "=", "not" >>, "0branch")
  /\ stack' = stack \o << HoleOf(code'), 1, Len(code') + 1 >>

EndLoop(step) ==
  LET c == Back(code \o Words(step \o << "dup", "(loop-sys-peek)", "(loop-done?)",
                                         "swap", "(loop-inc)", "0branch" >>), Last(stack))
      rest == Front(stack)
      qdo == Last(rest) # 0
  IN /\ code' = Append(IF qdo THEN Patched(c, Last(Front(rest))) ELSE c, Cell("unloop"))
     /\ stack' = IF qdo THEN Front(Front(rest)) ELSE Front(rest)

PlusLoop == Within({"do"}) /\ Compile("+loop") /\ Ends /\ EndLoop(<< >>)
Loop == Within({"do"}) /\ Compile("loop") /\ Ends /\ EndLoop(<< "lit", "1" >>)

----------------------------------------------------------------------------
(* CASE.  The holes of the ENDOFs pile up on a zero.                       *)

Case == Compile("case") /\ Begins("case") /\ stack' = Append(stack, 0) /\ UNCHANGED code

Of ==
  /\ Within({"case"}) /\ Compile("of") /\ Begins("of")
  /\ LET c == Forward(<< "over", "=" >>, "0branch") IN
       code' = Append(c, Cell("drop")) /\ stack' = Append(stack, HoleOf(c))

EndOf ==
  /\ Within({"of"}) /\ Compile("endof") /\ Ends
  /\ LET c == Forward(<< >>, "branch") IN
       code' = Patched(c, Last(stack)) /\ stack' = Append(Front(stack), HoleOf(c))

Mark == CHOOSE i \in 1..Len(stack) : stack[i] = 0 /\ \A j \in i + 1..Len(stack) : stack[j] # 0
\* Slip: only the last hole is filled.
EndCaseOnce ==
  /\ Within({"case"}) /\ Compile("endcase") /\ Ends
  /\ LET c == Append(code, Cell("drop")) IN
       IF Last(stack) = 0 THEN code' = c ELSE code' = Patched(c, Last(stack))
  /\ stack' = SubSeq(stack, 1, Mark - 1)

EndCase ==
  /\ Within({"case"}) /\ Compile("endcase") /\ Ends
  /\ LET c == Append(code, Cell("drop"))
         holes == {stack[i] : i \in Mark + 1..Len(stack)} IN
       code' = [a \in 1..Len(c) |-> IF a \in holes THEN Patched(c, a)[a] ELSE c[a]]
  /\ stack' = SubSeq(stack, 1, Mark - 1)

----------------------------------------------------------------------------

\* `;`, and the next definition begins.
Semicolon ==
  /\ nest = << >> /\ text # << >>
  /\ code' = << >> /\ text' = << >> /\ at' = << >> /\ UNCHANGED << stack, nest >>

\* A word that is not found: QUIT empties the stack, and the program goes on.
ParseError ==
  /\ code' = << >> /\ stack' = << Below >>
  /\ text' = << >> /\ at' = << >> /\ nest' = << >>

Next ==
  \/ Plain \/ If \/ Unless \/ Ahead \/ Else \/ Then
  \/ Begin \/ Until \/ Again \/ While \/ Repeat
  \/ Do \/ QDo \/ PlusLoop \/ Loop
  \/ Case \/ Of \/ EndOf \/ EndCase
  \/ Semicolon \/ ParseError

Spec == Init /\ [][Next]_vars

----------------------------------------------------------------------------
(* What the text says, by its brackets alone.                              *)

Openers == {"if", "unless", "ahead", "begin", "do", "?do", "case", "of"}
Closers == {"then", "until", "again", "repeat", "loop", "+loop", "endcase", "endof"}

Count(k, words) == Cardinality({i \in 1..k : text[i] \in words})
\* The depth of the structure word k belongs to.
Level(k) == Count(k, Openers) - Count(k - 1, Closers)

FirstAhead(k, words, l) ==
  CHOOSE j \in k + 1..Len(text) :
    /\ text[j] \in words /\ Level(j) = l
    /\ \A i \in k + 1..j - 1 : ~ (text[i] \in words /\ Level(i) = l)
Opener(k) ==
  CHOOSE j \in 1..k - 1 :
    /\ text[j] \in Openers /\ Level(j) = Level(k)
    /\ \A i \in j + 1..k - 1 : ~ (text[i] \in Openers /\ Level(i) = Level(k))

Address(k) == IF k > Len(text) THEN Here ELSE at[k]

\* Where the text goes when it does not go on behind word k.
Elsewhere(k) ==
  CASE text[k] \in {"if", "unless"} -> Address(FirstAhead(k, {"else", "then"}, Level(k)) + 1)
    [] text[k] \in {"else", "ahead"} -> Address(FirstAhead(k, {"then"}, Level(k)) + 1)
    [] text[k] = "while" -> Address(FirstAhead(k, {"repeat"}, Level(k)) + 1)
    [] text[k] = "of"    -> Address(FirstAhead(k, {"endof"}, Level(k)) + 1)
    [] text[k] = "endof" -> Address(FirstAhead(k, {"endcase"}, Level(k) - 1) + 1)
    \* behind the loop, but for its UNLOOP
    [] text[k] = "?do"   -> Address(FirstAhead(k, {"loop", "+loop"}, Level(k)) + 1) - 1
    [] text[k] \in {"until", "again", "repeat", "loop", "+loop"} -> Address(Opener(k) + 1)

\* The flags, as the program or the test in the word leaves them, that take
\* the text elsewhere.
Turning(k) ==
  CASE text[k] \in {"else", "ahead", "endof", "again", "repeat"} -> BOOLEAN
    [] text[k] \in {"unless", "?do"} -> {TRUE}
    [] text[k] \in {"if", "while", "of", "until", "loop", "+loop"} -> {FALSE}
    [] OTHER -> {}

Reads(k, flag) == IF flag \in Turning(k) THEN Elsewhere(k) ELSE Address(k + 1)

(* What the code does: BRANCH, and 0BRANCH on the flag or its NOT.         *)

Cells(k) == at[k]..Address(k + 1) - 1
Jumps(k) == {a \in Cells(k) : code[a].op \in {"branch", "0branch"}}
Takes(a, k, flag) ==
  code[a].op = "0branch" => (flag <=> \E n \in Cells(k) : code[n].op = "not")
Goes(k, flag) ==
  IF \E a \in Jumps(k) : Takes(a, k, flag)
  THEN LET a == CHOOSE a \in Jumps(k) : TRUE IN a + 1 + code[a + 1].off
  ELSE Address(k + 1)

----------------------------------------------------------------------------
(* Properties.                                                             *)

\* A definition whose structures are closed goes, from every word and for
\* every flag, where its text says, however structures are nested.
FlowFollowsText ==
  nest = << >> => \A k \in 1..Len(text), flag \in BOOLEAN : Goes(k, flag) = Reads(k, flag)

\* The structures share one stack with each other and with the program: every
\* offset not yet filled in is the business of an address on it, and when the
\* last one is closed it is as the program left it.
HolesKnown ==
  /\ \A a \in 1..Len(code) : code[a] = Hole => \E i \in 2..Len(stack) : stack[i] = a
  /\ nest = << >> => stack = << Below >>

TypeOK ==
  /\ Len(at) = Len(text) /\ \A k \in 1..Len(at) : at[k] \in 1..Here
  /\ Len(stack) > 0 /\ \A i \in 1..Len(stack) : stack[i] \in Nat
  /\ \A a \in 1..Len(code) : a + code[a].off \in 1..Here
=============================================================================
