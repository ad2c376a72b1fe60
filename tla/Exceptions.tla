----------------------------- MODULE Exceptions -----------------------------
(***************************************************************************)
(* What CATCH and THROW promise (src/src/armforth.S:2640-2697), without    *)
(* the return stack they are made of: calls nest, a CATCH guards the calls *)
(* made after it, and a THROW abandons exactly the calls its innermost     *)
(* guard covers, resumes behind that CATCH and restores its data stack.    *)
(***************************************************************************)
EXTENDS Integers, Sequences

CONSTANT Fresh   \* where the machine starts afresh, nothing in progress

VARIABLES
  calls,   \* the return addresses of the calls in progress, innermost last
  guards,  \* the CATCHes in progress: calls before it, data stack depth
  depth,   \* depth of the data stack
  at       \* the cell executed next

vars == << calls, guards, depth, at >>

After(p) == << p[1], p[2] + 1 >>

Innermost == guards[Len(guards)]
OuterGuards == SubSeq(guards, 1, Len(guards) - 1)

Init == calls = << >> /\ guards = << >> /\ depth \in Nat

\* A word that neither calls nor returns does what it likes with the stack.
Work == UNCHANGED << calls, guards >> /\ depth' \in Nat

Call ==
  /\ calls' = Append(calls, at)
  /\ depth' \in Nat
  /\ UNCHANGED guards

\* A return stays inside the innermost guard.
Return ==
  /\ Len(calls) > IF guards = << >> THEN 0 ELSE Innermost.before + 1
  /\ calls' = SubSeq(calls, 1, Len(calls) - 1)
  /\ at' = After(calls[Len(calls)])
  /\ depth' \in Nat
  /\ UNCHANGED guards

Catch ==
  /\ calls' = Append(calls, at)
  /\ guards' = Append(guards, [before |-> Len(calls), depth |-> depth])
  /\ UNCHANGED depth

\* The caught word is done and nothing it called is left.
Leave ==
  /\ guards # << >> /\ Len(calls) = Innermost.before + 1
  /\ guards' = OuterGuards
  /\ UNCHANGED << calls, depth >>

Throw ==
  /\ guards # << >>
  /\ calls' = SubSeq(calls, 1, Innermost.before)
  /\ at' = After(calls[Innermost.before + 1])
  /\ depth' = Innermost.depth + 1
  /\ guards' = OuterGuards

\* QUIT, or a restart: every call and every guard is gone.
Abandon ==
  /\ at' \in Fresh
  /\ calls' = << >> /\ guards' = << >>
  /\ depth' \in Nat

Next == Work \/ Call \/ Return \/ Catch \/ Leave \/ Throw \/ Abandon

Spec == Init /\ [][Next]_vars
=============================================================================
