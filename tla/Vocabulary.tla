----------------------------- MODULE Vocabulary -----------------------------
(***************************************************************************)
(* What the dictionary promises, without addresses or links: a sequence of *)
(* definitions, oldest first.  A name means the youngest visible           *)
(* definition that has it.                                                 *)
(***************************************************************************)
EXTENDS Integers, Sequences

CONSTANT Kept   \* how many definitions a restart keeps: the built-in ones

VARIABLE words  \* records [name, hidden, immediate]

Visible(n) == {i \in 1..Len(words) : words[i].name = n /\ ~ words[i].hidden}

\* What is found under a name: one definition, or none.
Meaning(n) == {i \in Visible(n) : \A j \in Visible(n) : j <= i}

Init == Len(words) = Kept

Define(w) == ~ w.immediate /\ words' = Append(words, w)

\* `;` toggles what was defined last, whether it was open or not.
ToggleLast ==
  LET z == Len(words) IN
    \/ words' = [words EXCEPT ![z].hidden = ~ @]
    \/ words' = [words EXCEPT ![z].immediate = ~ @]

\* Only a visible definition is found, so the toggle hides it.
Hide(n) == \E i \in Meaning(n) : words' = [words EXCEPT ![i].hidden = ~ @]

\* A definition goes together with everything younger.
Forget(n) == \E i \in Meaning(n) : i > Kept /\ words' = SubSeq(words, 1, i - 1)

Reset == words' = SubSeq(words, 1, Kept)

InUse == {words[i].name : i \in 1..Len(words)}

Next ==
  \/ \E w \in {words'[Len(words')]} : Define(w)
  \/ ToggleLast \/ Reset
  \/ \E n \in InUse : Hide(n) \/ Forget(n)

Spec == Init /\ [][Next]_words
=============================================================================
