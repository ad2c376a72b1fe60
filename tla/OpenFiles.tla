----------------------------- MODULE OpenFiles -----------------------------
(***************************************************************************)
(* What the file words promise the program that uses them: each file id it *)
(* was given stands for one open file, and only what the program does with *)
(* that file id changes it.                                                *)
(***************************************************************************)
EXTENDS Integers

VARIABLE open   \* file id -> [first, size, position]

Init == open = << >>

Extended(f, fid, v) == [g \in DOMAIN f \union {fid} |-> IF g = fid THEN v ELSE f[g]]
Without(f, fid) == [g \in DOMAIN f \ {fid} |-> f[g]]

\* A file id that stands for no open file, whatever became of it before.
Open(fid, file) ==
  /\ fid \notin DOMAIN open /\ file.position = 0
  /\ open' = Extended(open, fid, file)

Close(fid) == open' = Without(open, fid)

Reposition(fid, p) ==
  /\ 0 <= p /\ p <= open[fid].size
  /\ open' = [open EXCEPT ![fid].position = p]

Reset == open' = << >>

Next ==
  \/ \E fid \in DOMAIN open' : Open(fid, open'[fid])
  \/ \E fid \in DOMAIN open : Close(fid) \/ \E p \in 0..open[fid].size : Reposition(fid, p)
  \/ Reset

Spec == Init /\ [][Next]_open
=============================================================================
