----------------------- MODULE OuterInterpreter_proofs -----------------------
(***************************************************************************)
(* Proofs about OuterInterpreter, for every dictionary, every text and     *)
(* every line.                                                             *)
(***************************************************************************)
EXTENDS OuterInterpreter, LeastNumber, SequenceTheorems, TLAPS

Names == Words \union BuiltInNames

\* EXIT ends a colon definition and occurs nowhere else in it.
LEMMA UserBody ==
  ASSUME NEW w \in Words
  PROVE  /\ Body(w) = Append(Colon[w], Op("exit"))
         /\ Len(Body(w)) = Len(Colon[w]) + 1
         /\ Len(Body(w)) \in Nat /\ Len(Body(w)) >= 1
         /\ Body(w)[Len(Body(w))] = Op("exit")
         /\ \A i \in 1..Len(Body(w)) - 1 : Body(w)[i] \in UserCell
<1>1. w \notin BuiltInNames /\ Colon[w] \in Seq(UserCell)
  BY ConstantsAssumption
<1>2. Body(w) = Append(Colon[w], Op("exit"))
  BY <1>1 DEF Body
<1>3. QED
  BY <1>1, <1>2

\* The cells of the machine's own definitions.
LEMMA BuiltInBody ==
  /\ Len(Body("start")) = 2
  /\ CellAt(<< "start", 1 >>) = Op("interpret")
  /\ CellAt(<< "start", 2 >>) = Op("quit")
  /\ Len(Body("quit")) = 5
  /\ CellAt(<< "quit", 1 >>) = Op("refill")
  /\ CellAt(<< "quit", 2 >>) = Op("0branch")
  /\ CellAt(<< "quit", 3 >>) = Op("interpret")
  /\ CellAt(<< "quit", 4 >>) = Op("more?")
  /\ CellAt(<< "quit", 5 >>) = Op("exit")
  /\ Len(Body("evaluate")) = 3
  /\ CellAt(<< "evaluate", 1 >>) = Op("interpret")
  /\ CellAt(<< "evaluate", 2 >>) = Op("eof?")
  /\ CellAt(<< "evaluate", 3 >>) = Op("restore-input")
  /\ Len(Body("catch")) = 1
  /\ CellAt(<< "catch", 1 >>) = Op("exit")
  /\ Len(Body("exception_marker")) = 3
  /\ CellAt(<< "exception_marker", 1 >>) = Op("rdrop")
  /\ CellAt(<< "exception_marker", 2 >>) = [op |-> "lit", arg |-> 0]
  /\ CellAt(<< "exception_marker", 3 >>) = Op("exit")
BY DEF Body, CellAt, BuiltIn, BuiltInNames

\* The addresses inside the machine's own definitions, all of them.
Places ==
  {<< "start", 1 >>, << "start", 2 >>, << "quit", 1 >>, << "quit", 2 >>,
   << "quit", 3 >>, << "quit", 4 >>, << "quit", 5 >>, << "evaluate", 1 >>,
   << "evaluate", 2 >>, << "evaluate", 3 >>, << "catch", 1 >>,
   << "exception_marker", 1 >>, << "exception_marker", 2 >>,
   << "exception_marker", 3 >>}

LEMMA BuiltInPlaces ==
  ASSUME NEW p, Address(p), p[1] \in BuiltInNames
  PROVE  p \in Places
<1>1. p = << p[1], p[2] >> /\ p[2] \in 1..Len(Body(p[1]))
  BY DEF Address
<1>2. CASE p[1] = "start"
  <2>1. p[2] \in 1..2  BY <1>1, <1>2, BuiltInBody
  <2>2. p[2] = 1 \/ p[2] = 2  BY <2>1
  <2>3. QED  BY <1>1, <1>2, <2>2 DEF Places
<1>3. CASE p[1] = "quit"
  <2>1. p[2] \in 1..5  BY <1>1, <1>3, BuiltInBody
  <2>2. p[2] = 1 \/ p[2] = 2 \/ p[2] = 3 \/ p[2] = 4 \/ p[2] = 5  BY <2>1
  <2>3. QED  BY <1>1, <1>3, <2>2 DEF Places
<1>4. CASE p[1] = "evaluate"
  <2>1. p[2] \in 1..3  BY <1>1, <1>4, BuiltInBody
  <2>2. p[2] = 1 \/ p[2] = 2 \/ p[2] = 3  BY <2>1
  <2>3. QED  BY <1>1, <1>4, <2>2 DEF Places
<1>5. CASE p[1] = "catch"
  <2>1. p[2] \in 1..1  BY <1>1, <1>5, BuiltInBody
  <2>2. p[2] = 1  BY <2>1
  <2>3. QED  BY <1>1, <1>5, <2>2 DEF Places
<1>6. CASE p[1] = "exception_marker"
  <2>1. p[2] \in 1..3  BY <1>1, <1>6, BuiltInBody
  <2>2. p[2] = 1 \/ p[2] = 2 \/ p[2] = 3  BY <2>1
  <2>3. QED  BY <1>1, <1>6, <2>2 DEF Places
<1>7. QED
  BY <1>2, <1>3, <1>4, <1>5, <1>6 DEF BuiltInNames

\* What an address points to.
LEMMA CellType ==
  ASSUME NEW p, Address(p)
  PROVE  CellAt(p) \in UserCell \union MachineCell
<1>1. CASE p[1] \in Words
  <2>1. p[2] \in 1..Len(Body(p[1]))
    BY DEF Address
  <2>2. CASE p[2] = Len(Body(p[1]))
    BY <1>1, <2>2, UserBody DEF CellAt, MachineCell
  <2>3. CASE p[2] # Len(Body(p[1]))
    BY <1>1, <2>1, <2>3, UserBody DEF CellAt
  <2>4. QED
    BY <2>2, <2>3
<1>2. CASE p[1] \in BuiltInNames
  <2>1. CellAt(p) \in {Op("interpret"), Op("quit"), Op("refill"), Op("0branch"),
           Op("more?"), Op("exit"), Op("eof?"), Op("restore-input"), Op("rdrop"),
           [op |-> "lit", arg |-> 0]}
    BY <1>2, BuiltInPlaces, BuiltInBody DEF Places
  <2>2. QED
    BY <2>1 DEF UserCell, MachineCell, Op, Prim
<1>3. QED
  BY <1>1, <1>2 DEF Address

\* A user's cell other than QUIT has a cell behind it.
LEMMA CellBehind ==
  ASSUME NEW p, Address(p), CellAt(p) \in UserCell, CellAt(p).op # "quit"
  PROVE  Address(<< p[1], p[2] + 1 >>)
<1>1. CASE p[1] \in Words
  <2>1. p[2] \in 1..Len(Body(p[1])) /\ Len(Body(p[1])) \in Nat
    BY <1>1, UserBody DEF Address
  <2>2. p[2] # Len(Body(p[1]))
    <3>1. SUFFICES ASSUME p[2] = Len(Body(p[1])) PROVE FALSE
      OBVIOUS
    <3>2. CellAt(p) = Op("exit")
      BY <1>1, <3>1, UserBody DEF CellAt
    <3>3. QED
      BY <3>2 DEF UserCell, Op, Prim
  <2>3. QED
    BY <1>1, <2>1, <2>2 DEF Address
<1>2. CASE p[1] \in BuiltInNames
  <2>1. p = << "exception_marker", 2 >>
    BY <1>2, BuiltInPlaces, BuiltInBody, SMTT(20) DEF Places, UserCell, Op, Prim
  <2>2. p[1] = "exception_marker" /\ p[2] = 2
    BY <2>1
  <2>3. Len(Body(p[1])) = 3
    BY <2>2, BuiltInBody
  <2>4. p[2] + 1 \in 1..Len(Body(p[1]))
    BY <2>2, <2>3
  <2>5. QED
    BY <1>2, <2>4 DEF Address
<1>3. QED
  BY <1>1, <1>2 DEF Address

\* Where the machine's own words are found.
LEMMA MachinePlaces ==
  ASSUME NEW p, Address(p)
  PROVE  /\ CellAt(p) = Op("interpret") =>
              p \in {<< "start", 1 >>, << "quit", 3 >>, << "evaluate", 1 >>}
         /\ CellAt(p) = Op("refill") => p = << "quit", 1 >>
         /\ CellAt(p) = Op("0branch") => p = << "quit", 2 >>
         /\ CellAt(p) = Op("more?") => p = << "quit", 4 >>
         /\ CellAt(p) = Op("eof?") => p = << "evaluate", 2 >>
         /\ CellAt(p) = Op("restore-input") => p = << "evaluate", 3 >>
         /\ CellAt(p).op = "rdrop" => p = Marker
         /\ CellAt(p).op # "lost"
<1>1. CASE p[1] \in Words
  <2>1. CellAt(p) \in UserCell \/ CellAt(p) = Op("exit")
    <3>1. p[2] \in 1..Len(Body(p[1])) /\ Len(Body(p[1])) \in Nat
      BY <1>1, UserBody DEF Address
    <3>2. QED
      BY <1>1, <3>1, UserBody DEF CellAt
  <2>2. CellAt(p).op \in Prim \union {"lit", "call", "evaluate", "catch", "exit"}
    BY <2>1 DEF UserCell, Op
  <2>3. QED
    BY <2>2 DEF Op, Prim
<1>2. CASE p[1] \in BuiltInNames
  BY <1>2, BuiltInPlaces, BuiltInBody, SMTT(20) DEF Places, Op, Marker
<1>3. QED
  BY <1>1, <1>2 DEF Address

----------------------------------------------------------------------------
(* What a transfer of control to a proper address establishes.             *)

\* The parts of the invariant that speak of nip and xt alone.
Arrived ==
  /\ nip \in Names \X Nat
  /\ xt \in UserCell \union MachineCell
  /\ Fetched

LEMMA NextAtArrives ==
  ASSUME NEW p, Address(p), NextAt(p)
  PROVE  Arrived' /\ xt' = CellAt(p) /\ xt'.op # "lost" /\ nip' = << p[1], p[2] + 1 >>
<1>1. xt' = CellAt(p) /\ nip' = << p[1], p[2] + 1 >>
  BY DEF NextAt
<1>2. p = << p[1], p[2] >> /\ p[1] \in Names /\ p[2] \in Nat /\ p[2] >= 1
  BY UserBody, BuiltInBody DEF Address, Names, BuiltInNames
<1>3. nip' \in Names \X Nat /\ xt' \in UserCell \union MachineCell
  BY <1>1, <1>2, CellType
<1>4. nip'[2] >= 2 /\ << nip'[1], nip'[2] - 1 >> = p
  BY <1>1, <1>2
<1>5. xt' \in UserCell /\ xt'.op # "quit" => Address(nip')
  BY <1>1, CellBehind
<1>6. nip' # Marker
  BY <1>4 DEF Marker
<1>7. Fetched'
  BY <1>1, <1>4, <1>5, <1>6 DEF Fetched, Address, CellAt, Body
<1>8. QED
  BY <1>1, <1>3, <1>7, MachinePlaces DEF Arrived

----------------------------------------------------------------------------
(* Data stacks.                                                            *)

LEMMA PopType ==
  ASSUME NEW s \in Seq(Cells)
  PROVE  /\ Pop(s) \in Seq(Cells) /\ Top(s) \in Cells
         /\ Len(Pop(s)) <= Len(s)
         /\ \A i \in 1..Len(Pop(s)) : Pop(s)[i] = s[i]
BY DEF Pop, Top, Cells

\* An input source found under position i is found there in every stack that
\* agrees up to i.
LEMMA SavedAtAgrees ==
  ASSUME NEW s, NEW t, NEW i \in Nat, \A j \in 1..i : t[j] = s[j], SavedAt(s, i)
  PROVE  SavedAt(t, i)
<1>1. i > 4
  BY DEF SavedAt
<1>2. i - 1 \in 1..i /\ i - 2 \in 1..i /\ i - 3 \in 1..i /\ i - 4 \in 1..i
  BY <1>1
<1>3. t[i - 1] = s[i - 1] /\ t[i - 2] = s[i - 2] /\ t[i - 3] = s[i - 3] /\ t[i - 4] = s[i - 4]
  BY <1>2
<1>4. QED
  BY <1>1, <1>3 DEF SavedAt

\* A stack that keeps the first n cells of s and has no marker above them.
LEMMA SavedExtends ==
  ASSUME NEW s \in Seq(Cells), WellSaved(s), NEW t \in Seq(Cells),
         NEW n \in Nat, n <= Len(s), \A j \in 1..n : t[j] = s[j],
         \A j \in 1..Len(t) : j > n => t[j] # Magic
  PROVE  WellSaved(t)
<1>1. SUFFICES ASSUME NEW i \in 1..Len(t), t[i] = Magic
               PROVE  SavedAt(t, i)
  BY DEF WellSaved
<1>2. i \in Nat /\ i <= n
  BY <1>1
<1>3. s[i] = Magic /\ i \in 1..Len(s)
  BY <1>1, <1>2
<1>4. SavedAt(s, i)
  BY <1>3 DEF WellSaved
<1>5. \A j \in 1..i : t[j] = s[j]
  BY <1>2
<1>6. QED
  BY <1>2, <1>4, <1>5, SavedAtAgrees

LEMMA PopSaved ==
  ASSUME NEW s \in Seq(Cells), WellSaved(s)
  PROVE  WellSaved(Pop(s))
<1>1. Pop(s) \in Seq(Cells) /\ Len(Pop(s)) \in Nat /\ Len(Pop(s)) <= Len(s)
      /\ \A i \in 1..Len(Pop(s)) : Pop(s)[i] = s[i]
  BY PopType
<1>2. \A j \in 1..Len(Pop(s)) : ~ (j > Len(Pop(s)))
  BY <1>1
<1>3. QED
  BY <1>1, <1>2, SavedExtends

LEMMA PushSaved ==
  ASSUME NEW s \in Seq(Cells), WellSaved(s), NEW c \in Cells, c # Magic
  PROVE  Push(s, c) \in Seq(Cells) /\ WellSaved(Push(s, c))
<1>1. Push(s, c) \in Seq(Cells) /\ Len(Push(s, c)) = Len(s) + 1 /\ Len(s) \in Nat
  BY DEF Push
<1>2. \A i \in 1..Len(s) : Push(s, c)[i] = s[i]
  BY DEF Push
<1>3. Push(s, c)[Len(s) + 1] = c
  BY DEF Push
<1>4. \A j \in 1..Len(Push(s, c)) : j > Len(s) => Push(s, c)[j] # Magic
  BY <1>1, <1>3
<1>5. QED
  BY <1>1, <1>2, <1>4, SavedExtends

\* What THROW gives back: a stack of the depth saved, ...
LEMMA RestoredType ==
  ASSUME NEW s \in Seq(Cells), NEW n \in Cells, NEW d \in Nat,
         NEW old \in [Len(s) + 7..d -> Stale]
  PROVE  /\ Restored(s, n, d, old) \in Seq(Cells)
         /\ Len(Restored(s, n, d, old)) = d
<1> DEFINE written == s \o Scratch(n)
<1>1. Scratch(n) \in Seq(Cells) /\ Len(Scratch(n)) = 6
  BY DEF Scratch, Cells
<1>2. written \in Seq(Cells) /\ Len(written) = Len(s) + 6 /\ Len(s) \in Nat
  <2>1. s \o Scratch(n) \in Seq(Cells) /\ Len(s \o Scratch(n)) = Len(s) + Len(Scratch(n))
    BY <1>1, ConcatProperties, Zenon
  <2>2. QED
    BY <1>1, <2>1
<1>3. Stale \subseteq Cells
  BY ConstantsAssumption
<1>4. ASSUME NEW i \in 1..d
      PROVE  (IF i <= Len(written) THEN written[i] ELSE old[i]) \in Cells
  <2>1. CASE i <= Len(written)
    BY <1>2, <2>1
  <2>2. CASE ~ (i <= Len(written))
    <3>1. i \in Len(s) + 7..d
      BY <1>2, <2>2
    <3>2. QED
      BY <1>3, <2>2, <3>1
  <2>3. QED
    BY <2>1, <2>2
<1>5. Restored(s, n, d, old) \in [1..d -> Cells]
  BY <1>4 DEF Restored
<1>6. QED
  BY <1>5

\* ... which, if it is at most six deeper than what is left of the old one,
\* has no marker that was not there.
LEMMA RestoredSaved ==
  ASSUME NEW s \in Seq(Cells), WellSaved(s), NEW n \in Cells, n # Magic,
         NEW d \in Nat, d <= Len(s) + 6, NEW old \in [Len(s) + 7..d -> Stale]
  PROVE  WellSaved(Restored(s, n, d, old))
<1> DEFINE written == s \o Scratch(n)
           t == Restored(s, n, d, old)
<1>1. /\ Scratch(n) \in Seq(Cells) /\ Len(Scratch(n)) = 6
      /\ \A k \in 1..6 : Scratch(n)[k] # Magic
  <2>1. Junk # Magic /\ Junk \in Cells
    BY ConstantsAssumption DEF Cells
  <2>2. Scratch(n) \in Seq(Cells) /\ Len(Scratch(n)) = 6
    BY <2>1 DEF Scratch
  <2>3. \A k \in 1..6 : Scratch(n)[k] \in {n, Junk}
    BY DEF Scratch
  <2>4. QED
    BY <2>1, <2>2, <2>3
<1>2. t \in Seq(Cells) /\ Len(t) = d /\ Len(s) \in Nat
  BY RestoredType
<1>3. ASSUME NEW i \in 1..d
      PROVE  t[i] = IF i <= Len(s) THEN s[i] ELSE Scratch(n)[i - Len(s)]
  <2>1. /\ s \o Scratch(n) \in Seq(Cells)
        /\ Len(s \o Scratch(n)) = Len(s) + Len(Scratch(n))
        /\ \A k \in 1..Len(s) + Len(Scratch(n)) :
             (s \o Scratch(n))[k] = IF k <= Len(s) THEN s[k] ELSE Scratch(n)[k - Len(s)]
    BY <1>1, ConcatProperties, Zenon
  <2>2. written[i] = IF i <= Len(s) THEN s[i] ELSE Scratch(n)[i - Len(s)]
    BY <1>1, <1>2, <2>1
  <2>3. i <= Len(written)
    BY <1>1, <1>2, <2>1
  <2>4. t[i] = written[i]
    BY <2>3 DEF Restored
  <2>5. QED
    BY <2>2, <2>4
<1>4. ASSUME NEW i \in 1..d, i > Len(s)
      PROVE  t[i] # Magic
  <2>1. i - Len(s) \in 1..6
    BY <1>2, <1>4
  <2>2. t[i] = Scratch(n)[i - Len(s)]
    BY <1>2, <1>3, <1>4
  <2>3. QED
    BY <1>1, <2>1, <2>2
<1> HIDE DEF t, written
<1>5. CASE d <= Len(s)
  BY <1>2, <1>3, <1>5, SavedExtends DEF t
<1>6. CASE Len(s) < d
  <2>1. \A j \in 1..Len(s) : t[j] = s[j]
    BY <1>2, <1>3, <1>6
  <2>2. \A j \in 1..Len(t) : j > Len(s) => t[j] # Magic
    BY <1>2, <1>4
  <2>3. t \in Seq(Cells) /\ Len(s) \in Nat /\ Len(s) <= Len(s)
    BY <1>2
  <2>4. WellSaved(t)
    BY <2>1, <2>2, <2>3, SavedExtends, Zenon
  <2>5. QED
    BY <2>4 DEF t
<1>7. QED
  BY <1>2, <1>5, <1>6

LEMMA FloorSaved == Floor \in Seq(Cells) /\ WellSaved(Floor)
<1>1. Floor \in [1..Slack -> Cells] /\ Slack \in Nat
  BY ConstantsAssumption DEF Floor, Cells
<1>2. Floor \in Seq(Cells) /\ Len(Floor) = Slack
  BY <1>1
<1>3. Junk # Magic
  BY ConstantsAssumption
<1>4. \A i \in 1..Len(Floor) : Floor[i] # Magic
  BY <1>2, <1>3 DEF Floor
<1>5. QED
  BY <1>2, <1>4 DEF WellSaved

\* SAVE-INPUT leaves an input source under its marker.
LEMMA SaveInputSaved ==
  ASSUME TypeOK, SourceIdTells, WellSaved(ds)
  PROVE  ds \o SavedInput \in Seq(Cells) /\ WellSaved(ds \o SavedInput)
<1> DEFINE s == ds \o SavedInput
           n == Len(ds)
<1>1. inbuf \in Buffers /\ to_in \in Nat /\ srclen \in Nat /\ srcid \in {0, -1}
  BY DEF TypeOK
<1>2. Magic \notin Int /\ Magic \notin Buffers
  BY ConstantsAssumption
<1>3. ds \in Seq(Cells) /\ SavedInput \in Seq(Cells) /\ Len(SavedInput) = 6
  BY <1>1 DEF TypeOK, SavedInput, Cells
<1>4. SavedInput[1] = inbuf /\ SavedInput[2] = to_in /\ SavedInput[3] = srclen
      /\ SavedInput[4] = srcid /\ SavedInput[5] = Magic /\ SavedInput[6] = 5
  BY DEF SavedInput
<1>5. n \in Nat
  BY <1>3
<1>6. s \in Seq(Cells) /\ Len(s) = n + 6
      /\ \A i \in 1..n + 6 : s[i] = IF i <= n THEN ds[i] ELSE SavedInput[i - n]
  <2>1. /\ ds \o SavedInput \in Seq(Cells)
        /\ Len(ds \o SavedInput) = Len(ds) + Len(SavedInput)
        /\ \A i \in 1..Len(ds) + Len(SavedInput) :
             (ds \o SavedInput)[i] = IF i <= Len(ds) THEN ds[i] ELSE SavedInput[i - Len(ds)]
    BY <1>3, ConcatProperties, Zenon
  <2>2. QED
    BY <1>3, <2>1
<1> HIDE DEF s, n
<1>7. \A i \in 1..n : s[i] = ds[i]
  BY <1>5, <1>6
<1>8. /\ s[n + 1] = SavedInput[(n + 1) - n] /\ s[n + 2] = SavedInput[(n + 2) - n]
      /\ s[n + 3] = SavedInput[(n + 3) - n] /\ s[n + 4] = SavedInput[(n + 4) - n]
      /\ s[n + 5] = SavedInput[(n + 5) - n] /\ s[n + 6] = SavedInput[(n + 6) - n]
  BY <1>5, <1>6
<1>9. /\ s[n + 1] = inbuf /\ s[n + 2] = to_in /\ s[n + 3] = srclen
      /\ s[n + 4] = srcid /\ s[n + 5] = Magic /\ s[n + 6] = 5
  BY <1>4, <1>5, <1>8
<1>10. srcid = IF inbuf \in Texts THEN -1 ELSE 0
  BY <1>1 DEF SourceIdTells
<1>11. SUFFICES ASSUME NEW i \in 1..n + 6, s[i] = Magic
                PROVE  SavedAt(s, i)
  BY <1>6 DEF WellSaved, s
<1>12. CASE i <= n
  <2>1. ds[i] = Magic /\ i \in 1..Len(ds) /\ i \in Nat
    BY <1>5, <1>7, <1>11, <1>12 DEF n
  <2>2. SavedAt(ds, i)
    BY <2>1 DEF WellSaved
  <2>3. \A j \in 1..i : s[j] = ds[j]
    BY <1>5, <1>7, <1>12
  <2>4. QED
    BY <2>1, <2>2, <2>3, SavedAtAgrees
<1>13. CASE i = n + 5
  <2>1. i > 4 /\ i - 4 = n + 1 /\ i - 3 = n + 2 /\ i - 2 = n + 3 /\ i - 1 = n + 4
    BY <1>5, <1>13
  <2>2. QED
    BY <2>1, <1>1, <1>9, <1>10 DEF SavedAt
<1>14. CASE ~ (i <= n) /\ i # n + 5
  <2>1. i = n + 1 \/ i = n + 2 \/ i = n + 3 \/ i = n + 4 \/ i = n + 6
    BY <1>5, <1>14
  <2>2. s[i] \in Int \union Buffers
    BY <2>1, <1>1, <1>9
  <2>3. QED
    BY <2>2, <1>2, <1>11
<1>15. QED
  BY <1>12, <1>13, <1>14

----------------------------------------------------------------------------
(* Where control is, read off xt and nip.                                  *)

MachineOps ==
  {"interpret", "refill", "0branch", "more?", "exit", "eof?", "restore-input", "rdrop", "lost"}

LEMMA CellKinds ==
  ASSUME NEW c \in UserCell \union MachineCell
  PROVE  /\ c.op \in MachineOps => c \in MachineCell /\ c = Op(c.op)
         /\ c.op \notin MachineOps => c \in UserCell
         /\ c \in UserCell <=> c \notin MachineCell
BY DEF UserCell, MachineCell, MachineOps, Op, Prim

LEMMA BaseCells ==
  ASSUME NEW p, Address(p), p[1] \in Base
  PROVE  /\ p[1] \in BuiltInNames /\ p # Marker
         /\ CellAt(p) \in UserCell => CellAt(p).op = "quit"
<1>1. p[1] \in BuiltInNames
  BY DEF Base, BuiltInNames
<1>2. p \in Places
  BY <1>1, BuiltInPlaces
<1>3. p \in {<< "start", 1 >>, << "start", 2 >>, << "quit", 1 >>, << "quit", 2 >>,
             << "quit", 3 >>, << "quit", 4 >>, << "quit", 5 >>}
  BY <1>2 DEF Places, Base
<1>4. CellAt(p).op \in {"interpret", "quit", "refill", "0branch", "more?", "exit"}
  BY <1>3, BuiltInBody DEF Op
<1>5. CellAt(p) \in UserCell => CellAt(p).op \notin MachineOps
  BY CellKinds, CellType
<1>6. QED
  BY <1>1, <1>3, <1>4, <1>5 DEF Marker, MachineOps

\* A word of the machine's own code tells where nip is.
LEMMA MachineAt ==
  ASSUME nip \in Names \X Nat, xt \in UserCell \union MachineCell, Fetched
  PROVE  /\ xt.op = "interpret" =>
              nip \in {<< "start", 2 >>, << "quit", 4 >>, << "evaluate", 2 >>}
         /\ xt.op = "refill" => nip = << "quit", 2 >>
         /\ xt.op = "0branch" => nip = << "quit", 3 >>
         /\ xt.op = "more?" => nip = << "quit", 5 >>
         /\ xt.op = "eof?" => nip = << "evaluate", 3 >>
         /\ xt.op = "restore-input" => nip = << "evaluate", 4 >>
         /\ xt.op = "rdrop" => nip = << "exception_marker", 2 >>
<1> DEFINE p == << nip[1], nip[2] - 1 >>
<1>1. SUFFICES ASSUME xt.op \in MachineOps, xt.op # "lost"
               PROVE  /\ xt.op = "interpret" =>
                            p \in {<< "start", 1 >>, << "quit", 3 >>, << "evaluate", 1 >>}
                      /\ xt.op = "refill" => p = << "quit", 1 >>
                      /\ xt.op = "0branch" => p = << "quit", 2 >>
                      /\ xt.op = "more?" => p = << "quit", 4 >>
                      /\ xt.op = "eof?" => p = << "evaluate", 2 >>
                      /\ xt.op = "restore-input" => p = << "evaluate", 3 >>
                      /\ xt.op = "rdrop" => p = << "exception_marker", 1 >>
  <2>1. nip[2] \in Nat /\ nip = << nip[1], nip[2] >>
    OBVIOUS
  <2>2. ASSUME NEW w, NEW k \in Nat, p = << w, k >>
        PROVE  nip = << w, k + 1 >>
    <3>1. nip[1] = w /\ nip[2] - 1 = k
      BY <2>2
    <3>2. nip[2] = k + 1
      BY <2>1, <3>1
    <3>3. QED
      BY <2>1, <3>1, <3>2
  <2>3. QED
    BY <1>1, <2>2 DEF MachineOps
<1>2. xt \in MachineCell /\ xt = Op(xt.op) /\ ~ Lost
  BY <1>1, CellKinds DEF Lost
<1>3. Address(p) /\ CellAt(p) = Op(xt.op)
  BY <1>2 DEF Fetched
<1>4. QED
  BY <1>2, <1>3, MachinePlaces DEF Marker

\* Arriving elsewhere than behind QUIT's tests.
LEMMA LoopsAway ==
  ASSUME NEW p, Address(p), NextAt(p),
         p \notin {<< "quit", 2 >>, << "quit", 4 >>, << "quit", 5 >>}
  PROVE  QuitLoops'
<1>1. xt' = CellAt(p) /\ nip' = << p[1], p[2] + 1 >> /\ xt' \in UserCell \union MachineCell
  BY CellType DEF NextAt
<1>2. xt'.op # "0branch" /\ xt'.op # "more?"
  BY <1>1, CellKinds, MachinePlaces DEF MachineOps
<1>3. ASSUME xt'.op = "exit", nip'[1] = "quit"
      PROVE  FALSE
  <2>1. p[1] = "quit"
    BY <1>1, <1>3
  <2>2. p \in {<< "quit", 1 >>, << "quit", 3 >>}
    BY <2>1, BuiltInPlaces DEF Places, BuiltInNames
  <2>3. QED
    BY <1>1, <1>3, <2>2, BuiltInBody DEF Op
<1>4. QED
  BY <1>2, <1>3 DEF QuitLoops

----------------------------------------------------------------------------
(* The return stack through a jump, a return and a call.                   *)

Entries == (Names \union {"dsp"}) \X Nat

Control ==
  /\ Arrived /\ rs \in Seq(Entries)
  /\ Bottom /\ QuitLoops /\ CatchFrames

LEMMA Prefix ==
  ASSUME NEW S, NEW s \in Seq(S), NEW n \in Nat, n <= Len(s)
  PROVE  /\ SubSeq(s, 1, n) \in Seq(S) /\ Len(SubSeq(s, 1, n)) = n
         /\ \A i \in 1..n : SubSeq(s, 1, n)[i] = s[i]
OBVIOUS

LEMMA PopEntries ==
  ASSUME rs \in Seq(Entries), rs # << >>
  PROVE  /\ Pop(rs) \in Seq(Entries) /\ Len(Pop(rs)) = Len(rs) - 1
         /\ \A i \in 1..Len(rs) - 1 : Pop(rs)[i] = rs[i]
         /\ Top(rs) = rs[Len(rs)] /\ Len(rs) \in Nat /\ Len(rs) >= 1
<1>1. Len(rs) \in Nat /\ Len(rs) >= 1 /\ \A i \in 1..Len(rs) : rs[i] \in Entries
  OBVIOUS
<1>2. Pop(rs) = SubSeq(rs, 1, Len(rs) - 1) /\ Top(rs) = rs[Len(rs)]
  BY DEF Pop, Top
<1>3. Len(rs) - 1 \in Nat /\ Len(rs) - 1 <= Len(rs)
  BY <1>1
<1>4. /\ SubSeq(rs, 1, Len(rs) - 1) \in Seq(Entries)
      /\ Len(SubSeq(rs, 1, Len(rs) - 1)) = Len(rs) - 1
      /\ \A i \in 1..Len(rs) - 1 : SubSeq(rs, 1, Len(rs) - 1)[i] = rs[i]
  BY <1>3, Prefix, Zenon
<1>5. QED
  BY <1>1, <1>2, <1>4, Zenon

LEMMA MarkerAddress ==
  /\ Address(Marker) /\ CellAt(Marker) = Op("rdrop")
  /\ Marker[1] \notin Base /\ Marker[1] # "dsp"
  /\ \A p : Address(p) => p \in Names \X Nat /\ p[1] # "dsp"
<1>1. Marker[1] = "exception_marker" /\ Marker[2] = 1 /\ Marker = << Marker[1], Marker[2] >>
  BY DEF Marker
<1>2. Address(Marker)
  <2>1. Len(Body(Marker[1])) = 3
    BY <1>1, BuiltInBody
  <2>2. Marker[2] \in 1..Len(Body(Marker[1]))
    BY <1>1, <2>1
  <2>3. QED
    BY <1>1, <2>2 DEF Address, BuiltInNames
<1>3. ASSUME NEW p, Address(p)
      PROVE  p \in Names \X Nat /\ p[1] # "dsp"
  <2>1. p = << p[1], p[2] >> /\ p[1] \in Names /\ p[2] \in Nat
    BY <1>3, UserBody, BuiltInBody DEF Address, Names, BuiltInNames
  <2>2. "dsp" \notin Names
    BY ConstantsAssumption DEF Names, BuiltInNames
  <2>3. QED
    BY <2>1, <2>2
<1>4. QED
  BY <1>1, <1>2, <1>3, BuiltInBody DEF Marker, Base

\* A jump that leaves the return stack alone.
LEMMA Proceeds ==
  ASSUME Control, xt.op \notin {"quit", "lost", "rdrop"},
         NEW p, Address(p), p # Marker, NextAt(p), rs' = rs,
         p[1] \in Base <=> nip[1] \in Base
  PROVE  Arrived' /\ rs' \in Seq(Entries) /\ Bottom' /\ CatchFrames'
<1>1. Arrived' /\ xt' = CellAt(p) /\ nip' = << p[1], p[2] + 1 >>
  BY NextAtArrives
<1>2. Bottom'
  <2>1. \A i \in 1..Len(rs) : IF i = 1 THEN rs[i] \in Resume ELSE rs[i][1] \notin Base
    BY DEF Control, Bottom
  <2>2. nip'[1] \in Base <=> rs' = << >>
    BY <1>1 DEF Control, Bottom
  <2>3. ~ (xt' \in UserCell /\ xt'.op # "quit" /\ nip'[1] \in Base)
    BY <1>1, BaseCells
  <2>4. QED
    BY <2>1, <2>2, <2>3 DEF Bottom
<1>3. CatchFrames'
  <2>1. xt'.op # "rdrop"
    BY <1>1, MachinePlaces
  <2>2. QED
    BY <2>1 DEF CatchFrames, Control, Top
<1>4. QED
  BY <1>1, <1>2, <1>3 DEF Control

\* The return stack cut below an address, and control gone to it: a return, or
\* the end of an unwinding.
LEMMA ReturnsTo ==
  ASSUME Control, NEW n \in 1..Len(rs), rs[n][1] # "dsp",
         NextAt(rs[n]), rs' = SubSeq(rs, 1, n - 1)
  PROVE  Control'
<1> DEFINE p == rs[n]
<1>1. /\ n \in Nat /\ n >= 1 /\ Len(rs) \in Nat /\ n <= Len(rs)
      /\ rs' \in Seq(Entries) /\ Len(rs') = n - 1
      /\ \A i \in 1..n - 1 : rs'[i] = rs[i]
  <2>1. rs \in Seq(Entries) /\ n - 1 \in Nat /\ n - 1 <= Len(rs) /\ n <= Len(rs)
    BY DEF Control
  <2>2. QED
    BY <2>1, Prefix
<1>3. Address(p)
  BY <1>1, MarkerAddress DEF Control, CatchFrames
<1>4. Arrived' /\ xt' = CellAt(p) /\ nip' = << p[1], p[2] + 1 >>
  BY <1>1, <1>3, NextAtArrives
<1>5. IF n = 1 THEN p \in Resume ELSE p[1] \notin Base
  BY <1>1 DEF Control, Bottom
<1>6. QuitLoops'
  <2>1. p \notin {<< "quit", 2 >>, << "quit", 4 >>, << "quit", 5 >>}
    BY <1>5 DEF Resume, Base
  <2>2. QED
    BY <1>1, <1>3, <2>1, LoopsAway
<1>7. Bottom'
  <2>1. \A i \in 1..Len(rs') : IF i = 1 THEN rs'[i] \in Resume ELSE rs'[i][1] \notin Base
    BY <1>1 DEF Control, Bottom
  <2>2. p[1] \in Base <=> n = 1
    BY <1>5 DEF Resume, Base
  <2>3. rs' = << >> <=> n = 1
    BY <1>1
  <2>4. ~ (xt' \in UserCell /\ xt'.op # "quit" /\ nip'[1] \in Base)
    BY <1>3, <1>4, BaseCells
  <2>5. QED
    BY <1>4, <2>1, <2>2, <2>3, <2>4 DEF Bottom
<1>8. CatchFrames'
  <2>1. ASSUME NEW i \in 1..Len(rs')
        PROVE  \/ Address(rs'[i]) /\ rs'[i] # Marker
               \/ rs'[i] = Marker /\ i >= 3 /\ rs'[i - 1][1] = "dsp"
               \/ /\ rs'[i][1] = "dsp" /\ i >= 2 /\ Address(rs'[i - 1]) /\ rs'[i - 1] # Marker
                  /\ i < Len(rs') => rs'[i + 1] = Marker
    <3>1. i \in 1..n - 1 /\ i \in 1..Len(rs) /\ rs'[i] = rs[i]
      BY <1>1
    <3>2. i > 1 => rs'[i - 1] = rs[i - 1]
      BY <1>1, <3>1
    <3>3. i < Len(rs') => i < Len(rs) /\ rs'[i + 1] = rs[i + 1]
      BY <1>1, <3>1
    <3>4. QED
      BY <3>1, <3>2, <3>3 DEF Control, CatchFrames
  <2>2. ASSUME xt'.op = "rdrop"
        PROVE  rs' # << >> /\ Top(rs')[1] = "dsp"
    <3>1. p = Marker
      BY <1>3, <1>4, <2>2, MachinePlaces
    <3>2. n >= 3 /\ rs[n - 1][1] = "dsp"
      BY <1>1, <3>1, MarkerAddress DEF Control, CatchFrames
    <3>3. QED
      BY <1>1, <3>2 DEF Top
  <2>3. ASSUME rs' # << >>, Top(rs')[1] = "dsp"
        PROVE  xt'.op = "rdrop"
    <3>1. n - 1 \in 1..Len(rs) /\ n - 1 < Len(rs) /\ rs[n - 1][1] = "dsp"
      BY <1>1, <2>3 DEF Top
    <3>2. rs[n - 1 + 1] = Marker
      BY <3>1, MarkerAddress DEF Control, CatchFrames
    <3>3. p = Marker
      BY <1>1, <3>2
    <3>4. QED
      BY <1>4, <3>3, MarkerAddress DEF Op
  <2>4. QED
    BY <2>1, <2>2, <2>3 DEF CatchFrames
<1>9. QED
  BY <1>1, <1>4, <1>6, <1>7, <1>8 DEF Control

\* A return to the top of the return stack.
LEMMA Returns ==
  ASSUME Control, rs # << >>, xt.op # "rdrop", NextAt(Top(rs)), rs' = Pop(rs)
  PROVE  Control'
<1>1. Len(rs) \in 1..Len(rs) /\ Top(rs) = rs[Len(rs)] /\ rs' = SubSeq(rs, 1, Len(rs) - 1)
  BY PopEntries DEF Control, Pop
<1>2. rs[Len(rs)][1] # "dsp"
  BY <1>1 DEF Control, CatchFrames
<1>3. QED
  BY <1>1, <1>2, ReturnsTo

\* A call: the address behind the caller is pushed.
LEMMA Calls ==
  ASSUME Control, xt \in UserCell, xt.op # "quit",
         NEW w \in Words \union {"evaluate"}, NextAt(<< w, 1 >>), rs' = Push(rs, nip)
  PROVE  Control'
<1> DEFINE n == Len(rs)
           p == << w, 1 >>
<1>1. /\ n \in Nat /\ nip \in Entries /\ Address(nip) /\ nip # Marker /\ nip[1] # "dsp"
  BY MarkerAddress DEF Control, Arrived, Fetched, Entries, Names
<1>2. /\ rs' \in Seq(Entries) /\ Len(rs') = n + 1 /\ rs'[n + 1] = nip
      /\ \A i \in 1..n : rs'[i] = rs[i]
  BY <1>1 DEF Control, Push
<1>3. p[1] = w /\ p[2] = 1 /\ p = << p[1], p[2] >>
  OBVIOUS
<1>4. Address(p)
  <2>1. Len(Body(w)) \in Nat /\ Len(Body(w)) >= 1
    <3>1. CASE w \in Words
      BY <3>1, UserBody
    <3>2. CASE w = "evaluate"
      BY <3>2, BuiltInBody
    <3>3. QED
      BY <3>1, <3>2
  <2>2. QED
    BY <1>3, <2>1 DEF Address, BuiltInNames
<1>5. w \notin Base /\ p # Marker
  BY ConstantsAssumption DEF Base, BuiltInNames, Marker
<1>6. Arrived' /\ xt' = CellAt(p) /\ nip' = << w, 2 >> /\ xt'.op # "rdrop"
  BY <1>3, <1>4, <1>5, NextAtArrives, MachinePlaces
<1>7. QuitLoops'
  BY <1>3, <1>4, <1>5, LoopsAway DEF Base
<1>8. Bottom'
  <2>1. n = 0 => nip \in Resume
    BY <1>1 DEF Control, Bottom, UserCell, Prim
  <2>2. n > 0 => nip[1] \notin Base
    BY <1>1 DEF Control, Bottom, UserCell, Prim
  <2>3. \A i \in 1..Len(rs') : IF i = 1 THEN rs'[i] \in Resume ELSE rs'[i][1] \notin Base
    BY <1>1, <1>2, <2>1, <2>2 DEF Control, Bottom
  <2>4. nip'[1] \notin Base /\ rs' # << >>
    BY <1>1, <1>2, <1>5, <1>6
  <2>5. QED
    BY <2>3, <2>4 DEF Bottom
<1>9. CatchFrames'
  <2>1. ASSUME NEW i \in 1..n
        PROVE  \/ Address(rs'[i]) /\ rs'[i] # Marker
               \/ rs'[i] = Marker /\ i >= 3 /\ rs'[i - 1][1] = "dsp"
               \/ /\ rs'[i][1] = "dsp" /\ i >= 2 /\ Address(rs'[i - 1]) /\ rs'[i - 1] # Marker
                  /\ i < Len(rs') => rs'[i + 1] = Marker
    <3>1. rs'[i] = rs[i] /\ (i > 1 => rs'[i - 1] = rs[i - 1])
          /\ (i < n => rs'[i + 1] = rs[i + 1])
      <4>1. \A j \in 1..n : rs'[j] = rs[j]
        BY <1>2
      <4>2. i \in 1..n /\ (i > 1 => i - 1 \in 1..n) /\ (i < n => i + 1 \in 1..n)
        <5>1. n \in Nat
          BY <1>1
        <5> HIDE DEF n
        <5>2. QED
          BY <5>1
      <4>3. QED
        BY <4>1, <4>2, Zenon
    <3>2. rs[n][1] = "dsp" => n = 0
      BY <1>1 DEF Control, CatchFrames, UserCell, Prim, Top
    <3>3. rs[i][1] = "dsp" => i < n
      BY <1>1, <3>2
    <3>4. QED
      BY <3>1, <3>3 DEF Control, CatchFrames
  <2>2. rs' # << >> /\ Top(rs') = nip
    BY <1>1, <1>2 DEF Top
  <2>3. QED
    BY <1>1, <1>2, <1>6, <2>1, <2>2 DEF CatchFrames
<1>10. QED
  BY <1>2, <1>6, <1>7, <1>8, <1>9 DEF Control

----------------------------------------------------------------------------
(* Control through each kind of step.                                      *)

LEMMA PlacesAddresses == \A p \in Places : Address(p)
<1> SUFFICES ASSUME NEW p \in Places
             PROVE  Address(p)
  OBVIOUS
<1>1. p = << p[1], p[2] >> /\ p[1] \in BuiltInNames
  BY DEF Places, BuiltInNames
<1>2. p[2] \in 1..CASE p[1] = "start" -> 2 [] p[1] = "quit" -> 5 [] p[1] = "evaluate" -> 3
                    [] p[1] = "catch" -> 1 [] p[1] = "exception_marker" -> 3
  BY DEF Places
<1>3. p[2] \in 1..Len(Body(p[1]))
  BY <1>1, <1>2, BuiltInBody DEF BuiltInNames
<1>4. QED
  BY <1>1, <1>3 DEF Address

\* A user's cell, or a word INTERPRET executes, goes on at nip.
LEMMA UserProceeds ==
  ASSUME Control, xt \in UserCell, xt.op # "quit", NextAt(nip), rs' = rs
  PROVE  Control'
<1>1. Address(nip) /\ nip # Marker /\ xt.op \notin {"quit", "lost", "rdrop"}
  BY DEF Control, Arrived, Fetched, UserCell, Prim
<1>2. Arrived' /\ rs' \in Seq(Entries) /\ Bottom' /\ CatchFrames'
  BY <1>1, Proceeds
<1>3. nip[1] \in Base => nip \in Resume
  BY DEF Control, Bottom
<1>4. nip \notin {<< "quit", 2 >>, << "quit", 4 >>, << "quit", 5 >>}
  BY <1>3 DEF Resume, Base
<1>5. QED
  BY <1>1, <1>2, <1>4, LoopsAway DEF Control

\* INTERPRET executes a word.
LEMMA InterpretWordControl ==
  ASSUME Control, InterpretWord
  PROVE  Control'
<1> DEFINE p == << nip[1], nip[2] - 1 >>
<1>1. nip \in {<< "start", 2 >>, << "quit", 4 >>, << "evaluate", 2 >>}
  BY MachineAt DEF Control, Arrived, InterpretWord
<1>2. p \in {<< "start", 1 >>, << "quit", 3 >>, << "evaluate", 1 >>} /\ p[1] = nip[1]
  BY <1>1
<1>3. Address(p) /\ p \in Names \X Nat /\ p # Marker
  BY <1>2, PlacesAddresses, MarkerAddress DEF Places, Marker
<1>4. nip' = p /\ rs' = rs /\ xt.op = "interpret"
  BY DEF InterpretWord
<1>5. PICK t \in Words \union Prim : xt' = Lookup(t)
  BY DEF InterpretWord
<1>6. xt' \in UserCell /\ xt'.op \in Prim \union {"call"}
  BY <1>5 DEF Lookup, UserCell, Op
<1>7. xt'.op \notin MachineOps /\ xt' \notin MachineCell
  BY <1>6, CellKinds DEF Prim, MachineOps
<1>8. Arrived'
  BY <1>3, <1>4, <1>6, <1>7 DEF Arrived, Fetched, Address, Body, CellAt, Lost
<1>9. Bottom'
  <2>1. p[1] \in Base <=> rs = << >>
    BY <1>2, <1>4 DEF Control, Bottom
  <2>2. p[1] \in Base => p \in Resume
    BY <1>2 DEF Base, Resume
  <2>3. QED
    BY <1>4, <2>1, <2>2 DEF Control, Bottom
<1>10. QuitLoops'
  BY <1>7 DEF QuitLoops, MachineOps
<1>11. CatchFrames'
  BY <1>4, <1>7 DEF Control, CatchFrames, MachineOps, Top
<1>12. QED
  BY <1>4, <1>8, <1>9, <1>10, <1>11 DEF Control

\* A step inside the machine's own code, to a place of the same definition.
LEMMA Within ==
  ASSUME Control, xt.op \notin {"quit", "lost", "rdrop"},
         NEW p \in Places, p # Marker, NextAt(p), rs' = rs, p[1] = nip[1],
         p = << "quit", 2 >> => ds' # << >> /\ Top(ds') = 13,
         p = << "quit", 4 >> => to_in' > srclen',
         p # << "quit", 5 >>
  PROVE  Control'
<1>1. Address(p) /\ (p[1] \in Base <=> nip[1] \in Base)
  BY PlacesAddresses
<1>2. Arrived' /\ rs' \in Seq(Entries) /\ Bottom' /\ CatchFrames'
  BY <1>1, Proceeds
<1>3. QuitLoops'
  <2>1. CASE p = << "quit", 2 >>
    <3>1. xt' = Op("0branch")
      BY <2>1, BuiltInBody DEF NextAt
    <3>2. QED
      BY <2>1, <3>1 DEF QuitLoops, Op
  <2>2. CASE p = << "quit", 4 >>
    <3>1. xt' = Op("more?")
      BY <2>2, BuiltInBody DEF NextAt
    <3>2. QED
      BY <2>2, <3>1 DEF QuitLoops, Op
  <2>3. CASE p \notin {<< "quit", 2 >>, << "quit", 4 >>}
    BY <1>1, <2>3, LoopsAway
  <2>4. QED
    BY <2>1, <2>2, <2>3
<1>4. QED
  BY <1>2, <1>3 DEF Control

LEMMA InterpretEndControl ==
  ASSUME Control, InterpretEnd, srclen \in Nat
  PROVE  Control'
<1>1. nip \in {<< "start", 2 >>, << "quit", 4 >>, << "evaluate", 2 >>}
  BY MachineAt DEF Control, Arrived, InterpretEnd
<1>2. nip \in Places /\ nip # Marker /\ nip # << "quit", 5 >> /\ nip # << "quit", 2 >>
  BY <1>1 DEF Places, Marker
<1>3. to_in' > srclen'
  BY DEF InterpretEnd
<1>4. NextAt(nip) /\ rs' = rs /\ xt.op \notin {"quit", "lost", "rdrop"}
  BY DEF InterpretEnd
<1>5. QED
  BY <1>2, <1>3, <1>4, Within

LEMMA RefillControl ==
  ASSUME Control, Refill, ds \in Seq(Cells)
  PROVE  Control'
<1>1. nip = << "quit", 2 >>
  BY MachineAt DEF Control, Arrived, Refill
<1>2. nip \in Places /\ nip # Marker /\ nip # << "quit", 5 >> /\ nip # << "quit", 4 >>
  BY <1>1 DEF Places, Marker
<1>3. ds' # << >> /\ Top(ds') = 13
  BY DEF Refill, Push, Top
<1>4. NextAt(nip) /\ rs' = rs /\ xt.op \notin {"quit", "lost", "rdrop"}
  BY DEF Refill
<1>5. QED
  BY <1>2, <1>3, <1>4, Within

LEMMA RefillBranchControl ==
  ASSUME Control, RefillBranch
  PROVE  Control'
<1>1. nip = << "quit", 3 >>
  BY MachineAt DEF Control, Arrived, RefillBranch
<1>2. nip \in Places /\ nip # Marker /\ nip \notin {<< "quit", 2 >>, << "quit", 4 >>, << "quit", 5 >>}
  BY <1>1 DEF Places, Marker
<1>3. Top(ds) = 13
  BY DEF Control, QuitLoops, RefillBranch
<1>4. NextAt(nip) /\ rs' = rs /\ xt.op \notin {"quit", "lost", "rdrop"}
  BY <1>3 DEF RefillBranch
<1>5. QED
  BY <1>2, <1>4, Within

LEMMA QuitLoopControl ==
  ASSUME Control, QuitLoop, srclen \in Nat, to_in \in Nat
  PROVE  Control'
<1>1. nip = << "quit", 5 >>
  BY MachineAt DEF Control, Arrived, QuitLoop
<1>2. to_in > srclen
  BY DEF Control, QuitLoops, QuitLoop
<1>3. NextAt(<< "quit", 1 >>) /\ rs' = rs /\ xt.op \notin {"quit", "lost", "rdrop"}
  BY <1>2 DEF QuitLoop
<1>4. << "quit", 1 >> \in Places /\ << "quit", 1 >> # Marker
      /\ << "quit", 1 >> \notin {<< "quit", 2 >>, << "quit", 4 >>, << "quit", 5 >>}
      /\ << "quit", 1 >>[1] = nip[1]
  BY <1>1 DEF Places, Marker
<1>5. QED
  BY <1>3, <1>4, Within

LEMMA EofControl ==
  ASSUME Control, Eof
  PROVE  Control'
<1>1. nip = << "evaluate", 3 >>
  BY MachineAt DEF Control, Arrived, Eof
<1>2. PICK p \in {<< "evaluate", 1 >>, << "evaluate", 3 >>} : NextAt(p)
  BY <1>1 DEF Eof
<1>3. rs' = rs /\ xt.op \notin {"quit", "lost", "rdrop"}
  BY DEF Eof
<1>4. p \in Places /\ p # Marker /\ p \notin {<< "quit", 2 >>, << "quit", 4 >>, << "quit", 5 >>}
      /\ p[1] = nip[1]
  BY <1>1 DEF Places, Marker
<1>5. QED
  BY <1>2, <1>3, <1>4, Within

\* EXCEPTION-MARKER drops the depth its CATCH saved.
LEMMA RdropControl ==
  ASSUME Control, Rdrop
  PROVE  Control'
<1> DEFINE n == Len(rs)
           p == << "exception_marker", 2 >>
<1>1. nip = p /\ NextAt(p)
  BY MachineAt DEF Control, Arrived, Rdrop
<1>2. Address(p) /\ p # Marker
  BY PlacesAddresses DEF Places, Marker
<1>3. Arrived' /\ xt' = [op |-> "lit", arg |-> 0] /\ nip' = << "exception_marker", 3 >>
  BY <1>1, <1>2, NextAtArrives, BuiltInBody
<1>4. QuitLoops'
  BY <1>1, <1>2, LoopsAway
<1>5. /\ n \in Nat /\ n >= 1 /\ Top(rs) = rs[n] /\ rs' \in Seq(Entries) /\ Len(rs') = n - 1
      /\ \A i \in 1..n - 1 : rs'[i] = rs[i]
  BY PopEntries DEF Control, Rdrop
<1>6. rs[n][1] = "dsp"
  BY <1>5 DEF Control, CatchFrames, Rdrop
<1>7. n >= 2 /\ Address(rs[n - 1]) /\ rs[n - 1] # Marker
  BY <1>5, <1>6, MarkerAddress DEF Control, CatchFrames
<1>8. Bottom'
  <2>1. \A i \in 1..Len(rs') : IF i = 1 THEN rs'[i] \in Resume ELSE rs'[i][1] \notin Base
    BY <1>5 DEF Control, Bottom
  <2>2. rs' # << >> /\ nip'[1] \notin Base
    BY <1>3, <1>5, <1>7 DEF Base
  <2>3. QED
    BY <2>1, <2>2 DEF Bottom
<1>9. CatchFrames'
  <2>1. ASSUME NEW i \in 1..Len(rs')
        PROVE  \/ Address(rs'[i]) /\ rs'[i] # Marker
               \/ rs'[i] = Marker /\ i >= 3 /\ rs'[i - 1][1] = "dsp"
               \/ /\ rs'[i][1] = "dsp" /\ i >= 2 /\ Address(rs'[i - 1]) /\ rs'[i - 1] # Marker
                  /\ i < Len(rs') => rs'[i + 1] = Marker
    <3>1. i \in 1..n /\ rs'[i] = rs[i] /\ (i > 1 => rs'[i - 1] = rs[i - 1])
          /\ (i < Len(rs') => i < n /\ rs'[i + 1] = rs[i + 1])
      BY <1>5
    <3>2. QED
      BY <3>1 DEF Control, CatchFrames
  <2>2. Top(rs')[1] # "dsp"
    BY <1>5, <1>7, MarkerAddress DEF Top
  <2>3. QED
    BY <1>3, <2>1, <2>2 DEF CatchFrames
<1>10. QED
  BY <1>3, <1>4, <1>5, <1>8, <1>9 DEF Control

\* CATCH pushes its frame.
LEMMA FramePushed ==
  ASSUME Control, Catch, xt \in UserCell, ds \in Seq(Cells)
  PROVE  LET n == Len(rs)
         IN  /\ rs' \in Seq(Entries) /\ Len(rs') = n + 3
             /\ \A i \in 1..n : rs'[i] = rs[i]
             /\ rs'[n + 1] = nip /\ rs'[n + 2] = << "dsp", Len(ds) >> /\ rs'[n + 3] = Marker
<1> DEFINE n == Len(rs)
           saved == << "dsp", Len(ds) >>
<1>1. /\ n \in Nat /\ nip \in Entries /\ Address(nip) /\ nip # Marker /\ nip[1] # "dsp"
      /\ saved \in Entries /\ Marker \in Entries
  BY MarkerAddress DEF Control, Arrived, Fetched, Entries, Names, Catch
<1>2. /\ rs' \in Seq(Entries) /\ Len(rs') = n + 3
      /\ \A i \in 1..n : rs'[i] = rs[i]
      /\ rs'[n + 1] = nip /\ rs'[n + 2] = saved /\ rs'[n + 3] = Marker
  <2> DEFINE frame == << nip, saved, Marker >>
  <2>1. rs \in Seq(Entries) /\ frame \in Seq(Entries) /\ Len(frame) = 3
    BY <1>1 DEF Control
  <2>2. frame[1] = nip /\ frame[2] = saved /\ frame[3] = Marker
    OBVIOUS
  <2> HIDE DEF frame
  <2>3. /\ rs \o frame \in Seq(Entries) /\ Len(rs \o frame) = Len(rs) + Len(frame)
        /\ \A i \in 1..Len(rs) + Len(frame) :
             (rs \o frame)[i] = IF i <= Len(rs) THEN rs[i] ELSE frame[i - Len(rs)]
    BY <2>1, ConcatProperties, Zenon
  <2>4. rs' = rs \o frame
    BY DEF Catch, frame
  <2>5. /\ rs'[n + 1] = frame[(n + 1) - n] /\ rs'[n + 2] = frame[(n + 2) - n]
        /\ rs'[n + 3] = frame[(n + 3) - n]
    BY <1>1, <2>1, <2>3, <2>4
  <2>6. QED
    BY <1>1, <2>1, <2>2, <2>3, <2>4, <2>5
<1>3. QED
  BY <1>2

LEMMA CatchControl ==
  ASSUME Control, Catch, xt \in UserCell, ds \in Seq(Cells)
  PROVE  Control'
<1> DEFINE n == Len(rs)
           saved == << "dsp", Len(ds) >>
<1>1. /\ n \in Nat /\ nip \in Entries /\ Address(nip) /\ nip # Marker /\ nip[1] # "dsp"
      /\ saved \in Entries /\ Marker \in Entries
  BY MarkerAddress DEF Control, Arrived, Fetched, Entries, Names, Catch
<1>2. /\ rs' \in Seq(Entries) /\ Len(rs') = n + 3
      /\ \A i \in 1..n : rs'[i] = rs[i]
      /\ rs'[n + 1] = nip /\ rs'[n + 2] = saved /\ rs'[n + 3] = Marker
  BY FramePushed
<1>3. xt' = [op |-> "call", arg |-> xt.arg] /\ nip' = << "catch", 1 >> /\ xt.arg \in Words
  BY DEF Catch, UserCell, Prim
<1>4. xt' \in UserCell /\ xt'.op = "call"
  BY <1>3 DEF UserCell
<1>5. Address(nip') /\ nip' # Marker /\ nip' \in Names \X Nat /\ nip'[1] \notin Base
  BY <1>3, PlacesAddresses, MarkerAddress DEF Places, Marker, Base
<1>6. Arrived'
  BY <1>4, <1>5, CellKinds DEF Arrived, Fetched, MachineOps, Address, Body
<1>7. QuitLoops'
  BY <1>4 DEF QuitLoops
<1>8. Bottom'
  <2>1. n = 0 => nip \in Resume
    BY <1>1 DEF Control, Bottom, Catch
  <2>2. n > 0 => nip[1] \notin Base
    BY <1>1 DEF Control, Bottom, Catch
  <2>3. saved[1] \notin Base /\ Marker[1] \notin Base
    BY MarkerAddress DEF Base
  <2>4. ASSUME NEW i \in 1..Len(rs')
        PROVE  IF i = 1 THEN rs'[i] \in Resume ELSE rs'[i][1] \notin Base
    <3>1. i \in 1..n \/ i = n + 1 \/ i = n + 2 \/ i = n + 3
      BY <1>1, <1>2
    <3>2. QED
      BY <1>1, <1>2, <2>1, <2>2, <2>3, <3>1 DEF Control, Bottom
  <2>5. rs' # << >>
    BY <1>1, <1>2
  <2>6. QED
    BY <1>5, <2>4, <2>5 DEF Bottom
<1>9. CatchFrames'
  <2>1. ASSUME NEW i \in 1..n
        PROVE  \/ Address(rs'[i]) /\ rs'[i] # Marker
               \/ rs'[i] = Marker /\ i >= 3 /\ rs'[i - 1][1] = "dsp"
               \/ /\ rs'[i][1] = "dsp" /\ i >= 2 /\ Address(rs'[i - 1]) /\ rs'[i - 1] # Marker
                  /\ i < Len(rs') => rs'[i + 1] = Marker
    <3>1. rs'[i] = rs[i] /\ (i > 1 => rs'[i - 1] = rs[i - 1])
          /\ (i < n => rs'[i + 1] = rs[i + 1])
      <4>1. \A j \in 1..n : rs'[j] = rs[j]
        BY <1>2
      <4>2. i \in 1..n /\ (i > 1 => i - 1 \in 1..n) /\ (i < n => i + 1 \in 1..n)
        <5>1. n \in Nat
          BY <1>1
        <5> HIDE DEF n
        <5>2. QED
          BY <5>1
      <4>3. QED
        BY <4>1, <4>2, Zenon
    <3>2. rs[n][1] = "dsp" => n = 0
      BY <1>1 DEF Control, CatchFrames, Catch, Top
    <3>3. rs[i][1] = "dsp" => i < n
      BY <1>1, <3>2
    <3>4. QED
      BY <3>1, <3>3 DEF Control, CatchFrames
  <2>2. ASSUME NEW i \in 1..Len(rs'), i \notin 1..n
        PROVE  \/ Address(rs'[i]) /\ rs'[i] # Marker
               \/ rs'[i] = Marker /\ i >= 3 /\ rs'[i - 1][1] = "dsp"
               \/ /\ rs'[i][1] = "dsp" /\ i >= 2 /\ Address(rs'[i - 1]) /\ rs'[i - 1] # Marker
                  /\ i < Len(rs') => rs'[i + 1] = Marker
    <3>1. i = n + 1 \/ i = n + 2 \/ i = n + 3
      <4>1. n \in Nat /\ i \in 1..n + 3 /\ i \notin 1..n
        BY <1>1, <1>2, <2>2
      <4> HIDE DEF n
      <4>2. QED
        BY <4>1
    <3>2. (n + 2) - 1 = n + 1 /\ (n + 3) - 1 = n + 2 /\ (n + 2) + 1 = n + 3
          /\ n + 2 >= 2 /\ n + 3 >= 3
      BY <1>1
    <3>3. QED
      BY <1>1, <1>2, <3>1, <3>2
  <2>3. Top(rs')[1] # "dsp"
    BY <1>1, <1>2, MarkerAddress DEF Top
  <2>4. QED
    BY <1>4, <2>1, <2>2, <2>3 DEF CatchFrames
<1>10. QED
  BY <1>2, <1>6, <1>7, <1>8, <1>9 DEF Control

\* Nothing in progress: QUIT's loop or the cold start from its first cell.
LEMMA AfreshControl ==
  ASSUME rs' = << >>, NEW p \in {<< "start", 1 >>, << "quit", 1 >>}, NextAt(p)
  PROVE  Control'
<1>1. Address(p) /\ p # Marker /\ p[1] \in Base
      /\ p \notin {<< "quit", 2 >>, << "quit", 4 >>, << "quit", 5 >>}
  BY PlacesAddresses DEF Places, Marker, Base
<1>2. Arrived' /\ xt' = CellAt(p) /\ nip' = << p[1], p[2] + 1 >> /\ xt'.op # "rdrop"
  BY <1>1, NextAtArrives, MachinePlaces
<1>3. QuitLoops'
  BY <1>1, LoopsAway
<1>4. Bottom'
  BY <1>1, <1>2, BaseCells DEF Bottom
<1>5. QED
  BY <1>2, <1>3, <1>4 DEF Control, CatchFrames

\* QUIT is next, after an error nobody catches.
LEMMA QuitNextControl ==
  ASSUME Control, xt.op # "rdrop", rs' = rs, xt' = Op("quit"),
         nip' \in Names \X Nat, nip' # Marker
  PROVE  Control'
<1>1. xt' \in UserCell /\ xt'.op = "quit"
  BY DEF UserCell, Prim, Op
<1>2. Arrived'
  BY <1>1, CellKinds DEF Arrived, Fetched, MachineOps
<1>3. Bottom' /\ QuitLoops' /\ CatchFrames'
  BY <1>1 DEF Control, Bottom, QuitLoops, CatchFrames, Top
<1>4. QED
  BY <1>2, <1>3 DEF Control

LEMMA ParseErrorControl ==
  ASSUME Control, ParseError
  PROVE  Control'
<1>1. xt' = Op("quit") /\ nip' = << "start", 3 >> /\ rs' = rs /\ xt.op # "rdrop"
  BY BuiltInBody DEF ParseError, NextAt
<1>2. nip' \in Names \X Nat /\ nip' # Marker
  BY <1>1 DEF Names, BuiltInNames, Marker
<1>3. QED
  BY <1>1, <1>2, QuitNextControl

\* A frame THROW finds is complete.
LEMMA FrameFound ==
  ASSUME Control, NEW m \in Markers
  PROVE  /\ m \in 3..Len(rs) /\ rs[m] = Marker
         /\ rs[m - 1][1] = "dsp" /\ rs[m - 1][2] \in Nat
         /\ Address(rs[m - 2]) /\ rs[m - 2] # Marker /\ rs[m - 2][1] # "dsp"
<1>1. m \in 1..Len(rs) /\ rs[m] = Marker /\ m \in Nat /\ Len(rs) \in Nat
  BY DEF Markers, Control
<1>2. m >= 3 /\ rs[m - 1][1] = "dsp"
  BY <1>1, MarkerAddress DEF Control, CatchFrames
<1>3. m - 1 \in 1..Len(rs) /\ (m - 1) - 1 = m - 2
  BY <1>1, <1>2
<1>4. Address(rs[m - 2]) /\ rs[m - 2] # Marker
  BY <1>2, <1>3, MarkerAddress DEF Control, CatchFrames
<1>5. rs[m - 1] \in Entries
  BY <1>3 DEF Control
<1>6. QED
  BY <1>1, <1>2, <1>4, <1>5, MarkerAddress DEF Entries

LEMMA ThrowControl ==
  ASSUME Control, xt.op # "rdrop", NEW n, NEW s, Throw(n, s)
  PROVE  Control'
<1>1. CASE Uncaught(s)
  <2>1. nip' \in Names \X Nat /\ nip' # Marker
    BY <1>1 DEF Uncaught, Control, Arrived, Fetched
  <2>2. QED
    BY <1>1, <2>1, QuitNextControl DEF Uncaught
<1>2. ASSUME NEW m \in Markers, Caught(n, s, m)
      PROVE  Control'
  <2> DEFINE d == rs[m - 1][2]
  <2>1. /\ m \in 3..Len(rs) /\ Len(rs) \in Nat /\ rs' = SubSeq(rs, 1, m - 3)
        /\ rs[m - 2] # Marker /\ rs[m - 2][1] # "dsp"
    BY <1>2, FrameFound DEF Caught, Control
  <2>2. CASE ~ Collides(s, d)
    <3>1. m - 2 \in 1..Len(rs) /\ (m - 2) - 1 = m - 3
      BY <2>1
    <3>2. NextAt(rs[m - 2])
      BY <1>2, <2>2 DEF Caught
    <3>3. QED
      BY <2>1, <3>1, <3>2, ReturnsTo
  <2>3. CASE Collides(s, d)
    <3>1. xt' = Op("lost") /\ nip' = nip
      BY <1>2, <2>3 DEF Caught
    <3>2. xt' \in MachineCell /\ xt'.op = "lost"
      BY <3>1 DEF MachineCell, Op
    <3>3. /\ rs' \in Seq(Entries) /\ Len(rs') = m - 3
          /\ \A i \in 1..m - 3 : rs'[i] = rs[i]
      <4>1. rs \in Seq(Entries) /\ m - 3 \in Nat /\ m - 3 <= Len(rs)
        BY <2>1 DEF Control
      <4>2. QED
        BY <2>1, <4>1, Prefix
    <3>4. Arrived' /\ QuitLoops'
      BY <3>1, <3>2, CellKinds DEF Control, Arrived, Fetched, Lost, QuitLoops, MachineOps
    <3>5. Bottom'
      BY <2>1, <3>2, <3>3, CellKinds DEF Control, Bottom, MachineOps
    <3>6. CatchFrames'
      <4>1. ASSUME NEW i \in 1..Len(rs')
            PROVE  \/ Address(rs'[i]) /\ rs'[i] # Marker
                   \/ rs'[i] = Marker /\ i >= 3 /\ rs'[i - 1][1] = "dsp"
                   \/ /\ rs'[i][1] = "dsp" /\ i >= 2 /\ Address(rs'[i - 1])
                      /\ rs'[i - 1] # Marker
                      /\ i < Len(rs') => rs'[i + 1] = Marker
        <5>1. i \in 1..Len(rs) /\ rs'[i] = rs[i] /\ (i > 1 => rs'[i - 1] = rs[i - 1])
              /\ (i < Len(rs') => i < Len(rs) /\ rs'[i + 1] = rs[i + 1])
          BY <2>1, <3>3
        <5>2. QED
          BY <5>1 DEF Control, CatchFrames
      <4>2. rs' # << >> => Top(rs')[1] # "dsp"
        <5>1. SUFFICES ASSUME rs' # << >>, Top(rs')[1] = "dsp"
                       PROVE  FALSE
          OBVIOUS
        <5>2. m - 3 \in 1..Len(rs) /\ m - 3 < Len(rs) /\ rs[m - 3][1] = "dsp"
              /\ (m - 3) + 1 = m - 2
          BY <2>1, <3>3, <5>1 DEF Top
        <5>3. rs[m - 2] = Marker
          BY <5>2, MarkerAddress DEF Control, CatchFrames
        <5>4. QED
          BY <2>1, <5>3
      <4>3. QED
        BY <3>2, <4>1, <4>2 DEF CatchFrames
    <3>7. QED
      BY <3>3, <3>4, <3>5, <3>6 DEF Control
  <2>4. QED
    BY <2>2, <2>3
<1>3. QED
  BY <1>1, <1>2 DEF Throw

----------------------------------------------------------------------------
(* The data stack and the input source through each kind of step.          *)

Stacked == ds \in Seq(Cells) /\ WellSaved(ds)

Sourced ==
  /\ inbuf \in Buffers /\ to_in \in Nat /\ srclen \in Nat /\ srcid \in {0, -1}
  /\ state \in {0, 1} /\ tib \in Seq(Tokens)
  /\ SourceIdTells

LEMMA Parts == IInv <=> Control /\ Stacked /\ Sourced
BY DEF IInv, TypeOK, Control, Arrived, Stacked, Sourced, Entries, Names

LEMMA PartsNext == IInv' <=> Control' /\ Stacked' /\ Sourced'
BY Parts, PTL

LEMMA Same ==
  ASSUME Sourced, UNCHANGED << input, tib >>, state' \in {0, 1}
  PROVE  Sourced'
BY DEF Sourced, SourceIdTells, input

\* A code thrown that is not the marker of SAVE-INPUT, from not too far below
\* the CATCH: the stack stays well saved.
LEMMA ThrowStacked ==
  ASSUME Control, NEW s \in Seq(Cells), WellSaved(s), NEW n \in Cells, n # Magic,
         Throw(n, s),
         \A m \in Markers : Topmost(m) => rs[m - 1][2] <= Len(s) + 6
  PROVE  Stacked'
<1>1. CASE Uncaught(s)
  BY <1>1 DEF Uncaught, Stacked
<1>2. ASSUME NEW m \in Markers, Caught(n, s, m)
      PROVE  Stacked'
  <2> DEFINE d == rs[m - 1][2]
  <2>1. d \in Nat
    BY FrameFound
  <2>2. CASE Collides(s, d)
    BY <1>2, <2>2 DEF Caught, Stacked
  <2>3. CASE ~ Collides(s, d)
    <3>1. PICK old \in [Len(s) + 7..d -> Stale] : ds' = Push(Restored(s, n, d, old), n)
      BY <1>2, <2>3 DEF Caught
    <3>2. d <= Len(s) + 6
      BY <1>2 DEF Caught
    <3>3. Restored(s, n, d, old) \in Seq(Cells) /\ WellSaved(Restored(s, n, d, old))
      BY <2>1, <3>2, RestoredType, RestoredSaved
    <3>4. QED
      BY <3>1, <3>3, PushSaved DEF Stacked
  <2>4. QED
    BY <2>2, <2>3
<1>3. QED
  BY <1>1, <1>2 DEF Throw

\* What Digs rules out, for each of the two words that throw.
LEMMA Shallow ==
  ASSUME Control, ~ Digs, Throwing, NEW m \in Markers, Topmost(m), Beneath \in Seq(Cells)
  PROVE  rs[m - 1][2] <= Len(Beneath) + 6
<1>1. rs[m - 1][2] \in Nat /\ Len(Beneath) \in Nat
  BY FrameFound
<1>2. ~ (rs[m - 1][2] > Len(Beneath) + 6)
  BY DEF Digs
<1>3. QED
  BY <1>1, <1>2

\* RESTORE-INPUT finds what some SAVE-INPUT left.
LEMMA RestoreSourced ==
  ASSUME Stacked, Sourced, RestoreInput
  PROVE  Stacked' /\ Sourced'
<1> DEFINE b == Len(ds)
<1>1. ds \in Seq(Cells) /\ b \in Nat /\ Junk # Magic
  BY ConstantsAssumption DEF Stacked
<1>2. Top(Pop(ds)) = Magic
  BY DEF RestoreInput, Mismatch
<1>3. Pop(ds) # << >>
  BY <1>1, <1>2 DEF Top
<1>4. b >= 2 /\ ds[b - 1] = Magic
  <2>1. ds # << >> /\ Pop(ds) = SubSeq(ds, 1, b - 1)
    BY <1>3 DEF Pop
  <2>2. b - 1 \in Nat /\ b - 1 <= Len(ds)
    BY <1>1, <2>1
  <2>3. Pop(ds) \in Seq(Cells) /\ Len(Pop(ds)) = b - 1
        /\ \A i \in 1..b - 1 : Pop(ds)[i] = ds[i]
    <3>1. /\ SubSeq(ds, 1, b - 1) \in Seq(Cells) /\ Len(SubSeq(ds, 1, b - 1)) = b - 1
          /\ \A i \in 1..b - 1 : SubSeq(ds, 1, b - 1)[i] = ds[i]
      BY <1>1, <2>2, Prefix, Zenon
    <3>2. QED
      BY <2>1, <3>1, Zenon
  <2>4. b - 1 >= 1
    BY <1>1, <1>3, <2>2, <2>3
  <2>5. QED
    BY <1>1, <1>2, <1>3, <2>3, <2>4 DEF Top
<1>5. SavedAt(ds, b - 1)
  BY <1>1, <1>4 DEF Stacked, WellSaved
<1>6. (b - 1) - 1 = b - 2 /\ (b - 1) - 2 = b - 3 /\ (b - 1) - 3 = b - 4 /\ (b - 1) - 4 = b - 5
  BY <1>1
<1>7. /\ b > 5 /\ ds[b - 5] \in Buffers /\ ds[b - 4] \in Nat /\ ds[b - 3] \in Nat
      /\ ds[b - 2] = IF ds[b - 5] \in Texts THEN -1 ELSE 0
  BY <1>1, <1>5, <1>6 DEF SavedAt
<1>8. /\ srcid' = ds[b - 2] /\ srclen' = ds[b - 3] /\ to_in' = ds[b - 4]
      /\ inbuf' = ds[b - 5] /\ ds' = SubSeq(ds, 1, b - 6)
      /\ UNCHANGED << state, tib >>
  BY DEF RestoreInput
<1>9. Sourced'
  BY <1>7, <1>8 DEF Sourced, SourceIdTells
<1>10. b - 6 \in Nat /\ b - 6 <= Len(ds)
  BY <1>1, <1>7
<1>11. ds' \in Seq(Cells) /\ Len(ds') = b - 6 /\ \A i \in 1..b - 6 : ds'[i] = ds[i]
  BY <1>1, <1>8, <1>10, Prefix
<1>12. \A j \in 1..Len(ds') : ~ (j > b - 6)
  BY <1>10, <1>11
<1>13. QED
  BY <1>9, <1>10, <1>11, <1>12, SavedExtends DEF Stacked

LEMMA EvaluateSourced ==
  ASSUME IInv, Evaluate
  PROVE  Stacked' /\ Sourced'
<1>1. xt.arg \in Texts
  BY DEF IInv, TypeOK, Evaluate, UserCell, MachineCell, Op, Prim
<1>2. Len(Source[xt.arg]) \in Nat /\ xt.arg \in Buffers
  BY <1>1, ConstantsAssumption DEF Buffers
<1>3. Sourced'
  BY <1>1, <1>2 DEF Sourced, SourceIdTells, Evaluate, IInv, TypeOK
<1>4. Stacked'
  BY SaveInputSaved DEF IInv, Evaluate, Stacked
<1>5. QED
  BY <1>3, <1>4

----------------------------------------------------------------------------
(* The inductive invariant.                                                *)

LEMMA ColdStarts ==
  ASSUME ColdStart, state' \in {0, 1}, tib' \in Seq(Tokens)
  PROVE  IInv'
<1>1. Control'
  BY AfreshControl DEF ColdStart
<1>2. Stacked'
  BY FloorSaved DEF ColdStart, Stacked
<1>3. Sourced'
  BY ConstantsAssumption DEF ColdStart, Sourced, SourceIdTells, Buffers
<1>4. QED
  BY <1>1, <1>2, <1>3, PartsNext

LEMMA Initially == Init => IInv
<1> SUFFICES ASSUME Init
             PROVE  IInv
  OBVIOUS
<1> DEFINE p == << "start", 1 >>
<1>1. Address(p) /\ p[1] \in Base
  BY PlacesAddresses DEF Places, Base
<1>2. nip = << "start", 2 >> /\ xt = Op("interpret") /\ rs = << >>
  BY BuiltInBody DEF Init
<1>3. xt \in MachineCell /\ xt.op = "interpret" /\ xt \notin UserCell
  BY <1>2, CellKinds DEF MachineCell, MachineOps, Op
<1>4. nip[1] = "start" /\ nip[2] = 2 /\ << nip[1], nip[2] - 1 >> = p
  BY <1>2
<1>5. Arrived
  BY <1>1, <1>2, <1>3, <1>4, BuiltInBody
     DEF Arrived, Fetched, Names, BuiltInNames, Marker
<1>6. Control
  BY <1>2, <1>3, <1>4, <1>5 DEF Control, Bottom, QuitLoops, CatchFrames, Base
<1>7. Stacked
  BY FloorSaved DEF Init, Stacked
<1>8. Sourced
  BY ConstantsAssumption DEF Init, Sourced, SourceIdTells, Buffers
<1>9. QED
  BY <1>6, <1>7, <1>8, Parts

\* Every action keeps the invariant, unless the code thrown is SAVE-INPUT's
\* marker or a throw digs too deep.
LEMMA Inductive == IInv /\ ~ Tampers /\ [Next]_vars => IInv'
<1> SUFFICES ASSUME IInv, ~ Tampers, [Next]_vars
             PROVE  IInv'
  OBVIOUS
<1> USE DEF Tampers
<1>1. Control /\ Stacked /\ Sourced
  BY Parts
<1>2. ds \in Seq(Cells) /\ srclen \in Nat /\ to_in \in Nat /\ state \in {0, 1}
      /\ xt \in UserCell \union MachineCell /\ nip \in Names \X Nat
  BY <1>1 DEF Stacked, Sourced, Control, Arrived
<1>3. Magic \notin Int /\ Magic # Junk
  BY ConstantsAssumption
<1>4. CASE InterpretEnd
  <2>1. Control'
    BY <1>1, <1>2, <1>4, InterpretEndControl
  <2>2. Stacked' /\ Sourced'
    BY <1>1, <1>2, <1>4 DEF InterpretEnd, Stacked, Sourced, SourceIdTells
  <2>3. QED
    BY <2>1, <2>2, PartsNext
<1>5. CASE InterpretWord
  <2>1. Control'
    BY <1>1, <1>5, InterpretWordControl
  <2>2. Stacked' /\ Sourced'
    BY <1>1, <1>2, <1>5 DEF InterpretWord, Advance, Stacked, Sourced, SourceIdTells
  <2>3. QED
    BY <2>1, <2>2, PartsNext
<1>6. ASSUME InterpretNumber \/ InterpretCompile
      PROVE  Control'
  <2>1. UNCHANGED << nip, xt, rs >> /\ xt.op = "interpret"
    BY <1>6 DEF InterpretNumber, InterpretCompile
  <2>2. Arrived' /\ Bottom' /\ CatchFrames' /\ QuitLoops' /\ rs' \in Seq(Entries)
    BY <1>1, <2>1 DEF Control, Arrived, Fetched, Lost, Bottom, CatchFrames, QuitLoops
  <2>3. QED
    BY <2>2 DEF Control
<1>7. CASE InterpretNumber
  <2>1. PICK v \in Int : ds' = Push(ds, v)
    BY <1>7, ConstantsAssumption DEF InterpretNumber
  <2>2. v \in Cells /\ v # Magic
    BY <1>3 DEF Cells
  <2>3. Stacked'
    BY <1>1, <2>1, <2>2, PushSaved DEF Stacked
  <2>4. Sourced'
    BY <1>1, <1>2, <1>7 DEF InterpretNumber, Advance, Sourced, SourceIdTells
  <2>5. QED
    BY <1>6, <1>7, <2>3, <2>4, PartsNext
<1>8. CASE InterpretCompile
  <2>1. Stacked' /\ Sourced'
    BY <1>1, <1>2, <1>8 DEF InterpretCompile, Advance, Stacked, Sourced, SourceIdTells
  <2>2. QED
    BY <1>6, <1>8, <2>1, PartsNext
<1>9. CASE ParseError
  <2>1. Control'
    BY <1>1, <1>9, ParseErrorControl
  <2>2. Stacked' /\ Sourced'
    BY <1>1, <1>9, ConstantsAssumption
       DEF ParseError, Stacked, Sourced, SourceIdTells, Buffers
  <2>3. QED
    BY <2>1, <2>2, PartsNext
<1>10. CASE Quit
  <2>1. Control'
    BY <1>10, AfreshControl DEF Quit
  <2>2. Stacked' /\ Sourced'
    BY <1>1, <1>10, FloorSaved, ConstantsAssumption
       DEF Quit, Stacked, Sourced, SourceIdTells, Buffers
  <2>3. QED
    BY <2>1, <2>2, PartsNext
<1>11. CASE Refill
  <2>1. Control'
    BY <1>1, <1>2, <1>11, RefillControl
  <2>2. Stacked'
    BY <1>1, <1>3, <1>11, PushSaved DEF Refill, Stacked, Cells
  <2>3. Sourced'
    BY <1>1, <1>11, ConstantsAssumption DEF Refill, Sourced, SourceIdTells
  <2>4. QED
    BY <2>1, <2>2, <2>3, PartsNext
<1>12. CASE RefillBranch
  <2>1. Control'
    BY <1>1, <1>12, RefillBranchControl
  <2>2. Stacked'
    BY <1>1, <1>12, PopSaved, PopType DEF RefillBranch, Stacked
  <2>3. Sourced'
    BY <1>1, <1>12, Same DEF RefillBranch, Sourced
  <2>4. QED
    BY <2>1, <2>2, <2>3, PartsNext
<1>13. CASE QuitLoop
  <2>1. Control'
    BY <1>1, <1>2, <1>13, QuitLoopControl
  <2>2. Stacked' /\ Sourced'
    BY <1>1, <1>13, Same DEF QuitLoop, Stacked, Sourced
  <2>3. QED
    BY <2>1, <2>2, PartsNext
<1>14. CASE Call
  <2>1. xt \in UserCell /\ xt.op # "quit" /\ xt.arg \in Words
    BY <1>2, <1>14 DEF Call, UserCell, MachineCell, Op, Prim
  <2>2. Control'
    BY <1>1, <1>14, <2>1, Calls DEF Call
  <2>3. Stacked' /\ Sourced'
    BY <1>1, <1>14, Same DEF Call, Stacked, Sourced
  <2>4. QED
    BY <2>2, <2>3, PartsNext
<1>15. CASE Exit
  <2>1. Control'
    BY <1>1, <1>15, Returns DEF Exit
  <2>2. Stacked' /\ Sourced'
    BY <1>1, <1>15, Same DEF Exit, Stacked, Sourced
  <2>3. QED
    BY <2>1, <2>2, PartsNext
<1>16. CASE Lit
  <2>1. xt \in UserCell /\ xt.op # "quit" /\ xt.arg \in Int
    BY <1>2, <1>16 DEF Lit, UserCell, MachineCell, Op, Prim
  <2>2. Control'
    BY <1>1, <1>16, <2>1, UserProceeds DEF Lit
  <2>3. Stacked'
    BY <1>1, <1>3, <1>16, <2>1, PushSaved DEF Lit, Stacked, Cells
  <2>4. Sourced'
    BY <1>1, <1>16, Same DEF Lit, Sourced
  <2>5. QED
    BY <2>2, <2>3, <2>4, PartsNext
<1>17. CASE Drop \/ ThrowZero
  <2>1. xt \in UserCell /\ xt.op # "quit"
    BY <1>2, <1>17, CellKinds DEF Drop, ThrowZero, MachineOps
  <2>2. Control'
    BY <1>1, <1>17, <2>1, UserProceeds DEF Drop, ThrowZero
  <2>3. Stacked'
    BY <1>1, <1>17, PopSaved, PopType DEF Drop, ThrowZero, Stacked
  <2>4. Sourced'
    BY <1>1, <1>17, Same DEF Drop, ThrowZero, Sourced
  <2>5. QED
    BY <2>2, <2>3, <2>4, PartsNext
<1>18. CASE Rdrop
  <2>1. Control'
    BY <1>1, <1>18, RdropControl
  <2>2. Stacked' /\ Sourced'
    BY <1>1, <1>18, Same DEF Rdrop, Stacked, Sourced
  <2>3. QED
    BY <2>1, <2>2, PartsNext
<1>19. CASE Brackets
  <2>1. xt \in UserCell /\ xt.op # "quit"
    BY <1>2, <1>19, CellKinds DEF Brackets, MachineOps
  <2>2. Control'
    BY <1>1, <1>19, <2>1, UserProceeds DEF Brackets
  <2>3. Stacked' /\ Sourced'
    BY <1>1, <1>19, Same DEF Brackets, Stacked, Sourced
  <2>4. QED
    BY <2>2, <2>3, PartsNext
<1>20. CASE Catch
  <2>1. xt \in UserCell
    BY <1>2, <1>20, CellKinds DEF Catch, MachineOps
  <2>2. Control'
    BY <1>1, <1>2, <1>20, <2>1, CatchControl
  <2>3. Stacked' /\ Sourced'
    BY <1>1, <1>20, Same DEF Catch, Stacked, Sourced
  <2>4. QED
    BY <2>2, <2>3, PartsNext
<1>21. CASE ThrowWord
  <2>1. Throw(Top(ds), Pop(ds)) /\ xt.op = "throw" /\ Top(ds) # Magic
    BY <1>21 DEF ThrowWord, Forges
  <2>2. Pop(ds) \in Seq(Cells) /\ WellSaved(Pop(ds)) /\ Top(ds) \in Cells
    BY <1>1, PopSaved, PopType DEF Stacked
  <2>3. Control'
    BY <1>1, <2>1, ThrowControl
  <2>4. Throwing /\ Beneath = Pop(ds)
    BY <1>21 DEF ThrowWord, Throwing, Beneath
  <2>5. \A m \in Markers : Topmost(m) => rs[m - 1][2] <= Len(Pop(ds)) + 6
    BY <1>1, <2>2, <2>4, Shallow
  <2>6. Stacked'
    BY <1>1, <2>1, <2>2, <2>5, ThrowStacked
  <2>7. Sourced'
    BY <1>1, <1>21, Same DEF ThrowWord, Sourced
  <2>8. QED
    BY <2>3, <2>6, <2>7, PartsNext
<1>22. CASE Evaluate
  <2>1. xt \in UserCell /\ xt.op # "quit"
    BY <1>2, <1>22, CellKinds DEF Evaluate, MachineOps
  <2>2. Control'
    BY <1>1, <1>22, <2>1, Calls DEF Evaluate
  <2>3. QED
    BY <1>22, <2>2, EvaluateSourced, PartsNext
<1>23. CASE Eof
  <2>1. Control'
    BY <1>1, <1>23, EofControl
  <2>2. Stacked' /\ Sourced'
    BY <1>1, <1>23, Same DEF Eof, Stacked, Sourced
  <2>3. QED
    BY <2>1, <2>2, PartsNext
<1>24. CASE RestoreInput
  <2>1. Control'
    BY <1>1, <1>24, Returns DEF RestoreInput
  <2>2. QED
    BY <1>1, <1>24, <2>1, RestoreSourced, PartsNext
<1>25. CASE StackMismatch
  <2> DEFINE s == Beneath
  <2>1. Throw(-1, s) /\ Throwing /\ s \in {Pop(ds), Pop(Pop(ds))}
    BY <1>25 DEF StackMismatch, Beneath, Throwing
  <2>2. s \in Seq(Cells) /\ WellSaved(s)
    BY <1>1, <2>1, PopSaved, PopType DEF Stacked
  <2>3. -1 \in Cells /\ -1 # Magic
    BY <1>3 DEF Cells
  <2>4. Control'
    BY <1>1, <1>25, <2>1, ThrowControl DEF StackMismatch
  <2>5. Stacked'
    <3>1. \A m \in Markers : Topmost(m) => rs[m - 1][2] <= Len(s) + 6
      BY <1>1, <2>1, <2>2, Shallow
    <3> HIDE DEF s
    <3>2. QED
      BY <1>1, <2>1, <2>2, <2>3, <3>1, ThrowStacked
  <2>6. Sourced'
    BY <1>1, <1>25, Same DEF StackMismatch, Sourced
  <2>7. QED
    BY <2>4, <2>5, <2>6, PartsNext
<1>26. CASE Restart
  BY <1>1, <1>26, ColdStarts DEF Restart, Sourced
<1>27. CASE UNCHANGED vars
  BY <1>27 DEF vars, IInv, TypeOK, Fetched, Lost, Bottom, QuitLoops, CatchFrames, SourceIdTells
<1>28. QED
  BY <1>4, <1>5, <1>7, <1>8, <1>9, <1>10, <1>11, <1>12, <1>13, <1>14, <1>15, <1>16,
     <1>17, <1>18, <1>19, <1>20, <1>21, <1>22, <1>23, <1>24, <1>25, <1>26, <1>27
     DEF Next, Machine

\* The invariant implies what the runs check of QUIT's loop.
LEMMA PromptFollows == IInv => PromptUnnested
<1> SUFFICES ASSUME IInv
             PROVE  PromptUnnested
  OBVIOUS
<1>1. Control
  BY Parts
<1>2. ASSUME xt.op \in {"refill", "0branch", "more?"}
      PROVE  rs = << >>
  <2>1. nip[1] \in Base
    BY <1>1, <1>2, MachineAt DEF Control, Arrived, Base
  <2>2. QED
    BY <1>1, <1>2, <2>1 DEF Control, Bottom
<1>3. ASSUME xt.op \in {"exit", "rdrop", "restore-input"}
      PROVE  rs # << >>
  <2>1. CASE xt.op = "exit"
    <3>1. xt = Op("exit") /\ xt \in MachineCell /\ ~ Lost
      BY <1>1, <2>1, CellKinds DEF Control, Arrived, MachineOps, Lost
    <3>2. Address(<< nip[1], nip[2] - 1 >>) /\ CellAt(<< nip[1], nip[2] - 1 >>) = Op("exit")
      BY <1>1, <3>1 DEF Control, Arrived, Fetched
    <3>3. nip[1] # "quit"
      BY <1>1, <2>1 DEF Control, QuitLoops
    <3>4. nip[1] # "start"
      <4>1. SUFFICES ASSUME nip[1] = "start"
                     PROVE  FALSE
        OBVIOUS
      <4> DEFINE p == << nip[1], nip[2] - 1 >>
      <4>2. Address(p) /\ p[1] = "start" /\ CellAt(p) = Op("exit")
        BY <3>2, <4>1
      <4> HIDE DEF p
      <4>3. p \in Places
        BY <4>2, BuiltInPlaces DEF BuiltInNames
      <4>4. p \in {<< "start", 1 >>, << "start", 2 >>}
        BY <4>2, <4>3 DEF Places
      <4>5. QED
        BY <4>2, <4>4, BuiltInBody DEF Op
    <3>5. QED
      BY <1>1, <2>1, <3>3, <3>4 DEF Control, Bottom, Base
  <2>2. CASE xt.op \in {"rdrop", "restore-input"}
    <3>1. nip[1] \notin Base
      BY <1>1, <2>2, MachineAt DEF Control, Arrived, Base
    <3>2. QED
      BY <1>1, <2>2, <3>1 DEF Control, Bottom
  <2>3. QED
    BY <1>3, <2>1, <2>2
<1>4. QED
  BY <1>2, <1>3 DEF PromptUnnested

----------------------------------------------------------------------------
(* The return stack as calls and guards: the pass View makes over it.      *)

NoView == [calls |-> << >>, guards |-> << >>]

\* f[k] is what the first k entries of s show.
Shows(s, n, f) == f = [i \in 0..n |-> IF i = 0 THEN NoView ELSE Onto(f[i - 1], s[i])]

LEMMA ShowsAt ==
  ASSUME NEW s, NEW n \in Nat, NEW f, Shows(s, n, f)
  PROVE  /\ f[0] = NoView
         /\ \A i \in 0..n - 1 : f[i + 1] = Onto(f[i], s[i + 1])
<1>1. 0 \in 0..n
  OBVIOUS
<1>2. f[0] = NoView
  BY <1>1 DEF Shows
<1>3. ASSUME NEW i \in 0..n - 1
      PROVE  f[i + 1] = Onto(f[i], s[i + 1])
  <2>1. i + 1 \in 0..n /\ i + 1 # 0 /\ (i + 1) - 1 = i
    OBVIOUS
  <2>2. f[i + 1] = Onto(f[(i + 1) - 1], s[i + 1])
    BY <2>1 DEF Shows
  <2>3. QED
    BY <2>1, <2>2
<1>4. QED
  BY <1>2, <1>3

\* The pass can be made over any number of entries.
LEMMA Shown ==
  ASSUME NEW s, NEW n \in Nat
  PROVE  \E f : Shows(s, n, f)
<1> DEFINE T == {k \in Nat : ~ \E f : Shows(s, k, f)}
<1>1. SUFFICES ASSUME T # {}
               PROVE  FALSE
  OBVIOUS
<1>2. PICK m \in T : \A k \in T : m <= k
  BY <1>1, LeastElement
<1>3. m # 0
  <2>1. Shows(s, 0, [i \in 0..0 |-> NoView])
    BY DEF Shows
  <2>2. QED
    BY <2>1
<1>4. m - 1 \in Nat /\ m - 1 \notin T
  BY <1>2, <1>3
<1>5. PICK f : Shows(s, m - 1, f)
  BY <1>4
<1> DEFINE g == [i \in 0..m |-> IF i = m THEN Onto(f[m - 1], s[m]) ELSE f[i]]
<1>6. ASSUME NEW i \in 0..m
      PROVE  g[i] = IF i = 0 THEN NoView ELSE Onto(g[i - 1], s[i])
  <2>1. CASE i = 0
    <3>1. g[0] = f[0]
      BY <1>3, <1>4
    <3>2. QED
      BY <1>4, <1>5, <2>1, <3>1, ShowsAt
  <2>2. CASE i # 0
    <3>1. i - 1 \in 0..m /\ i - 1 # m /\ i - 1 \in 0..m - 1
      BY <1>4, <2>2
    <3>2. g[i - 1] = f[i - 1]
      BY <3>1
    <3>3. CASE i = m
      BY <2>2, <3>2, <3>3
    <3>4. CASE i # m
      <4>1. i - 1 \in 0..(m - 1) - 1 /\ (i - 1) + 1 = i
        BY <1>4, <2>2, <3>4
      <4>2. f[(i - 1) + 1] = Onto(f[i - 1], s[(i - 1) + 1])
        BY <1>4, <1>5, <4>1, ShowsAt
      <4>3. QED
        BY <2>2, <3>2, <3>4, <4>1, <4>2
    <3>5. QED
      BY <3>3, <3>4
  <2>3. QED
    BY <2>1, <2>2
<1>7. Shows(s, m, g)
  <2>1. g = [i \in 0..m |-> g[i]]
    OBVIOUS
  <2> HIDE DEF g
  <2>2. g = [i \in 0..m |-> IF i = 0 THEN NoView ELSE Onto(g[i - 1], s[i])]
    BY <1>6, <2>1
  <2>3. QED
    BY <2>2 DEF Shows
<1>8. QED
  BY <1>7

LEMMA ViewShown ==
  ASSUME NEW s, Len(s) \in Nat
  PROVE  \E f : Shows(s, Len(s), f) /\ View(s) = f[Len(s)]
<1> DEFINE f == CHOOSE f : Shows(s, Len(s), f)
<1>1. Shows(s, Len(s), f)
  BY Shown
<1>2. View(s) = f[Len(s)]
  BY DEF View, Shows, NoView
<1>3. QED
  BY <1>1, <1>2

\* What a return stack shows depends on its entries alone.
LEMMA ShowsAgree ==
  ASSUME NEW s, NEW t, NEW f, NEW g, NEW m \in Nat, NEW n \in Nat,
         Shows(s, m, f), Shows(t, n, g),
         NEW k \in Nat, k <= m, k <= n, \A i \in 1..k : s[i] = t[i]
  PROVE  f[k] = g[k]
<1> DEFINE T == {j \in Nat : j <= k /\ f[j] # g[j]}
<1>1. SUFFICES ASSUME T # {}
               PROVE  FALSE
  OBVIOUS
<1>2. PICK l \in T : \A j \in T : l <= j
  BY <1>1, LeastElement
<1>3. CASE l = 0
  BY <1>2, <1>3, ShowsAt
<1>4. CASE l # 0
  <2>1. l - 1 \in 0..m - 1 /\ l - 1 \in 0..n - 1 /\ l - 1 \notin T /\ l - 1 <= k
        /\ (l - 1) + 1 = l /\ l \in 1..k
    BY <1>2, <1>4
  <2>2. f[l - 1] = g[l - 1]
    BY <2>1
  <2>3. f[(l - 1) + 1] = Onto(f[l - 1], s[(l - 1) + 1])
        /\ g[(l - 1) + 1] = Onto(g[l - 1], t[(l - 1) + 1])
    BY <2>1, ShowsAt
  <2>4. s[l] = t[l]
    BY <2>1
  <2>5. QED
    BY <1>2, <2>1, <2>2, <2>3, <2>4
<1>5. QED
  BY <1>3, <1>4

LEMMA ViewEmpty == View(<< >>) = NoView
<1>1. PICK f : Shows(<< >>, 0, f) /\ View(<< >>) = f[0]
  BY ViewShown
<1>2. QED
  BY <1>1, ShowsAt

\* One entry more on the return stack.
LEMMA ViewStep ==
  ASSUME NEW s, NEW t, Len(s) \in Nat, Len(t) = Len(s) + 1,
         \A i \in 1..Len(s) : t[i] = s[i]
  PROVE  View(t) = Onto(View(s), t[Len(t)])
<1> DEFINE n == Len(s)
<1>1. n \in Nat /\ Len(t) = n + 1 /\ Len(t) \in Nat
  OBVIOUS
<1>2. PICK f : Shows(s, n, f) /\ View(s) = f[n]
  BY ViewShown
<1>3. PICK g : Shows(t, n + 1, g) /\ View(t) = g[n + 1]
  BY <1>1, ViewShown
<1>4. \A i \in 1..n : s[i] = t[i]
  OBVIOUS
<1> HIDE DEF n
<1>5. n + 1 \in Nat /\ n <= n + 1 /\ n <= n /\ n \in 0..(n + 1) - 1
  BY <1>1
<1>6. f[n] = g[n]
  BY <1>1, <1>2, <1>3, <1>4, <1>5, ShowsAgree
<1>7. g[n + 1] = Onto(g[n], t[n + 1])
  BY <1>3, <1>5, ShowsAt
<1>8. QED
  BY <1>1, <1>2, <1>3, <1>6, <1>7

Covers == [before : Int, depth : Nat]
Views == [calls : Seq(Names \X Nat), guards : Seq(Covers)]

\* A guard lies behind the call of its CATCH.
Guarded(v) == v.guards # << >> => v.guards[Len(v.guards)].before + 1 <= Len(v.calls)

\* What an entry adds, by its kind.
LEMMA OntoCall ==
  ASSUME NEW v \in Views, NEW c \in Entries, c[1] # "dsp", c # Marker
  PROVE  /\ Onto(v, c) = [calls |-> Append(v.calls, c), guards |-> v.guards]
         /\ Onto(v, c) \in Views
         /\ Guarded(v) => Guarded(Onto(v, c))
<1>1. Onto(v, c) = [v EXCEPT !.calls = Append(@, c)]
  BY DEF Onto
<1>2. Onto(v, c) = [calls |-> Append(v.calls, c), guards |-> v.guards]
  BY <1>1 DEF Views
<1>3. c \in Names \X Nat
  BY DEF Entries
<1>4. v.calls \in Seq(Names \X Nat) /\ v.guards \in Seq(Covers)
  BY DEF Views
<1>5. Append(v.calls, c) \in Seq(Names \X Nat) /\ Len(Append(v.calls, c)) = Len(v.calls) + 1
  BY <1>3, <1>4
<1>6. Onto(v, c) \in Views
  BY <1>2, <1>4, <1>5 DEF Views
<1>7. ASSUME Guarded(v), v.guards # << >>
      PROVE  v.guards[Len(v.guards)].before + 1 <= Len(v.calls) + 1
  <2>1. v.guards[Len(v.guards)] \in Covers
    BY <1>4, <1>7
  <2>2. v.guards[Len(v.guards)].before \in Int /\ Len(v.calls) \in Nat
    BY <1>4, <2>1 DEF Covers
  <2>3. QED
    BY <1>7, <2>2 DEF Guarded
<1>8. QED
  BY <1>2, <1>5, <1>6, <1>7 DEF Guarded

LEMMA OntoDepth ==
  ASSUME NEW v \in Views, NEW c \in Entries, c[1] = "dsp"
  PROVE  /\ Onto(v, c) = [calls |-> v.calls,
              guards |-> Append(v.guards, [before |-> Len(v.calls) - 1, depth |-> c[2]])]
         /\ Onto(v, c) \in Views
         /\ Guarded(Onto(v, c))
<1> DEFINE g == [before |-> Len(v.calls) - 1, depth |-> c[2]]
<1>1. Onto(v, c) = [v EXCEPT !.guards = Append(@, g)]
  BY MarkerAddress DEF Onto
<1>2. Onto(v, c) = [calls |-> v.calls, guards |-> Append(v.guards, g)]
  BY <1>1 DEF Views
<1>3. v.calls \in Seq(Names \X Nat) /\ v.guards \in Seq(Covers) /\ Len(v.calls) \in Nat
  BY DEF Views
<1>4. g \in Covers /\ g.before + 1 <= Len(v.calls)
  BY <1>3 DEF Covers, Entries
<1> HIDE DEF g
<1>5. /\ Append(v.guards, g) \in Seq(Covers)
      /\ Append(v.guards, g)[Len(Append(v.guards, g))] = g
  BY <1>3, <1>4
<1>6. QED
  BY <1>2, <1>3, <1>4, <1>5 DEF Views, Guarded, g

LEMMA OntoMarker ==
  ASSUME NEW v
  PROVE  Onto(v, Marker) = v
BY MarkerAddress DEF Onto

LEMMA OntoViews ==
  ASSUME NEW v \in Views, Guarded(v), NEW c \in Entries
  PROVE  Onto(v, c) \in Views /\ Guarded(Onto(v, c))
BY OntoCall, OntoDepth, OntoMarker

\* The bottom k entries of the return stack.
LEMMA Lower ==
  ASSUME NEW s \in Seq(Entries), NEW k \in 1..Len(s)
  PROVE  View(SubSeq(s, 1, k)) = Onto(View(SubSeq(s, 1, k - 1)), s[k])
<1>1. k \in Nat /\ k - 1 \in Nat /\ Len(s) \in Nat /\ k <= Len(s) /\ k - 1 <= Len(s)
  OBVIOUS
<1>2. Len(SubSeq(s, 1, k)) = k /\ \A i \in 1..k : SubSeq(s, 1, k)[i] = s[i]
  BY <1>1, Prefix
<1>3. Len(SubSeq(s, 1, k - 1)) = k - 1 /\ \A i \in 1..k - 1 : SubSeq(s, 1, k - 1)[i] = s[i]
  BY <1>1, Prefix
<1> DEFINE t == SubSeq(s, 1, k)
           u == SubSeq(s, 1, k - 1)
<1> HIDE DEF t, u
<1>4. Len(t) = k /\ Len(u) = k - 1 /\ t[k] = s[k] /\ \A i \in 1..k - 1 : t[i] = u[i]
  BY <1>1, <1>2, <1>3 DEF t, u
<1>5. Len(u) \in Nat /\ Len(t) = Len(u) + 1 /\ \A i \in 1..Len(u) : t[i] = u[i]
  BY <1>1, <1>4
<1>6. View(t) = Onto(View(u), t[Len(t)])
  BY <1>5, ViewStep
<1>7. QED
  BY <1>4, <1>6 DEF t, u

LEMMA Whole ==
  ASSUME NEW S, NEW s \in Seq(S)
  PROVE  SubSeq(s, 1, Len(s)) = s /\ SubSeq(s, 1, 0) = << >>
OBVIOUS

LEMMA ViewType ==
  ASSUME NEW s \in Seq(Entries)
  PROVE  View(s) \in Views /\ Guarded(View(s))
<1> DEFINE P(k) == View(SubSeq(s, 1, k)) \in Views /\ Guarded(View(SubSeq(s, 1, k)))
           T == {k \in Nat : k <= Len(s) /\ ~ P(k)}
<1>1. ASSUME T # {}
      PROVE  FALSE
  <2>1. PICK m \in T : \A k \in T : m <= k
    BY <1>1, LeastElement
  <2>2. NoView \in Views /\ Guarded(NoView)
    BY DEF NoView, Views, Guarded
  <2>3. m # 0
    BY <2>1, <2>2, ViewEmpty, Whole
  <2>4. m - 1 \in Nat /\ m - 1 <= Len(s) /\ m \in 1..Len(s) /\ ~ (m <= m - 1)
    BY <2>1, <2>3
  <2>5. P(m - 1)
    BY <2>1, <2>4
  <2>6. View(SubSeq(s, 1, m)) = Onto(View(SubSeq(s, 1, m - 1)), s[m])
    BY <2>4, Lower
  <2>7. s[m] \in Entries
    BY <2>4
  <2>8. P(m)
    BY <2>5, <2>6, <2>7, OntoViews
  <2>9. QED
    BY <2>1, <2>8
<1>2. Len(s) \in Nat /\ Len(s) <= Len(s)
  OBVIOUS
<1>3. P(Len(s))
  <2> HIDE DEF P
  <2>1. QED
    BY <1>1, <1>2
<1>4. QED
  BY <1>3, Whole

\* Return addresses above the frames add calls and touch nothing below.
LEMMA ViewAbove ==
  ASSUME NEW s \in Seq(Entries), NEW k \in Nat, k <= Len(s),
         \A i \in k + 1..Len(s) : s[i][1] # "dsp"
  PROVE  LET low == View(SubSeq(s, 1, k))
         IN  /\ View(s).guards = low.guards
             /\ Len(low.calls) <= Len(View(s).calls)
             /\ \A i \in 1..Len(low.calls) : View(s).calls[i] = low.calls[i]
<1> DEFINE V(j) == View(SubSeq(s, 1, j))
           P(j) == /\ V(j).guards = V(k).guards
                   /\ Len(V(k).calls) <= Len(V(j).calls)
                   /\ \A i \in 1..Len(V(k).calls) : V(j).calls[i] = V(k).calls[i]
           T == {j \in Nat : k <= j /\ j <= Len(s) /\ ~ P(j)}
<1>0. ASSUME NEW j \in Nat, j <= Len(s)
      PROVE  V(j) \in Views /\ Len(V(j).calls) \in Nat
  <2>1. SubSeq(s, 1, j) \in Seq(Entries)
    BY <1>0, Prefix
  <2>2. V(j) \in Views
    BY <2>1, ViewType
  <2>3. QED
    BY <2>2 DEF Views
<1>1. ASSUME T # {}
      PROVE  FALSE
  <2>1. PICK m \in T : \A j \in T : m <= j
    BY <1>1, LeastElement
  <2>2. m # k
    BY <1>0, <2>1
  <2>4. m - 1 \in Nat /\ m - 1 <= Len(s) /\ m \in 1..Len(s) /\ ~ (m <= m - 1) /\ k <= m - 1
        /\ m \in k + 1..Len(s)
    BY <2>1, <2>2
  <2>5. P(m - 1)
    BY <2>1, <2>4
  <2>6. V(m) = Onto(V(m - 1), s[m])
    BY <2>4, Lower
  <2>7. s[m] \in Entries /\ s[m][1] # "dsp"
    BY <2>4
  <2>8. V(m - 1) \in Views /\ V(k) \in Views /\ Len(V(k).calls) \in Nat /\ Len(V(m - 1).calls) \in Nat
    BY <1>0, <2>4
  <2>9. CASE s[m] = Marker
    BY <2>1, <2>5, <2>6, <2>9, OntoMarker
  <2>10. CASE s[m] # Marker
    <3> HIDE DEF V
    <3>1. V(m).guards = V(m - 1).guards /\ V(m).calls = Append(V(m - 1).calls, s[m])
      <4>1. V(m) = [calls |-> Append(V(m - 1).calls, s[m]), guards |-> V(m - 1).guards]
        BY <2>6, <2>7, <2>8, <2>10, OntoCall
      <4>2. QED
        BY <4>1
    <3>2. V(m - 1).calls \in Seq(Names \X Nat)
      BY <2>8 DEF Views
    <3>3. Len(V(m).calls) = Len(V(m - 1).calls) + 1
          /\ \A i \in 1..Len(V(m - 1).calls) : V(m).calls[i] = V(m - 1).calls[i]
      BY <3>1, <3>2
    <3>4. P(m)
      BY <2>5, <2>8, <3>1, <3>3
    <3>5. QED
      BY <2>1, <3>4
  <2>11. QED
    BY <2>9, <2>10
<1>2. Len(s) \in Nat /\ k <= Len(s) /\ Len(s) <= Len(s)
  OBVIOUS
<1>3. P(Len(s))
  <2> HIDE DEF P
  <2>1. QED
    BY <1>1, <1>2
<1>4. QED
  BY <1>3, Whole

----------------------------------------------------------------------------
(* Every step is a step of Exceptions.                                     *)

\* What the machine shows is unchanged: a step of a word that neither calls
\* nor returns.
LEMMA Works ==
  ASSUME ~ Lost, ~ Lost', rs' = rs, ds' \in Seq(Cells)
  PROVE  Promise!Next
<1>1. Len(ds') \in Nat
  OBVIOUS
<1>2. Promise!Work
  BY <1>1 DEF Promise!Work
<1>3. QED
  BY <1>2 DEF Promise!Next

LEMMA Abandons ==
  ASSUME \/ Lost' 
         \/ ~ Lost' /\ rs' = << >> /\ nip' \in {<< "quit", 2 >>, << "start", 2 >>},
         ds' \in Seq(Cells)
  PROVE  Promise!Next
<1>1. Len(ds') \in Nat
  OBVIOUS
<1>2. ~ Lost' => View(rs').calls = << >> /\ View(rs').guards = << >>
  BY ViewEmpty DEF NoView
<1>3. Promise!Abandon
  BY <1>1, <1>2 DEF Promise!Abandon
<1>4. QED
  BY <1>3 DEF Promise!Next

LEMMA EnterCall ==
  ASSUME Control, ~ Lost, ~ Lost', Address(nip), rs' = Push(rs, nip), ds' \in Seq(Cells)
  PROVE  Promise!Next
<1>1. nip \in Entries /\ nip[1] # "dsp" /\ nip # Marker /\ rs \in Seq(Entries)
  BY MarkerAddress DEF Control, Arrived, Fetched, Entries, Names
<1>2. Len(rs) \in Nat /\ Len(rs') = Len(rs) + 1 /\ rs'[Len(rs')] = nip
      /\ \A i \in 1..Len(rs) : rs'[i] = rs[i]
  BY <1>1 DEF Push
<1>3. View(rs') = Onto(View(rs), nip)
  BY <1>2, ViewStep
<1>4. View(rs).calls \in Seq(Names \X Nat) /\ View(rs) \in Views
  BY <1>1, ViewType DEF Views
<1>5. View(rs') = [calls |-> Append(View(rs).calls, nip), guards |-> View(rs).guards]
  BY <1>1, <1>3, <1>4, OntoCall
<1>6. Len(ds') \in Nat
  OBVIOUS
<1>7. Promise!Call
  BY <1>5, <1>6 DEF Promise!Call
<1>8. QED
  BY <1>7 DEF Promise!Next

\* A return pops an address or a marker; popping a marker shows nothing yet.
LEMMA LeaveCall ==
  ASSUME Control, ~ Lost, ~ Lost', rs # << >>, Top(rs)[1] # "dsp",
         NextAt(Top(rs)), rs' = Pop(rs), ds' \in Seq(Cells)
  PROVE  Promise!Next
<1> DEFINE v == View(rs')
           c == Top(rs)
<1>1. /\ rs' \in Seq(Entries) /\ Len(rs') = Len(rs) - 1 /\ c = rs[Len(rs)]
      /\ \A i \in 1..Len(rs) - 1 : rs'[i] = rs[i]
      /\ Len(rs) \in Nat /\ Len(rs) >= 1 /\ c \in Entries
  BY PopEntries DEF Control
<1>2. Len(rs') \in Nat /\ Len(rs) = Len(rs') + 1 /\ \A i \in 1..Len(rs') : rs[i] = rs'[i]
  BY <1>1
<1>3. View(rs) = Onto(v, c)
  BY <1>1, <1>2, ViewStep
<1>4. v \in Views /\ Guarded(v) /\ Len(ds') \in Nat
  BY <1>1, ViewType
<1> HIDE DEF v, c
<1>5. CASE c = Marker
  <2>1. View(rs) = View(rs')
    BY <1>3, <1>5, OntoMarker DEF v
  <2>2. Promise!Work
    BY <1>4, <2>1 DEF Promise!Work
  <2>3. QED
    BY <2>2 DEF Promise!Next
<1>6. CASE c # Marker
  <2>1. View(rs) = [calls |-> Append(v.calls, c), guards |-> v.guards]
    BY <1>1, <1>3, <1>4, <1>6, OntoCall DEF c
  <2>2. v.calls \in Seq(Names \X Nat) /\ v.guards \in Seq(Covers)
    BY <1>4 DEF Views
  <2>3. /\ View(rs).guards = v.guards /\ View(rs).calls = Append(v.calls, c)
        /\ Len(View(rs).calls) = Len(v.calls) + 1
        /\ SubSeq(View(rs).calls, 1, Len(View(rs).calls) - 1) = v.calls
        /\ View(rs).calls[Len(View(rs).calls)] = c
    BY <2>1, <2>2
  <2>4. Len(View(rs).calls) > IF View(rs).guards = << >> THEN 0
                              ELSE View(rs).guards[Len(View(rs).guards)].before + 1
    <3>1. CASE v.guards = << >>
      BY <2>2, <2>3, <3>1
    <3>2. CASE v.guards # << >>
      <4>1. v.guards[Len(v.guards)] \in Covers
        BY <2>2, <3>2
      <4>2. v.guards[Len(v.guards)].before \in Int /\ Len(v.calls) \in Nat
        BY <2>2, <4>1 DEF Covers
      <4>3. v.guards[Len(v.guards)].before + 1 <= Len(v.calls)
        BY <1>4, <3>2 DEF Guarded
      <4>4. QED
        BY <2>3, <3>2, <4>2, <4>3
    <3>3. QED
      BY <3>1, <3>2
  <2>5. nip' = Promise!After(c)
    BY DEF NextAt, Promise!After, c
  <2>6. Promise!Return
    BY <1>4, <2>3, <2>4, <2>5 DEF Promise!Return, Promise!Innermost, v
  <2>7. QED
    BY <2>6 DEF Promise!Next
<1>7. QED
  BY <1>5, <1>6

\* CATCH: its call, and behind it the guard.
LEMMA EnterGuard ==
  ASSUME Control, xt \in UserCell, ds \in Seq(Cells), Catch, Address(nip)
  PROVE  Promise!Next
<1> DEFINE n == Len(rs)
           saved == << "dsp", Len(ds) >>
           V(j) == View(SubSeq(rs', 1, j))
<1>1. /\ nip \in Entries /\ nip[1] # "dsp" /\ nip # Marker /\ rs \in Seq(Entries)
      /\ saved \in Entries /\ Marker \in Entries /\ saved[1] = "dsp"
      /\ saved[2] = Len(ds) /\ n \in Nat
  BY MarkerAddress DEF Control, Arrived, Fetched, Entries, Names
<1>2. /\ rs' \in Seq(Entries) /\ Len(rs') = n + 3
      /\ \A i \in 1..n : rs'[i] = rs[i]
      /\ rs'[n + 1] = nip /\ rs'[n + 2] = saved /\ rs'[n + 3] = Marker
  BY <1>1, FramePushed
<1>3. ds' = ds /\ ~ Lost /\ ~ Lost'
  BY DEF Catch, Lost
<1> HIDE DEF n, saved
<1>4. /\ n + 1 \in 1..Len(rs') /\ n + 2 \in 1..Len(rs') /\ n + 3 \in 1..Len(rs')
      /\ (n + 1) - 1 = n /\ (n + 2) - 1 = n + 1 /\ (n + 3) - 1 = n + 2 /\ n <= Len(rs')
  BY <1>1, <1>2
<1>5. V(n) = View(rs) /\ V(n + 3) = View(rs')
  <2>1. SubSeq(rs', 1, n) \in Seq(Entries) /\ Len(SubSeq(rs', 1, n)) = n
        /\ \A i \in 1..n : SubSeq(rs', 1, n)[i] = rs'[i]
    BY <1>1, <1>2, <1>4, Prefix
  <2>2. SubSeq(rs', 1, n) = rs
    BY <1>1, <1>2, <2>1, SeqEqual DEF n
  <2>3. SubSeq(rs', 1, Len(rs')) = rs'
    BY <1>2, Whole
  <2>4. QED
    BY <1>2, <2>2, <2>3
<1>6. V(n + 1) = Onto(V(n), nip) /\ V(n + 2) = Onto(V(n + 1), saved)
      /\ V(n + 3) = Onto(V(n + 2), Marker)
  BY <1>2, <1>4, Lower
<1>7. View(rs) \in Views /\ Len(View(rs).calls) \in Nat /\ View(rs).calls \in Seq(Names \X Nat)
  BY <1>1, ViewType DEF Views
<1> HIDE DEF V
<1>8. V(n + 1) = [calls |-> Append(View(rs).calls, nip), guards |-> View(rs).guards]
      /\ V(n + 1) \in Views
  BY <1>1, <1>5, <1>6, <1>7, OntoCall
<1>9. V(n + 2) = [calls |-> V(n + 1).calls,
         guards |-> Append(V(n + 1).guards, [before |-> Len(V(n + 1).calls) - 1, depth |-> saved[2]])]
  BY <1>1, <1>6, <1>8, OntoDepth
<1>10. View(rs') = V(n + 2)
  BY <1>5, <1>6, OntoMarker
<1>11. Len(V(n + 1).calls) - 1 = Len(View(rs).calls)
  BY <1>7, <1>8
<1>12. /\ View(rs').calls = Append(View(rs).calls, nip)
       /\ View(rs').guards
            = Append(View(rs).guards, [before |-> Len(View(rs).calls), depth |-> Len(ds)])
  <2>1. View(rs').calls = V(n + 1).calls /\ V(n + 1).calls = Append(View(rs).calls, nip)
    BY <1>8, <1>9, <1>10
  <2>2. View(rs').guards
          = Append(V(n + 1).guards, [before |-> Len(V(n + 1).calls) - 1, depth |-> saved[2]])
    BY <1>9, <1>10
  <2>3. V(n + 1).guards = View(rs).guards
    BY <1>8
  <2>4. QED
    BY <1>1, <1>11, <2>1, <2>2, <2>3, Zenon
<1>13. Promise!Catch
  BY <1>3, <1>12 DEF Promise!Catch
<1>14. QED
  BY <1>13 DEF Promise!Next

\* EXCEPTION-MARKER drops the saved depth: the caught word is done.
LEMMA LeaveGuard ==
  ASSUME Control, Rdrop, ~ Lost'
  PROVE  Promise!Next
<1> DEFINE v == View(rs')
           c == Top(rs)
<1>1. /\ rs' \in Seq(Entries) /\ Len(rs') = Len(rs) - 1 /\ c = rs[Len(rs)]
      /\ \A i \in 1..Len(rs) - 1 : rs'[i] = rs[i]
      /\ Len(rs) \in Nat /\ Len(rs) >= 1 /\ c \in Entries
  BY PopEntries DEF Control, Rdrop
<1>2. Len(rs') \in Nat /\ Len(rs) = Len(rs') + 1 /\ \A i \in 1..Len(rs') : rs[i] = rs'[i]
  BY <1>1
<1>3. View(rs) = Onto(v, c)
  BY <1>1, <1>2, ViewStep
<1>4. c[1] = "dsp" /\ ~ Lost /\ ds' = ds
  BY DEF Control, CatchFrames, Rdrop, Lost
<1>5. v \in Views
  BY <1>1, ViewType
<1> DEFINE g == [before |-> Len(v.calls) - 1, depth |-> c[2]]
<1> HIDE DEF v, c
<1>6. View(rs) = [calls |-> v.calls, guards |-> Append(v.guards, g)]
  BY <1>1, <1>3, <1>4, <1>5, OntoDepth
<1>7. v.guards \in Seq(Covers) /\ Len(v.calls) \in Nat /\ g.before + 1 = Len(v.calls)
  BY <1>5 DEF Views
<1> HIDE DEF g
<1>8. /\ View(rs).calls = v.calls
      /\ View(rs).guards = Append(v.guards, g)
      /\ View(rs).guards # << >>
      /\ View(rs).guards[Len(View(rs).guards)] = g
      /\ SubSeq(View(rs).guards, 1, Len(View(rs).guards) - 1) = v.guards
  BY <1>6, <1>7
<1>9. Promise!Leave
  BY <1>4, <1>7, <1>8 DEF Promise!Leave, Promise!Innermost, Promise!OuterGuards, v
<1>10. QED
  BY <1>9 DEF Promise!Next

LEMMA Appended ==
  ASSUME NEW S, NEW q \in Seq(S), NEW e \in S
  PROVE  /\ Append(q, e) # << >> /\ Append(q, e)[Len(Append(q, e))] = e
         /\ SubSeq(Append(q, e), 1, Len(Append(q, e)) - 1) = q
OBVIOUS

\* The innermost frame in the stack is the innermost guard.
LEMMA FrameGuards ==
  ASSUME Control, xt.op # "rdrop", NEW m \in Markers, Topmost(m)
  PROVE  LET v   == View(rs)
             low == View(SubSeq(rs, 1, m - 3))
             g   == v.guards[Len(v.guards)]
         IN  /\ v.guards # << >>
             /\ g.before = Len(low.calls) /\ g.depth = rs[m - 1][2]
             /\ SubSeq(v.guards, 1, Len(v.guards) - 1) = low.guards
             /\ SubSeq(v.calls, 1, g.before) = low.calls
             /\ v.calls[g.before + 1] = rs[m - 2]
<1> DEFINE v == View(rs)
           V(j) == View(SubSeq(rs, 1, j))
           low == V(m - 3)
           d == [before |-> Len(low.calls), depth |-> rs[m - 1][2]]
<1>1. /\ rs \in Seq(Entries) /\ Len(rs) \in Nat /\ m \in 3..Len(rs)
      /\ rs[m] = Marker /\ rs[m - 1][1] = "dsp" /\ rs[m - 1][2] \in Nat
      /\ rs[m - 2] # Marker /\ rs[m - 2][1] # "dsp"
      /\ m \in 1..Len(rs) /\ m - 1 \in 1..Len(rs) /\ m - 2 \in 1..Len(rs)
      /\ rs[m] \in Entries /\ rs[m - 1] \in Entries /\ rs[m - 2] \in Entries
  <2>1. rs \in Seq(Entries) /\ Len(rs) \in Nat
    BY DEF Control
  <2>2. m \in 3..Len(rs) /\ m \in 1..Len(rs) /\ m - 1 \in 1..Len(rs) /\ m - 2 \in 1..Len(rs)
    BY <2>1, FrameFound
  <2>3. QED
    BY <2>1, <2>2, FrameFound
<1>2. m - 3 \in Nat /\ m - 3 <= Len(rs) /\ (m - 2) - 1 = m - 3 /\ (m - 1) - 1 = m - 2
  BY <1>1
<1>3. low \in Views
  BY <1>1, <1>2, Prefix, ViewType
<1>4. V(m - 2) = Onto(low, rs[m - 2]) /\ V(m - 1) = Onto(V(m - 2), rs[m - 1])
      /\ V(m) = Onto(V(m - 1), rs[m])
  BY <1>1, <1>2, Lower
<1> HIDE DEF V, low
<1>5. V(m - 2) = [calls |-> Append(low.calls, rs[m - 2]), guards |-> low.guards]
      /\ V(m - 2) \in Views
  BY <1>1, <1>3, <1>4, OntoCall
<1>6. V(m - 1) = [calls |-> V(m - 2).calls,
        guards |-> Append(V(m - 2).guards, [before |-> Len(V(m - 2).calls) - 1, depth |-> rs[m - 1][2]])]
  BY <1>1, <1>4, <1>5, OntoDepth
<1>7. low.calls \in Seq(Names \X Nat) /\ Len(low.calls) \in Nat /\ low.guards \in Seq(Covers)
  BY <1>3 DEF Views
<1>8. Len(V(m - 2).calls) - 1 = Len(low.calls)
  BY <1>5, <1>7
<1>9. V(m).calls = Append(low.calls, rs[m - 2]) /\ V(m).guards = Append(low.guards, d)
  <2>1. V(m) = V(m - 1)
    BY <1>1, <1>4, OntoMarker
  <2>2. V(m - 2).calls = Append(low.calls, rs[m - 2]) /\ V(m - 2).guards = low.guards
    BY <1>5
  <2>3. V(m - 1).calls = V(m - 2).calls
        /\ V(m - 1).guards = Append(V(m - 2).guards, d)
    BY <1>6, <1>8
  <2>4. QED
    BY <2>1, <2>2, <2>3
<1>10. \A i \in m + 1..Len(rs) : rs[i][1] # "dsp"
  <2>1. SUFFICES ASSUME NEW i \in m + 1..Len(rs), rs[i][1] = "dsp"
                 PROVE  FALSE
    OBVIOUS
  <2>2. i \in 1..Len(rs) /\ i > m /\ rs[i] # Marker
    BY <1>1, <2>1, MarkerAddress
  <2>3. rs # << >> /\ Top(rs)[1] # "dsp" /\ Top(rs) = rs[Len(rs)]
    BY <1>1 DEF Control, CatchFrames, Top
  <2>4. i < Len(rs)
    BY <1>1, <2>1, <2>2, <2>3
  <2>5. ~ Address(rs[i])
    BY <2>1, MarkerAddress DEF Address, Names
  <2>6. rs[i + 1] = Marker
    BY <2>2, <2>4, <2>5 DEF Control, CatchFrames
  <2>7. i + 1 \in Markers
    BY <1>1, <2>2, <2>4, <2>6 DEF Markers
  <2>8. QED
    BY <1>1, <2>2, <2>7 DEF Topmost
<1>11. /\ v.guards = V(m).guards /\ Len(V(m).calls) <= Len(v.calls)
       /\ \A i \in 1..Len(V(m).calls) : v.calls[i] = V(m).calls[i]
  <2>1. m \in Nat /\ m <= Len(rs)
    BY <1>1
  <2>2. QED
    BY <1>1, <1>10, <2>1, ViewAbove DEF V
<1>12. v.calls \in Seq(Names \X Nat)
  BY <1>1, ViewType DEF Views
<1> HIDE DEF v
<1>13. d.before = Len(low.calls) /\ d.depth = rs[m - 1][2]
  OBVIOUS
<1> HIDE DEF d
<1>14. /\ v.guards # << >> /\ v.guards[Len(v.guards)] = d
       /\ SubSeq(v.guards, 1, Len(v.guards) - 1) = low.guards
  <2>1. d \in Covers
    BY <1>1, <1>7 DEF d, Covers
  <2>2. v.guards = Append(low.guards, d)
    BY <1>9, <1>11
  <2>3. low.guards \in Seq(Covers)
    BY <1>7
  <2> DEFINE q == low.guards
             e == Append(q, d)
  <2> HIDE DEF q
  <2>4. e # << >> /\ e[Len(e)] = d /\ SubSeq(e, 1, Len(e) - 1) = q
    BY <2>1, <2>3, Appended DEF q
  <2>5. v.guards = e
    BY <2>2 DEF q
  <2> HIDE DEF e
  <2>6. QED
    BY <2>4, <2>5 DEF q
<1>15. SubSeq(v.calls, 1, Len(low.calls)) = low.calls /\ v.calls[Len(low.calls) + 1] = rs[m - 2]
  <2> DEFINE n == Len(low.calls)
  <2>1. n \in Nat /\ Len(V(m).calls) = n + 1 /\ V(m).calls[n + 1] = rs[m - 2]
        /\ \A i \in 1..n : V(m).calls[i] = low.calls[i]
    BY <1>7, <1>9
  <2> HIDE DEF n
  <2>2. v.calls[n + 1] = rs[m - 2] /\ (\A i \in 1..n : v.calls[i] = low.calls[i])
        /\ n <= Len(v.calls)
    BY <1>11, <1>12, <2>1
  <2>3. Len(SubSeq(v.calls, 1, n)) = n /\ (\A i \in 1..n : SubSeq(v.calls, 1, n)[i] = v.calls[i])
        /\ SubSeq(v.calls, 1, n) \in Seq(Names \X Nat)
    BY <1>12, <2>1, <2>2, Prefix
  <2>4. SubSeq(v.calls, 1, n) = low.calls
    BY <1>7, <2>2, <2>3, SeqEqual DEF n
  <2>5. QED
    BY <2>2, <2>4 DEF n
<1>16. QED
  BY <1>13, <1>14, <1>15 DEF v, low, V

\* THROW: what the innermost guard covers is gone, and the depth its CATCH
\* saved is back.
LEMMA Unwinds ==
  ASSUME Control, ~ Lost, xt.op # "rdrop", ds' \in Seq(Cells),
         NEW s \in Seq(Cells), NEW n \in Cells, Throw(n, s)
  PROVE  Promise!Next
<1>1. CASE Uncaught(s)
  <2>1. ~ Lost' /\ rs' = rs
    BY <1>1 DEF Uncaught, Lost, Op
  <2>2. QED
    BY <2>1, Works
<1>2. ASSUME NEW m \in Markers, Caught(n, s, m)
      PROVE  Promise!Next
  <2> DEFINE d == rs[m - 1][2]
  <2>1. CASE Collides(s, d)
    <3>1. Lost'
      BY <1>2, <2>1 DEF Caught, Lost, Op
    <3>2. QED
      BY <3>1, Abandons
  <2>2. CASE ~ Collides(s, d)
    <3>1. PICK old \in [Len(s) + 7..d -> Stale] :
            /\ rs' = SubSeq(rs, 1, m - 3) /\ ds' = Push(Restored(s, n, d, old), n)
            /\ NextAt(rs[m - 2]) /\ Topmost(m)
      BY <1>2, <2>2 DEF Caught
    <3>2. d \in Nat /\ Address(rs[m - 2])
      BY FrameFound
    <3>3. ~ Lost' /\ nip' = Promise!After(rs[m - 2])
      BY <3>1, <3>2, NextAtArrives DEF Lost, Promise!After
    <3>4. Len(ds') = d + 1
      <4> HIDE DEF d
      <4>1. Restored(s, n, d, old) \in Seq(Cells) /\ Len(Restored(s, n, d, old)) = d
        BY <3>1, <3>2, RestoredType
      <4>2. QED
        BY <3>1, <4>1 DEF Push
    <3> DEFINE g == View(rs).guards[Len(View(rs).guards)]
    <3>5. /\ View(rs).guards # << >> /\ g.depth = d
          /\ SubSeq(View(rs).guards, 1, Len(View(rs).guards) - 1) = View(rs').guards
          /\ SubSeq(View(rs).calls, 1, g.before) = View(rs').calls
          /\ View(rs).calls[g.before + 1] = rs[m - 2]
      BY <3>1, FrameGuards
    <3> HIDE DEF d
    <3>6. Promise!Throw
      BY <3>3, <3>4, <3>5 DEF Promise!Throw, Promise!Innermost, Promise!OuterGuards
    <3>7. QED
      BY <3>6 DEF Promise!Next
  <2>3. QED
    BY <2>1, <2>2
<1>3. QED
  BY <1>1, <1>2 DEF Throw

\* A lost machine can only restart.
LEMMA StepKept == IInv /\ IInv' /\ [Next]_vars => [Promise!Next]_Promise!vars
<1> SUFFICES ASSUME IInv, IInv', [Next]_vars
             PROVE  [Promise!Next]_Promise!vars
  OBVIOUS
<1>1. Control /\ Control' /\ ds \in Seq(Cells) /\ ds' \in Seq(Cells)
  BY Parts, PartsNext DEF Stacked
<1>2. xt \in UserCell \union MachineCell
  BY <1>1 DEF Control, Arrived
<1>3. CASE UNCHANGED vars
  BY <1>3 DEF vars, Lost, Promise!vars
<1>4. CASE Restart
  <2>1. nip' = << "start", 2 >> /\ rs' = << >>
    BY <1>4 DEF Restart, ColdStart, NextAt
  <2>2. QED
    BY <1>1, <2>1, Abandons
<1>5. SUFFICES ASSUME Machine \/ Refill
               PROVE  Promise!Next
  BY <1>3, <1>4 DEF Next
<1>6. ~ Lost
  BY <1>5 DEF Machine, Lost, InterpretEnd, InterpretWord, InterpretNumber, InterpretCompile,
     ParseError, Quit, RefillBranch, QuitLoop, Call, Exit, Lit, Drop, Rdrop, Brackets,
     Catch, ThrowWord, ThrowZero, Evaluate, Eof, RestoreInput, StackMismatch, Refill
<1>7. xt \in UserCell /\ xt.op # "quit" => Address(nip)
  BY <1>1 DEF Control, Arrived, Fetched
<1>8. \A p : Address(p) /\ NextAt(p) => ~ Lost'
  BY NextAtArrives DEF Lost
<1>9. CASE InterpretNumber \/ InterpretCompile
  <2>1. ~ Lost' /\ rs' = rs
    BY <1>6, <1>9 DEF InterpretNumber, InterpretCompile, Lost
  <2>2. QED
    BY <1>1, <1>6, <2>1, Works
<1>10. CASE InterpretWord
  <2>1. PICK t \in Words \union Prim : xt' = Lookup(t)
    BY <1>10 DEF InterpretWord
  <2>2. ~ Lost' /\ rs' = rs
    BY <1>10, <2>1 DEF Lookup, Op, Prim, Lost, InterpretWord
  <2>3. QED
    BY <1>1, <1>6, <2>2, Works
<1>11. CASE InterpretEnd \/ Refill \/ RefillBranch \/ QuitLoop \/ Eof \/ ParseError
  <2>1. \E p \in Places : NextAt(p)
    <3>1. CASE InterpretEnd \/ Refill \/ RefillBranch \/ Eof
      <4>1. nip \in Places
        BY <1>1, <3>1, MachineAt
           DEF Control, Arrived, InterpretEnd, Refill, RefillBranch, Eof, Places
      <4>2. QED
        BY <3>1, <4>1 DEF InterpretEnd, Refill, RefillBranch, Eof, Places
    <3>2. CASE QuitLoop \/ ParseError
      BY <3>2 DEF QuitLoop, ParseError, Places
    <3>3. QED
      BY <1>11, <3>1, <3>2
  <2>2. ~ Lost'
    BY <1>8, <2>1, PlacesAddresses
  <2>3. rs' = rs
    BY <1>11 DEF InterpretEnd, Refill, RefillBranch, QuitLoop, Eof, ParseError
  <2>4. QED
    BY <1>1, <1>6, <2>2, <2>3, Works
<1>12. CASE Quit
  <2>1. NextAt(<< "quit", 1 >>) /\ rs' = << >> /\ Address(<< "quit", 1 >>)
    BY <1>12, PlacesAddresses DEF Quit, Places
  <2>2. ~ Lost' /\ nip' = << "quit", 2 >>
    BY <1>8, <2>1 DEF NextAt
  <2>3. QED
    BY <1>1, <2>1, <2>2, Abandons
<1>13. CASE Call \/ Evaluate
  <2>1. xt \in UserCell /\ xt.op # "quit"
    BY <1>2, <1>13, CellKinds DEF Call, Evaluate, MachineOps
  <2>2. rs' = Push(rs, nip)
    BY <1>13 DEF Call, Evaluate
  <2>3. \E p : Address(p) /\ NextAt(p)
    <3>1. CASE Call
      <4>1. xt.arg \in Words
        BY <2>1, <3>1 DEF Call, UserCell, Prim
      <4>2. Address(<< xt.arg, 1 >>)
        BY <4>1, UserBody DEF Address
      <4>3. QED
        BY <3>1, <4>2 DEF Call
    <3>2. CASE Evaluate
      BY <3>2, PlacesAddresses DEF Evaluate, Places
    <3>3. QED
      BY <1>13, <3>1, <3>2
  <2>4. QED
    BY <1>1, <1>6, <1>7, <1>8, <2>1, <2>2, <2>3, EnterCall
<1>14. CASE Exit \/ RestoreInput
  <2>1. rs # << >> /\ NextAt(Top(rs)) /\ rs' = Pop(rs) /\ xt.op # "rdrop"
    BY <1>14 DEF Exit, RestoreInput
  <2>2. Top(rs)[1] # "dsp" /\ Address(Top(rs))
    <3>1. Top(rs)[1] # "dsp"
      BY <1>1, <2>1 DEF Control, CatchFrames
    <3>2. Len(rs) \in 1..Len(rs) /\ Top(rs) = rs[Len(rs)]
      BY <1>1, <2>1 DEF Control, Top
    <3>3. QED
      BY <1>1, <3>1, <3>2, MarkerAddress DEF Control, CatchFrames
  <2>3. ~ Lost'
    BY <1>8, <2>1, <2>2
  <2>4. QED
    BY <1>1, <1>6, <2>1, <2>2, <2>3, LeaveCall
<1>15. CASE Lit \/ Drop \/ ThrowZero \/ Brackets
  <2>1. xt \in UserCell /\ xt.op # "quit"
    BY <1>2, <1>15, CellKinds DEF Lit, Drop, ThrowZero, Brackets, MachineOps
  <2>2. NextAt(nip) /\ rs' = rs
    BY <1>15 DEF Lit, Drop, ThrowZero, Brackets
  <2>3. QED
    BY <1>1, <1>6, <1>7, <1>8, <2>1, <2>2, Works
<1>16. CASE Rdrop
  <2>1. nip = << "exception_marker", 2 >> /\ NextAt(nip)
    BY <1>1, <1>16, MachineAt DEF Control, Arrived, Rdrop
  <2>2. ~ Lost'
    BY <1>8, <2>1, PlacesAddresses DEF Places
  <2>3. QED
    BY <1>1, <1>16, <2>2, LeaveGuard
<1>17. CASE Catch
  <2>1. xt \in UserCell /\ xt.op # "quit"
    BY <1>2, <1>17, CellKinds DEF Catch, MachineOps
  <2>2. QED
    BY <1>1, <1>7, <1>17, <2>1, EnterGuard
<1>18. CASE ThrowWord \/ StackMismatch
  <2>1. \E s \in {Pop(ds), Pop(Pop(ds))}, n \in {-1, Top(ds)} : Throw(n, s)
    BY <1>18 DEF ThrowWord, StackMismatch
  <2>2. Pop(ds) \in Seq(Cells) /\ Pop(Pop(ds)) \in Seq(Cells) /\ {-1, Top(ds)} \subseteq Cells
    BY <1>1, PopType DEF Cells
  <2>3. xt.op # "rdrop"
    BY <1>18 DEF ThrowWord, StackMismatch
  <2>4. QED
    BY <1>1, <1>6, <2>1, <2>2, <2>3, Unwinds
<1>19. QED
  BY <1>5, <1>9, <1>10, <1>11, <1>12, <1>13, <1>14, <1>15, <1>16, <1>17, <1>18 DEF Machine

LEMMA InitKept == Init => Promise!Init
<1> SUFFICES ASSUME Init
             PROVE  Promise!Init
  OBVIOUS
<1>1. ~ Lost /\ rs = << >> /\ ds = Floor
  BY BuiltInBody DEF Init, Lost, Op
<1>2. Len(ds) \in Nat
  BY <1>1, FloorSaved
<1>3. QED
  BY <1>1, <1>2, ViewEmpty DEF Promise!Init, NoView

----------------------------------------------------------------------------
(* The theorems.  Each holds for every dictionary, every text and every    *)
(* sequence of lines, restarts included, as long as no program tampers     *)
(* with the saved input: it does not throw the marker of SAVE-INPUT as an  *)
(* exception code, and no throw comes from more than six cells below the   *)
(* depth of the CATCH it goes to.  Of a program that does the theorems say *)
(* nothing: RESTORE-INPUT may then store codes and addresses as an input   *)
(* source, as it does in the code.                                         *)

\* The inductive invariant holds always.
THEOREM Invariance == Spec /\ []~ Tampers => []IInv
<1>1. Init => IInv
  BY Initially
<1>2. IInv /\ ~ Tampers /\ [Next]_vars => IInv'
  BY Inductive
<1>3. QED
  BY <1>1, <1>2, PTL DEF Spec

\* The registers, the stacks and the input source keep their types: whatever
\* RESTORE-INPUT takes off the data stack is an input source.
THEOREM Typing == Spec /\ []~ Tampers => []TypeOK
<1>1. IInv => TypeOK
  BY DEF IInv
<1>2. QED
  BY <1>1, Invariance, PTL

\* QUIT reads every line with an empty return stack, and EXIT, RDROP and
\* RESTORE-INPUT never pop an empty one.
THEOREM Unnested == Spec /\ []~ Tampers => []PromptUnnested
BY PromptFollows, Invariance, PTL

\* The frames of CATCH stay whole under every call, return and unwinding.
THEOREM Frames == Spec /\ []~ Tampers => []CatchFrames
<1>1. IInv => CatchFrames
  BY DEF IInv
<1>2. QED
  BY <1>1, Invariance, PTL

\* The source id tells what the input buffer is, whatever was evaluated,
\* restored, reset or unwound.
THEOREM SourceIds == Spec /\ []~ Tampers => []SourceIdTells
<1>1. IInv => SourceIdTells
  BY DEF IInv
<1>2. QED
  BY <1>1, Invariance, PTL

\* Calls, returns, CATCH and THROW over one return stack do what Exceptions
\* says of them, whatever the user's words, the evaluated texts and the lines
\* are, restarts included.
THEOREM Implements == Spec /\ []~ Tampers => KeepsPromise
<1>1. Spec /\ []~ Tampers => Promise!Spec
  BY InitKept, StepKept, Invariance, PTL DEF Spec, Promise!Spec
<1>2. QED
  BY <1>1 DEF KeepsPromise
=============================================================================
