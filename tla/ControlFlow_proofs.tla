------------------------- MODULE ControlFlow_proofs -------------------------
(* Proofs about ControlFlow, for definitions of any length.                *)
EXTENDS ControlFlow, SequenceTheorems, FiniteSetTheorems, TLAPS

Ops == {"offset", "word", "0branch", "branch", "not", "lit", "1", "drop", "over", "=",
        "2dup", "(>loop-sys)", "dup", "(loop-sys-peek)", "(loop-done?)", "swap",
        "(loop-inc)", "unloop"}
CodeCell == [op : Ops, off : Int]
TextWords == Openers \cup Closers \cup {"word", "else", "while"}
Kinds == {"if", "else", "begin", "while", "do", "case", "of"}
Holes(c) == {a \in 1..Len(c) : c[a] = Hole}

\* What an open structure has on the stack, in the cells lo + 1 to hi.
HoleAt(c, a) == a \in 1..Len(c) /\ c[a].op = "offset"
StartAt(c, a) == a \in 1..Len(c) + 1 /\ a \notin Holes(c)
Segment(c, s, kind, lo, hi) ==
  \/ kind \in {"if", "else", "of"} /\ hi = lo + 1 /\ HoleAt(c, s[hi])
  \/ kind = "begin" /\ hi = lo + 1 /\ StartAt(c, s[hi])
  \/ kind = "while" /\ hi = lo + 2 /\ StartAt(c, s[lo + 1]) /\ HoleAt(c, s[hi])
  \/ kind = "do" /\ hi = lo + 2 /\ s[lo + 1] = 0 /\ StartAt(c, s[hi])
  \/ /\ kind = "do" /\ hi = lo + 3
     /\ HoleAt(c, s[lo + 1]) /\ s[lo + 2] = 1 /\ StartAt(c, s[hi])
  \/ kind = "case" /\ hi > lo /\ s[lo + 1] = 0 /\ \A j \in lo + 2..hi : HoleAt(c, s[j])

\* The stack is made of these, one on the other; h are their heights.
Heights(c, s, n, h) ==
  /\ h[0] = 1 /\ h[Len(n)] = Len(s)
  /\ \A i, j \in 0..Len(n) : i < j => h[i] < h[j]
  /\ \A i \in 1..Len(n) : Segment(c, s, n[i], h[i - 1], h[i])
Shaped(c, s, n) == \E h \in [0..Len(n) -> Nat] : Heights(c, s, n, h)

\* OF stands only in CASE.
Nested(n) == \A i \in 1..Len(n) : n[i] = "of" => i > 1 /\ n[i - 1] = "case"

Targets(c) == \A a \in 1..Len(c) : a + c[a].off \in 1..Len(c) + 1
Known(c, s) == \A a \in Holes(c) : \E i \in 2..Len(s) : s[i] = a

\* Below everything is what the program has on the stack.
Base(c, s, n) ==
  /\ c \in Seq(CodeCell) /\ StartAt(c, 1)
  /\ s \in Seq(Nat) /\ Len(s) >= 1 /\ s[1] = Below
  /\ n \in Seq(Kinds) /\ Shaped(c, s, n) /\ Nested(n)
Balanced(c, s, n) == Base(c, s, n) /\ Targets(c) /\ Known(c, s)

Logged ==
  /\ at \in Seq(Nat) /\ text \in Seq(TextWords)
  /\ Len(at) = Len(text) /\ \A k \in 1..Len(at) : at[k] \in 1..Here

IInv == Balanced(code, stack, nest) /\ Logged

----------------------------------------------------------------------------
(* The shape of the stack.                                                 *)

\* Code that is laid down or patched leaves the addresses on the stack as good
\* as they were: a hole is where it was, and no new hole is where a loop starts.
Grows(c, d) ==
  /\ Len(d) >= Len(c)
  /\ \A a \in 1..Len(c) : d[a].op = c[a].op
  /\ Holes(d) \cap 1..Len(c) + 1 \subseteq Holes(c)

LEMMA AddressesStay ==
  ASSUME NEW c \in Seq(CodeCell), NEW d \in Seq(CodeCell), Grows(c, d), NEW a
  PROVE  /\ HoleAt(c, a) => HoleAt(d, a)
         /\ StartAt(c, a) => StartAt(d, a)
<1>1. Len(c) \in Nat /\ Len(d) \in Nat
  OBVIOUS
<1>2. HoleAt(c, a) => HoleAt(d, a)
  BY <1>1 DEF Grows, HoleAt
<1>3. StartAt(c, a) => StartAt(d, a)
  BY <1>1 DEF Grows, StartAt
<1>4. QED
  BY <1>2, <1>3

LEMMA GrowsOn ==
  ASSUME NEW c \in Seq(CodeCell), NEW d \in Seq(CodeCell), NEW e \in Seq(CodeCell),
         Grows(c, d), Grows(d, e)
  PROVE  Grows(c, e)
<1>1. Len(c) \in Nat /\ Len(d) \in Nat /\ Len(e) \in Nat
  OBVIOUS
<1>2. Len(e) >= Len(c) /\ \A a \in 1..Len(c) : e[a].op = c[a].op
  BY <1>1 DEF Grows
<1>3. Holes(e) \cap 1..Len(c) + 1 \subseteq Holes(c)
  BY <1>1 DEF Grows
<1>4. QED
  BY <1>2, <1>3 DEF Grows

LEMMA SegmentStays ==
  ASSUME NEW c \in Seq(CodeCell), NEW d \in Seq(CodeCell), Grows(c, d),
         NEW s \in Seq(Nat), NEW t \in Seq(Nat), NEW kind,
         NEW lo \in Nat, NEW hi \in Nat, lo < hi,
         \A j \in lo + 1..hi : t[j] = s[j], Segment(c, s, kind, lo, hi)
  PROVE  Segment(d, t, kind, lo, hi)
<1>1. \A a : HoleAt(c, a) => HoleAt(d, a)
  BY AddressesStay
<1>2. \A a : StartAt(c, a) => StartAt(d, a)
  BY AddressesStay
<1>3. t[lo + 1] = s[lo + 1] /\ t[hi] = s[hi]
  OBVIOUS
<1>4. hi = lo + 3 => t[lo + 2] = s[lo + 2]
  OBVIOUS
<1>5. \A j \in lo + 2..hi : t[j] = s[j]
  OBVIOUS
<1>6. QED
  BY <1>1, <1>2, <1>3, <1>4, <1>5 DEF Segment

LEMMA BelowStays ==
  ASSUME NEW c \in Seq(CodeCell), NEW d \in Seq(CodeCell), Grows(c, d),
         NEW s \in Seq(Nat), NEW t \in Seq(Nat), NEW top \in Nat, NEW kind,
         NEW lo \in Nat, NEW hi \in Nat, lo < hi, hi <= top,
         \A j \in 1..top : t[j] = s[j], Segment(c, s, kind, lo, hi)
  PROVE  Segment(d, t, kind, lo, hi)
<1>1. \A j \in lo + 1..hi : t[j] = s[j]
  <2> SUFFICES ASSUME NEW j \in lo + 1..hi PROVE t[j] = s[j]
    OBVIOUS
  <2>1. j \in 1..top
    OBVIOUS
  <2>2. QED
    BY <2>1
<1>2. QED
  BY <1>1, SegmentStays

LEMMA HeightsBelow ==
  ASSUME NEW c, NEW s \in Seq(Nat), NEW n \in Seq(Kinds),
         NEW h \in [0..Len(n) -> Nat], Heights(c, s, n, h)
  PROVE  /\ \A i \in 0..Len(n) : h[i] \in Nat /\ h[i] <= Len(s)
         /\ \A i \in 1..Len(n) : /\ h[i - 1] \in Nat /\ h[i - 1] < h[i]
                                 /\ Segment(c, s, n[i], h[i - 1], h[i])
<1>1. ASSUME NEW i \in 0..Len(n) PROVE h[i] \in Nat /\ h[i] <= Len(s)
  <2>1. Len(n) \in Nat /\ Len(s) \in Nat /\ h[i] \in Nat
    OBVIOUS
  <2>2. i = Len(n) \/ i < Len(n)
    BY <2>1
  <2>3. h[Len(n)] = Len(s) /\ Len(n) \in 0..Len(n)
    BY <2>1 DEF Heights
  <2>4. i < Len(n) => h[i] < h[Len(n)]
    BY <2>3 DEF Heights
  <2>5. QED
    BY <2>1, <2>2, <2>3, <2>4
<1>2. ASSUME NEW i \in 1..Len(n)
      PROVE  h[i - 1] \in Nat /\ h[i - 1] < h[i] /\ Segment(c, s, n[i], h[i - 1], h[i])
  <2>1. i - 1 \in 0..Len(n) /\ i \in 0..Len(n) /\ i - 1 < i
    OBVIOUS
  <2>2. QED
    BY <2>1 DEF Heights
<1>3. QED
  BY <1>1, <1>2

LEMMA Stays ==
  ASSUME NEW c \in Seq(CodeCell), NEW d \in Seq(CodeCell), Grows(c, d),
         NEW s \in Seq(Nat), NEW n \in Seq(Kinds), Shaped(c, s, n)
  PROVE  Shaped(d, s, n)
<1>1. PICK h \in [0..Len(n) -> Nat] : Heights(c, s, n, h)
  BY DEF Shaped
<1>2. ASSUME NEW i \in 1..Len(n) PROVE Segment(d, s, n[i], h[i - 1], h[i])
  <2> DEFINE lo == h[i - 1]
             hi == h[i]
             kind == n[i]
  <2>1. i \in 0..Len(n) /\ Len(s) \in Nat
    OBVIOUS
  <2>2. lo \in Nat /\ hi \in Nat /\ lo < hi /\ hi <= Len(s) /\ Segment(c, s, kind, lo, hi)
    BY <1>1, <2>1, HeightsBelow
  <2> HIDE DEF lo, hi, kind
  <2>3. Segment(d, s, kind, lo, hi)
    BY <2>1, <2>2, BelowStays
  <2>4. QED
    BY <2>3 DEF lo, hi, kind
<1>3. Heights(d, s, n, h)
  BY <1>1, <1>2 DEF Heights
<1>4. QED
  BY <1>3 DEF Shaped

\* One more structure is opened, above what is there.
LEMMA Opened ==
  ASSUME NEW c \in Seq(CodeCell), NEW d \in Seq(CodeCell), Grows(c, d),
         NEW s \in Seq(Nat), NEW t \in Seq(Nat),
         NEW n \in Seq(Kinds), NEW kind \in Kinds, Shaped(c, s, n),
         Len(t) > Len(s), \A j \in 1..Len(s) : t[j] = s[j],
         Segment(d, t, kind, Len(s), Len(t))
  PROVE  Shaped(d, t, Append(n, kind))
<1> DEFINE N == Append(n, kind)
<1>1. PICK h \in [0..Len(n) -> Nat] : Heights(c, s, n, h)
  BY DEF Shaped
<1> DEFINE g == [i \in 0..Len(n) + 1 |-> IF i = Len(n) + 1 THEN Len(t) ELSE h[i]]
<1>2. /\ Len(n) \in Nat /\ Len(N) = Len(n) + 1 /\ N[Len(n) + 1] = kind
      /\ \A i \in 1..Len(n) : N[i] = n[i]
      /\ Len(s) \in Nat /\ Len(t) \in Nat
  OBVIOUS
<1>3. \A i \in 0..Len(n) : h[i] \in Nat /\ h[i] <= Len(s)
  BY <1>1, <1>2, HeightsBelow
<1>4. g \in [0..Len(N) -> Nat]
  BY <1>2
<1>5. g[Len(n) + 1] = Len(t) /\ \A i \in 0..Len(n) : g[i] = h[i]
  BY <1>2
<1> HIDE DEF g, N
<1>6. \A i, j \in 0..Len(N) : i < j => g[i] < g[j]
  <2> SUFFICES ASSUME NEW i \in 0..Len(N), NEW j \in 0..Len(N), i < j PROVE g[i] < g[j]
    OBVIOUS
  <2>1. i \in 0..Len(n) /\ g[i] = h[i]
    BY <1>2, <1>5
  <2>2. CASE j = Len(n) + 1
    BY <1>2, <1>3, <1>5, <2>1, <2>2
  <2>3. CASE j \in 0..Len(n)
    BY <1>1, <1>2, <1>5, <2>1, <2>3 DEF Heights
  <2>4. QED
    BY <1>2, <2>2, <2>3
<1>7. ASSUME NEW i \in 1..Len(n) PROVE Segment(d, t, N[i], g[i - 1], g[i])
  <2> DEFINE lo == h[i - 1]
             hi == h[i]
             k == n[i]
  <2>1. i \in 0..Len(n) /\ i - 1 \in 0..Len(n)
    BY <1>2
  <2>2. lo \in Nat /\ hi \in Nat /\ lo < hi /\ hi <= Len(s) /\ Segment(c, s, k, lo, hi)
    BY <1>1, <2>1, HeightsBelow
  <2>3. N[i] = k /\ g[i - 1] = lo /\ g[i] = hi
    BY <1>2, <1>5, <2>1
  <2> HIDE DEF lo, hi, k
  <2>4. Segment(d, t, k, lo, hi)
    BY <1>2, <2>2, BelowStays
  <2>5. QED
    BY <2>3, <2>4
<1>8. Segment(d, t, N[Len(N)], g[Len(N) - 1], g[Len(N)])
  <2>1. Len(N) - 1 = Len(n) /\ Len(n) \in 0..Len(n) /\ h[Len(n)] = Len(s)
    BY <1>1, <1>2 DEF Heights
  <2>2. g[Len(N) - 1] = Len(s) /\ g[Len(N)] = Len(t) /\ N[Len(N)] = kind
    BY <1>2, <1>5, <2>1
  <2>3. QED
    BY <2>2
<1>9. \A i \in 1..Len(N) : Segment(d, t, N[i], g[i - 1], g[i])
  <2> SUFFICES ASSUME NEW i \in 1..Len(N) PROVE Segment(d, t, N[i], g[i - 1], g[i])
    OBVIOUS
  <2>1. i \in Int /\ 1 <= i /\ i <= Len(n) + 1 /\ Len(n) \in Int
    BY <1>2
  <2>2. i \in 1..Len(n) \/ i = Len(N)
    <3>1. CASE i <= Len(n)
      BY <1>2, <2>1, <3>1
    <3>2. CASE i = Len(n) + 1
      BY <1>2, <3>2
    <3>3. i <= Len(n) \/ i = Len(n) + 1
      BY <2>1
    <3>4. QED
      BY <3>1, <3>2, <3>3
  <2>3. QED
    BY <1>7, <1>8, <2>2
<1>10. g[0] = 1 /\ g[Len(N)] = Len(t)
  BY <1>1, <1>2, <1>5 DEF Heights
<1>11. Heights(d, t, N, g)
  BY <1>6, <1>9, <1>10 DEF Heights
<1>12. QED
  BY <1>4, <1>11 DEF Shaped, N

LEMMA FrontLast ==
  ASSUME NEW S, NEW s \in Seq(S), s # << >>
  PROVE  /\ Len(s) \in Nat /\ Len(s) >= 1 /\ Last(s) = s[Len(s)] /\ Last(s) \in S
         /\ Front(s) \in Seq(S) /\ Len(Front(s)) = Len(s) - 1
         /\ \A i \in 1..Len(s) - 1 : Front(s)[i] = s[i]
<1>1. Len(s) \in Nat /\ Len(s) >= 1 /\ Last(s) = s[Len(s)] /\ Last(s) \in S
  BY DEF Last
<1> DEFINE l == Len(s) - 1
<1>2. l \in Int /\ l >= 0 /\ 1 \in Int /\ \A i \in 1..l : s[i] \in S
  BY <1>1
<1> HIDE DEF l
<1>3. /\ SubSeq(s, 1, l) \in Seq(S)
      /\ Len(SubSeq(s, 1, l)) = IF 1 <= l THEN l - 1 + 1 ELSE 0
      /\ \A i \in 1..l - 1 + 1 : SubSeq(s, 1, l)[i] = s[1 + i - 1]
  BY <1>2, SubSeqProperties
<1>4. /\ SubSeq(s, 1, l) \in Seq(S) /\ Len(SubSeq(s, 1, l)) = l
      /\ \A i \in 1..l : SubSeq(s, 1, l)[i] = s[i]
  BY <1>2, <1>3
<1>5. QED
  BY <1>1, <1>4 DEF Front, l

LEMMA Beginning ==
  ASSUME NEW s \in Seq(Nat), NEW lo \in 1..Len(s)
  PROVE  /\ SubSeq(s, 1, lo) \in Seq(Nat) /\ Len(SubSeq(s, 1, lo)) = lo
         /\ \A i \in 1..lo : SubSeq(s, 1, lo)[i] = s[i]
<1>1. lo \in Int /\ 1 <= lo /\ \A i \in 1..lo : s[i] \in Nat
  OBVIOUS
<1>2. QED
  BY <1>1, SubSeqProperties

\* What is below the innermost structure is shaped by the others.
LEMMA Closed ==
  ASSUME NEW c \in Seq(CodeCell), NEW s \in Seq(Nat), NEW n \in Seq(Kinds),
         Shaped(c, s, n), n # << >>
  PROVE  \E lo \in 1..Len(s) :
           /\ lo < Len(s) /\ Segment(c, s, Last(n), lo, Len(s))
           /\ Shaped(c, SubSeq(s, 1, lo), Front(n))
<1> DEFINE N == Front(n)
<1>1. PICK h \in [0..Len(n) -> Nat] : Heights(c, s, n, h)
  BY DEF Shaped
<1>2. /\ Len(n) \in Nat /\ Len(n) >= 1 /\ Last(n) = n[Len(n)]
      /\ N \in Seq(Kinds) /\ Len(N) = Len(n) - 1 /\ \A i \in 1..Len(n) - 1 : N[i] = n[i]
  BY FrontLast
<1> DEFINE lo == h[Len(n) - 1]
           t == SubSeq(s, 1, lo)
<1>3. Len(n) - 1 \in 0..Len(n) /\ Len(n) \in 0..Len(n) /\ 0 \in 0..Len(n) /\ Len(s) \in Nat
  BY <1>2
<1>4. lo \in Nat /\ lo < Len(s) /\ lo >= 1
  <2>1. lo \in Nat /\ h[0] = 1 /\ h[Len(n)] = Len(s)
    BY <1>1, <1>3 DEF Heights
  <2>2. lo < h[Len(n)]
    <3>1. Len(n) - 1 < Len(n)
      BY <1>2
    <3>2. QED
      BY <1>1, <1>3, <3>1 DEF Heights
  <2>3. 0 < Len(n) - 1 => h[0] < lo
    BY <1>1, <1>3 DEF Heights
  <2>4. QED
    BY <1>2, <2>1, <2>2, <2>3
<1>5. t \in Seq(Nat) /\ Len(t) = lo /\ \A j \in 1..lo : t[j] = s[j]
  BY <1>3, <1>4, Beginning
<1>6. Segment(c, s, Last(n), lo, Len(s))
  BY <1>1, <1>2 DEF Heights
<1> DEFINE g == [i \in 0..Len(N) |-> h[i]]
<1>7. g \in [0..Len(N) -> Nat] /\ \A i \in 0..Len(N) : g[i] = h[i] /\ h[i] \in Nat
  <2>1. \A i \in 0..Len(N) : i \in 0..Len(n)
    BY <1>2
  <2>2. QED
    BY <2>1
<1>8. h[Len(N)] = lo
  BY <1>2
<1> HIDE DEF g, t, lo, N
<1>9. ASSUME NEW i \in 1..Len(N) PROVE h[i] <= lo
  <2>1. i \in 0..Len(n) /\ Len(N) \in 0..Len(n) /\ (i = Len(N) \/ i < Len(N))
    BY <1>2
  <2>2. i < Len(N) => h[i] < h[Len(N)]
    BY <1>1, <2>1 DEF Heights
  <2>3. h[i] \in Nat
    BY <2>1
  <2>4. QED
    BY <1>4, <1>8, <2>1, <2>2, <2>3
<1>10. ASSUME NEW i \in 1..Len(N) PROVE Segment(c, t, N[i], g[i - 1], g[i])
  <2> DEFINE from == h[i - 1]
             to == h[i]
             kind == n[i]
  <2>1. i \in 1..Len(n) /\ i \in 0..Len(n) /\ i \in 0..Len(N) /\ i - 1 \in 0..Len(N)
    BY <1>2
  <2>2. from \in Nat /\ to \in Nat /\ from < to /\ to <= lo /\ Segment(c, s, kind, from, to)
    BY <1>1, <1>9, <2>1, HeightsBelow
  <2>3. N[i] = kind /\ g[i - 1] = from /\ g[i] = to
    BY <1>2, <1>7, <2>1
  <2>4. Grows(c, c)
    BY DEF Grows
  <2> HIDE DEF from, to, kind
  <2>5. Segment(c, t, kind, from, to)
    BY <1>4, <1>5, <2>2, <2>4, BelowStays
  <2>6. QED
    BY <2>3, <2>5
<1>11. g[0] = 1 /\ g[Len(N)] = Len(t)
  <2>1. 0 \in 0..Len(N) /\ Len(N) \in 0..Len(N)
    BY <1>2
  <2>2. QED
    BY <1>1, <1>5, <1>7, <1>8, <2>1 DEF Heights
<1>12. \A i, j \in 0..Len(N) : i < j => g[i] < g[j]
  <2>1. \A i \in 0..Len(N) : i \in 0..Len(n)
    BY <1>2
  <2>2. QED
    BY <1>1, <1>7, <2>1 DEF Heights
<1>13. Heights(c, t, N, g)
  BY <1>10, <1>11, <1>12 DEF Heights
<1>14. Shaped(c, t, N)
  BY <1>7, <1>13 DEF Shaped
<1>15. lo \in 1..Len(s)
  BY <1>3, <1>4
<1>16. QED
  BY <1>4, <1>6, <1>14, <1>15 DEF N, t

----------------------------------------------------------------------------
(* The code.                                                               *)

\* From c to d, no offset is left open but those of H.
Makes(c, d, H) == d \in Seq(CodeCell) /\ Grows(c, d) /\ Targets(d) /\ Holes(d) \subseteq H

LEMMA MakesOn ==
  ASSUME NEW c \in Seq(CodeCell), NEW d, NEW e, NEW H, NEW K,
         Makes(c, d, H), Makes(d, e, K)
  PROVE  Makes(c, e, K)
BY GrowsOn DEF Makes

LEMMA MakesWhole ==
  ASSUME NEW c \in Seq(CodeCell), NEW d, NEW H, NEW K, Makes(c, d, H), H \subseteq K
  PROVE  Makes(c, d, K)
BY DEF Makes

LEMMA OffsetIs ==
  ASSUME NEW o \in Int
  PROVE  Offset(o) \in CodeCell /\ Offset(o).op = "offset" /\ Offset(o).off = o
<1>1. Offset(o) = [op |-> "offset", off |-> o]
  BY DEF Offset
<1>2. "offset" \in Ops
  BY DEF Ops
<1>3. [op |-> "offset", off |-> o] \in CodeCell
  BY <1>2 DEF CodeCell
<1>4. QED
  BY <1>1, <1>3

LEMMA CellIs ==
  ASSUME NEW op \in Ops
  PROVE  Cell(op) \in CodeCell /\ Cell(op).op = op /\ Cell(op).off = 0
BY DEF Cell, CodeCell

LEMMA OffsetFilled ==
  ASSUME NEW x \in CodeCell, NEW o \in Int
  PROVE  LET e == [x EXCEPT !.off = o] IN e \in CodeCell /\ e.op = x.op /\ e.off = o
BY DEF CodeCell

LEMMA HoleIs ==
  ASSUME NEW x \in CodeCell
  PROVE  x = Hole <=> x.op = "offset" /\ x.off = 0
BY DEF CodeCell, Hole, Offset

LEMMA LaidCell ==
  ASSUME NEW c \in Seq(CodeCell), Targets(c), NEW x \in CodeCell, x # Hole,
         x.off + Len(c) + 1 \in 1..Len(c) + 2
  PROVE  Makes(c, Append(c, x), Holes(c)) /\ Len(Append(c, x)) = Len(c) + 1
<1> DEFINE d == Append(c, x)
<1>1. /\ Len(c) \in Nat /\ d \in Seq(CodeCell) /\ Len(d) = Len(c) + 1
      /\ d[Len(c) + 1] = x /\ \A a \in 1..Len(c) : d[a] = c[a]
  OBVIOUS
<1> HIDE DEF d
<1>2. \A a \in 1..Len(d) : a \in 1..Len(c) \/ a = Len(c) + 1
  BY <1>1
<1>3. Holes(d) \subseteq Holes(c)
  BY <1>1, <1>2 DEF Holes
<1>4. Grows(c, d)
  BY <1>1, <1>3 DEF Grows
<1>5. Targets(d)
  <2> SUFFICES ASSUME NEW a \in 1..Len(d) PROVE a + d[a].off \in 1..Len(d) + 1
    BY DEF Targets
  <2>1. CASE a = Len(c) + 1
    BY <1>1, <2>1 DEF CodeCell
  <2>2. CASE a \in 1..Len(c)
    <3>1. a + c[a].off \in 1..Len(c) + 1
      BY <2>2 DEF Targets
    <3>2. QED
      BY <1>1, <2>2, <3>1
  <2>3. QED
    BY <1>2, <2>1, <2>2
<1>6. QED
  BY <1>1, <1>3, <1>4, <1>5 DEF Makes, d

LEMMA LaidOp ==
  ASSUME NEW c \in Seq(CodeCell), Targets(c), NEW op \in Ops, op # "offset"
  PROVE  Makes(c, Append(c, Cell(op)), Holes(c)) /\ Len(Append(c, Cell(op))) = Len(c) + 1
<1>1. Cell(op) \in CodeCell /\ Cell(op).off = 0 /\ Cell(op).op = op
  BY DEF Cell, CodeCell
<1>2. Cell(op) # Hole
  BY <1>1, HoleIs
<1>3. Cell(op).off + Len(c) + 1 \in 1..Len(c) + 2
  BY <1>1
<1>4. QED
  BY <1>1, <1>2, <1>3, LaidCell

LEMMA LaidBack ==
  ASSUME NEW c \in Seq(CodeCell), Targets(c), NEW a \in 1..Len(c)
  PROVE  Makes(c, Back(c, a), Holes(c)) /\ Len(Back(c, a)) = Len(c) + 1
<1> DEFINE x == Offset(a - (Len(c) + 1))
<1>1. x \in CodeCell /\ x.off = a - (Len(c) + 1) /\ x.off # 0
  <2>1. a - (Len(c) + 1) \in Int /\ a - (Len(c) + 1) # 0
    OBVIOUS
  <2>2. QED
    BY <2>1, OffsetIs
<1>2. x # Hole
  BY <1>1, HoleIs
<1>3. x.off + Len(c) + 1 \in 1..Len(c) + 2
  BY <1>1
<1> HIDE DEF x
<1>4. QED
  BY <1>1, <1>2, <1>3, LaidCell DEF Back, x

LEMMA LaidWords ==
  ASSUME NEW c \in Seq(CodeCell), Targets(c), NEW ops \in Seq(Ops),
         \A i \in 1..Len(ops) : ops[i] # "offset"
  PROVE  Makes(c, c \o Words(ops), Holes(c)) /\ Len(c \o Words(ops)) = Len(c) + Len(ops)
<1> DEFINE w == Words(ops)
           d == c \o w
<1>1. /\ w \in Seq(CodeCell) /\ Len(w) = Len(ops)
      /\ \A i \in 1..Len(ops) : w[i] = Cell(ops[i])
  <2>1. w = [i \in 1..Len(ops) |-> Cell(ops[i])]
    BY DEF Words
  <2>2. \A i \in 1..Len(ops) : Cell(ops[i]) \in CodeCell
    BY DEF Cell, CodeCell
  <2>3. Len(ops) \in Nat
    OBVIOUS
  <2>4. w \in Seq(CodeCell)
    BY <2>1, <2>2, <2>3
  <2>5. Len(w) = Len(ops)
    BY <2>1, <2>3
  <2>6. QED
    BY <2>1, <2>4, <2>5
<1>2. \A i \in 1..Len(w) : w[i] # Hole /\ w[i].off = 0
  <2> SUFFICES ASSUME NEW i \in 1..Len(w) PROVE w[i] # Hole /\ w[i].off = 0
    OBVIOUS
  <2>1. w[i] = Cell(ops[i]) /\ ops[i] # "offset" /\ ops[i] \in Ops
    BY <1>1
  <2>2. w[i].off = 0 /\ w[i].op = ops[i] /\ w[i] \in CodeCell
    BY <2>1 DEF Cell, CodeCell
  <2>3. QED
    BY <2>1, <2>2, HoleIs
<1> HIDE DEF w
<1>3. /\ d \in Seq(CodeCell) /\ Len(c) \in Nat /\ Len(w) \in Nat /\ Len(d) = Len(c) + Len(w)
      /\ \A a \in 1..Len(c) : d[a] = c[a]
      /\ \A a \in Len(c) + 1..Len(d) : d[a] = w[a - Len(c)] /\ a - Len(c) \in 1..Len(w)
  <2>0. w \in Seq(CodeCell)
    BY <1>1
  <2>1. /\ d \in Seq(CodeCell) /\ Len(c) \in Nat /\ Len(w) \in Nat /\ Len(d) = Len(c) + Len(w)
        /\ \A a \in 1..Len(c) + Len(w) : d[a] = IF a <= Len(c) THEN c[a] ELSE w[a - Len(c)]
    <3>1. Len(c) \in Nat /\ Len(w) \in Nat
      BY <2>0
    <3>2. QED
      BY <2>0, <3>1, ConcatProperties, Zenon
  <2> HIDE DEF d
  <2>2. \A a \in 1..Len(c) : d[a] = c[a]
    BY <2>1
  <2>3. \A a \in Len(c) + 1..Len(d) : d[a] = w[a - Len(c)] /\ a - Len(c) \in 1..Len(w)
    BY <2>1
  <2>4. QED
    BY <2>1, <2>2, <2>3
<1> HIDE DEF d
<1>4. \A a \in 1..Len(d) : a \in 1..Len(c) \/ a \in Len(c) + 1..Len(d)
  BY <1>3
<1>5. Holes(d) \subseteq Holes(c)
  BY <1>2, <1>3, <1>4 DEF Holes
<1>6. Grows(c, d)
  BY <1>3, <1>5 DEF Grows
<1>7. Targets(d)
  <2> SUFFICES ASSUME NEW a \in 1..Len(d) PROVE a + d[a].off \in 1..Len(d) + 1
    BY DEF Targets
  <2>1. CASE a \in 1..Len(c)
    <3>1. a + c[a].off \in 1..Len(c) + 1
      BY <2>1 DEF Targets
    <3>2. QED
      BY <1>3, <2>1, <3>1
  <2>2. CASE a \in Len(c) + 1..Len(d)
    <3>1. d[a].off = 0
      BY <1>2, <1>3, <2>2
    <3>2. QED
      BY <1>3, <3>1
  <2>3. QED
    BY <1>4, <2>1, <2>2
<1>8. QED
  BY <1>1, <1>3, <1>5, <1>6, <1>7 DEF Makes, d, w

Branched(c, op) == c \o << Cell(op), Hole >>

LEMMA LaidBranch ==
  ASSUME NEW c \in Seq(CodeCell), Targets(c), NEW op \in Ops, op # "offset"
  PROVE  LET d == Branched(c, op) IN
           /\ Makes(c, d, Holes(c) \cup {Len(d)})
           /\ Len(d) = Len(c) + 2 /\ HoleAt(d, Len(d))
<1>1. Cell(op) \in CodeCell /\ Hole \in CodeCell
  BY CellIs, OffsetIs DEF Hole
<1>2. Cell(op).off = 0 /\ Cell(op).op = op /\ Hole.off = 0 /\ Hole.op = "offset"
  BY CellIs, OffsetIs DEF Hole
<1>3. Cell(op) # Hole
  BY <1>2
<1> DEFINE d == Branched(c, op)
<1> DEFINE e == Append(c, Cell(op))
<1>4. Makes(c, e, Holes(c)) /\ Len(e) = Len(c) + 1
  BY LaidOp
<1>5. d = Append(e, Hole)
  BY <1>1 DEF Branched
<1>6. e \in Seq(CodeCell) /\ Len(e) \in Nat
  BY <1>4 DEF Makes
<1> HIDE DEF d, e
<1>7. /\ d \in Seq(CodeCell) /\ Len(d) = Len(e) + 1
      /\ d[Len(d)] = Hole /\ \A a \in 1..Len(e) : d[a] = e[a]
  <2> DEFINE x == Hole
  <2>1. x \in CodeCell /\ d = Append(e, x)
    BY <1>1, <1>5
  <2> HIDE DEF x
  <2>2. /\ d \in Seq(CodeCell) /\ Len(d) = Len(e) + 1
        /\ d[Len(e) + 1] = x /\ \A a \in 1..Len(e) : d[a] = e[a]
    BY <1>6, <2>1
  <2>3. QED
    BY <2>2 DEF x
<1>8. \A a \in 1..Len(d) : a \in 1..Len(e) \/ a = Len(d)
  BY <1>6, <1>7
<1>9. Holes(d) \subseteq Holes(e) \cup {Len(d)} /\ Holes(e) \subseteq Holes(c)
  BY <1>4, <1>7, <1>8 DEF Holes, Makes
<1>10. Grows(c, d)
  <2>1. Len(c) \in Nat /\ Len(d) >= Len(c) /\ Len(d) = Len(c) + 2
    BY <1>4, <1>7
  <2>2. \A a \in 1..Len(c) : d[a].op = c[a].op
    BY <1>4, <1>7 DEF Makes, Grows
  <2>3. Len(d) \notin 1..Len(c) + 1
    BY <2>1
  <2>4. QED
    BY <1>9, <2>1, <2>2, <2>3 DEF Grows
<1>11. Targets(d)
  <2> SUFFICES ASSUME NEW a \in 1..Len(d) PROVE a + d[a].off \in 1..Len(d) + 1
    BY DEF Targets
  <2>1. CASE a \in 1..Len(e)
    <3>1. a + e[a].off \in 1..Len(e) + 1
      BY <1>4, <2>1 DEF Makes, Targets
    <3>2. QED
      BY <1>6, <1>7, <2>1, <3>1
  <2>2. CASE a = Len(d)
    <3>1. d[a].off = 0 /\ a \in Nat
      BY <1>2, <1>7, <2>2
    <3>2. QED
      BY <1>6, <1>7, <2>2, <3>1
  <2>3. QED
    BY <1>8, <2>1, <2>2
<1>12. HoleAt(d, Len(d))
  BY <1>2, <1>6, <1>7 DEF HoleAt
<1>13. QED
  <2>1. Holes(d) \subseteq Holes(c) \cup {Len(d)} /\ Len(d) = Len(c) + 2
    BY <1>4, <1>7, <1>9
  <2>2. QED
    BY <1>7, <1>10, <1>11, <1>12, <2>1 DEF Makes, d

LEMMA PatchedHole ==
  ASSUME NEW c \in Seq(CodeCell), Targets(c), NEW a, HoleAt(c, a)
  PROVE  Makes(c, Patched(c, a), Holes(c) \ {a}) /\ Len(Patched(c, a)) = Len(c)
<1> DEFINE d == Patched(c, a)
<1>1. Len(c) \in Nat /\ a \in 1..Len(c) /\ c[a].op = "offset" /\ c[a] \in CodeCell
  BY DEF HoleAt
<1>2. \A i \in 1..Len(c) : c[i] \in CodeCell
  OBVIOUS
<1>3. d = [c EXCEPT ![a] = [c[a] EXCEPT !.off = Len(c) + 1 - a]]
  BY DEF Patched
<1> DEFINE o == Len(c) + 1 - a
<1>4. o \in Int /\ [c[a] EXCEPT !.off = o] \in CodeCell
  <2>1. o \in Int
    BY <1>1
  <2> HIDE DEF o
  <2>2. QED
    BY <1>1, <2>1, OffsetFilled
<1>5. /\ d \in Seq(CodeCell) /\ Len(d) = Len(c)
      /\ \A i \in 1..Len(c) : i # a => d[i] = c[i]
      /\ d[a] = [c[a] EXCEPT !.off = Len(c) + 1 - a]
  BY <1>1, <1>3, <1>4, ExceptSeq
<1>6. d[a].op = "offset" /\ d[a].off = Len(c) + 1 - a /\ d[a] \in CodeCell /\ Len(d) = Len(c)
  BY <1>1, <1>4, <1>5 DEF CodeCell
<1> HIDE DEF d
<1>7. d[a] # Hole
  BY <1>1, <1>6, HoleIs
<1>8. Holes(d) \subseteq Holes(c) \ {a}
  BY <1>5, <1>7 DEF Holes
<1>9. Grows(c, d)
  <2>1. \A i \in 1..Len(c) : d[i].op = c[i].op
    BY <1>1, <1>5, <1>6
  <2>2. QED
    BY <1>1, <1>5, <1>8, <2>1 DEF Grows
<1>10. Targets(d)
  <2> SUFFICES ASSUME NEW i \in 1..Len(d) PROVE i + d[i].off \in 1..Len(d) + 1
    BY DEF Targets
  <2>1. CASE i = a
    <3>1. i \in Int /\ d[i].off = Len(d) + 1 - i /\ Len(d) \in Nat
      BY <1>1, <1>6, <2>1
    <3>2. i + (Len(d) + 1 - i) = Len(d) + 1
      BY <3>1
    <3>3. QED
      BY <3>1, <3>2
  <2>2. CASE i # a
    BY <1>5, <2>2 DEF Targets
  <2>3. QED
    BY <2>1, <2>2
<1>11. QED
  BY <1>5, <1>8, <1>9, <1>10 DEF Makes, d

----------------------------------------------------------------------------
(* Structures that are opened and closed.                                  *)

LEMMA Laid ==
  ASSUME NEW c, NEW d, NEW s, NEW n, NEW H, Base(c, s, n), Makes(c, d, H),
         \A a \in H : \E i \in 2..Len(s) : s[i] = a
  PROVE  Balanced(d, s, n)
<1>1. c \in Seq(CodeCell) /\ d \in Seq(CodeCell) /\ Grows(c, d) /\ Targets(d) /\ Holes(d) \subseteq H
  BY DEF Base, Makes
<1>2. StartAt(d, 1)
  BY <1>1, AddressesStay DEF Base
<1>3. Shaped(d, s, n)
  BY <1>1, Stays DEF Base
<1>4. Known(d, s)
  BY <1>1 DEF Known
<1>5. QED
  BY <1>1, <1>2, <1>3, <1>4 DEF Base, Balanced

LEMMA Pushed ==
  ASSUME NEW c, NEW d, NEW s, NEW n, NEW H, Base(c, s, n), Makes(c, d, H),
         NEW t \in Seq(Nat), Len(t) > Len(s), \A j \in 1..Len(s) : t[j] = s[j],
         NEW kind \in Kinds, kind = "of" => n # << >> /\ Last(n) = "case",
         Segment(d, t, kind, Len(s), Len(t)),
         \A a \in H : \E i \in 2..Len(t) : t[i] = a
  PROVE  Balanced(d, t, Append(n, kind))
<1>1. c \in Seq(CodeCell) /\ d \in Seq(CodeCell) /\ Grows(c, d) /\ Targets(d) /\ Holes(d) \subseteq H
  BY DEF Base, Makes
<1>2. s \in Seq(Nat) /\ n \in Seq(Kinds) /\ Shaped(c, s, n) /\ Nested(n) /\ Len(s) >= 1 /\ s[1] = Below
  BY DEF Base
<1>3. StartAt(d, 1)
  BY <1>1, AddressesStay DEF Base
<1>4. Shaped(d, t, Append(n, kind))
  BY <1>1, <1>2, Opened
<1>5. Known(d, t)
  BY <1>1 DEF Known
<1>6. t[1] = Below /\ Len(t) >= 1
  <2>1. Len(s) \in Nat /\ Len(t) \in Nat /\ 1 \in 1..Len(s)
    BY <1>2
  <2>2. QED
    BY <1>2, <2>1
<1>7. Append(n, kind) \in Seq(Kinds) /\ Nested(Append(n, kind))
  <2> DEFINE m == Append(n, kind)
  <2>1. /\ Len(n) \in Nat /\ m \in Seq(Kinds) /\ Len(m) = Len(n) + 1 /\ m[Len(n) + 1] = kind
        /\ \A i \in 1..Len(n) : m[i] = n[i]
    BY <1>2
  <2>2. kind = "of" => Len(n) >= 1 /\ n[Len(n)] = "case"
    BY <1>2, FrontLast
  <2> HIDE DEF m
  <2>3. ASSUME NEW i \in 1..Len(m), m[i] = "of" PROVE i > 1 /\ m[i - 1] = "case"
    <3>1. CASE i = Len(n) + 1
      <4>1. kind = "of"
        BY <2>1, <2>3, <3>1
      <4>2. i > 1 /\ i - 1 = Len(n) /\ Len(n) \in 1..Len(n)
        BY <2>1, <2>2, <3>1, <4>1
      <4>3. QED
        BY <2>1, <2>2, <4>1, <4>2
    <3>2. CASE i \in 1..Len(n)
      <4>1. i > 1 /\ n[i - 1] = "case"
        BY <1>2, <2>1, <2>3, <3>2 DEF Nested
      <4>2. i - 1 \in 1..Len(n)
        BY <2>1, <3>2, <4>1
      <4>3. QED
        BY <2>1, <4>1, <4>2
    <3>3. i = Len(n) + 1 \/ i \in 1..Len(n)
      BY <2>1
    <3>4. QED
      BY <3>1, <3>2, <3>3
  <2>4. QED
    BY <2>1, <2>3 DEF Nested, m
<1>8. QED
  BY <1>1, <1>3, <1>4, <1>5, <1>6, <1>7 DEF Base, Balanced

\* The innermost structure, and what is there without it.
LEMMA Inner ==
  ASSUME NEW c, NEW s, NEW n, Base(c, s, n), n # << >>
  PROVE  /\ Last(n) = "of" => Front(n) # << >> /\ Last(Front(n)) = "case"
         /\ \E lo \in 1..Len(s) :
              /\ lo < Len(s) /\ Segment(c, s, Last(n), lo, Len(s))
              /\ Base(c, SubSeq(s, 1, lo), Front(n))
<1>1. /\ c \in Seq(CodeCell) /\ StartAt(c, 1) /\ s \in Seq(Nat) /\ n \in Seq(Kinds)
      /\ Shaped(c, s, n) /\ Nested(n) /\ Len(s) >= 1 /\ s[1] = Below
  BY DEF Base
<1>2. /\ Len(n) \in Nat /\ Len(n) >= 1 /\ Last(n) = n[Len(n)]
      /\ Front(n) \in Seq(Kinds) /\ Len(Front(n)) = Len(n) - 1
      /\ \A i \in 1..Len(n) - 1 : Front(n)[i] = n[i]
  BY <1>1, FrontLast
<1>3. Nested(Front(n))
  <2> SUFFICES ASSUME NEW i \in 1..Len(Front(n)), Front(n)[i] = "of"
               PROVE  i > 1 /\ Front(n)[i - 1] = "case"
    BY DEF Nested
  <2>1. i \in 1..Len(n) - 1 /\ i \in 1..Len(n) /\ n[i] = "of"
    BY <1>2
  <2>2. i > 1 /\ n[i - 1] = "case"
    BY <1>1, <2>1 DEF Nested
  <2>3. i - 1 \in 1..Len(n) - 1
    BY <1>2, <2>1, <2>2
  <2>4. QED
    BY <1>2, <2>2, <2>3
<1>4. Last(n) = "of" => Front(n) # << >> /\ Last(Front(n)) = "case"
  <2> SUFFICES ASSUME Last(n) = "of" PROVE Front(n) # << >> /\ Last(Front(n)) = "case"
    OBVIOUS
  <2>1. Len(n) > 1 /\ n[Len(n) - 1] = "case"
    BY <1>1, <1>2 DEF Nested
  <2>2. Len(Front(n)) >= 1 /\ Front(n)[Len(n) - 1] = "case"
    BY <1>2, <2>1
  <2>3. Front(n) # << >>
    BY <1>2, <2>2
  <2>4. QED
    BY <1>2, <2>2, <2>3 DEF Last
<1>5. PICK lo \in 1..Len(s) : /\ lo < Len(s) /\ Segment(c, s, Last(n), lo, Len(s))
                              /\ Shaped(c, SubSeq(s, 1, lo), Front(n))
  BY <1>1, Closed
<1>6. /\ SubSeq(s, 1, lo) \in Seq(Nat) /\ Len(SubSeq(s, 1, lo)) = lo
      /\ \A i \in 1..lo : SubSeq(s, 1, lo)[i] = s[i]
  BY <1>1, Beginning
<1>7. SubSeq(s, 1, lo)[1] = Below /\ Len(SubSeq(s, 1, lo)) >= 1
  BY <1>1, <1>6
<1>8. Base(c, SubSeq(s, 1, lo), Front(n))
  BY <1>1, <1>2, <1>3, <1>5, <1>6, <1>7 DEF Base
<1>9. QED
  BY <1>4, <1>5, <1>8

LEMMA FrontFront ==
  ASSUME NEW s \in Seq(Nat), Len(s) >= 2
  PROVE  /\ Len(Front(s)) = Len(s) - 1 /\ Front(s) \in Seq(Nat) /\ Last(Front(s)) = s[Len(s) - 1]
         /\ Len(Front(Front(s))) = Len(s) - 2 /\ Front(Front(s)) \in Seq(Nat)
         /\ \A i \in 1..Len(s) - 2 : Front(Front(s))[i] = s[i]
         /\ Front(Front(s)) = SubSeq(s, 1, Len(s) - 2)
<1>1. Len(s) \in Nat /\ s # << >>
  OBVIOUS
<1>2. /\ Front(s) \in Seq(Nat) /\ Len(Front(s)) = Len(s) - 1
      /\ \A i \in 1..Len(s) - 1 : Front(s)[i] = s[i]
  BY <1>1, FrontLast
<1>3. Front(s) # << >>
  BY <1>1, <1>2
<1>4. /\ Front(Front(s)) \in Seq(Nat) /\ Len(Front(Front(s))) = Len(s) - 1 - 1
      /\ Last(Front(s)) = Front(s)[Len(s) - 1]
      /\ \A i \in 1..Len(s) - 1 - 1 : Front(Front(s))[i] = Front(s)[i]
  BY <1>2, <1>3, FrontLast
<1>5. /\ Len(Front(Front(s))) = Len(s) - 2 /\ Last(Front(s)) = s[Len(s) - 1]
      /\ \A i \in 1..Len(s) - 2 : Front(Front(s))[i] = s[i]
  <2>1. Len(s) - 1 - 1 = Len(s) - 2 /\ Len(s) - 1 \in 1..Len(s) - 1
    BY <1>1
  <2>2. Last(Front(s)) = s[Len(s) - 1]
    BY <1>2, <1>4, <2>1
  <2>3. \A i \in 1..Len(s) - 2 : Front(Front(s))[i] = s[i]
    BY <1>1, <1>2, <1>4, <2>1
  <2>4. QED
    BY <1>4, <2>1, <2>2, <2>3
<1> DEFINE l == Len(s) - 2
           u == SubSeq(s, 1, l)
           v == Front(Front(s))
<1>6. u \in Seq(Nat) /\ Len(u) = l /\ \A i \in 1..l : u[i] = s[i]
  <2>1. l \in Int /\ l >= 0 /\ \A i \in 1..l : s[i] \in Nat
    BY <1>1
  <2> HIDE DEF l
  <2>2. /\ SubSeq(s, 1, l) \in Seq(Nat)
        /\ Len(SubSeq(s, 1, l)) = IF 1 <= l THEN l - 1 + 1 ELSE 0
        /\ \A i \in 1..l - 1 + 1 : SubSeq(s, 1, l)[i] = s[1 + i - 1]
    BY <2>1, SubSeqProperties
  <2>3. QED
    BY <2>1, <2>2
<1>7. v \in Seq(Nat) /\ Len(v) = l /\ \A i \in 1..l : v[i] = s[i]
  BY <1>4, <1>5
<1> HIDE DEF u, v, l
<1>8. v = u
  BY <1>6, <1>7, SeqEqual
<1>9. QED
  BY <1>2, <1>4, <1>5, <1>8 DEF u, v, l

\* A structure is closed down to lo.
LEMMA ClosedTo ==
  ASSUME NEW c, NEW d, NEW s, NEW n, NEW m, NEW H, Balanced(c, s, n),
         NEW lo \in 1..Len(s), Base(c, SubSeq(s, 1, lo), m),
         Makes(c, d, H), H \subseteq Holes(c), \A j \in lo + 1..Len(s) : s[j] \notin H
  PROVE  Balanced(d, SubSeq(s, 1, lo), m)
<1>1. s \in Seq(Nat) /\ Known(c, s)
  BY DEF Balanced, Base
<1>2. /\ SubSeq(s, 1, lo) \in Seq(Nat) /\ Len(SubSeq(s, 1, lo)) = lo
      /\ \A i \in 1..lo : SubSeq(s, 1, lo)[i] = s[i]
  BY <1>1, Beginning
<1>3. ASSUME NEW a \in H PROVE \E i \in 2..Len(SubSeq(s, 1, lo)) : SubSeq(s, 1, lo)[i] = a
  <2>1. PICK i \in 2..Len(s) : s[i] = a
    BY <1>1 DEF Known
  <2>2. i \in 2..lo
    BY <1>1, <2>1
  <2>3. QED
    BY <1>2, <2>1, <2>2
<1>4. QED
  BY <1>3, Laid

\* One is closed down to lo, and another one is there in its place.
LEMMA TurnedTo ==
  ASSUME NEW c, NEW d, NEW s, NEW t \in Seq(Nat), NEW n, NEW m, NEW H, Balanced(c, s, n),
         NEW lo \in 1..Len(s), Base(c, SubSeq(s, 1, lo), m), Makes(c, d, H),
         Len(t) > lo, \A j \in 1..lo : t[j] = s[j],
         NEW kind \in Kinds, kind = "of" => m # << >> /\ Last(m) = "case",
         Segment(d, t, kind, lo, Len(t)),
         \A a \in H : a \in Holes(c) \/ \E i \in 2..Len(t) : t[i] = a,
         \A j \in lo + 1..Len(s) : s[j] \in H => \E i \in 2..Len(t) : t[i] = s[j]
  PROVE  Balanced(d, t, Append(m, kind))
<1>1. s \in Seq(Nat) /\ Known(c, s)
  BY DEF Balanced, Base
<1>2. /\ SubSeq(s, 1, lo) \in Seq(Nat) /\ Len(SubSeq(s, 1, lo)) = lo
      /\ \A i \in 1..lo : SubSeq(s, 1, lo)[i] = s[i]
  BY <1>1, Beginning
<1>3. ASSUME NEW a \in H PROVE \E i \in 2..Len(t) : t[i] = a
  <2>1. CASE a \in Holes(c)
    <3>1. PICK i \in 2..Len(s) : s[i] = a
      BY <1>1, <2>1 DEF Known
    <3>2. CASE i \in lo + 1..Len(s)
      BY <3>1, <3>2
    <3>3. CASE i \in 2..lo
      <4>1. i \in 2..Len(t) /\ t[i] = a
        BY <3>1, <3>3
      <4>2. QED
        BY <4>1
    <3>4. QED
      BY <1>1, <3>2, <3>3
  <2>2. QED
    BY <2>1
<1> DEFINE u == SubSeq(s, 1, lo)
<1>4. /\ Base(c, u, m) /\ Segment(d, t, kind, Len(u), Len(t)) /\ Len(t) > Len(u)
      /\ \A j \in 1..Len(u) : t[j] = u[j]
  BY <1>2
<1> HIDE DEF u
<1>5. QED
  BY <1>3, <1>4, Pushed

LEMMA OpenedUp ==
  ASSUME NEW c, NEW d, NEW s, NEW t \in Seq(Nat), NEW n, NEW H, Balanced(c, s, n),
         Makes(c, d, H), Len(t) > Len(s), \A j \in 1..Len(s) : t[j] = s[j],
         NEW kind \in Kinds, kind = "of" => n # << >> /\ Last(n) = "case",
         Segment(d, t, kind, Len(s), Len(t)),
         \A a \in H : a \in Holes(c) \/ \E i \in 2..Len(t) : t[i] = a
  PROVE  Balanced(d, t, Append(n, kind))
<1>1. s \in Seq(Nat) /\ Known(c, s) /\ Len(s) >= 1 /\ Base(c, s, n)
  BY DEF Balanced, Base
<1>2. ASSUME NEW a \in H PROVE \E i \in 2..Len(t) : t[i] = a
  <2>1. CASE a \in Holes(c)
    <3>1. PICK i \in 2..Len(s) : s[i] = a
      BY <1>1, <2>1 DEF Known
    <3>2. i \in 2..Len(t) /\ t[i] = a
      BY <1>1, <3>1
    <3>3. QED
      BY <3>2
  <2>2. QED
    BY <2>1
<1>3. QED
  BY <1>1, <1>2, Pushed

\* One cell closes these.
LEMMA InnerOne ==
  ASSUME NEW c, NEW s, NEW n, Base(c, s, n), n # << >>,
         Last(n) \in {"if", "else", "of", "begin"}
  PROVE  /\ s \in Seq(Nat) /\ Len(s) - 1 \in 1..Len(s) /\ Last(s) = s[Len(s)]
         /\ Base(c, SubSeq(s, 1, Len(s) - 1), Front(n))
         /\ IF Last(n) = "begin" THEN StartAt(c, Last(s)) ELSE HoleAt(c, Last(s))
<1>1. PICK lo \in 1..Len(s) : /\ lo < Len(s) /\ Segment(c, s, Last(n), lo, Len(s))
                              /\ Base(c, SubSeq(s, 1, lo), Front(n))
  BY Inner
<1>2. s \in Seq(Nat) /\ Len(s) \in Nat
  BY DEF Base
<1>3. Len(s) = lo + 1
  BY <1>1 DEF Segment
<1>4. IF Last(n) = "begin" THEN StartAt(c, s[Len(s)]) ELSE HoleAt(c, s[Len(s)])
  BY <1>1 DEF Segment
<1>5. lo = Len(s) - 1
  BY <1>2, <1>3
<1>6. QED
  BY <1>1, <1>2, <1>4, <1>5 DEF Last

LEMMA InnerWhile ==
  ASSUME NEW c, NEW s, NEW n, Base(c, s, n), n # << >>, Last(n) = "while"
  PROVE  /\ s \in Seq(Nat) /\ Len(s) - 2 \in 1..Len(s) /\ Last(s) = s[Len(s)]
         /\ Base(c, SubSeq(s, 1, Len(s) - 2), Front(n))
         /\ StartAt(c, s[Len(s) - 1]) /\ HoleAt(c, Last(s))
<1>1. PICK lo \in 1..Len(s) : /\ lo < Len(s) /\ Segment(c, s, Last(n), lo, Len(s))
                              /\ Base(c, SubSeq(s, 1, lo), Front(n))
  BY Inner
<1>2. s \in Seq(Nat) /\ Len(s) \in Nat
  BY DEF Base
<1>3. Len(s) = lo + 2 /\ StartAt(c, s[lo + 1]) /\ HoleAt(c, s[Len(s)])
  BY <1>1 DEF Segment
<1>4. lo = Len(s) - 2 /\ lo + 1 = Len(s) - 1
  BY <1>2, <1>3
<1>5. QED
  BY <1>1, <1>2, <1>3, <1>4 DEF Last

LEMMA InnerDo ==
  ASSUME NEW c, NEW s, NEW n, Base(c, s, n), n # << >>, Last(n) = "do"
  PROVE  /\ s \in Seq(Nat) /\ Len(s) - 2 \in 1..Len(s) /\ Last(s) = s[Len(s)]
         /\ StartAt(c, Last(s))
         /\ \/ s[Len(s) - 1] = 0 /\ Base(c, SubSeq(s, 1, Len(s) - 2), Front(n))
            \/ /\ s[Len(s) - 1] = 1 /\ Len(s) - 3 \in 1..Len(s) /\ HoleAt(c, s[Len(s) - 2])
               /\ Base(c, SubSeq(s, 1, Len(s) - 3), Front(n))
<1>1. PICK lo \in 1..Len(s) : /\ lo < Len(s) /\ Segment(c, s, Last(n), lo, Len(s))
                              /\ Base(c, SubSeq(s, 1, lo), Front(n))
  BY Inner
<1>2. s \in Seq(Nat) /\ Len(s) \in Nat /\ Last(s) = s[Len(s)]
  BY DEF Base, Last
<1>3. StartAt(c, Last(s))
  BY <1>1, <1>2 DEF Segment
<1>4. \/ Len(s) = lo + 2 /\ s[lo + 1] = 0
      \/ Len(s) = lo + 3 /\ s[lo + 2] = 1 /\ HoleAt(c, s[lo + 1])
  BY <1>1 DEF Segment
<1>5. CASE Len(s) = lo + 2 /\ s[lo + 1] = 0
  <2>1. lo = Len(s) - 2 /\ lo + 1 = Len(s) - 1
    BY <1>2, <1>5
  <2>2. QED
    BY <1>1, <1>2, <1>3, <1>5, <2>1
<1>6. CASE Len(s) = lo + 3 /\ s[lo + 2] = 1 /\ HoleAt(c, s[lo + 1])
  <2>1. lo = Len(s) - 3 /\ lo + 1 = Len(s) - 2 /\ lo + 2 = Len(s) - 1 /\ Len(s) - 2 \in 1..Len(s)
    BY <1>2, <1>6
  <2>2. QED
    BY <1>1, <1>2, <1>3, <1>6, <2>1
<1>7. QED
  BY <1>4, <1>5, <1>6

LEMMA InnerCase ==
  ASSUME NEW c, NEW s, NEW n, Base(c, s, n), n # << >>, Last(n) = "case"
  PROVE  /\ s \in Seq(Nat)
         /\ \E lo \in 1..Len(s) :
              /\ lo < Len(s) /\ Base(c, SubSeq(s, 1, lo), Front(n))
              /\ s[lo + 1] = 0 /\ \A j \in lo + 2..Len(s) : HoleAt(c, s[j])
<1>1. PICK lo \in 1..Len(s) : /\ lo < Len(s) /\ Segment(c, s, Last(n), lo, Len(s))
                              /\ Base(c, SubSeq(s, 1, lo), Front(n))
  BY Inner
<1>2. s[lo + 1] = 0 /\ \A j \in lo + 2..Len(s) : HoleAt(c, s[j])
  BY <1>1 DEF Segment
<1>3. QED
  BY <1>1, <1>2 DEF Base

----------------------------------------------------------------------------
(* The words.                                                              *)

LEMMA ForwardMakes ==
  ASSUME code \in Seq(CodeCell), Targets(code), NEW ops \in Seq(Ops),
         \A i \in 1..Len(ops) : ops[i] # "offset", NEW op \in {"branch", "0branch"}
  PROVE  LET d == Forward(ops, op) IN
           /\ Makes(code, d, Holes(code) \cup {Len(d)})
           /\ HoleAt(d, Len(d)) /\ Len(d) = Len(code) + Len(ops) + 2
<1> DEFINE w == code \o Words(ops)
           d == Branched(w, op)
<1>1. Makes(code, w, Holes(code)) /\ Len(w) = Len(code) + Len(ops)
  BY LaidWords
<1>2. w \in Seq(CodeCell) /\ Targets(w) /\ Holes(w) \subseteq Holes(code)
  BY <1>1 DEF Makes
<1>3. op \in Ops /\ op # "offset"
  BY DEF Ops
<1>4. d = Forward(ops, op)
  BY DEF Forward, Branched
<1> HIDE DEF w
<1>5. Makes(w, d, Holes(w) \cup {Len(d)}) /\ Len(d) = Len(w) + 2 /\ HoleAt(d, Len(d))
  BY <1>2, <1>3, LaidBranch
<1> HIDE DEF d
<1>6. Makes(code, d, Holes(w) \cup {Len(d)})
  BY <1>1, <1>5, MakesOn
<1>7. Makes(code, d, Holes(code) \cup {Len(d)})
  BY <1>2, <1>6, MakesWhole
<1>8. QED
  BY <1>1, <1>4, <1>5, <1>7

\* A structure with one hole is opened.
LEMMA HoleOpened ==
  ASSUME NEW c, NEW d, NEW s, NEW n, NEW a \in Nat, Balanced(c, s, n),
         Makes(c, d, Holes(c) \cup {a}), HoleAt(d, a), NEW kind \in {"if", "else", "of"},
         kind = "of" => n # << >> /\ Last(n) = "case"
  PROVE  Balanced(d, Append(s, a), Append(n, kind))
<1> DEFINE t == Append(s, a)
<1>1. s \in Seq(Nat) /\ Len(s) \in Nat /\ Len(s) >= 1
  BY DEF Balanced, Base
<1>2. t \in Seq(Nat) /\ Len(t) = Len(s) + 1 /\ t[Len(t)] = a /\ \A j \in 1..Len(s) : t[j] = s[j]
  BY <1>1
<1> HIDE DEF t
<1>3. Segment(d, t, kind, Len(s), Len(t))
  BY <1>2 DEF Segment
<1>4. Len(t) \in 2..Len(t)
  BY <1>1, <1>2
<1>5. \A b \in Holes(c) \cup {a} : b \in Holes(c) \/ \E i \in 2..Len(t) : t[i] = b
  BY <1>2, <1>4
<1>6. kind \in Kinds /\ Len(t) > Len(s)
  BY <1>1, <1>2 DEF Kinds
<1>7. Balanced(d, t, Append(n, kind))
  BY <1>2, <1>3, <1>5, <1>6, OpenedUp
<1>8. QED
  BY <1>7 DEF t

LEMMA IfStep ==
  ASSUME Balanced(code, stack, nest), If \/ Unless \/ Ahead
  PROVE  Balanced(code', stack', nest') /\ Len(code') >= Len(code)
<1>1. code \in Seq(CodeCell) /\ Targets(code) /\ Len(code) \in Nat
  BY DEF Balanced, Base
<1>2. PICK ops \in {<< >>, << "not" >>}, op \in {"branch", "0branch"}, kind \in {"if", "else"} :
        /\ code' = Forward(ops, op) /\ stack' = Append(stack, HoleOf(code'))
        /\ nest' = Append(nest, kind)
  <2>1. CASE If
    BY <2>1 DEF If, Begins
  <2>2. CASE Unless
    BY <2>2 DEF Unless, Begins
  <2>3. CASE Ahead
    BY <2>3 DEF Ahead, Begins
  <2>4. QED
    BY <2>1, <2>2, <2>3
<1>3. ops \in Seq(Ops) /\ (\A i \in 1..Len(ops) : ops[i] # "offset") /\ Len(ops) \in Nat
  <2>1. CASE ops = << >>
    BY <2>1
  <2>2. CASE ops = << "not" >>
    BY <2>2 DEF Ops
  <2>3. QED
    BY <2>1, <2>2
<1>4. /\ Makes(code, code', Holes(code) \cup {Len(code')})
      /\ HoleAt(code', Len(code')) /\ Len(code') = Len(code) + Len(ops) + 2
  BY <1>1, <1>2, <1>3, ForwardMakes
<1>5. Len(code') \in Nat /\ Len(code') >= Len(code)
  BY <1>1, <1>3, <1>4
<1>6. Balanced(code', stack', nest')
  BY <1>2, <1>4, <1>5, HoleOpened DEF HoleOf
<1>7. QED
  BY <1>5, <1>6

\* What is patched afterwards.
LEMMA ForwardPatched ==
  ASSUME code \in Seq(CodeCell), Targets(code), NEW a, HoleAt(code, a),
         NEW op \in {"branch", "0branch"}
  PROVE  LET c == Forward(<< >>, op)
             d == Patched(c, a) IN
           /\ Makes(code, d, (Holes(code) \ {a}) \cup {Len(c)})
           /\ HoleAt(d, Len(c)) /\ Len(c) = Len(code) + 2 /\ Len(d) = Len(c)
<1> DEFINE c == Forward(<< >>, op)
           d == Patched(c, a)
<1>1. Len(code) \in Nat /\ a \in 1..Len(code)
  BY DEF HoleAt
<1>2. << >> \in Seq(Ops) /\ Len(<< >>) = 0 /\ \A i \in 1..Len(<< >>) : << >>[i] # "offset"
  OBVIOUS
<1>3. /\ Makes(code, c, Holes(code) \cup {Len(c)})
      /\ HoleAt(c, Len(c)) /\ Len(c) = Len(code) + 0 + 2
  BY <1>2, ForwardMakes
<1> HIDE DEF c
<1>4. c \in Seq(CodeCell) /\ Targets(c) /\ Grows(code, c)
  BY <1>3 DEF Makes
<1>5. HoleAt(c, a)
  BY <1>4, AddressesStay
<1>6. Makes(c, d, Holes(c) \ {a}) /\ Len(d) = Len(c)
  BY <1>4, <1>5, PatchedHole
<1> HIDE DEF d
<1>7. HoleAt(d, Len(c))
  BY <1>3, <1>4, <1>6, AddressesStay DEF Makes
<1>8. Makes(code, d, Holes(c) \ {a})
  BY <1>3, <1>6, MakesOn
<1>9. Holes(c) \ {a} \subseteq (Holes(code) \ {a}) \cup {Len(c)}
  BY <1>3 DEF Makes
<1>10. Makes(code, d, (Holes(code) \ {a}) \cup {Len(c)})
  BY <1>8, <1>9, MakesWhole
<1>11. Len(c) = Len(code) + 2
  BY <1>1, <1>3
<1>12. QED
  BY <1>6, <1>7, <1>10, <1>11 DEF c, d

LEMMA ElseStep ==
  ASSUME Balanced(code, stack, nest), Else
  PROVE  Balanced(code', stack', nest') /\ Len(code') >= Len(code)
<1> DEFINE a == Last(stack)
           c == Forward(<< >>, "branch")
           lo == Len(stack) - 1
           m == Front(nest)
           t == Append(Front(stack), Len(c))
<1>1. /\ code' = Patched(c, a) /\ stack' = t /\ nest' = Append(m, "else")
      /\ nest # << >> /\ Last(nest) = "if"
  BY DEF Else, Within, Turns, HoleOf
<1>2. code \in Seq(CodeCell) /\ Targets(code) /\ Base(code, stack, nest) /\ Len(code) \in Nat
  BY DEF Balanced, Base
<1>3. /\ stack \in Seq(Nat) /\ lo \in 1..Len(stack) /\ a = stack[Len(stack)]
      /\ Base(code, SubSeq(stack, 1, lo), m) /\ HoleAt(code, a)
  BY <1>1, <1>2, InnerOne
<1>4. /\ Makes(code, code', (Holes(code) \ {a}) \cup {Len(c)})
      /\ HoleAt(code', Len(c)) /\ Len(c) = Len(code) + 2 /\ Len(code') = Len(c)
  BY <1>1, <1>2, <1>3, ForwardPatched
<1> HIDE DEF a, c, m
<1>5. /\ t \in Seq(Nat) /\ Len(t) = lo + 1 /\ t[Len(t)] = Len(c)
      /\ \A j \in 1..lo : t[j] = stack[j]
  <2>1. Front(stack) \in Seq(Nat) /\ Len(Front(stack)) = lo /\ \A j \in 1..lo : Front(stack)[j] = stack[j]
    <3>1. stack # << >>
      BY <1>3
    <3>2. QED
      BY <1>3, <3>1, FrontLast
  <2>2. Len(c) \in Nat /\ lo \in Nat
    BY <1>2, <1>3, <1>4
  <2>3. QED
    BY <2>1, <2>2
<1> HIDE DEF t
<1>6. Segment(code', t, "else", lo, Len(t))
  BY <1>4, <1>5 DEF Segment
<1>7. Len(t) \in 2..Len(t) /\ Len(t) > lo /\ lo + 1 = Len(stack)
  BY <1>3, <1>5
<1>8. \A b \in (Holes(code) \ {a}) \cup {Len(c)} :
        b \in Holes(code) \/ \E i \in 2..Len(t) : t[i] = b
  BY <1>5, <1>7
<1>9. \A j \in lo + 1..Len(stack) : stack[j] \in (Holes(code) \ {a}) \cup {Len(c)}
        => \E i \in 2..Len(t) : t[i] = stack[j]
  BY <1>3, <1>5, <1>7
<1> DEFINE H == (Holes(code) \ {a}) \cup {Len(c)}
<1> HIDE DEF lo, H
<1>10. Balanced(code', t, Append(m, "else"))
  <2>1. Makes(code, code', H) /\ "else" \in Kinds /\ "else" # "of"
    BY <1>4 DEF H, Kinds
  <2>2. \A b \in H : b \in Holes(code) \/ \E i \in 2..Len(t) : t[i] = b
    BY <1>8 DEF H
  <2>3. \A j \in lo + 1..Len(stack) : stack[j] \in H => \E i \in 2..Len(t) : t[i] = stack[j]
    BY <1>9 DEF H
  <2>4. QED
    BY <1>3, <1>5, <1>6, <1>7, <2>1, <2>2, <2>3, TurnedTo, SMTT(30)
<1>11. Len(code') >= Len(code)
  BY <1>2, <1>4
<1>12. QED
  BY <1>1, <1>10, <1>11

LEMMA ThenStep ==
  ASSUME Balanced(code, stack, nest), Then
  PROVE  Balanced(code', stack', nest') /\ Len(code') >= Len(code)
<1> DEFINE a == Last(stack)
           lo == Len(stack) - 1
<1>1. /\ code' = Patched(code, a) /\ stack' = SubSeq(stack, 1, lo) /\ nest' = Front(nest)
      /\ nest # << >> /\ Last(nest) \in {"if", "else"}
  BY DEF Then, Within, Ends, Front
<1>2. code \in Seq(CodeCell) /\ Targets(code) /\ Base(code, stack, nest) /\ Len(code) \in Nat
  BY DEF Balanced, Base
<1>3. /\ stack \in Seq(Nat) /\ lo \in 1..Len(stack) /\ a = stack[Len(stack)]
      /\ Base(code, SubSeq(stack, 1, lo), Front(nest)) /\ HoleAt(code, a)
  BY <1>1, <1>2, InnerOne
<1>4. Makes(code, code', Holes(code) \ {a}) /\ Len(code') = Len(code)
  BY <1>1, <1>2, <1>3, PatchedHole
<1>5. \A j \in lo + 1..Len(stack) : stack[j] \notin Holes(code) \ {a}
  BY <1>3
<1> HIDE DEF a, lo
<1>6. Balanced(code', stack', nest')
  BY <1>1, <1>3, <1>4, <1>5, ClosedTo
<1>7. QED
  BY <1>2, <1>4, <1>6

LEMMA PlainStep ==
  ASSUME Balanced(code, stack, nest), Plain
  PROVE  Balanced(code', stack', nest') /\ Len(code') >= Len(code)
<1>1. code \in Seq(CodeCell) /\ Targets(code) /\ Base(code, stack, nest) /\ Len(code) \in Nat
  BY DEF Balanced, Base
<1>2. code' = Append(code, Cell("word")) /\ stack' = stack /\ nest' = nest
  BY DEF Plain
<1>3. "word" \in Ops /\ "word" # "offset"
  BY DEF Ops
<1>4. Makes(code, code', Holes(code)) /\ Len(code') = Len(code) + 1
  BY <1>1, <1>2, <1>3, LaidOp
<1>5. \A a \in Holes(code) : \E i \in 2..Len(stack) : stack[i] = a
  BY DEF Balanced, Known
<1>6. Balanced(code', stack, nest)
  BY <1>1, <1>4, <1>5, Laid
<1>7. QED
  BY <1>1, <1>2, <1>4, <1>6

LEMMA BeginStep ==
  ASSUME Balanced(code, stack, nest), Begin \/ Case
  PROVE  Balanced(code', stack', nest') /\ Len(code') >= Len(code)
<1>1. /\ code \in Seq(CodeCell) /\ Targets(code) /\ Base(code, stack, nest) /\ Len(code) \in Nat
      /\ stack \in Seq(Nat) /\ Len(stack) \in Nat
  BY DEF Balanced, Base
<1>2. PICK kind \in {"begin", "case"}, x \in Nat :
        /\ code' = code /\ stack' = Append(stack, x) /\ nest' = Append(nest, kind)
        /\ kind = "begin" => x = Len(code) + 1
        /\ kind = "case" => x = 0
  <2>1. CASE Begin
    BY <1>1, <2>1 DEF Begin, Begins, Here
  <2>2. CASE Case
    BY <2>2 DEF Case, Begins
  <2>3. QED
    BY <2>1, <2>2
<1>3. /\ stack' \in Seq(Nat) /\ Len(stack') = Len(stack) + 1 /\ stack'[Len(stack) + 1] = x
      /\ \A j \in 1..Len(stack) : stack'[j] = stack[j]
  BY <1>1, <1>2
<1>4. Makes(code, code, Holes(code))
  BY <1>1 DEF Makes, Grows
<1>5. Segment(code, stack', kind, Len(stack), Len(stack'))
  <2>1. CASE kind = "begin"
    <3>1. Len(code) + 1 \in 1..Len(code) + 1 /\ Len(code) + 1 \notin Holes(code)
      BY <1>1 DEF Holes
    <3>2. QED
      BY <1>2, <1>3, <2>1, <3>1 DEF Segment, StartAt
  <2>2. CASE kind = "case"
    <3>1. Len(stack') > Len(stack) /\ \A j \in Len(stack) + 2..Len(stack') : FALSE
      BY <1>1, <1>3
    <3>2. QED
      BY <1>2, <1>3, <2>2, <3>1 DEF Segment
  <2>3. QED
    BY <2>1, <2>2
<1>6. Balanced(code, stack', Append(nest, kind))
  <2>1. kind \in Kinds /\ kind # "of" /\ Len(stack') > Len(stack)
    BY <1>1, <1>3 DEF Kinds
  <2>2. QED
    BY <1>3, <1>4, <1>5, <2>1, OpenedUp
<1>7. QED
  BY <1>1, <1>2, <1>6

LEMMA BackMakes ==
  ASSUME NEW c \in Seq(CodeCell), Targets(c), NEW op \in {"branch", "0branch"},
         NEW a, StartAt(c, a)
  PROVE  LET d == Back(Append(c, Cell(op)), a) IN
           Makes(c, d, Holes(c)) /\ Len(d) = Len(c) + 2
<1> DEFINE e == Append(c, Cell(op))
           d == Back(e, a)
<1>1. op \in Ops /\ op # "offset"
  BY DEF Ops
<1>2. Makes(c, e, Holes(c)) /\ Len(e) = Len(c) + 1 /\ Len(c) \in Nat
  BY <1>1, LaidOp
<1>3. a \in 1..Len(e)
  BY <1>2 DEF StartAt
<1> HIDE DEF e
<1>4. e \in Seq(CodeCell) /\ Targets(e) /\ Holes(e) \subseteq Holes(c)
  BY <1>2 DEF Makes
<1>5. Makes(e, d, Holes(e)) /\ Len(d) = Len(e) + 1
  BY <1>3, <1>4, LaidBack
<1> HIDE DEF d
<1>6. Makes(c, d, Holes(c))
  BY <1>2, <1>4, <1>5, MakesOn, MakesWhole
<1>7. QED
  BY <1>2, <1>5, <1>6 DEF d, e

LEMMA UntilStep ==
  ASSUME Balanced(code, stack, nest), Until \/ Again
  PROVE  Balanced(code', stack', nest') /\ Len(code') >= Len(code)
<1> DEFINE a == Last(stack)
           lo == Len(stack) - 1
<1>1. code \in Seq(CodeCell) /\ Targets(code) /\ Base(code, stack, nest) /\ Len(code) \in Nat
  BY DEF Balanced, Base
<1>2. PICK op \in {"branch", "0branch"} :
        /\ code' = Back(Append(code, Cell(op)), a) /\ stack' = SubSeq(stack, 1, lo)
        /\ nest' = Front(nest) /\ nest # << >> /\ Last(nest) = "begin"
  <2>1. CASE Until
    BY <2>1 DEF Until, Within, Ends, Front
  <2>2. CASE Again
    BY <2>2 DEF Again, Within, Ends, Front
  <2>3. QED
    BY <2>1, <2>2
<1>3. /\ stack \in Seq(Nat) /\ lo \in 1..Len(stack) /\ a = stack[Len(stack)]
      /\ Base(code, SubSeq(stack, 1, lo), Front(nest)) /\ StartAt(code, a)
  BY <1>1, <1>2, InnerOne
<1>4. Makes(code, code', Holes(code)) /\ Len(code') = Len(code) + 2
  BY <1>1, <1>2, <1>3, BackMakes
<1>5. \A j \in lo + 1..Len(stack) : stack[j] \notin Holes(code)
  BY <1>3 DEF StartAt
<1> HIDE DEF a, lo
<1>6. Balanced(code', stack', nest')
  BY <1>2, <1>3, <1>4, <1>5, ClosedTo
<1>7. QED
  BY <1>1, <1>4, <1>6

LEMMA WhileStep ==
  ASSUME Balanced(code, stack, nest), While
  PROVE  Balanced(code', stack', nest') /\ Len(code') >= Len(code)
<1> DEFINE lo == Len(stack) - 1
           m == Front(nest)
           t == Append(stack, Len(code'))
           H == Holes(code) \cup {Len(code')}
<1>1. code \in Seq(CodeCell) /\ Targets(code) /\ Base(code, stack, nest) /\ Len(code) \in Nat
  BY DEF Balanced, Base
<1>2. /\ code' = Forward(<< >>, "0branch") /\ stack' = t /\ nest' = Append(m, "while")
      /\ nest # << >> /\ Last(nest) = "begin"
  BY DEF While, Within, Turns, HoleOf
<1>3. << >> \in Seq(Ops) /\ Len(<< >>) = 0 /\ \A i \in 1..Len(<< >>) : << >>[i] # "offset"
  OBVIOUS
<1>4. Makes(code, code', H) /\ HoleAt(code', Len(code')) /\ Len(code') = Len(code) + 0 + 2
  BY <1>1, <1>2, <1>3, ForwardMakes
<1>5. /\ stack \in Seq(Nat) /\ lo \in 1..Len(stack)
      /\ Base(code, SubSeq(stack, 1, lo), m) /\ StartAt(code, stack[Len(stack)])
  BY <1>1, <1>2, InnerOne
<1>6. /\ t \in Seq(Nat) /\ Len(t) = Len(stack) + 1 /\ t[Len(t)] = Len(code')
      /\ \A j \in 1..Len(stack) : t[j] = stack[j]
  BY <1>1, <1>4, <1>5
<1> HIDE DEF t, m
<1>7. Segment(code', t, "while", lo, Len(t))
  <2>1. StartAt(code', stack[Len(stack)])
    BY <1>1, <1>4, <1>5, AddressesStay DEF Makes
  <2>2. lo + 1 = Len(stack) /\ Len(t) = lo + 2 /\ Len(stack) \in 1..Len(stack)
    BY <1>5, <1>6
  <2>3. t[lo + 1] = stack[Len(stack)]
    BY <1>6, <2>2
  <2>4. QED
    BY <1>4, <1>6, <2>1, <2>2, <2>3 DEF Segment
<1>8. Len(t) \in 2..Len(t) /\ Len(t) > lo /\ lo + 1 = Len(stack) /\ Len(stack) \in 2..Len(t)
  BY <1>5, <1>6
<1>9. \A b \in H : b \in Holes(code) \/ \E i \in 2..Len(t) : t[i] = b
  BY <1>6, <1>8
<1>10. \A j \in lo + 1..Len(stack) : stack[j] \in H => \E i \in 2..Len(t) : t[i] = stack[j]
  <2>0. Len(stack) \in Nat /\ Len(stack) \in 1..Len(stack)
    BY <1>5
  <2>1. \A j \in lo + 1..Len(stack) : j = Len(stack)
    BY <2>0
  <2>2. t[Len(stack)] = stack[Len(stack)]
    BY <1>6, <2>0
  <2>3. QED
    BY <1>8, <2>1, <2>2
<1>11. \A j \in 1..lo : t[j] = stack[j]
  BY <1>5, <1>6
<1> HIDE DEF lo, H
<1>12. Balanced(code', t, Append(m, "while"))
  <2>1. "while" \in Kinds /\ "while" # "of"
    BY DEF Kinds
  <2>2. Makes(code, code', H) /\ t \in Seq(Nat) /\ Len(t) > lo
    BY <1>4, <1>6, <1>8
  <2>3. lo \in 1..Len(stack) /\ Base(code, SubSeq(stack, 1, lo), m)
    BY <1>5
  <2>4. QED
    BY <1>7, <1>9, <1>10, <1>11, <2>1, <2>2, <2>3, TurnedTo, SMTT(30)
<1>13. QED
  BY <1>1, <1>2, <1>4, <1>12

LEMMA RepeatStep ==
  ASSUME Balanced(code, stack, nest), Repeat
  PROVE  Balanced(code', stack', nest') /\ Len(code') >= Len(code)
<1> DEFINE hole == Last(stack)
           start == stack[Len(stack) - 1]
           lo == Len(stack) - 2
           c == Back(Append(code, Cell("branch")), start)
<1>1. code \in Seq(CodeCell) /\ Targets(code) /\ Base(code, stack, nest) /\ Len(code) \in Nat
  BY DEF Balanced, Base
<1>2. nest # << >> /\ Last(nest) = "while" /\ nest' = Front(nest)
  BY DEF Repeat, Within, Ends
<1>3. /\ stack \in Seq(Nat) /\ lo \in 1..Len(stack) /\ hole = stack[Len(stack)]
      /\ Base(code, SubSeq(stack, 1, lo), Front(nest))
      /\ StartAt(code, start) /\ HoleAt(code, hole)
  BY <1>1, <1>2, InnerWhile
<1>4. Len(stack) >= 2 /\ Len(stack) \in Nat
  BY <1>3
<1>5. /\ stack' = SubSeq(stack, 1, lo)
      /\ code' = Patched(c, hole)
  BY <1>3, <1>4, FrontFront DEF Repeat
<1>6. Makes(code, c, Holes(code)) /\ Len(c) = Len(code) + 2
  BY <1>1, <1>3, BackMakes
<1> HIDE DEF c
<1>7. c \in Seq(CodeCell) /\ Targets(c) /\ Holes(c) \subseteq Holes(code) /\ HoleAt(c, hole)
  BY <1>1, <1>3, <1>6, AddressesStay DEF Makes
<1>8. Makes(c, code', Holes(c) \ {hole}) /\ Len(code') = Len(c)
  BY <1>5, <1>7, PatchedHole
<1>9. Makes(code, code', Holes(c) \ {hole})
  BY <1>1, <1>6, <1>8, MakesOn
<1>10. \A j \in lo + 1..Len(stack) : stack[j] \notin Holes(c) \ {hole}
  <2>1. \A j \in lo + 1..Len(stack) : j = Len(stack) \/ j = Len(stack) - 1
    BY <1>4
  <2>2. start \notin Holes(c)
    BY <1>3, <1>7 DEF StartAt
  <2>3. QED
    BY <1>3, <2>1, <2>2
<1>11. Holes(c) \ {hole} \subseteq Holes(code)
  BY <1>7
<1> HIDE DEF hole, start, lo
<1>12. Balanced(code', stack', nest')
  BY <1>2, <1>3, <1>5, <1>9, <1>10, <1>11, ClosedTo
<1>13. QED
  BY <1>1, <1>6, <1>8, <1>12

LEMMA DoStep ==
  ASSUME Balanced(code, stack, nest), Do
  PROVE  Balanced(code', stack', nest') /\ Len(code') >= Len(code)
<1> DEFINE start == Len(code') + 1
           t == stack \o << 0, start >>
<1>1. /\ code \in Seq(CodeCell) /\ Targets(code) /\ Base(code, stack, nest) /\ Len(code) \in Nat
      /\ stack \in Seq(Nat) /\ Len(stack) \in Nat
  BY DEF Balanced, Base
<1>2. /\ code' = Append(code, Cell("(>loop-sys)")) /\ stack' = t /\ nest' = Append(nest, "do")
  BY DEF Do, Begins
<1>3. "(>loop-sys)" \in Ops /\ "(>loop-sys)" # "offset"
  BY DEF Ops
<1>4. Makes(code, code', Holes(code)) /\ Len(code') = Len(code) + 1
  BY <1>1, <1>2, <1>3, LaidOp
<1>5. start \in Nat /\ start = Len(code') + 1
  BY <1>1, <1>4
<1> HIDE DEF start
<1>6. /\ t \in Seq(Nat) /\ Len(t) = Len(stack) + 2 /\ t[Len(stack) + 1] = 0
      /\ t[Len(t)] = start /\ \A j \in 1..Len(stack) : t[j] = stack[j]
  BY <1>1, <1>5
<1> HIDE DEF t
<1>7. StartAt(code', start)
  BY <1>1, <1>4, <1>5 DEF StartAt, Holes
<1>8. Segment(code', t, "do", Len(stack), Len(t))
  BY <1>6, <1>7 DEF Segment
<1>9. Balanced(code', t, Append(nest, "do"))
  <2>1. "do" \in Kinds /\ "do" # "of" /\ Len(t) > Len(stack)
    BY <1>1, <1>6 DEF Kinds
  <2>2. QED
    BY <1>4, <1>6, <1>8, <2>1, OpenedUp
<1>10. QED
  BY <1>1, <1>2, <1>4, <1>9

LEMMA QDoStep ==
  ASSUME Balanced(code, stack, nest), QDo
  PROVE  Balanced(code', stack', nest') /\ Len(code') >= Len(code)
<1> DEFINE ops == << "2dup", "(>loop-sys)", "=", "not" >>
           start == Len(code') + 1
           t == stack \o << Len(code'), 1, start >>
           H == Holes(code) \cup {Len(code')}
<1>1. /\ code \in Seq(CodeCell) /\ Targets(code) /\ Base(code, stack, nest) /\ Len(code) \in Nat
      /\ stack \in Seq(Nat) /\ Len(stack) \in Nat
  BY DEF Balanced, Base
<1>2. /\ code' = Forward(ops, "0branch") /\ stack' = t /\ nest' = Append(nest, "do")
  BY DEF QDo, Begins, HoleOf
<1>3. ops \in Seq(Ops) /\ Len(ops) = 4 /\ \A i \in 1..Len(ops) : ops[i] # "offset"
  BY DEF Ops
<1> HIDE DEF ops
<1>4. Makes(code, code', H) /\ HoleAt(code', Len(code')) /\ Len(code') = Len(code) + 4 + 2
  BY <1>1, <1>2, <1>3, ForwardMakes
<1>5. start \in Nat /\ start = Len(code') + 1 /\ Len(code') \in Nat
  BY <1>1, <1>4
<1> HIDE DEF start
<1>6. /\ t \in Seq(Nat) /\ Len(t) = Len(stack) + 3 /\ t[Len(stack) + 1] = Len(code')
      /\ t[Len(stack) + 2] = 1 /\ t[Len(t)] = start /\ \A j \in 1..Len(stack) : t[j] = stack[j]
  BY <1>1, <1>5
<1> HIDE DEF t
<1>7. StartAt(code', start)
  BY <1>1, <1>4, <1>5 DEF StartAt, Holes
<1>8. Segment(code', t, "do", Len(stack), Len(t))
  BY <1>4, <1>6, <1>7 DEF Segment
<1>9. \A b \in H : b \in Holes(code) \/ \E i \in 2..Len(t) : t[i] = b
  <2>1. Len(stack) >= 1
    BY DEF Balanced, Base
  <2>2. Len(stack) + 1 \in 2..Len(t)
    BY <1>1, <1>6, <2>1
  <2>3. QED
    BY <1>6, <2>2
<1> HIDE DEF H
<1>10. Balanced(code', t, Append(nest, "do"))
  <2>1. "do" \in Kinds /\ "do" # "of" /\ Len(t) > Len(stack)
    BY <1>1, <1>6 DEF Kinds
  <2>2. QED
    BY <1>4, <1>6, <1>8, <1>9, <2>1, OpenedUp
<1>11. QED
  BY <1>1, <1>2, <1>4, <1>10

LEMMA LoopStep ==
  ASSUME Balanced(code, stack, nest), Loop \/ PlusLoop
  PROVE  Balanced(code', stack', nest') /\ Len(code') >= Len(code)
<1>1. /\ code \in Seq(CodeCell) /\ Targets(code) /\ Base(code, stack, nest) /\ Len(code) \in Nat
  BY DEF Balanced, Base
<1>2. PICK step \in {<< >>, << "lit", "1" >>} :
        EndLoop(step) /\ nest # << >> /\ Last(nest) = "do" /\ nest' = Front(nest)
  <2>1. CASE Loop
    BY <2>1 DEF Loop, Within, Ends
  <2>2. CASE PlusLoop
    BY <2>2 DEF PlusLoop, Within, Ends
  <2>3. QED
    BY <2>1, <2>2
<1> DEFINE L == Len(stack)
           rest == Front(stack)
           tail == << "dup", "(loop-sys-peek)", "(loop-done?)", "swap", "(loop-inc)", "0branch" >>
           ops == step \o tail
           w == code \o Words(ops)
           c == Back(w, Last(stack))
           qdo == Last(rest) # 0
           d == IF qdo THEN Patched(c, Last(Front(rest))) ELSE c
<1>3. /\ stack \in Seq(Nat) /\ L - 2 \in 1..L /\ Last(stack) = stack[L] /\ StartAt(code, Last(stack))
      /\ \/ stack[L - 1] = 0 /\ Base(code, SubSeq(stack, 1, L - 2), Front(nest))
         \/ /\ stack[L - 1] = 1 /\ L - 3 \in 1..L /\ HoleAt(code, stack[L - 2])
            /\ Base(code, SubSeq(stack, 1, L - 3), Front(nest))
  BY <1>1, <1>2, InnerDo
<1>4. L \in Nat /\ L >= 3
  BY <1>3
<1>5. /\ rest \in Seq(Nat) /\ Len(rest) = L - 1 /\ Last(rest) = stack[L - 1]
      /\ Front(rest) = SubSeq(stack, 1, L - 2)
      /\ Last(Front(rest)) = stack[L - 2]
  <2>1. /\ rest \in Seq(Nat) /\ Len(rest) = L - 1 /\ Last(rest) = stack[L - 1]
        /\ Len(Front(rest)) = L - 2 /\ Front(rest) = SubSeq(stack, 1, L - 2)
        /\ \A i \in 1..L - 2 : Front(rest)[i] = stack[i]
    BY <1>3, <1>4, FrontFront, SMTT(30)
  <2>2. Last(Front(rest)) = stack[L - 2]
    BY <1>4, <2>1 DEF Last
  <2>3. QED
    BY <2>1, <2>2
<1>6. L - 3 \in 1..L => Front(Front(rest)) = SubSeq(stack, 1, L - 3)
  <2> SUFFICES ASSUME L - 3 \in 1..L PROVE Front(Front(rest)) = SubSeq(stack, 1, L - 3)
    OBVIOUS
  <2> DEFINE u == SubSeq(stack, 1, L - 3)
             v == Front(Front(rest))
  <2>1. /\ v \in Seq(Nat) /\ Len(v) = L - 1 - 2 /\ \A i \in 1..L - 1 - 2 : v[i] = rest[i]
    <3>1. rest \in Seq(Nat) /\ Len(rest) >= 2 /\ Len(rest) = L - 1
      BY <1>4, <1>5
    <3> HIDE DEF rest
    <3>2. QED
      BY <3>1, FrontFront
  <2>2. \A i \in 1..L - 1 : rest[i] = stack[i]
    <3>1. stack # << >>
      BY <1>4
    <3>2. QED
      BY <1>3, <3>1, FrontLast
  <2>3. u \in Seq(Nat) /\ Len(u) = L - 3 /\ \A i \in 1..L - 3 : u[i] = stack[i]
    BY <1>3, Beginning
  <2> HIDE DEF u, v, rest
  <2>4. Len(v) = Len(u) /\ \A i \in 1..Len(v) : v[i] = u[i]
    BY <1>4, <2>1, <2>2, <2>3
  <2>5. v = u
    BY <2>1, <2>3, <2>4, SeqEqual
  <2>6. QED
    BY <2>5 DEF u, v
<1>7. /\ code' = Append(d, Cell("unloop"))
      /\ stack' = IF qdo THEN Front(Front(rest)) ELSE Front(rest)
  BY <1>2 DEF EndLoop
<1>8. ops \in Seq(Ops) /\ Len(ops) \in Nat /\ Len(ops) >= 6 /\ \A i \in 1..Len(ops) : ops[i] # "offset"
  <2>1. tail \in Seq(Ops) /\ Len(tail) = 6 /\ \A i \in 1..6 : tail[i] # "offset"
    BY DEF Ops
  <2>2. step \in Seq(Ops) /\ Len(step) \in Nat /\ \A i \in 1..Len(step) : step[i] # "offset"
    <3>1. CASE step = << >>
      BY <3>1
    <3>2. CASE step = << "lit", "1" >>
      BY <3>2 DEF Ops
    <3>3. QED
      BY <3>1, <3>2
  <2> HIDE DEF tail
  <2>3. /\ ops \in Seq(Ops) /\ Len(ops) = Len(step) + Len(tail)
        /\ \A i \in 1..Len(step) + Len(tail) :
             ops[i] = IF i <= Len(step) THEN step[i] ELSE tail[i - Len(step)]
    BY <2>1, <2>2, ConcatProperties, ZenonT(30)
  <2> HIDE DEF ops
  <2>4. ASSUME NEW i \in 1..Len(ops) PROVE ops[i] # "offset"
    <3>1. CASE i <= Len(step)
      BY <2>2, <2>3, <3>1
    <3>2. CASE i > Len(step)
      <4>1. i \in Nat /\ i <= Len(step) + 6 /\ Len(step) \in Nat /\ ~ (i <= Len(step))
        BY <2>1, <2>2, <2>3, <3>2
      <4>2. i - Len(step) \in 1..6 /\ i \in 1..Len(step) + Len(tail)
        BY <2>1, <4>1
      <4>3. ops[i] = tail[i - Len(step)]
        BY <2>3, <4>1, <4>2
      <4>4. QED
        BY <2>1, <4>2, <4>3
    <3>3. QED
      BY <2>2, <3>1, <3>2
  <2>5. QED
    BY <2>1, <2>2, <2>3, <2>4
<1> HIDE DEF ops
<1>9. Makes(code, w, Holes(code)) /\ Len(w) = Len(code) + Len(ops)
  BY <1>1, <1>8, LaidWords
<1> HIDE DEF w
<1>10. w \in Seq(CodeCell) /\ Targets(w) /\ Grows(code, w) /\ Holes(w) \subseteq Holes(code)
  BY <1>9 DEF Makes
<1>11. Last(stack) \in 1..Len(w)
  BY <1>1, <1>3, <1>8, <1>9 DEF StartAt
<1>12. Makes(w, c, Holes(w)) /\ Len(c) = Len(w) + 1
  BY <1>10, <1>11, LaidBack
<1> HIDE DEF c
<1>13. /\ c \in Seq(CodeCell) /\ Targets(c) /\ Makes(code, c, Holes(c)) /\ Holes(c) \subseteq Holes(code)
       /\ Grows(code, c) /\ Len(c) \in Nat /\ Len(c) >= Len(code)
  <2>1. Makes(code, c, Holes(w))
    BY <1>1, <1>9, <1>12, MakesOn
  <2>2. c \in Seq(CodeCell) /\ Targets(c) /\ Grows(code, c) /\ Holes(c) \subseteq Holes(w)
    BY <2>1 DEF Makes
  <2>3. QED
    BY <1>1, <1>10, <2>2 DEF Makes, Grows
<1>14. "unloop" \in Ops /\ "unloop" # "offset"
  BY DEF Ops
<1>15. CASE stack[L - 1] = 0 /\ Base(code, SubSeq(stack, 1, L - 2), Front(nest))
  <2>1. code' = Append(c, Cell("unloop")) /\ stack' = SubSeq(stack, 1, L - 2)
    BY <1>5, <1>7, <1>15
  <2>2. Makes(c, code', Holes(c)) /\ Len(code') = Len(c) + 1
    BY <1>13, <1>14, <2>1, LaidOp
  <2>3. Makes(code, code', Holes(c))
    BY <1>1, <1>13, <2>2, MakesOn
  <2>4. \A j \in L - 2 + 1..L : stack[j] \notin Holes(c)
    <3>1. \A j \in L - 2 + 1..L : j = L \/ j = L - 1
      BY <1>4
    <3>2. stack[L] \notin Holes(code)
      BY <1>3 DEF StartAt
    <3>3. 0 \notin Holes(c)
      BY DEF Holes
    <3>4. QED
      BY <1>13, <1>15, <3>1, <3>2, <3>3
  <2> DEFINE lo == L - 2
  <2>5. lo \in 1..Len(stack) /\ Base(code, SubSeq(stack, 1, lo), Front(nest))
    BY <1>3, <1>15
  <2> HIDE DEF lo, L
  <2>6. Balanced(code', SubSeq(stack, 1, lo), Front(nest))
    BY <1>13, <2>3, <2>4, <2>5, ClosedTo DEF lo, L
  <2>7. QED
    BY <1>1, <1>2, <1>13, <2>1, <2>2, <2>6 DEF lo
<1>16. CASE /\ stack[L - 1] = 1 /\ L - 3 \in 1..L /\ HoleAt(code, stack[L - 2])
            /\ Base(code, SubSeq(stack, 1, L - 3), Front(nest))
  <2> DEFINE h == stack[L - 2]
             e == Patched(c, h)
  <2>1. code' = Append(e, Cell("unloop")) /\ stack' = SubSeq(stack, 1, L - 3)
    <3>1. Last(rest) # 0 /\ Last(Front(rest)) = h /\ Front(Front(rest)) = SubSeq(stack, 1, L - 3)
      BY <1>5, <1>6, <1>16
    <3> HIDE DEF rest, h, L
    <3>2. QED
      BY <1>7, <3>1
  <2>2. HoleAt(c, h)
    BY <1>1, <1>13, <1>16, AddressesStay
  <2>3. Makes(c, e, Holes(c) \ {h}) /\ Len(e) = Len(c)
    BY <1>13, <2>2, PatchedHole
  <2> HIDE DEF e
  <2>4. e \in Seq(CodeCell) /\ Targets(e) /\ Holes(e) \subseteq Holes(c) \ {h}
    BY <2>3 DEF Makes
  <2>5. Makes(e, code', Holes(e)) /\ Len(code') = Len(e) + 1
    BY <1>14, <2>1, <2>4, LaidOp
  <2>6. Makes(code, code', Holes(e))
    BY <1>1, <1>13, <2>3, <2>5, MakesOn
  <2>7. \A j \in L - 3 + 1..L : stack[j] \notin Holes(e)
    <3>1. \A j \in L - 3 + 1..L : j = L \/ j = L - 1 \/ j = L - 2
      BY <1>4
    <3>2. stack[L] \notin Holes(code)
      BY <1>3 DEF StartAt
    <3>3. 1 \notin Holes(code)
      BY <1>1 DEF Base, StartAt
    <3>4. QED
      BY <1>13, <1>16, <2>4, <3>1, <3>2, <3>3
  <2>8. Holes(e) \subseteq Holes(code)
    BY <1>13, <2>4
  <2> DEFINE lo == L - 3
  <2>9. lo \in 1..Len(stack) /\ Base(code, SubSeq(stack, 1, lo), Front(nest))
    BY <1>3, <1>16
  <2> HIDE DEF lo, L
  <2>10. Balanced(code', SubSeq(stack, 1, lo), Front(nest))
    BY <2>6, <2>7, <2>8, <2>9, ClosedTo DEF lo, L
  <2>11. QED
    BY <1>1, <1>2, <1>13, <2>1, <2>3, <2>5, <2>10 DEF lo
<1>17. QED
  BY <1>3, <1>15, <1>16

LEMMA OfStep ==
  ASSUME Balanced(code, stack, nest), Of
  PROVE  Balanced(code', stack', nest') /\ Len(code') >= Len(code)
<1> DEFINE c == Forward(<< "over", "=" >>, "0branch")
           a == Len(c)
<1>1. /\ code \in Seq(CodeCell) /\ Targets(code) /\ Base(code, stack, nest) /\ Len(code) \in Nat
  BY DEF Balanced, Base
<1>2. /\ code' = Append(c, Cell("drop")) /\ stack' = Append(stack, a)
      /\ nest' = Append(nest, "of") /\ nest # << >> /\ Last(nest) = "case"
  BY DEF Of, Within, Begins, HoleOf
<1>3. /\ << "over", "=" >> \in Seq(Ops) /\ Len(<< "over", "=" >>) = 2
      /\ \A i \in 1..Len(<< "over", "=" >>) : << "over", "=" >>[i] # "offset"
  BY DEF Ops
<1>4. Makes(code, c, Holes(code) \cup {a}) /\ HoleAt(c, a) /\ Len(c) = Len(code) + 2 + 2
  BY <1>1, <1>3, ForwardMakes
<1> HIDE DEF c, a
<1>5. c \in Seq(CodeCell) /\ Targets(c) /\ Holes(c) \subseteq Holes(code) \cup {a}
  BY <1>4 DEF Makes
<1>6. "drop" \in Ops /\ "drop" # "offset"
  BY DEF Ops
<1>7. Makes(c, code', Holes(c)) /\ Len(code') = Len(c) + 1
  BY <1>2, <1>5, <1>6, LaidOp
<1>8. HoleAt(code', a)
  BY <1>4, <1>5, <1>7, AddressesStay DEF Makes
<1>9. Makes(code, code', Holes(c))
  BY <1>1, <1>4, <1>7, MakesOn
<1>10. Makes(code, code', Holes(code) \cup {a})
  BY <1>1, <1>5, <1>9, MakesWhole
<1>11. a \in Nat
  BY <1>5 DEF a
<1>12. Balanced(code', stack', nest')
  BY <1>2, <1>8, <1>10, <1>11, HoleOpened
<1>13. QED
  BY <1>1, <1>4, <1>7, <1>12

\* The branch behind the OF part joins those of the CASE.
LEMMA EndOfStep ==
  ASSUME Balanced(code, stack, nest), EndOf
  PROVE  Balanced(code', stack', nest') /\ Len(code') >= Len(code)
<1> DEFINE a == Last(stack)
           c == Forward(<< >>, "branch")
           u == SubSeq(stack, 1, Len(stack) - 1)
           m == Front(nest)
           t == Append(u, Len(c))
           H == (Holes(code) \ {a}) \cup {Len(c)}
<1>1. /\ code' = Patched(c, a) /\ stack' = t /\ nest' = m
      /\ nest # << >> /\ Last(nest) = "of"
  BY DEF EndOf, Within, Ends, HoleOf, Front
<1>2. /\ code \in Seq(CodeCell) /\ Targets(code) /\ Base(code, stack, nest) /\ Len(code) \in Nat
      /\ nest \in Seq(Kinds)
  BY DEF Balanced, Base
<1>3. /\ stack \in Seq(Nat) /\ Len(stack) - 1 \in 1..Len(stack) /\ a = stack[Len(stack)]
      /\ Base(code, u, m) /\ HoleAt(code, a) /\ m # << >> /\ Last(m) = "case"
  BY <1>1, <1>2, InnerOne, Inner
<1>4. m \in Seq(Kinds) /\ Append(Front(m), "case") = m
  <2>1. m \in Seq(Kinds)
    BY <1>3 DEF Base
  <2> HIDE DEF m
  <2> DEFINE k == Front(m)
  <2>2. /\ k \in Seq(Kinds) /\ Len(k) = Len(m) - 1 /\ Len(m) \in Nat /\ Len(m) >= 1
        /\ m[Len(m)] = "case" /\ \A i \in 1..Len(m) - 1 : k[i] = m[i]
    BY <1>3, <2>1, FrontLast
  <2> HIDE DEF k
  <2>3. /\ Append(k, "case") \in Seq(Kinds) /\ Len(Append(k, "case")) = Len(m)
        /\ \A i \in 1..Len(k) : Append(k, "case")[i] = k[i]
        /\ Append(k, "case")[Len(k) + 1] = "case"
    BY <2>2 DEF Kinds
  <2>4. ASSUME NEW i \in 1..Len(m) PROVE Append(k, "case")[i] = m[i]
    <3>1. CASE i = Len(m)
      BY <2>2, <2>3, <3>1
    <3>2. CASE i \in 1..Len(m) - 1
      BY <2>2, <2>3, <3>2
    <3>3. QED
      BY <2>2, <3>1, <3>2
  <2>5. Append(k, "case") = m
    BY <2>1, <2>3, <2>4, SeqEqual
  <2>6. QED
    BY <2>1, <2>5 DEF k
<1> HIDE DEF m
<1>5. /\ u \in Seq(Nat) /\ Len(u) = Len(stack) - 1 /\ \A i \in 1..Len(u) : u[i] = stack[i]
  BY <1>3, Beginning
<1> HIDE DEF u
<1>6. PICK lo \in 1..Len(u) :
        /\ lo < Len(u) /\ Base(code, SubSeq(u, 1, lo), Front(m))
        /\ u[lo + 1] = 0 /\ \A j \in lo + 2..Len(u) : HoleAt(code, u[j])
  BY <1>3, InnerCase
<1>7. /\ Makes(code, code', H) /\ HoleAt(code', Len(c)) /\ Len(c) = Len(code) + 2
      /\ Len(code') = Len(c)
  BY <1>1, <1>2, <1>3, ForwardPatched
<1> HIDE DEF a, c
<1>8. Len(c) \in Nat /\ Len(u) \in Nat /\ Len(stack) \in Nat
  <2>1. Len(u) \in Nat /\ Len(stack) \in Nat
    BY <1>3, <1>5
  <2>2. Len(c) \in Nat
    BY <1>2, <1>7
  <2>3. QED
    BY <2>1, <2>2
<1>9. t \in Seq(Nat) /\ Len(t) = Len(u) + 1 /\ t[Len(t)] = Len(c) /\ \A j \in 1..Len(u) : t[j] = u[j]
  BY <1>5, <1>8
<1> HIDE DEF t
<1>10. Segment(code', t, "case", lo, Len(t))
  <2>1. Len(t) > lo /\ t[lo + 1] = 0
    <3>1. lo + 1 \in 1..Len(u)
      BY <1>6, <1>8
    <3>2. QED
      BY <1>6, <1>8, <1>9, <3>1
  <2>2. ASSUME NEW j \in lo + 2..Len(t) PROVE HoleAt(code', t[j])
    <3>1. CASE j = Len(t)
      BY <1>7, <1>9, <3>1
    <3>2. CASE j \in lo + 2..Len(u)
      <4>1. HoleAt(code, t[j])
        BY <1>6, <1>8, <1>9, <3>2
      <4>2. QED
        BY <1>2, <1>7, <4>1, AddressesStay DEF Makes
    <3>3. j = Len(t) \/ j \in lo + 2..Len(u)
      <4>1. j \in Int /\ j >= lo + 2 /\ j <= Len(u) + 1 /\ lo + 2 \in Int
        BY <1>8, <1>9
      <4>2. CASE j <= Len(u)
        BY <1>8, <4>1, <4>2
      <4>3. CASE j = Len(u) + 1
        BY <1>9, <4>3
      <4>4. j <= Len(u) \/ j = Len(u) + 1
        BY <1>8, <4>1
      <4>5. QED
        BY <4>2, <4>3, <4>4
    <3>4. QED
      BY <3>1, <3>2, <3>3
  <2>3. QED
    BY <2>1, <2>2 DEF Segment
<1>11. SubSeq(u, 1, lo) = SubSeq(stack, 1, lo)
  <2>1. /\ SubSeq(u, 1, lo) \in Seq(Nat) /\ Len(SubSeq(u, 1, lo)) = lo
        /\ \A i \in 1..lo : SubSeq(u, 1, lo)[i] = u[i]
    BY <1>5, Beginning
  <2>2. lo \in 1..Len(stack)
    BY <1>5, <1>6, <1>8
  <2>3. /\ SubSeq(stack, 1, lo) \in Seq(Nat) /\ Len(SubSeq(stack, 1, lo)) = lo
        /\ \A i \in 1..lo : SubSeq(stack, 1, lo)[i] = stack[i]
    BY <1>3, <2>2, Beginning
  <2>4. \A i \in 1..lo : u[i] = stack[i]
    BY <1>5, <1>6, <1>8
  <2> DEFINE x == SubSeq(u, 1, lo)
             y == SubSeq(stack, 1, lo)
  <2>5. /\ x \in Seq(Nat) /\ y \in Seq(Nat) /\ Len(x) = Len(y)
        /\ \A i \in 1..Len(x) : x[i] = y[i]
    BY <2>1, <2>3, <2>4
  <2> HIDE DEF x, y
  <2>6. x = y
    BY <2>5, SeqEqual
  <2>7. QED
    BY <2>6 DEF x, y
<1>12. lo \in 1..Len(stack) /\ Len(t) > lo /\ \A j \in 1..lo : t[j] = stack[j]
  <2>1. \A j \in 1..lo : j \in 1..Len(u)
    BY <1>6, <1>8
  <2>2. \A j \in 1..lo : t[j] = stack[j]
    BY <1>5, <1>9, <2>1
  <2>3. lo \in 1..Len(stack) /\ Len(t) > lo
    <3>1. lo \in Nat /\ lo >= 1 /\ lo <= Len(u)
      BY <1>8
    <3>2. Len(u) = Len(stack) - 1 /\ Len(t) = Len(u) + 1
      BY <1>5, <1>9
    <3>3. QED
      BY <1>8, <3>1, <3>2
  <2>4. QED
    BY <2>2, <2>3
<1>13. Len(t) \in 2..Len(t) /\ Len(t) = Len(stack)
  BY <1>5, <1>6, <1>8, <1>9
<1>14. \A b \in H : b \in Holes(code) \/ \E i \in 2..Len(t) : t[i] = b
  BY <1>9, <1>13
<1>15. ASSUME NEW j \in lo + 1..Len(stack), stack[j] \in H PROVE \E i \in 2..Len(t) : t[i] = stack[j]
  <2>1. CASE j = Len(stack)
    <3>1. stack[j] = Len(c)
      BY <1>3, <1>15, <2>1
    <3>2. QED
      BY <1>9, <1>13, <3>1
  <2>2. CASE j \in lo + 1..Len(stack) - 1
    <3>1. j \in 2..Len(t) /\ t[j] = stack[j]
      BY <1>5, <1>8, <1>9, <1>13, <2>2
    <3>2. QED
      BY <3>1
  <2>3. QED
    BY <1>8, <2>1, <2>2
<1> HIDE DEF H
<1>16. Balanced(code', t, Append(Front(m), "case"))
  <2>1. "case" \in Kinds /\ "case" # "of"
    BY DEF Kinds
  <2>2. Base(code, SubSeq(stack, 1, lo), Front(m)) /\ Makes(code, code', H) /\ t \in Seq(Nat)
    BY <1>6, <1>7, <1>9, <1>11
  <2>3. QED
    BY <1>10, <1>12, <1>14, <1>15, <2>1, <2>2, TurnedTo, SMTT(30)
<1>17. Balanced(code', stack', nest')
  <2>1. Balanced(code', t, m)
    BY <1>4, <1>16
  <2>2. QED
    BY <1>1, <2>1
<1>18. Len(code') >= Len(code)
  BY <1>2, <1>7
<1>19. QED
  BY <1>17, <1>18

\* ENDCASE patches all the holes at once.
PatchedAll(c, holes) == [a \in 1..Len(c) |-> IF a \in holes THEN Patched(c, a)[a] ELSE c[a]]

LEMMA PatchedHoles ==
  ASSUME NEW c \in Seq(CodeCell), Targets(c), NEW holes, \A a \in holes : HoleAt(c, a)
  PROVE  /\ Makes(c, PatchedAll(c, holes), Holes(c) \ holes)
         /\ Len(PatchedAll(c, holes)) = Len(c)
<1> DEFINE d == PatchedAll(c, holes)
<1>1. Len(c) \in Nat /\ \A a \in 1..Len(c) : c[a] \in CodeCell
  OBVIOUS
<1>2. ASSUME NEW a \in holes
      PROVE  /\ a \in 1..Len(c) /\ c[a].op = "offset"
             /\ Patched(c, a)[a] \in CodeCell /\ Patched(c, a)[a].op = "offset"
             /\ Patched(c, a)[a].off = Len(c) + 1 - a
  <2>1. a \in 1..Len(c) /\ c[a].op = "offset" /\ c[a] \in CodeCell
    BY DEF HoleAt
  <2> DEFINE o == Len(c) + 1 - a
             e == [c[a] EXCEPT !.off = o]
  <2>2. e \in CodeCell /\ e.op = "offset" /\ e.off = Len(c) + 1 - a
    <3>1. o \in Int
      BY <1>1, <2>1
    <3> HIDE DEF o
    <3>2. e \in CodeCell /\ e.op = "offset" /\ e.off = o
      BY <2>1, <3>1, OffsetFilled
    <3>3. QED
      BY <3>2 DEF o
  <2>3. Patched(c, a) = [c EXCEPT ![a] = e]
    BY DEF Patched
  <2> HIDE DEF e
  <2>4. Patched(c, a)[a] = e
    BY <2>1, <2>2, <2>3, ExceptSeq
  <2>5. QED
    BY <2>1, <2>2, <2>4
<1>3. ASSUME NEW a \in 1..Len(c)
      PROVE  /\ d[a] \in CodeCell /\ d[a].op = c[a].op
             /\ a \in holes => d[a].off = Len(c) + 1 - a
             /\ a \notin holes => d[a] = c[a]
  <2>1. d[a] = IF a \in holes THEN Patched(c, a)[a] ELSE c[a]
    BY DEF PatchedAll
  <2>2. CASE a \in holes
    BY <1>2, <2>1, <2>2
  <2>3. CASE a \notin holes
    BY <1>1, <2>1, <2>3
  <2>4. QED
    BY <2>2, <2>3
<1>4. d \in Seq(CodeCell) /\ Len(d) = Len(c)
  <2>1. d \in [1..Len(c) -> CodeCell]
    <3>1. \A a \in 1..Len(c) : (IF a \in holes THEN Patched(c, a)[a] ELSE c[a]) \in CodeCell
      BY <1>1, <1>2
    <3>2. QED
      BY <3>1 DEF PatchedAll
  <2>2. d \in Seq(CodeCell)
    BY <1>1, <2>1
  <2>3. DOMAIN d = 1..Len(c) /\ DOMAIN d = 1..Len(d) /\ Len(d) \in Nat
    BY <2>1, <2>2, LenProperties
  <2>4. QED
    BY <1>1, <2>2, <2>3
<1> HIDE DEF d
<1>5. Holes(d) \subseteq Holes(c) \ holes
  <2> SUFFICES ASSUME NEW a \in Holes(d) PROVE a \in Holes(c) \ holes
    OBVIOUS
  <2>1. a \in 1..Len(c) /\ d[a] = Hole /\ d[a].off = 0
    BY <1>3, <1>4, HoleIs DEF Holes
  <2>2. a \notin holes
    BY <1>1, <1>3, <2>1
  <2>3. QED
    BY <1>3, <2>1, <2>2 DEF Holes
<1>6. Grows(c, d)
  BY <1>1, <1>3, <1>4, <1>5 DEF Grows
<1>7. Targets(d)
  <2> SUFFICES ASSUME NEW a \in 1..Len(c) PROVE a + d[a].off \in 1..Len(c) + 1
    BY <1>4 DEF Targets
  <2>1. CASE a \in holes
    <3>1. a \in Int /\ d[a].off = Len(c) + 1 - a
      BY <1>3, <2>1
    <3>2. a + (Len(c) + 1 - a) = Len(c) + 1
      BY <1>1, <3>1
    <3>3. QED
      BY <1>1, <3>1, <3>2
  <2>2. CASE a \notin holes
    BY <1>3, <2>2 DEF Targets
  <2>3. QED
    BY <2>1, <2>2
<1>8. QED
  BY <1>4, <1>5, <1>6, <1>7 DEF Makes, d

LEMMA EndCaseStep ==
  ASSUME Balanced(code, stack, nest), EndCase
  PROVE  Balanced(code', stack', nest') /\ Len(code') >= Len(code)
<1> DEFINE c == Append(code, Cell("drop"))
           holes == {stack[i] : i \in Mark + 1..Len(stack)}
<1>1. /\ code' = PatchedAll(c, holes) /\ stack' = SubSeq(stack, 1, Mark - 1)
      /\ nest' = Front(nest) /\ nest # << >> /\ Last(nest) = "case"
  BY DEF EndCase, Within, Ends, PatchedAll
<1>2. /\ code \in Seq(CodeCell) /\ Targets(code) /\ Base(code, stack, nest) /\ Len(code) \in Nat
  BY DEF Balanced, Base
<1>3. PICK lo \in 1..Len(stack) :
        /\ lo < Len(stack) /\ Base(code, SubSeq(stack, 1, lo), Front(nest))
        /\ stack[lo + 1] = 0 /\ \A j \in lo + 2..Len(stack) : HoleAt(code, stack[j])
  BY <1>1, <1>2, InnerCase
<1>4. stack \in Seq(Nat) /\ Len(stack) \in Nat
  BY <1>2 DEF Base
<1>5. Mark = lo + 1
  <2>1. lo + 1 \in 1..Len(stack) /\ stack[lo + 1] = 0
    BY <1>3, <1>4
  <2>2. \A j \in lo + 2..Len(stack) : stack[j] # 0
    BY <1>3 DEF HoleAt
  <2>3. \A i \in 1..Len(stack) :
          (stack[i] = 0 /\ \A j \in i + 1..Len(stack) : stack[j] # 0) => i = lo + 1
    <3> SUFFICES ASSUME NEW i \in 1..Len(stack), stack[i] = 0,
                        \A j \in i + 1..Len(stack) : stack[j] # 0
                 PROVE  i = lo + 1
      OBVIOUS
    <3>1. ~ (i \in lo + 2..Len(stack))
      BY <2>2
    <3>2. ~ (lo + 1 \in i + 1..Len(stack))
      BY <2>1
    <3>3. QED
      BY <1>4, <2>1, <3>1, <3>2
  <2>4. \A j \in lo + 1 + 1..Len(stack) : stack[j] # 0
    BY <2>2
  <2>5. \E i \in 1..Len(stack) : stack[i] = 0 /\ \A j \in i + 1..Len(stack) : stack[j] # 0
    BY <2>1, <2>4
  <2>6. QED
    BY <2>3, <2>5 DEF Mark
<1>6. "drop" \in Ops /\ "drop" # "offset"
  BY DEF Ops
<1>7. Makes(code, c, Holes(code)) /\ Len(c) = Len(code) + 1
  BY <1>2, <1>6, LaidOp
<1> HIDE DEF c
<1>8. c \in Seq(CodeCell) /\ Targets(c) /\ Holes(c) \subseteq Holes(code)
  BY <1>7 DEF Makes
<1>9. ASSUME NEW a \in holes PROVE HoleAt(c, a)
  <2>1. PICK i \in Mark + 1..Len(stack) : a = stack[i]
    OBVIOUS
  <2>2. i \in lo + 2..Len(stack)
    BY <1>3, <1>4, <1>5, <2>1
  <2>3. HoleAt(code, a)
    BY <1>3, <2>1, <2>2
  <2>4. QED
    BY <1>2, <1>7, <2>3, AddressesStay DEF Makes
<1> DEFINE H == Holes(c) \ holes
<1>10. \A j \in lo + 1..Len(stack) : stack[j] \notin H
  <2> SUFFICES ASSUME NEW j \in lo + 1..Len(stack) PROVE stack[j] \notin H
    OBVIOUS
  <2>1. CASE j = lo + 1
    <3>1. 0 \notin Holes(c)
      BY DEF Holes
    <3>2. QED
      BY <1>3, <2>1, <3>1
  <2>2. CASE j \in lo + 2..Len(stack)
    <3>1. j \in Mark + 1..Len(stack)
      BY <1>4, <1>5, <2>2
    <3>2. stack[j] \in holes
      BY <3>1
    <3>3. QED
      BY <3>2
  <2>3. j = lo + 1 \/ j \in lo + 2..Len(stack)
    BY <1>4
  <2>4. QED
    BY <2>1, <2>2, <2>3
<1> HIDE DEF holes
<1>11. Makes(c, code', H) /\ Len(code') = Len(c)
  <2>1. Makes(c, PatchedAll(c, holes), H) /\ Len(PatchedAll(c, holes)) = Len(c)
    BY <1>8, <1>9, PatchedHoles
  <2>2. QED
    BY <1>1, <2>1
<1>12. Makes(code, code', H) /\ H \subseteq Holes(code)
  BY <1>2, <1>7, <1>8, <1>11, MakesOn
<1>13. stack' = SubSeq(stack, 1, lo)
  BY <1>1, <1>5
<1> HIDE DEF H
<1>14. Balanced(code', SubSeq(stack, 1, lo), Front(nest))
  BY <1>3, <1>10, <1>12, ClosedTo
<1>15. Balanced(code', stack', nest')
  BY <1>1, <1>13, <1>14
<1>16. Len(code') >= Len(code)
  BY <1>2, <1>7, <1>11
<1>17. QED
  BY <1>15, <1>16

----------------------------------------------------------------------------
(* The definition.                                                         *)

\* Nothing is compiled, and nothing is open.
LEMMA Fresh == Balanced(<< >>, << Below >>, << >>)
<1>1. /\ << >> \in Seq(CodeCell) /\ Len(<< >>) = 0
      /\ << Below >> \in Seq(Nat) /\ Len(<< Below >>) = 1 /\ << Below >>[1] = Below
      /\ << >> \in Seq(Kinds)
  BY BoundAssumption
<1>2. StartAt(<< >>, 1) /\ Targets(<< >>) /\ Known(<< >>, << Below >>)
  BY <1>1 DEF StartAt, Holes, Targets, Known
<1>3. Shaped(<< >>, << Below >>, << >>)
  <2> DEFINE h == [i \in 0..0 |-> 1]
  <2>1. h \in [0..0 -> Nat] /\ h[0] = 1
    OBVIOUS
  <2> HIDE DEF h
  <2>2. \A i \in 1..0 : FALSE
    OBVIOUS
  <2>3. \A i, j \in 0..0 : ~ (i < j)
    OBVIOUS
  <2>4. Heights(<< >>, << Below >>, << >>, h)
    BY <1>1, <2>1, <2>2, <2>3 DEF Heights
  <2>5. QED
    BY <1>1, <2>1, <2>4 DEF Shaped
<1>4. Nested(<< >>)
  BY <1>1 DEF Nested
<1>5. QED
  BY <1>1, <1>2, <1>3, <1>4 DEF Balanced, Base

\* When nothing is open, the stack is as the program left it.
LEMMA AllClosed ==
  ASSUME NEW c, NEW s, Base(c, s, << >>)
  PROVE  s = << Below >>
<1>1. s \in Seq(Nat) /\ s[1] = Below /\ Len(<< >>) = 0
  BY DEF Base
<1>2. PICK h \in [0..0 -> Nat] : Heights(c, s, << >>, h)
  BY <1>1 DEF Base, Shaped
<1>3. Len(s) = 1
  BY <1>1, <1>2 DEF Heights
<1>4. << Below >> \in Seq(Nat) /\ Len(<< Below >>) = 1 /\ << Below >>[1] = Below
  BY BoundAssumption
<1>5. \A i \in 1..Len(s) : s[i] = << Below >>[i]
  BY <1>1, <1>3, <1>4
<1>6. QED
  BY <1>1, <1>3, <1>4, <1>5, SeqEqual

LEMMA WordLogged ==
  ASSUME Logged, code \in Seq(CodeCell), code' \in Seq(CodeCell), Len(code') >= Len(code),
         NEW word \in TextWords, Compile(word)
  PROVE  Logged'
<1>1. /\ at' = Append(at, Len(code) + 1) /\ text' = Append(text, word)
      /\ at \in Seq(Nat) /\ text \in Seq(TextWords) /\ Len(at) = Len(text)
      /\ \A k \in 1..Len(at) : at[k] \in 1..Len(code) + 1
      /\ Len(code) \in Nat /\ Len(code') \in Nat /\ Len(at) \in Nat
  BY DEF Logged, Compile, Here
<1>2. /\ at' \in Seq(Nat) /\ Len(at') = Len(at) + 1 /\ at'[Len(at) + 1] = Len(code) + 1
      /\ \A k \in 1..Len(at) : at'[k] = at[k]
  BY <1>1
<1>3. text' \in Seq(TextWords) /\ Len(text') = Len(text) + 1
  BY <1>1
<1>4. ASSUME NEW k \in 1..Len(at') PROVE at'[k] \in 1..Len(code') + 1
  <2>1. CASE k = Len(at) + 1
    BY <1>1, <1>2, <2>1
  <2>2. CASE k \in 1..Len(at)
    <3>1. at'[k] \in 1..Len(code) + 1
      BY <1>1, <1>2, <2>2
    <3>2. Len(code) + 1 <= Len(code') + 1 /\ Len(code) + 1 \in Nat /\ Len(code') + 1 \in Nat
      BY <1>1
    <3>3. QED
      BY <3>1, <3>2
  <2>3. QED
    BY <1>1, <1>2, <2>1, <2>2
<1>5. QED
  BY <1>1, <1>2, <1>3, <1>4 DEF Logged, Here

LEMMA Starts == Init => IInv
<1> SUFFICES ASSUME Init PROVE IInv
  OBVIOUS
<1>1. code = << >> /\ stack = << Below >> /\ nest = << >> /\ text = << >> /\ at = << >>
  BY DEF Init, Empty
<1>2. Balanced(code, stack, nest)
  BY <1>1, Fresh
<1>3. Logged
  BY <1>1 DEF Logged
<1>4. QED
  BY <1>2, <1>3 DEF IInv

Compiling ==
  \/ Plain \/ If \/ Unless \/ Ahead \/ Else \/ Then
  \/ Begin \/ Until \/ Again \/ While \/ Repeat
  \/ Do \/ QDo \/ PlusLoop \/ Loop
  \/ Case \/ Of \/ EndOf \/ EndCase

LEMMA CompilingStep ==
  ASSUME IInv, Compiling
  PROVE  IInv'
<1>1. Balanced(code, stack, nest) /\ Logged
  BY DEF IInv
<1>2. Balanced(code', stack', nest') /\ Len(code') >= Len(code)
  <2>1. CASE Plain
    BY <1>1, <2>1, PlainStep
  <2>2. CASE If \/ Unless \/ Ahead
    BY <1>1, <2>2, IfStep
  <2>3. CASE Else
    BY <1>1, <2>3, ElseStep
  <2>4. CASE Then
    BY <1>1, <2>4, ThenStep
  <2>5. CASE Begin \/ Case
    BY <1>1, <2>5, BeginStep
  <2>6. CASE Until \/ Again
    BY <1>1, <2>6, UntilStep
  <2>7. CASE While
    BY <1>1, <2>7, WhileStep
  <2>8. CASE Repeat
    BY <1>1, <2>8, RepeatStep
  <2>9. CASE Do
    BY <1>1, <2>9, DoStep
  <2>10. CASE QDo
    BY <1>1, <2>10, QDoStep
  <2>11. CASE Loop \/ PlusLoop
    BY <1>1, <2>11, LoopStep
  <2>12. CASE Of
    BY <1>1, <2>12, OfStep
  <2>13. CASE EndOf
    BY <1>1, <2>13, EndOfStep
  <2>14. CASE EndCase
    BY <1>1, <2>14, EndCaseStep
  <2>15. QED
    BY <2>1, <2>2, <2>3, <2>4, <2>5, <2>6, <2>7, <2>8, <2>9, <2>10, <2>11, <2>12, <2>13, <2>14
       DEF Compiling
<1>3. \E word \in TextWords : Compile(word)
  BY DEF Compiling, Plain, If, Unless, Ahead, Else, Then, Begin, Until, Again, While, Repeat,
         Do, QDo, PlusLoop, Loop, Case, Of, EndOf, EndCase, TextWords, Openers, Closers
<1>4. Logged'
  BY <1>1, <1>2, <1>3, WordLogged DEF Balanced, Base
<1>5. QED
  BY <1>2, <1>4 DEF IInv

LEMMA Step == IInv /\ [Next]_vars => IInv'
<1> SUFFICES ASSUME IInv, [Next]_vars PROVE IInv'
  OBVIOUS
<1>1. CASE Compiling
  BY <1>1, CompilingStep
<1>2. CASE Semicolon
  <2>1. /\ nest = << >> /\ nest' = nest /\ stack' = stack /\ code' = << >>
        /\ text' = << >> /\ at' = << >>
    BY <1>2 DEF Semicolon
  <2>2. stack = << Below >>
    BY <2>1, AllClosed DEF IInv, Balanced
  <2>3. Balanced(code', stack', nest')
    BY <2>1, <2>2, Fresh
  <2>4. Logged'
    BY <2>1 DEF Logged
  <2>5. QED
    BY <2>3, <2>4 DEF IInv
<1>3. CASE ParseError
  <2>1. /\ nest' = << >> /\ stack' = << Below >> /\ code' = << >>
        /\ text' = << >> /\ at' = << >>
    BY <1>3 DEF ParseError
  <2>2. Balanced(code', stack', nest')
    BY <2>1, Fresh
  <2>3. Logged'
    BY <2>1 DEF Logged
  <2>4. QED
    BY <2>2, <2>3 DEF IInv
<1>4. CASE UNCHANGED vars
  BY <1>4 DEF vars, IInv, Logged, Here
<1>5. QED
  BY <1>1, <1>2, <1>3, <1>4 DEF Next, Compiling

LEMMA Enough == IInv => TypeOK /\ HolesKnown
<1> SUFFICES ASSUME IInv PROVE TypeOK /\ HolesKnown
  OBVIOUS
<1>1. /\ code \in Seq(CodeCell) /\ stack \in Seq(Nat) /\ Len(stack) >= 1
      /\ Targets(code) /\ Known(code, stack) /\ Base(code, stack, nest) /\ Logged
  BY DEF IInv, Balanced, Base
<1>2. TypeOK
  BY <1>1 DEF TypeOK, Logged, Targets, Here
<1>3. HolesKnown
  <2>1. nest = << >> => stack = << Below >>
    BY <1>1, AllClosed
  <2>2. \A a \in 1..Len(code) : code[a] = Hole => \E i \in 2..Len(stack) : stack[i] = a
    BY <1>1 DEF Known, Holes
  <2>3. QED
    BY <2>1, <2>2 DEF HolesKnown
<1>4. QED
  BY <1>2, <1>3

\* Branches lead into the definition, and its words stand in its code, however
\* long it is (boot0.f:267-516, 1611-1635).
THEOREM Typed == Spec => []TypeOK
<1>1. Spec => []IInv
  BY Starts, Step, PTL DEF Spec
<1>2. QED
  BY <1>1, Enough, PTL

\* However structures are nested, no word fills in or loses an offset that is
\* another's, and they leave the program's stack as it was (boot0.f:267-516, 1611-1635).
THEOREM Holding == Spec => []HolesKnown
<1>1. Spec => []IInv
  BY Starts, Step, PTL DEF Spec
<1>2. QED
  BY <1>1, Enough, PTL

----------------------------------------------------------------------------
(* Where the code of a word goes: the cells each word lays down.           *)

Aheads == {"if", "unless", "else", "ahead", "while", "of", "endof", "?do"}
Backs == {"until", "again", "repeat", "loop", "+loop"}
Jumping == Aheads \cup Backs
Layout(w) ==
  CASE w = "word" -> << "word" >>
    [] w \in {"if", "while", "until"} -> << "0branch", "offset" >>
    [] w = "unless" -> << "not", "0branch", "offset" >>
    [] w \in {"ahead", "else", "endof", "again", "repeat"} -> << "branch", "offset" >>
    [] w = "do" -> << "(>loop-sys)" >>
    [] w = "?do" -> << "2dup", "(>loop-sys)", "=", "not", "0branch", "offset" >>
    [] w = "+loop" -> << "dup", "(loop-sys-peek)", "(loop-done?)", "swap", "(loop-inc)",
                         "0branch", "offset", "unloop" >>
    [] w = "loop" -> << "lit", "1", "dup", "(loop-sys-peek)", "(loop-done?)", "swap", "(loop-inc)",
                        "0branch", "offset", "unloop" >>
    [] w = "of" -> << "over", "=", "0branch", "offset", "drop" >>
    [] w = "endcase" -> << "drop" >>
    [] OTHER -> << >>
Slot(w) ==
  CASE w = "unless" -> 3 [] w = "?do" -> 6 [] w = "+loop" -> 7 [] w = "loop" -> 9 [] w = "of" -> 4
    [] OTHER -> 2
OffsetOf(k) == at[k] + Slot(text[k]) - 1

\* What a word's cells tell BRANCH and 0BRANCH.
Cond(w) == w \in {"if", "unless", "while", "of", "until", "loop", "+loop", "?do"}

LEMMA Table ==
  ASSUME NEW w \in TextWords
  PROVE  /\ Len(Layout(w)) \in 0..10
         /\ \A j \in 1..Len(Layout(w)) : Layout(w)[j] \in {"branch", "0branch"} => w \in Jumping /\ j = Slot(w) - 1
         /\ (\E j \in 1..Len(Layout(w)) : Layout(w)[j] = "not") <=> w \in {"unless", "?do"}
         /\ w \in Jumping => /\ Slot(w) \in 2..Len(Layout(w))
                             /\ Layout(w)[Slot(w) - 1] = IF Cond(w) THEN "0branch" ELSE "branch"
<1>1. CASE w = "word"
  BY <1>1 DEF Layout, Jumping, Aheads, Backs
<1>2. CASE w \in {"if", "while", "until"}
  <2>1. Layout(w) = << "0branch", "offset" >> /\ Slot(w) = 2 /\ w \in Jumping /\ Cond(w)
        /\ w \notin {"unless", "?do"}
    BY <1>2 DEF Layout, Jumping, Aheads, Backs, Slot, Cond
  <2>2. QED
    BY <2>1
<1>3. CASE w = "unless"
  BY <1>3 DEF Layout, Jumping, Aheads, Backs, Slot, Cond
<1>4. CASE w \in {"ahead", "else", "endof", "again", "repeat"}
  BY <1>4 DEF Layout, Jumping, Aheads, Backs, Slot, Cond
<1>5. CASE w = "do"
  BY <1>5 DEF Layout, Jumping, Aheads, Backs
<1>6. CASE w = "?do"
  BY <1>6 DEF Layout, Jumping, Aheads, Backs, Slot, Cond
<1>7. CASE w = "+loop"
  BY <1>7 DEF Layout, Jumping, Aheads, Backs, Slot, Cond
<1>8. CASE w = "loop"
  BY <1>8 DEF Layout, Jumping, Aheads, Backs, Slot, Cond
<1>9. CASE w = "of"
  BY <1>9 DEF Layout, Jumping, Aheads, Backs, Slot, Cond
<1>10. CASE w = "endcase"
  BY <1>10 DEF Layout, Jumping, Aheads, Backs
<1>11. CASE w \in {"then", "begin", "case"}
  <2>1. Layout(w) = << >> /\ w \notin Jumping /\ w \notin {"unless", "?do"}
    BY <1>11 DEF Layout, Jumping, Aheads, Backs
  <2>2. QED
    BY <2>1
<1>12. QED
  BY <1>1, <1>2, <1>3, <1>4, <1>5, <1>6, <1>7, <1>8, <1>9, <1>10, <1>11
     DEF TextWords, Openers, Closers

----------------------------------------------------------------------------
(* Laying down cells, and filling in those of P.                           *)

Lays(c, d, P, ops) ==
  /\ c \in Seq(CodeCell) /\ d \in Seq(CodeCell)
  /\ Len(d) = Len(c) + Len(ops)
  /\ \A a \in 1..Len(c) : d[a].op = c[a].op /\ (a \notin P => d[a] = c[a])
  /\ \A j \in 1..Len(ops) : d[Len(c) + j].op = ops[j]

Joined(r, o, p) ==
  /\ Len(r) = Len(o) + Len(p)
  /\ \A j \in 1..Len(o) : r[j] = o[j]
  /\ \A j \in 1..Len(p) : r[Len(o) + j] = p[j]

LEMMA LaysOn ==
  ASSUME NEW c, NEW d, NEW e, NEW P, NEW Q, NEW R, NEW o, NEW p, NEW r,
         Lays(c, d, P, o), Lays(d, e, Q, p), Joined(r, o, p), Len(o) \in Nat, Len(p) \in Nat,
         P \subseteq R, Q \subseteq R
  PROVE  Lays(c, e, R, r)
<1>1. /\ Len(c) \in Nat /\ Len(d) = Len(c) + Len(o) /\ Len(e) = Len(d) + Len(p)
      /\ c \in Seq(CodeCell) /\ e \in Seq(CodeCell)
  BY DEF Lays
<1>2. ASSUME NEW a \in 1..Len(c)
      PROVE  e[a].op = c[a].op /\ (a \notin R => e[a] = c[a])
  <2>1. a \in 1..Len(d)
    BY <1>1
  <2>2. QED
    BY <2>1 DEF Lays
<1>3. ASSUME NEW j \in 1..Len(r)
      PROVE  e[Len(c) + j].op = r[j]
  <2>0. Len(r) = Len(o) + Len(p)
    BY DEF Joined
  <2>1. CASE j \in 1..Len(o)
    <3>1. Len(c) + j \in 1..Len(d)
      BY <1>1, <2>1
    <3>2. e[Len(c) + j].op = d[Len(c) + j].op /\ d[Len(c) + j].op = o[j]
      BY <2>1, <3>1 DEF Lays
    <3>3. QED
      BY <2>1, <3>2 DEF Joined
  <2>2. CASE j \notin 1..Len(o)
    <3> DEFINE l == j - Len(o)
    <3>1. l \in 1..Len(p) /\ Len(d) + l = Len(c) + j /\ Len(o) + l = j
      BY <1>1, <2>0, <2>2
    <3> HIDE DEF l
    <3>2. e[Len(d) + l].op = p[l] /\ r[Len(o) + l] = p[l]
      BY <3>1 DEF Lays, Joined
    <3>3. QED
      BY <3>1, <3>2
  <2>3. QED
    BY <2>1, <2>2
<1>4. Len(e) = Len(c) + Len(r)
  BY <1>1 DEF Joined
<1>5. QED
  BY <1>1, <1>2, <1>3, <1>4 DEF Lays

LEMMA LaysCell ==
  ASSUME NEW c \in Seq(CodeCell), NEW x \in CodeCell
  PROVE  Lays(c, Append(c, x), {}, << x.op >>)
<1> DEFINE d == Append(c, x)
<1>1. d \in Seq(CodeCell) /\ Len(d) = Len(c) + 1 /\ d[Len(c) + 1] = x /\ Len(c) \in Nat
      /\ \A a \in 1..Len(c) : d[a] = c[a]
  OBVIOUS
<1>2. Len(<< x.op >>) = 1 /\ << x.op >>[1] = x.op
  OBVIOUS
<1> HIDE DEF d
<1>3. \A j \in 1..1 : d[Len(c) + j].op = << x.op >>[j]
  BY <1>1, <1>2
<1>4. QED
  BY <1>1, <1>2, <1>3 DEF Lays, d

LEMMA LaysWords ==
  ASSUME NEW c \in Seq(CodeCell), NEW ops \in Seq(Ops)
  PROVE  Lays(c, c \o Words(ops), {}, ops)
<1> DEFINE v == Words(ops)
           d == c \o v
<1>1. v \in Seq(CodeCell) /\ Len(v) = Len(ops) /\ \A j \in 1..Len(ops) : v[j].op = ops[j]
  <2>1. Len(ops) \in Nat /\ \A j \in 1..Len(ops) : ops[j] \in Ops
    OBVIOUS
  <2>2. \A j \in 1..Len(ops) : Cell(ops[j]) \in CodeCell /\ Cell(ops[j]).op = ops[j]
    BY <2>1, CellIs
  <2>3. QED
    BY <2>1, <2>2, IsASeq DEF Words
<1> HIDE DEF v
<1>2. /\ d \in Seq(CodeCell) /\ Len(d) = Len(c) + Len(v)
      /\ \A a \in 1..Len(c) + Len(v) : d[a] = IF a <= Len(c) THEN c[a] ELSE v[a - Len(c)]
  BY <1>1, ConcatProperties
<1>3. Len(c) \in Nat /\ Len(ops) \in Nat
  OBVIOUS
<1> HIDE DEF d
<1>4. \A a \in 1..Len(c) : d[a] = c[a]
  BY <1>1, <1>2, <1>3
<1>5. ASSUME NEW j \in 1..Len(ops)
      PROVE  d[Len(c) + j].op = ops[j]
  <2>1. Len(c) + j \in 1..Len(c) + Len(v) /\ ~ (Len(c) + j <= Len(c)) /\ (Len(c) + j) - Len(c) = j
    BY <1>1, <1>3
  <2>2. d[Len(c) + j] = v[j]
    BY <1>2, <2>1
  <2>3. QED
    BY <1>1, <2>2
<1>6. QED
  BY <1>1, <1>2, <1>4, <1>5 DEF Lays, d, v

LEMMA LaysPatch ==
  ASSUME NEW c \in Seq(CodeCell), NEW a \in 1..Len(c)
  PROVE  /\ Lays(c, Patched(c, a), {a}, << >>)
         /\ a + Patched(c, a)[a].off = Len(c) + 1
<1> DEFINE d == Patched(c, a)
           o == Len(c) + 1 - a
<1>1. o \in Int /\ c[a] \in CodeCell /\ Len(c) \in Nat /\ a \in Int
  OBVIOUS
<1>2. d = [c EXCEPT ![a] = [c[a] EXCEPT !.off = o]]
  BY DEF Patched
<1>3. [c[a] EXCEPT !.off = o] \in CodeCell /\ [c[a] EXCEPT !.off = o].op = c[a].op
      /\ [c[a] EXCEPT !.off = o].off = o
  <2> HIDE DEF o
  <2>1. QED
    BY <1>1, OffsetFilled
<1> DEFINE x == [c[a] EXCEPT !.off = o]
<1> HIDE DEF x
<1>4. x \in CodeCell /\ x.op = c[a].op /\ x.off = o /\ d = [c EXCEPT ![a] = x]
  BY <1>2, <1>3 DEF x
<1>5. d \in Seq(CodeCell) /\ Len(d) = Len(c) /\ d[a] = x /\ \A b \in 1..Len(c) : b # a => d[b] = c[b]
  BY <1>4, ExceptSeq
<1>6. a + o = Len(c) + 1
  BY <1>1
<1> HIDE DEF d, o
<1>7. \A b \in 1..Len(c) : d[b].op = c[b].op /\ (b \notin {a} => d[b] = c[b])
  BY <1>4, <1>5
<1>8. Lays(c, d, {a}, << >>)
  BY <1>1, <1>5, <1>7 DEF Lays
<1>9. QED
  BY <1>4, <1>5, <1>6, <1>8 DEF d

----------------------------------------------------------------------------
(* Depths, as words are appended.                                          *)

LEMMA CountType ==
  ASSUME NEW k \in Nat, NEW W
  PROVE  Count(k, W) \in Nat /\ IsFiniteSet({i \in 1..k : text[i] \in W})
<1>1. IsFiniteSet(1..k)
  BY FS_Interval
<1>2. IsFiniteSet({i \in 1..k : text[i] \in W})
  BY <1>1, FS_Subset
<1>3. QED
  BY <1>2, FS_CardinalityType DEF Count

\* The words so far are counted as before, the new one is counted in.
Extends(w) ==
  /\ text \in Seq(TextWords) /\ w \in TextWords /\ text' = Append(text, w)
  /\ at \in Seq(Nat) /\ at' = Append(at, Here) /\ Len(at) = Len(text)
  /\ code \in Seq(CodeCell)

LEMMA Extended ==
  ASSUME NEW w, Extends(w)
  PROVE  /\ Len(text) \in Nat /\ Len(text') = Len(text) + 1 /\ text'[Len(text) + 1] = w
         /\ text' \in Seq(TextWords) /\ at' \in Seq(Nat) /\ Len(at') = Len(text')
         /\ \A k \in 1..Len(text) : text'[k] = text[k] /\ at'[k] = at[k] /\ text[k] \in TextWords
         /\ at'[Len(text) + 1] = Here /\ Here \in Nat
BY DEF Extends, Here

LEMMA CountSame ==
  ASSUME NEW w, Extends(w), NEW k \in 0..Len(text), NEW W
  PROVE  Count(k, W)' = Count(k, W)
<1>1. \A i \in 1..k : text'[i] = text[i]
  BY Extended
<1>2. {i \in 1..k : text'[i] \in W} = {i \in 1..k : text[i] \in W}
  BY <1>1
<1>3. QED
  BY <1>2 DEF Count

LEMMA CountNext ==
  ASSUME NEW w, Extends(w), NEW W, NEW n, n = Len(text)
  PROVE  Count(n + 1, W)' = Count(n, W) + (IF w \in W THEN 1 ELSE 0)
<1> DEFINE S == {i \in 1..n : text[i] \in W}
           T == {i \in 1..n + 1 : text'[i] \in W}
<1>1. n \in Nat /\ text'[n + 1] = w /\ \A i \in 1..n : text'[i] = text[i]
  BY Extended
<1>2. IsFiniteSet(S) /\ n + 1 \notin S /\ Cardinality(S) \in Nat
  <2>1. n + 1 \notin S
    BY <1>1
  <2>2. QED
    BY <1>1, <2>1, CountType DEF Count
<1>3. T = IF w \in W THEN S \cup {n + 1} ELSE S
  <2>1. \A i \in 1..n + 1 : i \in 1..n \/ i = n + 1
    BY <1>1
  <2>2. \A i \in 1..n : i \in 1..n + 1
    BY <1>1
  <2>3. n + 1 \in 1..n + 1 /\ n + 1 \notin 1..n
    BY <1>1
  <2>4. QED
    BY <1>1, <2>1, <2>2, <2>3
<1>4. Cardinality(S \cup {n + 1}) = Cardinality(S) + 1
  <2> HIDE DEF S
  <2>1. QED
    BY <1>2, FS_AddElement
<1>5. Cardinality(T) = Cardinality(S) + (IF w \in W THEN 1 ELSE 0)
  <2> HIDE DEF S, T
  <2>1. QED
    BY <1>2, <1>3, <1>4
<1>6. QED
  BY <1>5 DEF Count

Depth == Len(nest) = Count(Len(text), Openers) - Count(Len(text), Closers)

LEMMA LevelType ==
  ASSUME NEW k \in Nat, k >= 1
  PROVE  Level(k) \in Int
<1>1. k - 1 \in Nat
  OBVIOUS
<1>2. Count(k, Openers) \in Nat /\ Count(k - 1, Closers) \in Nat
  BY <1>1, CountType
<1>3. QED
  BY <1>2 DEF Level

LEMMA LevelSame ==
  ASSUME NEW w, Extends(w), NEW k \in 1..Len(text)
  PROVE  Level(k)' = Level(k) /\ Level(k) \in Int
<1>1. Len(text) \in Nat
  BY Extended
<1>2. k \in 0..Len(text) /\ k - 1 \in 0..Len(text) /\ k \in Nat /\ k >= 1
  BY <1>1
<1>3. Count(k, Openers)' = Count(k, Openers) /\ Count(k - 1, Closers)' = Count(k - 1, Closers)
  BY <1>2, CountSame
<1>4. QED
  BY <1>2, <1>3, LevelType DEF Level

LEMMA LevelNext ==
  ASSUME NEW w, Extends(w), Depth, NEW n, n = Len(text)
  PROVE  Level(n + 1)' = Len(nest) + (IF w \in Openers THEN 1 ELSE 0)
<1>1. n \in Nat
  BY Extended
<1>2. n \in 0..Len(text) /\ (n + 1) - 1 = n
  BY <1>1
<1>3. Count(n + 1, Openers)' = Count(n, Openers) + (IF w \in Openers THEN 1 ELSE 0)
      /\ Count(n, Closers)' = Count(n, Closers)
  BY <1>2, CountNext, CountSame
<1>4. Count(n, Openers) \in Nat /\ Count(n, Closers) \in Nat
  BY <1>1, CountType
<1>5. Level(n + 1)' = Count(n + 1, Openers)' - Count(n, Closers)'
  BY <1>2 DEF Level
<1>6. QED
  BY <1>3, <1>4, <1>5 DEF Depth

LEMMA DepthNext ==
  ASSUME NEW w, Extends(w), Depth, Len(nest) \in Nat, Len(nest') \in Nat,
         Len(nest') = Len(nest) + (IF w \in Openers THEN 1 ELSE IF w \in Closers THEN -1 ELSE 0)
  PROVE  Depth'
<1> SUFFICES ASSUME NEW n, n = Len(text) PROVE Depth'
  OBVIOUS
<1>1. n \in Nat /\ Len(text') = n + 1
  BY Extended
<1>2. Count(n + 1, Openers)' = Count(n, Openers) + (IF w \in Openers THEN 1 ELSE 0)
      /\ Count(n + 1, Closers)' = Count(n, Closers) + (IF w \in Closers THEN 1 ELSE 0)
  BY CountNext
<1>3. Count(n, Openers) \in Nat /\ Count(n, Closers) \in Nat
  BY <1>1, CountType
<1>4. w \in Openers => w \notin Closers
  BY DEF Openers, Closers
<1>5. Len(nest') = Count(n + 1, Openers)' - Count(n + 1, Closers)'
  BY <1>2, <1>3, <1>4 DEF Depth
<1>6. QED
  BY <1>1, <1>5 DEF Depth

----------------------------------------------------------------------------
(* The code of the words, one behind the other.                            *)

Written ==
  \A k \in 1..Len(text) :
    /\ at[k] >= 1 /\ Address(k + 1) = at[k] + Len(Layout(text[k])) /\ Address(k + 1) <= Here
    /\ \A j \in 1..Len(Layout(text[k])) : code[at[k] + j - 1].op = Layout(text[k])[j]
    /\ \A l \in k + 1..Len(text) : Address(k + 1) <= at[l]

LEMMA AddressSame ==
  ASSUME NEW w, Extends(w), NEW k \in 1..Len(text) + 1
  PROVE  Address(k)' = Address(k) /\ Address(k) \in Nat
<1>1. CASE k \in 1..Len(text)
  <2>1. ~ (k > Len(text)) /\ ~ (k > Len(text')) /\ at'[k] = at[k] /\ at[k] \in Nat
    BY <1>1, Extended DEF Extends
  <2>2. QED
    BY <2>1 DEF Address
<1>2. CASE k = Len(text) + 1
  <2>1. k > Len(text) /\ ~ (k > Len(text')) /\ at'[k] = Here /\ Here \in Nat
    BY <1>2, Extended
  <2>2. QED
    BY <2>1 DEF Address
<1>3. QED
  BY <1>1, <1>2, Extended

LEMMA AddressNext ==
  ASSUME NEW w, Extends(w), NEW n, n = Len(text)
  PROVE  Address(n + 2)' = Here' /\ Address(n + 1)' = Here
<1>1. n \in Nat /\ n + 2 > Len(text') /\ n + 1 \in 1..Len(text) + 1 /\ n + 1 > Len(text)
  BY Extended
<1>2. QED
  BY <1>1, AddressSame DEF Address

LEMMA WrittenNext ==
  ASSUME NEW w, Extends(w), Written, NEW P, Lays(code, code', P, Layout(w))
  PROVE  Written'
<1> SUFFICES ASSUME NEW n, n = Len(text) PROVE Written'
  OBVIOUS
<1>1. /\ n \in Nat /\ Len(text') = n + 1 /\ text'[n + 1] = w /\ at'[n + 1] = Here
      /\ \A k \in 1..n : text'[k] = text[k] /\ at'[k] = at[k] /\ text[k] \in TextWords
      /\ w \in TextWords
  BY Extended DEF Extends
<1>2. /\ Len(code) \in Nat /\ Here = Len(code) + 1 /\ Here' = Len(code') + 1
      /\ Len(code') = Len(code) + Len(Layout(w)) /\ Len(Layout(w)) \in Nat
      /\ \A a \in 1..Len(code) : code'[a].op = code[a].op
      /\ \A j \in 1..Len(Layout(w)) : code'[Len(code) + j].op = Layout(w)[j]
  BY <1>1, Table DEF Lays, Here
<1>3. \A k \in 1..n + 1 : Address(k)' = Address(k) /\ Address(k) \in Nat
  BY AddressSame
<1>4. Address(n + 2)' = Here' /\ Address(n + 1)' = Here /\ (n + 1) + 1 = n + 2
  BY <1>1, AddressNext
<1>5. ASSUME NEW k \in 1..n
      PROVE  /\ at'[k] >= 1 /\ Address(k + 1)' = at'[k] + Len(Layout(text'[k])) /\ Address(k + 1)' <= Here'
             /\ \A j \in 1..Len(Layout(text'[k])) : code'[at'[k] + j - 1].op = Layout(text'[k])[j]
             /\ \A l \in k + 1..n + 1 : Address(k + 1)' <= at'[l]
  <2>1. text'[k] = text[k] /\ at'[k] = at[k] /\ Address(k + 1)' = Address(k + 1)
        /\ Address(k + 1) \in Nat
    BY <1>1, <1>3
  <2>2. /\ at[k] >= 1 /\ Address(k + 1) = at[k] + Len(Layout(text[k])) /\ Address(k + 1) <= Here
        /\ \A j \in 1..Len(Layout(text[k])) : code[at[k] + j - 1].op = Layout(text[k])[j]
        /\ \A l \in k + 1..n : Address(k + 1) <= at[l]
    BY DEF Written
  <2>3. Here \in Nat /\ Here' \in Nat /\ Here <= Here' /\ at[k] \in Nat /\ Len(Layout(text[k])) \in Nat
    BY <1>1, <1>2, Table DEF Extends
  <2>4. ASSUME NEW j \in 1..Len(Layout(text[k]))
        PROVE  code'[at[k] + j - 1].op = Layout(text[k])[j]
    <3>1. at[k] + j - 1 \in 1..Len(code)
      BY <1>2, <2>2, <2>3
    <3>2. QED
      BY <1>2, <2>2, <3>1
  <2>5. ASSUME NEW l \in k + 1..n + 1
        PROVE  Address(k + 1) <= at'[l]
    <3>1. CASE l = n + 1
      BY <1>1, <2>2, <3>1
    <3>2. CASE l # n + 1
      <4>1. l \in k + 1..n /\ l \in 1..n
        BY <1>1, <3>2
      <4>2. QED
        BY <1>1, <2>2, <4>1
    <3>3. QED
      BY <3>1, <3>2
  <2>6. QED
    BY <2>1, <2>2, <2>3, <2>4, <2>5
<1>6. /\ at'[n + 1] >= 1 /\ Address(n + 2)' = at'[n + 1] + Len(Layout(text'[n + 1]))
      /\ \A j \in 1..Len(Layout(text'[n + 1])) : code'[at'[n + 1] + j - 1].op = Layout(text'[n + 1])[j]
  <2>1. at'[n + 1] = Len(code) + 1 /\ text'[n + 1] = w
    BY <1>1, <1>2
  <2>2. \A j \in 1..Len(Layout(w)) : (Len(code) + 1) + j - 1 = Len(code) + j
    BY <1>2
  <2>3. QED
    BY <1>2, <1>4, <2>1, <2>2
<1>7. ASSUME NEW k \in 1..n + 1
      PROVE  /\ at'[k] >= 1 /\ Address(k + 1)' = at'[k] + Len(Layout(text'[k])) /\ Address(k + 1)' <= Here'
             /\ \A j \in 1..Len(Layout(text'[k])) : code'[at'[k] + j - 1].op = Layout(text'[k])[j]
             /\ \A l \in k + 1..n + 1 : Address(k + 1)' <= at'[l]
  <2>1. CASE k \in 1..n
    BY <1>5, <2>1
  <2>2. CASE k = n + 1
    <3>1. Here' \in Nat
      BY <1>2
    <3>2. \A l \in (n + 1) + 1..n + 1 : FALSE
      BY <1>1
    <3>3. QED
      BY <1>4, <1>6, <2>2, <3>1, <3>2
  <2>3. QED
    BY <1>1, <2>1, <2>2
<1>8. QED
  BY <1>1, <1>7 DEF Written

LEMMA OffsetType ==
  ASSUME NEW w, Extends(w), Written, NEW k \in 1..Len(text), text[k] \in Jumping
  PROVE  OffsetOf(k) \in 1..Len(code) /\ OffsetOf(k) >= at[k] /\ OffsetOf(k) < Address(k + 1)
         /\ at[k] \in Nat /\ Address(k + 1) \in Nat
<1>1. Slot(text[k]) \in 2..Len(Layout(text[k])) /\ Len(Layout(text[k])) \in Nat
  BY Table, Extended
<1>2. /\ at[k] \in Nat /\ at[k] >= 1 /\ Address(k + 1) = at[k] + Len(Layout(text[k]))
      /\ Address(k + 1) <= Len(code) + 1 /\ Len(code) \in Nat
  BY DEF Written, Here, Extends
<1>3. QED
  BY <1>1, <1>2 DEF OffsetOf

\* No two words have their offset in the same cell.
LEMMA OffsetsApart ==
  ASSUME NEW w, Extends(w), Written, NEW k \in 1..Len(text), text[k] \in Jumping,
         NEW l \in 1..Len(text), text[l] \in Jumping, OffsetOf(k) = OffsetOf(l)
  PROVE  k = l
<1>1. ASSUME NEW i \in 1..Len(text), NEW j \in 1..Len(text), i < j,
             text[i] \in Jumping, text[j] \in Jumping
      PROVE  OffsetOf(i) < OffsetOf(j)
  <2>1. j \in i + 1..Len(text)
    BY <1>1, Extended
  <2>2. Address(i + 1) <= at[j]
    BY <2>1 DEF Written
  <2>3. OffsetOf(i) < Address(i + 1) /\ OffsetOf(i) \in 1..Len(code) /\ Address(i + 1) \in Nat
    BY <1>1, OffsetType
  <2>4. at[j] <= OffsetOf(j) /\ OffsetOf(j) \in 1..Len(code) /\ at[j] \in Nat
    BY <1>1, OffsetType
  <2>5. QED
    BY <2>2, <2>3, <2>4
<1>2. OffsetOf(k) \in 1..Len(code) /\ k \in Nat /\ l \in Nat
  BY OffsetType
<1>3. ~ (k < l) /\ ~ (l < k)
  BY <1>1, <1>2
<1>4. QED
  BY <1>2, <1>3

LEMMA OffsetSame ==
  ASSUME NEW w, Extends(w), NEW k \in 1..Len(text)
  PROVE  OffsetOf(k)' = OffsetOf(k)
BY Extended DEF OffsetOf

LEMMA OffsetNext ==
  ASSUME NEW w, Extends(w), NEW n, n = Len(text), w \in Jumping
  PROVE  OffsetOf(n + 1)' = Len(code) + Slot(w)
<1>1. Slot(w) \in Nat
  BY DEF Slot
<1>2. text'[n + 1] = w /\ at'[n + 1] = Len(code) + 1 /\ Len(code) \in Nat
  BY Extended DEF Here, Extends
<1>3. OffsetOf(n + 1)' = (Len(code) + 1) + Slot(w) - 1
  BY <1>2 DEF OffsetOf
<1>4. QED
  BY <1>1, <1>2, <1>3

----------------------------------------------------------------------------
(* Where a jump of the text ends.                                          *)

Stops(w) ==
  CASE w \in {"if", "unless"} -> {"else", "then"}
    [] w \in {"else", "ahead"} -> {"then"}
    [] w = "while" -> {"repeat"}
    [] w = "of" -> {"endof"}
    [] w = "endof" -> {"endcase"}
    [] w = "?do" -> {"loop", "+loop"}
StopLevel(k) == IF text[k] = "endof" THEN Level(k) - 1 ELSE Level(k)
Stop(k, j) ==
  /\ j \in k + 1..Len(text) /\ text[j] \in Stops(text[k]) /\ Level(j) = StopLevel(k)
  /\ \A i \in k + 1..j - 1 : ~ (text[i] \in Stops(text[k]) /\ Level(i) = StopLevel(k))
Start(k, j) ==
  /\ j \in 1..k - 1 /\ text[j] \in Openers /\ Level(j) = Level(k)
  /\ \A i \in j + 1..k - 1 : ~ (text[i] \in Openers /\ Level(i) = Level(k))

\* Where the code of word k goes when it jumps.
Target(k) == OffsetOf(k) + code[OffsetOf(k)].off
\* behind word j, but for the UNLOOP of a ?DO
Past(k, j) == IF text[k] = "?do" THEN Address(j + 1) - 1 ELSE Address(j + 1)

\* The jump of word k is filled in, and ends where the text says.
Settled(k) ==
  \/ text[k] \in Aheads /\ \E j \in 1..Len(text) : Stop(k, j) /\ Target(k) = Past(k, j)
  \/ text[k] \in Backs /\ \E j \in 1..Len(text) : Start(k, j) /\ Target(k) = Address(j + 1)

LEMMA StopSame ==
  ASSUME NEW w, Extends(w), NEW k \in 1..Len(text), NEW j \in 1..Len(text)
  PROVE  /\ Stop(k, j) => Stop(k, j)'
         /\ Start(k, j) => Start(k, j)'
<1>1. /\ Len(text) \in Nat /\ Len(text') = Len(text) + 1
      /\ \A i \in 1..Len(text) : text'[i] = text[i] /\ Level(i)' = Level(i)
  BY Extended, LevelSame
<1>2. StopLevel(k)' = StopLevel(k)
  BY <1>1 DEF StopLevel
<1>3. \A i \in k + 1..j - 1 : i \in 1..Len(text)
  BY <1>1
<1>4. \A i \in j + 1..k - 1 : i \in 1..Len(text)
  BY <1>1
<1>5. j \in k + 1..Len(text) => j \in k + 1..Len(text')
  BY <1>1
<1>6. Stop(k, j) => Stop(k, j)'
  BY <1>1, <1>2, <1>3, <1>5 DEF Stop
<1>7. Start(k, j) => Start(k, j)'
  BY <1>1, <1>4 DEF Start
<1>8. QED
  BY <1>6, <1>7

\* A jump that is not filled in again stays settled.
LEMMA SettledStays ==
  ASSUME NEW w, Extends(w), Written, NEW P, NEW o, Lays(code, code', P, o),
         NEW k \in 1..Len(text), Settled(k), OffsetOf(k) \notin P
  PROVE  Settled(k)'
<1>1. /\ Len(text) \in Nat /\ Len(text') = Len(text) + 1 /\ text'[k] = text[k]
  BY Extended
<1>2. text[k] \in Jumping
  BY DEF Settled, Jumping
<1>3. OffsetOf(k) \in 1..Len(code) /\ OffsetOf(k)' = OffsetOf(k)
  BY <1>2, OffsetType, OffsetSame
<1>4. code'[OffsetOf(k)] = code[OffsetOf(k)]
  BY <1>3 DEF Lays
<1>5. Target(k)' = Target(k)
  BY <1>1, <1>3, <1>4 DEF Target
<1>6. ASSUME NEW j \in 1..Len(text)
      PROVE  /\ Address(j + 1)' = Address(j + 1) /\ j \in 1..Len(text')
             /\ Past(k, j)' = Past(k, j)
             /\ Stop(k, j) => Stop(k, j)'
             /\ Start(k, j) => Start(k, j)'
  <2>1. j + 1 \in 1..Len(text) + 1 /\ j \in 1..Len(text')
    BY <1>1
  <2>2. Address(j + 1)' = Address(j + 1)
    BY <2>1, AddressSame
  <2>3. Past(k, j)' = Past(k, j)
    BY <1>1, <2>2 DEF Past
  <2>4. QED
    BY <2>1, <2>2, <2>3, StopSame
<1>7. CASE text[k] \in Aheads
  <2>1. PICK j \in 1..Len(text) : Stop(k, j) /\ Target(k) = Past(k, j)
    BY <1>7 DEF Settled, Aheads, Backs
  <2>2. j \in 1..Len(text') /\ Stop(k, j)' /\ Target(k)' = Past(k, j)'
    BY <1>5, <1>6, <2>1
  <2>3. QED
    BY <1>1, <1>7, <2>2 DEF Settled
<1>8. CASE text[k] \in Backs
  <2>1. PICK j \in 1..Len(text) : Start(k, j) /\ Target(k) = Address(j + 1)
    BY <1>8 DEF Settled, Aheads, Backs
  <2>2. j \in 1..Len(text') /\ Start(k, j)' /\ Target(k)' = Address(j + 1)'
    BY <1>5, <1>6, <2>1
  <2>3. QED
    BY <1>1, <1>8, <2>2 DEF Settled
<1>9. QED
  BY <1>2, <1>7, <1>8 DEF Jumping

\* There is one place where a jump may end.
LEMMA OneStop ==
  ASSUME text \in Seq(TextWords), NEW k \in 1..Len(text),
         NEW i \in 1..Len(text), NEW j \in 1..Len(text)
  PROVE  /\ Stop(k, i) /\ Stop(k, j) => i = j
         /\ Start(k, i) /\ Start(k, j) => i = j
<1>1. Len(text) \in Nat
  OBVIOUS
<1>2. ASSUME Stop(k, i), Stop(k, j) PROVE i = j
  <2>1. i \in k + 1..Len(text) /\ j \in k + 1..Len(text)
    BY <1>2 DEF Stop
  <2>2. ~ (i \in k + 1..j - 1) /\ ~ (j \in k + 1..i - 1)
    BY <1>2 DEF Stop
  <2>3. QED
    BY <1>1, <2>1, <2>2
<1>3. ASSUME Start(k, i), Start(k, j) PROVE i = j
  <2>1. i \in 1..k - 1 /\ j \in 1..k - 1
    BY <1>3 DEF Start
  <2>2. ~ (i \in j + 1..k - 1) /\ ~ (j \in i + 1..k - 1)
    BY <1>3 DEF Start
  <2>3. QED
    BY <1>1, <2>1, <2>2
<1>4. QED
  BY <1>2, <1>3

LEMMA SettledGoes ==
  ASSUME text \in Seq(TextWords), NEW k \in 1..Len(text), Settled(k)
  PROVE  Target(k) = Elsewhere(k)
<1>1. Len(text) \in Nat
  OBVIOUS
<1>2. CASE text[k] \in Aheads
  <2>1. PICK j \in 1..Len(text) : Stop(k, j) /\ Target(k) = Past(k, j)
    BY <1>2 DEF Settled, Aheads, Backs
  <2> DEFINE words == Stops(text[k])
             l == StopLevel(k)
             Found(i) == /\ text[i] \in words /\ Level(i) = l
                         /\ \A m \in k + 1..i - 1 : ~ (text[m] \in words /\ Level(m) = l)
  <2>2. j \in k + 1..Len(text) /\ Found(j)
    BY <2>1 DEF Stop
  <2>3. ASSUME NEW i \in k + 1..Len(text), Found(i) PROVE i = j
    <3>1. Stop(k, i) /\ i \in 1..Len(text)
      BY <1>1, <2>3 DEF Stop
    <3>2. QED
      BY <2>1, <3>1, OneStop
  <2>4. FirstAhead(k, words, l) = CHOOSE i \in k + 1..Len(text) : Found(i)
    BY DEF FirstAhead
  <2> HIDE DEF Found
  <2>5. FirstAhead(k, words, l) = j
    BY <2>2, <2>3, <2>4
  <2> HIDE DEF words, l
  <2>6. Target(k) = Past(k, FirstAhead(k, words, l))
    BY <2>1, <2>5
  <2>7. QED
    BY <1>2, <2>6 DEF Elsewhere, Aheads, words, l, Stops, StopLevel, Past
<1>3. CASE text[k] \in Backs
  <2>1. PICK j \in 1..Len(text) : Start(k, j) /\ Target(k) = Address(j + 1)
    BY <1>3 DEF Settled, Aheads, Backs
  <2> DEFINE Found(i) == /\ text[i] \in Openers /\ Level(i) = Level(k)
                         /\ \A m \in i + 1..k - 1 : ~ (text[m] \in Openers /\ Level(m) = Level(k))
  <2>2. j \in 1..k - 1 /\ Found(j)
    BY <2>1 DEF Start
  <2>3. ASSUME NEW i \in 1..k - 1, Found(i) PROVE i = j
    <3>1. Start(k, i) /\ i \in 1..Len(text)
      BY <1>1, <2>3 DEF Start
    <3>2. QED
      BY <2>1, <3>1, OneStop
  <2>4. Opener(k) = CHOOSE i \in 1..k - 1 : Found(i)
    BY DEF Opener
  <2> HIDE DEF Found
  <2>5. Opener(k) = j
    BY <2>2, <2>3, <2>4
  <2>6. QED
    BY <1>3, <2>1, <2>5 DEF Elsewhere, Backs
<1>4. QED
  BY <1>2, <1>3 DEF Settled

----------------------------------------------------------------------------
(* The structures that are open: f.start is the word that opened one,      *)
(* f.turn the last of its own words, and its addresses are on the stack    *)
(* between f.low and f.high.                                               *)

Open(f, i) ==
  /\ f.start \in 1..Len(text) /\ f.turn \in f.start..Len(text)
  /\ text[f.start] \in Openers /\ Level(f.start) = i /\ Level(f.turn) = i
  /\ \A j \in f.start + 1..Len(text) : Level(j) > i \/ (Level(j) = i /\ text[j] \notin Openers)
  /\ \A j \in f.turn + 1..Len(text) : Level(j) > i \/ text[j] = "word"
EndOfs(f, i) == {k \in f.start + 1..Len(text) : text[k] = "endof" /\ Level(k) = i + 1}
TurnsOf(kind) ==
  CASE kind = "if" -> {"if", "unless"}
    [] kind = "else" -> {"else", "ahead"}
    [] kind = "of" -> {"of"}
Slots(f, i) ==
  \/ /\ f.kind \in {"if", "else", "of"} /\ f.high = f.low + 1
     /\ text[f.turn] \in TurnsOf(f.kind) /\ stack[f.high] = OffsetOf(f.turn)
  \/ f.kind = "begin" /\ f.high = f.low + 1 /\ stack[f.high] = Address(f.start + 1)
  \/ /\ f.kind = "while" /\ f.high = f.low + 2 /\ text[f.turn] = "while"
     /\ stack[f.low + 1] = Address(f.start + 1) /\ stack[f.high] = OffsetOf(f.turn)
  \/ /\ f.kind = "do" /\ f.high = f.low + 2 /\ text[f.start] = "do"
     /\ stack[f.low + 1] = 0 /\ stack[f.high] = Address(f.start + 1)
  \/ /\ f.kind = "do" /\ f.high = f.low + 3 /\ text[f.start] = "?do" /\ f.turn = f.start
     /\ stack[f.low + 1] = OffsetOf(f.start) /\ stack[f.low + 2] = 1
     /\ stack[f.high] = Address(f.start + 1)
  \/ /\ f.kind = "case" /\ f.high > f.low /\ f.turn = f.start /\ text[f.start] = "case"
     /\ stack[f.low + 1] = 0
     /\ {stack[j] : j \in f.low + 2..f.high} = {OffsetOf(k) : k \in EndOfs(f, i)}

\* The words whose offsets a structure keeps.
Owned(f, i) ==
  CASE f.kind \in {"if", "else", "of", "while"} -> {f.turn}
    [] f.kind = "do" -> {k \in {f.start} : text[k] = "?do"}
    [] f.kind = "case" -> EndOfs(f, i)
    [] OTHER -> {}

Top(F, i) == IF i = 0 THEN 1 ELSE F[i].high
Frame(F, i) ==
  /\ F[i].kind = nest[i] /\ F[i].low = Top(F, i - 1)
  /\ F[i].low \in Nat /\ F[i].high \in Nat /\ F[i].low >= 1 /\ F[i].low < F[i].high
  /\ Open(F[i], i)
  /\ Slots(F[i], i)
Framed(F) ==
  /\ Len(stack) = Top(F, Len(nest))
  /\ \A i \in 1..Len(nest) : Frame(F, i)
  /\ \A i, j \in 1..Len(nest) : i < j => F[i].high <= F[j].low

LEMMA OpenStays ==
  ASSUME NEW w, Extends(w), NEW f, NEW i \in Nat, Open(f, i), NEW n, n = Len(text),
         Level(n + 1)' \in Int, Level(n + 1)' > i \/ (w = "word" /\ Level(n + 1)' = i)
  PROVE  Open(f, i)'
<1>1. /\ n \in Nat /\ Len(text') = n + 1 /\ text'[n + 1] = w
      /\ \A k \in 1..n : text'[k] = text[k] /\ Level(k)' = Level(k)
  BY Extended, LevelSame
<1>2. f.start \in 1..n /\ f.turn \in 1..n /\ f.turn \in f.start..n
  BY <1>1 DEF Open
<1>3. f.start \in 1..Len(text') /\ f.turn \in f.start..Len(text')
  BY <1>1, <1>2
<1>4. text'[f.start] \in Openers /\ Level(f.start)' = i /\ Level(f.turn)' = i
  BY <1>1, <1>2 DEF Open
<1>5. ASSUME NEW j \in f.start + 1..n + 1
      PROVE  Level(j)' > i \/ (Level(j)' = i /\ text'[j] \notin Openers)
  <2>1. CASE j = n + 1
    BY <1>1, <2>1 DEF Openers
  <2>2. CASE j # n + 1
    <3>1. j \in f.start + 1..n /\ j \in 1..n
      BY <1>1, <1>2, <2>2
    <3>2. QED
      BY <1>1, <3>1 DEF Open
  <2>3. QED
    BY <2>1, <2>2
<1>6. ASSUME NEW j \in f.turn + 1..n + 1
      PROVE  Level(j)' > i \/ text'[j] = "word"
  <2>1. CASE j = n + 1
    BY <1>1, <2>1
  <2>2. CASE j # n + 1
    <3>1. j \in f.turn + 1..n /\ j \in 1..n
      BY <1>1, <1>2, <2>2
    <3>2. QED
      BY <1>1, <3>1 DEF Open
  <2>3. QED
    BY <2>1, <2>2
<1>7. QED
  BY <1>1, <1>3, <1>4, <1>5, <1>6 DEF Open

LEMMA EndOfsStay ==
  ASSUME NEW w, Extends(w), NEW f, NEW i \in Nat, f.start \in 1..Len(text), NEW n, n = Len(text)
  PROVE  EndOfs(f, i)' = EndOfs(f, i) \cup (IF w = "endof" /\ Level(n + 1)' = i + 1 THEN {n + 1} ELSE {})
<1>1. /\ n \in Nat /\ Len(text') = n + 1 /\ text'[n + 1] = w
      /\ \A k \in 1..n : text'[k] = text[k] /\ Level(k)' = Level(k)
  BY Extended, LevelSame
<1>2. \A k \in f.start + 1..n + 1 : k \in f.start + 1..n \/ k = n + 1
  BY <1>1
<1>3. \A k \in f.start + 1..n : k \in 1..n /\ k \in f.start + 1..n + 1
  BY <1>1
<1>4. n + 1 \in f.start + 1..n + 1
  BY <1>1
<1>5. EndOfs(f, i)' = {k \in f.start + 1..n + 1 : text'[k] = "endof" /\ Level(k)' = i + 1}
  BY <1>1 DEF EndOfs
<1>6. EndOfs(f, i) = {k \in f.start + 1..n : text'[k] = "endof" /\ Level(k)' = i + 1}
  BY <1>1, <1>3 DEF EndOfs
<1>7. QED
  BY <1>1, <1>2, <1>3, <1>4, <1>5, <1>6

LEMMA SlotsStay ==
  ASSUME NEW w, Extends(w), NEW f, NEW i \in Nat, Open(f, i), Slots(f, i), NEW n, n = Len(text),
         f.low \in Nat, f.high \in Nat, f.low < f.high,
         \A j \in f.low + 1..f.high : stack'[j] = stack[j],
         ~ (w = "endof" /\ Level(n + 1)' = i + 1)
  PROVE  Slots(f, i)' /\ Owned(f, i)' = Owned(f, i)
<1>1. /\ n \in Nat /\ \A k \in 1..n : text'[k] = text[k] /\ OffsetOf(k)' = OffsetOf(k)
  BY Extended, OffsetSame
<1>2. f.start \in 1..n /\ f.turn \in 1..n /\ f.start + 1 \in 1..n + 1
  BY <1>1 DEF Open
<1>3. Address(f.start + 1)' = Address(f.start + 1)
  BY <1>2, AddressSame
<1>4. EndOfs(f, i)' = EndOfs(f, i)
  <2>1. f.start \in 1..Len(text)
    BY <1>2
  <2>2. EndOfs(f, i)' = EndOfs(f, i) \cup (IF w = "endof" /\ Level(n + 1)' = i + 1 THEN {n + 1} ELSE {})
    BY <2>1, EndOfsStay
  <2>3. QED
    BY <2>2
<1>5. stack'[f.low + 1] = stack[f.low + 1] /\ stack'[f.high] = stack[f.high]
      /\ (f.high = f.low + 3 => stack'[f.low + 2] = stack[f.low + 2])
  OBVIOUS
<1>6. {stack'[j] : j \in f.low + 2..f.high} = {stack[j] : j \in f.low + 2..f.high}
  <2>1. \A j \in f.low + 2..f.high : stack'[j] = stack[j]
    OBVIOUS
  <2>2. QED
    BY <2>1
<1>7. {OffsetOf(k)' : k \in EndOfs(f, i)'} = {OffsetOf(k) : k \in EndOfs(f, i)}
  <2>1. \A k \in EndOfs(f, i) : k \in 1..n
    BY <1>1, <1>2 DEF EndOfs
  <2>2. \A k \in EndOfs(f, i) : OffsetOf(k)' = OffsetOf(k)
    BY <1>1, <2>1
  <2>3. QED
    BY <1>4, <2>2
<1>8. text'[f.start] = text[f.start] /\ text'[f.turn] = text[f.turn]
      /\ OffsetOf(f.start)' = OffsetOf(f.start) /\ OffsetOf(f.turn)' = OffsetOf(f.turn)
  BY <1>1, <1>2
<1>9. Slots(f, i)'
  BY <1>3, <1>5, <1>6, <1>7, <1>8 DEF Slots
<1>10. Owned(f, i)' = Owned(f, i)
  BY <1>4, <1>8 DEF Owned
<1>11. QED
  BY <1>9, <1>10

\* The structures below the m-th, which becomes G[m + 1] or is closed, are
\* left alone.
Keeps(w, n, F, m, G) ==
  /\ Extends(w) /\ n = Len(text)
  /\ nest \in Seq(Kinds) /\ nest' \in Seq(Kinds) /\ m \in 0..Len(nest)
  /\ Level(n + 1)' \in Int
  /\ Level(n + 1)' > m \/ (w = "word" /\ Level(n + 1)' = m)
  /\ w = "endof" => Level(n + 1)' > m + 1
  /\ \A i \in 1..m : nest'[i] = nest[i] /\ G[i] = F[i]
  /\ \A j \in 1..Top(F, m) : stack'[j] = stack[j]
  /\ \/ Len(nest') = m /\ Len(stack') = Top(F, m)
     \/ Len(nest') = m + 1 /\ Len(stack') = G[m + 1].high /\ Frame(G, m + 1)'

LEMMA FramedNext ==
  ASSUME NEW w, NEW n, NEW F, NEW m, NEW G, Framed(F), Keeps(w, n, F, m, G)
  PROVE  Framed(G)' /\ \A i \in 1..m : Owned(G[i], i)' = Owned(F[i], i)
<1>0. /\ Extends(w) /\ n = Len(text)
      /\ nest \in Seq(Kinds) /\ nest' \in Seq(Kinds) /\ m \in 0..Len(nest)
      /\ Level(n + 1)' \in Int
      /\ Level(n + 1)' > m \/ (w = "word" /\ Level(n + 1)' = m)
      /\ w = "endof" => Level(n + 1)' > m + 1
      /\ \A i \in 1..m : nest'[i] = nest[i] /\ G[i] = F[i]
      /\ \A j \in 1..Top(F, m) : stack'[j] = stack[j]
      /\ \/ Len(nest') = m /\ Len(stack') = Top(F, m)
         \/ Len(nest') = m + 1 /\ Len(stack') = G[m + 1].high /\ Frame(G, m + 1)'
  BY DEF Keeps
<1> USE <1>0
<1>1. Len(nest) \in Nat /\ Len(nest') \in Nat /\ m \in Nat
  OBVIOUS
<1>2. ASSUME NEW i \in 1..m
      PROVE  /\ Frame(F, i) /\ F[i].high \in Nat /\ F[i].low \in Nat /\ F[i].low < F[i].high
             /\ F[i].high <= Top(F, m)
  <2>1. i \in 1..Len(nest)
    BY <1>1
  <2>2. Frame(F, i) /\ F[i].high \in Nat /\ F[i].low \in Nat /\ F[i].low < F[i].high
    BY <2>1 DEF Framed, Frame
  <2>3. m \in 1..Len(nest) /\ Top(F, m) = F[m].high
    BY <1>1 DEF Top
  <2>4. CASE i = m
    BY <2>2, <2>3, <2>4
  <2>5. CASE i < m
    <3>1. F[i].high <= F[m].low /\ F[m].low < F[m].high /\ F[m].low \in Nat /\ F[m].high \in Nat
      BY <2>1, <2>3, <2>5 DEF Framed, Frame
    <3>2. QED
      BY <2>2, <2>3, <3>1
  <2>6. QED
    BY <1>1, <2>2, <2>4, <2>5
<1>3. ASSUME NEW i \in 1..m
      PROVE  Frame(G, i)' /\ Owned(G[i], i)' = Owned(F[i], i)
  <2> DEFINE f == F[i]
  <2>1. /\ i \in Nat /\ f.kind = nest[i] /\ f.low = Top(F, i - 1) /\ f.low >= 1
        /\ f.low \in Nat /\ f.high \in Nat /\ f.low < f.high
        /\ Open(f, i) /\ Slots(f, i)
    BY <1>2 DEF Frame
  <2>2. Level(n + 1)' > i \/ (w = "word" /\ Level(n + 1)' = i)
    BY <1>1
  <2>3. ~ (w = "endof" /\ Level(n + 1)' = i + 1)
    BY <1>1
  <2>4. \A j \in f.low + 1..f.high : stack'[j] = stack[j]
    <3>1. Top(F, m) \in Nat /\ f.high <= Top(F, m)
      <4>1. m \in 1..m
        BY <1>1
      <4>2. F[m].high \in Nat /\ m # 0
        BY <1>2, <4>1
      <4>3. QED
        BY <1>2, <4>2 DEF Top
    <3>2. \A j \in f.low + 1..f.high : j \in 1..Top(F, m)
      BY <2>1, <3>1
    <3>3. QED
      BY <3>2
  <2>5. G[i] = f /\ nest'[i] = nest[i]
    OBVIOUS
  <2>6. Top(G, i - 1) = Top(F, i - 1)
    <3>1. CASE i = 1
      BY <3>1 DEF Top
    <3>2. CASE i # 1
      <4>1. i - 1 \in 1..m
        BY <3>2
      <4>2. QED
        BY <4>1 DEF Top
    <3>3. QED
      BY <3>1, <3>2
  <2> HIDE DEF f
  <2>7. Open(f, i)'
    BY <2>1, <2>2, OpenStays
  <2>8. Slots(f, i)' /\ Owned(f, i)' = Owned(f, i)
    BY <2>1, <2>3, <2>4, SlotsStay
  <2>9. Open(G[i], i)' /\ Slots(G[i], i)' /\ Owned(G[i], i)' = Owned(F[i], i)
    BY <2>5, <2>7, <2>8 DEF f
  <2>10. QED
    BY <2>1, <2>5, <2>6, <2>9 DEF Frame
<1>4. ASSUME NEW i \in 1..m, NEW j \in 1..m, i < j
      PROVE  G[i].high <= G[j].low
  <2>1. i \in 1..Len(nest) /\ j \in 1..Len(nest)
    BY <1>1
  <2>2. QED
    BY <1>4, <2>1 DEF Framed
<1>5. CASE Len(nest') = m /\ Len(stack') = Top(F, m)
  <2>1. Top(G, m) = Top(F, m)
    <3>1. m = 0 \/ m \in 1..m
      BY <1>1
    <3>2. QED
      BY <3>1 DEF Top
  <2>2. QED
    BY <1>3, <1>4, <1>5, <2>1 DEF Framed, Top
<1>6. CASE Len(nest') = m + 1 /\ Len(stack') = G[m + 1].high /\ Frame(G, m + 1)'
  <2>1. \A i \in 1..m + 1 : i \in 1..m \/ i = m + 1
    BY <1>1
  <2>2. Top(G, m + 1) = G[m + 1].high
    BY <1>1 DEF Top
  <2>3. G[m + 1].low = Top(G, m)
    <3>1. (m + 1) - 1 = m
      BY <1>1
    <3>2. QED
      BY <1>6, <3>1 DEF Frame
  <2>4. ASSUME NEW i \in 1..m + 1, NEW j \in 1..m + 1, i < j
        PROVE  G[i].high <= G[j].low
    <3>1. CASE j = m + 1
      <4>1. i \in 1..m /\ G[i] = F[i] /\ m \in 1..m
        BY <1>1, <2>4, <3>1
      <4>2. G[m] = F[m] /\ Top(G, m) = Top(F, m)
        BY <4>1 DEF Top
      <4>3. QED
        BY <1>2, <2>3, <3>1, <4>1, <4>2
    <3>2. CASE j # m + 1
      <4>1. i \in 1..m /\ j \in 1..m
        BY <1>1, <2>4, <3>2
      <4>2. QED
        BY <1>4, <2>4, <4>1
    <3>3. QED
      BY <3>1, <3>2
  <2>5. \A i \in 1..m + 1 : Frame(G, i)'
    BY <1>3, <1>6, <2>1
  <2>6. QED
    BY <1>3, <1>6, <2>2, <2>4, <2>5 DEF Framed, Top
<1>7. QED
  BY <1>5, <1>6

Covered(F) ==
  \A k \in 1..Len(text) :
    text[k] \in Jumping => Settled(k) \/ \E i \in 1..Len(nest) : k \in Owned(F[i], i)
Follows(F) == Depth /\ Written /\ Framed(F) /\ Covered(F)

\* A word fills in the offsets of the words N, closes the structures above the
\* m-th and may leave g open instead.
Advances(w, n, F, m, g, N) ==
  /\ Extends(w) /\ n = Len(text)
  /\ nest \in Seq(Kinds) /\ nest' \in Seq(Kinds) /\ m \in 0..Len(nest)
  /\ m < Len(nest) \/ w \in Openers \cup {"word"}
  /\ w = "endof" => m + 1 < Len(nest)
  /\ Len(nest') = Len(nest) + (IF w \in Openers THEN 1 ELSE IF w \in Closers THEN -1 ELSE 0)
  /\ \A i \in 1..m : nest'[i] = nest[i]
  /\ \A j \in 1..Top(F, m) : stack'[j] = stack[j]
  /\ \/ Len(nest') = m /\ Len(stack') = Top(F, m)
     \/ /\ Len(nest') = m + 1 /\ g.kind = nest'[m + 1]
        /\ g.low = Top(F, m) /\ g.low \in Nat /\ g.low >= 1
        /\ g.high = Len(stack') /\ g.high \in Nat /\ g.low < g.high
        /\ Open(g, m + 1)'
        /\ Slots(g, m + 1)'
  /\ \A k \in N : k \in 1..n /\ text[k] \in Jumping /\ Settled(k)'
  /\ Lays(code, code', {OffsetOf(k) : k \in N}, Layout(w))
  /\ \A i \in m + 1..Len(nest) : \A k \in Owned(F[i], i) :
       k \in N \/ (Len(nest') = m + 1 /\ k \in Owned(g, m + 1)')
  /\ w \in Jumping => Settled(n + 1)' \/ (Len(nest') = m + 1 /\ n + 1 \in Owned(g, m + 1)')

LEMMA Onward ==
  ASSUME NEW w, NEW n, NEW F, NEW m, NEW g, NEW N, Follows(F), Advances(w, n, F, m, g, N)
  PROVE  \E G : Follows(G)'
<1> DEFINE G == [i \in 1..m + 1 |-> IF i = m + 1 THEN g ELSE F[i]]
           P == {OffsetOf(k) : k \in N}
<1>0. /\ Extends(w) /\ n = Len(text)
      /\ nest \in Seq(Kinds) /\ nest' \in Seq(Kinds) /\ m \in 0..Len(nest)
      /\ m < Len(nest) \/ w \in Openers \cup {"word"}
      /\ w = "endof" => m + 1 < Len(nest)
      /\ Len(nest') = Len(nest) + (IF w \in Openers THEN 1 ELSE IF w \in Closers THEN -1 ELSE 0)
      /\ \A i \in 1..m : nest'[i] = nest[i]
      /\ \A j \in 1..Top(F, m) : stack'[j] = stack[j]
      /\ \/ Len(nest') = m /\ Len(stack') = Top(F, m)
         \/ /\ Len(nest') = m + 1 /\ g.kind = nest'[m + 1]
            /\ g.low = Top(F, m) /\ g.low \in Nat /\ g.low >= 1
            /\ g.high = Len(stack') /\ g.high \in Nat /\ g.low < g.high
            /\ Open(g, m + 1)'
            /\ Slots(g, m + 1)'
      /\ \A k \in N : k \in 1..n /\ text[k] \in Jumping /\ Settled(k)'
      /\ Lays(code, code', P, Layout(w))
      /\ \A i \in m + 1..Len(nest) : \A k \in Owned(F[i], i) :
           k \in N \/ (Len(nest') = m + 1 /\ k \in Owned(g, m + 1)')
      /\ w \in Jumping => Settled(n + 1)' \/ (Len(nest') = m + 1 /\ n + 1 \in Owned(g, m + 1)')
  BY DEF Advances
<1> USE <1>0
<1>1. Len(nest) \in Nat /\ Len(nest') \in Nat /\ m \in Nat
  OBVIOUS
<1>2. G[m + 1] = g /\ \A i \in 1..m : G[i] = F[i]
  BY <1>1
<1>3. Top(G, m) = Top(F, m)
  <2>1. m = 0 \/ m \in 1..m
    BY <1>1
  <2>2. QED
    BY <1>2, <2>1 DEF Top
<1> HIDE DEF G
<1>4. Level(n + 1)' = Len(nest) + (IF w \in Openers THEN 1 ELSE 0)
  BY LevelNext DEF Follows
<1>5. Level(n + 1)' \in Int /\ (Level(n + 1)' > m \/ (w = "word" /\ Level(n + 1)' = m))
  BY <1>1, <1>4
<1>6. w = "endof" => Level(n + 1)' > m + 1
  BY <1>1, <1>4
<1>8. Framed(G)' /\ \A i \in 1..m : Owned(G[i], i)' = Owned(F[i], i)
  <2>1. \/ Len(nest') = m /\ Len(stack') = Top(F, m)
        \/ Len(nest') = m + 1 /\ Len(stack') = G[m + 1].high /\ Frame(G, m + 1)'
    <3>1. (m + 1) - 1 = m
      BY <1>1
    <3>2. QED
      BY <1>2, <1>3, <3>1 DEF Frame
  <2>2. Framed(F)
    BY DEF Follows
  <2>3. \A i \in 1..m : nest'[i] = nest[i] /\ G[i] = F[i]
    BY <1>2
  <2>4. Keeps(w, n, F, m, G)
    BY <1>5, <1>6, <2>1, <2>3 DEF Keeps
  <2>5. QED
    BY <2>2, <2>4, FramedNext
<1>9. Depth'
  BY <1>1, DepthNext DEF Follows
<1>10. Written'
  BY WrittenNext DEF Follows
<1>11. n \in Nat /\ Len(text') = n + 1 /\ text'[n + 1] = w /\ \A k \in 1..n : text'[k] = text[k]
  BY Extended
<1>12. ASSUME NEW k \in 1..n, text[k] \in Jumping
       PROVE  Settled(k)' \/ \E i \in 1..Len(nest') : k \in Owned(G[i], i)'
  <2>1. CASE Settled(k)
    <3>1. CASE OffsetOf(k) \in P
      <4>1. PICK l \in N : OffsetOf(k) = OffsetOf(l)
        BY <3>1
      <4>2. l \in 1..Len(text) /\ text[l] \in Jumping /\ Settled(l)'
        BY <4>1
      <4>3. k = l
        BY <1>12, <4>1, <4>2, OffsetsApart DEF Follows
      <4>4. QED
        BY <4>2, <4>3
    <3>2. CASE OffsetOf(k) \notin P
      BY <2>1, <3>2, SettledStays DEF Follows
    <3>3. QED
      BY <3>1, <3>2
  <2>2. CASE \E i \in 1..Len(nest) : k \in Owned(F[i], i)
    <3>1. PICK i \in 1..Len(nest) : k \in Owned(F[i], i)
      BY <2>2
    <3>2. CASE i \in 1..m
      <4>1. i \in 1..Len(nest')
        BY <1>1, <3>2
      <4>2. k \in Owned(G[i], i)'
        BY <1>8, <3>1, <3>2
      <4>3. QED
        BY <4>1, <4>2
    <3>3. CASE i \notin 1..m
      <4>1. i \in m + 1..Len(nest)
        BY <1>1, <3>1, <3>3
      <4>2. CASE k \in N
        BY <4>2
      <4>3. CASE Len(nest') = m + 1 /\ k \in Owned(g, m + 1)'
        <5>1. m + 1 \in 1..Len(nest')
          BY <1>1, <4>3
        <5>2. k \in Owned(G[m + 1], m + 1)'
          BY <1>2, <4>3
        <5>3. QED
          BY <5>1, <5>2
      <4>4. QED
        BY <3>1, <4>1, <4>2, <4>3
    <3>4. QED
      BY <3>2, <3>3
  <2>3. QED
    BY <1>12, <2>1, <2>2 DEF Follows, Covered
<1>13. w \in Jumping => Settled(n + 1)' \/ \E i \in 1..Len(nest') : n + 1 \in Owned(G[i], i)'
  <2>1. CASE Len(nest') = m + 1 /\ n + 1 \in Owned(g, m + 1)'
    <3>1. m + 1 \in 1..Len(nest')
      BY <1>1, <2>1
    <3>2. n + 1 \in Owned(G[m + 1], m + 1)'
      BY <1>2, <2>1
    <3>3. QED
      BY <3>1, <3>2
  <2>2. QED
    BY <2>1
<1>14. Covered(G)'
  <2>1. ASSUME NEW k \in 1..n + 1, text'[k] \in Jumping
        PROVE  Settled(k)' \/ \E i \in 1..Len(nest') : k \in Owned(G[i], i)'
    <3>1. CASE k = n + 1
      BY <1>11, <1>13, <2>1, <3>1
    <3>2. CASE k # n + 1
      <4>1. k \in 1..n
        BY <1>11, <3>2
      <4>2. QED
        BY <1>11, <1>12, <2>1, <4>1
    <3>3. QED
      BY <3>1, <3>2
  <2>2. QED
    BY <1>11, <2>1 DEF Covered
<1>15. Follows(G)'
  BY <1>8, <1>9, <1>10, <1>14 DEF Follows
<1>16. QED
  BY <1>15

----------------------------------------------------------------------------
(* What a word that closes or turns a structure settles.                   *)

LEMMA StopsHere ==
  ASSUME NEW w, Extends(w), NEW n, n = Len(text), NEW f, NEW i \in Nat, Open(f, i),
         NEW k \in 1..n, k >= f.turn, StopLevel(k) = i, Level(n + 1)' = i,
         w \in Stops(text[k]), text[k] \in Aheads
  PROVE  Stop(k, n + 1)'
<1>1. /\ n \in Nat /\ Len(text') = n + 1 /\ text'[n + 1] = w
      /\ \A j \in 1..n : text'[j] = text[j] /\ Level(j)' = Level(j)
  BY Extended, LevelSame
<1>2. StopLevel(k)' = i
  BY <1>1 DEF StopLevel
<1>3. "word" \notin Stops(text[k])
  BY DEF Stops, Aheads
<1>4. ASSUME NEW j \in k + 1..(n + 1) - 1
      PROVE  ~ (text'[j] \in Stops(text'[k]) /\ Level(j)' = i)
  <2>1. j \in 1..n /\ j \in f.turn + 1..n /\ f.turn \in 1..n
    BY <1>1 DEF Open
  <2>2. Level(j) > i \/ text[j] = "word"
    BY <2>1 DEF Open
  <2>3. QED
    BY <1>1, <1>3, <2>1, <2>2
<1>5. n + 1 \in k + 1..Len(text') /\ text'[k] = text[k]
  BY <1>1
<1>6. QED
  BY <1>1, <1>2, <1>4, <1>5 DEF Stop

LEMMA StartsHere ==
  ASSUME NEW w, Extends(w), NEW n, n = Len(text), NEW f, NEW i \in Nat, Open(f, i),
         Level(n + 1)' = i
  PROVE  f.start \in 1..n /\ Start(n + 1, f.start)'
<1>1. /\ n \in Nat /\ Len(text') = n + 1 /\ text'[n + 1] = w
      /\ \A j \in 1..n : text'[j] = text[j] /\ Level(j)' = Level(j)
  BY Extended, LevelSame
<1>2. f.start \in 1..n /\ text'[f.start] \in Openers /\ Level(f.start)' = i
  BY <1>1 DEF Open
<1>3. ASSUME NEW j \in f.start + 1..(n + 1) - 1
      PROVE  ~ (text'[j] \in Openers /\ Level(j)' = i)
  <2>1. j \in 1..n /\ j \in f.start + 1..n
    BY <1>1, <1>2
  <2>2. QED
    BY <1>1, <2>1 DEF Open
<1>4. f.start \in 1..(n + 1) - 1
  BY <1>1, <1>2
<1>5. QED
  BY <1>2, <1>3, <1>4 DEF Start

LEMMA SettlesAhead ==
  ASSUME NEW w, Extends(w), NEW n, n = Len(text), NEW f, NEW i \in Nat, Open(f, i),
         NEW k \in 1..n, k >= f.turn, StopLevel(k) = i, Level(n + 1)' = i,
         w \in Stops(text[k]), text[k] \in Aheads, NEW a, a = OffsetOf(k),
         a + code'[a].off = IF text[k] = "?do" THEN Here' - 1 ELSE Here'
  PROVE  Settled(k)'
<1>1. Stop(k, n + 1)'
  BY StopsHere
<1>2. n \in Nat /\ Len(text') = n + 1 /\ text'[k] = text[k]
  BY Extended
<1>3. OffsetOf(k)' = a
  BY OffsetSame
<1>4. Address((n + 1) + 1)' = Here'
  <2>1. (n + 1) + 1 = n + 2
    BY <1>2
  <2>2. QED
    BY <2>1, AddressNext
<1>5. Target(k)' = Past(k, n + 1)'
  BY <1>2, <1>3, <1>4 DEF Target, Past
<1>6. n + 1 \in 1..Len(text')
  BY <1>2
<1>7. QED
  BY <1>1, <1>2, <1>5, <1>6 DEF Settled

LEMMA SettlesBack ==
  ASSUME NEW w, Extends(w), NEW n, n = Len(text), NEW f, NEW i \in Nat, Open(f, i),
         Level(n + 1)' = i, w \in Backs, NEW a, a = Len(code) + Slot(w),
         a + code'[a].off = Address(f.start + 1)
  PROVE  Settled(n + 1)'
<1>1. f.start \in 1..n /\ Start(n + 1, f.start)'
  BY StartsHere
<1>2. n \in Nat /\ Len(text') = n + 1 /\ text'[n + 1] = w
  BY Extended
<1>3. OffsetOf(n + 1)' = a
  BY OffsetNext DEF Jumping
<1>4. Address(f.start + 1)' = Address(f.start + 1)
  <2>1. f.start + 1 \in 1..n + 1
    BY <1>1, <1>2
  <2>2. QED
    BY <2>1, AddressSame
<1>5. Target(n + 1)' = Address(f.start + 1)'
  BY <1>3, <1>4 DEF Target
<1>6. f.start \in 1..Len(text')
  BY <1>1, <1>2
<1>7. QED
  BY <1>1, <1>2, <1>5, <1>6 DEF Settled

----------------------------------------------------------------------------
(* The words that open a structure, turn in it, or close it.               *)

Writing(w, n, F) ==
  /\ Extends(w) /\ n = Len(text) /\ Follows(F)
  /\ nest \in Seq(Kinds) /\ nest' \in Seq(Kinds)
  /\ stack \in Seq(Nat) /\ Len(stack) >= 1 /\ stack' \in Seq(Nat)

\* f is the innermost structure.
Inmost(w, n, F, i, f) == Writing(w, n, F) /\ nest # << >> /\ i = Len(nest) /\ f = F[i]

LEMMA Opens ==
  ASSUME NEW w, NEW n, NEW F, Writing(w, n, F), w \in Openers, NEW i, i = Len(nest) + 1,
         NEW g, nest' = Append(nest, g.kind), g.start = n + 1, g.turn = n + 1,
         g.low = Len(stack), g.high = Len(stack'), Len(stack') > Len(stack),
         \A j \in 1..Len(stack) : stack'[j] = stack[j],
         Lays(code, code', {}, Layout(w)), Slots(g, i)', w \in Jumping => n + 1 \in Owned(g, i)'
  PROVE  \E G : Follows(G)'
<1> SUFFICES ASSUME NEW m, m = Len(nest) PROVE \E G : Follows(G)'
  OBVIOUS
<1>1. /\ Extends(w) /\ n = Len(text) /\ Follows(F) /\ nest \in Seq(Kinds) /\ nest' \in Seq(Kinds)
      /\ stack \in Seq(Nat) /\ Len(stack) >= 1 /\ stack' \in Seq(Nat)
  BY DEF Writing
<1>2. m \in Nat /\ Len(stack) \in Nat /\ Len(stack') \in Nat /\ i = m + 1 /\ i \in Nat
  BY <1>1
<1>3. Top(F, m) = Len(stack)
  BY <1>1 DEF Follows, Framed
<1>4. Len(nest') = m + 1 /\ nest'[m + 1] = g.kind /\ \A j \in 1..m : nest'[j] = nest[j]
  <2>1. g.kind \in Kinds
    <3>1. m + 1 \in 1..Len(Append(nest, g.kind))
      BY <1>1
    <3>2. Append(nest, g.kind)[m + 1] = g.kind
      BY <1>1
    <3>3. Append(nest, g.kind)[m + 1] \in Kinds
      BY <1>1, <3>1
    <3>4. QED
      BY <3>2, <3>3
  <2>2. QED
    BY <1>1, <2>1, AppendProperties
<1>5. Level(n + 1)' = i
  <2>1. Level(n + 1)' = Len(nest) + (IF w \in Openers THEN 1 ELSE 0)
    BY <1>1, LevelNext DEF Follows
  <2>2. QED
    BY <2>1
<1>6. /\ n \in Nat /\ Len(text') = n + 1 /\ text'[n + 1] = w
  BY <1>1, Extended
<1>7. Open(g, i)'
  <2>1. g.start \in 1..Len(text') /\ g.turn \in g.start..Len(text')
    BY <1>6
  <2>2. \A j \in g.start + 1..Len(text') : FALSE
    BY <1>6
  <2>3. text'[g.start] \in Openers /\ Level(g.start)' = i /\ Level(g.turn)' = i
    BY <1>5, <1>6
  <2>4. QED
    BY <2>1, <2>2, <2>3 DEF Open
<1>8. {OffsetOf(k) : k \in {}} = {}
  OBVIOUS
<1>9. w # "endof"
  BY DEF Openers
<1>10. m \in 0..Len(nest) /\ m + 1..Len(nest) = {}
  BY <1>2
<1>11. Advances(w, n, F, m, g, {})
  <2>1. /\ Len(nest') = m + 1 /\ g.kind = nest'[m + 1]
        /\ g.low = Top(F, m) /\ g.low \in Nat /\ g.low >= 1
        /\ g.high = Len(stack') /\ g.high \in Nat /\ g.low < g.high
        /\ Open(g, m + 1)'
        /\ Slots(g, m + 1)'
    BY <1>1, <1>2, <1>3, <1>4, <1>7
  <2>2. Len(nest') = Len(nest) + (IF w \in Openers THEN 1 ELSE IF w \in Closers THEN -1 ELSE 0)
    BY <1>4
  <2>3. w \in Jumping => (Len(nest') = m + 1 /\ n + 1 \in Owned(g, m + 1)')
    BY <1>2, <1>4
  <2>4. Lays(code, code', {OffsetOf(k) : k \in {}}, Layout(w))
    BY <1>8
  <2>5. QED
    BY <1>1, <1>3, <1>4, <1>9, <1>10, <2>1, <2>2, <2>3, <2>4 DEF Advances
<1>12. QED
  BY <1>1, <1>11, Onward

\* A word closes the innermost structure, and fills in the offsets of the words N.
Closing(w, n, F, i, f, N) ==
  /\ Inmost(w, n, F, i, f)
  /\ w \in Closers /\ w # "endof" /\ nest' = Front(nest)
  /\ Len(stack') = f.low
  /\ \A j \in 1..f.low : stack'[j] = stack[j]
  /\ \A k \in N : k \in 1..n /\ text[k] \in Jumping /\ Settled(k)'
  /\ Lays(code, code', {OffsetOf(k) : k \in N}, Layout(w))
  /\ Owned(f, i) \subseteq N
  /\ w \in Jumping => Settled(n + 1)'

LEMMA Closes ==
  ASSUME NEW w, NEW n, NEW F, NEW i, NEW f, NEW N, Closing(w, n, F, i, f, N)
  PROVE  \E G : Follows(G)'
<1>0. /\ Writing(w, n, F) /\ nest # << >> /\ i = Len(nest) /\ f = F[i]
      /\ w \in Closers /\ w # "endof" /\ nest' = Front(nest)
      /\ Len(stack') = f.low
      /\ \A j \in 1..f.low : stack'[j] = stack[j]
      /\ \A k \in N : k \in 1..n /\ text[k] \in Jumping /\ Settled(k)'
      /\ Lays(code, code', {OffsetOf(k) : k \in N}, Layout(w))
      /\ Owned(f, i) \subseteq N
      /\ w \in Jumping => Settled(n + 1)'
  BY DEF Closing, Inmost
<1> USE <1>0
<1> SUFFICES ASSUME NEW m, m = Len(nest) - 1 PROVE \E G : Follows(G)'
  OBVIOUS
<1>1. /\ Extends(w) /\ n = Len(text) /\ Follows(F) /\ nest \in Seq(Kinds) /\ nest' \in Seq(Kinds)
      /\ stack \in Seq(Nat) /\ Len(stack) >= 1 /\ stack' \in Seq(Nat)
      /\ nest # << >> /\ i = Len(nest) /\ f = F[i]
  BY DEF Writing, Inmost
<1>2. Len(nest) \in Nat /\ Len(nest) >= 1 /\ Len(nest') = m /\ \A j \in 1..m : nest'[j] = nest[j]
  BY <1>1, FrontLast
<1>3. m \in 0..Len(nest) /\ m < Len(nest) /\ m + 1..Len(nest) = {i} /\ m = i - 1 /\ i \in 1..Len(nest)
  BY <1>2
<1>4. Top(F, m) = f.low
  BY <1>1, <1>3 DEF Follows, Framed, Frame
<1>5. w \notin Openers
  BY DEF Openers, Closers
<1>6. Len(nest') = Len(nest) + (IF w \in Openers THEN 1 ELSE IF w \in Closers THEN -1 ELSE 0)
  BY <1>2, <1>5
<1>7. \A j \in m + 1..Len(nest) : \A k \in Owned(F[j], j) : k \in N
  BY <1>3
<1>8. Advances(w, n, F, m, f, N)
  BY <1>1, <1>2, <1>3, <1>4, <1>6, <1>7 DEF Advances
<1>9. QED
  BY <1>1, <1>8, Onward

\* A word turns the innermost structure into g.
Changing(w, n, F, i, f, g, N) ==
  /\ Inmost(w, n, F, i, f)
  /\ w \in {"else", "while"} /\ nest' = Append(Front(nest), g.kind)
  /\ g.start = f.start /\ g.turn = n + 1
  /\ g.low = f.low /\ g.high = Len(stack') /\ Len(stack') > f.low
  /\ \A j \in 1..f.low : stack'[j] = stack[j]
  /\ \A k \in N : k \in 1..n /\ text[k] \in Jumping /\ Settled(k)'
  /\ Lays(code, code', {OffsetOf(k) : k \in N}, Layout(w))
  /\ Slots(g, i)'
  /\ Owned(f, i) \subseteq N
  /\ n + 1 \in Owned(g, i)'

LEMMA Turned ==
  ASSUME NEW w, NEW n, NEW F, NEW i, NEW f, NEW g, NEW N, Changing(w, n, F, i, f, g, N)
  PROVE  \E G : Follows(G)'
<1>0. /\ Writing(w, n, F) /\ nest # << >> /\ i = Len(nest) /\ f = F[i]
      /\ w \in {"else", "while"} /\ nest' = Append(Front(nest), g.kind)
      /\ g.start = f.start /\ g.turn = n + 1
      /\ g.low = f.low /\ g.high = Len(stack') /\ Len(stack') > f.low
      /\ \A j \in 1..f.low : stack'[j] = stack[j]
      /\ \A k \in N : k \in 1..n /\ text[k] \in Jumping /\ Settled(k)'
      /\ Lays(code, code', {OffsetOf(k) : k \in N}, Layout(w))
      /\ Slots(g, i)'
      /\ Owned(f, i) \subseteq N
      /\ n + 1 \in Owned(g, i)'
  BY DEF Changing, Inmost
<1> USE <1>0
<1> SUFFICES ASSUME NEW m, m = Len(nest) - 1 PROVE \E G : Follows(G)'
  OBVIOUS
<1>1. /\ Extends(w) /\ n = Len(text) /\ Follows(F) /\ nest \in Seq(Kinds) /\ nest' \in Seq(Kinds)
      /\ stack \in Seq(Nat) /\ Len(stack) >= 1 /\ stack' \in Seq(Nat)
      /\ nest # << >> /\ i = Len(nest) /\ f = F[i]
  BY DEF Writing, Inmost
<1>2. /\ Len(nest) \in Nat /\ Len(nest) >= 1 /\ Len(nest') = m + 1 /\ nest'[m + 1] = g.kind
      /\ \A j \in 1..m : nest'[j] = nest[j]
  <2>1. /\ Len(nest) \in Nat /\ Len(nest) >= 1 /\ Front(nest) \in Seq(Kinds) /\ Len(Front(nest)) = m
        /\ \A j \in 1..m : Front(nest)[j] = nest[j]
    BY <1>1, FrontLast
  <2>2. QED
    BY <2>1
<1>3. m \in 0..Len(nest) /\ m < Len(nest) /\ m + 1..Len(nest) = {i} /\ m = i - 1 /\ i \in 1..Len(nest)
      /\ m + 1 = i /\ i \in Nat
  BY <1>2
<1>4. Top(F, m) = f.low /\ f.low \in Nat /\ f.low >= 1 /\ Open(f, i)
  BY <1>1, <1>3 DEF Follows, Framed, Frame
<1>5. w \notin Openers /\ w \notin Closers
  BY DEF Openers, Closers
<1>6. Len(nest') = Len(nest) + (IF w \in Openers THEN 1 ELSE IF w \in Closers THEN -1 ELSE 0)
  BY <1>2, <1>5
<1>7. Level(n + 1)' = i
  <2>1. Level(n + 1)' = Len(nest) + (IF w \in Openers THEN 1 ELSE 0)
    BY <1>1, LevelNext DEF Follows
  <2>2. QED
    BY <1>2, <1>5, <2>1
<1>8. /\ n \in Nat /\ Len(text') = n + 1 /\ text'[n + 1] = w
      /\ \A j \in 1..n : text'[j] = text[j] /\ Level(j)' = Level(j)
  BY <1>1, Extended, LevelSame
<1>9. Open(g, i)'
  <2>1. f.start \in 1..n /\ text[f.start] \in Openers /\ Level(f.start) = i
    BY <1>1, <1>4 DEF Open
  <2>2. g.start \in 1..Len(text') /\ g.turn \in g.start..Len(text')
    BY <1>8, <2>1
  <2>3. text'[g.start] \in Openers /\ Level(g.start)' = i /\ Level(g.turn)' = i
    BY <1>7, <1>8, <2>1
  <2>4. ASSUME NEW j \in g.start + 1..n + 1
        PROVE  Level(j)' > i \/ (Level(j)' = i /\ text'[j] \notin Openers)
    <3>1. CASE j = n + 1
      BY <1>5, <1>7, <1>8, <3>1
    <3>2. CASE j # n + 1
      <4>1. j \in f.start + 1..n /\ j \in 1..n
        BY <1>8, <2>1, <3>2
      <4>2. QED
        BY <1>1, <1>4, <1>8, <4>1 DEF Open
    <3>3. QED
      BY <3>1, <3>2
  <2>5. \A j \in g.turn + 1..n + 1 : FALSE
    BY <1>8
  <2>6. QED
    BY <1>8, <2>2, <2>3, <2>4, <2>5 DEF Open
<1>10. Len(stack') \in Nat
  BY <1>1
<1>11. Advances(w, n, F, m, g, N)
  <2>1. /\ Len(nest') = m + 1 /\ g.kind = nest'[m + 1]
        /\ g.low = Top(F, m) /\ g.low \in Nat /\ g.low >= 1
        /\ g.high = Len(stack') /\ g.high \in Nat /\ g.low < g.high
        /\ Open(g, m + 1)'
        /\ Slots(g, m + 1)'
    BY <1>2, <1>3, <1>4, <1>9, <1>10
  <2>2. \A j \in m + 1..Len(nest) : \A k \in Owned(F[j], j) : k \in N
    BY <1>3
  <2>3. Len(nest') = m + 1 /\ n + 1 \in Owned(g, m + 1)'
    BY <1>2, <1>3
  <2>4. w # "endof"
    OBVIOUS
  <2>5. QED
    BY <1>1, <1>2, <1>3, <1>4, <1>6, <2>1, <2>2, <2>3, <2>4 DEF Advances
<1>12. QED
  BY <1>1, <1>11, Onward

----------------------------------------------------------------------------
(* The code of the words.                                                  *)

LEMMA LaysPair ==
  ASSUME NEW c \in Seq(CodeCell), NEW x \in CodeCell, NEW y \in CodeCell
  PROVE  /\ Lays(c, c \o << x, y >>, {}, << x.op, y.op >>)
         /\ Len(c \o << x, y >>) = Len(c) + 2
<1> SUFFICES ASSUME NEW d, d = c \o << x, y >>
             PROVE  Lays(c, d, {}, << x.op, y.op >>) /\ Len(d) = Len(c) + 2
  OBVIOUS
<1>1. << x, y >> \in Seq(CodeCell) /\ Len(<< x, y >>) = 2 /\ << x, y >>[1] = x /\ << x, y >>[2] = y
  OBVIOUS
<1> DEFINE v == << x, y >>
<1> HIDE DEF v
<1>2. v \in Seq(CodeCell) /\ Len(v) = 2 /\ v[1] = x /\ v[2] = y /\ d = c \o v
  BY <1>1 DEF v
<1>3. /\ d \in Seq(CodeCell) /\ Len(d) = Len(c) + Len(v)
      /\ \A a \in 1..Len(c) + Len(v) : d[a] = IF a <= Len(c) THEN c[a] ELSE v[a - Len(c)]
  BY <1>2, ConcatProperties
<1>4. Len(c) \in Nat
  OBVIOUS
<1>5. \A a \in 1..Len(c) : d[a] = c[a]
  BY <1>2, <1>3, <1>4
<1>6. d[Len(c) + 1] = x /\ d[Len(c) + 2] = y
  <2>1. Len(c) + 1 \in 1..Len(c) + Len(v) /\ ~ (Len(c) + 1 <= Len(c)) /\ (Len(c) + 1) - Len(c) = 1
    BY <1>2, <1>4
  <2>2. Len(c) + 2 \in 1..Len(c) + Len(v) /\ ~ (Len(c) + 2 <= Len(c)) /\ (Len(c) + 2) - Len(c) = 2
    BY <1>2, <1>4
  <2>3. QED
    BY <1>2, <1>3, <2>1, <2>2
<1> DEFINE o == << x.op, y.op >>
<1>7. Len(o) = 2 /\ o[1] = x.op /\ o[2] = y.op
  OBVIOUS
<1> HIDE DEF o
<1>8. \A j \in 1..Len(o) : d[Len(c) + j].op = o[j]
  <2>1. \A j \in 1..Len(o) : j = 1 \/ j = 2
    BY <1>7
  <2>2. QED
    BY <1>6, <1>7, <2>1
<1>9. Lays(c, d, {}, o)
  BY <1>2, <1>3, <1>5, <1>7, <1>8 DEF Lays
<1>10. QED
  BY <1>2, <1>3, <1>6, <1>9 DEF o

LEMMA LaysForward ==
  ASSUME code \in Seq(CodeCell), NEW before \in Seq(Ops), NEW branch \in Ops,
         NEW r, Joined(r, before, << branch, "offset" >>)
  PROVE  /\ Lays(code, Forward(before, branch), {}, r)
         /\ HoleOf(Forward(before, branch)) = Len(code) + Len(before) + 2
<1> SUFFICES ASSUME NEW d, d = Forward(before, branch)
             PROVE  Lays(code, d, {}, r) /\ HoleOf(d) = Len(code) + Len(before) + 2
  OBVIOUS
<1> DEFINE b == code \o Words(before)
<1>1. Lays(code, b, {}, before)
  BY LaysWords
<1>2. b \in Seq(CodeCell) /\ Len(b) = Len(code) + Len(before) /\ Len(code) \in Nat /\ Len(before) \in Nat
  BY <1>1 DEF Lays
<1>3. Cell(branch) \in CodeCell /\ Cell(branch).op = branch /\ Hole \in CodeCell /\ Hole.op = "offset"
  <2>1. 0 \in Int
    OBVIOUS
  <2>2. QED
    BY <2>1, CellIs, OffsetIs DEF Hole
<1>4. d = b \o << Cell(branch), Hole >>
  BY DEF Forward
<1> HIDE DEF b
<1>5. Lays(b, d, {}, << branch, "offset" >>) /\ Len(d) = Len(b) + 2
  <2> DEFINE x == Cell(branch)
             y == Hole
  <2>1. x \in CodeCell /\ y \in CodeCell /\ x.op = branch /\ y.op = "offset" /\ d = b \o << x, y >>
    BY <1>3, <1>4
  <2> HIDE DEF x, y
  <2>2. Lays(b, d, {}, << x.op, y.op >>) /\ Len(d) = Len(b) + 2
    BY <1>2, <2>1, LaysPair
  <2>3. QED
    BY <2>1, <2>2
<1>6. Len(<< branch, "offset" >>) \in Nat
  OBVIOUS
<1>7. Lays(code, d, {}, r)
  BY <1>1, <1>2, <1>5, <1>6, LaysOn
<1>8. QED
  BY <1>2, <1>5, <1>7 DEF HoleOf

LEMMA LaysBack ==
  ASSUME NEW c \in Seq(CodeCell), NEW a \in Nat
  PROVE  /\ Lays(c, Back(c, a), {}, << "offset" >>)
         /\ (Len(c) + 1) + Back(c, a)[Len(c) + 1].off = a
<1> SUFFICES ASSUME NEW d, d = Back(c, a)
             PROVE  Lays(c, d, {}, << "offset" >>) /\ (Len(c) + 1) + d[Len(c) + 1].off = a
  OBVIOUS
<1> DEFINE o == a - (Len(c) + 1)
           x == Offset(o)
<1>1. Len(c) \in Nat /\ o \in Int /\ (Len(c) + 1) + o = a
  OBVIOUS
<1> HIDE DEF o
<1>2. x \in CodeCell /\ x.op = "offset" /\ x.off = o
  BY <1>1, OffsetIs
<1>3. d = Append(c, x)
  BY DEF Back, o
<1> HIDE DEF x
<1>4. Lays(c, d, {}, << "offset" >>)
  BY <1>2, <1>3, LaysCell
<1>5. Len(d) = Len(c) + 1 /\ d[Len(c) + 1] = x
  BY <1>2, <1>3
<1>6. QED
  BY <1>1, <1>2, <1>4, <1>5

\* Nothing is laid down.
LEMMA LaysNothing ==
  ASSUME NEW c \in Seq(CodeCell)
  PROVE  Lays(c, c, {}, << >>)
BY DEF Lays

----------------------------------------------------------------------------
(* Plain words, and the words that open structures.                        *)

LEMMA PlainFollows ==
  ASSUME NEW n, NEW F, Writing("word", n, F), Plain
  PROVE  \E G : Follows(G)'
<1>1. code \in Seq(CodeCell) /\ Cell("word") \in CodeCell /\ Cell("word").op = "word"
  BY CellIs DEF Writing, Extends, Ops
<1>2. Lays(code, code', {}, Layout("word"))
  BY <1>1, LaysCell DEF Plain, Layout
<1> SUFFICES ASSUME NEW m, m = Len(nest) PROVE \E G : Follows(G)'
  OBVIOUS
<1>3. /\ m \in Nat /\ m \in 0..Len(nest) /\ m + 1..Len(nest) = {}
      /\ nest' = nest /\ stack' = stack
  BY DEF Plain, Writing
<1>4. Top(F, m) = Len(stack)
  BY DEF Writing, Follows, Framed
<1>5. "word" \notin Openers /\ "word" \notin Closers /\ "word" \notin Jumping /\ "word" # "endof"
  BY DEF Openers, Closers, Jumping, Aheads, Backs
<1>6. {OffsetOf(k) : k \in {}} = {}
  OBVIOUS
<1>7. ASSUME NEW g PROVE Advances("word", n, F, m, g, {})
  <2>1. Lays(code, code', {OffsetOf(k) : k \in {}}, Layout("word"))
    BY <1>2, <1>6
  <2>2. Len(nest') = m /\ Len(stack') = Top(F, m)
    BY <1>3, <1>4
  <2>3. Len(nest') = Len(nest)
            + (IF "word" \in Openers THEN 1 ELSE IF "word" \in Closers THEN -1 ELSE 0)
    BY <1>3, <1>5
  <2>4. /\ \A i \in 1..m : nest'[i] = nest[i]
        /\ \A j \in 1..Top(F, m) : stack'[j] = stack[j]
    BY <1>3
  <2>5. "word" \in Openers \cup {"word"}
    OBVIOUS
  <2>6. QED
    BY <1>3, <1>5, <2>1, <2>2, <2>3, <2>4, <2>5 DEF Advances, Writing
<1>8. QED
  BY <1>7, Onward DEF Writing

\* A branch forward, whose hole lies on the stack.
LEMMA BranchFollows ==
  ASSUME NEW w, NEW n, NEW F, Writing(w, n, F), w \in Openers \cap Aheads,
         NEW kind, kind \in {"if", "else", "of"}, w \in TurnsOf(kind), w # "endof",
         nest' = Append(nest, kind), Lays(code, code', {}, Layout(w)),
         stack' = Append(stack, Len(code) + Slot(w))
  PROVE  \E G : Follows(G)'
<1> SUFFICES ASSUME NEW i, i = Len(nest) + 1,
                    NEW g, g = [kind |-> kind, start |-> n + 1, turn |-> n + 1,
                                low |-> Len(stack), high |-> Len(stack) + 1]
             PROVE  \E G : Follows(G)'
  OBVIOUS
<1>1. /\ Extends(w) /\ n = Len(text) /\ stack \in Seq(Nat) /\ stack' \in Seq(Nat)
  BY DEF Writing
<1>2. /\ Len(stack) \in Nat /\ Len(stack') = Len(stack) + 1 /\ stack'[Len(stack) + 1] = Len(code) + Slot(w)
      /\ \A j \in 1..Len(stack) : stack'[j] = stack[j]
  <2> SUFFICES ASSUME NEW x, x = Len(code) + Slot(w), stack' = Append(stack, x)
               PROVE  /\ Len(stack) \in Nat /\ Len(stack') = Len(stack) + 1 /\ stack'[Len(stack) + 1] = x
                      /\ \A j \in 1..Len(stack) : stack'[j] = stack[j]
    OBVIOUS
  <2>1. x \in Nat
    BY <1>1 DEF Extends, Slot
  <2>2. QED
    BY <1>1, <2>1
<1>3. /\ g.kind = kind /\ g.start = n + 1 /\ g.turn = n + 1 /\ g.low = Len(stack) /\ g.high = Len(stack) + 1
  OBVIOUS
<1>4. OffsetOf(n + 1)' = Len(code) + Slot(w) /\ text'[n + 1] = w
  BY <1>1, OffsetNext, Extended DEF Jumping
<1>5. Slots(g, i)'
  BY <1>2, <1>3, <1>4 DEF Slots
<1>6. n + 1 \in Owned(g, i)'
  BY <1>3 DEF Owned
<1>7. QED
  BY <1>2, <1>3, <1>5, <1>6, Opens

LEMMA IfFollows ==
  ASSUME NEW n, NEW F, Writing("if", n, F), If
  PROVE  \E G : Follows(G)'
<1>1. code \in Seq(CodeCell) /\ << >> \in Seq(Ops) /\ "0branch" \in Ops
  BY DEF Writing, Extends, Ops
<1>2. Joined(Layout("if"), << >>, << "0branch", "offset" >>) /\ Slot("if") = 2
  BY DEF Joined, Layout, Slot
<1>3. Lays(code, code', {}, Layout("if")) /\ HoleOf(code') = Len(code) + 0 + 2
  BY <1>1, <1>2, LaysForward DEF If
<1>4. stack' = Append(stack, Len(code) + Slot("if"))
  BY <1>1, <1>2, <1>3 DEF If
<1>5. nest' = Append(nest, "if") /\ "if" \in Openers \cap Aheads /\ "if" \in TurnsOf("if")
  BY DEF If, Begins, Openers, Aheads, TurnsOf
<1>6. QED
  BY <1>3, <1>4, <1>5, BranchFollows

LEMMA UnlessFollows ==
  ASSUME NEW n, NEW F, Writing("unless", n, F), Unless
  PROVE  \E G : Follows(G)'
<1>1. code \in Seq(CodeCell) /\ << "not" >> \in Seq(Ops) /\ "0branch" \in Ops
  BY DEF Writing, Extends, Ops
<1>2. Joined(Layout("unless"), << "not" >>, << "0branch", "offset" >>) /\ Slot("unless") = 3
  BY DEF Joined, Layout, Slot
<1>3. Lays(code, code', {}, Layout("unless")) /\ HoleOf(code') = Len(code) + 1 + 2
  BY <1>1, <1>2, LaysForward DEF Unless
<1>4. stack' = Append(stack, Len(code) + Slot("unless"))
  BY <1>1, <1>2, <1>3 DEF Unless
<1>5. nest' = Append(nest, "if") /\ "unless" \in Openers \cap Aheads /\ "unless" \in TurnsOf("if")
  BY DEF Unless, Begins, Openers, Aheads, TurnsOf
<1>6. QED
  BY <1>3, <1>4, <1>5, BranchFollows

LEMMA AheadFollows ==
  ASSUME NEW n, NEW F, Writing("ahead", n, F), Ahead
  PROVE  \E G : Follows(G)'
<1>1. code \in Seq(CodeCell) /\ << >> \in Seq(Ops) /\ "branch" \in Ops
  BY DEF Writing, Extends, Ops
<1>2. Joined(Layout("ahead"), << >>, << "branch", "offset" >>) /\ Slot("ahead") = 2
  BY DEF Joined, Layout, Slot
<1>3. Lays(code, code', {}, Layout("ahead")) /\ HoleOf(code') = Len(code) + 0 + 2
  BY <1>1, <1>2, LaysForward DEF Ahead
<1>4. stack' = Append(stack, Len(code) + Slot("ahead"))
  BY <1>1, <1>2, <1>3 DEF Ahead
<1>5. nest' = Append(nest, "else") /\ "ahead" \in Openers \cap Aheads /\ "ahead" \in TurnsOf("else")
  BY DEF Ahead, Begins, Openers, Aheads, TurnsOf
<1>6. QED
  BY <1>3, <1>4, <1>5, BranchFollows

LEMMA OfFollows ==
  ASSUME NEW n, NEW F, Writing("of", n, F), Of
  PROVE  \E G : Follows(G)'
<1> DEFINE c == Forward(<< "over", "=" >>, "0branch")
           o == << "over", "=", "0branch", "offset" >>
           p == << "drop" >>
<1>1. code \in Seq(CodeCell) /\ << "over", "=" >> \in Seq(Ops) /\ "0branch" \in Ops /\ "drop" \in Ops
  BY DEF Writing, Extends, Ops
<1>2. Joined(o, << "over", "=" >>, << "0branch", "offset" >>)
  BY DEF Joined
<1>3. Joined(Layout("of"), o, p) /\ Slot("of") = 4 /\ Len(o) \in Nat /\ Len(p) \in Nat
  BY DEF Joined, Layout, Slot
<1>4. Lays(code, c, {}, o) /\ HoleOf(c) = Len(code) + 2 + 2
  BY <1>1, <1>2, LaysForward
<1>5. code' = Append(c, Cell("drop")) /\ stack' = Append(stack, HoleOf(c))
  BY DEF Of
<1> HIDE DEF c, o
<1>6. Lays(c, Append(c, Cell("drop")), {}, p)
  <2>1. c \in Seq(CodeCell) /\ Cell("drop") \in CodeCell /\ Cell("drop").op = "drop"
    BY <1>1, <1>4, CellIs DEF Lays
  <2>2. QED
    BY <2>1, LaysCell
<1> HIDE DEF p
<1>7. Lays(code, code', {}, Layout("of"))
  BY <1>3, <1>4, <1>5, <1>6, LaysOn
<1>8. stack' = Append(stack, Len(code) + Slot("of"))
  BY <1>1, <1>3, <1>4, <1>5
<1>9. nest' = Append(nest, "of") /\ "of" \in Openers \cap Aheads /\ "of" \in TurnsOf("of")
  BY DEF Of, Begins, Openers, Aheads, TurnsOf
<1>10. QED
  BY <1>7, <1>8, <1>9, BranchFollows

\* Words that open a structure and leave no offset to fill in.
LEMMA StartFollows ==
  ASSUME NEW w, NEW n, NEW F, Writing(w, n, F), w \in {"begin", "case"},
         NEW x, nest' = Append(nest, w), UNCHANGED code, stack' = Append(stack, x),
         x = IF w = "begin" THEN Here ELSE 0
  PROVE  \E G : Follows(G)'
<1> SUFFICES ASSUME NEW i, i = Len(nest) + 1,
                    NEW g, g = [kind |-> w, start |-> n + 1, turn |-> n + 1,
                                low |-> Len(stack), high |-> Len(stack) + 1]
             PROVE  \E G : Follows(G)'
  OBVIOUS
<1>1. /\ Extends(w) /\ n = Len(text) /\ stack \in Seq(Nat) /\ code \in Seq(CodeCell) /\ Here \in Nat
  BY DEF Writing, Extends, Here
<1>2. /\ Len(stack) \in Nat /\ Len(stack') = Len(stack) + 1 /\ stack'[Len(stack) + 1] = x
      /\ \A j \in 1..Len(stack) : stack'[j] = stack[j]
  <2>1. x \in Nat
    BY <1>1
  <2>2. QED
    BY <1>1, <2>1
<1>3. /\ g.kind = w /\ g.start = n + 1 /\ g.turn = n + 1 /\ g.low = Len(stack) /\ g.high = Len(stack) + 1
  OBVIOUS
<1>4. Lays(code, code', {}, Layout(w))
  <2>1. Layout(w) = << >>
    BY DEF Layout
  <2>2. QED
    BY <1>1, <2>1, LaysNothing
<1>5. n \in Nat /\ text'[n + 1] = w /\ Len(text') = n + 1
  BY <1>1, Extended
<1>6. Slots(g, i)'
  <2>1. CASE w = "begin"
    <3>1. Address((n + 1) + 1)' = Here
      <4>1. Address(n + 2)' = Here'
        BY <1>1, AddressNext
      <4>2. (n + 1) + 1 = n + 2
        BY <1>5
      <4>3. QED
        BY <4>1, <4>2 DEF Here
    <3>2. Address(g.start + 1)' = Here
      BY <1>3, <3>1
    <3>3. QED
      BY <1>2, <1>3, <2>1, <3>2 DEF Slots
  <2>2. CASE w = "case"
    <3>1. EndOfs(g, i)' = {} /\ g.low + 2..g.high = {}
      <4>1. g.start + 1..Len(text') = {}
        BY <1>3, <1>5
      <4>2. QED
        BY <1>2, <1>3, <4>1 DEF EndOfs
    <3>2. {stack'[j] : j \in g.low + 2..g.high} = {OffsetOf(k)' : k \in EndOfs(g, i)'}
      BY <3>1
    <3>3. /\ g.kind = "case" /\ g.high > g.low /\ g.turn = g.start /\ text'[g.start] = "case"
          /\ stack'[g.low + 1] = 0
      BY <1>2, <1>3, <1>5, <2>2
    <3>4. QED
      BY ONLY <3>2, <3>3 DEF Slots
  <2>3. QED
    BY <2>1, <2>2
<1>7. w \notin Jumping /\ w \in Openers
  BY DEF Jumping, Aheads, Backs, Openers
<1>8. QED
  BY <1>2, <1>3, <1>4, <1>6, <1>7, Opens

LEMMA BeginFollows ==
  ASSUME NEW n, NEW F, Writing("begin", n, F), Begin
  PROVE  \E G : Follows(G)'
<1>1. nest' = Append(nest, "begin") /\ UNCHANGED code /\ stack' = Append(stack, Here)
  BY DEF Begin, Begins
<1>2. QED
  BY <1>1, StartFollows

LEMMA CaseFollows ==
  ASSUME NEW n, NEW F, Writing("case", n, F), Case
  PROVE  \E G : Follows(G)'
<1>1. nest' = Append(nest, "case") /\ UNCHANGED code /\ stack' = Append(stack, 0)
  BY DEF Case, Begins
<1>2. QED
  BY <1>1, StartFollows

LEMMA DoFollows ==
  ASSUME NEW n, NEW F, Writing("do", n, F), Do
  PROVE  \E G : Follows(G)'
<1> SUFFICES ASSUME NEW i, i = Len(nest) + 1,
                    NEW g, g = [kind |-> "do", start |-> n + 1, turn |-> n + 1,
                                low |-> Len(stack), high |-> Len(stack) + 2]
             PROVE  \E G : Follows(G)'
  OBVIOUS
<1>1. /\ Extends("do") /\ n = Len(text) /\ stack \in Seq(Nat) /\ code \in Seq(CodeCell)
  BY DEF Writing, Extends
<1>2. Lays(code, code', {}, Layout("do")) /\ Len(code') \in Nat
  <2>1. Cell("(>loop-sys)") \in CodeCell /\ Cell("(>loop-sys)").op = "(>loop-sys)"
    BY CellIs DEF Ops
  <2>2. Lays(code, code', {}, << "(>loop-sys)" >>)
    BY <1>1, <2>1, LaysCell DEF Do
  <2>3. Layout("do") = << "(>loop-sys)" >>
    BY DEF Layout
  <2>4. code' \in Seq(CodeCell)
    BY <2>2 DEF Lays
  <2>5. QED
    BY <2>2, <2>3, <2>4
<1>3. /\ Len(stack) \in Nat /\ Len(stack') = Len(stack) + 2
      /\ stack'[Len(stack) + 1] = 0 /\ stack'[Len(stack) + 2] = Here'
      /\ \A j \in 1..Len(stack) : stack'[j] = stack[j]
  BY <1>1, <1>2 DEF Do, Here
<1>4. /\ g.kind = "do" /\ g.start = n + 1 /\ g.turn = n + 1 /\ g.low = Len(stack) /\ g.high = Len(stack) + 2
  OBVIOUS
<1>5. n \in Nat /\ text'[n + 1] = "do"
  BY <1>1, Extended
<1>6. Address(g.start + 1)' = Here'
  <2>1. Address(n + 2)' = Here'
    BY <1>1, AddressNext
  <2>2. g.start + 1 = n + 2
    BY <1>4, <1>5
  <2>3. QED
    BY <2>1, <2>2
<1>7. Slots(g, i)'
  BY <1>3, <1>4, <1>5, <1>6 DEF Slots
<1>8. "do" \notin Jumping /\ "do" \in Openers /\ nest' = Append(nest, "do")
  BY DEF Jumping, Aheads, Backs, Openers, Do, Begins
<1>9. QED
  BY <1>2, <1>3, <1>4, <1>7, <1>8, Opens

LEMMA QDoFollows ==
  ASSUME NEW n, NEW F, Writing("?do", n, F), QDo
  PROVE  \E G : Follows(G)'
<1> SUFFICES ASSUME NEW i, i = Len(nest) + 1,
                    NEW g, g = [kind |-> "do", start |-> n + 1, turn |-> n + 1,
                                low |-> Len(stack), high |-> Len(stack) + 3]
             PROVE  \E G : Follows(G)'
  OBVIOUS
<1> DEFINE b == << "2dup", "(>loop-sys)", "=", "not" >>
<1>1. /\ Extends("?do") /\ n = Len(text) /\ stack \in Seq(Nat) /\ code \in Seq(CodeCell)
  BY DEF Writing, Extends
<1>2. b \in Seq(Ops) /\ "0branch" \in Ops /\ Len(b) = 4
  BY DEF Ops
<1>3. Joined(Layout("?do"), b, << "0branch", "offset" >>) /\ Slot("?do") = 6
  BY DEF Joined, Layout, Slot
<1>4. code' = Forward(b, "0branch") /\ stack' = stack \o << HoleOf(code'), 1, Len(code') + 1 >>
  BY DEF QDo
<1> HIDE DEF b
<1>5. Lays(code, code', {}, Layout("?do")) /\ HoleOf(code') = Len(code) + 6
  <2>1. Lays(code, code', {}, Layout("?do")) /\ HoleOf(code') = Len(code) + 4 + 2
    BY <1>1, <1>2, <1>3, <1>4, LaysForward
  <2>2. QED
    BY <1>1, <2>1
<1>6. /\ Len(stack) \in Nat /\ Len(stack') = Len(stack) + 3
      /\ stack'[Len(stack) + 1] = Len(code) + 6
      /\ stack'[Len(stack) + 2] = 1
      /\ stack'[Len(stack) + 3] = Here'
      /\ \A j \in 1..Len(stack) : stack'[j] = stack[j]
  <2> SUFFICES ASSUME NEW x \in Nat, NEW y \in Nat, x = Len(code) + 6, y = Here',
                      stack' = stack \o << x, 1, y >>
               PROVE  /\ Len(stack) \in Nat /\ Len(stack') = Len(stack) + 3
                      /\ stack'[Len(stack) + 1] = x
                      /\ stack'[Len(stack) + 2] = 1
                      /\ stack'[Len(stack) + 3] = y
                      /\ \A j \in 1..Len(stack) : stack'[j] = stack[j]
    BY <1>1, <1>4, <1>5 DEF Lays, Here
  <2>1. QED
    BY <1>1
<1>7. /\ g.kind = "do" /\ g.start = n + 1 /\ g.turn = n + 1 /\ g.low = Len(stack) /\ g.high = Len(stack) + 3
  OBVIOUS
<1>8. n \in Nat /\ text'[n + 1] = "?do" /\ OffsetOf(n + 1)' = Len(code) + 6
  BY <1>1, <1>3, Extended, OffsetNext DEF Jumping, Aheads
<1>9. Address(g.start + 1)' = Here'
  <2>1. Address(n + 2)' = Here'
    BY <1>1, AddressNext
  <2>2. g.start + 1 = n + 2
    BY <1>7, <1>8
  <2>3. QED
    BY <2>1, <2>2
<1>10. Slots(g, i)'
  BY <1>6, <1>7, <1>8, <1>9 DEF Slots
<1>11. n + 1 \in Owned(g, i)'
  BY <1>7, <1>8 DEF Owned
<1>12. "?do" \in Openers /\ nest' = Append(nest, "do")
  BY DEF Openers, QDo, Begins
<1>13. QED
  BY <1>5, <1>6, <1>7, <1>10, <1>11, <1>12, Opens

----------------------------------------------------------------------------
(* The words that close a structure, or turn in it.                        *)

LEMMA TopFrame ==
  ASSUME NEW w, NEW n, NEW F, NEW i, NEW f, Inmost(w, n, F, i, f)
  PROVE  /\ Extends(w) /\ Written /\ n = Len(text) /\ n \in Nat /\ code \in Seq(CodeCell)
         /\ i \in Nat /\ i >= 1 /\ i \in 1..Len(nest) /\ f.kind = Last(nest)
         /\ f.low \in Nat /\ f.low >= 1 /\ f.high = Len(stack) /\ f.high \in Nat /\ f.low < f.high
         /\ Last(stack) = stack[f.high] /\ Front(stack) \in Seq(Nat) /\ Len(Front(stack)) = f.high - 1
         /\ \A j \in 1..f.high - 1 : Front(stack)[j] = stack[j]
         /\ Open(f, i) /\ Slots(f, i)
         /\ f.start \in 1..n /\ f.turn \in 1..n /\ f.turn >= f.start
         /\ w \notin Openers => Level(n + 1)' = i
<1>0. Writing(w, n, F) /\ nest # << >> /\ i = Len(nest) /\ f = F[i]
  BY DEF Inmost
<1> USE <1>0
<1>1. /\ Extends(w) /\ n = Len(text) /\ Follows(F) /\ nest \in Seq(Kinds)
      /\ stack \in Seq(Nat) /\ Len(stack) >= 1
      /\ nest # << >> /\ i = Len(nest) /\ f = F[i]
  BY DEF Writing, Inmost
<1>2. n \in Nat /\ i \in Nat /\ i >= 1 /\ i \in 1..Len(nest) /\ Last(nest) = nest[i] /\ i # 0
      /\ code \in Seq(CodeCell)
  <2>1. n \in Nat /\ code \in Seq(CodeCell)
    BY <1>1 DEF Extends
  <2>2. Len(nest) \in Nat /\ Len(nest) >= 1 /\ Last(nest) = nest[Len(nest)]
    BY <1>1, FrontLast
  <2>3. QED
    BY <2>1, <2>2
<1>3. Frame(F, i) /\ Len(stack) = f.high
  BY <1>1, <1>2 DEF Follows, Framed, Top
<1>4. /\ f.kind = nest[i] /\ f.low \in Nat /\ f.low >= 1 /\ f.high \in Nat /\ f.low < f.high
      /\ Open(f, i) /\ Slots(f, i)
  BY <1>3 DEF Frame
<1>5. f.start \in 1..n /\ f.turn \in 1..n /\ f.turn >= f.start
  BY <1>1, <1>2, <1>4 DEF Open
<1>6. stack # << >>
  BY <1>1
<1>7. /\ Last(stack) = stack[f.high] /\ Front(stack) \in Seq(Nat) /\ Len(Front(stack)) = f.high - 1
      /\ \A j \in 1..f.high - 1 : Front(stack)[j] = stack[j]
  BY <1>1, <1>3, <1>6, FrontLast
<1>8. w \notin Openers => Level(n + 1)' = i
  <2>1. Level(n + 1)' = Len(nest) + (IF w \in Openers THEN 1 ELSE 0)
    BY <1>1, LevelNext DEF Follows
  <2>2. QED
    BY <1>2, <2>1
<1>9. QED
  BY <1>1, <1>2, <1>3, <1>4, <1>5, <1>7, <1>8 DEF Follows

\* The hole of the innermost structure belongs to the last of its words.
LEMMA TurnHole ==
  ASSUME NEW w, NEW n, NEW F, NEW i, NEW f, Inmost(w, n, F, i, f),
         Last(nest) \in {"if", "else", "of", "while"}
  PROVE  /\ stack[f.high] = OffsetOf(f.turn) /\ OffsetOf(f.turn) \in 1..Len(code)
         /\ {OffsetOf(k) : k \in {f.turn}} = {stack[f.high]}
         /\ text[f.turn] \in Aheads /\ text[f.turn] \in Jumping /\ Owned(f, i) = {f.turn}
         /\ text[f.turn] \in IF f.kind = "while" THEN {"while"} ELSE TurnsOf(f.kind)
         /\ f.high = f.low + IF f.kind = "while" THEN 2 ELSE 1
<1>1. Slots(f, i) /\ f.kind \in {"if", "else", "of", "while"} /\ f.turn \in 1..Len(text)
      /\ Extends(w) /\ Written
  BY TopFrame
<1>2. /\ stack[f.high] = OffsetOf(f.turn)
      /\ text[f.turn] \in IF f.kind = "while" THEN {"while"} ELSE TurnsOf(f.kind)
      /\ f.high = f.low + IF f.kind = "while" THEN 2 ELSE 1
  BY <1>1 DEF Slots
<1>3. text[f.turn] \in Aheads
  BY <1>1, <1>2 DEF TurnsOf, Aheads
<1>4. text[f.turn] \in Jumping
  BY <1>3 DEF Jumping
<1>5. OffsetOf(f.turn) \in 1..Len(code)
  BY <1>1, <1>4, OffsetType
<1>6. Owned(f, i) = {f.turn}
  BY <1>1 DEF Owned
<1>7. {OffsetOf(k) : k \in {f.turn}} = {stack[f.high]}
  BY <1>2
<1>8. QED
  BY <1>2, <1>3, <1>4, <1>5, <1>6, <1>7

LEMMA TurnFilled ==
  ASSUME NEW w, NEW n, NEW F, NEW i, NEW f, Inmost(w, n, F, i, f),
         \/ Last(nest) = "if" /\ w \in {"else", "then"}
         \/ Last(nest) = "else" /\ w = "then"
         \/ Last(nest) = "of" /\ w = "endof"
         \/ Last(nest) = "while" /\ w = "repeat",
         NEW a, a = stack[f.high], a + code'[a].off = Here'
  PROVE  \A k \in {f.turn} : k \in 1..n /\ text[k] \in Jumping /\ Settled(k)'
<1>1. Last(nest) \in {"if", "else", "of", "while"}
  OBVIOUS
<1>2. /\ a = OffsetOf(f.turn) /\ text[f.turn] \in Aheads /\ text[f.turn] \in Jumping
      /\ text[f.turn] \in IF f.kind = "while" THEN {"while"} ELSE TurnsOf(f.kind)
  BY <1>1, TurnHole
<1>3. w \notin Openers
  BY DEF Openers
<1>4. /\ Extends(w) /\ n = Len(text) /\ f.kind = Last(nest) /\ i \in Nat /\ Open(f, i)
      /\ f.turn \in 1..n /\ Level(n + 1)' = i
  BY <1>3, TopFrame
<1>5. w \in Stops(text[f.turn]) /\ text[f.turn] # "endof" /\ text[f.turn] # "?do"
  BY <1>2, <1>4 DEF Stops, TurnsOf
<1>6. StopLevel(f.turn) = i
  BY <1>4, <1>5 DEF Open, StopLevel
<1>7. a + code'[a].off = IF text[f.turn] = "?do" THEN Here' - 1 ELSE Here'
  BY <1>5
<1>8. f.turn >= f.turn
  BY <1>4
<1>9. Settled(f.turn)'
  BY <1>2, <1>4, <1>5, <1>6, <1>7, <1>8, SettlesAhead
<1>10. QED
  BY <1>2, <1>4, <1>9

LEMMA ThenFollows ==
  ASSUME NEW n, NEW F, Writing("then", n, F), Then
  PROVE  \E G : Follows(G)'
<1> SUFFICES ASSUME NEW i, NEW f, NEW a, Inmost("then", n, F, i, f), a = stack[f.high]
             PROVE  \E G : Follows(G)'
  BY DEF Then, Within, Inmost
<1>1. nest # << >> /\ Last(nest) \in {"if", "else"} /\ nest' = Front(nest)
      /\ code' = Patched(code, Last(stack)) /\ stack' = Front(stack)
  BY DEF Then, Within, Ends
<1>2. /\ code \in Seq(CodeCell) /\ Last(stack) = a /\ f.high \in Nat /\ f.low \in Nat
      /\ f.kind = Last(nest) /\ Len(stack') = f.high - 1
      /\ \A j \in 1..f.high - 1 : stack'[j] = stack[j]
  BY <1>1, TopFrame
<1>3. /\ a \in 1..Len(code) /\ {OffsetOf(k) : k \in {f.turn}} = {a} /\ Owned(f, i) = {f.turn}
      /\ f.high - 1 = f.low
  <2>1. Last(nest) \in {"if", "else", "of", "while"}
    BY <1>1
  <2>2. /\ stack[f.high] = OffsetOf(f.turn) /\ OffsetOf(f.turn) \in 1..Len(code)
        /\ {OffsetOf(k) : k \in {f.turn}} = {stack[f.high]} /\ Owned(f, i) = {f.turn}
        /\ f.high = f.low + IF f.kind = "while" THEN 2 ELSE 1
    BY <1>1, <2>1, TurnHole
  <2>3. f.kind # "while"
    BY <1>1, <1>2
  <2>4. QED
    BY <1>2, <2>2, <2>3
<1>4. Lays(code, code', {a}, << >>) /\ a + code'[a].off = Len(code) + 1
  BY <1>1, <1>2, <1>3, LaysPatch
<1>5. Lays(code, code', {OffsetOf(k) : k \in {f.turn}}, Layout("then"))
  BY <1>3, <1>4 DEF Layout
<1>6. a + code'[a].off = Here'
  BY <1>2, <1>4 DEF Lays, Here
<1>7. \A k \in {f.turn} : k \in 1..n /\ text[k] \in Jumping /\ Settled(k)'
  BY <1>1, <1>6, TurnFilled
<1>8. "then" \in Closers /\ "then" # "endof" /\ "then" \notin Jumping
  BY DEF Closers, Jumping, Aheads, Backs
<1>9. Len(stack') = f.low /\ (\A j \in 1..f.low : stack'[j] = stack[j]) /\ Owned(f, i) \subseteq {f.turn}
  BY <1>2, <1>3
<1>10. Closing("then", n, F, i, f, {f.turn})
  BY <1>1, <1>5, <1>7, <1>8, <1>9 DEF Closing
<1>11. QED
  BY <1>10, Closes

\* ELSE and ENDOF: a branch is laid down, then a hole before it is filled in.
LEMMA LaysOver ==
  ASSUME code \in Seq(CodeCell), NEW c, c = Forward(<< >>, "branch"), NEW a \in 1..Len(code),
         NEW w \in {"else", "endof"}, code' = Patched(c, a)
  PROVE  /\ Lays(code, code', {a}, Layout(w)) /\ a + code'[a].off = Here'
         /\ HoleOf(c) = Len(code) + Slot(w)
<1> DEFINE o == << "branch", "offset" >>
<1>1. << >> \in Seq(Ops) /\ "branch" \in Ops
  BY DEF Ops
<1>2. /\ Joined(o, << >>, << "branch", "offset" >>) /\ Slot(w) = 2
      /\ Joined(Layout(w), o, << >>) /\ Len(o) \in Nat /\ Len(<< >>) \in Nat
  BY DEF Joined, Layout, Slot
<1>3. Lays(code, c, {}, o) /\ HoleOf(c) = Len(code) + 0 + 2
  BY <1>1, <1>2, LaysForward
<1>4. c \in Seq(CodeCell) /\ Len(code) \in Nat /\ Len(c) = Len(code) + 2 /\ a \in 1..Len(c)
  BY <1>3 DEF Lays
<1> HIDE DEF o
<1>5. Lays(c, code', {a}, << >>) /\ a + code'[a].off = Len(c) + 1
  BY <1>4, LaysPatch
<1>6. Lays(code, code', {a}, Layout(w))
  BY <1>2, <1>3, <1>5, LaysOn
<1>7. Len(code') = Len(c)
  BY <1>4, <1>5 DEF Lays
<1>8. QED
  BY <1>2, <1>3, <1>4, <1>5, <1>6, <1>7 DEF Here

LEMMA ElseFollows ==
  ASSUME NEW n, NEW F, Writing("else", n, F), Else
  PROVE  \E G : Follows(G)'
<1> SUFFICES ASSUME NEW i, NEW f, NEW a, Inmost("else", n, F, i, f), a = stack[f.high],
                    NEW c, c = Forward(<< >>, "branch"),
                    NEW g, g = [kind |-> "else", start |-> f.start, turn |-> n + 1,
                                low |-> f.low, high |-> f.low + 1]
             PROVE  \E G : Follows(G)'
  BY DEF Else, Within, Inmost
<1>1. /\ Last(nest) = "if" /\ nest' = Append(Front(nest), "else")
      /\ code' = Patched(c, Last(stack)) /\ stack' = Append(Front(stack), HoleOf(c))
  BY DEF Else, Within, Turns
<1>2. /\ code \in Seq(CodeCell) /\ Last(stack) = a /\ f.high \in Nat /\ f.low \in Nat
      /\ f.kind = "if" /\ Front(stack) \in Seq(Nat) /\ Len(Front(stack)) = f.high - 1
      /\ \A j \in 1..f.high - 1 : Front(stack)[j] = stack[j]
      /\ Extends("else") /\ n = Len(text)
  BY <1>1, TopFrame
<1>3. /\ a \in 1..Len(code) /\ {OffsetOf(k) : k \in {f.turn}} = {a} /\ Owned(f, i) = {f.turn}
      /\ f.high = f.low + 1
  <2>1. Last(nest) \in {"if", "else", "of", "while"}
    BY <1>1
  <2>2. /\ stack[f.high] = OffsetOf(f.turn) /\ OffsetOf(f.turn) \in 1..Len(code)
        /\ {OffsetOf(k) : k \in {f.turn}} = {stack[f.high]} /\ Owned(f, i) = {f.turn}
        /\ f.high = f.low + IF f.kind = "while" THEN 2 ELSE 1
    BY <2>1, TurnHole
  <2>3. QED
    BY <1>2, <2>2
<1>4. /\ Lays(code, code', {a}, Layout("else")) /\ a + code'[a].off = Here'
      /\ HoleOf(c) = Len(code) + Slot("else")
  BY <1>1, <1>2, <1>3, LaysOver
<1>5. \A k \in {f.turn} : k \in 1..n /\ text[k] \in Jumping /\ Settled(k)'
  BY <1>1, <1>4, TurnFilled
<1>6. g.kind = "else" /\ g.start = f.start /\ g.turn = n + 1 /\ g.low = f.low /\ g.high = f.low + 1
  OBVIOUS
<1>7. /\ Len(stack') = f.low + 1 /\ stack'[f.low + 1] = HoleOf(c)
      /\ \A j \in 1..f.low : stack'[j] = stack[j]
  <2>1. HoleOf(c) \in Nat
    BY <1>2, <1>4 DEF Slot
  <2>2. QED
    BY <1>1, <1>2, <1>3, <2>1
<1>8. text'[n + 1] = "else" /\ OffsetOf(n + 1)' = HoleOf(c)
  <2>1. text'[n + 1] = "else"
    BY <1>2, Extended
  <2>2. "else" \in Jumping
    BY DEF Jumping, Aheads
  <2>3. OffsetOf(n + 1)' = Len(code) + Slot("else")
    BY <1>2, <2>2, OffsetNext
  <2>4. QED
    BY <1>4, <2>1, <2>3
<1>9. Slots(g, i)' /\ n + 1 \in Owned(g, i)'
  BY <1>6, <1>7, <1>8 DEF Slots, Owned, TurnsOf
<1>10. Lays(code, code', {OffsetOf(k) : k \in {f.turn}}, Layout("else"))
  BY <1>3, <1>4
<1>11. g.high = Len(stack') /\ Len(stack') > f.low
  BY <1>2, <1>6, <1>7
<1>12. Changing("else", n, F, i, f, g, {f.turn})
  BY <1>1, <1>3, <1>5, <1>6, <1>7, <1>9, <1>10, <1>11 DEF Changing
<1>13. QED
  BY <1>12, Turned

LEMMA WhileFollows ==
  ASSUME NEW n, NEW F, Writing("while", n, F), While
  PROVE  \E G : Follows(G)'
<1> SUFFICES ASSUME NEW i, NEW f, Inmost("while", n, F, i, f),
                    NEW g, g = [kind |-> "while", start |-> f.start, turn |-> n + 1,
                                low |-> f.low, high |-> f.low + 2]
             PROVE  \E G : Follows(G)'
  BY DEF While, Within, Inmost
<1>1. /\ Last(nest) = "begin" /\ nest' = Append(Front(nest), "while")
      /\ code' = Forward(<< >>, "0branch") /\ stack' = Append(stack, HoleOf(code'))
  BY DEF While, Within, Turns
<1>2. /\ code \in Seq(CodeCell) /\ f.high \in Nat /\ f.low \in Nat
      /\ f.kind = "begin" /\ f.high = Len(stack) /\ Slots(f, i) /\ f.start \in 1..n
      /\ Extends("while") /\ n = Len(text) /\ n \in Nat /\ stack \in Seq(Nat)
  BY <1>1, TopFrame DEF Inmost, Writing
<1>3. f.high = f.low + 1 /\ stack[f.high] = Address(f.start + 1) /\ Owned(f, i) = {}
  BY <1>2 DEF Slots, Owned
<1>4. Lays(code, code', {}, Layout("while")) /\ HoleOf(code') = Len(code) + 0 + 2
  <2>1. << >> \in Seq(Ops) /\ "0branch" \in Ops
    BY DEF Ops
  <2>2. Joined(Layout("while"), << >>, << "0branch", "offset" >>)
    BY DEF Joined, Layout
  <2>3. QED
    BY <1>1, <1>2, <2>1, <2>2, LaysForward
<1>5. g.kind = "while" /\ g.start = f.start /\ g.turn = n + 1 /\ g.low = f.low /\ g.high = f.low + 2
  OBVIOUS
<1>6. /\ Len(stack') = f.low + 2 /\ stack'[f.low + 2] = Len(code) + 2
      /\ stack'[f.low + 1] = Address(f.start + 1)
      /\ \A j \in 1..f.low : stack'[j] = stack[j]
  <2>1. Len(code) \in Nat /\ HoleOf(code') \in Nat /\ HoleOf(code') = Len(code) + 2
    BY <1>2, <1>4
  <2>2. /\ Len(stack') = Len(stack) + 1 /\ stack'[Len(stack) + 1] = HoleOf(code')
        /\ \A j \in 1..Len(stack) : stack'[j] = stack[j]
    BY <1>1, <1>2, <2>1
  <2>3. Len(stack) = f.low + 1 /\ Len(stack) + 1 = f.low + 2
    BY <1>2, <1>3
  <2>4. f.low + 1 \in 1..Len(stack) /\ \A j \in 1..f.low : j \in 1..Len(stack)
    BY <1>2, <2>3
  <2>5. stack'[f.low + 1] = Address(f.start + 1)
    BY <1>2, <1>3, <2>2, <2>3, <2>4
  <2>6. QED
    BY <2>1, <2>2, <2>3, <2>4, <2>5
<1>7. text'[n + 1] = "while" /\ OffsetOf(n + 1)' = Len(code) + 2
  <2>1. text'[n + 1] = "while"
    BY <1>2, Extended
  <2>2. "while" \in Jumping /\ Slot("while") = 2
    BY DEF Jumping, Aheads, Slot
  <2>3. OffsetOf(n + 1)' = Len(code) + Slot("while")
    BY <1>2, <2>2, OffsetNext
  <2>4. QED
    BY <2>1, <2>2, <2>3
<1>8. Address(f.start + 1)' = Address(f.start + 1)
  <2>1. f.start + 1 \in 1..n + 1
    BY <1>2
  <2>2. QED
    BY <1>2, <2>1, AddressSame
<1>9. Slots(g, i)' /\ n + 1 \in Owned(g, i)'
  BY <1>5, <1>6, <1>7, <1>8 DEF Slots, Owned
<1>10. Lays(code, code', {OffsetOf(k) : k \in {}}, Layout("while"))
  <2>1. {OffsetOf(k) : k \in {}} = {}
    OBVIOUS
  <2>2. QED
    BY <1>4, <2>1
<1>11. g.high = Len(stack') /\ Len(stack') > f.low
  BY <1>2, <1>5, <1>6
<1>12. Changing("while", n, F, i, f, g, {})
  BY <1>1, <1>3, <1>5, <1>6, <1>9, <1>10, <1>11 DEF Changing
<1>13. QED
  BY <1>12, Turned

\* A branch back to a.
LEMMA LaysReturn ==
  ASSUME code \in Seq(CodeCell), NEW br \in {"branch", "0branch"}, NEW a \in Nat,
         NEW e, e = Back(Append(code, Cell(br)), a)
  PROVE  /\ Lays(code, e, {}, << br, "offset" >>) /\ Len(e) = Len(code) + 2
         /\ (Len(code) + 2) + e[Len(code) + 2].off = a
<1> DEFINE x == Cell(br)
           c == Append(code, x)
           o == << br >>
           p == << "offset" >>
           r == << br, "offset" >>
<1>1. x \in CodeCell /\ x.op = br
  BY CellIs DEF Ops
<1>2. Len(o) = 1 /\ Len(p) = 1 /\ Joined(r, o, p)
  BY DEF Joined
<1>3. e = Back(c, a)
  OBVIOUS
<1>4. Lays(code, c, {}, << x.op >>)
  BY <1>1, LaysCell
<1>5. Lays(code, c, {}, o)
  BY <1>1, <1>4
<1> HIDE DEF x, c
<1>6. c \in Seq(CodeCell) /\ Len(c) = Len(code) + 1 /\ Len(code) \in Nat
  BY <1>2, <1>5 DEF Lays
<1>7. Lays(c, e, {}, p) /\ (Len(c) + 1) + e[Len(c) + 1].off = a
  BY <1>3, <1>6, LaysBack
<1> HIDE DEF o, p, r
<1>8. Lays(code, e, {}, r)
  BY <1>2, <1>5, <1>7, LaysOn
<1>9. Len(c) + 1 = Len(code) + 2 /\ Len(e) = Len(c) + 1
  BY <1>2, <1>6, <1>7 DEF Lays
<1>10. QED
  BY <1>7, <1>8, <1>9 DEF r

LEMMA BackFollows ==
  ASSUME NEW n, NEW F, NEW w \in {"until", "again"}, Writing(w, n, F), NEW br,
         br = IF w = "until" THEN "0branch" ELSE "branch", Within({"begin"}), Ends,
         code' = Back(Append(code, Cell(br)), Last(stack)), stack' = Front(stack)
  PROVE  \E G : Follows(G)'
<1> SUFFICES ASSUME NEW i, NEW f, Inmost(w, n, F, i, f), NEW a, a = Len(code) + 2
             PROVE  \E G : Follows(G)'
  BY DEF Within, Inmost
<1>1. Last(nest) = "begin" /\ nest' = Front(nest)
  BY DEF Within, Ends
<1>2. w \in Closers /\ w # "endof" /\ w \in Backs /\ w \notin Openers /\ Slot(w) = 2
      /\ Layout(w) = << br, "offset" >>
  BY DEF Closers, Backs, Openers, Slot, Layout
<1>3. /\ code \in Seq(CodeCell) /\ f.high \in Nat /\ f.low \in Nat /\ i \in Nat /\ Open(f, i)
      /\ f.kind = "begin" /\ Slots(f, i) /\ f.start \in 1..n /\ Level(n + 1)' = i
      /\ Extends(w) /\ n = Len(text) /\ n \in Nat /\ Last(stack) = stack[f.high]
      /\ Len(stack') = f.high - 1 /\ \A j \in 1..f.high - 1 : stack'[j] = stack[j]
  BY <1>1, <1>2, TopFrame
<1>4. f.high = f.low + 1 /\ stack[f.high] = Address(f.start + 1) /\ Owned(f, i) = {}
  BY <1>3 DEF Slots, Owned
<1>5. Address(f.start + 1) \in Nat
  <2>1. f.start + 1 \in 1..Len(text) + 1
    BY <1>3
  <2>2. QED
    BY <1>3, <2>1, AddressSame
<1>6. Lays(code, code', {}, << br, "offset" >>) /\ a + code'[a].off = Address(f.start + 1)
  BY <1>3, <1>4, <1>5, LaysReturn
<1>7. Settled(n + 1)'
  <2>1. a = Len(code) + Slot(w) /\ a + code'[a].off = Address(f.start + 1)
    BY <1>2, <1>6
  <2>2. QED
    BY <1>2, <1>3, <2>1, SettlesBack
<1>8. Lays(code, code', {OffsetOf(k) : k \in {}}, Layout(w))
  <2>1. {OffsetOf(k) : k \in {}} = {}
    OBVIOUS
  <2>2. QED
    BY <1>2, <1>6, <2>1
<1>9. Len(stack') = f.low /\ \A j \in 1..f.low : stack'[j] = stack[j]
  BY <1>3, <1>4
<1>10. Closing(w, n, F, i, f, {})
  BY <1>1, <1>2, <1>4, <1>7, <1>8, <1>9 DEF Closing
<1>11. QED
  BY <1>10, Closes

LEMMA UntilFollows ==
  ASSUME NEW n, NEW F, Writing("until", n, F), Until
  PROVE  \E G : Follows(G)'
BY BackFollows DEF Until

LEMMA AgainFollows ==
  ASSUME NEW n, NEW F, Writing("again", n, F), Again
  PROVE  \E G : Follows(G)'
BY BackFollows DEF Again

LEMMA RepeatFollows ==
  ASSUME NEW n, NEW F, Writing("repeat", n, F), Repeat
  PROVE  \E G : Follows(G)'
<1> SUFFICES ASSUME NEW i, NEW f, Inmost("repeat", n, F, i, f), NEW a, a = stack[f.high],
                    NEW b, b = Len(code) + 2,
                    NEW e, e = Back(Append(code, Cell("branch")), Last(Front(stack)))
             PROVE  \E G : Follows(G)'
  BY DEF Repeat, Within, Inmost
<1>1. /\ Last(nest) = "while" /\ nest' = Front(nest)
      /\ code' = Patched(e, Last(stack)) /\ stack' = Front(Front(stack))
  BY DEF Repeat, Within, Ends
<1>2. "repeat" \in Closers /\ "repeat" # "endof" /\ "repeat" \in Backs /\ "repeat" \notin Openers
      /\ Slot("repeat") = 2 /\ Layout("repeat") = << "branch", "offset" >>
  BY DEF Closers, Backs, Openers, Slot, Layout
<1>3. /\ code \in Seq(CodeCell) /\ f.high \in Nat /\ f.low \in Nat /\ i \in Nat /\ Open(f, i)
      /\ f.kind = "while" /\ Slots(f, i) /\ f.start \in 1..n /\ Level(n + 1)' = i
      /\ Extends("repeat") /\ n = Len(text) /\ n \in Nat /\ Last(stack) = a
      /\ f.high = Len(stack) /\ f.low >= 1 /\ stack \in Seq(Nat)
  <2>1. stack \in Seq(Nat)
    BY DEF Inmost, Writing
  <2>2. QED
    BY <1>1, <1>2, <2>1, TopFrame
<1>4. f.high = f.low + 2 /\ stack[f.low + 1] = Address(f.start + 1)
  BY <1>3 DEF Slots
<1>5. /\ a \in 1..Len(code) /\ {OffsetOf(k) : k \in {f.turn}} = {a} /\ Owned(f, i) = {f.turn}
  <2>1. Last(nest) \in {"if", "else", "of", "while"}
    BY <1>1
  <2>2. /\ stack[f.high] = OffsetOf(f.turn) /\ OffsetOf(f.turn) \in 1..Len(code)
        /\ {OffsetOf(k) : k \in {f.turn}} = {stack[f.high]} /\ Owned(f, i) = {f.turn}
    BY <2>1, TurnHole
  <2>3. QED
    BY <2>2
<1>6. /\ Len(stack') = f.low /\ Last(Front(stack)) = Address(f.start + 1)
      /\ \A j \in 1..f.low : stack'[j] = stack[j]
  <2>0. f.low \in Nat /\ f.low >= 1 /\ Len(stack) = f.low + 2
    BY <1>3, <1>4
  <2>1. Len(stack) >= 2 /\ Len(stack) - 1 = f.low + 1 /\ Len(stack) - 2 = f.low
    BY ONLY <2>0
  <2>2. /\ Last(Front(stack)) = stack[Len(stack) - 1]
        /\ Len(Front(Front(stack))) = Len(stack) - 2
        /\ \A j \in 1..Len(stack) - 2 : Front(Front(stack))[j] = stack[j]
    BY <1>3, <2>1, FrontFront
  <2>3. QED
    BY <1>1, <1>4, <2>1, <2>2
<1>7. Address(f.start + 1) \in Nat
  <2>1. f.start + 1 \in 1..Len(text) + 1
    BY <1>3
  <2>2. QED
    BY <1>3, <2>1, AddressSame
<1>8. /\ Lays(code, e, {}, << "branch", "offset" >>) /\ Len(e) = Len(code) + 2
      /\ b + e[b].off = Address(f.start + 1)
  BY <1>3, <1>6, <1>7, LaysReturn
<1>9. e \in Seq(CodeCell) /\ Len(code) \in Nat /\ a \in 1..Len(e) /\ b \in 1..Len(e) /\ b # a
  <2>1. e \in Seq(CodeCell)
    BY <1>8 DEF Lays
  <2>2. Len(code) \in Nat
    BY <1>3
  <2>3. QED
    BY <1>5, <1>8, <2>1, <2>2
<1>10. Lays(e, code', {a}, << >>) /\ a + code'[a].off = Len(e) + 1
  BY <1>1, <1>3, <1>9, LaysPatch
<1>11. code'[b] = e[b] /\ Len(code') = Len(e)
  BY <1>9, <1>10 DEF Lays
<1>12. Lays(code, code', {a}, Layout("repeat"))
  <2> DEFINE o == << "branch", "offset" >>
  <2>1. Joined(o, o, << >>) /\ Len(o) \in Nat /\ Len(<< >>) \in Nat
    BY DEF Joined
  <2>2. Lays(code, e, {}, o) /\ Layout("repeat") = o
    BY <1>2, <1>8
  <2> HIDE DEF o
  <2>3. QED
    BY <1>10, <2>1, <2>2, LaysOn
<1>13. a + code'[a].off = Here'
  BY <1>10, <1>11 DEF Here
<1>14. \A k \in {f.turn} : k \in 1..n /\ text[k] \in Jumping /\ Settled(k)'
  BY <1>1, <1>13, TurnFilled
<1>15. Settled(n + 1)'
  <2>1. b + code'[b].off = Address(f.start + 1) /\ b = Len(code) + Slot("repeat")
    BY <1>2, <1>8, <1>11
  <2>2. QED
    BY <1>2, <1>3, <2>1, SettlesBack
<1>16. Lays(code, code', {OffsetOf(k) : k \in {f.turn}}, Layout("repeat"))
  BY <1>5, <1>12
<1>17. Closing("repeat", n, F, i, f, {f.turn})
  BY <1>1, <1>2, <1>5, <1>6, <1>14, <1>15, <1>16 DEF Closing
<1>18. QED
  BY <1>17, Closes

----------------------------------------------------------------------------
(* LOOP and +LOOP.                                                         *)

LoopOps(w) ==
  IF w = "loop"
  THEN << "lit", "1", "dup", "(loop-sys-peek)", "(loop-done?)", "swap", "(loop-inc)", "0branch" >>
  ELSE << "dup", "(loop-sys-peek)", "(loop-done?)", "swap", "(loop-inc)", "0branch" >>

LEMMA LoopOpsType ==
  ASSUME NEW w \in {"loop", "+loop"}
  PROVE  LoopOps(w) \in Seq(Ops) /\ Len(LoopOps(w)) = Slot(w) - 1 /\ Slot(w) \in Nat /\ Slot(w) >= 1
<1>1. CASE w = "loop"
  BY <1>1 DEF LoopOps, Ops, Slot
<1>2. CASE w = "+loop"
  BY <1>2 DEF LoopOps, Ops, Slot
<1>3. QED
  BY <1>1, <1>2

LEMMA LoopOpsAre ==
  ASSUME NEW w \in {"loop", "+loop"}, NEW step,
         step = IF w = "loop" THEN << "lit", "1" >> ELSE << >>
  PROVE  /\ step \o << "dup", "(loop-sys-peek)", "(loop-done?)", "swap", "(loop-inc)", "0branch" >>
              = LoopOps(w)
<1> DEFINE t == << "dup", "(loop-sys-peek)", "(loop-done?)", "swap", "(loop-inc)", "0branch" >>
           q == LoopOps(w)
<1>1. /\ t \in Seq(Ops) /\ Len(t) = 6
      /\ t[1] = "dup" /\ t[2] = "(loop-sys-peek)" /\ t[3] = "(loop-done?)" /\ t[4] = "swap"
      /\ t[5] = "(loop-inc)" /\ t[6] = "0branch"
  BY DEF Ops
<1>2. step \in Seq(Ops)
  <2>1. << "lit", "1" >> \in Seq(Ops) /\ << >> \in Seq(Ops)
    BY DEF Ops
  <2>2. QED
    BY <2>1
<1>3. q \in Seq(Ops)
  BY LoopOpsType
<1> HIDE DEF t
<1>4. CASE w = "+loop"
  <2>1. step = << >>
    BY <1>4
  <2>2. << >> \o t = t
    BY <1>1
  <2>3. q = t
    BY <1>4 DEF LoopOps, t
  <2>4. QED
    BY <1>3, <2>1, <2>2, <2>3 DEF t
<1>5. CASE w = "loop"
  <2> DEFINE v == step \o t
  <2>1. Len(step) = 2 /\ step[1] = "lit" /\ step[2] = "1"
    BY <1>5
  <2>2. /\ v \in Seq(Ops) /\ Len(v) = 8
        /\ \A j \in 1..8 : v[j] = IF j <= 2 THEN step[j] ELSE t[j - 2]
    <3>1. /\ v \in Seq(Ops) /\ Len(v) = Len(step) + Len(t)
          /\ \A j \in 1..Len(step) + Len(t) : v[j] = IF j <= Len(step) THEN step[j] ELSE t[j - Len(step)]
      <4> HIDE DEF v
      <4>1. step \in Seq(Ops) /\ t \in Seq(Ops) /\ v = step \o t
        BY <1>1, <1>2 DEF v
      <4>2. QED
        BY <4>1, ConcatProperties
    <3> HIDE DEF v
    <3>2. QED
      BY <1>1, <2>1, <3>1
  <2> HIDE DEF v
  <2>3. /\ v[1] = "lit" /\ v[2] = "1" /\ v[3] = t[1] /\ v[4] = t[2] /\ v[5] = t[3] /\ v[6] = t[4]
        /\ v[7] = t[5] /\ v[8] = t[6]
    BY <2>1, <2>2
  <2>4. /\ Len(q) = 8 /\ q[1] = "lit" /\ q[2] = "1" /\ q[3] = "dup" /\ q[4] = "(loop-sys-peek)"
        /\ q[5] = "(loop-done?)" /\ q[6] = "swap" /\ q[7] = "(loop-inc)" /\ q[8] = "0branch"
    BY <1>5 DEF LoopOps
  <2> HIDE DEF q
  <2>5. \A j \in 1..8 : v[j] = q[j]
    <3>1. \A j \in 1..8 : j = 1 \/ j = 2 \/ j = 3 \/ j = 4 \/ j = 5 \/ j = 6 \/ j = 7 \/ j = 8
      OBVIOUS
    <3>2. QED
      BY <1>1, <2>3, <2>4, <3>1
  <2>6. v = q
    BY <1>3, <2>2, <2>4, <2>5, SeqEqual
  <2>7. QED
    BY <1>3, <2>6 DEF v, q, t
<1>6. QED
  BY <1>4, <1>5

Looped(w, a, c, r) == c = Back(code \o Words(LoopOps(w)), a) /\ r = Append(LoopOps(w), "offset")

LEMMA LaysLoop ==
  ASSUME code \in Seq(CodeCell), NEW w \in {"loop", "+loop"}, NEW a \in Nat, NEW c, NEW r,
         Looped(w, a, c, r)
  PROVE  /\ Lays(code, c, {}, r) /\ Joined(Layout(w), r, << "unloop" >>) /\ Len(r) \in Nat
         /\ Len(c) = Len(code) + Slot(w) /\ Len(c) + c[Len(c)].off = a
<1> DEFINE q == LoopOps(w)
           p == << "offset" >>
           v == code \o Words(q)
<1>0. c = Back(code \o Words(LoopOps(w)), a) /\ r = Append(LoopOps(w), "offset")
  BY DEF Looped
<1> USE <1>0
<1>1. q \in Seq(Ops) /\ Len(q) = Slot(w) - 1 /\ Slot(w) \in Nat /\ Slot(w) >= 1
  BY LoopOpsType
<1>2. Joined(r, q, p) /\ Len(q) \in Nat /\ Len(p) = 1 /\ Len(r) = Len(q) + 1
  <2>1. r = Append(q, "offset")
    OBVIOUS
  <2>2. p[1] = "offset" /\ Len(p) = 1
    OBVIOUS
  <2> HIDE DEF q, p
  <2>3. Len(r) = Len(q) + 1 /\ r[Len(q) + 1] = "offset" /\ \A j \in 1..Len(q) : r[j] = q[j]
    <3> SUFFICES ASSUME NEW x \in Ops, x = "offset", r = Append(q, x)
                 PROVE  Len(r) = Len(q) + 1 /\ r[Len(q) + 1] = x /\ \A j \in 1..Len(q) : r[j] = q[j]
      BY <2>1 DEF Ops
    <3>1. QED
      BY ONLY <1>1, q \in Seq(Ops), x \in Ops, r = Append(q, x)
  <2>4. QED
    BY <1>1, <2>2, <2>3 DEF Joined
<1>3. Joined(Layout(w), r, << "unloop" >>)
  <2>1. CASE w = "loop"
    <3>1. /\ Len(q) = 8 /\ q[1] = "lit" /\ q[2] = "1" /\ q[3] = "dup" /\ q[4] = "(loop-sys-peek)"
          /\ q[5] = "(loop-done?)" /\ q[6] = "swap" /\ q[7] = "(loop-inc)" /\ q[8] = "0branch"
      BY <2>1 DEF LoopOps
    <3> DEFINE l == Layout(w)
    <3>2. /\ Len(l) = 10 /\ l[1] = "lit" /\ l[2] = "1" /\ l[3] = "dup" /\ l[4] = "(loop-sys-peek)"
          /\ l[5] = "(loop-done?)" /\ l[6] = "swap" /\ l[7] = "(loop-inc)" /\ l[8] = "0branch"
          /\ l[9] = "offset" /\ l[10] = "unloop"
      BY <2>1 DEF Layout
    <3>3. Len(r) = 9 /\ r[9] = "offset" /\ \A j \in 1..8 : r[j] = q[j]
      BY <1>2, <3>1 DEF Joined
    <3> HIDE DEF q, l
    <3>4. \A j \in 1..9 : j = 1 \/ j = 2 \/ j = 3 \/ j = 4 \/ j = 5 \/ j = 6 \/ j = 7 \/ j = 8 \/ j = 9
      OBVIOUS
    <3>5. \A j \in 1..9 : l[j] = r[j]
      BY <3>1, <3>2, <3>3, <3>4
    <3>6. Joined(l, r, << "unloop" >>)
      BY <3>2, <3>3, <3>5 DEF Joined
    <3>7. QED
      BY <3>6 DEF l
  <2>2. CASE w = "+loop"
    <3>1. /\ Len(q) = 6 /\ q[1] = "dup" /\ q[2] = "(loop-sys-peek)" /\ q[3] = "(loop-done?)"
          /\ q[4] = "swap" /\ q[5] = "(loop-inc)" /\ q[6] = "0branch"
      BY <2>2 DEF LoopOps
    <3> DEFINE l == Layout(w)
    <3>2. /\ Len(l) = 8 /\ l[1] = "dup" /\ l[2] = "(loop-sys-peek)" /\ l[3] = "(loop-done?)"
          /\ l[4] = "swap" /\ l[5] = "(loop-inc)" /\ l[6] = "0branch"
          /\ l[7] = "offset" /\ l[8] = "unloop"
      BY <2>2 DEF Layout
    <3>3. Len(r) = 7 /\ r[7] = "offset" /\ \A j \in 1..6 : r[j] = q[j]
      BY <1>2, <3>1 DEF Joined
    <3> HIDE DEF q, l
    <3>4. \A j \in 1..7 : j = 1 \/ j = 2 \/ j = 3 \/ j = 4 \/ j = 5 \/ j = 6 \/ j = 7
      OBVIOUS
    <3>5. \A j \in 1..7 : l[j] = r[j]
      BY <3>1, <3>2, <3>3, <3>4
    <3>6. Joined(l, r, << "unloop" >>)
      BY <3>2, <3>3, <3>5 DEF Joined
    <3>7. QED
      BY <3>6 DEF l
  <2>3. QED
    BY <2>1, <2>2
<1> HIDE DEF q, p
<1>4. Lays(code, v, {}, q)
  BY <1>1, LaysWords
<1>5. c = Back(v, a)
  BY DEF q
<1> HIDE DEF v
<1>6. v \in Seq(CodeCell) /\ Len(v) = Len(code) + (Slot(w) - 1) /\ Len(code) \in Nat
  BY <1>1, <1>4 DEF Lays
<1>7. Lays(v, c, {}, p) /\ (Len(v) + 1) + c[Len(v) + 1].off = a
  BY <1>5, <1>6, LaysBack DEF p
<1>8. Lays(code, c, {}, r)
  BY <1>2, <1>4, <1>7, LaysOn
<1>9. Len(c) = Len(v) + 1
  BY <1>2, <1>7 DEF Lays
<1>10. Len(c) = Len(code) + Slot(w)
  BY <1>1, <1>6, <1>9
<1>11. QED
  BY <1>1, <1>2, <1>3, <1>7, <1>8, <1>9, <1>10

LEMMA LoopFollows ==
  ASSUME NEW n, NEW F, NEW w \in {"loop", "+loop"}, Writing(w, n, F), NEW step,
         step = IF w = "loop" THEN << "lit", "1" >> ELSE << >>,
         Within({"do"}), Ends, EndLoop(step)
  PROVE  \E G : Follows(G)'
<1> SUFFICES ASSUME NEW i, NEW f, Inmost(w, n, F, i, f), NEW a, a = Address(f.start + 1),
                    NEW c, c = Back(code \o Words(LoopOps(w)), a), NEW b, b = Len(code) + Slot(w)
             PROVE  \E G : Follows(G)'
  BY DEF Within, Inmost
<1>1. /\ nest # << >> /\ Last(nest) = "do" /\ nest' = Front(nest)
  BY DEF Within, Ends
<1>2. w \in Closers /\ w # "endof" /\ w \in Backs /\ w \notin Openers
  BY DEF Closers, Backs, Openers
<1>3. /\ f.high \in Nat /\ f.low \in Nat /\ f.low >= 1 /\ f.kind = "do" /\ Slots(f, i)
      /\ Last(stack) = stack[f.high]
  BY <1>1, <1>2, TopFrame
<1>14. /\ code \in Seq(CodeCell) /\ i \in Nat /\ Open(f, i) /\ f.start \in 1..n /\ Level(n + 1)' = i
       /\ Extends(w) /\ Written /\ n = Len(text) /\ n \in Nat
  BY <1>1, <1>2, TopFrame
<1>15. /\ Front(stack) \in Seq(Nat) /\ Len(Front(stack)) = f.high - 1
       /\ \A j \in 1..f.high - 1 : Front(stack)[j] = stack[j]
  BY <1>1, <1>2, TopFrame
<1>4. a \in Nat
  <2>1. f.start + 1 \in 1..Len(text) + 1
    BY <1>14
  <2>2. QED
    BY <1>14, <2>1, AddressSame
<1>5. stack[f.high] = a /\ (f.high = f.low + 2 \/ f.high = f.low + 3)
  BY <1>3 DEF Slots
<1> SUFFICES ASSUME NEW r, r = Append(LoopOps(w), "offset"), NEW rest, rest = Front(stack)
             PROVE  \E G : Follows(G)'
  OBVIOUS
<1>6. /\ Lays(code, c, {}, r) /\ Joined(Layout(w), r, << "unloop" >>) /\ Len(r) \in Nat
      /\ Len(c) = b /\ b + c[b].off = a
  <2>1. Looped(w, a, c, r)
    BY DEF Looped
  <2>2. QED
    BY <1>14, <1>4, <2>1, LaysLoop
<1>7. /\ code' = Append(IF Last(rest) # 0 THEN Patched(c, Last(Front(rest))) ELSE c, Cell("unloop"))
      /\ stack' = IF Last(rest) # 0 THEN Front(Front(rest)) ELSE Front(rest)
  <2>1. step \o << "dup", "(loop-sys-peek)", "(loop-done?)", "swap", "(loop-inc)", "0branch" >> = LoopOps(w)
    BY LoopOpsAre
  <2>2. Last(stack) = a
    BY <1>3, <1>5
  <2>3. QED
    BY <2>1, <2>2 DEF EndLoop
<1>8. /\ c \in Seq(CodeCell) /\ Len(code) \in Nat /\ b \in Nat /\ b > Len(code) /\ b \in 1..Len(c)
      /\ Cell("unloop") \in CodeCell /\ Cell("unloop").op = "unloop"
  <2>1. c \in Seq(CodeCell)
    BY <1>6 DEF Lays
  <2>2. Len(code) \in Nat /\ Slot(w) \in Nat /\ Slot(w) >= 1
    BY <1>14, LoopOpsType
  <2>3. b \in Nat /\ b > Len(code) /\ b \in 1..Len(c)
    BY <1>6, <2>2
  <2>4. "unloop" \in Ops
    BY DEF Ops
  <2>5. QED
    BY <2>1, <2>2, <2>3, <2>4, CellIs
\* What is laid down last.
<1>9. ASSUME NEW d \in Seq(CodeCell), NEW P, Lays(code, d, P, r), Len(d) = b,
             code' = Append(d, Cell("unloop"))
      PROVE  /\ Lays(code, code', P, Layout(w)) /\ Here' = b + 2
             /\ \A j \in 1..b : code'[j] = d[j]
  <2> DEFINE x == Cell("unloop")
             u == << "unloop" >>
  <2>1. x \in CodeCell /\ x.op = "unloop"
    BY <1>8
  <2>2. Lays(d, Append(d, x), {}, << x.op >>)
    BY <2>1, LaysCell
  <2>3. Lays(d, code', {}, u) /\ Len(u) = 1
    BY <1>9, <2>1, <2>2
  <2> HIDE DEF u, x
  <2>4. Lays(code, code', P, Layout(w))
    BY <1>6, <1>9, <2>3, LaysOn DEF u
  <2>5. Len(code') = b + 1 /\ \A j \in 1..b : code'[j] = d[j]
    BY <1>9, <2>3 DEF Lays
  <2>6. QED
    BY <1>8, <2>4, <2>5 DEF Here
<1>10. ASSUME b + code'[b].off = a PROVE Settled(n + 1)'
  BY <1>2, <1>14, <1>10, SettlesBack
<1>11. CASE f.high = f.low + 2
  <2>1. stack[f.low + 1] = 0 /\ text[f.start] = "do"
    BY <1>3, <1>11 DEF Slots
  <2>2. Owned(f, i) = {}
    BY <1>3, <2>1 DEF Owned
  <2>3. Len(rest) = f.low + 1 /\ rest \in Seq(Nat) /\ rest # << >> /\ f.low + 1 \in 1..f.high - 1
    BY <1>3, <1>15, <1>11
  <2>4. Last(rest) = 0
    <3>1. Last(rest) = rest[Len(rest)]
      BY <2>3, FrontLast
    <3>2. rest[f.low + 1] = stack[f.low + 1]
      BY <1>15, <2>3
    <3>3. QED
      BY <2>1, <2>3, <3>1, <3>2
  <2>5. code' = Append(c, Cell("unloop")) /\ stack' = Front(rest)
    BY <1>7, <2>4
  <2>6. Lays(code, code', {}, Layout(w)) /\ \A j \in 1..b : code'[j] = c[j]
    BY <1>6, <1>8, <1>9, <2>5
  <2>7. Settled(n + 1)'
    <3>1. b \in 1..b
      BY <1>8
    <3>2. QED
      BY <1>6, <1>10, <2>6, <3>1
  <2>8. Len(stack') = f.low /\ \A j \in 1..f.low : stack'[j] = stack[j]
    <3>1. Len(Front(rest)) = Len(rest) - 1 /\ \A j \in 1..Len(rest) - 1 : Front(rest)[j] = rest[j]
      BY <2>3, FrontLast
    <3>2. Len(rest) - 1 = f.low /\ \A j \in 1..f.low : j \in 1..f.high - 1
      BY <1>3, <1>11, <2>3
    <3>3. QED
      BY <1>15, <2>5, <3>1, <3>2
  <2>9. Lays(code, code', {OffsetOf(k) : k \in {}}, Layout(w))
    <3>1. {OffsetOf(k) : k \in {}} = {}
      OBVIOUS
    <3>2. QED
      BY <2>6, <3>1
  <2>10. Closing(w, n, F, i, f, {})
    BY <1>1, <1>2, <2>2, <2>7, <2>8, <2>9 DEF Closing
  <2>11. QED
    BY <2>10, Closes
<1>12. CASE f.high = f.low + 3
  <2> SUFFICES ASSUME NEW h, h = stack[f.low + 1] PROVE \E G : Follows(G)'
    OBVIOUS
  <2>1. /\ stack[f.low + 2] = 1 /\ text[f.start] = "?do" /\ f.turn = f.start
        /\ h = OffsetOf(f.start)
    BY <1>3, <1>12 DEF Slots
  <2>2. Owned(f, i) = {f.start} /\ {OffsetOf(k) : k \in {f.start}} = {h}
    BY <1>3, <2>1 DEF Owned
  <2>3. /\ "?do" \in Jumping /\ "?do" \in Aheads /\ w \in Stops("?do")
    BY DEF Jumping, Aheads, Stops
  <2>4. h \in 1..Len(code)
    BY <1>14, <2>1, <2>3, OffsetType
  <2>5. Len(rest) = f.low + 2 /\ rest \in Seq(Nat) /\ rest # << >> /\ Len(rest) >= 2
    BY <1>3, <1>15, <1>12
  <2>6. /\ Last(rest) = 1 /\ Front(rest) \in Seq(Nat) /\ Len(Front(rest)) = f.low + 1
        /\ Last(Front(rest)) = h
        /\ Len(Front(Front(rest))) = f.low
        /\ \A j \in 1..f.low : Front(Front(rest))[j] = stack[j]
    <3>1. /\ Last(rest) = rest[Len(rest)] /\ Front(rest) \in Seq(Nat) /\ Len(Front(rest)) = Len(rest) - 1
          /\ Last(Front(rest)) = rest[Len(rest) - 1]
          /\ Len(Front(Front(rest))) = Len(rest) - 2
          /\ \A j \in 1..Len(rest) - 2 : Front(Front(rest))[j] = rest[j]
      BY <2>5, FrontLast, FrontFront
    <3>0. f.low \in Nat /\ Len(rest) = f.low + 2 /\ f.high = f.low + 3
      BY <1>3, <1>12, <2>5
    <3>2. Len(rest) - 1 = f.low + 1 /\ Len(rest) - 2 = f.low /\ f.high - 1 = f.low + 2
      BY ONLY <3>0
    <3>3. \A j \in 1..f.low + 2 : rest[j] = stack[j]
      BY <1>15, <3>2
    <3>4. f.low + 2 \in 1..f.low + 2 /\ f.low + 1 \in 1..f.low + 2 /\ \A j \in 1..f.low : j \in 1..f.low + 2
      BY <1>3
    <3>5. QED
      BY <2>1, <2>5, <3>1, <3>2, <3>3, <3>4
  <2> SUFFICES ASSUME NEW d, d = Patched(c, h) PROVE \E G : Follows(G)'
    OBVIOUS
  <2>7. code' = Append(d, Cell("unloop")) /\ stack' = Front(Front(rest))
    BY <1>7, <2>6
  <2>8. h \in 1..Len(c) /\ h \in Nat /\ h # b
    BY <1>6, <1>8, <2>4
  <2>9. Lays(c, d, {h}, << >>) /\ h + d[h].off = b + 1
    BY <1>6, <1>8, <2>8, LaysPatch
  <2>10. /\ d \in Seq(CodeCell) /\ Len(d) = b /\ d[b] = c[b]
    BY <1>6, <1>8, <2>8, <2>9 DEF Lays
  <2>11. Lays(code, d, {h}, r)
    <3>1. Joined(r, r, << >>) /\ Len(<< >>) \in Nat
      BY <1>6 DEF Joined
    <3>2. QED
      BY <1>6, <2>9, <3>1, LaysOn
  <2>12. /\ Lays(code, code', {h}, Layout(w)) /\ Here' = b + 2
         /\ \A j \in 1..b : code'[j] = d[j]
    BY <1>9, <2>7, <2>10, <2>11
  <2>13. Settled(n + 1)'
    <3>1. b \in 1..b
      BY <1>8
    <3>2. QED
      BY <1>6, <1>10, <2>10, <2>12, <3>1
  <2>14. Settled(f.start)'
    <3>1. h + code'[h].off = Here' - 1
      <4>1. h \in 1..b
        BY <1>6, <2>8
      <4>2. b + 1 = (b + 2) - 1
        BY <1>8
      <4>3. QED
        BY <2>9, <2>12, <4>1, <4>2
    <3>2. h + code'[h].off = IF text[f.start] = "?do" THEN Here' - 1 ELSE Here'
      BY <2>1, <3>1
    <3>3. StopLevel(f.start) = i /\ f.start >= f.turn
      BY <1>14, <2>1 DEF StopLevel, Open
    <3>4. QED
      BY <1>14, <2>1, <2>3, <3>2, <3>3, SettlesAhead
  <2>15. \A k \in {f.start} : k \in 1..n /\ text[k] \in Jumping /\ Settled(k)'
    BY <1>14, <2>1, <2>3, <2>14
  <2>16. Len(stack') = f.low /\ \A j \in 1..f.low : stack'[j] = stack[j]
    BY <2>6, <2>7
  <2>17. Lays(code, code', {OffsetOf(k) : k \in {f.start}}, Layout(w))
    BY <2>2, <2>12
  <2>18. Closing(w, n, F, i, f, {f.start})
    BY <1>1, <1>2, <2>2, <2>13, <2>15, <2>16, <2>17 DEF Closing
  <2>19. QED
    BY <2>18, Closes
<1>13. QED
  BY <1>5, <1>11, <1>12

----------------------------------------------------------------------------
(* ENDOF and ENDCASE.                                                      *)

LEMMA EndOfFollows ==
  ASSUME NEW n, NEW F, Writing("endof", n, F), Nested(nest), EndOf
  PROVE  \E G : Follows(G)'
<1> SUFFICES ASSUME NEW i, NEW f, Inmost("endof", n, F, i, f), NEW a, a = stack[f.high],
                    NEW c, c = Forward(<< >>, "branch"), NEW h, h = HoleOf(c),
                    NEW l, l = i - 1, NEW e, e = F[l], NEW m, m = i - 2,
                    NEW g, g = [kind |-> "case", start |-> e.start, turn |-> e.turn,
                                low |-> e.low, high |-> f.high]
             PROVE  \E G : Follows(G)'
  BY DEF EndOf, Within, Inmost
<1>1. /\ Last(nest) = "of" /\ nest' = Front(nest)
      /\ code' = Patched(c, Last(stack)) /\ stack' = Append(Front(stack), h)
  BY DEF EndOf, Within, Ends
<1>2. "endof" \in Closers /\ "endof" \in Jumping /\ "endof" \notin Openers
  BY DEF Closers, Jumping, Aheads, Openers
<1>3. /\ f.high \in Nat /\ f.low \in Nat /\ f.kind = "of" /\ f.high = Len(stack)
      /\ Last(stack) = a
  BY <1>1, TopFrame
<1>4. /\ code \in Seq(CodeCell) /\ i \in Nat /\ i >= 1 /\ f.turn \in 1..n /\ Level(n + 1)' = i
      /\ Extends("endof") /\ Written /\ n = Len(text) /\ n \in Nat
  BY <1>1, <1>2, TopFrame
<1>5. /\ Front(stack) \in Seq(Nat) /\ Len(Front(stack)) = f.high - 1
      /\ \A j \in 1..f.high - 1 : Front(stack)[j] = stack[j]
  BY <1>1, TopFrame
<1>6. /\ Writing("endof", n, F) /\ nest \in Seq(Kinds) /\ nest' \in Seq(Kinds) /\ i = Len(nest)
      /\ nest # << >> /\ Framed(F) /\ Follows(F)
  BY DEF Writing, Inmost, Follows
<1>7. /\ Last(nest) = nest[i] /\ Len(nest') = l /\ \A j \in 1..l : nest'[j] = nest[j]
  <2>1. /\ Last(nest) = nest[Len(nest)] /\ Len(Front(nest)) = Len(nest) - 1
        /\ \A j \in 1..Len(nest) - 1 : Front(nest)[j] = nest[j]
    BY <1>6, FrontLast
  <2>2. QED
    BY <1>1, <1>6, <2>1
<1>8. i > 1 /\ nest[l] = "case"
  <2>1. i \in 1..Len(nest) /\ nest[i] = "of"
    BY <1>1, <1>4, <1>6, <1>7
  <2>2. QED
    BY <2>1 DEF Nested
<1>9. l \in Nat /\ m \in Nat /\ l = m + 1 /\ i = l + 1 /\ l \in 1..Len(nest) /\ i \in 1..Len(nest) /\ l # 0
      /\ m \in 0..Len(nest) /\ m < Len(nest) /\ m + 1 < Len(nest) /\ l - 1 = m /\ i - 1 = l
  BY <1>4, <1>6, <1>8
<1>10. /\ a \in 1..Len(code) /\ {OffsetOf(k) : k \in {f.turn}} = {a} /\ Owned(f, i) = {f.turn}
       /\ f.high = f.low + 1
  <2>1. Last(nest) \in {"if", "else", "of", "while"}
    BY <1>1
  <2>2. /\ stack[f.high] = OffsetOf(f.turn) /\ OffsetOf(f.turn) \in 1..Len(code)
        /\ {OffsetOf(k) : k \in {f.turn}} = {stack[f.high]} /\ Owned(f, i) = {f.turn}
        /\ f.high = f.low + IF f.kind = "while" THEN 2 ELSE 1
    BY <2>1, TurnHole
  <2>3. QED
    BY <1>3, <2>2
<1>11. /\ Lays(code, code', {a}, Layout("endof")) /\ a + code'[a].off = Here'
       /\ h = Len(code) + Slot("endof")
  BY <1>1, <1>3, <1>4, <1>10, LaysOver
<1>12. \A k \in {f.turn} : k \in 1..n /\ text[k] \in Jumping /\ Settled(k)'
  BY <1>1, <1>11, TurnFilled
<1>13. /\ e.kind = "case" /\ e.low = Top(F, m) /\ e.low \in Nat /\ e.low >= 1 /\ e.high \in Nat
       /\ e.low < e.high /\ Open(e, l) /\ Slots(e, l) /\ f.low = e.high
  <2>1. Frame(F, l) /\ Frame(F, i)
    BY <1>6, <1>9 DEF Framed
  <2>2. f = F[i]
    BY DEF Inmost
  <2>3. f.low = Top(F, l)
    BY <1>9, <2>1, <2>2 DEF Frame
  <2>4. /\ e.kind = nest[l] /\ e.low = Top(F, m) /\ e.low \in Nat /\ e.low >= 1 /\ e.high \in Nat
        /\ e.low < e.high /\ Open(e, l) /\ Slots(e, l)
    BY <1>9, <2>1 DEF Frame
  <2>5. QED
    BY <1>8, <1>9, <2>3, <2>4 DEF Top
<1>14. /\ e.turn = e.start /\ text[e.start] = "case" /\ stack[e.low + 1] = 0
       /\ {stack[j] : j \in e.low + 2..e.high} = {OffsetOf(k) : k \in EndOfs(e, l)}
  BY <1>13 DEF Slots
<1>15. /\ g.kind = "case" /\ g.start = e.start /\ g.turn = e.turn /\ g.low = e.low /\ g.high = f.high
  OBVIOUS
<1>16. /\ f.high = e.high + 1 /\ Len(stack') = e.high + 1 /\ stack'[e.high + 1] = h
       /\ \A j \in 1..e.high : stack'[j] = stack[j]
  <2>1. h \in Nat
    BY <1>4, <1>11 DEF Slot
  <2>2. f.high = e.high + 1 /\ f.high - 1 = e.high
    BY <1>10, <1>13
  <2>3. /\ Len(stack') = Len(Front(stack)) + 1 /\ stack'[Len(Front(stack)) + 1] = h
        /\ \A j \in 1..Len(Front(stack)) : stack'[j] = Front(stack)[j]
    <3>1. stack' = Append(Front(stack), h) /\ Front(stack) \in Seq(Nat)
      BY <1>1, <1>5
    <3>2. QED
      BY ONLY <2>1, <3>1
  <2>4. Len(Front(stack)) = e.high
    BY <1>5, <2>2
  <2>5. \A j \in 1..e.high : Front(stack)[j] = stack[j]
    BY <1>5, <2>2
  <2>6. QED
    BY ONLY <2>2, <2>3, <2>4, <2>5
<1>17. OffsetOf(n + 1)' = h
  BY <1>2, <1>4, <1>11, OffsetNext
<1>18. e.start \in 1..n /\ e.start \in 1..Len(text)
  BY <1>4, <1>13 DEF Open
<1>19. EndOfs(g, l)' = EndOfs(e, l) \cup {n + 1}
  <2>1. EndOfs(e, l)' = EndOfs(e, l) \cup
          (IF "endof" = "endof" /\ Level(n + 1)' = l + 1 THEN {n + 1} ELSE {})
    BY <1>4, <1>9, <1>18, EndOfsStay
  <2>2. EndOfs(g, l)' = EndOfs(e, l)'
    BY <1>15 DEF EndOfs
  <2>3. QED
    BY <1>4, <1>9, <2>1, <2>2
<1>20. {stack'[j] : j \in g.low + 2..g.high} = {OffsetOf(k)' : k \in EndOfs(g, l)'}
  <2>1. {stack'[j] : j \in g.low + 2..g.high} = {stack[j] : j \in e.low + 2..e.high} \cup {h}
    <3>1. \A j \in e.low + 2..e.high + 1 : j \in e.low + 2..e.high \/ j = e.high + 1
      BY <1>13
    <3>2. \A j \in e.low + 2..e.high : j \in e.low + 2..e.high + 1 /\ j \in 1..e.high
      BY <1>13
    <3>3. e.high + 1 \in e.low + 2..e.high + 1
      BY <1>13
    <3>4. g.low + 2..g.high = e.low + 2..e.high + 1
      BY <1>15, <1>16
    <3>5. \A j \in e.low + 2..e.high : stack'[j] = stack[j]
      BY <1>16, <3>2
    <3>6. QED
      BY <1>16, <3>1, <3>2, <3>3, <3>4, <3>5
  <2>2. \A k \in EndOfs(e, l) : OffsetOf(k)' = OffsetOf(k)
    <3>1. \A k \in EndOfs(e, l) : k \in 1..Len(text)
      BY <1>4, <1>18 DEF EndOfs
    <3>2. QED
      BY <1>4, <3>1, OffsetSame
  <2>3. {OffsetOf(k)' : k \in EndOfs(e, l) \cup {n + 1}} = {OffsetOf(k) : k \in EndOfs(e, l)} \cup {h}
    BY <1>17, <2>2
  <2>4. QED
    BY <1>14, <1>19, <2>1, <2>3
<1>21. Open(g, l)'
  <2>1. Level(n + 1)' \in Int /\ Level(n + 1)' > l
    BY <1>4, <1>9
  <2>2. Open(e, l)'
    BY <1>4, <1>9, <1>13, <2>1, OpenStays
  <2>3. QED
    BY <1>15, <2>2 DEF Open
<1>22. Slots(g, l)'
  <2>1. text'[g.start] = "case" /\ g.turn = g.start
    BY <1>4, <1>14, <1>15, <1>18, Extended
  <2>2. g.high > g.low /\ stack'[g.low + 1] = 0
    BY <1>13, <1>14, <1>15, <1>16
  <2>3. QED
    BY ONLY <1>15, <1>20, <2>1, <2>2 DEF Slots
<1>23. Owned(g, l)' = EndOfs(e, l) \cup {n + 1} /\ Owned(e, l) = EndOfs(e, l)
  BY <1>13, <1>15, <1>19 DEF Owned
<1>24. /\ Len(nest') = m + 1 /\ g.kind = nest'[m + 1]
       /\ g.low = Top(F, m) /\ g.low \in Nat /\ g.low >= 1
       /\ g.high = Len(stack') /\ g.high \in Nat /\ g.low < g.high
       /\ Open(g, m + 1)'
       /\ Slots(g, m + 1)'
  <2>1. nest'[l] = "case"
    BY <1>7, <1>8, <1>9
  <2>2. g.low < g.high
    BY <1>13, <1>15, <1>16
  <2>3. QED
    BY <1>3, <1>7, <1>9, <1>13, <1>15, <1>16, <1>21, <1>22, <2>1, <2>2
<1>25. \A j \in m + 1..Len(nest) : \A k \in Owned(F[j], j) :
         k \in {f.turn} \/ (Len(nest') = m + 1 /\ k \in Owned(g, m + 1)')
  <2>1. \A j \in m + 1..Len(nest) : j = l \/ j = i
    BY <1>6, <1>9
  <2>2. f = F[i]
    BY DEF Inmost
  <2>3. \A k \in Owned(F[i], i) : k \in {f.turn}
    BY <1>10, <2>2
  <2>4. \A k \in Owned(F[l], l) : Len(nest') = m + 1 /\ k \in Owned(g, m + 1)'
    BY <1>7, <1>9, <1>23
  <2>5. QED
    BY <2>1, <2>3, <2>4
<1>26. Len(nest') = m + 1 /\ n + 1 \in Owned(g, m + 1)'
  BY <1>7, <1>9, <1>23
<1>27. Advances("endof", n, F, m, g, {f.turn})
  <2>1. Len(nest') = Len(nest) + (IF "endof" \in Openers THEN 1 ELSE IF "endof" \in Closers THEN -1 ELSE 0)
    BY <1>2, <1>6, <1>7, <1>9
  <2>2. \A j \in 1..m : nest'[j] = nest[j]
    BY <1>7, <1>9
  <2>3. \A j \in 1..Top(F, m) : stack'[j] = stack[j]
    BY <1>13, <1>16
  <2>4. Lays(code, code', {OffsetOf(k) : k \in {f.turn}}, Layout("endof"))
    BY <1>10, <1>11
  <2>5. QED
    BY <1>4, <1>6, <1>9, <1>12, <1>24, <1>25, <1>26, <2>1, <2>2, <2>3, <2>4 DEF Advances
<1>28. QED
  BY <1>6, <1>27, Onward

LEMMA LaysAll ==
  ASSUME NEW c \in Seq(CodeCell), NEW holes, holes \subseteq 1..Len(c)
  PROVE  /\ Lays(c, PatchedAll(c, holes), holes, << >>)
         /\ \A a \in holes : a + PatchedAll(c, holes)[a].off = Len(c) + 1
<1> DEFINE d == PatchedAll(c, holes)
<1>1. Len(c) \in Nat /\ \A a \in 1..Len(c) : c[a] \in CodeCell
  OBVIOUS
<1>2. ASSUME NEW a \in holes
      PROVE  /\ a \in 1..Len(c) /\ Patched(c, a)[a] \in CodeCell /\ Patched(c, a)[a].op = c[a].op
             /\ a + Patched(c, a)[a].off = Len(c) + 1
  <2>1. a \in 1..Len(c)
    OBVIOUS
  <2>2. Lays(c, Patched(c, a), {a}, << >>) /\ a + Patched(c, a)[a].off = Len(c) + 1
    BY <2>1, LaysPatch
  <2>3. Patched(c, a) \in Seq(CodeCell) /\ a \in 1..Len(Patched(c, a)) /\ Patched(c, a)[a].op = c[a].op
    BY <2>1, <2>2, <1>1 DEF Lays
  <2>4. QED
    BY <2>1, <2>2, <2>3
<1>3. ASSUME NEW a \in 1..Len(c)
      PROVE  /\ d[a] \in CodeCell /\ d[a].op = c[a].op
             /\ a \in holes => a + d[a].off = Len(c) + 1
             /\ a \notin holes => d[a] = c[a]
  <2>1. d[a] = IF a \in holes THEN Patched(c, a)[a] ELSE c[a]
    BY DEF PatchedAll
  <2>2. CASE a \in holes
    BY <1>2, <2>1, <2>2
  <2>3. CASE a \notin holes
    BY <1>1, <2>1, <2>3
  <2>4. QED
    BY <2>2, <2>3
<1>4. d \in Seq(CodeCell) /\ Len(d) = Len(c)
  <2>1. d \in [1..Len(c) -> CodeCell]
    <3>1. \A a \in 1..Len(c) : (IF a \in holes THEN Patched(c, a)[a] ELSE c[a]) \in CodeCell
      BY <1>1, <1>2
    <3>2. QED
      BY <3>1 DEF PatchedAll
  <2>2. d \in Seq(CodeCell)
    BY <1>1, <2>1
  <2>3. DOMAIN d = 1..Len(c) /\ DOMAIN d = 1..Len(d) /\ Len(d) \in Nat
    BY <2>1, <2>2, LenProperties
  <2>4. QED
    BY <1>1, <2>2, <2>3
<1> HIDE DEF d
<1>5. Lays(c, d, holes, << >>)
  BY <1>1, <1>3, <1>4 DEF Lays
<1>6. QED
  BY <1>3, <1>5 DEF d

LEMMA EndCaseFollows ==
  ASSUME NEW n, NEW F, Writing("endcase", n, F), EndCase
  PROVE  \E G : Follows(G)'
<1> SUFFICES ASSUME NEW i, NEW f, Inmost("endcase", n, F, i, f), NEW c, c = Append(code, Cell("drop")),
                    NEW N, N = EndOfs(f, i), NEW holes, holes = {stack[j] : j \in f.low + 2..f.high}
             PROVE  \E G : Follows(G)'
  BY DEF EndCase, Within, Inmost
<1>1. /\ nest # << >> /\ Last(nest) = "case" /\ nest' = Front(nest)
      /\ code' = PatchedAll(c, {stack[j] : j \in Mark + 1..Len(stack)})
      /\ stack' = SubSeq(stack, 1, Mark - 1)
  BY DEF EndCase, Within, Ends, PatchedAll
<1>2. "endcase" \in Closers /\ "endcase" # "endof" /\ "endcase" \notin Jumping /\ "endcase" \notin Openers
  BY DEF Closers, Jumping, Aheads, Backs, Openers
<1>3. /\ f.high \in Nat /\ f.low \in Nat /\ f.low >= 1 /\ f.low < f.high /\ f.kind = "case"
      /\ f.high = Len(stack) /\ Slots(f, i)
  BY <1>1, <1>2, TopFrame
<1>4. /\ code \in Seq(CodeCell) /\ i \in Nat /\ Open(f, i) /\ f.start \in 1..n /\ Level(n + 1)' = i
      /\ Extends("endcase") /\ Written /\ n = Len(text) /\ n \in Nat
  BY <1>1, <1>2, TopFrame
<1>5. stack \in Seq(Nat) /\ Len(code) \in Nat
  BY <1>4 DEF Inmost, Writing
<1>6. /\ f.turn = f.start /\ stack[f.low + 1] = 0 /\ holes = {OffsetOf(k) : k \in N}
      /\ Owned(f, i) = N
  BY <1>3 DEF Slots, Owned
<1>7. \A k \in N : k \in 1..n /\ k >= f.turn /\ text[k] = "endof" /\ Level(k) = i + 1
  BY <1>4, <1>6 DEF EndOfs
<1>8. "endof" \in Jumping /\ "endof" \in Aheads /\ "endcase" \in Stops("endof")
  BY DEF Jumping, Aheads, Stops
<1>9. holes \subseteq 1..Len(code)
  <2>1. \A k \in N : OffsetOf(k) \in 1..Len(code)
    BY <1>4, <1>7, <1>8, OffsetType
  <2>2. QED
    BY <1>6, <2>1
<1>10. Mark = f.low + 1
  <2> SUFFICES ASSUME NEW lo, lo = f.low PROVE Mark = lo + 1
    OBVIOUS
  <2>0. lo \in Nat /\ Len(stack) \in Nat /\ lo < Len(stack) /\ lo >= 1 /\ stack[lo + 1] = 0
    BY <1>3, <1>5, <1>6
  <2>1. lo + 1 \in 1..Len(stack)
    BY <2>0
  <2>2. \A j \in lo + 2..Len(stack) : stack[j] # 0
    <3>1. \A j \in lo + 2..Len(stack) : stack[j] \in holes
      BY <1>3
    <3>2. 0 \notin 1..Len(code)
      OBVIOUS
    <3>4. 0 \notin holes
      BY <1>9, <3>2
    <3>5. QED
      BY <3>1, <3>4
  <2>3. \A j \in 1..Len(stack) :
          (stack[j] = 0 /\ \A l \in j + 1..Len(stack) : stack[l] # 0) => j = lo + 1
    <3> SUFFICES ASSUME NEW j \in 1..Len(stack), stack[j] = 0,
                        \A l \in j + 1..Len(stack) : stack[l] # 0
                 PROVE  j = lo + 1
      OBVIOUS
    <3>1. ~ (j \in lo + 2..Len(stack))
      BY <2>2
    <3>2. ~ (lo + 1 \in j + 1..Len(stack))
      BY <2>0
    <3>3. QED
      BY <2>0, <2>1, <3>1, <3>2
  <2>4. \A l \in lo + 1 + 1..Len(stack) : stack[l] # 0
    BY <2>0, <2>2
  <2>5. \E j \in 1..Len(stack) : stack[j] = 0 /\ \A l \in j + 1..Len(stack) : stack[l] # 0
    BY <2>0, <2>1, <2>4
  <2>6. QED
    BY <2>3, <2>5 DEF Mark
<1>11. {stack[j] : j \in Mark + 1..Len(stack)} = holes /\ Mark - 1 = f.low
  BY <1>3, <1>10
<1>12. Len(stack') = f.low /\ \A j \in 1..f.low : stack'[j] = stack[j]
  <2>1. f.low \in 1..Len(stack)
    BY <1>3
  <2>2. QED
    BY <1>1, <1>5, <1>11, <2>1, Beginning
<1>13. /\ c \in Seq(CodeCell) /\ Len(c) = Len(code) + 1 /\ Lays(code, c, {}, << "drop" >>)
  <2>1. Cell("drop") \in CodeCell /\ Cell("drop").op = "drop"
    BY CellIs DEF Ops
  <2>2. Lays(code, c, {}, << "drop" >>)
    BY <1>4, <2>1, LaysCell
  <2>3. c \in Seq(CodeCell) /\ Len(c) = Len(code) + 1
    BY <1>4, <2>1
  <2>4. QED
    BY <2>2, <2>3
<1>14. /\ Lays(c, code', holes, << >>) /\ \A a \in holes : a + code'[a].off = Here'
  <2>1. holes \subseteq 1..Len(c)
    BY <1>5, <1>9, <1>13
  <2>2. Lays(c, code', holes, << >>) /\ \A a \in holes : a + code'[a].off = Len(c) + 1
    BY <1>1, <1>11, <1>13, <2>1, LaysAll
  <2>3. Here' = Len(c) + 1
    BY <1>5, <1>13, <2>2 DEF Lays, Here
  <2>4. QED
    BY <2>2, <2>3
<1>15. Lays(code, code', {OffsetOf(k) : k \in N}, Layout("endcase"))
  <2>1. Layout("endcase") = << "drop" >>
    BY DEF Layout
  <2>2. Joined(<< "drop" >>, << "drop" >>, << >>) /\ Len(<< "drop" >>) \in Nat /\ Len(<< >>) \in Nat
    BY DEF Joined
  <2>3. Lays(code, code', holes, << "drop" >>)
    BY <1>13, <1>14, <2>2, LaysOn
  <2>4. QED
    BY <1>6, <2>1, <2>3
<1>16. ASSUME NEW k \in N PROVE k \in 1..n /\ text[k] \in Jumping /\ Settled(k)'
  <2>1. OffsetOf(k) \in holes
    BY <1>6
  <2>2. OffsetOf(k) + code'[OffsetOf(k)].off = IF text[k] = "?do" THEN Here' - 1 ELSE Here'
    BY <1>7, <1>14, <2>1
  <2>3. StopLevel(k) = i
    BY <1>4, <1>7 DEF StopLevel
  <2>4. Settled(k)'
    BY <1>4, <1>7, <1>8, <2>2, <2>3, SettlesAhead
  <2>5. QED
    BY <1>7, <1>8, <2>4
<1>17. Closing("endcase", n, F, i, f, N)
  BY <1>1, <1>2, <1>6, <1>12, <1>15, <1>16 DEF Closing
<1>18. QED
  BY <1>17, Closes

----------------------------------------------------------------------------
(* Every definition.                                                       *)

Followed == \E F : Follows(F)

\* Nothing is compiled yet.
LEMMA NothingFollows == text = << >> /\ nest = << >> /\ Len(stack) = 1 => Followed
<1> SUFFICES ASSUME text = << >>, nest = << >>, Len(stack) = 1 PROVE Followed
  OBVIOUS
<1>1. Len(text) = 0 /\ Len(nest) = 0 /\ \A k \in 1..0 : FALSE
  OBVIOUS
<1>2. Depth
  <2>1. Count(0, Openers) = 0 /\ Count(0, Closers) = 0
    <3>1. {i \in 1..0 : text[i] \in Openers} = {} /\ {i \in 1..0 : text[i] \in Closers} = {}
      BY <1>1
    <3>2. QED
      BY <3>1, FS_EmptySet DEF Count
  <2>2. QED
    BY <1>1, <2>1 DEF Depth
<1>3. Written
  BY <1>1 DEF Written
<1>4. \A F : Framed(F) /\ Covered(F)
  BY <1>1 DEF Framed, Covered, Top
<1>5. QED
  BY <1>2, <1>3, <1>4 DEF Followed, Follows

\* A word is compiled.
LEMMA Writes ==
  ASSUME IInv, IInv', NEW w \in TextWords, Compile(w), NEW F, Follows(F)
  PROVE  Writing(w, Len(text), F)
<1>1. /\ code \in Seq(CodeCell) /\ nest \in Seq(Kinds) /\ nest' \in Seq(Kinds)
      /\ stack \in Seq(Nat) /\ Len(stack) >= 1 /\ stack' \in Seq(Nat)
      /\ at \in Seq(Nat) /\ text \in Seq(TextWords) /\ Len(at) = Len(text)
  BY DEF IInv, Balanced, Base, Logged
<1>2. Extends(w)
  BY <1>1 DEF Extends, Compile
<1>3. QED
  BY <1>1, <1>2 DEF Writing

LEMMA CompilingFollows ==
  ASSUME IInv, IInv', Followed, Compiling
  PROVE  Followed'
<1> SUFFICES ASSUME NEW F, Follows(F), NEW n, n = Len(text) PROVE \E G : Follows(G)'
  BY DEF Followed
<1>1. ASSUME NEW w \in TextWords, Compile(w) PROVE Writing(w, n, F)
  BY <1>1, Writes
<1>2. /\ {"word", "if", "unless", "ahead", "else", "then"} \subseteq TextWords
      /\ {"begin", "until", "again", "while", "repeat"} \subseteq TextWords
      /\ {"do", "?do", "+loop", "loop", "case", "of", "endof", "endcase"} \subseteq TextWords
  BY DEF TextWords, Openers, Closers
<1>3. CASE Plain
  BY <1>1, <1>2, <1>3, PlainFollows DEF Plain
<1>4. CASE If
  BY <1>1, <1>2, <1>4, IfFollows DEF If
<1>5. CASE Unless
  BY <1>1, <1>2, <1>5, UnlessFollows DEF Unless
<1>6. CASE Ahead
  BY <1>1, <1>2, <1>6, AheadFollows DEF Ahead
<1>7. CASE Else
  BY <1>1, <1>2, <1>7, ElseFollows DEF Else
<1>8. CASE Then
  BY <1>1, <1>2, <1>8, ThenFollows DEF Then
<1>9. CASE Begin
  BY <1>1, <1>2, <1>9, BeginFollows DEF Begin
<1>10. CASE Until
  BY <1>1, <1>2, <1>10, UntilFollows DEF Until
<1>11. CASE Again
  BY <1>1, <1>2, <1>11, AgainFollows DEF Again
<1>12. CASE While
  BY <1>1, <1>2, <1>12, WhileFollows DEF While
<1>13. CASE Repeat
  BY <1>1, <1>2, <1>13, RepeatFollows DEF Repeat
<1>14. CASE Do
  BY <1>1, <1>2, <1>14, DoFollows DEF Do
<1>15. CASE QDo
  BY <1>1, <1>2, <1>15, QDoFollows DEF QDo
<1>16. CASE PlusLoop
  <2>1. Writing("+loop", n, F) /\ Within({"do"}) /\ Ends /\ EndLoop(<< >>)
    BY <1>1, <1>2, <1>16 DEF PlusLoop
  <2>2. QED
    BY <2>1, LoopFollows
<1>17. CASE Loop
  <2>1. Writing("loop", n, F) /\ Within({"do"}) /\ Ends /\ EndLoop(<< "lit", "1" >>)
    BY <1>1, <1>2, <1>17 DEF Loop
  <2>2. QED
    BY <2>1, LoopFollows
<1>18. CASE Case
  BY <1>1, <1>2, <1>18, CaseFollows DEF Case
<1>19. CASE Of
  BY <1>1, <1>2, <1>19, OfFollows DEF Of
<1>20. CASE EndOf
  <2>1. Nested(nest)
    BY DEF IInv, Balanced, Base
  <2>2. QED
    BY <1>1, <1>2, <1>20, <2>1, EndOfFollows DEF EndOf
<1>21. CASE EndCase
  BY <1>1, <1>2, <1>21, EndCaseFollows DEF EndCase
<1>22. QED
  BY <1>3, <1>4, <1>5, <1>6, <1>7, <1>8, <1>9, <1>10, <1>11, <1>12, <1>13, <1>14, <1>15, <1>16,
     <1>17, <1>18, <1>19, <1>20, <1>21 DEF Compiling

\* Nothing happens.
LEMMA StillFollows ==
  ASSUME UNCHANGED vars, NEW F, Follows(F)
  PROVE  Follows(F)'
<1>1. code' = code /\ stack' = stack /\ text' = text /\ at' = at /\ nest' = nest
  BY DEF vars
<1>2. \A k, W : Count(k, W)' = Count(k, W)
  BY <1>1 DEF Count
<1>3. \A k : Level(k)' = Level(k) /\ Address(k)' = Address(k) /\ OffsetOf(k)' = OffsetOf(k)
  BY <1>1, <1>2 DEF Level, Address, Here, OffsetOf
<1>4. \A k : StopLevel(k)' = StopLevel(k) /\ Target(k)' = Target(k)
  BY <1>1, <1>3 DEF StopLevel, Target
<1>5. \A k, j : Stop(k, j)' = Stop(k, j) /\ Start(k, j)' = Start(k, j) /\ Past(k, j)' = Past(k, j)
  BY <1>1, <1>3, <1>4 DEF Stop, Start, Past
<1>6. \A k : Settled(k)' = Settled(k)
  BY <1>1, <1>4, <1>5, <1>3 DEF Settled
<1>7. \A f, i : Open(f, i)' = Open(f, i) /\ EndOfs(f, i)' = EndOfs(f, i)
  BY <1>1, <1>3 DEF Open, EndOfs
<1>8. \A f, i : Slots(f, i)' = Slots(f, i) /\ Owned(f, i)' = Owned(f, i)
  <2> SUFFICES ASSUME NEW f, NEW i
               PROVE  Slots(f, i)' = Slots(f, i) /\ Owned(f, i)' = Owned(f, i)
    OBVIOUS
  <2>1. {OffsetOf(k)' : k \in EndOfs(f, i)'} = {OffsetOf(k) : k \in EndOfs(f, i)}
    BY <1>3, <1>7
  <2>2. {stack'[j] : j \in f.low + 2..f.high} = {stack[j] : j \in f.low + 2..f.high}
    BY <1>1
  <2>6. /\ Address(f.start + 1)' = Address(f.start + 1)
        /\ OffsetOf(f.start)' = OffsetOf(f.start) /\ OffsetOf(f.turn)' = OffsetOf(f.turn)
        /\ \A j : stack'[j] = stack[j] /\ text'[j] = text[j]
    BY <1>1, <1>3
  <2>3. Slots(f, i)' = Slots(f, i)
    BY ONLY <2>1, <2>2, <2>6 DEF Slots
  <2>4. Owned(f, i)' = Owned(f, i)
    BY <1>1, <1>7 DEF Owned
  <2>5. QED
    BY <2>3, <2>4
<1>9. \A i : Frame(F, i)' = Frame(F, i)
  BY <1>1, <1>7, <1>8 DEF Frame, Top
<1>10. Depth' /\ Written'
  BY <1>1, <1>2, <1>3 DEF Follows, Depth, Written, Here
<1>11. Framed(F)' /\ Covered(F)'
  BY <1>1, <1>6, <1>8, <1>9 DEF Follows, Framed, Covered, Top
<1>12. QED
  BY <1>10, <1>11 DEF Follows

LEMMA FollowedStep ==
  ASSUME IInv, Followed, [Next]_vars
  PROVE  IInv' /\ Followed'
<1>1. IInv'
  BY Step
<1>2. CASE Compiling
  BY <1>1, <1>2, CompilingFollows
<1>3. CASE Semicolon \/ ParseError
  <2>1. text' = << >> /\ nest' = << >>
    BY <1>3 DEF Semicolon, ParseError
  <2>2. stack' = << Below >>
    <3>1. Base(code', stack', nest')
      BY <1>1 DEF IInv, Balanced
    <3>2. QED
      BY <2>1, <3>1, AllClosed
  <2>3. Len(stack') = 1
    BY <2>2
  <2>4. QED
    <3>1. (text = << >> /\ nest = << >> /\ Len(stack) = 1 => Followed)'
      BY NothingFollows, PTL
    <3>2. QED
      BY <1>1, <2>1, <2>3, <3>1
<1>4. CASE UNCHANGED vars
  <2>1. UNCHANGED vars
    BY <1>4
  <2>2. Followed'
    BY <2>1, StillFollows DEF Followed
  <2>3. QED
    BY <1>1, <2>2
<1>5. QED
  BY <1>1, <1>2, <1>3, <1>4 DEF Next, Compiling

\* What the code of word k is, cell by cell.
LEMMA CellsOf ==
  ASSUME Written, text \in Seq(TextWords), at \in Seq(Nat), Len(at) = Len(text),
         NEW k \in 1..Len(text), NEW w, w = text[k]
  PROVE  /\ w \in TextWords /\ at[k] \in Nat
         /\ \A j \in 1..Len(Layout(w)) : at[k] + j - 1 \in Cells(k)
                                         /\ code[at[k] + j - 1].op = Layout(w)[j]
         /\ \A a \in Cells(k) : \E j \in 1..Len(Layout(w)) : a = at[k] + j - 1
<1>1. w \in TextWords /\ at[k] \in Nat
  OBVIOUS
<1>2. /\ Len(Layout(w)) \in Nat /\ Address(k + 1) = at[k] + Len(Layout(w))
      /\ \A j \in 1..Len(Layout(w)) : code[at[k] + j - 1].op = Layout(w)[j]
  <2>1. Len(Layout(w)) \in 0..10
    BY <1>1, Table
  <2>2. QED
    BY <2>1 DEF Written
<1>3. Cells(k) = at[k]..at[k] + Len(Layout(w)) - 1
  BY <1>2 DEF Cells
<1>4. ASSUME NEW p \in Nat, NEW m \in Nat
      PROVE  /\ \A j \in 1..m : p + j - 1 \in p..p + m - 1
             /\ \A a \in p..p + m - 1 : \E j \in 1..m : a = p + j - 1
  <2>1. ASSUME NEW a \in p..p + m - 1
        PROVE  \E j \in 1..m : a = p + j - 1
    <3>1. a \in p..p + m - 1 /\ p \in Nat /\ m \in Nat
      OBVIOUS
    <3>2. a - p + 1 \in 1..m /\ a = p + (a - p + 1) - 1
      BY ONLY <3>1
    <3>3. QED
      BY <3>2
  <2>2. \A j \in 1..m : p + j - 1 \in p..p + m - 1
    <3>1. p \in Nat /\ m \in Nat
      OBVIOUS
    <3>2. QED
      BY ONLY <3>1
  <2>3. QED
    BY <2>1, <2>2
<1>5. /\ \A j \in 1..Len(Layout(w)) : at[k] + j - 1 \in at[k]..at[k] + Len(Layout(w)) - 1
      /\ \A a \in at[k]..at[k] + Len(Layout(w)) - 1 : \E j \in 1..Len(Layout(w)) : a = at[k] + j - 1
  <2>1. at[k] \in Nat /\ Len(Layout(w)) \in Nat
    BY <1>1, <1>2
  <2>2. QED
    BY ONLY <1>4, <2>1, Zenon
<1>6. QED
  BY <1>1, <1>2, <1>3, <1>5

\* The flags on which a word jumps, by its code and by the text.
LEMMA TakesTurning ==
  ASSUME NEW k, NEW w, w = text[k], w \in Jumping, NEW flag \in BOOLEAN, NEW a,
         code[a].op = IF Cond(w) THEN "0branch" ELSE "branch",
         (\E c \in Cells(k) : code[c].op = "not") <=> w \in {"unless", "?do"}
  PROVE  Takes(a, k, flag) <=> flag \in Turning(k)
<1>1. Takes(a, k, flag) <=> (Cond(w) => (flag <=> w \in {"unless", "?do"}))
  BY DEF Takes
<1>2. CASE w \in {"else", "ahead", "endof", "again", "repeat"}
  <2>1. ~ Cond(w)
    BY <1>2 DEF Cond
  <2>2. Turning(k) = BOOLEAN
    BY <1>2 DEF Turning
  <2>3. QED
    BY <1>1, <2>1, <2>2
<1>3. CASE w \in {"unless", "?do"}
  <2>1. Cond(w)
    BY <1>3 DEF Cond
  <2>2. Turning(k) = {TRUE}
    BY <1>3 DEF Turning
  <2>3. QED
    BY <1>1, <1>3, <2>1, <2>2
<1>4. CASE w \in {"if", "while", "of", "until", "loop", "+loop"}
  <2>1. Cond(w) /\ w \notin {"unless", "?do"}
    BY <1>4 DEF Cond
  <2>2. Turning(k) = {FALSE}
    BY <1>4 DEF Turning
  <2>3. QED
    BY <1>1, <2>1, <2>2
<1>5. QED
  BY <1>2, <1>3, <1>4 DEF Jumping, Aheads, Backs

LEMMA FollowsText ==
  ASSUME IInv, Followed
  PROVE  FlowFollowsText
<1> SUFFICES ASSUME nest = << >>, NEW k \in 1..Len(text), NEW flag \in BOOLEAN, NEW w, w = text[k]
             PROVE  Goes(k, flag) = Reads(k, flag)
  BY DEF FlowFollowsText
<1>1. /\ at \in Seq(Nat) /\ text \in Seq(TextWords) /\ Len(at) = Len(text)
  BY DEF IInv, Logged
<1>2. PICK F : Depth /\ Written /\ Framed(F) /\ Covered(F)
  BY DEF Followed, Follows
<1>3. /\ w \in TextWords /\ at[k] \in Nat
      /\ \A j \in 1..Len(Layout(w)) : at[k] + j - 1 \in Cells(k)
                                      /\ code[at[k] + j - 1].op = Layout(w)[j]
      /\ \A a \in Cells(k) : \E j \in 1..Len(Layout(w)) : a = at[k] + j - 1
  BY <1>1, <1>2, CellsOf
<1>4. /\ \A j \in 1..Len(Layout(w)) : Layout(w)[j] \in {"branch", "0branch"} => w \in Jumping /\ j = Slot(w) - 1
      /\ (\E j \in 1..Len(Layout(w)) : Layout(w)[j] = "not") <=> w \in {"unless", "?do"}
      /\ Len(Layout(w)) \in 0..10
      /\ w \in Jumping => /\ Slot(w) \in 2..Len(Layout(w))
                          /\ Layout(w)[Slot(w) - 1] = IF Cond(w) THEN "0branch" ELSE "branch"
  BY <1>3, Table
<1>5. \A a \in Jumps(k) : w \in Jumping /\ a = at[k] + (Slot(w) - 1) - 1
  BY <1>3, <1>4 DEF Jumps
<1>6. CASE w \notin Jumping
  <2>1. Jumps(k) = {}
    BY <1>5, <1>6
  <2>2. Turning(k) = {}
    BY <1>6 DEF Turning, Jumping, Aheads, Backs
  <2>3. QED
    BY <2>1, <2>2 DEF Goes, Reads
<1>7. CASE w \in Jumping
  <2> SUFFICES ASSUME NEW j, j = Slot(w) - 1, NEW a, a = at[k] + j - 1
               PROVE  Goes(k, flag) = Reads(k, flag)
    OBVIOUS
  <2>1. j \in 1..Len(Layout(w)) /\ Layout(w)[j] = IF Cond(w) THEN "0branch" ELSE "branch"
    BY <1>4, <1>7
  <2>2. a \in Cells(k) /\ code[a].op = IF Cond(w) THEN "0branch" ELSE "branch"
    BY <1>3, <2>1
  <2>3. Jumps(k) = {a}
    BY <1>5, <2>2 DEF Jumps
  <2>4. (\E c \in Cells(k) : code[c].op = "not") <=> w \in {"unless", "?do"}
    <3>1. (\E c \in Cells(k) : code[c].op = "not") <=> \E i \in 1..Len(Layout(w)) : Layout(w)[i] = "not"
      <4>1. ASSUME NEW c \in Cells(k), code[c].op = "not"
            PROVE  \E i \in 1..Len(Layout(w)) : Layout(w)[i] = "not"
        <5>1. PICK i \in 1..Len(Layout(w)) : c = at[k] + i - 1
          BY <1>3
        <5>2. code[at[k] + i - 1].op = Layout(w)[i]
          BY <1>3
        <5>3. QED
          BY <4>1, <5>1, <5>2
      <4>2. ASSUME NEW i \in 1..Len(Layout(w)), Layout(w)[i] = "not"
            PROVE  \E c \in Cells(k) : code[c].op = "not"
        <5>1. at[k] + i - 1 \in Cells(k) /\ code[at[k] + i - 1].op = Layout(w)[i]
          BY <1>3
        <5>2. QED
          BY <4>2, <5>1
      <4>3. QED
        BY <4>1, <4>2
    <3>2. QED
      BY <1>4, <3>1
  <2>5. Takes(a, k, flag) <=> flag \in Turning(k)
    BY <1>7, <2>2, <2>4, TakesTurning
  <2>6. a + 1 + code[a + 1].off = Elsewhere(k)
    <3>1. Settled(k)
      <4>1. \A i \in 1..Len(nest) : FALSE
        OBVIOUS
      <4>2. QED
        BY <1>2, <1>7, <4>1 DEF Covered
    <3>2. OffsetOf(k) = a + 1
      <4>1. OffsetOf(k) = at[k] + Slot(w) - 1
        BY DEF OffsetOf
      <4>2. at[k] \in Nat /\ Slot(w) \in Int
        BY <1>3 DEF Slot
      <4>3. a = at[k] + (Slot(w) - 1) - 1
        OBVIOUS
      <4>4. QED
        BY ONLY <4>1, <4>2, <4>3
    <3>3. QED
      BY <1>1, <3>1, <3>2, SettledGoes DEF Target
  <2>7. Goes(k, flag) = IF Takes(a, k, flag) THEN a + 1 + code[a + 1].off ELSE Address(k + 1)
    BY <2>3 DEF Goes
  <2>8. QED
    BY <2>5, <2>6, <2>7 DEF Reads
<1>8. QED
  BY <1>6, <1>7

\* A definition whose structures are closed goes, from every word and for every
\* flag, where its text says, however long it is and however deep they are
\* nested (boot0.f:267-516, 1611-1635).
THEOREM Following == Spec => []FlowFollowsText
<1>1. Init => IInv /\ Followed
  <2> SUFFICES ASSUME Init PROVE IInv /\ Followed
    OBVIOUS
  <2>1. text = << >> /\ nest = << >> /\ stack = << Below >>
    BY DEF Init, Empty
  <2>2. Len(stack) = 1
    BY <2>1
  <2>3. QED
    BY <2>1, <2>2, Starts, NothingFollows
<1>2. (IInv /\ Followed) /\ [Next]_vars => (IInv /\ Followed)'
  BY FollowedStep
<1>3. IInv /\ Followed => FlowFollowsText
  BY FollowsText
<1>4. QED
  BY <1>1, <1>2, <1>3, PTL DEF Spec

=============================================================================
