-------------------------- MODULE Dictionary_proofs --------------------------
(* Proofs about Dictionary, for a memory, words and cells of any size.     *)
EXTENDS Dictionary, SequenceTheorems, TLAPS

LEMMA Layout ==
  /\ CellSize \in Nat /\ CellSize >= 1 /\ HeaderSize \in Nat /\ HeaderSize >= 1
  /\ WordSize \in Nat /\ WordSize = HeaderSize + CellSize
  /\ HeaderSize % CellSize = 0
  /\ Kept \in Nat /\ Kept >= 1 /\ Limit \in Nat
BY LayoutAssumption DEF WordSize, Kept

----------------------------------------------------------------------------
(* Addresses.                                                              *)

LEMMA Divided ==
  ASSUME NEW a \in Int, NEW M \in Nat, M >= 1
  PROVE  /\ a \div M \in Int /\ a % M \in 0..M - 1 /\ a = M * (a \div M) + (a % M)
OBVIOUS

LEMMA Multiple ==
  ASSUME NEW q \in Int, NEW M \in Nat, M >= 1
  PROVE  (q * M) % M = 0 /\ (M * q) % M = 0
<1> DEFINE a == q * M
<1>1. a \in Int /\ a = M * q /\ a = M * q + 0
  OBVIOUS
<1>2. ASSUME NEW b \in Int, b = M * q + 0
      PROVE  b % M = 0
  BY <1>2
<1>3. QED
  BY <1>1, <1>2

\* Align rounds up to a whole cell.
LEMMA Aligned ==
  ASSUME NEW a \in Nat
  PROVE  Align(a) \in Nat /\ Align(a) >= a /\ Align(a) % CellSize = 0
<1> DEFINE q == (a + CellSize - 1) \div CellSize
           r == (a + CellSize - 1) % CellSize
<1>1. /\ q \in Int /\ r \in 0..CellSize - 1 /\ a + CellSize - 1 = CellSize * q + r
      /\ CellSize \in Nat /\ CellSize >= 1
  <2>1. CellSize \in Nat /\ CellSize >= 1 /\ a + CellSize - 1 \in Int
    BY Layout
  <2>2. QED
    BY <2>1, Divided, Zenon
<1>2. Align(a) = q * CellSize
  BY DEF Align
<1> HIDE DEF q, r
<1>3. q * CellSize = CellSize * q /\ q * CellSize \in Int
  BY <1>1
<1>4. (q * CellSize) % CellSize = 0
  BY <1>1, Multiple
<1>5. QED
  BY <1>1, <1>2, <1>3, <1>4

\* The built-in words follow one another and end at the data segment.
LEMMA BuiltInPlace ==
  ASSUME NEW i \in 1..Kept
  PROVE  /\ BuiltInAt(i) \in Int /\ BuiltInAt(i) % CellSize = 0
         /\ BuiltInAt(i) + WordSize <= 0
         /\ BuiltInAt(i) - WordSize = BuiltInAt(i - 1)
<1> DEFINE k == i - Kept - 1
<1>1. k \in Int /\ k <= -1 /\ WordSize \in Nat /\ i \in Nat /\ Kept \in Nat
  BY Layout
<1>2. BuiltInAt(i) = k * WordSize /\ BuiltInAt(i - 1) = (k - 1) * WordSize
  BY <1>1 DEF BuiltInAt
<1>3. (k - 1) * WordSize = k * WordSize - WordSize
  <2> HIDE DEF k
  <2>1. QED
    BY <1>1
<1>4. k * WordSize + WordSize <= 0
  <2>1. (k + 1) * WordSize = k * WordSize + WordSize
    BY <1>1
  <2>2. (k + 1) * WordSize <= 0
    <3> HIDE DEF k
    <3>1. QED
      BY <1>1
  <2>3. QED
    BY <2>1, <2>2
<1>5. (k * WordSize) % CellSize = 0
  <2> DEFINE h == HeaderSize \div CellSize
  <2>1. h \in Int /\ HeaderSize = CellSize * h
    BY Layout, Divided
  <2> HIDE DEF h, k
  <2>2. WordSize = CellSize * (h + 1)
    BY <2>1, Layout
  <2>3. k * WordSize = CellSize * (k * (h + 1))
    BY <1>1, <2>1, <2>2, Layout
  <2>4. k * (h + 1) \in Int
    BY <1>1, <2>1
  <2>5. QED
    BY <2>3, <2>4, Layout, Multiple
<1>6. QED
  BY <1>1, <1>2, <1>3, <1>4, <1>5

LEMMA BuiltInOrder ==
  ASSUME NEW i \in 1..Kept, NEW j \in i + 1..Kept
  PROVE  BuiltInAt(i) + WordSize <= BuiltInAt(j)
<1> DEFINE k == i - Kept - 1
           l == j - Kept - 1
<1>1. k \in Int /\ l \in Int /\ k + 1 <= l /\ WordSize \in Nat
  BY Layout
<1>2. BuiltInAt(i) = k * WordSize /\ BuiltInAt(j) = l * WordSize
  BY DEF BuiltInAt
<1> HIDE DEF k, l
<1>3. k * WordSize + WordSize = (k + 1) * WordSize
  BY <1>1
<1>4. l * WordSize = (k + 1) * WordSize + (l - (k + 1)) * WordSize
  BY <1>1
<1>5. (l - (k + 1)) * WordSize >= 0
  BY <1>1
<1>6. (k + 1) * WordSize \in Int /\ (l - (k + 1)) * WordSize \in Int
  BY <1>1
<1>7. QED
  BY <1>2, <1>3, <1>4, <1>5, <1>6

----------------------------------------------------------------------------
(* Memory.                                                                 *)

\* A write at HERE or above touches no definition.
LEMMA HeadersUntouched ==
  ASSUME IInv, NEW lo \in Int, here <= lo, NEW hi
  PROVE  LET h == Untouched(hdr, HeaderSize, lo, hi) IN
           /\ h \in [DOMAIN h -> HeaderRecord]
           /\ \A a \in DOMAIN h : a \in Int /\ a % CellSize = 0
           /\ \A d \in Defined : d \in DOMAIN h /\ h[d] = hdr[d]
<1> DEFINE h == Untouched(hdr, HeaderSize, lo, hi)
<1>1. h = [a \in {b \in DOMAIN hdr : b + HeaderSize <= lo \/ hi <= b} |-> hdr[a]]
  BY DEF Untouched
<1>2. h \in [DOMAIN h -> HeaderRecord] /\ \A a \in DOMAIN h : a \in Int /\ a % CellSize = 0
  BY <1>1 DEF IInv, TypeOK
<1>3. ASSUME NEW d \in Defined
      PROVE  d \in DOMAIN h /\ h[d] = hdr[d]
  <2>1. d \in DOMAIN hdr /\ d \in Int /\ d + WordSize <= here /\ here \in Int
    BY <1>3 DEF IInv, TypeOK, ChainSound, Defined
  <2>2. d + HeaderSize <= lo
    BY <2>1, Layout
  <2>3. QED
    BY <1>1, <2>1, <2>2
<1>4. QED
  BY <1>2, <1>3

LEMMA LatestDefined ==
  ASSUME IInv
  PROVE  /\ latest \in Defined /\ latest \in DOMAIN hdr /\ Len(defs) \in Nat /\ Len(defs) >= 1
         /\ \A d \in Defined : d \in DOMAIN hdr /\ d \in Int /\ d + WordSize <= here
<1>1. defs \in Seq(Int) /\ defs # << >> /\ latest = defs[Len(defs)]
  BY DEF IInv, TypeOK, ChainSound
<1>2. Len(defs) \in Nat /\ Len(defs) >= 1
  BY <1>1
<1>3. latest \in Defined
  BY <1>1, <1>2 DEF Defined
<1>4. \A d \in Defined : d \in DOMAIN hdr /\ d \in Int /\ d + WordSize <= here
  BY DEF IInv, TypeOK, ChainSound, Defined
<1>5. QED
  BY <1>2, <1>3, <1>4

\* FIND reaches definitions only: they are linked to one another alone.
LEMMA FoundDefined ==
  ASSUME IInv, NEW n \in Names, NEW a \in Found(n)
  PROVE  a \in Defined /\ hdr[a].hidden = FALSE
<1>1. a \in Chain /\ ~ hdr[a].hidden
  BY DEF Found, Matches
<1>2. Defined \subseteq DOMAIN hdr
  BY LatestDefined
<1>3. \A d \in Defined : hdr[d].link \in Defined \union {Null}
  <2> SUFFICES ASSUME NEW i \in 1..Len(defs)
               PROVE  hdr[defs[i]].link \in Defined \union {Null}
    BY DEF Defined
  <2>1. hdr[defs[i]].link = IF i = 1 THEN Null ELSE defs[i - 1]
    BY DEF IInv, ChainSound
  <2>2. i # 1 => i - 1 \in 1..Len(defs)
    BY LatestDefined
  <2>3. QED
    BY <2>1, <2>2 DEF Defined
<1>4. Closed(Defined)
  BY <1>3, LatestDefined DEF Closed
<1>5. a \in Defined
  BY <1>1, <1>2, <1>4 DEF Chain
<1>6. hdr[a] \in HeaderRecord
  BY <1>2, <1>5 DEF IInv, TypeOK
<1>7. QED
  BY <1>1, <1>5, <1>6 DEF HeaderRecord

\* No definition made or lost: HERE may grow, flags may change, cells may be
\* laid down that refer to definitions.
LEMMA SameDefinitions ==
  ASSUME IInv, UNCHANGED << latest, defs >>, here' \in here..Limit, state' \in {0, 1},
         hdr' \in [DOMAIN hdr' -> HeaderRecord],
         \A a \in DOMAIN hdr' : a \in Int /\ a % CellSize = 0,
         \A d \in Defined : d \in DOMAIN hdr' /\ hdr'[d].link = hdr[d].link,
         open' \subseteq Defined, torn' \subseteq Defined,
         \A d \in open' : hdr'[d].hidden,
         \A c \in DOMAIN ref' : /\ c \in 0..Limit /\ c + CellSize <= here'
                                /\ ref'[c] \in Defined /\ ref'[c] < c
  PROVE  IInv'
<1>1. Defined' = Defined
  BY DEF Defined
<1>2. /\ defs \in Seq(Int) /\ here \in 0..Limit
  BY DEF IInv, TypeOK
<1>3. here' \in 0..Limit /\ here <= here' /\ here' \in Int /\ here \in Int /\ Limit \in Nat
  BY <1>2, Layout
<1>4. TypeOK'
  <2>1. latest' \in DOMAIN hdr'
    BY LatestDefined
  <2>2. DOMAIN ref' \subseteq 0..Limit
    OBVIOUS
  <2>3. QED
    BY <1>1, <1>2, <1>3, <2>1, <2>2 DEF TypeOK
<1>5. ChainSound'
  <2>1. defs' # << >> /\ latest' = defs'[Len(defs')]
    BY DEF IInv, ChainSound
  <2>2. ASSUME NEW i \in 1..Len(defs)
        PROVE  /\ defs[i] \in DOMAIN hdr'
               /\ hdr'[defs[i]].link = IF i = 1 THEN Null ELSE defs[i - 1]
               /\ \A j \in i + 1..Len(defs) : defs[i] + WordSize <= defs[j]
               /\ defs[i] + WordSize <= here'
    <3>1. defs[i] \in Defined
      BY DEF Defined
    <3>2. defs[i] + WordSize <= here /\ defs[i] \in Int
      BY <3>1, LatestDefined
    <3>3. defs[i] + WordSize <= here'
      BY <1>3, <3>2, Layout
    <3>4. QED
      BY <3>1, <3>3 DEF IInv, ChainSound
  <2>3. QED
    BY <2>1, <2>2 DEF ChainSound
<1>6. NoDangling' /\ UnfinishedHidden'
  BY <1>1 DEF NoDangling, UnfinishedHidden
<1>7. RefersBack'
  BY LatestDefined DEF RefersBack
<1>8. BuiltInsStay'
  BY DEF IInv, BuiltInsStay
<1>9. QED
  BY <1>4, <1>5, <1>6, <1>7, <1>8 DEF IInv

\* The cells below HERE, as an action may rely on them.
LEMMA Cells ==
  ASSUME IInv
  PROVE  \A c \in DOMAIN ref : /\ c \in 0..Limit /\ c \in Int /\ c + CellSize <= here
                               /\ ref[c] \in Defined /\ ref[c] \in Int /\ ref[c] < c
BY Layout DEF IInv, TypeOK, NoDangling, RefersBack

----------------------------------------------------------------------------
(* The actions.                                                            *)

LEMMA LayInv ==
  ASSUME IInv, NEW n \in Nat, Lay(n), UNCHANGED << latest, state, defs, open, torn >>
  PROVE  IInv'
<1> DEFINE h == Untouched(hdr, HeaderSize, here, here + n)
<1>1. /\ here + n <= Limit /\ here' = here + n /\ hdr' = h
      /\ ref' = Untouched(ref, CellSize, here, here + n)
  BY DEF Lay
<1>2. here \in 0..Limit /\ state \in {0, 1} /\ open \subseteq Defined /\ torn \subseteq Defined
      /\ \A d \in open : hdr[d].hidden
  BY DEF IInv, TypeOK, UnfinishedHidden
<1>3. here' \in here..Limit /\ here \in Int /\ here <= here /\ here' \in Int /\ here <= here'
  BY <1>1, <1>2, Layout
<1>4. /\ h \in [DOMAIN h -> HeaderRecord]
      /\ \A a \in DOMAIN h : a \in Int /\ a % CellSize = 0
      /\ \A d \in Defined : d \in DOMAIN h /\ h[d] = hdr[d]
  BY <1>3, HeadersUntouched
<1> HIDE DEF h
<1>5. \A c \in DOMAIN ref' : c \in DOMAIN ref /\ ref'[c] = ref[c]
  BY <1>1 DEF Untouched
<1>6. \A c \in DOMAIN ref' : /\ c \in 0..Limit /\ c + CellSize <= here'
                             /\ ref'[c] \in Defined /\ ref'[c] < c
  BY <1>3, <1>5, Cells, Layout
<1>7. QED
  BY <1>1, <1>2, <1>3, <1>4, <1>6, SameDefinitions

LEMMA CommaXtInv ==
  ASSUME IInv, NEW a \in Defined, CommaXt(a),
         UNCHANGED << latest, state, defs, open, torn >>
  PROVE  IInv'
<1> DEFINE h == Untouched(hdr, HeaderSize, here, here')
           r == Untouched(ref, CellSize, here, here')
<1>1. /\ here + CellSize <= Limit /\ here' = here + CellSize /\ hdr' = h
      /\ ref' = Store(r, here, a)
  BY DEF CommaXt
<1>2. here \in 0..Limit /\ state \in {0, 1} /\ open \subseteq Defined /\ torn \subseteq Defined
      /\ \A d \in open : hdr[d].hidden
  BY DEF IInv, TypeOK, UnfinishedHidden
<1>3. here' \in here..Limit /\ here \in Int /\ here <= here /\ here' \in Int /\ here <= here'
  BY <1>1, <1>2, Layout
<1>4. /\ h \in [DOMAIN h -> HeaderRecord]
      /\ \A b \in DOMAIN h : b \in Int /\ b % CellSize = 0
      /\ \A d \in Defined : d \in DOMAIN h /\ h[d] = hdr[d]
  BY <1>3, HeadersUntouched
<1>5. \A c \in DOMAIN r : c \in DOMAIN ref /\ r[c] = ref[c]
  BY DEF Untouched
<1> HIDE DEF h, r
<1>6. a < here
  BY <1>3, LatestDefined, Layout
<1>7. ASSUME NEW c \in DOMAIN ref'
      PROVE  /\ c \in 0..Limit /\ c + CellSize <= here'
             /\ ref'[c] \in Defined /\ ref'[c] < c
  <2>1. CASE c = here
    <3>1. ref'[c] = a
      BY <1>1, <1>7, <2>1 DEF Store
    <3>2. QED
      BY <1>1, <1>2, <1>6, <2>1, <3>1, Layout
  <2>2. CASE c # here
    <3>1. c \in DOMAIN r /\ ref'[c] = r[c]
      BY <1>1, <1>7, <2>2 DEF Store
    <3>2. QED
      BY <1>3, <1>5, <3>1, Cells, Layout
  <2>3. QED
    BY <2>1, <2>2
<1>8. QED
  BY <1>1, <1>2, <1>3, <1>4, <1>7, SameDefinitions

\* Flags may change, other than the hidden flag of an unfinished definition.
LEMMA FlagInv ==
  ASSUME IInv, UNCHANGED << ref, latest, here, defs >>, state' \in {0, 1},
         NEW a \in Defined, NEW rec \in HeaderRecord, rec.link = hdr[a].link,
         hdr' = [hdr EXCEPT ![a] = rec],
         open' \subseteq Defined, torn' \subseteq Defined,
         \A d \in open' : IF d = a THEN rec.hidden ELSE hdr[d].hidden
  PROVE  IInv'
<1>1. here \in 0..Limit /\ hdr \in [DOMAIN hdr -> HeaderRecord]
      /\ \A b \in DOMAIN hdr : b \in Int /\ b % CellSize = 0
  BY DEF IInv, TypeOK
<1>2. here' \in here..Limit
  BY <1>1, Layout
<1>3. /\ hdr' \in [DOMAIN hdr' -> HeaderRecord] /\ DOMAIN hdr' = DOMAIN hdr
      /\ \A d \in DOMAIN hdr : hdr'[d] = IF d = a THEN rec ELSE hdr[d]
  BY <1>1
<1>4. \A d \in Defined : d \in DOMAIN hdr' /\ hdr'[d].link = hdr[d].link
  BY <1>3, LatestDefined
<1>5. \A d \in open' : hdr'[d].hidden
  BY <1>3, LatestDefined
<1>6. \A c \in DOMAIN ref' : /\ c \in 0..Limit /\ c + CellSize <= here'
                             /\ ref'[c] \in Defined /\ ref'[c] < c
  BY Cells
<1>7. QED
  BY <1>1, <1>2, <1>3, <1>4, <1>5, <1>6, SameDefinitions

LEMMA ImmediateInv == ASSUME IInv, Immediate PROVE IInv'
<1> DEFINE rec == [hdr[latest] EXCEPT !.immediate = ~ @]
<1>1. hdr[latest] \in HeaderRecord
  BY LatestDefined DEF IInv, TypeOK
<1>2. rec \in HeaderRecord /\ rec.link = hdr[latest].link /\ rec.hidden = hdr[latest].hidden
  BY <1>1 DEF HeaderRecord
<1>3. hdr' = [hdr EXCEPT ![latest] = rec]
  BY DEF Immediate
<1> HIDE DEF rec
<1>4. open \subseteq Defined /\ torn \subseteq Defined /\ state \in {0, 1}
      /\ \A d \in open : hdr[d].hidden
  BY DEF IInv, TypeOK, UnfinishedHidden
<1>5. UNCHANGED << ref, latest, here, state, defs, open, torn >>
  BY DEF Immediate
<1>6. \A d \in open' : IF d = latest THEN rec.hidden ELSE hdr[d].hidden
  BY <1>2, <1>4, <1>5
<1>7. QED
  BY <1>2, <1>3, <1>4, <1>5, <1>6, LatestDefined, FlagInv

LEMMA HideInv == ASSUME IInv, NEW n \in Names, Hide(n) PROVE IInv'
<1>1. PICK a \in Found(n) : ToggleHidden(a)
  BY DEF Hide
<1> DEFINE rec == [hdr[a] EXCEPT !.hidden = ~ @]
<1>2. a \in Defined /\ hdr[a].hidden = FALSE
  BY FoundDefined
<1>3. hdr[a] \in HeaderRecord
  BY <1>2, LatestDefined DEF IInv, TypeOK
<1>4. rec \in HeaderRecord /\ rec.link = hdr[a].link /\ rec.hidden
  BY <1>2, <1>3 DEF HeaderRecord
<1>5. hdr' = [hdr EXCEPT ![a] = rec]
  BY <1>1 DEF ToggleHidden
<1> HIDE DEF rec
<1>6. open \subseteq Defined /\ torn \subseteq Defined /\ state \in {0, 1}
      /\ \A d \in open : hdr[d].hidden
  BY DEF IInv, TypeOK, UnfinishedHidden
<1>7. QED
  BY <1>2, <1>4, <1>5, <1>6, FlagInv DEF Hide

LEMMA SemicolonInv == ASSUME IInv, Semicolon PROVE IInv'
<1> DEFINE h == Untouched(hdr, HeaderSize, here, here')
           rec == [h[latest] EXCEPT !.hidden = ~ @]
<1>1. /\ here + CellSize <= Limit /\ here' = here + CellSize
      /\ ref' = Untouched(ref, CellSize, here, here')
      /\ state' = 0 /\ open' = open \ {latest} /\ UNCHANGED << latest, defs, torn >>
      /\ hdr' = [h EXCEPT ![latest] = rec]
  BY DEF Semicolon
<1>2. here \in 0..Limit /\ open \subseteq Defined /\ torn \subseteq Defined
      /\ \A d \in open : hdr[d].hidden
  BY DEF IInv, TypeOK, UnfinishedHidden
<1>3. here' \in here..Limit /\ here \in Int /\ here <= here /\ here' \in Int /\ here <= here'
  BY <1>1, <1>2, Layout
<1>4. /\ h \in [DOMAIN h -> HeaderRecord]
      /\ \A a \in DOMAIN h : a \in Int /\ a % CellSize = 0
      /\ \A d \in Defined : d \in DOMAIN h /\ h[d] = hdr[d]
  BY <1>3, HeadersUntouched
<1> HIDE DEF h
<1>5. latest \in DOMAIN h /\ h[latest] \in HeaderRecord
  BY <1>4, LatestDefined
<1>6. rec \in HeaderRecord /\ rec.link = h[latest].link
  BY <1>5 DEF HeaderRecord
<1> HIDE DEF rec
<1>7. /\ DOMAIN hdr' = DOMAIN h /\ hdr' \in [DOMAIN hdr' -> HeaderRecord]
      /\ \A d \in DOMAIN h : hdr'[d] = IF d = latest THEN rec ELSE h[d]
  BY <1>1, <1>4, <1>6
<1>8. \A d \in Defined : d \in DOMAIN hdr' /\ hdr'[d].link = hdr[d].link
  BY <1>4, <1>6, <1>7
<1>9. \A d \in open' : hdr'[d].hidden
  BY <1>1, <1>2, <1>4, <1>7
<1>10. \A c \in DOMAIN ref' : c \in DOMAIN ref /\ ref'[c] = ref[c]
  BY <1>1 DEF Untouched
<1>11. \A c \in DOMAIN ref' : /\ c \in 0..Limit /\ c + CellSize <= here'
                              /\ ref'[c] \in Defined /\ ref'[c] < c
  BY <1>3, <1>10, Cells, Layout
<1>12. QED
  BY <1>1, <1>2, <1>3, <1>4, <1>7, <1>8, <1>9, <1>11, SameDefinitions

\* _header: what it lays down lies above every definition, linked to LATEST.
LEMMA HeaderInv ==
  ASSUME IInv, NEW n \in Names \union {Unnamed}, NEW hide \in BOOLEAN,
         NEW code \in SUBSET Defined, Header(n, hide, code), state' \in {0, 1},
         torn' = torn, open' = open \/ (hide /\ open' = open \union {latest'})
  PROVE  IInv'
<1> DEFINE x == Align(here)
           end == x + WordSize
           rec == [link |-> latest, name |-> n, hidden |-> hide, immediate |-> FALSE]
           h == Untouched(hdr, HeaderSize, x, end)
           r == Untouched(ref, CellSize, x, end)
<1>1. /\ end <= Limit /\ hdr' = Store(h, x, rec)
      /\ ref' = r \/ \E a \in code : ref' = Store(r, x + HeaderSize, a)
      /\ latest' = x /\ here' = end /\ defs' = Append(defs, x)
  BY DEF Header, NewHeader
<1>2. /\ here \in 0..Limit /\ defs \in Seq(Int) /\ DOMAIN ref \subseteq 0..Limit
      /\ open \subseteq Defined /\ torn \subseteq Defined /\ \A d \in open : hdr[d].hidden
  BY DEF IInv, TypeOK, UnfinishedHidden
<1>3. here \in Nat /\ x \in Nat /\ here <= x /\ x % CellSize = 0
  <2>1. here \in Nat
    BY <1>2, Layout
  <2>2. QED
    BY <2>1, Aligned
<1>4. /\ h \in [DOMAIN h -> HeaderRecord]
      /\ \A a \in DOMAIN h : a \in Int /\ a % CellSize = 0
      /\ \A d \in Defined : d \in DOMAIN h /\ h[d] = hdr[d]
  BY <1>3, HeadersUntouched
<1>5. \A c \in DOMAIN r : c \in DOMAIN ref /\ r[c] = ref[c]
  BY DEF Untouched
<1>6. \A d \in Defined : d \in Int /\ d + WordSize <= here /\ d + WordSize <= x /\ d < x
  BY <1>3, LatestDefined, Layout
<1>7. rec \in HeaderRecord
  BY <1>6, LatestDefined DEF HeaderRecord
<1>8. rec.link = latest /\ rec.hidden = hide
  OBVIOUS
<1>9. end = x + WordSize /\ end \in Int
  BY <1>3, Layout
<1> HIDE DEF x, end, rec, h, r
<1>10. /\ DOMAIN hdr' = DOMAIN h \union {x} /\ hdr' \in [DOMAIN hdr' -> HeaderRecord]
       /\ hdr'[x] = rec /\ \A a \in DOMAIN h : a # x => hdr'[a] = h[a]
  BY <1>1, <1>4, <1>7 DEF Store
<1>11. \A d \in Defined : d \in DOMAIN hdr' /\ hdr'[d] = hdr[d]
  BY <1>4, <1>6, <1>10
<1>12. /\ Len(defs) \in Nat /\ Len(defs) >= 1 /\ Len(defs') = Len(defs) + 1
       /\ defs' \in Seq(Int) /\ defs'[Len(defs) + 1] = x
       /\ \A i \in 1..Len(defs) : defs'[i] = defs[i] /\ defs[i] \in Defined
  BY <1>1, <1>2, <1>3, LatestDefined DEF Defined
<1>13. Defined' = Defined \union {x}
  BY <1>12 DEF Defined
<1>14. TypeOK'
  <2>1. \A a \in DOMAIN hdr' : a \in Int /\ a % CellSize = 0
    BY <1>3, <1>4, <1>10
  <2>2. DOMAIN ref' \subseteq 0..Limit
    <3>1. x + HeaderSize \in 0..Limit
      BY <1>1, <1>3, <1>9, Layout
    <3>2. QED
      BY <1>1, <1>2, <1>5, <3>1 DEF Store
  <2>3. here' \in 0..Limit
    BY <1>1, <1>3, <1>9, Layout
  <2>4. open' \subseteq Defined' /\ torn' \subseteq Defined'
    BY <1>1, <1>2, <1>13
  <2>5. QED
    BY <1>1, <1>10, <1>12, <2>1, <2>2, <2>3, <2>4 DEF TypeOK
<1>15. ChainSound'
  <2>1. defs' # << >> /\ latest' = defs'[Len(defs')]
    BY <1>1, <1>12
  <2>2. ASSUME NEW i \in 1..Len(defs')
        PROVE  /\ defs'[i] \in DOMAIN hdr'
               /\ hdr'[defs'[i]].link = IF i = 1 THEN Null ELSE defs'[i - 1]
               /\ \A j \in i + 1..Len(defs') : defs'[i] + WordSize <= defs'[j]
               /\ defs'[i] + WordSize <= here'
    <3>1. CASE i = Len(defs) + 1
      <4>1. defs'[i] = x /\ i # 1 /\ i - 1 = Len(defs) /\ i + 1..Len(defs') = {}
        BY <1>12, <3>1
      <4>2. defs'[i - 1] = latest
        BY <1>12, <4>1 DEF IInv, ChainSound
      <4>3. QED
        BY <1>1, <1>8, <1>9, <1>10, <4>1, <4>2
    <3>2. CASE i \in 1..Len(defs)
      <4>1. defs'[i] = defs[i] /\ defs[i] \in Defined
        BY <1>12, <3>2
      <4>2. hdr'[defs'[i]].link = IF i = 1 THEN Null ELSE defs'[i - 1]
        <5>1. hdr[defs[i]].link = IF i = 1 THEN Null ELSE defs[i - 1]
          BY <3>2 DEF IInv, ChainSound
        <5>2. i # 1 => defs'[i - 1] = defs[i - 1]
          BY <1>12, <3>2
        <5>3. QED
          BY <1>11, <4>1, <5>1, <5>2
      <4>3. ASSUME NEW j \in i + 1..Len(defs')
            PROVE  defs'[i] + WordSize <= defs'[j]
        <5>1. CASE j = Len(defs) + 1
          BY <1>6, <1>12, <4>1, <5>1
        <5>2. CASE j # Len(defs) + 1
          <6>1. j \in i + 1..Len(defs) /\ defs'[j] = defs[j]
            BY <1>12, <3>2, <4>3, <5>2
          <6>2. QED
            BY <3>2, <4>1, <6>1 DEF IInv, ChainSound
        <5>3. QED
          BY <5>1, <5>2
      <4>4. defs'[i] + WordSize <= here'
        BY <1>1, <1>3, <1>6, <1>9, <4>1, Layout
      <4>5. QED
        BY <1>11, <4>1, <4>2, <4>3, <4>4
    <3>3. QED
      BY <1>12, <3>1, <3>2
  <2>3. QED
    BY <2>1, <2>2 DEF ChainSound
<1>16. ASSUME NEW c \in DOMAIN ref'
       PROVE  c + CellSize <= here' /\ ref'[c] \in Defined /\ ref'[c] < c
  <2>1. CASE c \in DOMAIN r /\ ref'[c] = r[c]
    BY <1>1, <1>3, <1>5, <1>9, <2>1, Cells, Layout
  <2>2. CASE c = x + HeaderSize /\ ref'[c] \in code
    <3>1. ref'[c] \in Defined /\ ref'[c] \in Int /\ ref'[c] < x
      BY <1>6, <2>2
    <3>2. QED
      BY <1>1, <1>3, <1>9, <2>2, <3>1, Layout
  <2>3. QED
    BY <1>1, <1>16, <2>1, <2>2 DEF Store
<1>17. NoDangling'
  BY <1>13, <1>16 DEF NoDangling
<1>18. RefersBack'
  BY <1>6, <1>16 DEF RefersBack
<1>19. UnfinishedHidden'
  <2>1. \A d \in open : hdr'[d].hidden
    BY <1>2, <1>11
  <2>2. QED
    BY <1>1, <1>8, <1>10, <2>1 DEF UnfinishedHidden
<1>20. BuiltInsStay'
  BY <1>12, Layout DEF IInv, BuiltInsStay
<1>21. QED
  BY <1>14, <1>15, <1>17, <1>18, <1>19, <1>20 DEF IInv

\* FORGET: what is left lies below the forgotten word, and so do the cells
\* that are left, and what they refer to.
LEMMA ForgetInv == ASSUME IInv, NEW n \in Names, Forget(n) PROVE IInv'
<1>1. PICK a \in Found(n) : a >= 0 /\ latest' = hdr[a].link /\ SetBack(a) /\ Forgotten(a)
  BY DEF Forget
<1>2. PICK k \in 1..Len(defs) : defs[k] = a /\ defs' = SubSeq(defs, 1, k - 1)
  BY <1>1 DEF Forgotten
<1>3. /\ defs \in Seq(Int) /\ Len(defs) \in Nat /\ here \in 0..Limit /\ state \in {0, 1}
      /\ hdr \in [DOMAIN hdr -> HeaderRecord]
      /\ \A b \in DOMAIN hdr : b \in Int /\ b % CellSize = 0
      /\ open \subseteq Defined /\ torn \subseteq Defined /\ \A d \in open : hdr[d].hidden
  BY LatestDefined DEF IInv, TypeOK, UnfinishedHidden
<1>4. /\ a \in Int /\ a >= 0 /\ a + WordSize <= here
  BY <1>1, FoundDefined, LatestDefined
<1>5. k > Kept
  <2>1. CASE k \in 1..Kept
    <3>1. a = BuiltInAt(k)
      BY <1>2, <2>1 DEF IInv, BuiltInsStay
    <3>2. BuiltInAt(k) \in Int /\ BuiltInAt(k) + WordSize <= 0
      BY <2>1, BuiltInPlace
    <3>3. QED
      BY <1>4, <3>1, <3>2, Layout
  <2>2. QED
    BY <1>3, <2>1, Layout
<1>6. /\ k - 1 \in Nat /\ k - 1 >= 1 /\ Len(defs') = k - 1 /\ defs' \in Seq(Int)
      /\ \A i \in 1..k - 1 : i \in 1..Len(defs) /\ defs'[i] = defs[i]
  <2>1. k \in Nat /\ k <= Len(defs) /\ k - 1 \in Nat /\ k - 1 >= 1
    <3>1. k \in Nat /\ k <= Len(defs) /\ Kept \in Nat /\ Kept >= 1
      BY <1>3, Layout
    <3>2. QED
      BY <1>5, <3>1
  <2>2. \A i \in 1..k - 1 : i \in 1..Len(defs) /\ defs[i] \in Int
    BY <1>3, <2>1
  <2>3. SubSeq(defs, 1, k - 1) = [i \in 1..k - 1 |-> defs[i]]
    BY <1>3, <2>1
  <2>4. QED
    BY <1>2, <2>1, <2>2, <2>3
<1>7. \A i \in 1..k - 1 : defs[i] \in Defined /\ defs[i] \in Int /\ defs[i] + WordSize <= a
  <2>1. TAKE i \in 1..k - 1
  <2>2. i \in 1..Len(defs) /\ k \in i + 1..Len(defs)
    BY <1>3, <1>6
  <2>3. defs[i] + WordSize <= defs[k]
    BY <2>2 DEF IInv, ChainSound
  <2>4. QED
    BY <1>2, <1>3, <2>2, <2>3 DEF Defined
<1>8. ASSUME NEW d \in Defined, d < a
      PROVE  d \in Defined'
  <2>1. PICK i \in 1..Len(defs) : defs[i] = d
    BY <1>8 DEF Defined
  <2>2. CASE i < k
    <3>1. i \in 1..k - 1
      BY <1>3, <2>2
    <3>2. i \in 1..Len(defs') /\ defs'[i] = d
      BY <1>6, <2>1, <3>1
    <3>3. QED
      BY <3>2 DEF Defined
  <2>3. CASE i = k
    BY <1>2, <1>4, <1>8, <2>1, <2>3
  <2>4. CASE i > k
    <3>1. i \in k + 1..Len(defs)
      BY <1>3, <2>4
    <3>2. defs[k] + WordSize <= defs[i]
      BY <3>1 DEF IInv, ChainSound
    <3>3. a + WordSize <= d /\ d \in Int
      BY <1>2, <1>8, <2>1, <3>2, LatestDefined
    <3>4. QED
      BY <1>4, <1>8, <3>3, Layout
  <2>5. QED
    BY <1>3, <2>2, <2>3, <2>4
<1>9. /\ here' = a /\ latest' = hdr[a].link
      /\ hdr' = [b \in {c \in DOMAIN hdr : c + HeaderSize <= a \/ Limit <= c} |-> hdr[b]]
      /\ ref' = [b \in {c \in DOMAIN ref : c + CellSize <= a \/ Limit <= c} |-> ref[b]]
      /\ open' = open \ Younger(a) /\ torn' = torn \ Younger(a)
      /\ state' = state
  BY <1>1 DEF SetBack, Untouched, Forgotten, Forget
<1>10. /\ hdr' \in [DOMAIN hdr' -> HeaderRecord]
       /\ \A b \in DOMAIN hdr' : b \in Int /\ b % CellSize = 0
       /\ \A i \in 1..k - 1 : defs[i] \in DOMAIN hdr' /\ hdr'[defs[i]] = hdr[defs[i]]
  <2>1. hdr' \in [DOMAIN hdr' -> HeaderRecord] /\ \A b \in DOMAIN hdr' : b \in Int /\ b % CellSize = 0
    BY <1>3, <1>9
  <2>2. ASSUME NEW i \in 1..k - 1
        PROVE  defs[i] \in DOMAIN hdr' /\ hdr'[defs[i]] = hdr[defs[i]]
    <3>1. defs[i] \in DOMAIN hdr
      BY <1>7, LatestDefined
    <3>2. defs[i] + HeaderSize <= a
      BY <1>4, <1>7, Layout
    <3>3. QED
      BY <1>9, <3>1, <3>2
  <2>3. QED
    BY <2>1, <2>2
<1>11. hdr[defs[k]].link = defs[k - 1]
  BY <1>2, <1>5, Layout DEF IInv, ChainSound
<1>12. latest' = defs'[Len(defs')] /\ latest' \in DOMAIN hdr' /\ defs' # << >>
  <2>1. k - 1 \in 1..k - 1
    BY <1>6
  <2>2. defs'[Len(defs')] = defs[k - 1] /\ defs[k - 1] \in DOMAIN hdr'
    BY <1>6, <1>10, <2>1
  <2>3. latest' = defs[k - 1]
    BY <1>2, <1>9, <1>11
  <2>4. QED
    BY <1>6, <2>2, <2>3
<1>13. \A d \in open' : d \in open /\ d < a
  BY <1>3, <1>4, <1>9, LatestDefined DEF Younger
<1>14. \A d \in torn' : d \in torn /\ d < a
  BY <1>3, <1>4, <1>9, LatestDefined DEF Younger
<1>15. \A c \in DOMAIN ref' : /\ c \in DOMAIN ref /\ ref'[c] = ref[c] /\ c \in Int
                              /\ c + CellSize <= a
  BY <1>3, <1>9, Cells, Layout
<1>16. TypeOK'
  <2>1. open' \subseteq Defined' /\ torn' \subseteq Defined'
    BY <1>3, <1>8, <1>13, <1>14
  <2>2. here' \in 0..Limit
    BY <1>3, <1>4, <1>9, Layout
  <2>3. DOMAIN ref' \subseteq 0..Limit
    BY <1>15, Cells
  <2>4. QED
    BY <1>3, <1>6, <1>9, <1>10, <1>12, <2>1, <2>2, <2>3 DEF TypeOK
<1>17. ChainSound'
  <2>1. ASSUME NEW i \in 1..k - 1
        PROVE  /\ defs'[i] \in DOMAIN hdr'
               /\ hdr'[defs'[i]].link = IF i = 1 THEN Null ELSE defs'[i - 1]
               /\ \A j \in i + 1..k - 1 : defs'[i] + WordSize <= defs'[j]
               /\ defs'[i] + WordSize <= here'
    <3>1. i \in 1..Len(defs) /\ defs'[i] = defs[i]
      BY <1>6
    <3>2. hdr[defs[i]].link = IF i = 1 THEN Null ELSE defs[i - 1]
      BY <3>1 DEF IInv, ChainSound
    <3>3. i # 1 => i - 1 \in 1..k - 1 /\ defs'[i - 1] = defs[i - 1]
      BY <1>6
    <3>4. ASSUME NEW j \in i + 1..k - 1
          PROVE  defs'[i] + WordSize <= defs'[j]
      <4>1. j \in 1..k - 1 /\ j \in i + 1..Len(defs)
        <5>1. k \in Nat /\ k <= Len(defs) /\ i \in Nat /\ i >= 1
          BY <1>3
        <5>2. QED
          BY <1>3, <3>4, <5>1
      <4>2. defs'[j] = defs[j]
        BY <1>6, <4>1
      <4>3. QED
        BY <3>1, <4>1, <4>2 DEF IInv, ChainSound
    <3>5. QED
      BY <1>7, <1>9, <1>10, <3>1, <3>2, <3>3, <3>4
  <2>2. QED
    BY <1>6, <1>12, <2>1 DEF ChainSound
<1>18. NoDangling'
  <2>1. ASSUME NEW c \in DOMAIN ref'
        PROVE  ref'[c] \in Defined'
    <3>1. ref[c] \in Defined /\ ref[c] \in Int /\ ref[c] < c
      BY <1>15, Cells
    <3>2. ref[c] < a
      BY <1>4, <1>15, <3>1, Layout
    <3>3. QED
      BY <1>8, <1>15, <3>1, <3>2
  <2>2. QED
    BY <2>1 DEF NoDangling
<1>19. RefersBack'
  BY <1>9, <1>15, Cells DEF RefersBack
<1>20. UnfinishedHidden'
  <2>1. ASSUME NEW d \in open'
        PROVE  hdr'[d].hidden
    <3>1. d \in open /\ d \in Defined /\ d \in Defined'
      BY <1>3, <1>8, <1>13
    <3>2. PICK i \in 1..k - 1 : d = defs[i]
      BY <1>6, <3>1 DEF Defined
    <3>3. QED
      BY <1>3, <1>10, <3>1, <3>2
  <2>2. QED
    BY <2>1 DEF UnfinishedHidden
<1>21. BuiltInsStay'
  <2>1. Kept <= k - 1 /\ \A i \in 1..Kept : i \in 1..k - 1
    BY <1>3, <1>5, Layout
  <2>2. QED
    BY <1>6, <2>1 DEF IInv, BuiltInsStay
<1>22. QED
  BY <1>16, <1>17, <1>18, <1>19, <1>20, <1>21 DEF IInv

\* The built-in words alone, with nothing laid down behind them.
OnlyBuiltIns ==
  /\ defs = BuiltIns /\ open = {} /\ torn = {} /\ here = 0 /\ state = 0
  /\ latest = BuiltInAt(Kept) /\ ref = << >>
  /\ hdr \in [DOMAIN hdr -> HeaderRecord]
  /\ \A a \in DOMAIN hdr : a \in Int /\ a % CellSize = 0
  /\ \A i \in 1..Kept :
       /\ BuiltInAt(i) \in DOMAIN hdr
       /\ hdr[BuiltInAt(i)].link = IF i = 1 THEN Null ELSE BuiltInAt(i - 1)

LEMMA BuiltInsInv == OnlyBuiltIns => IInv
<1> SUFFICES ASSUME OnlyBuiltIns PROVE IInv
  OBVIOUS
<1>1. /\ defs \in Seq(Int) /\ Len(defs) = Kept
      /\ \A i \in 1..Kept : defs[i] = BuiltInAt(i)
  <2>1. defs = [i \in 1..Kept |-> BuiltInAt(i)] /\ Kept \in Nat
    BY Layout DEF OnlyBuiltIns, BuiltIns
  <2>2. \A i \in 1..Kept : BuiltInAt(i) \in Int
    BY BuiltInPlace
  <2>3. defs \in [1..Kept -> Int]
    BY <2>1, <2>2
  <2>4. defs \in Seq(Int) /\ Len(defs) = Kept
    BY <2>1, <2>3
  <2>5. QED
    BY <2>1, <2>4
<1>2. DOMAIN ref = {}
  BY DEF OnlyBuiltIns
<1>3. TypeOK
  BY <1>1, <1>2, Layout DEF TypeOK, OnlyBuiltIns
<1>4. ChainSound
  <2>1. ASSUME NEW i \in 1..Kept
        PROVE  /\ defs[i] \in DOMAIN hdr
               /\ hdr[defs[i]].link = IF i = 1 THEN Null ELSE defs[i - 1]
               /\ \A j \in i + 1..Kept : defs[i] + WordSize <= defs[j]
               /\ defs[i] + WordSize <= here
    <3>1. i # 1 => i - 1 \in 1..Kept
      BY Layout
    <3>2. \A j \in i + 1..Kept : j \in 1..Kept /\ BuiltInAt(i) + WordSize <= BuiltInAt(j)
      BY BuiltInOrder, Layout
    <3>3. QED
      BY <1>1, <3>1, <3>2, BuiltInPlace DEF OnlyBuiltIns
  <2>2. QED
    BY <1>1, <2>1, Layout DEF ChainSound, OnlyBuiltIns
<1>5. NoDangling /\ RefersBack /\ UnfinishedHidden /\ BuiltInsStay
  BY <1>1, <1>2, Layout DEF NoDangling, RefersBack, UnfinishedHidden, BuiltInsStay, OnlyBuiltIns
<1>6. QED
  BY <1>3, <1>4, <1>5 DEF IInv

LEMMA RestartInv == ASSUME IInv, Restart PROVE IInv'
<1>1. /\ here' = 0 /\ latest' = BuiltInAt(Kept) /\ state' = 0
      /\ hdr' = [b \in {c \in DOMAIN hdr : c + HeaderSize <= 0 \/ Limit <= c} |-> hdr[b]]
      /\ ref' = [b \in {c \in DOMAIN ref : c + CellSize <= 0 \/ Limit <= c} |-> ref[b]]
      /\ defs' = BuiltIns /\ open' = {} /\ torn' = {}
  BY DEF Restart, SetBack, Untouched
<1>2. here \in 0..Limit /\ hdr \in [DOMAIN hdr -> HeaderRecord]
      /\ \A b \in DOMAIN hdr : b \in Int /\ b % CellSize = 0
  BY DEF IInv, TypeOK
<1>3. hdr' \in [DOMAIN hdr' -> HeaderRecord] /\ \A a \in DOMAIN hdr' : a \in Int /\ a % CellSize = 0
  BY <1>1, <1>2
<1>4. ref' = << >>
  <2>1. {c \in DOMAIN ref : c + CellSize <= 0 \/ Limit <= c} = {}
    BY <1>2, Cells, Layout
  <2>2. QED
    BY <1>1, <2>1
<1>5. ASSUME NEW i \in 1..Kept
      PROVE  /\ BuiltInAt(i) \in DOMAIN hdr'
             /\ hdr'[BuiltInAt(i)].link = IF i = 1 THEN Null ELSE BuiltInAt(i - 1)
  <2>1. /\ i \in 1..Len(defs) /\ defs[i] = BuiltInAt(i)
        /\ i # 1 => i - 1 \in 1..Kept /\ defs[i - 1] = BuiltInAt(i - 1)
    BY Layout, LatestDefined DEF IInv, BuiltInsStay
  <2>2. /\ BuiltInAt(i) \in DOMAIN hdr
        /\ hdr[BuiltInAt(i)].link = IF i = 1 THEN Null ELSE BuiltInAt(i - 1)
    BY <2>1 DEF IInv, ChainSound
  <2>3. BuiltInAt(i) + HeaderSize <= 0
    BY BuiltInPlace, Layout
  <2>4. QED
    BY <1>1, <2>2, <2>3
<1>6. OnlyBuiltIns'
  BY <1>1, <1>3, <1>4, <1>5 DEF OnlyBuiltIns
<1>7. QED
  BY <1>6, BuiltInsInv, PTL

LEMMA InitInv == Init => IInv
<1> SUFFICES ASSUME Init PROVE IInv
  OBVIOUS
<1> DEFINE A == {BuiltInAt(i) : i \in 1..Kept}
           at(a) == CHOOSE i \in 1..Kept : BuiltInAt(i) = a
<1>1. hdr = [a \in A |->
              [link |-> IF a = BuiltInAt(1) THEN Null ELSE a - WordSize,
               name |-> BuiltIn[at(a)], hidden |-> FALSE, immediate |-> FALSE]]
  BY DEF Init
<1>2. \A a \in A : a \in Int /\ a % CellSize = 0
  BY BuiltInPlace
<1>3. \A a \in A : at(a) \in 1..Kept
  OBVIOUS
<1>4. \A a \in A : BuiltIn[at(a)] \in Names
  <2>1. \A i \in 1..Kept : BuiltIn[i] \in Names
    BY LayoutAssumption DEF Kept
  <2>2. QED
    BY <1>3, <2>1
<1> HIDE DEF at
<1>5. hdr \in [DOMAIN hdr -> HeaderRecord]
  <2>1. ASSUME NEW a \in A
        PROVE  hdr[a] \in HeaderRecord
    <3> DEFINE l == IF a = BuiltInAt(1) THEN Null ELSE a - WordSize
               m == BuiltIn[at(a)]
    <3>1. l \in Int \union {Null} /\ m \in Names
      <4>1. a \in Int /\ WordSize \in Int
        BY <1>2, Layout
      <4>2. a - WordSize \in Int
        BY <4>1
      <4>3. QED
        BY <1>4, <4>2
    <3>2. hdr[a] = [link |-> l, name |-> m, hidden |-> FALSE, immediate |-> FALSE]
      BY <1>1
    <3> HIDE DEF l, m
    <3>3. QED
      BY <3>1, <3>2 DEF HeaderRecord
  <2>2. QED
    BY <1>1, <2>1
<1>6. ASSUME NEW i \in 1..Kept
      PROVE  /\ BuiltInAt(i) \in DOMAIN hdr
             /\ hdr[BuiltInAt(i)].link = IF i = 1 THEN Null ELSE BuiltInAt(i - 1)
  <2>1. hdr[BuiltInAt(i)].link =
          IF BuiltInAt(i) = BuiltInAt(1) THEN Null ELSE BuiltInAt(i) - WordSize
    BY <1>1
  <2>2. CASE i = 1
    BY <1>1, <2>1, <2>2
  <2>3. CASE i # 1
    <3>1. 1 \in 1..Kept /\ i \in 1 + 1..Kept
      BY <2>3, Layout
    <3>2. BuiltInAt(1) + WordSize <= BuiltInAt(i) /\ BuiltInAt(1) \in Int
      BY <3>1, BuiltInOrder, BuiltInPlace
    <3>3. BuiltInAt(i) # BuiltInAt(1)
      BY <3>2, Layout
    <3>4. QED
      BY <1>1, <2>1, <2>3, <3>3, BuiltInPlace
  <2>4. QED
    BY <2>2, <2>3
<1>7. OnlyBuiltIns
  BY <1>1, <1>2, <1>5, <1>6 DEF Init, OnlyBuiltIns
<1>8. QED
  BY <1>7, BuiltInsInv

LEMMA Inductive == IInv /\ [Next]_vars => IInv'
<1> SUFFICES ASSUME IInv, [Next]_vars PROVE IInv'
  OBVIOUS
<1>1. /\ here \in 0..Limit /\ here \in here..Limit /\ state \in {0, 1}
      /\ hdr \in [DOMAIN hdr -> HeaderRecord]
      /\ \A b \in DOMAIN hdr : b \in Int /\ b % CellSize = 0
      /\ open \subseteq Defined /\ torn \subseteq Defined /\ \A d \in open : hdr[d].hidden
  BY Layout DEF IInv, TypeOK, UnfinishedHidden
<1>2. ASSUME UNCHANGED << hdr, ref, latest, here, defs, open >>, state' \in {0, 1},
             torn' \subseteq Defined
      PROVE  IInv'
  BY <1>1, <1>2, Cells, LatestDefined, SameDefinitions
<1>3. CASE UNCHANGED vars
  BY <1>1, <1>2, <1>3 DEF vars
<1>4. ASSUME NEW n \in Names, Create(n)
      PROVE  IInv'
  BY <1>1, <1>4, HeaderInv DEF Create
<1>5. ASSUME NEW n \in Names, NEW d \in Names, CreateDoes(d, n)
      PROVE  IInv'
  <2>1. PICK a \in Found(d) : Header(n, FALSE, {a})
    BY <1>5 DEF CreateDoes
  <2>2. {a} \in SUBSET Defined
    BY <2>1, FoundDefined
  <2>3. QED
    BY <1>1, <1>5, <2>1, <2>2, HeaderInv DEF CreateDoes
<1>6. ASSUME NEW n \in Names, Colon(n)
      PROVE  IInv'
  BY <1>6, HeaderInv DEF Colon
<1>7. CASE Noname
  BY <1>7, HeaderInv DEF Noname
<1>8. ASSUME NEW n \in Names, CompileWord(n)
      PROVE  IInv'
  BY <1>8, FoundDefined, CommaXtInv DEF CompileWord
<1>9. ASSUME NEW n \in Names, TickComma(n)
      PROVE  IInv'
  BY <1>9, FoundDefined, CommaXtInv DEF TickComma
<1>10. CASE Recurse
  BY <1>10, LatestDefined, CommaXtInv DEF Recurse
<1>11. CASE CompileNumber
  BY <1>11, Layout, LayInv DEF CompileNumber
<1>12. CASE Comma
  BY <1>12, Layout, LayInv DEF Comma
<1>13. CASE CComma
  BY <1>13, LayInv DEF CComma
<1>14. CASE Brackets
  BY <1>1, <1>2, <1>14 DEF Brackets
<1>15. CASE ParseError
  BY <1>1, <1>2, <1>15 DEF ParseError
<1>16. QED
  BY <1>3, <1>4, <1>5, <1>6, <1>7, <1>8, <1>9, <1>10, <1>11, <1>12, <1>13, <1>14, <1>15,
     HideInv, ForgetInv, SemicolonInv, ImmediateInv, RestartInv DEF Next

\* In every reachable state the links lead through exactly the definitions,
\* all below HERE; no compiled cell refers to a forgotten definition; and a
\* definition being compiled cannot be found: FORGET, `:` and `;`
\* (boot1.f:128, armforth.S:2266) in any order, with any names, cells and
\* memory.
THEOREM Sound == Spec => [](TypeOK /\ ChainSound /\ NoDangling /\ UnfinishedHidden)
<1>1. IInv => TypeOK /\ ChainSound /\ NoDangling /\ UnfinishedHidden
  BY DEF IInv
<1>2. QED
  BY <1>1, InitInv, Inductive, PTL DEF Spec

\* Headers are aligned, LATEST is a header, and HERE stays in memory, whatever
\* is laid down byte by byte before a header (armforth.S:2308).
THEOREM Typed == Spec => []TypeOK
BY Sound, PTL

\* What is in the dictionary is exactly what was defined and not forgotten:
\* the links from LATEST lead there and nowhere else, below HERE.
THEOREM Chained == Spec => []ChainSound
BY Sound, PTL

\* `:` hides what it begins until its own `;`, whatever other definitions the
\* toggles of `;`, IMMEDIATE and HIDE work on in between (armforth.S:2266).
THEOREM Unfinished == Spec => []UnfinishedHidden
BY Sound, PTL
=============================================================================
