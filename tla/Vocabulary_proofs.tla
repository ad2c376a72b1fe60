------------------------- MODULE Vocabulary_proofs -------------------------
(* Proofs that the headers, links and flag bytes of Dictionary behave as    *)
(* the sequence of definitions of Vocabulary, for names, cells and memory   *)
(* of any kind and size.                                                    *)
EXTENDS Dictionary_proofs, LeastNumber

----------------------------------------------------------------------------
(* What FIND finds.                                                         *)

\* The definitions, as the sequence they are.
LEMMA Defs ==
  ASSUME IInv
  PROVE  /\ defs \in Seq(Int) /\ Len(defs) \in Nat /\ Len(defs) >= 1
         /\ latest = defs[Len(defs)]
         /\ \A i \in 1..Len(defs) : /\ defs[i] \in Defined /\ defs[i] \in Int
                                    /\ defs[i] \in DOMAIN hdr /\ hdr[defs[i]] \in HeaderRecord
         /\ \A i \in 1..Len(defs), j \in 1..Len(defs) : i < j => defs[i] < defs[j]
<1>1. defs \in Seq(Int) /\ latest = defs[Len(defs)] /\ Len(defs) \in Nat /\ Len(defs) >= 1
  BY LatestDefined DEF IInv, TypeOK, ChainSound
<1>2. \A i \in 1..Len(defs) : defs[i] \in Defined
  BY DEF Defined
<1>3. \A i \in 1..Len(defs) : /\ defs[i] \in Int /\ defs[i] \in DOMAIN hdr
                              /\ hdr[defs[i]] \in HeaderRecord
  BY <1>2, LatestDefined DEF IInv, TypeOK
<1>4. ASSUME NEW i \in 1..Len(defs), NEW j \in 1..Len(defs), i < j
      PROVE  defs[i] < defs[j]
  <2>1. j \in i + 1..Len(defs)
    BY <1>1, <1>4
  <2>2. defs[i] + WordSize <= defs[j]
    BY <2>1 DEF IInv, ChainSound
  <2>3. QED
    BY <1>3, <2>2, Layout
<1>5. QED
  BY <1>1, <1>2, <1>3, <1>4

\* A set closed under links that has LATEST has every definition.
LEMMA ClosedHolds ==
  ASSUME IInv, NEW S \in SUBSET DOMAIN hdr, Closed(S), NEW i \in 1..Len(defs)
  PROVE  defs[i] \in S
<1> DEFINE Z == Len(defs)
           T == {m \in Nat : m < Z /\ defs[Z - m] \notin S}
<1>1. Z \in Nat /\ Z >= 1
  BY Defs
<1>2. T = {}
  <2> SUFFICES ASSUME T # {} PROVE FALSE
    OBVIOUS
  <2>1. PICK m \in T : \A k \in T : m <= k
    BY LeastElement
  <2>2. m \in Nat /\ m < Z /\ defs[Z - m] \notin S
    OBVIOUS
  <2>3. m # 0
    BY <1>1, <2>2, Defs DEF Closed
  <2>4. m - 1 \in Nat /\ m - 1 < Z /\ m - 1 \notin T
    BY <1>1, <2>1, <2>2, <2>3
  <2>5. defs[Z - (m - 1)] \in S
    BY <2>4
  <2> DEFINE j == Z - (m - 1)
  <2>6. j \in 1..Len(defs) /\ j # 1 /\ j - 1 = Z - m /\ j - 1 \in 1..Len(defs)
    BY <1>1, <2>2, <2>3
  <2>7. defs[j] \in S
    BY <2>5
  <2> HIDE DEF j
  <2>8. hdr[defs[j]].link = defs[j - 1]
    BY <2>6 DEF IInv, ChainSound
  <2>9. hdr[defs[j]].link \in S \union {Null}
    BY <2>7 DEF Closed
  <2>10. defs[j - 1] \in Int /\ Null \notin Int
    BY <2>6, Defs, LayoutAssumption
  <2>11. QED
    BY <2>2, <2>6, <2>8, <2>9, <2>10
<1>3. Z - i \in Nat /\ Z - i < Z /\ Z - (Z - i) = i
  BY <1>1
<1>4. QED
  BY <1>2, <1>3

LEMMA ChainIsDefined == ASSUME IInv PROVE Chain = Defined
<1>1. Defined \subseteq DOMAIN hdr
  BY LatestDefined
<1>2. Closed(Defined)
  <2>1. ASSUME NEW i \in 1..Len(defs)
        PROVE  hdr[defs[i]].link \in Defined \union {Null}
    <3>1. hdr[defs[i]].link = IF i = 1 THEN Null ELSE defs[i - 1]
      BY DEF IInv, ChainSound
    <3>2. i # 1 => i - 1 \in 1..Len(defs)
      BY LatestDefined
    <3>3. QED
      BY <3>1, <3>2 DEF Defined
  <2>2. QED
    BY <2>1, LatestDefined DEF Closed, Defined
<1>3. Chain \subseteq Defined
  BY <1>1, <1>2 DEF Chain
<1>4. \A i \in 1..Len(defs) : defs[i] \in Chain
  BY <1>1, ClosedHolds, Defs DEF Chain
<1>5. QED
  BY <1>3, <1>4 DEF Defined

\* What View shows of definition i.
LEMMA Viewed ==
  ASSUME IInv
  PROVE  /\ View \in Seq([name : Names \union {Unnamed}, hidden : BOOLEAN, immediate : BOOLEAN])
         /\ Len(View) = Len(defs)
         /\ \A i \in 1..Len(defs) :
              View[i] = [name |-> hdr[defs[i]].name, hidden |-> hdr[defs[i]].hidden,
                         immediate |-> hdr[defs[i]].immediate]
<1>1. \A i \in 1..Len(defs) :
        [name |-> hdr[defs[i]].name, hidden |-> hdr[defs[i]].hidden,
         immediate |-> hdr[defs[i]].immediate]
          \in [name : Names \union {Unnamed}, hidden : BOOLEAN, immediate : BOOLEAN]
  BY Defs DEF HeaderRecord
<1>2. QED
  BY <1>1, Defs DEF View

LEMMA Youngest == IInv => FindsYoungest
<1> SUFFICES ASSUME IInv, NEW n \in Names
             PROVE  Found(n) = {defs[i] : i \in Promise!Meaning(n)}
  BY DEF FindsYoungest
<1> DEFINE Vis == {i \in 1..Len(defs) : hdr[defs[i]].name = n /\ ~ hdr[defs[i]].hidden}
<1>1. Promise!Visible(n) = Vis
  <2>1. Promise!Visible(n) = {i \in 1..Len(View) : View[i].name = n /\ ~ View[i].hidden}
    BY DEF Promise!Visible
  <2>2. /\ Len(View) = Len(defs)
        /\ \A i \in 1..Len(defs) : /\ View[i].name = hdr[defs[i]].name
                                   /\ View[i].hidden = hdr[defs[i]].hidden
    <3>1. Len(View) = Len(defs)
      BY Viewed
    <3>2. ASSUME NEW i \in 1..Len(defs)
          PROVE  /\ View[i].name = hdr[defs[i]].name
                 /\ View[i].hidden = hdr[defs[i]].hidden
      <4>1. View[i] = [name |-> hdr[defs[i]].name, hidden |-> hdr[defs[i]].hidden,
                       immediate |-> hdr[defs[i]].immediate]
        BY Viewed
      <4>2. QED
        BY <4>1
    <3>3. QED
      BY <3>1, <3>2
  <2>3. QED
    BY <2>1, <2>2
<1>2. Matches(n) = {defs[i] : i \in Vis}
  BY ChainIsDefined DEF Matches, Defined
<1>3. \A i \in Vis, j \in Vis : j <= i <=> defs[j] <= defs[i]
  BY Defs
<1>4. Promise!Meaning(n) = {i \in Vis : \A j \in Vis : j <= i}
  BY <1>1 DEF Promise!Meaning
<1>5. Found(n) = {a \in Matches(n) : \A b \in Matches(n) : b <= a}
  BY DEF Found
<1> HIDE DEF Vis
<1>6. QED
  BY <1>2, <1>3, <1>4, <1>5

\* A name means its youngest visible definition, whatever names were reused,
\* hidden and forgotten (_find, armforth.S:2045).
THEOREM Finds == Spec => []FindsYoungest
BY Youngest, InitInv, Inductive, PTL DEF Spec

----------------------------------------------------------------------------
(* The steps, as steps of Vocabulary.                                       *)

\* What the headers h show of the definition at address a.
Shown(h, a) == [name |-> h[a].name, hidden |-> h[a].hidden, immediate |-> h[a].immediate]

LEMMA ViewShows ==
  ASSUME IInv
  PROVE  /\ Len(View) = Len(defs) /\ \A i \in 1..Len(defs) : View[i] = Shown(hdr, defs[i])
BY Viewed DEF Shown

\* Definitions and headers as they were.
LEMMA SameView ==
  ASSUME IInv, defs' = defs, \A d \in Defined : hdr'[d] = hdr[d]
  PROVE  View' = View
<1>1. \A i \in 1..Len(defs) : hdr'[defs[i]] = hdr[defs[i]]
  BY Defs
<1>2. QED
  BY <1>1 DEF View

LEMMA LaySame ==
  ASSUME IInv, NEW n \in Nat, Lay(n), defs' = defs
  PROVE  View' = View
<1>1. here \in Int /\ here <= here
  BY DEF IInv, TypeOK
<1>2. hdr' = Untouched(hdr, HeaderSize, here, here + n)
  BY DEF Lay
<1>3. \A d \in Defined : hdr'[d] = hdr[d]
  BY <1>1, <1>2, HeadersUntouched
<1>4. QED
  BY <1>3, SameView

LEMMA CommaXtSame ==
  ASSUME IInv, NEW a, CommaXt(a), defs' = defs
  PROVE  View' = View
<1>1. here \in Int /\ here <= here
  BY DEF IInv, TypeOK
<1>2. hdr' = Untouched(hdr, HeaderSize, here, here')
  BY DEF CommaXt
<1>3. \A d \in Defined : hdr'[d] = hdr[d]
  BY <1>1, <1>2, HeadersUntouched
<1>4. QED
  BY <1>3, SameView

\* A new header is a new youngest definition.
LEMMA HeaderDefines ==
  ASSUME IInv, IInv', NEW n, NEW hide, NEW code, Header(n, hide, code)
  PROVE  Promise!Next
<1> DEFINE x == Align(here)
           w == View'[Len(View')]
<1>1. /\ defs' = Append(defs, x)
      /\ hdr' = Store(Untouched(hdr, HeaderSize, x, x + WordSize), x,
                  [link |-> latest, name |-> n, hidden |-> hide, immediate |-> FALSE])
  BY DEF Header, NewHeader
<1>2. here \in Nat /\ x \in Int /\ here <= x
  BY Aligned, Layout DEF IInv, TypeOK
<1>3. \A d \in Defined : d \in DOMAIN Untouched(hdr, HeaderSize, x, x + WordSize)
                        /\ Untouched(hdr, HeaderSize, x, x + WordSize)[d] = hdr[d]
  BY <1>2, HeadersUntouched
<1>4. \A d \in Defined : d \in Int /\ d < x
  BY <1>2, LatestDefined, Layout
<1> HIDE DEF x
<1>5. /\ \A d \in Defined : hdr'[d] = hdr[d]
      /\ hdr'[x] = [link |-> latest, name |-> n, hidden |-> hide, immediate |-> FALSE]
  BY <1>1, <1>3, <1>4 DEF Store
<1> DEFINE z == Len(defs)
<1>6. /\ z \in Nat /\ Len(defs') = z + 1 /\ defs'[z + 1] = x
      /\ \A i \in 1..z : defs'[i] = defs[i]
  BY <1>1, <1>2, Defs
<1>7. /\ View = [i \in 1..z |-> Shown(hdr, defs[i])]
      /\ View' = [i \in 1..z + 1 |-> Shown(hdr', defs'[i])]
  BY <1>6 DEF View, Shown
<1>8. \A i \in 1..z : Shown(hdr', defs'[i]) = Shown(hdr, defs[i])
  BY <1>5, <1>6, Defs DEF Shown
<1>9. Len(View) = z /\ Len(View') = z + 1
  BY <1>6, <1>7
<1>10. View' = Append(View, w)
  BY <1>6, <1>7, <1>8, <1>9
<1>11. ~ w.immediate
  BY <1>5, <1>6, <1>7, <1>9 DEF Shown
<1>12. Promise!Define(w)
  BY <1>10, <1>11 DEF Promise!Define
<1>13. QED
  BY <1>12 DEF Promise!Next

\* One header changed, that of definition i.
LEMMA OneChanged ==
  ASSUME IInv, defs' = defs, NEW i \in 1..Len(defs),
         \A d \in Defined : d # defs[i] => hdr'[d] = hdr[d]
  PROVE  View' = [View EXCEPT ![i] = Shown(hdr', defs[i])]
<1>1. \A j \in 1..Len(defs) : j # i => hdr'[defs[j]] = hdr[defs[j]]
  <2>1. ASSUME NEW j \in 1..Len(defs), j # i
        PROVE  hdr'[defs[j]] = hdr[defs[j]]
    <3>1. defs[j] # defs[i] /\ defs[j] \in Defined
      BY <2>1, Defs
    <3>2. QED
      BY <3>1
  <2>2. QED
    BY <2>1
<1>2. /\ View = [j \in 1..Len(defs) |-> Shown(hdr, defs[j])]
      /\ View' = [j \in 1..Len(defs) |-> Shown(hdr', defs[j])]
  BY DEF View, Shown
<1>3. \A j \in 1..Len(defs) : j # i => Shown(hdr', defs[j]) = Shown(hdr, defs[j])
  BY <1>1 DEF Shown
<1>4. QED
  BY <1>2, <1>3

LEMMA ImmediateToggles == ASSUME IInv, Immediate PROVE Promise!Next
<1> DEFINE z == Len(defs)
<1>1. /\ z \in 1..Len(defs) /\ latest = defs[z] /\ latest \in DOMAIN hdr
      /\ hdr[latest] \in HeaderRecord
  BY Defs
<1>2. defs' = defs /\ hdr' = [hdr EXCEPT ![latest].immediate = ~ @]
  BY DEF Immediate
<1>3. /\ \A d \in Defined : d # latest => hdr'[d] = hdr[d]
      /\ hdr'[latest] = [hdr[latest] EXCEPT !.immediate = ~ @]
  BY <1>1, <1>2, LatestDefined
<1>4. View' = [View EXCEPT ![z] = Shown(hdr', defs[z])]
  BY <1>1, <1>2, <1>3, OneChanged
<1>5. View[z] = Shown(hdr, latest)
  BY <1>1, ViewShows
<1>6. Shown(hdr', latest) = [Shown(hdr, latest) EXCEPT !.immediate = ~ @]
  BY <1>1, <1>3 DEF Shown, HeaderRecord
<1>7. View' = [View EXCEPT ![Len(View)].immediate = ~ @]
  BY <1>1, <1>4, <1>5, <1>6, ViewShows
<1>8. QED
  BY <1>7 DEF Promise!Next, Promise!ToggleLast

LEMMA SemicolonToggles == ASSUME IInv, Semicolon PROVE Promise!Next
<1> DEFINE z == Len(defs)
           h == Untouched(hdr, HeaderSize, here, here')
<1>1. /\ z \in 1..Len(defs) /\ latest = defs[z] /\ latest \in Defined
      /\ hdr[latest] \in HeaderRecord
  BY Defs
<1>2. defs' = defs /\ hdr' = [h EXCEPT ![latest].hidden = ~ @]
  BY DEF Semicolon
<1>3. here \in Int /\ here <= here
  BY DEF IInv, TypeOK
<1>4. \A d \in Defined : d \in DOMAIN h /\ h[d] = hdr[d]
  BY <1>3, HeadersUntouched
<1> HIDE DEF h
<1>5. /\ \A d \in Defined : d # latest => hdr'[d] = hdr[d]
      /\ hdr'[latest] = [hdr[latest] EXCEPT !.hidden = ~ @]
  BY <1>1, <1>2, <1>4
<1>6. View' = [View EXCEPT ![z] = Shown(hdr', defs[z])]
  BY <1>1, <1>2, <1>5, OneChanged
<1>7. View[z] = Shown(hdr, latest)
  BY <1>1, ViewShows
<1>8. Shown(hdr', latest) = [Shown(hdr, latest) EXCEPT !.hidden = ~ @]
  BY <1>1, <1>5 DEF Shown, HeaderRecord
<1>9. View' = [View EXCEPT ![Len(View)].hidden = ~ @]
  BY <1>1, <1>6, <1>7, <1>8, ViewShows
<1>10. QED
  BY <1>9 DEF Promise!Next, Promise!ToggleLast

\* What FIND found is what the name means.
LEMMA FoundMeans ==
  ASSUME IInv, NEW n \in Names, NEW a \in Found(n)
  PROVE  /\ n \in Promise!InUse
         /\ \E i \in Promise!Meaning(n) : i \in 1..Len(defs) /\ a = defs[i]
<1>1. PICK i \in Promise!Meaning(n) : a = defs[i]
  BY Youngest DEF FindsYoungest
<1>2. i \in 1..Len(View) /\ View[i].name = n
  BY DEF Promise!Meaning, Promise!Visible
<1>3. QED
  BY <1>1, <1>2, ViewShows DEF Promise!InUse

LEMMA HideHides == ASSUME IInv, NEW n \in Names, Hide(n) PROVE Promise!Next
<1>1. PICK a \in Found(n) : ToggleHidden(a)
  BY DEF Hide
<1>2. PICK i \in Promise!Meaning(n) : i \in 1..Len(defs) /\ a = defs[i]
  BY FoundMeans
<1>3. /\ a \in Defined /\ hdr[a].hidden = FALSE /\ a \in DOMAIN hdr
      /\ hdr[a] \in HeaderRecord
  BY <1>2, Defs, FoundDefined
<1>4. defs' = defs /\ hdr' = [hdr EXCEPT ![a].hidden = ~ @]
  BY <1>1 DEF Hide, ToggleHidden
<1>5. /\ \A d \in Defined : d # a => hdr'[d] = hdr[d]
      /\ hdr'[a] = [hdr[a] EXCEPT !.hidden = ~ @]
  BY <1>3, <1>4, LatestDefined
<1>6. View' = [View EXCEPT ![i] = Shown(hdr', defs[i])]
  BY <1>2, <1>4, <1>5, OneChanged
<1>7. View[i] = Shown(hdr, a)
  BY <1>2, ViewShows
<1>8. Shown(hdr', a) = [Shown(hdr, a) EXCEPT !.hidden = ~ @]
  BY <1>3, <1>5 DEF Shown, HeaderRecord
<1>9. View' = [View EXCEPT ![i].hidden = ~ @]
  BY <1>2, <1>6, <1>7, <1>8
<1>10. Promise!Hide(n)
  BY <1>9, Zenon DEF Promise!Hide
<1>11. QED
  BY <1>10, FoundMeans DEF Promise!Next

LEMMA ForgetCuts == ASSUME IInv, NEW n \in Names, Forget(n) PROVE Promise!Next
<1>1. PICK a \in Found(n) : a >= 0 /\ SetBack(a) /\ Forgotten(a)
  BY DEF Forget
<1>2. PICK i \in Promise!Meaning(n) : i \in 1..Len(defs) /\ a = defs[i]
  BY FoundMeans
<1>3. PICK k \in 1..Len(defs) : defs[k] = a /\ defs' = SubSeq(defs, 1, k - 1)
  BY <1>1 DEF Forgotten
<1>4. k = i /\ Len(defs) \in Nat /\ a \in Int
  BY <1>2, <1>3, Defs
<1>5. i > Kept
  <2>1. CASE i \in 1..Kept
    <3>1. a = BuiltInAt(i)
      BY <1>2, <2>1 DEF IInv, BuiltInsStay
    <3>2. BuiltInAt(i) \in Int /\ BuiltInAt(i) + WordSize <= 0
      BY <2>1, BuiltInPlace
    <3>3. QED
      BY <1>1, <1>4, <3>1, <3>2, Layout
  <2>2. QED
    BY <1>2, <1>4, <2>1, Layout
<1>6. hdr' = [b \in {c \in DOMAIN hdr : c + HeaderSize <= a \/ Limit <= c} |-> hdr[b]]
  BY <1>1 DEF SetBack, Untouched
<1>7. ASSUME NEW j \in 1..i - 1
      PROVE  hdr'[defs[j]] = hdr[defs[j]]
  <2>1. j \in 1..Len(defs) /\ i \in j + 1..Len(defs)
    BY <1>2, <1>4
  <2>2. defs[j] + WordSize <= a
    BY <1>2, <2>1 DEF IInv, ChainSound
  <2>3. defs[j] \in DOMAIN hdr /\ defs[j] \in Int
    BY <2>1, Defs
  <2>4. defs[j] + HeaderSize <= a
    BY <1>4, <2>2, <2>3, Layout
  <2>5. QED
    BY <1>6, <2>3, <2>4
<1>8. /\ Len(defs') = i - 1 /\ i - 1 \in Nat /\ i - 1 <= Len(defs)
      /\ \A j \in 1..i - 1 : defs'[j] = defs[j]
  BY <1>2, <1>3, <1>4, Defs
<1>9. /\ View = [j \in 1..Len(defs) |-> Shown(hdr, defs[j])]
      /\ View' = [j \in 1..i - 1 |-> Shown(hdr', defs'[j])]
  BY <1>8 DEF View, Shown
<1>10. \A j \in 1..i - 1 : Shown(hdr', defs'[j]) = Shown(hdr, defs[j])
  BY <1>7, <1>8 DEF Shown
<1>11. View' = SubSeq(View, 1, i - 1)
  BY <1>2, <1>4, <1>8, <1>9, <1>10
<1>12. Promise!Forget(n)
  BY <1>5, <1>11 DEF Promise!Forget
<1>13. QED
  BY <1>12, FoundMeans DEF Promise!Next

LEMMA RestartResets == ASSUME IInv, Restart PROVE Promise!Next
<1>1. /\ defs' = BuiltIns
      /\ hdr' = [b \in {c \in DOMAIN hdr : c + HeaderSize <= 0 \/ Limit <= c} |-> hdr[b]]
  BY DEF Restart, SetBack, Untouched
<1>2. /\ Kept \in Nat /\ Kept <= Len(defs) /\ Len(defs) \in Nat
      /\ \A i \in 1..Kept : defs[i] = BuiltInAt(i)
  BY Defs, Layout DEF IInv, BuiltInsStay
<1>3. ASSUME NEW i \in 1..Kept
      PROVE  hdr'[defs[i]] = hdr[defs[i]]
  <2>1. defs[i] \in Int /\ defs[i] + WordSize <= 0
    BY <1>2, BuiltInPlace
  <2>2. defs[i] \in DOMAIN hdr
    BY <1>2, Defs
  <2>3. QED
    BY <1>1, <2>1, <2>2, Layout
<1>4. Len(defs') = Kept /\ \A i \in 1..Kept : defs'[i] = defs[i]
  BY <1>1, <1>2 DEF BuiltIns
<1>5. /\ View = [i \in 1..Len(defs) |-> Shown(hdr, defs[i])]
      /\ View' = [i \in 1..Kept |-> Shown(hdr', defs'[i])]
  BY <1>4 DEF View, Shown
<1>6. \A i \in 1..Kept : Shown(hdr', defs'[i]) = Shown(hdr, defs[i])
  BY <1>3, <1>4 DEF Shown
<1>7. View' = SubSeq(View, 1, Kept)
  BY <1>2, <1>5, <1>6
<1>8. QED
  BY <1>7 DEF Promise!Next, Promise!Reset

LEMMA StepKept == IInv /\ IInv' /\ [Next]_vars => [Promise!Next]_View
<1> SUFFICES ASSUME IInv, IInv', [Next]_vars
             PROVE  Promise!Next \/ View' = View
  OBVIOUS
<1>1. CASE UNCHANGED vars
  BY <1>1, SameView DEF vars
<1>2. CASE Brackets \/ ParseError
  BY <1>2, SameView DEF Brackets, ParseError
<1>3. ASSUME NEW n \in Names, Create(n) \/ Colon(n) \/ \E d \in Names : CreateDoes(d, n)
      PROVE  Promise!Next
  BY <1>3, HeaderDefines DEF Create, Colon, CreateDoes
<1>4. CASE Noname
  BY <1>4, HeaderDefines DEF Noname
<1>5. ASSUME NEW n \in Names, CompileWord(n) \/ TickComma(n)
      PROVE  View' = View
  BY <1>5, CommaXtSame DEF CompileWord, TickComma
<1>6. CASE Recurse
  BY <1>6, CommaXtSame DEF Recurse
<1>7. CASE CompileNumber \/ Comma \/ CComma
  BY <1>7, LaySame, Layout DEF CompileNumber, Comma, CComma
<1>8. QED
  BY <1>1, <1>2, <1>3, <1>4, <1>5, <1>6, <1>7,
     ImmediateToggles, SemicolonToggles, HideHides, ForgetCuts, RestartResets DEF Next

LEMMA InitKept == Init => Promise!Init
<1> SUFFICES ASSUME Init PROVE Promise!Init
  OBVIOUS
<1>1. IInv /\ defs = BuiltIns /\ Kept \in Nat
  BY InitInv, Layout DEF Init
<1>2. Len(defs) = Kept
  BY <1>1 DEF BuiltIns
<1>3. QED
  BY <1>1, <1>2, ViewShows DEF Promise!Init

\* As headers, links and flag bits the dictionary does what Vocabulary says
\* of a sequence of definitions: every word of the source that defines,
\* finishes, hides or forgets is one of its steps, and no other changes it.
THEOREM Keeps == Spec => KeepsVocabulary
<1>1. Spec => Promise!Spec
  BY InitKept, StepKept, InitInv, Inductive, PTL DEF Spec, Promise!Spec
<1>2. QED
  BY <1>1 DEF KeepsVocabulary
=============================================================================
