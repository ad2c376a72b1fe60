--------------------------- MODULE Console_proofs ---------------------------
(* Proofs about Console, for a screen of any size.                         *)
EXTENDS Console, TLAPS

Size == Columns * Rows

LEMMA Sizes ==
  /\ Columns \in Nat /\ Columns >= 1 /\ Rows \in Nat /\ Rows >= 2
  /\ Size \in Nat \ {0}
<1>1. Columns \in Nat /\ Columns >= 1 /\ Rows \in Nat /\ Rows >= 2
  BY ScreenAssumption
<1>2. Size \in Nat /\ Size # 0
  BY <1>1 DEF Size
<1>3. QED
  BY <1>1, <1>2

----------------------------------------------------------------------------
(* Remainders.                                                             *)

LEMMA ModRange ==
  ASSUME NEW a \in Int, NEW M \in Nat \ {0}
  PROVE  a % M \in 0..M - 1 /\ a \div M \in Int /\ a = M * (a \div M) + (a % M)
OBVIOUS

LEMMA ModUnique ==
  ASSUME NEW M \in Nat \ {0}, NEW q \in Int, NEW r \in 0..M - 1, NEW a \in Int,
         a = M * q + r
  PROVE  a % M = r
OBVIOUS

\* A remainder does not see a whole turn.
LEMMA ModTurn ==
  ASSUME NEW a \in Int, NEW M \in Nat \ {0}
  PROVE  (a - M) % M = a % M
<1> DEFINE q == a \div M
           r == a % M
<1>1. r \in 0..M - 1 /\ q \in Int /\ a = M * q + r
  BY ModRange
<1> HIDE DEF q, r
<1>2. a - M = M * (q - 1) + r
  BY <1>1
<1>3. (a - M) % M = r
  BY <1>1, <1>2, ModUnique
<1>4. QED
  BY <1>3 DEF r

\* Equal remainders stay equal when both numbers move by one.
LEMMA ModStep ==
  ASSUME NEW a \in Int, NEW b \in Int, NEW M \in Nat \ {0}, a % M = b % M, NEW n \in Int
  PROVE  (a + n) % M = (b + n) % M
<1> DEFINE qa == a \div M
           qb == b \div M
           s  == (b + n) % M
           p  == (b + n) \div M
<1>1. a % M \in Int /\ qa \in Int /\ qb \in Int /\ a = M * qa + (a % M) /\ b = M * qb + (a % M)
  BY ModRange
<1>2. s \in 0..M - 1 /\ p \in Int /\ b + n = M * p + s
  BY ModRange
<1> HIDE DEF qa, qb, s, p
<1>3. a + n = M * (p + (qa - qb)) + s
  <2>1. M * (p + (qa - qb)) = M * p + M * qa - M * qb
    BY <1>1, <1>2
  <2>2. M * p \in Int /\ M * qa \in Int /\ M * qb \in Int /\ s \in Int
    BY <1>1, <1>2
  <2>3. n = M * p + s - b /\ b = M * qb + (a % M) /\ a = M * qa + (a % M)
    BY <1>1, <1>2, <2>2
  <2>4. QED
    BY <1>1, <2>1, <2>2, <2>3
<1>4. (a + n) % M = s
  <2>1. p + (qa - qb) \in Int /\ a + n \in Int
    BY <1>1, <1>2
  <2>2. QED
    BY <1>2, <1>3, <2>1, ModUnique
<1>5. QED
  BY <1>4 DEF s

----------------------------------------------------------------------------
(* The cursor.                                                             *)

\* Moving the cursor by one moves its position by one, across the end of a row
\* and the end of the screen too, and leaves it within bounds.
LEMMA Advanced ==
  ASSUME NEW a \in Int, a < Columns, NEW b \in -1..Rows - 1, NEW n \in {1, -1}
  PROVE  /\ AdvanceX(a, n) \in Int /\ AdvanceX(a, n) < Columns
         /\ AdvanceY(a, b, n) \in -1..Rows - 1
         /\ Position(AdvanceX(a, n), AdvanceY(a, b, n)) = (Columns * b + a + n) % Size
<1>1. Columns \in Nat /\ Columns >= 1 /\ Rows \in Nat /\ Rows >= 2 /\ Size \in Nat \ {0}
      /\ Size = Columns * Rows
  BY Sizes DEF Size
<1>2. CASE a + n < Columns
  <2>1. AdvanceX(a, n) = a + n /\ AdvanceY(a, b, n) = b
    BY <1>2 DEF AdvanceX, AdvanceY
  <2>2. Columns * b \in Int
    BY <1>1
  <2>3. Columns * b + (a + n) = Columns * b + a + n
    BY <2>2
  <2>4. QED
    BY <1>1, <1>2, <2>1, <2>3 DEF Position
<1>3. CASE ~ (a + n < Columns)
  <2>1. a + n = Columns
    BY <1>1, <1>3
  <2>2. Columns = Columns * 1 + 0
    BY <1>1
  <2>3. Columns % Columns = 0
    BY <1>1, <2>2, ModUnique
  <2>4. AdvanceX(a, n) = 0 /\ AdvanceY(a, b, n) = WrapRow(b + 1, Rows)
    BY <1>3, <2>1, <2>3 DEF AdvanceX, AdvanceY
  <2>5. CASE b + 1 >= Rows
    <3>1. AdvanceY(a, b, n) = b + 1 - Rows /\ b + 1 = Rows
      BY <1>1, <2>4, <2>5 DEF WrapRow
    <3>2. Columns * (b + 1 - Rows) + 0 = (Columns * b + a + n) - Size
      BY <1>1, <2>1
    <3>3. Columns * b + a + n \in Int
      BY <1>1
    <3>4. ((Columns * b + a + n) - Size) % Size = (Columns * b + a + n) % Size
      BY <1>1, <3>3, ModTurn
    <3>5. QED
      BY <1>1, <2>4, <3>1, <3>2, <3>4 DEF Position
  <2>6. CASE ~ (b + 1 >= Rows)
    <3>1. AdvanceY(a, b, n) = b + 1
      BY <2>4, <2>6 DEF WrapRow
    <3>2. Columns * (b + 1) + 0 = Columns * b + a + n
      BY <1>1, <2>1
    <3>3. QED
      BY <1>1, <2>4, <2>6, <3>1, <3>2 DEF Position
  <2>7. QED
    BY <2>5, <2>6
<1>4. QED
  BY <1>2, <1>3

LEMMA Newlined ==
  ASSUME TypeOK, NewlineCursor
  PROVE  x' = 0 /\ x' < Columns /\ y' \in -1..Rows - 1
BY Sizes DEF TypeOK, NewlineCursor, WrapRow

\* The echo is tracked in columns left of the screen and in the row above it
\* too, as a count; this is what the steps keep.
EchoCounts == editing /\ ~ newlined => Position(x, y) = (home + len) % (Columns * Rows)

Inv == TypeOK /\ EchoCounts

\* A key that moves the cursor and the buffer by one, the same way.
LEMMA EchoStep ==
  ASSUME Inv, editing, ~ newlined, NEW n \in {1, -1}, AdvanceCursor(n), len' = len + n, home' = home
  PROVE  Position(x, y)' = (home' + len') % (Columns * Rows)
<1>1. x \in Int /\ x < Columns /\ y \in -1..Rows - 1 /\ len \in Int /\ home \in Int
      /\ Size \in Nat \ {0} /\ Columns \in Nat
  BY Sizes DEF Inv, TypeOK, Size
<1>2. Position(x', y') = (Columns * y + x + n) % Size
  BY <1>1, Advanced DEF AdvanceCursor
<1>3. (Columns * y + x) % Size = (home + len) % Size
  BY DEF Inv, EchoCounts, Position, Size
<1>4. Columns * y + x \in Int /\ home + len \in Int /\ n \in Int
  BY <1>1
<1>5. (Columns * y + x + n) % Size = (home + len + n) % Size
  <2> DEFINE u == Columns * y + x
             v == home + len
  <2>1. u \in Int /\ v \in Int /\ n \in Int /\ u % Size = v % Size /\ Size \in Nat \ {0}
    BY <1>1, <1>3, <1>4
  <2> HIDE DEF u, v
  <2>2. (u + n) % Size = (v + n) % Size
    BY <2>1, ModStep
  <2>3. QED
    BY <2>2 DEF u, v
<1>6. home + len + n = home' + len'
  BY <1>1, <1>4
<1>7. QED
  BY <1>2, <1>5, <1>6 DEF Size, Position

LEMMA InitInv == Init => Inv
<1>1. 0 \in 0..Size - 1
  BY Sizes
<1> SUFFICES ASSUME Init
             PROVE  Inv
  OBVIOUS
<1>2. x = 0 /\ y = 0 /\ ~ editing /\ editing \in BOOLEAN /\ len = 0 /\ home = 0
      /\ newlined \in BOOLEAN
  BY DEF Init
<1>3. TypeOK
  BY <1>1, <1>2, Sizes, ScreenAssumption DEF TypeOK, Size
<1>4. QED
  BY <1>2, <1>3 DEF Inv, EchoCounts

LEMMA NextInv == Inv /\ [Next]_vars => Inv'
<1> SUFFICES ASSUME Inv, [Next]_vars
             PROVE  Inv'
  OBVIOUS
<1> USE Sizes
<1>1. /\ x \in Int /\ x < Columns /\ y \in -1..Rows - 1
      /\ editing \in BOOLEAN /\ len \in 0..LineMax /\ home \in 0..Columns * Rows - 1
      /\ LineMax \in Nat /\ newlined \in BOOLEAN
  BY ScreenAssumption DEF Inv, TypeOK
<1>2. ASSUME NEW n \in {1, -1}, AdvanceCursor(n)
      PROVE  x' \in Int /\ x' < Columns /\ y' \in -1..Rows - 1
  BY <1>1, <1>2, Advanced DEF AdvanceCursor
<1>3. CASE Prompt
  <2> DEFINE a == AdvanceX(x, 1)
             b == AdvanceY(x, y, 1)
  <2>1. a \in Int /\ a < Columns /\ b \in -1..Rows - 1
    BY <1>1, Advanced
  <2> HIDE DEF a, b
  <2>2. x' = AdvanceX(a, 1) /\ y' = AdvanceY(a, b, 1) /\ home' = Position(x', y')
        /\ len' = 0 /\ editing' = TRUE /\ newlined' \in BOOLEAN
    BY <1>3 DEF Prompt, a, b
  <2>3. x' \in Int /\ x' < Columns /\ y' \in -1..Rows - 1
    BY <2>1, <2>2, Advanced
  <2>4. Columns * y' + x' \in Int
    BY <2>3
  <2>5. home' \in 0..Size - 1
    BY <2>2, <2>4, ModRange DEF Position, Size
  <2>6. ASSUME NEW h \in 0..Size - 1
        PROVE  h % Size = h
    <3>1. Size * 0 = 0 /\ h = 0 + h
      OBVIOUS
    <3>2. QED
      BY <3>1, ModUnique
  <2>7. home' % Size = home'
    BY <2>5, <2>6
  <2>8. home' + len' = home'
    BY <2>2, <2>5
  <2>9. TypeOK'
    BY <1>1, <2>2, <2>3, <2>5 DEF TypeOK, Size
  <2>10. Position(x, y)' = (home' + len') % (Columns * Rows)
    BY <2>2, <2>7, <2>8 DEF Size, Position
  <2>11. QED
    BY <2>9, <2>10 DEF Inv, EchoCounts
<1>4. CASE Type
  <2>1. editing /\ AdvanceCursor(1) /\ len' = len + 1 /\ home' = home /\ editing' = editing
        /\ len < LineMax /\ newlined' = newlined
    BY <1>4 DEF Type
  <2>2. ~ newlined' => Position(x, y)' = (home' + len') % (Columns * Rows)
    BY <2>1, EchoStep
  <2>3. TypeOK'
    BY <1>1, <1>2, <2>1 DEF TypeOK
  <2>4. QED
    BY <2>2, <2>3 DEF Inv, EchoCounts
<1>5. CASE RubOut
  <2>1. editing /\ AdvanceCursor(-1) /\ len' = len + -1 /\ home' = home /\ editing' = editing
        /\ len - 1 >= 0 /\ newlined' = newlined
    BY <1>1, <1>5 DEF RubOut
  <2>2. ~ newlined' => Position(x, y)' = (home' + len') % (Columns * Rows)
    BY <2>1, EchoStep
  <2>3. TypeOK'
    BY <1>1, <1>2, <2>1 DEF TypeOK
  <2>4. QED
    BY <2>2, <2>3 DEF Inv, EchoCounts
\* Everything else leaves no line being edited.
<1>6. ASSUME ~ editing', x' \in Int, x' < Columns, y' \in -1..Rows - 1,
             UNCHANGED << len, home, newlined >>, editing' \in BOOLEAN
      PROVE  Inv'
  BY <1>1, <1>6 DEF Inv, TypeOK, EchoCounts
<1>7. CASE Enter \/ EmitNewline
  <2>1. NewlineCursor /\ ~ editing' /\ editing' \in BOOLEAN /\ UNCHANGED << len, home, newlined >>
    <3>1. CASE Enter
      BY <3>1 DEF Enter
    <3>2. CASE EmitNewline
      BY <1>1, <3>2 DEF EmitNewline
    <3>3. QED
      BY <1>7, <3>1, <3>2
  <2>2. QED
    BY <1>6, <2>1, Newlined DEF Inv
<1>8. CASE EmitChar \/ EmitBackspace
  <2>1. /\ ~ editing' /\ editing' \in BOOLEAN /\ UNCHANGED << len, home, newlined >>
        /\ \E n \in {1, -1} : AdvanceCursor(n)
    BY <1>1, <1>8 DEF EmitChar, EmitBackspace
  <2>2. QED
    BY <1>2, <1>6, <2>1
<1>9. CASE AtXy \/ NextLine \/ NextChar
  <2>1. ~ editing' /\ editing' \in BOOLEAN /\ UNCHANGED << len, home, newlined >>
    BY <1>1, <1>9 DEF AtXy, NextLine, NextChar
  <2>2. x' \in Int /\ x' < Columns /\ y' \in -1..Rows - 1
    BY <1>1, <1>9 DEF AtXy, NextLine, NextChar, DownOne
  <2>3. QED
    BY <1>6, <2>1, <2>2
<1>10. CASE UNCHANGED vars
  BY <1>10 DEF vars, Inv, TypeOK, EchoCounts, Position
<1>11. CASE TypeNewline
  <2>1. editing /\ len < LineMax /\ NewlineCursor /\ len' = len + 1 /\ newlined' = TRUE
        /\ home' = home /\ editing' = editing
    BY <1>11 DEF TypeNewline
  <2>2. x' = 0 /\ x' < Columns /\ y' \in -1..Rows - 1
    BY <2>1, Newlined DEF Inv
  <2>3. QED
    BY <1>1, <2>1, <2>2 DEF Inv, TypeOK, EchoCounts
<1>12. QED
  BY <1>3, <1>4, <1>5, <1>7, <1>8, <1>9, <1>10, <1>11 DEF Next

\* The cursor stays within its bounds, and behind the prompt by the length of
\* the buffer whenever it is on the screen and no newline has been typed into
\* the line, for every size of screen.
THEOREM Tracking == Spec => [](TypeOK /\ EchoTracksBuffer)
<1>1. Inv => TypeOK /\ EchoTracksBuffer
  BY DEF Inv, EchoCounts, EchoTracksBuffer
<1>2. QED
  BY <1>1, InitInv, NextInv, PTL DEF Spec

\* No character, newline, wrap or cursor word takes the cursor past the right
\* edge or the bottom, nor more than one row above the top (video.S:362, 406).
THEOREM Bounded == Spec => []TypeOK
BY Tracking, PTL
=============================================================================
