------------------------------ MODULE Console ------------------------------
(***************************************************************************)
(* The text console of AApen: the cursor of src/src/video.S, the character *)
(* output of src/src/bios.S, the cursor words of src/src/boot1.f, and the  *)
(* line editor inside REFILL (src/src/armforth.S), which echoes what it    *)
(* stores.  Module OuterInterpreter takes a whole line as one step of its  *)
(* Refill; here it is typed key by key.                                    *)
(*                                                                         *)
(* Abstracted: which character is stored or drawn.                         *)
(***************************************************************************)
EXTENDS Integers

CONSTANTS
  Columns,   \* 128 in the code
  Rows,      \* 48 in the code
  LineMax,   \* characters typed on a line (a bound; the buffer holds 4096)
  LeftMost   \* how far left of the screen programs may backspace (a bound)

ASSUME ScreenAssumption ==
  Columns \in Nat \ {0} /\ Rows \in Nat \ {0, 1} /\ LineMax \in Nat /\ LeftMost \in Nat

VARIABLES
  x, y,      \* cursor-x and cursor-y of fb_parameters
  editing,   \* REFILL is reading a line
  len,       \* characters in `buffer`
  home,      \* history: where the echo of this line began,
  newlined   \*   and whether a newline has been typed into it

cursor == << x, y >>
vars   == << x, y, editing, len, home, newlined >>

\* A cursor as the number of places to it, row by row, from the top of the
\* screen, coming round at its end.  Of a column left of the screen this is the
\* count only: what is drawn there appears at the right edge of the same row,
\* one line of pixels up.
Position(a, b) == (Columns * b + a) % (Columns * Rows)

Init == x = 0 /\ y = 0 /\ editing = FALSE /\ len = 0 /\ home = 0 /\ newlined = FALSE

----------------------------------------------------------------------------
(* The cursor (video.S).  A row is one row past the last at most, so the   *)
(* loop that wraps it goes round once at most.                             *)

WrapRow(r, limit) == IF r >= limit THEN r - Rows ELSE r

\* The next cursor after moving by n = 1 or n = -1.
AdvanceX(a, n) == IF a + n < Columns THEN a + n ELSE (a + n) % Columns
AdvanceY(a, b, n) == IF a + n < Columns THEN b ELSE WrapRow(b + 1, Rows)

\* Slip: the wrapped column keeps the row.
AdvanceInRow(n) == x' = AdvanceX(x, n) /\ y' = y

AdvanceCursor(n) == x' = AdvanceX(x, n) /\ y' = AdvanceY(x, y, n)

\* Slip: no wrap at the bottom.
NewlineUnwrapped == x' = 0 /\ y' = y + 1

\* Compares with the last row, 47, and subtracts the number of rows, 48.
NewlineCursor == x' = 0 /\ y' = WrapRow(y + 1, Rows - 1)

----------------------------------------------------------------------------
(* REFILL.                                                                 *)

\* The prompt is a `>` and a blank.
Prompt ==
  /\ ~ editing
  /\ LET a == AdvanceX(x, 1)
         b == AdvanceY(x, y, 1)
     IN  /\ x' = AdvanceX(a, 1) /\ y' = AdvanceY(a, b, 1)
         /\ home' = Position(x', y')
  /\ editing' = TRUE /\ len' = 0 /\ newlined' = FALSE

\* A character: every key but CR, backspace, delete and LF.
Type ==
  /\ editing /\ len < LineMax
  /\ AdvanceCursor(1)
  /\ len' = len + 1
  /\ UNCHANGED << editing, home, newlined >>

\* LF does not end the line: it is stored as a character and echoed as a newline.
TypeNewline ==
  /\ editing /\ len < LineMax
  /\ NewlineCursor
  /\ len' = len + 1 /\ newlined' = TRUE
  /\ UNCHANGED << editing, home >>

\* Backspace and delete: nothing happens at the start of the line.
RubOut ==
  /\ editing /\ len - 1 >= 0
  /\ AdvanceCursor(-1)
  /\ len' = len - 1
  /\ UNCHANGED << editing, home, newlined >>

Enter ==
  /\ editing
  /\ NewlineCursor
  /\ editing' = FALSE
  /\ UNCHANGED << len, home, newlined >>

----------------------------------------------------------------------------
(* Programs, while no line is read: EMIT of a character, of a newline and  *)
(* of a backspace, and the cursor words of boot1.f.                        *)

EmitChar == ~ editing /\ AdvanceCursor(1) /\ UNCHANGED << editing, len, home, newlined >>

EmitNewline == ~ editing /\ NewlineCursor /\ UNCHANGED << editing, len, home, newlined >>

EmitBackspace ==
  /\ ~ editing /\ x > - LeftMost
  /\ AdvanceCursor(-1)
  /\ UNCHANGED << editing, len, home, newlined >>

\* AT-XY checks nothing; it is used with positions on the screen.
AtXy ==
  /\ ~ editing
  /\ x' \in 0..Columns - 1 /\ y' \in 0..Rows - 1
  /\ UNCHANGED << editing, len, home, newlined >>

DownOne == x' = 0 /\ y' = IF y + 1 >= Rows THEN 0 ELSE y + 1

NextLine == ~ editing /\ DownOne /\ UNCHANGED << editing, len, home, newlined >>

NextChar ==
  /\ ~ editing
  /\ IF x + 1 >= Columns THEN DownOne ELSE x' = x + 1 /\ UNCHANGED y
  /\ UNCHANGED << editing, len, home, newlined >>

Next ==
  \/ Prompt \/ Type \/ TypeNewline \/ RubOut \/ Enter
  \/ EmitChar \/ EmitNewline \/ EmitBackspace \/ AtXy \/ NextLine \/ NextChar

Spec == Init /\ [][Next]_vars

----------------------------------------------------------------------------
(* Properties.                                                             *)

\* The cursor never runs off the right or the bottom of the screen, and no
\* further than one row above it, over every mix of output, newlines, cursor
\* words and line editing.  (The row above is where NewlineCursor goes wrong,
\* see RowOnScreen; the left edge is not checked at all by RubOut.)
TypeOK ==
  /\ x \in Int /\ x < Columns
  /\ y \in -1..Rows - 1
  /\ editing \in BOOLEAN /\ len \in 0..LineMax /\ home \in 0..Columns * Rows - 1
  /\ newlined \in BOOLEAN

\* While a line is edited, a cursor that is on the screen stands as many places
\* behind the prompt as there are characters in the buffer, also when the echo
\* has wrapped at the end of a row or of the screen, was rubbed out left of the
\* screen and typed again.  (Of what is drawn this says nothing: a rub-out over
\* the end of a row leaves the characters above standing.  Nor of a line with a
\* newline in it, armforth.S:1861, whose rest is echoed from the next row on.)
OnScreen == x >= 0 /\ y >= 0
EchoTracksBuffer ==
  editing /\ ~ newlined /\ OnScreen => Position(x, y) = (home + len) % (Columns * Rows)

\* The cursor wraps to the top of the screen (video.S:421).
RowOnScreen == y \in 0..Rows - 1
=============================================================================
