----------------------------- MODULE Dictionary -----------------------------
(***************************************************************************)
(* The dictionary of AApen's Forth (src/src/armforth.S, and the words      *)
(* :NONAME and FORGET of src/src/boot1.f): headers linked from LATEST,     *)
(* definitions laid down at HERE in one stretch of memory, and the words   *)
(* that make, finish, hide and forget them.                                *)
(*                                                                         *)
(* Memory is hdr (the headers) and ref (the cells that hold the address of *)
(* a definition); what else is laid down counts by its size only.  A write *)
(* destroys what it overlaps, and what lies above a HERE that was set back *)
(* is followed no longer: nothing may read it.  Words are executed in any  *)
(* order and in either state, as a line, a bracketed stretch of a          *)
(* definition or an immediate word may execute them.                       *)
(***************************************************************************)
EXTENDS Integers, Sequences

CONSTANTS
  Names,       \* the names words can be given
  Unnamed,     \* the empty name
  Null,        \* the link that ends the dictionary
  BuiltIn,     \* the names of the built-in words, oldest first
  CellSize,    \* 8 in the code
  HeaderSize,  \* 40 in the code
  Limit        \* end of the memory used (a bound)

WordSize == HeaderSize + CellSize   \* a header and the codeword behind it

ASSUME LayoutAssumption ==
  /\ CellSize \in Nat \ {0}
  /\ HeaderSize \in Nat \ {0} /\ HeaderSize % CellSize = 0
  /\ BuiltIn \in Seq(Names) /\ BuiltIn # << >>
  /\ Unnamed \notin Names /\ Null \notin Int
  /\ Limit \in Nat

VARIABLES
  hdr,     \* header address -> link, name and flags
  ref,     \* cell address -> the definition it refers to
  latest,  \* LATEST
  here,    \* HERE
  state,   \* 0 interpreting, 1 compiling
  defs,    \* history: the definitions that are to be in the dictionary
  open,    \* history: those `:` has begun and no `;` has finished
  torn     \* history: those a parse error has interrupted

vars == << hdr, ref, latest, here, state, defs, open, torn >>

\* Built-in words lie below the data segment, which starts at 0.
Kept == Len(BuiltIn)
BuiltInAt(i) == (i - Kept - 1) * WordSize
BuiltIns == [i \in 1..Kept |-> BuiltInAt(i)]

Defined == {defs[i] : i \in 1..Len(defs)}

Init ==
  /\ hdr = [a \in {BuiltInAt(i) : i \in 1..Kept} |->
              [link |-> IF a = BuiltInAt(1) THEN Null ELSE a - WordSize,
               name |-> BuiltIn[CHOOSE i \in 1..Kept : BuiltInAt(i) = a],
               hidden |-> FALSE, immediate |-> FALSE]]
  /\ ref = << >>
  /\ latest = BuiltInAt(Kept) /\ here = 0 /\ state = 0
  /\ defs = BuiltIns /\ open = {} /\ torn = {}

----------------------------------------------------------------------------
(* Memory.                                                                 *)

\* What a write of the bytes from lo to hi leaves of items of a size.
Untouched(f, size, lo, hi) ==
  [a \in {b \in DOMAIN f : b + size <= lo \/ hi <= b} |-> f[a]]

Store(f, a, v) == [b \in DOMAIN f \union {a} |-> IF b = a THEN v ELSE f[b]]

\* Slip: HERE is not aligned.
Unaligned(a) == a
Align(a) == ((a + CellSize - 1) \div CellSize) * CellSize

\* HERE is set back to x.
SetBack(x) ==
  /\ here' = x
  /\ hdr' = Untouched(hdr, HeaderSize, x, Limit)
  /\ ref' = Untouched(ref, CellSize, x, Limit)

\* n bytes laid down at HERE.
Lay(n) ==
  /\ here + n <= Limit
  /\ here' = here + n
  /\ hdr' = Untouched(hdr, HeaderSize, here, here + n)
  /\ ref' = Untouched(ref, CellSize, here, here + n)

\* The address of definition a laid down at HERE.
CommaXt(a) ==
  /\ here + CellSize <= Limit
  /\ here' = here + CellSize
  /\ hdr' = Untouched(hdr, HeaderSize, here, here')
  /\ ref' = Store(Untouched(ref, CellSize, here, here'), here, a)

\* _header followed by a codeword: code holds the definition the codeword
\* lies in, or nothing for DOVAR and DOCOL.
NewHeader(link, n, hide, code) ==
  LET x == Align(here)  end == x + WordSize
      old == Untouched(ref, CellSize, x, end)
  IN  /\ end <= Limit
      /\ hdr' = Store(Untouched(hdr, HeaderSize, x, end), x,
                  [link |-> link, name |-> n, hidden |-> hide, immediate |-> FALSE])
      /\ \/ code = {} /\ ref' = old
         \/ \E a \in code : ref' = Store(old, x + HeaderSize, a)
      /\ latest' = x /\ here' = end
      /\ defs' = Append(defs, x)

\* Slip: the link is read from LATEST after LATEST was updated.
HeaderSelfLinked(n, hide, code) == NewHeader(Align(here), n, hide, code)
Header(n, hide, code) == NewHeader(latest, n, hide, code)

ToggleHidden(a) == hdr' = [hdr EXCEPT ![a].hidden = ~ @]

----------------------------------------------------------------------------
(* FIND walks from LATEST along the links and stops at the first header    *)
(* that is not hidden and has the name.  Links lead to lower addresses     *)
(* (ChainSound), so that is the highest of the headers it would reach.     *)

Closed(S) == latest \in S /\ \A a \in S : hdr[a].link \in S \union {Null}
Chain == {a \in DOMAIN hdr : \A S \in SUBSET DOMAIN hdr : Closed(S) => a \in S}

\* Slip: the hidden flag is not tested.
MatchesHidden(n) == {a \in Chain : hdr[a].name = n}
Matches(n) == {a \in Chain : hdr[a].name = n /\ ~ hdr[a].hidden}
Found(n) == {a \in Matches(n) : \A b \in Matches(n) : b <= a}

----------------------------------------------------------------------------
(* Defining words.                                                         *)

Create(n) == Header(n, FALSE, {}) /\ UNCHANGED << state, open, torn >>

\* A defining word d, with DOES>: the codeword of what it creates is code
\* inside d.
CreateDoes(d, n) ==
  /\ \E a \in Found(d) : a >= 0 /\ Header(n, FALSE, {a})
  /\ UNCHANGED << state, open, torn >>

\* Slip: `:` does not hide what it begins.
ColonVisible(n) ==
  /\ Header(n, FALSE, {})
  /\ state' = 1 /\ open' = open \union {latest'}
  /\ UNCHANGED torn

Colon(n) ==
  /\ Header(n, TRUE, {})
  /\ state' = 1 /\ open' = open \union {latest'}
  /\ UNCHANGED torn

\* :NONAME hides nothing, so `;` will hide what it finishes.
Noname ==
  /\ Header(Unnamed, FALSE, {})
  /\ state' = 1
  /\ UNCHANGED << open, torn >>

\* `;` appends EXIT and toggles the hidden flag of LATEST.
Semicolon ==
  /\ here + CellSize <= Limit
  /\ here' = here + CellSize
  /\ LET kept == Untouched(hdr, HeaderSize, here, here') IN
       hdr' = [kept EXCEPT ![latest].hidden = ~ @]
  /\ ref' = Untouched(ref, CellSize, here, here')
  /\ state' = 0 /\ open' = open \ {latest}
  /\ UNCHANGED << latest, defs, torn >>

Immediate ==
  /\ hdr' = [hdr EXCEPT ![latest].immediate = ~ @]
  /\ UNCHANGED << ref, latest, here, state, defs, open, torn >>

\* Of a name that is not found HIDE toggles a bit at address 8, outside the
\* dictionary.
Hide(n) ==
  /\ \E a \in Found(n) : ToggleHidden(a)
  /\ UNCHANGED << ref, latest, here, state, defs, open, torn >>

Younger(a) == {d \in Defined : d >= a}
Forgotten(a) ==
  /\ \E k \in 1..Len(defs) : defs[k] = a /\ defs' = SubSeq(defs, 1, k - 1)
  /\ open' = open \ Younger(a) /\ torn' = torn \ Younger(a)

\* Slip: LATEST is left alone.
ForgetKeepsLatest(n) ==
  /\ \E a \in Found(n) : a >= 0 /\ SetBack(a) /\ Forgotten(a)
  /\ UNCHANGED << latest, state >>

\* Slip: HERE is left alone.
ForgetKeepsHere(n) ==
  /\ \E a \in Found(n) : a >= 0 /\ latest' = hdr[a].link /\ Forgotten(a)
  /\ UNCHANGED << hdr, ref, here, state >>

\* FORGET is for words that are not built in (boot1.f:128) and that exist.
Forget(n) ==
  /\ \E a \in Found(n) :
       a >= 0 /\ latest' = hdr[a].link /\ SetBack(a) /\ Forgotten(a)
  /\ UNCHANGED state

----------------------------------------------------------------------------
(* Compiling.                                                              *)

CompileWord(n) ==
  /\ state = 1
  /\ \E a \in Found(n) : ~ hdr[a].immediate /\ CommaXt(a)
  /\ UNCHANGED << latest, state, defs, open, torn >>

\* LIT and the number.
CompileNumber ==
  /\ state = 1 /\ Lay(2 * CellSize)
  /\ UNCHANGED << latest, state, defs, open, torn >>

\* ' name , and [COMPILE] name
TickComma(n) ==
  /\ \E a \in Found(n) : CommaXt(a)
  /\ UNCHANGED << latest, state, defs, open, torn >>

Recurse == CommaXt(latest) /\ UNCHANGED << latest, state, defs, open, torn >>

Comma == Lay(CellSize) /\ UNCHANGED << latest, state, defs, open, torn >>

CComma == Lay(1) /\ UNCHANGED << latest, state, defs, open, torn >>

Brackets ==
  /\ state' = 1 - state
  /\ UNCHANGED << hdr, ref, latest, here, defs, open, torn >>

\* INTERPRET meets neither a word nor a number: QUIT, which resets STATE and
\* leaves the dictionary as it is.
ParseError ==
  /\ state' = 0 /\ torn' = torn \union open
  /\ UNCHANGED << hdr, ref, latest, here, defs, open >>

\* _forth_restart, after a CPU exception: the variables, not the flags.
Restart ==
  /\ SetBack(0) /\ latest' = BuiltInAt(Kept) /\ state' = 0
  /\ defs' = BuiltIns /\ open' = {} /\ torn' = {}

Next ==
  \/ \E n \in Names :
       \/ Create(n) \/ Colon(n) \/ Hide(n) \/ Forget(n)
       \/ CompileWord(n) \/ TickComma(n)
       \/ \E d \in Names : CreateDoes(d, n)
  \/ Noname \/ Semicolon \/ Immediate \/ CompileNumber \/ Recurse
  \/ Comma \/ CComma \/ Brackets \/ ParseError \/ Restart

Spec == Init /\ [][Next]_vars

----------------------------------------------------------------------------
(* Properties.                                                             *)

\* Types; headers are aligned, whatever odd number of bytes was laid down.
HeaderRecord ==
  [link : Int \union {Null}, name : Names \union {Unnamed},
   hidden : BOOLEAN, immediate : BOOLEAN]
TypeOK ==
  /\ hdr \in [DOMAIN hdr -> HeaderRecord]
  /\ \A a \in DOMAIN hdr : a \in Int /\ a % CellSize = 0
  /\ DOMAIN ref \subseteq 0..Limit /\ defs \in Seq(Int)
  /\ latest \in DOMAIN hdr /\ here \in 0..Limit /\ state \in {0, 1}
  /\ open \subseteq Defined /\ torn \subseteq Defined

\* The links from LATEST lead through exactly the definitions made and not
\* forgotten, each whole and above those before, and end; all of them are
\* below HERE, so what is laid down next destroys none.
ChainSound ==
  /\ defs # << >> /\ latest = defs[Len(defs)]
  /\ \A i \in 1..Len(defs) :
       /\ defs[i] \in DOMAIN hdr
       /\ hdr[defs[i]].link = IF i = 1 THEN Null ELSE defs[i - 1]
       /\ \A j \in i + 1..Len(defs) : defs[i] + WordSize <= defs[j]
       /\ defs[i] + WordSize <= here

\* What has been compiled below HERE refers to definitions that still exist:
\* FORGET, inside a half-compiled definition too, leaves no call that leads
\* into memory to be reused.
NoDangling == \A c \in DOMAIN ref : c + CellSize <= here => ref[c] \in Defined

\* While it is being compiled a definition cannot be called by its name
\* (armforth.S:2266), whatever is created, forgotten, hidden or interrupted
\* meanwhile.
UnfinishedHidden == \A a \in open : hdr[a].hidden

\* FIND finds the youngest definition that has the name and is not hidden,
\* whatever names were reused, hidden and forgotten.
View == [i \in 1..Len(defs) |->
          [name |-> hdr[defs[i]].name, hidden |-> hdr[defs[i]].hidden,
           immediate |-> hdr[defs[i]].immediate]]
Promise == INSTANCE Vocabulary WITH words <- View
FindsYoungest == \A n \in Names : Found(n) = {defs[i] : i \in Promise!Meaning(n)}

\* As addresses, links and flag bytes, the dictionary behaves as the sequence
\* of definitions of module Vocabulary: what the words do to the headers that
\* LATEST leads to (which are defs, by ChainSound) is one of its steps.
KeepsVocabulary == Promise!Spec

\* The inductive invariant behind ChainSound, NoDangling and UnfinishedHidden:
\* what a cell refers to lies below the cell, so FORGET cannot drop the one
\* and leave the other; and the built-in words stay.
RefersBack == \A c \in DOMAIN ref : c + CellSize <= here /\ ref[c] \in Int /\ ref[c] < c
BuiltInsStay == Kept <= Len(defs) /\ \A i \in 1..Kept : defs[i] = BuiltInAt(i)
IInv ==
  TypeOK /\ ChainSound /\ NoDangling /\ UnfinishedHidden /\ RefersBack /\ BuiltInsStay

----------------------------------------------------------------------------
(* What the source says of itself and the model refutes.                   *)

\* A half-finished definition is never to be called: it stays hidden once a
\* parse error has interrupted it (armforth.S:2266).
TornHidden == \A a \in torn : hdr[a].hidden
=============================================================================
