# A TLA+ development of AApen

AApen is a bare-metal Forth for the Raspberry Pi 3.  It boots straight into a
Forth system that owns the machine: a threaded-code interpreter in assembly,
two boot texts in Forth that define the rest of the language, and drivers
written in that language.  There is one thread of control and no interrupts;
what is hard about it is not parallelism but *control and state that cross one
another*: a return stack that holds return addresses and exception frames
together, an input source that is saved on the data stack of the program that
is being evaluated, CPU exceptions that restart everything between two cells,
hand-computed branch offsets, and drivers that wait on hardware.

File names below are those of the repository; the live code is `src/src/`.

## 1. Inventory

| Component | Code | State | Operations | Talks to |
|---|---|---|---|---|
| Inner interpreter, primitives | `armforth.S` | IP (`NIP`), the word being executed (`x0`), return and data stack | NEXT, `docol`, EXIT, LIT, BRANCH, 0BRANCH, stack and memory words | everything |
| Outer interpreter | `armforth.S`, `boot0.f` | input source (`inbuf`, `srclen`, `>in`, `srcid`), STATE, terminal buffer | QUIT, REFILL, WORD, PARSE, INTERPRET, EVALUATE, SAVE-INPUT, RESTORE-INPUT | dictionary, console, exceptions |
| Exceptions of the language | `armforth.S` | frames on the return stack | CATCH, THROW, EXCEPTION-MARKER | both stacks, QUIT |
| Dictionary and compiler | `armforth.S`, `boot0.f` | HERE, LATEST, the headers with their flag bytes | CREATE, FIND, `:` `;`, IMMEDIATE, HIDE, FORGET, DOES>, `,` | outer interpreter |
| Control structures | `boot0.f` | addresses left on the data stack while compiling | IF ELSE THEN, BEGIN loops, DO LOOP, CASE | compiler |
| Arithmetic and numbers | `armforth.S`, `boot0.f`, `doc/do_loop.md` | BASE | NUMBER, DO-LOOP bounds, shifts, division | interpreter |
| Console | `video.S`, `bios.S`, `boot1.f`, REFILL in `armforth.S` | cursor, line buffer | `advance_cursor`, `newline_cursor`, `_outch`, AT-XY, NEXT-LINE, NEXT-CHAR, line editing | outer interpreter |
| Boot and CPU exceptions | `boot.S`, `exceptions.S`, `util.S`, `kernel.ld` | machine registers, saved exception words | `_start`, vectors, `_forth_start`, `_forth_restart` | everything |
| Mailbox to the GPU | `mailbox.f`, `video.S` | message buffer, full and empty bits, cache | draft, SEND, RECEIVE | frame buffer, SD card clock |
| SD card driver | `sdcard.f` | controller registers, card type, RCA | initialisation, commands, block reads with time-outs | FAT |
| FAT | `sdcard.f` | mounted volume, open file, directory walk | mount, cluster chain, directory walk, open, read | SD driver |
| Tests and demos | `test.f`, `testsuite.f`, `whichway.f` | none | programs for the Forth | |
| Attic, host tools | `attic/`, `tools/` | | retired kernel (the Makefile builds `src/*.S` only), developer scripts | |

How they interact.  `_start` sets the CPU up and jumps to `_forth_start`, which
empties the stacks, makes the text of `boot0.f` the input source and runs
`cold_start`, two cells: INTERPRET, QUIT.  `boot0.f` ends by evaluating
`boot1.f`, which evaluates the drivers and then executes QUIT *from inside an
EVALUATE*.  QUIT reads lines with REFILL, which echoes through `_outch` to the
UART and the frame buffer, and interprets them.  Any CPU exception goes through
the vectors to `_forth_restart`, which puts a few variables back and starts
over from `_forth_start`, wherever the machine was.

What is hard to test, and what would make each component correct:

* **Outer interpreter.**  Does every way of leaving an evaluated text (its end,
  QUIT, a throw caught outside, a parse error, a CPU exception) leave an input
  source that is what `srcid` says?  Is the return stack empty each time a line
  is read?  Does the prompt always come back?
* **Exceptions.**  Whatever is nested in whatever, is the entry THROW takes for
  a frame the frame of the innermost CATCH still running, and is the depth it
  gives back that CATCH's?
* **Console.**  Does what is seen on the line agree with what is in the buffer
  when the echo wraps at the end of a row, or of the screen, and is rubbed out
  again?  Does the cursor stay on the screen?
* **Dictionary.**  Do the links from LATEST still lead through exactly the
  definitions, all below HERE, after any order of defining, hiding, forgetting
  and restarting?  Does FORGET, executed in the middle of a definition, leave a
  call into memory that will be reused?  Can a half-compiled word be called by
  its name?
* **Control structures.**  Does the code an IF, a loop or a CASE compiles go
  where it reads, for every legal nesting?  The structures leave addresses,
  flags and zeros for one another on one stack: does each find its own?
* **SD card.**  Is an answer taken for the answer to the command sent, and a
  block for the block asked for, after a time-out, an error or a restart has
  left something on the line?  Do card and controller agree when SD-ENABLE
  returns?  Does every poll end?
* **FAT.**  Does the directory walk see every entry, and end?  Does a file id
  stand for one file from OPEN-FILE to CLOSE-FILE, whatever throws between?
* **Arithmetic.**  How often does a DO loop run at the boundaries of the word;
  is NUMBER the inverse of printing?
* **Mailbox.**  Is an answer the answer to the request sent; is the cache
  cleaned and invalidated in that order; can RECEIVE wait for nothing?

The last two are not modelled (section 6).

`PROJECT.json` lists the hazards line by line, those of the parts not modelled
too.

## 2. Modules

| Module | Contents |
|---|---|
| `OuterInterpreter` | the threaded-code machine that runs QUIT, INTERPRET, EVALUATE, CATCH and THROW; its properties and its inductive invariant |
| `Exceptions` | what CATCH and THROW promise, without a return stack |
| `MCOuterInterpreter` | a dictionary, texts and lines for TLC |
| `OuterInterpreter_proofs` | proofs, for every dictionary, text and line |
| `Console` | cursor, character output, cursor words, line editor |
| `Console_proofs` | proofs, for every size of screen |
| `Dictionary` | headers, LATEST, HERE, FIND and the words that change them; properties, inductive invariant |
| `Vocabulary` | what the dictionary promises: a sequence of definitions |
| `MCDictionary` | one built-in word, two names and a small memory for TLC |
| `Dictionary_proofs` | proofs, for every name, cell size, header size and memory |
| `LeastNumber` | every set of naturals with an element has a least one: induction, for the proofs |
| `Vocabulary_proofs` | FIND finds the youngest; `Dictionary` implements `Vocabulary` |
| `ControlFlow` | what the structured words of `boot0.f` lay down and leave on the stack, against the text |
| `ControlFlow_proofs` | proofs, for definitions of any length and nesting |
| `SDCard` | SD-ENABLE and SD-READ-BLOCK, the host controller and the card |
| `SDCard_proofs` | proofs, for any card, block size and FIFO |
| `Files` | mounting, the directory walk, the table of open files |
| `OpenFiles` | what a file id promises a program |
| `MCFiles` | a disk of three directories for TLC |
| `Files_proofs` | proofs, for every table size and every disk whose clusters have one or two sectors |

### OuterInterpreter

The state is the machine's own.  `nip` is the register NIP (x10), `xt` the word
NEXT put into x0, `rs` and `ds` the two stacks with their top last, and
`inbuf`, `to_in`, `srclen`, `srcid`, `state` and `tib` the variables of the
source.  One action executes one cell; its name is the primitive's.

* QUIT, EVALUATE, CATCH and EXCEPTION-MARKER are cells (`BuiltIn`), as they are
  in the source, so return addresses *into* them are real: the INTERPRET of an
  EVALUATE that was called from the INTERPRET of QUIT comes back where the
  source comes back, and CATCH's marker is the address of the RDROP inside
  EXCEPTION-MARKER.  Stretches that call nothing are one cell: `quit` (empty
  the stacks, reset the input source and STATE), `more?` (the test at the end
  of QUIT's loop with its branches), `eof?` (the test at the end of EVALUATE's
  loop), `restore-input`, and the entry of CATCH and of EVALUATE.
* INTERPRET sets NIP back by a cell before it executes a word
  (`InterpretWord`), so that the word returns into INTERPRET; it is this that
  makes QUIT, THROW and EVALUATE inside a line work, and it is modelled as such.
* THROW is one step (`Throw`), with its search of the return stack by
  definition: the topmost entry that is the marker, the one at the bottom
  excepted, since the loop compares with `r0 8-`.  That it writes the code onto
  the stack it is restoring is kept (`Restored`, `Collides`).  DSP! moves the
  stack pointer and nothing else, so a CATCH gets back the cells its word had
  dropped as memory holds them: the first six as THROW's own shuffling left them
  (`Scratch`: the code, and the saved pointer), those further up as they
  were, which may be anything in the set `Stale`.
* RESTORE-INPUT reads whatever is on the data stack (`Mismatch`,
  `RestoreInput`, `StackMismatch`).
* A parse error resets the input source and jumps to `warm_start` without
  clearing a stack; QUIT, which follows, does.
* `Restart` may happen at any step, between any two cells.

Abstractions.  A word is a token, and `>in` and `srclen` count tokens; the last
word of a text runs to its end, so `>in` is then one past `srclen`, as the
source leaves it.  What WORD reads past the end of a text is any token.
Compiling a word has no effect but to consume it, and the dictionary is a
constant.  `0xabacab` (`Magic`) differs from every integer a program pushes by
itself.  A cell nobody wrote on purpose, or an address on the data stack, is
`Junk`: it may or may not be zero and is neither 5 nor `Magic`.  A line is read in one step (Console has the
keys).  A NUL key, which would leave REFILL through a label of another word, is
left out.  An uncaught THROW of -2 types a string from the stack first; QUIT
empties the stack right after, so nothing of it is left.

### Exceptions

Calls in progress, CATCHes in progress (each with the number of calls before it
and the depth of the data stack), the depth, the next cell.  A return never
crosses the innermost guard; a THROW abandons exactly the calls the innermost
guard covers, resumes behind its CATCH, and gives back its depth plus the code.
`OuterInterpreter` is shown to implement it (`KeepsPromise`), under the
refinement mapping `View`, which reads the return stack from the bottom up: a
return address is a call, a saved depth the guard of the call below it, and
CATCH's marker shows nothing.  So a guard begins with the second store of CATCH
and ends when EXCEPTION-MARKER drops the depth, and the EXIT behind it is an
ordinary return.

### Console

`x`, `y` are cursor-x and cursor-y; `len` is the number of characters in the
line buffer; `editing` tells that REFILL is reading; `home` and `newlined` are
history, where the echo of the line began and whether a newline has been typed
into it.  REFILL ends a line at CR only: an LF is stored as any character while
`_outch` echoes it as a newline (`TypeNewline`).  Every key of
REFILL, every kind of character of `_outch` and every cursor word of `boot1.f`
is an action.  Characters, pixels, colours and the UART are left out.  A column
may be negative, as in the code: `advance_cursor` checks the right edge only.
`Position` counts places from the top of the screen, and a negative column
counts back into the row above; what is drawn or erased there, however, appears
at the right edge of the same row, one line of pixels up, so the model says
nothing about the picture once a rub-out has crossed the start of a row.

### Dictionary

`here`, `latest` and `state` are the variables of the same names.  `hdr` maps
the address of a header to its link, name and two flags; `ref` maps the address
of a cell to the definition it refers to (a compiled call, or the codeword of
what a DOES> word creates, which points into that word).  Everything else that
is laid down counts by its size.  A write removes from `hdr` and `ref` what it
overlaps.  `defs`, `open` and `torn` are history: the definitions that ought to
be there, those `:` has begun, and those a parse error interrupted.

| Action | Code |
|---|---|
| `Create`, `CreateDoes`, `Colon`, `Noname` | `_header` with the codeword behind it, as the defining words use it; `Header` aligns HERE, links to LATEST and updates both |
| `Semicolon` | EXIT, *toggle* the hidden bit of LATEST, `[` |
| `Immediate`, `Hide` | toggles of one bit of LATEST, of the word found |
| `Forget` | LATEST from the link, HERE to the header |
| `CompileWord`, `CompileNumber` | the compiling half of INTERPRET |
| `TickComma`, `Recurse`, `Comma`, `CComma` | `' name ,`, RECURSE, `,`, `c,` |
| `Brackets`, `ParseError`, `Restart` | `[` `]`, the error exit of INTERPRET, `_forth_restart` |

The words come in any order and in either STATE: a definition may be created,
hidden or forgotten while another one is being compiled, by `[ ... ]` or by an
immediate word.  FIND is defined as the highest matching header that can be
reached from LATEST (`Found`); since links lead downwards (`ChainSound`) that
is the first one the loop of `_find` meets.

Abstractions.  A header has a fixed size and `_find` compares names as model
values, so names of more than 30 characters, whose length would run into the
flag bits, are out.  Memory above a HERE that was set back is not followed:
that nothing reads it is what `NoDangling` and `ChainSound` say.  FORGET is
given words that exist and are not built in, as the comment at `boot1.f:128`
demands, and HIDE words that exist (otherwise it toggles a bit at address 8,
outside the dictionary).  DEFER and IS, and ALLOT with a negative argument, are
left out.

### Vocabulary

A sequence of names with their two flags; a name means its youngest visible
definition.  Steps: append one, toggle a flag of the last, hide what a name
means, cut the sequence before what a name means, keep the built-in ones.

### ControlFlow

`code` is the body of the definition being compiled, a sequence of cells;
`stack` the data stack while compiling, its bottom cell the program's.  Each
immediate word of `boot0.f` is an action that lays down cells and takes and
leaves addresses as the source does: IF leaves the address of its hole, ELSE
fills one and leaves another, BEGIN the address of the loop, DO a flag under
the address (and under that, for ?DO, a hole), CASE a zero on which the holes
of its ENDOFs pile up.  `text`, `at` and `nest` are history: the words, where
each began, and which structures are open.  `nest` only tells which words may
come next, as the program's text does; the words of the code see nothing but
`stack`.

An offset is a number in the cell, so `FlowFollowsText` can compare where
BRANCH and 0BRANCH go (`Goes`: from the offset's cell, by the offset) with what
the brackets of the text mean (`Reads`, which looks at nothing the code
compiles).  0BRANCH's condition is the flag on the stack or its NOT; `Turning`
states for each word which flag takes the text elsewhere.

Abstractions.  A word that is no structure is one cell.  The flags and counts
of a running loop are left out: a loop is left or repeated on a flag.  A
control word without its opener is left out: it would take what the program has
on the stack for an address.  RECURSE is in `Dictionary`.

### SDCard

`plan` is the list of stages a word still has to go through, `pc` the step of
the stage.  SEND-COMMAND-P is five steps, one per register access that another
actor can come between: `WaitCommand`, `ClearInterrupts`, `Issue`, `AwaitDone`,
`Response`.  `inhibit`, `irpt`, `resp`, `fifo` and `host` are the registers;
`pending` and `transfer` what is between controller and card; `card` the card
by its state diagram.  `Driver` and `Hardware` interleave freely.

* Every wait may end in `TimeOut` whenever its poll finds nothing; the loop of
  SD-READ-BYTES also when it has just read a word, since it looks at the
  deadline in any case.
* `Answer` may be right, damaged, or come with an error beside the bit waited
  for; `NoAnswer` is the controller's own time-out.  Either may come after the
  driver has thrown and sent something else.  `DataError` cuts a block short.
* AWAIT-INTERRUPT clears the bit it waited for and throws on an error that it
  leaves latched (`Noticed`).
* NOT-BUSY? does not wait for the inhibit bit it is given.  It masks the status
  register with what RPEEK returns (`sdcard.f:237`), and RPEEK, a colon word,
  finds its own return address on top of the return stack: a multiple of 8,
  which has neither bit.  Which other bits it has depends on where the word was
  compiled, so a poll may end the wait (`WaitCommand`, `WaitData`) or go on to
  the deadline; a latched error ends it (`MayGoOn`).  A command may thus be sent
  over one in flight.  The history variable `rushed` records that, since the
  last reset, the driver has passed such a wait with the bit set.
* `Restart` may come at any step and leaves the hardware as it is.

The controller and the card are external: they are what the driver relies on,
written from how the driver uses them.  Left out: GPIO and clock divisors, CSD
and CID, the status words that are only reported, SD-READ-BLOCKS.

### Files

A word runs from one block read to the next, so a throw by the SD driver can
come at every read (`Throw`), and leaves the variables as they are there.
`cur`, `index`, `saw`, `bbuf` are `dirwalk-cur-cluster`, `dirwalk-cur-index`,
`dirwalk-saw-last?` and the cluster in `bbuf`; `files` is the table of open
files, each slot with its flags, first cluster, size, position and current
cluster; `held` is history, the file ids that OPEN-FILE has returned and
CLOSE-FILE not taken back.  A directory is a sequence of entries in a chain of
clusters; a cluster is its chain's first with its number in the chain.

What the code does on the unusual paths is kept: OPEN-FILE takes its slot
before it looks for the name and leaves it taken if a read throws; a chain
without an end mark leaves a cell too many (`under`), which makes OPEN-FILE's
FREE-FID abort (`OpenAbsentAborts`) and DIR/ put a chain end into `curdir`
(`OtherAbsent`); FILE-LOAD-CURCLST loads a whole cluster into a buffer of 128
bytes, so the clusters of the last slots run over the end of the table
(`LoadCluster`).  After that (`intact` false) the model starts no word but by
`Restart`: what is overwritten is a matter of the memory layout.  The sector
buffer `bbuf` has 1032 bytes (`sdcard.f:875`), and NEXT-CLUSTER loads a whole
cluster into it.  One or two sectors fit; a larger cluster would overwrite the
parameters of the FAT behind it, so `Sectors` is assumed to be 1 or 2
(`DiskAssumption`).

Abstractions.  Names are compared as values, so the 8.3 form is out; buffers
have no contents (no word reads a file yet); the FAT is a function from a
cluster to the next, without cycles; a subdirectory's `..` leads to cluster 0, which CD takes
for the root.

### OpenFiles

A function from file ids to first cluster, size and position.  A file id is
given out with position 0 and only if it stands for nothing; only CLOSE-FILE
and REPOSITION-FILE on it change it; a restart takes all away.

## 3. Runs

| Run | Checks | Result |
|---|---|---|
| `outer_interpreter` | `TypeOK`, `PromptUnnested`, `CatchFrames`, `SourceIdTells`, `KeepsPromise`, `PromptReturns` | hold; 120 475 states |
| `refill_input` | `RefillMakesInput` | violated, a finding |
| `throw_depth` | `CaughtThrowKeepsStack` | violated, a finding |
| `console` | `TypeOK`, `EchoTracksBuffer` | hold; 6 886 states |
| `console_newline` | `RowOnScreen` | violated, a finding |
| `dictionary` | `TypeOK`, `ChainSound`, `NoDangling`, `UnfinishedHidden`, `FindsYoungest`, `KeepsVocabulary` | hold; 438 920 states |
| `dictionary_torn` | `TornHidden` | violated, a finding |
| `control_flow` | `TypeOK`, `FlowFollowsText`, `HolesKnown` | hold; 809 519 states |
| `sdcard` | `TypeOK`, `ReadsAsked`, `ResponseOwn`, `EnableSound`, `ComesCloser`, `Returns` | hold; 565 370 states |
| `sd_inhibit` | `InhibitOff` | violated, a finding |
| `files` | `TypeOK`, `FindsFile`, `KeepsFiles`, `ComesCloser`, `Returns` | hold; 282 077 states |
| `files_sectors` | `FindsFile` | violated, a finding |

**outer_interpreter.**  `PromptUnnested`: no nesting leaks into the prompt, and
nothing pops an empty return stack; it also shows that QUIT's second branch,
whose offset (-96) leads to the wrong cell, and the EXIT behind QUIT's loop are
never reached.  `CatchFrames`: every marker on the return stack sits on a
complete frame, and what EXCEPTION-MARKER drops is a saved depth.
`SourceIdTells`: `srcid` is -1 exactly when an evaluated string is the input
buffer.  `TypeOK` carries more than types here: that what RESTORE-INPUT takes
from the data stack for a buffer, a position, a length and a source id are
such.  Neither holds of every program, and the dictionary of the run is one of
which they do: see the premise `Tampers` in section 4.  `KeepsPromise`: the refinement above.  `PromptReturns`: unless CPU
exceptions keep restarting it, the machine reaches REFILL again and again.

*The instance.*  The dictionary has words that evaluate a text, catch a word
that evaluates one, throw a code, and throw from three cells below their CATCH.
The texts are the boot text, the text it evaluates that ends in QUIT, a
balanced one, one that catches a normal return and a throw and then throws
itself, one that evaluates another and then leaves a stack on which the count
of RESTORE-INPUT matches and the marker does not, one that does not parse, and
one (`T5`) that catches a throw of 5 from six cells below the CATCH and so gets
the six saved cells back overwritten.  So evaluation nests three deep, with
catches between; every way out of an EVALUATE occurs, and RESTORE-INPUT finds
other cells than EVALUATE left, at the prompt and inside a running CATCH (`c5`),
once with a count that matches.  `Stale` holds junk, 0, 5 and the marker.

*Bounds.*  `LineLength` = 2 words on a line: what a line leaves behind (data
stack, STATE, input source) is there for the next, so longer lines add little
but their product.  `Room` = 3 is the depth of the data stack beyond which no
line is read, and `Slack` = 1 the number of cells above the bottom of the data
stack that are followed on underflow; both only keep the state space finite,
and QUIT, restarts and throws still happen at any depth.

*Fairness.*  `FairSpec` assumes that the CPU goes on executing cells
(`WF(Machine)`) and that a stack pointer that was lost faults (`WF(Fault)`).
Nothing is assumed of the keyboard, so `Refill` is not fair: the prompt's
return means that the machine waits at it.  Restarts are not fair, and
`PromptReturns` is conditional on their coming to an end: a fault in the boot
text does restart for ever, as the TODO above `_forth_restart` says.

**refill_input.**  The comment of REFILL says that it makes the line the input
buffer.  It fills `buffer` but leaves `inbuf` alone.  After a THROW out of an
EVALUATE is caught, the input source is still the string, since THROW restores
no input source, and the next REFILL at the prompt measures a line that
INTERPRET then does not read.

**throw_depth.**  The comment of THROW says that the stack is restored to what
it was at the CATCH, and that three copies of the code keep the word's own
cells out of the way.  If the code is thrown from exactly three cells below the
depth of the CATCH, the store of the code hits the copy of the saved pointer,
and `dsp!` loads the code instead.  In `OuterInterpreter` what follows is the
CPU exception (`Fault`), and `KeepsPromise` counts it as a fresh start.

**console.**  `EchoTracksBuffer`: during line editing a cursor that is on the
screen stands as many places behind the prompt as the buffer has characters,
counted row by row and round at the end of the screen, if no newline has been
typed into the line.  It is about where the next character goes, not about the
picture: a rub-out across the start of a row leaves the characters above
standing.  `TypeOK` says how far the cursor can stray: never past the right edge or
the bottom, at most one row above the top.  The bounds are 4 columns by 3 rows
with lines of up to 7 characters, so a line wraps twice and crosses the end of
the screen, and programs may backspace 2 columns past the left edge.

**console_newline.**  `newline_cursor` wraps one row too early (it compares
with 47) by a whole screen (it subtracts 48), so from row 46 it leaves row -1.

**dictionary.**  `ChainSound`: the links lead through exactly the definitions
that were made and not forgotten, none overlaps another, all end below HERE.
`NoDangling`: a cell below HERE refers to a definition that exists.
`UnfinishedHidden`: a definition being compiled has its hidden bit, although
`;`, IMMEDIATE and HIDE all work by toggling and may be executed for another
definition.  `FindsYoungest` and `KeepsVocabulary` compare the addresses, links
and bits with the abstract sequence.  `TypeOK` says that every header is
aligned, whatever was laid down byte by byte before.

*Bounds.*  A header of 2 bytes and a codeword of 2, one cell each, so that a
byte laid down by `c,` misaligns HERE; a memory of 12 bytes behind the data
segment's start: three definitions without code, or two with calls, numbers
and bytes between them, as often remade as FORGET allows.  Two names, one of
them that of the only built-in word, so names are redefined, hidden and
uncovered again.  No fairness is needed, the properties are about safety.

**dictionary_torn.**  The hidden bit is there, the comment at `armforth.S:2266`
says, so that a half-finished word is not called.  A parse error inside a
definition leaves it hidden at LATEST and resets STATE; the `;` at the end of
its text, which is read next, is immediate and toggles the bit: the half
definition can now be found.

**control_flow.**  `FlowFollowsText`: when the structures are closed, every
word and both flags lead where the text says.  `HolesKnown`: every offset not
yet filled in is an address on the stack above the program's own cell, and when
all is closed the stack is as the program left it.  `TypeOK` says that no
branch, filled in or not, leads out of the definition.

*Bounds.*  `Length` = 8 words: enough for a CASE with two ENDOFs, an IF ELSE
THEN in a loop, a ?DO in a WHILE loop, and any pair of structures in one
another; a word is only compiled where there is room to close what is open.
`Below` = 9, the program's cell, is a number that is also a possible address.

**sdcard.**  `ReadsAsked`: a SD-READ-BLOCK that returns has stored the block
asked for, whole and in order.  `ResponseOwn`: what is taken for a response
answers the command sent.  Both are stated for `~ rushed`: if the lines were free
whenever the driver sent something since the last reset, which it does not
see to itself (`sd_inhibit`).  Otherwise a late answer can be taken for another
command's, and a block for another.  What they do cover is everything that can
be late or left behind without a line being taken: time-outs of the
controller, words in the FIFO, stale interrupt bits, restarts, retries.
`EnableSound` holds without that condition: when
SD-ENABLE has returned, the card is selected, has the address the driver keeps,
and uses the bus width the controller uses, and no later read undoes it.
`ComesCloser`: every step of the driver lessens `Distance`, a number known from
the plan, the step of the stage and the words still to be read; nothing the card
does changes it.  There is thus no way back in the driver: no retry, no second
reset.  `Returns`: every word returns or throws.

*Bounds.*  Two blocks, so that one can be taken for the other; 2 words in a
block and in the FIFO, so a block can be cut short in the FIFO, on the line, or
on both; two addresses, so a card asked again may choose another one.  Of the
commands in flight when one is sent over them only the latest may still be
answered (`Overtaken`).

*Fairness.*  `WF(Driver)`: the CPU goes on polling.  TIME-OUT is an action of
the driver, always possible while a poll finds nothing; nothing is assumed of
the card or the controller.  A read loop that gets its words in time ends
because its count goes down, one that does not by its deadline.

The card of the run is addressed in bytes (`HighCapacity = FALSE`).  The comment
in SD-READ-BLOCK says that high-capacity cards take the address divided by 512;
the code passes the byte address to every card.  With `HighCapacity = TRUE` in
`SDCard.cfg` TLC finds `ReadsAsked` violated.

**sd_inhibit.**  The comment at the head of SEND-COMMAND-P says that it waits for
the command inhibit bit to be off, the one in NOT-BUSY? that it masks with the
indicated bit.  It masks with RPEEK's own return address, and a read that follows
one that timed out sends its command with the bit set, no error latched.

**files.**  `FindsFile`: FIND-FILE returns the first entry with the name, and
none only if there is none.  `KeepsFiles`: the table implements `OpenFiles`.
`ComesCloser`: every step lessens `Distance`, which the clusters left in the
chain and the entries left in the cluster determine.  `Returns`: the walk ends,
whether the directory has an end mark or fills its last cluster.

*Bounds.*  The root fills three clusters of two entries exactly, so it has no
end mark; the subdirectory ends within its second cluster; one name occurs
twice, in different clusters.  Three slots, and clusters that fill two buffers (`Span`), so the last
slot overruns.  `Modes` is {1}: the modes are stored and never looked at.

*Fairness.*  `WF(Walk)`: the word being executed goes on.  A read that throws
ends the word too.  Commands, throws and restarts are not fair.

**files_sectors.**  DIRWALK-NEED-NEXT-BLOCK? counts 16 entries to a cluster;
with two sectors in a cluster half of the entries are passed over.

## 4. Proofs

All are proved by TLAPS for every value of the constants that the modules'
assumptions allow (`ConstantsAssumption`, `ScreenAssumption`, `LayoutAssumption`,
`BoundAssumption`, `CardAssumption`, `DiskAssumption`).

| Theorem | Says |
|---|---|
| `OuterInterpreter_proofs`: `Invariance` | the inductive invariant `IInv` holds in every reachable state |
| `OuterInterpreter_proofs`: `Typing`, `Unnested`, `Frames`, `SourceIds` | so do `TypeOK`, `PromptUnnested`, `CatchFrames`, `SourceIdTells` |
| `OuterInterpreter_proofs`: `Implements` | `KeepsPromise`: `OuterInterpreter` implements `Exceptions`, for any dictionary and any lines |
| `Console_proofs`: `Bounded`, `Tracking` | `TypeOK` and `EchoTracksBuffer`, for any screen |
| `Dictionary_proofs`: `Typed`, `Chained`, `Sound`, `Unfinished` | `TypeOK`, `ChainSound`, `NoDangling`, `UnfinishedHidden`, for any names, sizes and memory |
| `Vocabulary_proofs`: `Finds`, `Keeps` | `FindsYoungest`; `Dictionary` implements `Vocabulary` |
| `ControlFlow_proofs`: `Typed`, `Holding`, `Following` | `TypeOK`, `HolesKnown` and `FlowFollowsText`, for definitions of any length and nesting |
| `SDCard_proofs`: `Typed`, `Answered`, `Enables`, `Closer` | `TypeOK`, `ResponseOwn`, `EnableSound` and `ComesCloser`, for any card, block size and FIFO |
| `SDCard_proofs`: `Reads` | `ReadsAsked`, for any block size and FIFO, when the card is addressed in bytes |
| `Files_proofs`: `Typed`, `Finds`, `Keeps`, `Closer` | `TypeOK`; `FindsFile`, with one sector in a cluster; `Files` implements `OpenFiles`; `ComesCloser`; for any table and any disk with one or two sectors in a cluster |

The theorems about `OuterInterpreter` have one premise, `[]~ Tampers`: no program
throws the cell `0xabacab` (`Forges`), and none throws from more than six cells
below the depth of the CATCH that takes it (`Digs`).  The first can put
SAVE-INPUT's marker on the stack by itself.  The second gets cells back that
THROW has not touched, above others that it has overwritten: with eight or more
these can be the marker and the count of SAVE-INPUT, on top of a code and an
address that RESTORE-INPUT then stores as `>in`, `srcid` and the rest.  Of such
programs the theorems say nothing, and in the code neither `TypeOK` nor
`SourceIdTells` need hold of them.  Up to six cells below, a THROW can make
RESTORE-INPUT fail but not take other cells for an input source.

The theorems about `Files` are for clusters of one or two sectors
(`DiskAssumption`), `Tracking` is for a cursor on the screen and lines without a
typed newline, and `Answered` and `Reads` are for runs in which the lines were
free whenever the driver sent something (`~ rushed`).

*The argument.*  None of the four properties is inductive.  `IInv` adds:

* `Fetched`: what is executed is the cell before NIP, unless it is a word that
  INTERPRET, THROW or CATCH put in x0; NIP is then a cell to come back to.
* `Bottom`: QUIT's own code runs under everything else and only there; the
  address at the bottom of the return stack is the one behind an INTERPRET of
  QUIT or of the cold start, and no other entry is.  Without it an EXIT from
  QUIT's loop could not be excluded.
* `QuitLoops`: the flag REFILL leaves is the CR it read, and INTERPRET ends
  with `>in` past `srclen`.  This is why the branch with the wrong offset and
  the EXIT are dead code.
* `WellSaved`: under *every* marker of SAVE-INPUT on the data stack lies an
  input source whose source id fits its buffer, whatever text left it there.
  It speaks of all markers and not of the topmost, since words drop what lies
  on top.  A caught THROW keeps it because it brings back no cell but its own
  scratch, in which there is no marker; this is where the premise is used.

The proof of the step is divided in three, control (`Control`), the stacks'
types and the saved sources (`Stacked`), and the input source (`Sourced`), each
with one step per action; `Parts` puts them together.  The lemmas that carry it
are about the shape of code (an EXIT occurs only at the end of a definition;
every address has a cell behind it), about `WellSaved` under push, pop and
cut, and about the three entries THROW removes (`FrameFound`).

That it implements `Exceptions` needs no invariant beyond `IInv`, but it needs to
know what a return stack shows.  `View` is a pass over the stack, one entry after
the other; that the pass can be made at all over a stack of any height
(`Shown`) is the one induction, in the form described below.  From it come
`ViewStep` (one entry more), `Lower` (the bottom entries), and `ViewAbove`
(return addresses above the frames add calls and touch no guard).  `FrameGuards`
is the heart of it: the frame THROW finds by searching the stack downwards is the
innermost guard, and what lies below the frame shows the calls and guards that
`Throw` leaves.  It holds because frames are whole (`CatchFrames`): a depth
never lies on the stack without its marker above and its call below.

For the console `EchoTracksBuffer` is not inductive, since it says nothing of a
cursor off the screen, from which the next character brings it back;
`EchoCounts` counts places there too.  The work is in remainders: `ModStep`
(equal positions stay equal when both move by one) and `Advanced`
(`advance_cursor` moves the position by one across the end of a row and of the
screen).

For the dictionary `IInv` adds `RefersBack` (what a cell refers to lies below
the cell, and no cell reaches above HERE) and `BuiltInsStay`.  `NoDangling`
alone is not inductive: FORGET cuts the definitions and the memory at one
address, and only because references lead downwards does what is left refer to
what is left.  `FoundDefined` is the other lemma: FIND reaches definitions only,
since the set of definitions contains LATEST and is closed under links.  Every
action then falls under one of four lemmas: nothing made or lost
(`SameDefinitions`), a header added (`HeaderInv`), a cut (`ForgetInv`), a fresh
start (`BuiltInsInv`).

For `Vocabulary` the invariant is the dictionary's.  What is new is that a
search along links, defined by closure, and a position in a sequence mean the
same: `ClosedHolds` shows that everything below LATEST is reached, taking the
highest definition that is not (`LeastNumber`), and `Youngest` that the highest
match is the last.  The step is then shown action by action against the
sequence (`StepKept`).

For the control structures neither property is inductive: that a word fills in
the right hole depends on what lies under it on the stack.  `Balanced` says
that the stack is made of segments, one for each open structure, each with the
cells its kind leaves (`Segment`), and that every address in it is a hole or
the start of a loop in the code below HERE.  A word then takes off the top
segment, puts one on, or changes it, and patches a cell that `Known` says is
somebody's hole.  The lemmas are about code that grows (`AddressesStay`,
`GrowsOn`, `SegmentStays`), about the zero that ENDCASE finds (it is the one of
the innermost CASE, since holes are not zero), and about patching.

`FlowFollowsText` speaks of finished definitions only, and of matching words
found by searching the text.  The invariant behind it, `Follows`, ties the three
things a word sees together while the definition grows:

* `Depth`: as many structures are open as the text has brackets open.
* `Written`: the cells of every word so far are those of its layout (`Layout`),
  one word behind the other; only the offset in them is not said (`Slot`).
* `Framed`: every open structure has a frame, with the word that began it, the
  word that last changed it (ELSE, WHILE) and its part of the stack (`Open`); what
  is in that part is the offset of *that* word, or the address behind it
  (`Slots`), and for CASE a zero and the offsets of exactly its ENDOFs.
* `Covered`: the offset of every jumping word leads where the text says already
  (`Settled`), or some frame's word is the one that will settle it (`Owned`).

`Balanced` is too weak here: it knows that a cell of the stack is a hole, not
whose.  Every word is an instance of `Onward`: the frames below keep (`FramedNext`),
the innermost one is opened, changed or closed (`Opens`, `Turned`, `Closes`),
the words it owned are settled or handed on, and nothing else in the code is
touched, because different words have different offsets (`OffsetsApart`).  What
settles them is `StopsHere` and `StartsHere`: the word being compiled is the
first at the depth of the frame that can end it, since everything behind the
frame's word is deeper.  The definition of where the text goes chooses such a
word; `OneStop` says that there is one choice (`SettledGoes`).  When nothing is
open nothing is owned, so everything is settled (`FollowsText`).

For the SD card the invariant says that, unless `rushed`, at most one command is
in flight, the last one sent, and then the inhibit bit is set (`Alone`); and
that between `ClearInterrupts` and `Response` there is none other than the
driver's own, so that `done` tells of it (`Exchange`).  A command abandoned by a
time-out cannot be the one answered: while it is in flight its bit is set
(`Alone`), and sending then makes the run `rushed`.

That a read returns what was asked is the invariant `DataInv`, again unless
`rushed`: a plan keeps its order (`Routed`); while data are on the way, or a
command that brings some is in flight, the data inhibit bit is set (`LineTold`),
so that a read which has passed its first wait finds the FIFO and the line empty
(`Calm`); and from then on the words stored, those in the FIFO and those still to
come are together the block (`Whole`).  The last word read of a block clears the
inhibit bit, and a block abandoned by a time-out does not: this is what a read
sent over it runs into.  The card's own addressing enters in one place, the
block it takes the argument for, and needs the premise `~ HighCapacity`.

For `EnableSound` the number of stages left tells where SD-ENABLE is (`Placed`),
and `Progress` what card and driver have agreed on by then (`Agreed`): the
states the card may be in, then its address, then the width.  While a command is
under way the card is one stage ahead of the driver from the moment it answers.
`Progress` starts with the reset of the controller, which drops every command in
flight, so that from there on nothing but the driver's own commands changes the
card.  `Sound` carries it through later reads: once an error has been taken for
an answer, or SD-ENABLE has returned, no command other than a read's can be late.

For the files `Walking` says where the walk stands at each step, and `Held`
that OPEN-FILE works on a slot nobody holds.  For `FindsFile` the walk has
passed no entry with the name (`StepFinds`); the theorem has the premise
`Sectors = 1`, and `files_sectors` shows that it is needed.

The two theorems `Closer` are proofs that the words come to an end, without the
scheduling.  In the driver a stage counts for Words + 4, one more than the steps
it can have (`Nearer`), and the stage SET-BUS-WIDTH for three more, since it may
put three in its place; that it does so once only is the invariant `Once`.  In
the walk a cluster counts for its entries and one; the invariant `InChain` says
that the cluster to be read next lies in its chain.

Induction is used in one form only, the least element of a set of naturals
(`LeastNumber`), which follows from the well-foundedness of < in the library.

*Only model-checked.*  The liveness properties `PromptReturns` and the two
`Returns`, since liveness under fairness is out of the prover's reach; of the
two `Returns` the half that is not about fairness, that only a finite number of
steps is left, is proved (`Closer`).  Every
safety property of a passing run and every refinement is proved.

## 5. Plan

Each module has its abstract promise or reference definition, one passing run,
and a run for each disagreement with the text of the source.

1. `OuterInterpreter`, `Exceptions`, `Console` with their proofs.  Done.
2. `Dictionary`, `Vocabulary`, with their proofs, the refinement included.  Done.
3. `ControlFlow`, with proofs of the discipline of the stack and that the code
   follows its text.  Done.
4. `SDCard`: SD-ENABLE, commands, block reads, deadlines.  Done, and its safety
   proved.
5. `Files`, `OpenFiles`, with their proofs, the refinement included.  Done.
6. That `OuterInterpreter` implements `Exceptions`.  Done.
7. Left: reading and writing of files, when the repository has words for it.

## 6. Not modelled

* **Mailbox.**  A request and a wait for its answer.  The full and empty bits
  are the GPU's, and the source shows of it only that it answers; every property
  would be one of the assumptions made about it.
* **Arithmetic.**  DO-LOOP bounds, NUMBER and shifts are pure functions on
  64-bit words with tests of their own (`test.f`).  Their use in control flow is
  in `ControlFlow`.
* **Boot.**  Register set-up in `boot.S` is straight-line code; that every
  vector ends in `_forth_restart` is in the models of what it interrupts
  (`Restart`).  The
  secondary cores, which the firmware parks.
* **Console.**  Pixels, colours, fonts.
* **Files.**  The partition table, the 8.3 form of names, the contents of
  buffers, volumes with more than two sectors in a cluster (they overrun the
  sector buffer), a FAT with a cycle.
* **SD card.**  The status bits of CMD3's response, which are assembled with a
  ROT of too few cells but decide nothing; clock divisors; GPIO.
* **Sizes.**  Stack and buffer overflow (1024 cells, 4096 characters): the
  bounds would have to be of that order to mean anything.
* Tests and demos, the attic, host tools, the vendored disassembler headers and
  the headers of register addresses: not part of the running system, or names
  for numbers.  The program itself is assembly (`.S`) and Forth (`.f`); it has
  no C.
