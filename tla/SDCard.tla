------------------------------- MODULE SDCard -------------------------------
(***************************************************************************)
(* The SD card driver of AApen (src/src/sdcard.f): SD-ENABLE and           *)
(* SD-READ-BLOCK, down to the register accesses of SEND-COMMAND-P, with    *)
(* the host controller and the card they talk to (external).               *)
(*                                                                         *)
(* Every wait polls a register against a deadline (TOUT?).  Here the       *)
(* deadline may pass whenever the poll finds nothing, the controller's own *)
(* time-outs and errors may come at any time, and an answer may come after *)
(* the driver has given up and gone on to something else.                  *)
(***************************************************************************)
EXTENDS Integers, Sequences

CONSTANTS
  Blocks,        \* blocks a program reads
  Words,         \* words in a block: 128
  Rcas,          \* relative addresses a card may choose
  HighCapacity,  \* the card counts blocks, not bytes
  Depth          \* words the controller's FIFO holds

ASSUME CardAssumption ==
  /\ Words \in Nat \ {0} /\ 0 \notin Rcas /\ 0 \notin Blocks
  /\ HighCapacity \in BOOLEAN /\ Depth \in Nat \ {0}

VARIABLES
  \* the driver
  word,      \* what is being executed: SD-ENABLE, SD-READ-BLOCK or nothing
  plan,      \* the stages it still has to go through
  pc,        \* the step of the stage
  block,     \* the block asked for
  left,      \* words SD-READ-BYTES still has to read
  got,       \* words it has stored
  rca,       \* sdcard.rca
  up,        \* history: SD-ENABLE has returned, and not been called again
  rushed,    \* history: since the last reset a wait for an inhibit bit has
             \*   ended while the bit was set
  \* the controller's registers
  inhibit,   \* sd-status: subset of {"cmd", "dat"}
  irpt,      \* sd-irpt: subset of {"done", "ready", "timeout", "error"}
  resp,      \* sd-resp0: what it says, and whether it answers the last command
  fifo,      \* words behind sd-data
  host,      \* bus width set in sd-control0
  \* between controller and card
  pending,   \* commands not answered yet, and which is the last one sent
  transfer,  \* words the card has still to send
  card       \* the card: state, address, bus width, CMD55 seen

driver == << word, plan, pc, block, left, got, rca, up, rushed >>
registers == << inhibit, irpt, resp, fifo, host >>
line == << pending, transfer, card >>
vars == << driver, registers, line >>

Errors == {"timeout", "error"}  \* 0x10000 and 0x100000, and the rest of 0x17f8000
Scr(wide) == << << IF wide THEN "wide" ELSE "narrow", 1 >>, << "scr", 2 >> >>
Data(b) == [i \in 1..Words |-> << b, i >>]

Commands == {"CMD0", "CMD8", "CMD55", "ACMD41", "CMD2", "CMD3", "CMD9", "CMD7",
             "ACMD51", "ACMD6", "CMD16", "CMD17"}

\* sd-enable, and the stages of read-scr; those of set-bus-width follow when
\* the card's SCR is known.
EnablePlan ==
  << "reset", "clock", "CMD0", "CMD8", "CMD55", "ACMD41", "CMD2", "CMD3", "CMD9",
     "clock", "CMD7", "dat", "CMD55", "ACMD51", "ready", "bytes", "width", "CMD16" >>
WidthHostOnly == << "control0" >>   \* Slip: the card is not told.
WidthPlan == << "CMD55", "ACMD6", "control0" >>
\* sd-read-block
ReadPlan == << "dat", "CMD17", "ready", "bytes" >>

Init ==
  /\ word = "none" /\ plan = << >> /\ pc = "start" /\ block = 0 /\ left = 0 /\ got = << >>
  /\ rca = 0 /\ up = FALSE /\ rushed = FALSE
  /\ inhibit = {} /\ irpt = {} /\ fifo = << >> /\ host = 1
  /\ resp = [own |-> FALSE, ok |-> TRUE, rca |-> 0]
  /\ pending = {} /\ transfer = << >>
  /\ \E w \in BOOLEAN :
       card = [state |-> "idle", rca |-> 0, width |-> 1, app |-> FALSE, wide |-> w]

----------------------------------------------------------------------------
(* The driver.                                                             *)

Stage == IF plan = << >> THEN "none" ELSE plan[1]
At(stage, step) == word # "none" /\ Stage = stage /\ pc = step
Sending(step) == word # "none" /\ Stage \in Commands /\ pc = step

NextStage == plan' = Tail(plan) /\ pc' = "start"

SdEnable ==
  /\ word = "none" /\ word' = "enable" /\ plan' = EnablePlan /\ pc' = "start"
  /\ rca' = 0 /\ up' = FALSE /\ got' = << >>
  /\ UNCHANGED << block, left, rushed, registers, line >>

\* For programs that have enabled the card; the address is in bytes, whatever
\* the card (sdcard.f:633).
SdReadBlock(b) ==
  /\ word = "none" /\ up
  /\ word' = "read" /\ plan' = ReadPlan /\ pc' = "start" /\ block' = b /\ got' = << >>
  /\ UNCHANGED << left, rca, up, rushed, registers, line >>

Leave ==
  /\ word' = "none" /\ plan' = << >> /\ pc' = "start"
  /\ block' = 0 /\ left' = 0 /\ got' = << >>

Return ==
  /\ word # "none" /\ plan = << >> /\ Leave
  /\ up' = TRUE /\ UNCHANGED << rca, rushed, registers, line >>

Throw == Leave /\ UNCHANGED << rca, up, rushed >>

\* sd-reset-host
ResetHost ==
  /\ At("reset", "start") /\ NextStage
  /\ inhibit' = {} /\ irpt' = {} /\ fifo' = << >> /\ host' = 1
  /\ pending' = {} /\ transfer' = << >> /\ rushed' = FALSE
  /\ UNCHANGED << word, block, left, got, rca, up, resp, card >>

\* emmc-set-clock: await-clear of both inhibit bits; then the clock is set.
SetClock ==
  /\ At("clock", "start") /\ inhibit = {} /\ NextStage
  /\ UNCHANGED << word, block, left, got, rca, up, rushed, registers, line >>

\* not-busy? does not wait for the inhibit bit it is given: it masks
\* sd-status with what RPEEK returns, and that, RPEEK being a colon word, is its
\* own return address, a multiple of 8.  Which other bits of the register the
\* address selects depends on where the word was compiled, so the wait may end
\* or go on at any poll; an error that is latched ends it.
MayGoOn == irpt \intersect Errors = {}
Noted(bit) == rushed' = (rushed \/ bit \in inhibit)

WaitData ==
  /\ At("dat", "start") /\ NextStage /\ Noted("dat")
  /\ UNCHANGED << word, block, left, got, rca, up, registers, line >>

(* send-command-p *)

WaitCommand ==
  /\ Sending("start") /\ pc' = "clear" /\ Noted("cmd")
  /\ UNCHANGED << word, plan, block, left, got, rca, up, registers, line >>

\* Slip: an interrupt that came too late is left standing.
ClearErrorsOnly ==
  /\ Sending("clear") /\ irpt' = irpt \ Errors /\ pc' = "issue"
  /\ UNCHANGED << word, plan, block, left, got, rca, up, rushed, inhibit, resp, fifo, host, line >>

\* sd-irpt w@ sd-irpt w!
ClearInterrupts ==
  /\ Sending("clear") /\ irpt' = {} /\ pc' = "issue"
  /\ UNCHANGED << word, plan, block, left, got, rca, up, rushed, inhibit, resp, fifo, host, line >>

Argument ==
  CASE Stage \in {"CMD55", "CMD9", "CMD7"} -> rca
    [] Stage = "CMD17" -> block
    [] OTHER -> 0

\* A bound: of the commands still in flight when one is sent over them, the
\* latest may yet be answered; the controller has lost the others.
Overtaken == {[c EXCEPT !.last = FALSE] : c \in {p \in pending : p.last}}

Issue ==
  /\ Sending("issue") /\ pc' = "done"
  /\ pending' = Overtaken \union
                  {[name |-> Stage, arg |-> Argument, last |-> TRUE]}
  /\ resp' = [resp EXCEPT !.own = FALSE]
  /\ inhibit' = inhibit \union {"cmd"} \union
       (IF Stage \in {"ACMD51", "CMD17"} THEN {"dat"} ELSE {})
  /\ UNCHANGED << word, plan, block, left, got, rca, up, rushed, irpt, fifo, host,
                  transfer, card >>

\* await-interrupt: the bit waited for is cleared; an error found beside it
\* throws, and stays latched.
Noticed(bit) == irpt' = irpt \ {bit} /\ UNCHANGED << inhibit, resp, fifo, host, line >>
\* Slip: an error sends the command again.
AwaitDoneAgain ==
  /\ Sending("done") /\ "done" \in irpt /\ Noticed("done")
  /\ pc' = IF irpt \intersect Errors = {} THEN "response" ELSE "start"
  /\ UNCHANGED << word, plan, block, left, got, rca, up, rushed >>

AwaitDone ==
  /\ Sending("done") /\ "done" \in irpt /\ Noticed("done")
  /\ IF irpt \intersect Errors = {}
     THEN pc' = "response" /\ UNCHANGED << word, plan, block, left, got, rca, up, rushed >>
     ELSE Throw

AwaitReady ==
  /\ At("ready", "start") /\ "ready" \in irpt /\ Noticed("ready")
  /\ IF irpt \intersect Errors = {}
     THEN NextStage /\ UNCHANGED << word, block, left, got, rca, up, rushed >>
     ELSE Throw

\* By type: an R1 with error bits throws, and so does a wrong echo of CMD8;
\* the address of CMD3 is kept.  CMD0 and CMD55 without an address have none.
Silent(c) == c.name = "CMD0" \/ (c.name = "CMD55" /\ c.arg = 0)
Unanswered == Silent([name |-> Stage, arg |-> Argument])
Checked == {"CMD55", "ACMD51", "ACMD6", "CMD16", "CMD17", "CMD8"}
Response ==
  /\ Sending("response")
  /\ IF ~ Unanswered /\ Stage \in Checked /\ ~ resp.ok THEN Throw
     ELSE /\ NextStage
          /\ rca' = IF Stage = "CMD3" THEN resp.rca ELSE rca
          /\ UNCHANGED << word, block, left, got, up, rushed >>
  /\ UNCHANGED << registers, line >>

(* sd-read-bytes *)

StartBytes ==
  /\ At("bytes", "start") /\ pc' = "bytes"
  /\ left' = IF word = "read" THEN Words ELSE 2
  /\ UNCHANGED << word, plan, block, got, rca, up, rushed, registers, line >>

\* Slip: the count is looked at after the word has been read.
ReadWordPast ==
  /\ At("bytes", "bytes") /\ fifo # << >>
  /\ got' = Append(got, fifo[1]) /\ left' = left - 1 /\ fifo' = Tail(fifo)
  /\ inhibit' = IF left = 1 THEN inhibit \ {"dat"} ELSE inhibit
  /\ UNCHANGED << word, plan, pc, block, rca, up, rushed, irpt, resp, host, line >>

ReadWord ==
  /\ At("bytes", "bytes") /\ left > 0 /\ fifo # << >>
  /\ got' = Append(got, fifo[1]) /\ left' = left - 1 /\ fifo' = Tail(fifo)
  /\ inhibit' = IF left = 1 THEN inhibit \ {"dat"} ELSE inhibit
  /\ UNCHANGED << word, plan, pc, block, rca, up, rushed, irpt, resp, host, line >>

\* Slip: the loop ends one word early.
BytesEarly ==
  /\ At("bytes", "bytes") /\ left <= 1 /\ NextStage
  /\ UNCHANGED << word, block, left, got, rca, up, rushed, registers, line >>

BytesDone ==
  /\ At("bytes", "bytes") /\ left = 0 /\ NextStage
  /\ UNCHANGED << word, block, left, got, rca, up, rushed, registers, line >>

\* set-bus-width
SetWidth ==
  /\ At("width", "start") /\ pc' = "start" /\ got' = << >>
  /\ plan' = IF got[1] = << "wide", 1 >> THEN WidthPlan \o Tail(plan) ELSE Tail(plan)
  /\ UNCHANGED << word, block, left, rca, up, rushed, registers, line >>

SetControl0 ==
  /\ At("control0", "start") /\ NextStage /\ host' = 4
  /\ UNCHANGED << word, block, left, got, rca, up, rushed, inhibit, irpt, resp, fifo, line >>

\* TOUT?: the deadline has passed and the poll before it found nothing.  The
\* loop of SD-READ-BYTES looks at the deadline even after it has read a word.
Awaiting ==
  \/ Stage \in {"reset", "clock"} /\ pc = "start"
  \/ (At("dat", "start") \/ Sending("start")) /\ MayGoOn
  \/ Sending("done") /\ "done" \notin irpt
  \/ At("ready", "start") /\ "ready" \notin irpt
PollingBytesForEver == Awaiting   \* Slip: SD-READ-BYTES has no deadline.
Polling == Awaiting \/ (At("bytes", "bytes") /\ left > 0)

TimeOut == word # "none" /\ Polling /\ Throw /\ UNCHANGED << registers, line >>

\* A CPU exception: the driver starts over, the hardware does not.
Restart == Leave /\ up' = FALSE /\ UNCHANGED << rca, rushed, registers, line >>

----------------------------------------------------------------------------
(* The card and the controller.                                            *)

Bare(c) == [card EXCEPT !.app = FALSE]
Selected(c) == c.arg = card.rca

\* What the card becomes when it takes command c; none if it ignores it.
After(c) ==
  LET to(s) == [Bare(c) EXCEPT !.state = s] IN
    CASE c.name = "CMD0" ->
           {[state |-> "idle", rca |-> 0, width |-> 1, app |-> FALSE, wide |-> card.wide]}
      [] c.name = "CMD8" /\ card.state = "idle" -> {Bare(c)}
      [] c.name = "CMD55" /\ Selected(c) -> {[card EXCEPT !.app = TRUE]}
      [] c.name = "ACMD41" /\ card.state = "idle" /\ card.app -> {to("idle"), to("ready")}
      [] c.name = "CMD2" /\ card.state = "ready" -> {to("ident")}
      [] c.name = "CMD3" /\ card.state = "ident" -> {[to("stby") EXCEPT !.rca = r] : r \in Rcas}
      [] c.name = "CMD9" /\ card.state = "stby" /\ Selected(c) -> {Bare(c)}
      [] c.name = "CMD7" /\ card.state = "stby" /\ Selected(c) -> {to("tran")}
      [] c.name = "ACMD51" /\ card.state = "tran" /\ card.app -> {to("data")}
      [] c.name = "ACMD6" /\ card.state = "tran" /\ card.app -> {[Bare(c) EXCEPT !.width = 4]}
      [] c.name = "CMD16" /\ card.state = "tran" -> {Bare(c)}
      [] c.name = "CMD17" /\ card.state = "tran" -> {to("data")}
      [] OTHER -> {}

\* A byte address, taken for a block address by a card that counts blocks.
Addressed(b) == IF HighCapacity /\ b # 0 THEN 512 * b ELSE b

Sent(c) ==
  CASE c.name = "ACMD51" -> Scr(card.wide)
    [] c.name = "CMD17" -> Data(Addressed(c.arg))
    [] OTHER -> transfer

\* The card answers; a response that arrives damaged sets an error beside, or
\* in place of, the bit the driver waits for.
Answer(c) ==
  /\ \E k \in After(c) : card' = k
  /\ transfer' = Sent(c)
  /\ \E ok \in {TRUE, c.name \notin Checked} :
       resp' = IF Silent(c) THEN resp ELSE [own |-> c.last, ok |-> ok, rca |-> card'.rca]
  /\ \E e \in {{"done"}} \union (IF Silent(c) THEN {} ELSE {{"error"}, {"done", "error"}}) :
       irpt' = irpt \union e
  /\ inhibit' = inhibit \ {"cmd"} /\ pending' = pending \ {c}
  /\ UNCHANGED << driver, fifo, host >>

\* It does not, because it cannot in its state or because it never got the
\* command: the controller's own time-out, if it was told to expect a response.
NoAnswer(c) ==
  /\ irpt' = irpt \union (IF Silent(c) THEN {"done"} ELSE {"timeout"})
  /\ inhibit' = {} /\ pending' = pending \ {c}
  /\ UNCHANGED << driver, resp, fifo, host, transfer, card >>

DataWord ==
  /\ transfer # << >> /\ Len(fifo) < Depth
  /\ fifo' = Append(fifo, transfer[1]) /\ transfer' = Tail(transfer)
  /\ irpt' = irpt \union {"ready"}
  /\ card' = IF Len(transfer) = 1 THEN [card EXCEPT !.state = "tran"] ELSE card
  /\ UNCHANGED << driver, inhibit, resp, host, pending >>

\* A block cut short, and with it what had arrived of it; the data line may or
\* may not be given free.
DataError ==
  /\ transfer # << >>
  /\ transfer' = << >> /\ fifo' = << >>
  /\ \E e \in Errors : irpt' = irpt \union {e}
  /\ inhibit' \in {inhibit, inhibit \ {"dat"}}
  /\ card' = [card EXCEPT !.state = "tran"]
  /\ UNCHANGED << driver, resp, host, pending >>

----------------------------------------------------------------------------

Driver ==
  \/ Return \/ ResetHost \/ SetClock \/ WaitData
  \/ WaitCommand \/ ClearInterrupts \/ Issue \/ AwaitDone \/ AwaitReady \/ Response
  \/ StartBytes \/ ReadWord \/ BytesDone \/ SetWidth \/ SetControl0 \/ TimeOut

Hardware == (\E c \in pending : Answer(c) \/ NoAnswer(c)) \/ DataWord \/ DataError

Next ==
  \/ Driver \/ Hardware
  \/ SdEnable \/ Restart \/ \E b \in Blocks : SdReadBlock(b)

Spec == Init /\ [][Next]_vars
FairSpec == Spec /\ WF_vars(Driver)

----------------------------------------------------------------------------
(* Properties.                                                             *)

TypeOK ==
  /\ word \in {"none", "enable", "read"}
  /\ pc \in {"start", "clear", "issue", "done", "response", "bytes"}
  /\ word = "none" => plan = << >> /\ pc = "start"
  /\ rca \in Rcas \union {0} /\ up \in BOOLEAN /\ left \in 0..Words + 2
  /\ inhibit \subseteq {"cmd", "dat"} /\ irpt \subseteq {"done", "ready"} \union Errors
  /\ host \in {1, 4} /\ \A c \in pending : c.name \in Commands

\* SD-READ-BLOCK that returns has stored the block it was asked for, all of it
\* and in order, whatever an earlier read left in the registers, the FIFO and
\* on the line when it timed out or failed (sdcard.f:467, 633).  The driver
\* never looks whether the lines are free; if they were when it sent, this holds.
ReadsAsked == word = "read" /\ plan = << >> /\ ~ rushed => got = Data(block)

\* What SEND-COMMAND-P takes for the response is the answer to the command it
\* sent, not a late one to a command it had given up (sdcard.f:254), as long
\* as the lines were free whenever it sent; that is not for it to know.
ResponseOwn == Sending("response") /\ ~ Unanswered /\ ~ rushed => resp.own

\* "( wait for command inhibit off )" (sdcard.f:255): past the wait the command
\* line is free, or an error has ended the wait.
InhibitOff == Sending("clear") => "cmd" \notin inhibit \/ ~ MayGoOn

\* After SD-ENABLE has returned, however often it failed before, the card is
\* selected, has the address the driver keeps, and uses the bus width the
\* controller uses; no later read undoes it.
EnableSound ==
  up => /\ card.rca = rca /\ rca # 0 /\ card.width = host
        /\ card.state \in {"tran", "data"}

\* Every step of the driver brings the word being executed closer to its end,
\* by a number known beforehand: no retry, no answer or interrupt of the card,
\* however late, and no width it tells makes the way longer (sdcard.f:237-480).
StepsLeft ==
  CASE pc = "start" -> Words + 3
    [] pc = "clear" -> 3 [] pc = "issue" -> 2 [] pc = "done" -> 1 [] pc = "response" -> 0
    [] pc = "bytes" -> left
StagesLeft == Len(plan) + IF \E i \in 1..Len(plan) : plan[i] = "width" THEN 3 ELSE 0
Distance == IF word = "none" THEN 0 ELSE 1 + StagesLeft * (Words + 4) + StepsLeft
ComesCloser == [][word # "none" /\ driver' # driver => Distance' \in 0..Distance - 1]_vars

\* Every word returns or throws, whatever the card does.
Returns == word # "none" ~> word = "none"
=============================================================================
