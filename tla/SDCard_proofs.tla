---------------------------- MODULE SDCard_proofs ----------------------------
(* Proofs about SDCard, for any card and any size of block and FIFO.       *)
EXTENDS SDCard, SequenceTheorems, TLAPS

Addresses == Rcas \cup {0}
Card == [state : {"idle", "ready", "ident", "stby", "tran", "data"}, rca : Addresses,
         width : {1, 4}, app : BOOLEAN, wide : BOOLEAN]
Pending == [name : Commands, arg : Rcas \cup Blocks \cup {0}, last : BOOLEAN]

Typing ==
  /\ TypeOK
  /\ block \in Blocks \cup {0} /\ rushed \in BOOLEAN
  /\ resp \in [own : BOOLEAN, ok : BOOLEAN, rca : Addresses]
  /\ card \in Card /\ pending \subseteq Pending

\* While nothing has been sent over something in flight: a command is in flight
\* only when the controller says so, and then it is the last one sent.
Alone ==
  ~ rushed =>
    pending = {} \/ ("cmd" \in inhibit /\ \E c \in Pending : c.last /\ pending = {c})

\* While a command is sent: nothing else is in flight, and "done" tells of it.
Current == [name |-> Stage, arg |-> Argument, last |-> TRUE]
Exchange ==
  ~ rushed /\ word # "none" /\ Stage \in Commands =>
    /\ pc \in {"clear", "issue", "response"} => pending = {}
    /\ pc = "issue" => "done" \notin irpt
    /\ pc = "done" => \/ pending = {Current} /\ "done" \notin irpt
                      \/ pending = {} /\ ("done" \in irpt => Unanswered \/ resp.own)
    /\ pc = "response" => Unanswered \/ resp.own

IInv == Typing /\ Alone /\ Exchange

----------------------------------------------------------------------------
(* Types.                                                                  *)

LEMMA Counts ==
  /\ 0 \in 0..Words + 2 /\ 2 \in 0..Words + 2 /\ Words \in 0..Words + 2
  /\ \A n \in 0..Words + 2 : n > 0 => n - 1 \in 0..Words + 2
BY CardAssumption

LEMMA StartTyping == Init => Typing
<1> SUFFICES ASSUME Init PROVE Typing
  OBVIOUS
<1>1. /\ resp \in [own : BOOLEAN, ok : BOOLEAN, rca : Addresses] /\ card \in Card
  BY DEF Init, Addresses, Card
<1>2. TypeOK
  <2>1. inhibit \subseteq {"cmd", "dat"} /\ irpt \subseteq {"done", "ready"} \cup Errors
    BY DEF Init
  <2>2. \A c \in pending : c.name \in Commands
    BY DEF Init
  <2>3. left \in 0..Words + 2 /\ rca \in Rcas \cup {0} /\ up \in BOOLEAN /\ host \in {1, 4}
    BY Counts DEF Init
  <2>4. word = "none" /\ pc = "start" /\ plan = << >>
    BY DEF Init
  <2>5. QED
    BY <2>1, <2>2, <2>3, <2>4 DEF TypeOK
<1>3. QED
  BY <1>1, <1>2 DEF Init, Typing

LEMMA AfterTyping ==
  ASSUME card \in Card, NEW c \in Pending, NEW k \in After(c)
  PROVE  k \in Card
<1>1. card.rca \in Addresses /\ card.wide \in BOOLEAN /\ card.app \in BOOLEAN /\ card.width \in {1, 4}
  BY DEF Card
<1>2. Bare(c) \in Card /\ [card EXCEPT !.app = TRUE] \in Card
  BY DEF Card, Bare
<1>3. [Bare(c) EXCEPT !.width = 4] \in Card
  BY <1>2 DEF Card
<1>4. \A s \in {"idle", "ready", "ident", "stby", "tran", "data"} : [Bare(c) EXCEPT !.state = s] \in Card
  BY <1>2 DEF Card
<1>5. \A x \in Card, r \in Rcas : [x EXCEPT !.rca = r] \in Card
  BY DEF Card, Addresses
<1>6. [state |-> "idle", rca |-> 0, width |-> 1, app |-> FALSE, wide |-> card.wide] \in Card
  BY <1>1 DEF Card, Addresses
<1>7. \A r \in Rcas : [[Bare(c) EXCEPT !.state = "stby"] EXCEPT !.rca = r] \in Card
  BY <1>4, <1>5
<1>8. CASE c.name \in {"CMD0", "CMD8", "CMD55"}
  BY <1>2, <1>6, <1>8 DEF After
<1>9. CASE c.name \in {"ACMD41", "CMD2", "CMD7", "ACMD51", "CMD17"}
  BY <1>4, <1>9 DEF After
<1>10. CASE c.name = "CMD3"
  BY <1>7, <1>10 DEF After
<1>11. CASE c.name \in {"CMD9", "ACMD6", "CMD16"}
  BY <1>2, <1>3, <1>11 DEF After
<1>12. QED
  BY <1>8, <1>9, <1>10, <1>11 DEF Pending, Commands

LeftOff == word' = "none" /\ plan' = << >> /\ pc' = "start" /\ block' = 0 /\ left' = 0

LEMMA LeftTyping ==
  ASSUME Typing, LeftOff, rca' = rca, up' \in BOOLEAN, rushed' = rushed, inhibit' = inhibit,
         irpt' \subseteq irpt, resp' = resp, host' = host, pending' = pending, card' = card
  PROVE  Typing'
<1>1. word' = "none" /\ plan' = << >> /\ pc' = "start" /\ block' \in Blocks \cup {0}
      /\ left' \in 0..Words + 2
  BY Counts DEF LeftOff
<1>2. TypeOK'
  BY <1>1 DEF Typing, TypeOK
<1>3. QED
  BY <1>1, <1>2 DEF Typing

LEMMA DriverTyping ==
  ASSUME Typing, Driver \/ SdEnable \/ Restart \/ \E b \in Blocks : SdReadBlock(b)
  PROVE  Typing'
<1> USE DEF Typing, TypeOK
<1>1. CASE SdEnable
  BY <1>1, CardAssumption DEF SdEnable, registers, line, Addresses
<1>2. CASE Restart
  <2>1. LeftOff
    BY <1>2 DEF Restart, Leave, LeftOff
  <2>2. UNCHANGED << rca, rushed, registers, line >> /\ up' = FALSE
    BY <1>2 DEF Restart
  <2>3. QED
    BY <2>1, <2>2, LeftTyping DEF registers, line
<1>3. CASE \E b \in Blocks : SdReadBlock(b)
  BY <1>3 DEF SdReadBlock, registers, line
<1>4. CASE Return
  BY <1>4, CardAssumption DEF Return, Leave, registers, line
<1>5. CASE ResetHost
  BY <1>5 DEF ResetHost, NextStage, At
<1>6. CASE SetClock \/ WaitData
  BY <1>6 DEF SetClock, WaitData, Noted, NextStage, At, registers, line
<1>7. CASE WaitCommand \/ ClearInterrupts
  BY <1>7 DEF WaitCommand, ClearInterrupts, Noted, Sending, registers, line
<1>8. CASE Issue
  <2>1. Argument \in Rcas \cup Blocks \cup {0}
    BY DEF Argument
  <2>2. Current \in Pending
    BY <1>8, <2>1 DEF Current, Pending, Issue, Sending
  <2>3. \A p \in Pending : [p EXCEPT !.last = FALSE] \in Pending
    BY DEF Pending
  <2>4. pending' \subseteq Pending
    BY <1>8, <2>2, <2>3 DEF Issue, Overtaken, Current
  <2>5. resp' \in [own : BOOLEAN, ok : BOOLEAN, rca : Addresses]
    BY <1>8 DEF Issue
  <2>6. inhibit' \subseteq {"cmd", "dat"}
    BY <1>8 DEF Issue
  <2>7. \A c \in pending' : c.name \in Commands
    BY <2>4 DEF Pending
  <2>8. QED
    BY <1>8, <2>4, <2>5, <2>6, <2>7 DEF Issue, Sending
<1>9. CASE AwaitDone \/ AwaitReady
  <2>1. irpt' \subseteq irpt /\ UNCHANGED << inhibit, resp, fifo, host, line >>
    BY <1>9 DEF AwaitDone, AwaitReady, Noticed
  <2>2. CASE Throw
    BY <2>1, <2>2, LeftTyping DEF Throw, Leave, LeftOff, line
  <2>3. CASE /\ pc' \in {"start", "response"} /\ word # "none"
             /\ UNCHANGED << word, block, left, got, rca, up, rushed >>
    BY <2>1, <2>3 DEF line
  <2>4. QED
    BY <1>9, <2>2, <2>3 DEF AwaitDone, AwaitReady, NextStage, Sending, At
<1>10. CASE Response
  BY <1>10, CardAssumption DEF Response, Throw, Leave, NextStage, Sending, registers, line, Addresses
<1>11. CASE StartBytes \/ ReadWord \/ BytesDone
  <2>1. /\ UNCHANGED << word, block, rca, up, rushed, irpt, resp, host, line >>
        /\ word # "none" /\ inhibit' \subseteq inhibit /\ pc' \in {pc, "bytes", "start"}
    BY <1>11 DEF StartBytes, ReadWord, BytesDone, NextStage, At, registers
  <2>2. left' \in 0..Words + 2
    BY <1>11, Counts DEF StartBytes, ReadWord, BytesDone
  <2>3. QED
    BY <2>1, <2>2 DEF line
<1>12. CASE SetWidth \/ SetControl0
  BY <1>12 DEF SetWidth, SetControl0, NextStage, At, registers, line
<1>13. CASE TimeOut
  BY <1>13, CardAssumption DEF TimeOut, Throw, Leave, registers, line
<1>14. QED
  BY <1>1, <1>2, <1>3, <1>4, <1>5, <1>6, <1>7, <1>8, <1>9, <1>10, <1>11, <1>12, <1>13 DEF Driver

LEMMA HardwareTyping ==
  ASSUME Typing, Hardware
  PROVE  Typing'
<1> USE DEF Typing, TypeOK
<1>1. ASSUME NEW c \in pending, Answer(c) PROVE Typing'
  <2>1. c \in Pending /\ c.last \in BOOLEAN
    BY DEF Pending
  <2>2. card' \in Card
    BY <1>1, <2>1, AfterTyping DEF Answer
  <2>3. card'.rca \in Addresses
    BY <2>2 DEF Card
  <2>4. resp' \in [own : BOOLEAN, ok : BOOLEAN, rca : Addresses]
    <3>1. PICK ok \in BOOLEAN :
            resp' = IF Silent(c) THEN resp ELSE [own |-> c.last, ok |-> ok, rca |-> card'.rca]
      BY <1>1, Zenon DEF Answer
    <3>2. QED
      BY <2>1, <2>3, <3>1
  <2>5. QED
    BY <1>1, <2>2, <2>4 DEF Answer, driver, Errors
<1>2. ASSUME NEW c \in pending, NoAnswer(c) PROVE Typing'
  BY <1>2 DEF NoAnswer, driver, Errors
<1>3. CASE DataWord
  <2>1. card' \in Card
    BY <1>3 DEF DataWord, Card
  <2>2. QED
    BY <1>3, <2>1 DEF DataWord, driver
<1>4. CASE DataError
  <2>1. card' \in Card
    BY <1>4 DEF DataError, Card
  <2>2. QED
    BY <1>4, <2>1 DEF DataError, driver, Errors
<1>5. QED
  BY <1>1, <1>2, <1>3, <1>4 DEF Hardware

----------------------------------------------------------------------------
(* Commands and responses.                                                 *)

LEMMA SameCommand ==
  ASSUME UNCHANGED << plan, rca, block >>
  PROVE  /\ Stage' = Stage /\ Argument' = Argument /\ Current' = Current
         /\ Unanswered' <=> Unanswered
<1>1. Stage' = Stage
  BY DEF Stage
<1>2. Argument' = Argument
  BY <1>1 DEF Argument
<1>3. QED
  BY <1>1, <1>2 DEF Current, Unanswered, Silent

\* Only four steps of the driver matter to Exchange.
LEMMA DriverKeeps ==
  ASSUME IInv, Typing',
         \/ SdEnable \/ Restart \/ \E b \in Blocks : SdReadBlock(b)
         \/ Return \/ ResetHost \/ SetClock \/ WaitData \/ AwaitReady \/ Response
         \/ StartBytes \/ ReadWord \/ BytesDone \/ SetWidth \/ SetControl0 \/ TimeOut
  PROVE  Alone' /\ Exchange'
<1>1. word' = "none" \/ pc' \in {"start", "bytes"}
  BY DEF SdEnable, Restart, SdReadBlock, Return, ResetHost, SetClock, WaitData, AwaitReady,
         Response, StartBytes, ReadWord, BytesDone, SetWidth, SetControl0, TimeOut,
         Throw, Leave, NextStage, At, Sending
<1>2. Exchange'
  BY <1>1 DEF Exchange
<1>3. \/ pending' = {}
      \/ /\ pending' = pending
         /\ (rushed => rushed')
         /\ ("cmd" \in inhibit => "cmd" \in inhibit')
  BY DEF SdEnable, Restart, SdReadBlock, Return, ResetHost, SetClock, WaitData, AwaitReady,
         Response, StartBytes, ReadWord, BytesDone, SetWidth, SetControl0, TimeOut,
         Throw, Leave, Noticed, Noted, registers, line, Typing
<1>4. Alone'
  BY <1>3 DEF IInv, Alone
<1>5. QED
  BY <1>2, <1>4

LEMMA SendingKeeps ==
  ASSUME IInv, Typing', WaitCommand \/ ClearInterrupts \/ Issue \/ AwaitDone
  PROVE  Alone' /\ Exchange'
<1>1. CASE WaitCommand
  <2>1. /\ UNCHANGED << word, plan, block, rca, inhibit, irpt, resp, pending >>
        /\ pc' = "clear" /\ rushed' = (rushed \/ "cmd" \in inhibit)
    BY <1>1 DEF WaitCommand, Noted, registers, line
  <2>2. ~ rushed' => ~ rushed /\ "cmd" \notin inhibit
    BY <2>1 DEF IInv, Typing
  <2>3. ~ rushed' => pending' = {}
    BY <2>1, <2>2 DEF IInv, Alone
  <2>4. QED
    BY <2>1, <2>3 DEF Alone, Exchange
<1>2. CASE ClearInterrupts
  <2>1. /\ UNCHANGED << word, plan, block, rca, rushed, inhibit, resp, pending >>
        /\ pc = "clear" /\ pc' = "issue" /\ irpt' = {} /\ word # "none" /\ Stage \in Commands
    BY <1>2 DEF ClearInterrupts, Sending, line
  <2>2. ~ rushed' => pending' = {}
    BY <2>1 DEF IInv, Exchange
  <2>3. QED
    BY <2>1, <2>2 DEF Alone, Exchange
<1>3. CASE Issue
  <2>1. /\ UNCHANGED << word, plan, block, rca, rushed, irpt >>
        /\ pc = "issue" /\ pc' = "done" /\ word # "none" /\ Stage \in Commands
        /\ pending' = Overtaken \cup {Current} /\ "cmd" \in inhibit'
    BY <1>3 DEF Issue, Sending, Current
  <2>2. ~ rushed => pending = {} /\ "done" \notin irpt
    BY <2>1 DEF IInv, Exchange
  <2>3. ~ rushed => pending' = {Current}
    BY <2>1, <2>2 DEF Overtaken
  <2>4. ~ rushed => Current \in Pending /\ Current.last
    BY <2>3 DEF Typing, Current
  <2>5. Current' = Current
    BY <2>1, SameCommand
  <2>6. QED
    BY <2>1, <2>2, <2>3, <2>4, <2>5 DEF Alone, Exchange
<1>4. CASE AwaitDone
  <2>1. /\ pc = "done" /\ "done" \in irpt /\ word # "none" /\ Stage \in Commands
        /\ UNCHANGED << rushed, inhibit, resp, pending >>
        /\ (word' = "none" \/ (pc' = "response" /\ UNCHANGED << word, plan, block, rca >>))
    BY <1>4 DEF AwaitDone, Noticed, Throw, Leave, Sending, line
  <2>2. ~ rushed => pending = {} /\ (Unanswered \/ resp.own)
    BY <2>1 DEF IInv, Exchange
  <2>3. word' # "none" => (Unanswered' <=> Unanswered)
    BY <2>1, SameCommand
  <2>4. QED
    BY <2>1, <2>2, <2>3 DEF Alone, Exchange
<1>5. QED
  BY <1>1, <1>2, <1>3, <1>4

LEMMA HardwareKeeps ==
  ASSUME IInv, Typing', Hardware
  PROVE  Alone' /\ Exchange'
<1>1. UNCHANGED driver
  BY DEF Hardware, Answer, NoAnswer, DataWord, DataError
<1>2. /\ UNCHANGED << word, plan, pc, block, rca, rushed >> /\ Stage' = Stage /\ Current' = Current
      /\ Unanswered' <=> Unanswered
  BY <1>1, SameCommand DEF driver
<1>3. CASE DataWord \/ DataError
  <2>1. /\ UNCHANGED << resp, pending >> /\ ("cmd" \in inhibit => "cmd" \in inhibit')
        /\ ("done" \in irpt' <=> "done" \in irpt)
    BY <1>3 DEF DataWord, DataError, Errors
  <2>2. QED
    BY <1>2, <2>1 DEF IInv, Alone, Exchange
<1>4. ASSUME NEW c \in pending, Answer(c) \/ NoAnswer(c) PROVE Alone' /\ Exchange'
  <2>1. pending' = pending \ {c} /\ ("done" \in irpt' => "done" \in irpt \/ Silent(c) \/ resp'.own = c.last)
    <3>1. CASE Answer(c)
      <4>1. PICK ok \in BOOLEAN :
              resp' = IF Silent(c) THEN resp ELSE [own |-> c.last, ok |-> ok, rca |-> card'.rca]
        BY <3>1, Zenon DEF Answer
      <4>2. ~ Silent(c) => resp'.own = c.last
        BY <4>1
      <4>3. QED
        BY <3>1, <4>2 DEF Answer
    <3>2. CASE NoAnswer(c)
      BY <3>2 DEF NoAnswer
    <3>3. QED
      BY <1>4, <3>1, <3>2
  <2>2. ~ rushed => pending' = {}
    BY <2>1 DEF IInv, Alone
  <2>3. Alone'
    BY <1>2, <2>2 DEF Alone
  <2>4. ASSUME ~ rushed, word # "none", Stage \in Commands
        PROVE  /\ pc \notin {"clear", "issue", "response"}
               /\ (pc = "done" => ("done" \in irpt' => (Unanswered \/ resp'.own)))
    <3>1. pc \notin {"clear", "issue", "response"}
      BY <2>4 DEF IInv, Exchange
    <3>2. ASSUME pc = "done", "done" \in irpt' PROVE Unanswered \/ resp'.own
      <4>1. pending = {Current} /\ "done" \notin irpt
        BY <2>4, <3>2 DEF IInv, Exchange
      <4>2. c = Current
        BY <4>1
      <4>3. c.last = TRUE /\ (Silent(c) <=> Unanswered)
        BY <4>2 DEF Current, Silent, Unanswered
      <4>4. QED
        BY <2>1, <3>2, <4>1, <4>3
    <3>3. QED
      BY <3>1, <3>2
  <2>5. Exchange'
    BY <1>2, <2>2, <2>4 DEF Exchange
  <2>6. QED
    BY <2>3, <2>5
<1>5. QED
  BY <1>3, <1>4 DEF Hardware

LEMMA Starts == Init => IInv
<1> SUFFICES ASSUME Init PROVE IInv
  OBVIOUS
<1>1. Typing
  BY StartTyping
<1>2. Alone /\ Exchange
  BY DEF Init, Alone, Exchange
<1>3. QED
  BY <1>1, <1>2 DEF IInv

LEMMA Step == IInv /\ [Next]_vars => IInv'
<1> SUFFICES ASSUME IInv, [Next]_vars PROVE IInv'
  OBVIOUS
<1>1. CASE Driver \/ SdEnable \/ Restart \/ \E b \in Blocks : SdReadBlock(b)
  <2>1. Typing'
    BY <1>1, DriverTyping DEF IInv
  <2>2. Alone' /\ Exchange'
    BY <1>1, <2>1, DriverKeeps, SendingKeeps DEF Driver
  <2>3. QED
    BY <2>1, <2>2 DEF IInv
<1>2. CASE Hardware
  <2>1. Typing'
    BY <1>2, HardwareTyping DEF IInv
  <2>2. QED
    BY <1>2, <2>1, HardwareKeeps DEF IInv
<1>3. CASE UNCHANGED vars
  <2>1. UNCHANGED << driver, registers, line >>
    BY <1>3 DEF vars
  <2>2. Typing' /\ Alone'
    BY <2>1 DEF driver, registers, line, IInv, Typing, TypeOK, Alone
  <2>3. Exchange'
    BY <2>1, SameCommand DEF driver, registers, line, IInv, Exchange
  <2>4. QED
    BY <2>2, <2>3 DEF IInv
<1>4. QED
  BY <1>1, <1>2, <1>3 DEF Next

\* The driver's variables, the registers and the card keep their types,
\* whatever is late, lost or interrupted (sdcard.f:254-696).
THEOREM Typed == Spec => []TypeOK
<1>1. IInv => TypeOK
  BY DEF IInv, Typing
<1>2. QED
  BY <1>1, Starts, Step, PTL DEF Spec

\* What SEND-COMMAND-P takes for the response is the answer to the command it
\* sent, for any card, unless since the last reset something has been sent while
\* an inhibit bit was set, which the driver does not test (sdcard.f:237, 254).
THEOREM Answered == Spec => []ResponseOwn
<1>1. IInv => ResponseOwn
  BY DEF IInv, Exchange, ResponseOwn, Sending
<1>2. QED
  BY <1>1, Starts, Step, PTL DEF Spec


----------------------------------------------------------------------------
(* Data.                                                                   *)

DataCommands == {"ACMD51", "CMD17"}
ReadStages == {"dat", "CMD17", "ready", "bytes"}
EnableStages == (Commands \ {"CMD17"}) \cup
  {"reset", "clock", "dat", "ready", "bytes", "width", "control0"}
Numbers == Rcas \cup Blocks \cup {0}
Payload == ({Addressed(n) : n \in Numbers} \cup {"wide", "narrow", "scr"}) \X Nat

\* What may come behind what in a plan.
EnableFollows ==
  {<< "reset", "clock" >>, << "clock", "CMD0" >>, << "CMD0", "CMD8" >>, << "CMD8", "CMD55" >>,
   << "CMD55", "ACMD41" >>, << "ACMD41", "CMD2" >>, << "CMD2", "CMD3" >>, << "CMD3", "CMD9" >>,
   << "CMD9", "clock" >>, << "clock", "CMD7" >>, << "CMD7", "dat" >>, << "dat", "CMD55" >>,
   << "CMD55", "ACMD51" >>, << "ACMD51", "ready" >>, << "ready", "bytes" >>,
   << "bytes", "width" >>, << "width", "CMD16" >>, << "CMD55", "ACMD6" >>,
   << "ACMD6", "control0" >>, << "control0", "CMD16" >>}
ReadFollows == {<< "dat", "CMD17" >>, << "CMD17", "ready" >>, << "ready", "bytes" >>}
Ordered(p, stages, follows, last) ==
  /\ p \in Seq(stages)
  /\ \A i \in 1..Len(p) : i + 1 \in 1..Len(p) => << p[i], p[i + 1] >> \in follows
  /\ p # << >> => p[Len(p)] = last

Routed ==
  /\ word = "enable" => Ordered(plan, EnableStages, EnableFollows, "CMD16")
  /\ word = "read" => Ordered(plan, ReadStages, ReadFollows, "bytes")
  /\ pc = "bytes" => Stage = "bytes"
  /\ word = "read" /\ pc # "bytes" /\ plan # << >> => got = << >>
Carried == got \in Seq(Payload) /\ fifo \in Seq(Payload) /\ transfer \in Seq(Payload)

\* Nothing is on its way, and nothing will be.
Still == fifo = << >> /\ transfer = << >>
Calm == Still /\ \A c \in pending : c.name \notin DataCommands

\* The inhibit bit tells of data on their way, while nothing has been sent over
\* them.
LineTold ==
  /\ "dat" \notin inhibit => Still
  /\ pending # {} => Still
  /\ \A c \in pending : c.name \in DataCommands => "dat" \in inhibit

Quiet ==
  \/ Stage \in {"clock", "width", "control0"} \cup (Commands \ DataCommands)
  \/ Stage \in DataCommands /\ pc \in {"start", "clear", "issue"}
  \/ word = "enable" /\ Stage \in {"dat", "none"}
Coming ==
  \/ Stage \in DataCommands /\ pc \in {"done", "response"}
  \/ Stage \in {"ready", "bytes"}

\* What has been read, what is in the FIFO and what the card has still to send
\* are the block, in this order.
Whole(b, g, f, t) ==
  /\ Len(g) + Len(f) + Len(t) = Words
  /\ \A i \in 1..Len(g) : g[i] = << b, i >>
  /\ \A i \in 1..Len(f) : f[i] = << b, Len(g) + i >>
  /\ \A i \in 1..Len(t) : t[i] = << b, Len(g) + Len(f) + i >>

Wanted == Addressed(block)   \* the block the card takes it for
Asked == IF word = "read" THEN Words ELSE 2
Rest == IF pc = "bytes" THEN left ELSE Asked
Arriving ==
  /\ ~ (Stage \in DataCommands /\ pc = "done") => pending = {}
  /\ Len(fifo) + Len(transfer) <= Rest
  /\ word = "read" => /\ Len(got) = Words - Rest
                      /\ Whole(Wanted, got, fifo, transfer) \/ (Still /\ Rest > 0)

Expected ==
  ~ rushed =>
    /\ LineTold
    /\ word # "none" /\ Quiet => Calm
    /\ word # "none" /\ Coming => Arriving
    /\ word = "read" /\ plan = << >> => got = Data(Wanted)

DataInv == Routed /\ Carried /\ Expected

----------------------------------------------------------------------------
(* Plans.                                                                  *)

LEMMA EnablePlanOrdered == Ordered(EnablePlan, EnableStages, EnableFollows, "CMD16")
<1> DEFINE p == EnablePlan
<1>1. p \in Seq(EnableStages) /\ Len(p) = 18
  BY DEF EnablePlan, EnableStages, Commands
<1>2. \A i \in 1..17 : << p[i], p[i + 1] >> \in EnableFollows
  <2>1. /\ p[1] = "reset" /\ p[2] = "clock" /\ p[3] = "CMD0" /\ p[4] = "CMD8" /\ p[5] = "CMD55"
        /\ p[6] = "ACMD41" /\ p[7] = "CMD2" /\ p[8] = "CMD3" /\ p[9] = "CMD9"
    BY DEF EnablePlan
  <2>2. /\ p[10] = "clock" /\ p[11] = "CMD7" /\ p[12] = "dat" /\ p[13] = "CMD55"
        /\ p[14] = "ACMD51" /\ p[15] = "ready" /\ p[16] = "bytes" /\ p[17] = "width"
        /\ p[18] = "CMD16"
    BY DEF EnablePlan
  <2> HIDE DEF p
  <2>3. \A i \in 1..9 : << p[i], p[i + 1] >> \in EnableFollows
    BY <2>1, <2>2 DEF EnableFollows
  <2>4. \A i \in 10..17 : << p[i], p[i + 1] >> \in EnableFollows
    BY <2>2 DEF EnableFollows
  <2>5. QED
    BY <2>3, <2>4
<1>3. p[18] = "CMD16"
  BY DEF EnablePlan
<1> HIDE DEF p
<1>4. Ordered(p, EnableStages, EnableFollows, "CMD16")
  BY <1>1, <1>2, <1>3 DEF Ordered
<1>5. QED
  BY <1>4 DEF p

LEMMA ReadPlanOrdered == Ordered(ReadPlan, ReadStages, ReadFollows, "bytes")
<1>1. ReadPlan \in Seq(ReadStages) /\ Len(ReadPlan) = 4
  BY DEF ReadPlan, ReadStages
<1>2. ReadPlan[1] = "dat" /\ ReadPlan[2] = "CMD17" /\ ReadPlan[3] = "ready" /\ ReadPlan[4] = "bytes"
  BY DEF ReadPlan
<1>3. QED
  BY <1>1, <1>2 DEF Ordered, ReadFollows

LEMMA TailOrdered ==
  ASSUME NEW p, NEW stages, NEW follows, NEW last, Ordered(p, stages, follows, last), p # << >>
  PROVE  /\ Ordered(Tail(p), stages, follows, last)
         /\ p[1] \in stages
         /\ Tail(p) # << >> => << p[1], Tail(p)[1] >> \in follows
         /\ Tail(p) = << >> => p[1] = last
<1> DEFINE t == Tail(p)
<1>1. p \in Seq(stages) /\ Len(p) \in Nat \ {0}
  BY DEF Ordered
<1>2. /\ t \in Seq(stages) /\ Len(t) = Len(p) - 1
      /\ \A i \in 1..Len(t) : t[i] = p[i + 1]
  BY <1>1
<1> HIDE DEF t
<1>3. ASSUME NEW i \in 1..Len(t), i + 1 \in 1..Len(t)
      PROVE  << t[i], t[i + 1] >> \in follows
  <2>1. i + 1 \in 1..Len(p) /\ (i + 1) + 1 \in 1..Len(p)
    BY <1>1, <1>2, <1>3
  <2>2. << p[i + 1], p[(i + 1) + 1] >> \in follows
    BY <2>1 DEF Ordered
  <2>3. QED
    BY <1>2, <1>3, <2>2
<1>4. ASSUME t # << >>
      PROVE  t[Len(t)] = last /\ << p[1], t[1] >> \in follows
  <2>1. Len(p) > 1
    BY <1>1, <1>2, <1>4
  <2>2. t[Len(t)] = p[Len(p)] /\ t[1] = p[1 + 1]
    BY <1>1, <1>2, <2>1
  <2>3. 1 \in 1..Len(p) /\ 1 + 1 \in 1..Len(p)
    BY <1>1, <2>1
  <2>4. QED
    BY <2>2, <2>3, <1>1 DEF Ordered
<1>5. t = << >> => p[1] = last
  <2>1. t = << >> => Len(t) = 0
    OBVIOUS
  <2>2. Len(t) = 0 => Len(p) = 1
    BY <1>1, <1>2
  <2>3. QED
    BY <2>1, <2>2, <1>1 DEF Ordered
<1>6. QED
  BY <1>1, <1>2, <1>3, <1>4, <1>5 DEF Ordered, t

LEMMA WidthOrdered ==
  ASSUME NEW p, Ordered(p, EnableStages, EnableFollows, "CMD16"), p # << >>, p[1] = "width"
  PROVE  /\ Ordered(WidthPlan \o Tail(p), EnableStages, EnableFollows, "CMD16")
         /\ (WidthPlan \o Tail(p))[1] = "CMD55" /\ WidthPlan \o Tail(p) # << >>
         /\ Tail(p) # << >> /\ Tail(p)[1] = "CMD16"
<1> DEFINE t == Tail(p)
           w == WidthPlan
<1>1. /\ Ordered(t, EnableStages, EnableFollows, "CMD16")
      /\ t # << >> /\ << "width", t[1] >> \in EnableFollows
  <2>1. /\ Ordered(t, EnableStages, EnableFollows, "CMD16")
        /\ t # << >> => << p[1], t[1] >> \in EnableFollows
        /\ t = << >> => p[1] = "CMD16"
    BY TailOrdered
  <2>2. t # << >>
    BY <2>1
  <2>3. QED
    BY <2>1, <2>2
<1>2. t[1] = "CMD16"
  BY <1>1 DEF EnableFollows
<1>3. /\ t \in Seq(EnableStages) /\ Len(t) \in Nat \ {0} /\ t[Len(t)] = "CMD16"
      /\ \A i \in 1..Len(t) : i + 1 \in 1..Len(t) => << t[i], t[i + 1] >> \in EnableFollows
  BY <1>1 DEF Ordered
<1>4. w \in Seq(EnableStages) /\ Len(w) = 3 /\ w[1] = "CMD55" /\ w[2] = "ACMD6" /\ w[3] = "control0"
  BY DEF WidthPlan, EnableStages, Commands
<1> HIDE DEF t, w
<1> DEFINE q == w \o t
<1>5. /\ q \in Seq(EnableStages) /\ Len(q) = 3 + Len(t)
      /\ \A i \in 1..3 : q[i] = w[i]
      /\ \A i \in 1..Len(t) : q[3 + i] = t[i]
  <2>1. /\ q \in Seq(EnableStages) /\ Len(q) = Len(w) + Len(t)
        /\ \A i \in 1..Len(w) + Len(t) : q[i] = IF i <= Len(w) THEN w[i] ELSE t[i - Len(w)]
    BY <1>3, <1>4, ConcatProperties
  <2> HIDE DEF q
  <2>2. ASSUME NEW i \in 1..3 PROVE q[i] = w[i]
    BY <1>3, <1>4, <2>1
  <2>3. ASSUME NEW i \in 1..Len(t) PROVE q[3 + i] = t[i]
    <3>1. 3 + i \in 1..Len(w) + Len(t) /\ ~ (3 + i <= Len(w)) /\ (3 + i) - Len(w) = i
      BY <1>3, <1>4
    <3>2. q[3 + i] = t[(3 + i) - Len(w)]
      BY <2>1, <3>1
    <3>3. QED
      BY <3>1, <3>2
  <2>4. QED
    BY <1>4, <2>1, <2>2, <2>3
<1> HIDE DEF q
<1>6. ASSUME NEW i \in 1..Len(q), i + 1 \in 1..Len(q)
      PROVE  << q[i], q[i + 1] >> \in EnableFollows
  <2>1. CASE i < 3
    BY <1>4, <1>5, <2>1 DEF EnableFollows
  <2>2. CASE i = 3
    <3>1. q[3] = "control0" /\ q[3 + 1] = "CMD16"
      BY <1>2, <1>3, <1>4, <1>5
    <3>2. QED
      BY <2>2, <3>1 DEF EnableFollows
  <2>3. CASE i > 3
    <3>1. PICK j \in 1..Len(t) : i = 3 + j /\ j + 1 \in 1..Len(t)
      BY <1>3, <1>5, <1>6, <2>3
    <3>2. q[i] = t[j] /\ q[i + 1] = t[j + 1]
      <4>1. q[3 + j] = t[j] /\ q[3 + (j + 1)] = t[j + 1] /\ 3 + (j + 1) = i + 1
        BY <1>5, <3>1
      <4>2. QED
        BY <3>1, <4>1
    <3>3. QED
      BY <1>3, <3>1, <3>2
  <2>4. QED
    BY <1>3, <1>5, <2>1, <2>2, <2>3
<1>7. q[Len(q)] = "CMD16" /\ q[1] = "CMD55" /\ q # << >>
  BY <1>3, <1>4, <1>5
<1>8. Ordered(q, EnableStages, EnableFollows, "CMD16")
  BY <1>5, <1>6, <1>7 DEF Ordered
<1>9. QED
  BY <1>1, <1>2, <1>7, <1>8 DEF q, t, w

----------------------------------------------------------------------------
(* Words on their way.                                                     *)

LEMMA Heads ==
  ASSUME NEW S, NEW s \in Seq(S), s # << >>
  PROVE  /\ Len(s) \in Nat \ {0} /\ s[1] \in S
         /\ Tail(s) \in Seq(S) /\ Len(Tail(s)) = Len(s) - 1
         /\ \A i \in 1..Len(Tail(s)) : Tail(s)[i] = s[i + 1]
<1>1. Len(s) \in Nat \ {0}
  OBVIOUS
<1>2. QED
  BY <1>1

LEMMA Appended ==
  ASSUME NEW S, NEW s \in Seq(S), NEW x \in S
  PROVE  /\ Append(s, x) \in Seq(S) /\ Len(Append(s, x)) = Len(s) + 1
         /\ \A i \in 1..Len(s) : Append(s, x)[i] = s[i]
         /\ Append(s, x)[Len(s) + 1] = x
  BY AppendProperties

\* The card sends a word to the FIFO.
LEMMA WholeIn ==
  ASSUME NEW b, NEW g \in Seq(Payload), NEW f \in Seq(Payload), NEW t \in Seq(Payload),
         t # << >>, Whole(b, g, f, t)
  PROVE  Whole(b, g, Append(f, t[1]), Tail(t))
<1> DEFINE x == t[1]
           u == Append(f, x)
           r == Tail(t)
<1>1. /\ Len(t) \in Nat \ {0} /\ x \in Payload
      /\ Len(r) = Len(t) - 1 /\ \A i \in 1..Len(r) : r[i] = t[i + 1]
  BY Heads
<1>2. /\ Len(u) = Len(f) + 1 /\ \A i \in 1..Len(f) : u[i] = f[i]
      /\ u[Len(f) + 1] = x
  BY <1>1, Appended
<1>3. Len(g) \in Nat /\ Len(f) \in Nat
  OBVIOUS
<1>4. x = << b, Len(g) + Len(f) + 1 >>
  BY <1>1 DEF Whole
<1> HIDE DEF x, u, r
<1>5. Len(g) + Len(u) + Len(r) = Words
  BY <1>1, <1>2, <1>3 DEF Whole
<1>6. ASSUME NEW i \in 1..Len(u)
      PROVE  u[i] = << b, Len(g) + i >>
  <2>1. CASE i = Len(f) + 1
    <3>1. Len(g) + i = Len(g) + Len(f) + 1
      BY <2>1, <1>3
    <3>2. QED
      BY <2>1, <3>1, <1>2, <1>4
  <2>2. CASE i # Len(f) + 1
    <3>1. i \in 1..Len(f)
      BY <2>2, <1>2, <1>3
    <3>2. QED
      BY <3>1, <1>2 DEF Whole
  <2>3. QED
    BY <2>1, <2>2
<1>7. ASSUME NEW i \in 1..Len(r)
      PROVE  r[i] = << b, Len(g) + Len(u) + i >>
  <2>1. i + 1 \in 1..Len(t) /\ Len(g) + Len(u) + i = Len(g) + Len(f) + (i + 1)
    BY <1>1, <1>2, <1>3
  <2>2. QED
    BY <1>1, <2>1 DEF Whole
<1>8. Whole(b, g, u, r)
  BY <1>5, <1>6, <1>7 DEF Whole
<1>9. QED
  BY <1>8 DEF u, r, x

\* The driver takes a word from the FIFO.
LEMMA WholeOut ==
  ASSUME NEW b, NEW g \in Seq(Payload), NEW f \in Seq(Payload), NEW t \in Seq(Payload),
         f # << >>, Whole(b, g, f, t)
  PROVE  Whole(b, Append(g, f[1]), Tail(f), t)
<1> DEFINE x == f[1]
           h == Append(g, x)
           r == Tail(f)
<1>1. /\ Len(f) \in Nat \ {0} /\ x \in Payload
      /\ Len(r) = Len(f) - 1 /\ \A i \in 1..Len(r) : r[i] = f[i + 1]
  BY Heads
<1>2. /\ Len(h) = Len(g) + 1 /\ \A i \in 1..Len(g) : h[i] = g[i]
      /\ h[Len(g) + 1] = x
  BY <1>1, Appended
<1>3. Len(g) \in Nat /\ Len(t) \in Nat
  OBVIOUS
<1>4. x = << b, Len(g) + 1 >>
  BY <1>1 DEF Whole
<1> HIDE DEF x, h, r
<1>5. Len(h) + Len(r) + Len(t) = Words
  BY <1>1, <1>2, <1>3 DEF Whole
<1>6. ASSUME NEW i \in 1..Len(h)
      PROVE  h[i] = << b, i >>
  <2>1. CASE i = Len(g) + 1
    BY <2>1, <1>2, <1>4
  <2>2. CASE i # Len(g) + 1
    <3>1. i \in 1..Len(g)
      BY <2>2, <1>2, <1>3
    <3>2. QED
      BY <3>1, <1>2 DEF Whole
  <2>3. QED
    BY <2>1, <2>2
<1>7. ASSUME NEW i \in 1..Len(r)
      PROVE  r[i] = << b, Len(h) + i >>
  <2>1. i + 1 \in 1..Len(f) /\ Len(h) + i = Len(g) + (i + 1)
    BY <1>1, <1>2, <1>3
  <2>2. QED
    BY <1>1, <2>1 DEF Whole
<1>8. ASSUME NEW i \in 1..Len(t)
      PROVE  t[i] = << b, Len(h) + Len(r) + i >>
  <2>1. Len(h) + Len(r) + i = Len(g) + Len(f) + i
    BY <1>1, <1>2, <1>3
  <2>2. QED
    BY <2>1 DEF Whole
<1>9. Whole(b, h, r, t)
  BY <1>5, <1>6, <1>7, <1>8 DEF Whole
<1>10. QED
  BY <1>9 DEF h, r, x

\* A block the card begins to send, and one the driver has read.
LEMMA Sizes == Words \in Nat \ {0}
BY CardAssumption

LEMMA DataWords ==
  ASSUME NEW n \in Numbers, NEW b, b = Addressed(n)
  PROVE  /\ Data(b) \in Seq(Payload) /\ Len(Data(b)) = Words
         /\ Whole(b, << >>, << >>, Data(b))
<1>1. \A i \in 1..Words : << b, i >> \in Payload
  BY Sizes DEF Payload
<1>2. Data(b) \in Seq(Payload) /\ Len(Data(b)) = Words
  BY <1>1, Sizes DEF Data
<1>3. \A i \in 1..Words : Data(b)[i] = << b, i >>
  BY DEF Data
<1>4. Len(<< >>) = 0
  OBVIOUS
<1> DEFINE d == Data(b)
<1>5. Len(d) = Words /\ \A i \in 1..Words : d[i] = << b, i >>
  BY <1>2, <1>3
<1> HIDE DEF d
<1>6. Whole(b, << >>, << >>, d)
  BY <1>4, <1>5, Sizes DEF Whole
<1>7. QED
  BY <1>2, <1>6 DEF d

LEMMA WholeRead ==
  ASSUME NEW b, NEW g \in Seq(Payload), NEW f, NEW t, Whole(b, g, f, t), Len(g) = Words
  PROVE  g = Data(b)
<1>1. DOMAIN g = 1..Words /\ \A i \in 1..Words : g[i] = << b, i >>
  BY DEF Whole
<1>2. g = [i \in DOMAIN g |-> g[i]]
  OBVIOUS
<1>3. QED
  BY <1>1, <1>2, Zenon DEF Data

LEMMA ScrWords ==
  ASSUME NEW w
  PROVE  Scr(w) \in Seq(Payload) /\ Len(Scr(w)) = 2
BY DEF Scr, Payload

----------------------------------------------------------------------------
(* The way through the plan.                                               *)

LEMMA EmptyPlan == plan = << >> => Stage = "none"
BY DEF Stage

\* Where a word is by the stage it is in.
LEMMA Places ==
  ASSUME Routed, word \in {"enable", "read"}
  PROVE  /\ Stage # "none" => plan # << >> /\ Stage = plan[1]
         /\ Stage \in EnableStages \cup ReadStages \cup {"none"}
         /\ word = "enable" => Stage \in EnableStages \cup {"none"}
         /\ word = "read" => Stage \in ReadStages \cup {"none"}
<1>1. plan # << >> => Stage = plan[1]
  BY DEF Stage
<1>2. word = "enable" /\ plan # << >> => plan[1] \in EnableStages
  BY TailOrdered DEF Routed
<1>3. word = "read" /\ plan # << >> => plan[1] \in ReadStages
  BY TailOrdered DEF Routed
<1>4. QED
  BY <1>1, <1>2, <1>3, EmptyPlan

LEMMA Onward ==
  ASSUME Routed, word \in {"enable", "read"}, plan # << >>, NextStage, word' = word
  PROVE  /\ word = "enable" => Ordered(plan', EnableStages, EnableFollows, "CMD16")
         /\ word = "read" => Ordered(plan', ReadStages, ReadFollows, "bytes")
         /\ Stage \in DataCommands => Stage' = "ready"
         /\ Stage = "ready" => Stage' = "bytes"
         /\ Stage = "bytes" => Stage' = IF word = "read" THEN "none" ELSE "width"
         /\ word = "enable" /\ Stage = "reset" => Stage' = "clock"
         /\ word = "read" /\ Stage = "dat" => Stage' = "CMD17"
         /\ word = "enable" /\ Stage \notin DataCommands \cup {"ready"} =>
              Stage' \in {"clock", "dat", "none", "width", "control0"} \cup (Commands \ {"CMD17"})
         /\ word = "read" /\ plan' = << >> => Stage = "bytes"
         /\ Stage' = "none" <=> plan' = << >>
<1>1. Stage = plan[1] /\ pc' = "start"
  BY DEF Stage, NextStage
<1>2. Stage' = IF plan' = << >> THEN "none" ELSE plan'[1]
  BY DEF Stage
<1>3. ASSUME word = "enable"
      PROVE  /\ Ordered(plan', EnableStages, EnableFollows, "CMD16")
             /\ plan' # << >> => << Stage, plan'[1] >> \in EnableFollows /\ plan'[1] \in EnableStages
             /\ plan' = << >> => Stage = "CMD16"
  <2>1. Ordered(plan, EnableStages, EnableFollows, "CMD16") /\ plan' = Tail(plan)
    BY <1>3 DEF Routed, NextStage
  <2>2. /\ Ordered(plan', EnableStages, EnableFollows, "CMD16")
        /\ plan' # << >> => << plan[1], plan'[1] >> \in EnableFollows
        /\ plan' = << >> => plan[1] = "CMD16"
    <3>1. /\ Ordered(Tail(plan), EnableStages, EnableFollows, "CMD16")
          /\ Tail(plan) # << >> => << plan[1], Tail(plan)[1] >> \in EnableFollows
          /\ Tail(plan) = << >> => plan[1] = "CMD16"
      BY <2>1, TailOrdered
    <3>2. QED
      BY <2>1, <3>1
  <2>3. plan' # << >> => plan'[1] \in EnableStages
    BY <2>2, TailOrdered
  <2>4. QED
    BY <1>1, <2>2, <2>3
<1>4. ASSUME word = "read"
      PROVE  /\ Ordered(plan', ReadStages, ReadFollows, "bytes")
             /\ plan' # << >> => << Stage, plan'[1] >> \in ReadFollows
             /\ plan' = << >> => Stage = "bytes"
  <2>1. Ordered(plan, ReadStages, ReadFollows, "bytes") /\ plan' = Tail(plan)
    BY <1>4 DEF Routed, NextStage
  <2>2. /\ Ordered(Tail(plan), ReadStages, ReadFollows, "bytes")
        /\ Tail(plan) # << >> => << plan[1], Tail(plan)[1] >> \in ReadFollows
        /\ Tail(plan) = << >> => plan[1] = "bytes"
    BY <2>1, TailOrdered
  <2>3. QED
    BY <1>1, <2>1, <2>2
<1>5. CASE word = "enable"
  <2>1. CASE plan' = << >>
    BY <1>2, <1>3, <1>5, <2>1 DEF DataCommands
  <2>2. CASE plan' # << >>
    <3>1. << Stage, Stage' >> \in EnableFollows /\ Stage' \in EnableStages
      BY <1>2, <1>3, <1>5, <2>2
    <3>2. /\ Stage = "ACMD51" => Stage' = "ready"
          /\ Stage = "ready" => Stage' = "bytes"
          /\ Stage = "bytes" => Stage' = "width"
          /\ Stage = "reset" => Stage' = "clock"
          /\ Stage # "CMD17" /\ Stage' # "reset" /\ Stage' # "none"
          /\ Stage' = "ready" => Stage = "ACMD51"
          /\ Stage' = "bytes" => Stage = "ready"
      BY <3>1 DEF EnableFollows
    <3>3. QED
      BY <1>3, <1>5, <2>2, <3>1, <3>2 DEF DataCommands, EnableStages
  <2>3. QED
    BY <2>1, <2>2
<1>6. CASE word = "read"
  <2>1. CASE plan' = << >>
    BY <1>2, <1>4, <1>6, <2>1 DEF DataCommands
  <2>2. CASE plan' # << >>
    <3>1. << Stage, Stage' >> \in ReadFollows
      BY <1>2, <1>4, <1>6, <2>2
    <3>2. QED
      BY <1>4, <1>6, <2>2, <3>1 DEF DataCommands, ReadFollows
  <2>3. QED
    BY <2>1, <2>2
<1>7. QED
  BY <1>5, <1>6

\* Every word keeps to its plan.
LEMMA RoutedStep ==
  ASSUME IInv, Routed, [Next]_vars
  PROVE  Routed'
<1> USE DEF IInv
<1>1. CASE UNCHANGED << word, plan, pc, got >>
  BY <1>1 DEF Routed, Stage, Ordered
<1>2. CASE Hardware
  <2>1. UNCHANGED << word, plan, pc, got >>
    BY <1>2 DEF Hardware, Answer, NoAnswer, DataWord, DataError, driver
  <2>2. QED
    BY <1>1, <2>1
<1>3. CASE word' = "none" /\ pc' = "start"
  BY <1>3 DEF Routed
<1>4. CASE SdEnable
  BY <1>4, EnablePlanOrdered DEF SdEnable, Routed
<1>5. CASE \E b \in Blocks : SdReadBlock(b)
  BY <1>5, ReadPlanOrdered DEF SdReadBlock, Routed
<1>6. CASE /\ word # "none" /\ word' = word /\ NextStage /\ plan # << >>
           /\ got' = got /\ (pc = "bytes" => plan' = << >> \/ word = "enable")
  <2>1. word \in {"enable", "read"} /\ pc' = "start"
    BY <1>6 DEF Typing, TypeOK, NextStage
  <2>2. /\ word = "enable" => Ordered(plan', EnableStages, EnableFollows, "CMD16")
        /\ word = "read" => Ordered(plan', ReadStages, ReadFollows, "bytes")
    BY <1>6, <2>1, Onward
  <2>3. QED
    BY <1>6, <2>1, <2>2 DEF Routed
<1>7. CASE /\ UNCHANGED << word, plan >> /\ pc # "bytes" /\ pc' # "bytes" /\ got' = got
  BY <1>7 DEF Routed, Stage, Ordered
<1>8. CASE StartBytes
  <2>1. Stage' = Stage /\ Stage = "bytes" /\ UNCHANGED << word, plan >> /\ pc' = "bytes"
    BY <1>8, SameCommand DEF StartBytes, At, Stage
  <2>2. QED
    BY <2>1 DEF Routed, Ordered
<1>9. CASE ReadWord
  <2>1. Stage' = Stage /\ UNCHANGED << word, plan, pc >> /\ pc = "bytes"
    BY <1>9 DEF ReadWord, At, Stage
  <2>2. QED
    BY <2>1 DEF Routed, Ordered
<1>10. CASE SetWidth
  <2>1. /\ word # "none" /\ word' = word /\ pc' = "start" /\ got' = << >> /\ Stage = "width"
        /\ plan' = WidthPlan \o Tail(plan) \/ plan' = Tail(plan)
    BY <1>10 DEF SetWidth, At
  <2>2. word = "enable" /\ plan # << >> /\ plan[1] = "width"
    <3>1. word \in {"enable", "read"}
      BY <2>1 DEF Typing, TypeOK
    <3>2. QED
      BY <2>1, <3>1, Places DEF ReadStages
  <2>3. Ordered(plan, EnableStages, EnableFollows, "CMD16")
    BY <2>2 DEF Routed
  <2>4. Ordered(plan', EnableStages, EnableFollows, "CMD16")
    <3>1. CASE plan' = Tail(plan)
      BY <2>2, <2>3, <3>1, TailOrdered
    <3>2. CASE plan' = WidthPlan \o Tail(plan)
      BY <2>2, <2>3, <3>2, WidthOrdered
    <3>3. QED
      BY <2>1, <3>1, <3>2
  <2>5. QED
    BY <2>1, <2>2, <2>4 DEF Routed
<1>11. CASE BytesDone
  <2>1. word # "none" /\ word' = word /\ NextStage /\ Stage = "bytes" /\ got' = got
    BY <1>11 DEF BytesDone, At
  <2>2. word \in {"enable", "read"} /\ plan # << >>
    BY <2>1, EmptyPlan DEF Typing, TypeOK
  <2>3. word = "enable" \/ plan' = << >>
    BY <2>1, <2>2, Onward
  <2>4. QED
    BY <1>6, <2>1, <2>2, <2>3
<1>12. CASE Return \/ TimeOut \/ Restart
  BY <1>3, <1>12 DEF Return, TimeOut, Restart, Throw, Leave
<1>13. CASE ResetHost \/ SetClock \/ WaitData \/ SetControl0
  <2>1. word # "none" /\ word' = word /\ NextStage /\ got' = got /\ pc = "start" /\ Stage # "none"
    BY <1>13 DEF ResetHost, SetClock, WaitData, SetControl0, At
  <2>2. QED
    BY <1>6, <2>1, EmptyPlan
<1>14. CASE WaitCommand \/ ClearInterrupts \/ Issue
  BY <1>7, <1>14 DEF WaitCommand, ClearInterrupts, Issue, Sending
<1>15. CASE AwaitDone
  <2>1. \/ word' = "none" /\ pc' = "start"
        \/ /\ UNCHANGED << word, plan >> /\ pc # "bytes" /\ pc' # "bytes" /\ got' = got
    BY <1>15 DEF AwaitDone, Sending, Throw, Leave
  <2>2. QED
    BY <1>3, <1>7, <2>1
<1>16. CASE AwaitReady \/ Response
  <2>1. \/ word' = "none" /\ pc' = "start"
        \/ /\ word # "none" /\ word' = word /\ NextStage /\ got' = got /\ pc # "bytes"
           /\ Stage # "none"
    <3>1. Stage \in Commands => Stage # "none"
      BY DEF Commands
    <3>2. QED
      BY <1>16, <3>1 DEF AwaitReady, Response, At, Sending, Throw, Leave
  <2>2. QED
    BY <1>3, <1>6, <2>1, EmptyPlan
<1>17. CASE UNCHANGED vars
  BY <1>1, <1>17 DEF vars, driver
<1>18. QED
  BY <1>2, <1>4, <1>5, <1>8, <1>9, <1>10, <1>11, <1>12, <1>13, <1>14, <1>15, <1>16, <1>17
     DEF Next, Driver

----------------------------------------------------------------------------
(* What is carried.                                                        *)

LEMMA CarriedStep ==
  ASSUME IInv, Carried, [Next]_vars
  PROVE  Carried'
<1>1. << >> \in Seq(Payload)
  OBVIOUS
<1>2. CASE UNCHANGED << got, fifo, transfer >>
  BY <1>2 DEF Carried
<1>3. CASE got' = << >> /\ UNCHANGED << fifo, transfer >>
  BY <1>1, <1>3 DEF Carried
<1>4. CASE SdEnable \/ Restart \/ TimeOut \/ SetWidth \/ Return \/ \E b \in Blocks : SdReadBlock(b)
  BY <1>3, <1>4 DEF SdEnable, Restart, TimeOut, SetWidth, Return, SdReadBlock, Throw, Leave,
                    registers, line
<1>5. CASE \/ SetClock \/ WaitData \/ WaitCommand \/ ClearInterrupts \/ Issue
           \/ StartBytes \/ BytesDone \/ SetControl0
  BY <1>2, <1>5 DEF SetClock, WaitData, WaitCommand, ClearInterrupts, Issue,
                    StartBytes, BytesDone, SetControl0, registers, line
<1>6. CASE AwaitDone \/ AwaitReady \/ Response
  <2>1. (got' = << >> \/ got' = got) /\ UNCHANGED << fifo, transfer >>
    BY <1>6 DEF AwaitDone, AwaitReady, Response, Noticed, Throw, Leave, registers, line
  <2>2. QED
    BY <1>2, <1>3, <2>1
<1>7. CASE ResetHost
  BY <1>1, <1>7 DEF ResetHost, Carried
<1>8. CASE ReadWord
  <2>1. got' = Append(got, fifo[1]) /\ fifo' = Tail(fifo) /\ transfer' = transfer /\ fifo # << >>
    BY <1>8 DEF ReadWord, line
  <2>2. fifo[1] \in Payload /\ Tail(fifo) \in Seq(Payload)
    BY <2>1, Heads DEF Carried
  <2>3. QED
    BY <2>1, <2>2, Appended DEF Carried
<1>9. CASE DataWord
  <2>1. fifo' = Append(fifo, transfer[1]) /\ transfer' = Tail(transfer) /\ got' = got /\ transfer # << >>
    BY <1>9 DEF DataWord, driver
  <2>2. transfer[1] \in Payload /\ Tail(transfer) \in Seq(Payload)
    BY <2>1, Heads DEF Carried
  <2>3. QED
    BY <2>1, <2>2, Appended DEF Carried
<1>10. CASE DataError
  BY <1>1, <1>10 DEF DataError, Carried, driver
<1>11. ASSUME NEW c \in pending, NoAnswer(c) PROVE Carried'
  BY <1>2, <1>11 DEF NoAnswer, driver
<1>12. ASSUME NEW c \in pending, Answer(c) PROVE Carried'
  <2>1. UNCHANGED << got, fifo >> /\ transfer' = Sent(c)
    BY <1>12 DEF Answer, driver
  <2>2. Sent(c) \in Seq(Payload)
    <3>1. c.arg \in Numbers
      BY DEF IInv, Typing, Pending, Numbers
    <3>2. QED
      BY <3>1, DataWords, ScrWords DEF Sent, Carried
  <2>3. QED
    BY <2>1, <2>2 DEF Carried
<1>13. CASE UNCHANGED vars
  BY <1>2, <1>13 DEF vars, driver, registers, line
<1>14. QED
  BY <1>4, <1>5, <1>6, <1>7, <1>8, <1>9, <1>10, <1>11, <1>12, <1>13 DEF Next, Driver, Hardware

----------------------------------------------------------------------------
(* What is expected.                                                       *)

\* Steps that leave the word, and those of a stage in which nothing comes.
LEMMA LineStays ==
  ASSUME UNCHANGED << inhibit, fifo, transfer, pending >>
  PROVE  /\ LineTold => LineTold'
         /\ Calm => Calm'
         /\ Still => Still'
BY DEF LineTold, Calm, Still

LEMMA LeftExpected ==
  ASSUME Expected, word' = "none", rushed' = rushed, UNCHANGED << inhibit, fifo, transfer, pending >>
  PROVE  Expected'
BY LineStays DEF Expected

LEMMA StartedExpected ==
  ASSUME IInv, Routed, Expected, SdEnable \/ \E b \in Blocks : SdReadBlock(b)
  PROVE  Expected'
<1>1. /\ UNCHANGED << rushed, inhibit, fifo, transfer, pending >> /\ plan' # << >> /\ pc' = "start"
      /\ \/ word' = "enable" /\ Stage' = "reset"
         \/ word' = "read" /\ Stage' = "dat"
  <2>1. /\ EnablePlan # << >> /\ EnablePlan[1] = "reset"
        /\ ReadPlan # << >> /\ ReadPlan[1] = "dat"
    BY DEF EnablePlan, ReadPlan
  <2>2. CASE SdEnable
    BY <2>1, <2>2 DEF SdEnable, Stage, registers, line
  <2>3. CASE \E b \in Blocks : SdReadBlock(b)
    BY <2>1, <2>3 DEF SdReadBlock, Stage, registers, line
  <2>4. QED
    BY <2>2, <2>3
<1>2. ~ Quiet' /\ ~ Coming'
  BY <1>1 DEF Quiet, Coming, Commands, DataCommands
<1>3. QED
  BY <1>1, <1>2, LineStays DEF Expected

\* From one stage in which nothing comes to another.
LEMMA CalmOn ==
  ASSUME IInv, Routed, Expected, word # "none", word' = word, NextStage, plan # << >>,
         ~ rushed' => ~ rushed /\ Calm,
         Stage \in (Commands \ DataCommands) \cup {"clock", "dat", "control0"},
         UNCHANGED << inhibit, fifo, transfer, pending >>
  PROVE  Expected'
<1>1. word \in {"enable", "read"} /\ pc' = "start"
  BY DEF IInv, Typing, TypeOK, NextStage
<1>2. ~ Coming' /\ ~ (word' = "read" /\ plan' = << >>)
  <2>1. CASE word = "enable"
    <3>1. Stage \notin DataCommands \cup {"ready"}
      BY DEF DataCommands, Commands
    <3>2. Stage' \in {"clock", "dat", "none", "width", "control0"} \cup (Commands \ {"CMD17"})
      BY <1>1, <2>1, <3>1, Onward
    <3>3. QED
      BY <1>1, <2>1, <3>2 DEF Coming, Commands, DataCommands
  <2>2. CASE word = "read"
    <3>1. Stage = "dat"
      BY <1>1, <2>2, Places DEF ReadStages, DataCommands, Commands
    <3>2. Stage' = "CMD17" /\ plan' # << >>
      BY <1>1, <2>2, <3>1, Onward
    <3>3. QED
      BY <1>1, <3>2 DEF Coming
  <2>3. QED
    BY <1>1, <2>1, <2>2
<1>3. QED
  BY <1>2, LineStays DEF Expected

LEMMA QuietExpected ==
  ASSUME IInv, Routed, Expected, SetClock \/ WaitData \/ SetControl0
  PROVE  Expected'
<1>1. /\ word # "none" /\ word' = word /\ NextStage /\ Stage \in {"clock", "dat", "control0"}
      /\ UNCHANGED << inhibit, fifo, transfer, pending >> /\ (~ rushed' => ~ rushed)
  <2>1. CASE SetClock \/ SetControl0
    BY <2>1 DEF SetClock, SetControl0, At, registers, line
  <2>2. CASE WaitData
    BY <2>2 DEF WaitData, At, registers, line, Noted, IInv, Typing
  <2>3. QED
    BY <2>1, <2>2
<1>2. plan # << >>
  BY <1>1, EmptyPlan
<1>3. ~ rushed' => Calm
  <2>1. CASE Stage \in {"clock", "control0"} \/ word = "enable"
    BY <1>1, <2>1 DEF Expected, Quiet
  <2>2. CASE Stage = "dat"
    <3>1. WaitData
      BY <2>2 DEF SetClock, SetControl0, At
    <3>2. ~ rushed' => "dat" \notin inhibit
      BY <3>1 DEF WaitData, Noted, IInv, Typing
    <3>3. QED
      BY <1>1, <3>2 DEF Expected, LineTold, Calm
  <2>3. QED
    BY <1>1, <2>1, <2>2
<1>4. QED
  BY <1>1, <1>2, <1>3, CalmOn

LEMMA WidthExpected ==
  ASSUME IInv, Routed, Expected, SetWidth
  PROVE  Expected'
<1>1. /\ word # "none" /\ word' = word /\ Stage = "width" /\ pc' = "start"
      /\ plan' = WidthPlan \o Tail(plan) \/ plan' = Tail(plan)
      /\ UNCHANGED << rushed, inhibit, fifo, transfer, pending >>
  BY DEF SetWidth, At, registers, line
<1>2. word = "enable" /\ plan # << >> /\ plan[1] = "width"
  <2>1. word \in {"enable", "read"}
    BY <1>1 DEF IInv, Typing, TypeOK
  <2>2. QED
    BY <1>1, <2>1, Places DEF ReadStages
<1>3. Stage' \in {"CMD55", "CMD16"}
  <2>1. /\ (WidthPlan \o Tail(plan))[1] = "CMD55" /\ WidthPlan \o Tail(plan) # << >>
        /\ Tail(plan) # << >> /\ Tail(plan)[1] = "CMD16"
    BY <1>2, WidthOrdered DEF Routed
  <2>2. QED
    BY <1>1, <2>1 DEF Stage
<1>4. ~ Coming' /\ ~ (word' = "read" /\ plan' = << >>)
  BY <1>1, <1>2, <1>3 DEF Coming, DataCommands
<1>5. ~ rushed' => Calm
  BY <1>1 DEF Expected, Quiet
<1>6. QED
  BY <1>1, <1>4, <1>5, LineStays DEF Expected

LEMMA ResetExpected ==
  ASSUME IInv, Routed, ResetHost
  PROVE  Expected'
<1>1. /\ word # "none" /\ word' = word /\ Stage = "reset" /\ NextStage /\ plan # << >>
      /\ fifo' = << >> /\ transfer' = << >> /\ pending' = {}
  BY EmptyPlan DEF ResetHost, At
<1>2. word = "enable"
  <2>1. word \in {"enable", "read"}
    BY <1>1 DEF IInv, Typing, TypeOK
  <2>2. QED
    BY <1>1, <2>1, Places DEF ReadStages
<1>3. Stage' = "clock"
  BY <1>1, <1>2, Onward
<1>4. ~ Coming' /\ ~ (word' = "read" /\ plan' = << >>)
  BY <1>1, <1>2, <1>3 DEF Coming, DataCommands
<1>5. LineTold' /\ Calm'
  BY <1>1 DEF LineTold, Calm, Still
<1>6. QED
  BY <1>4, <1>5 DEF Expected

----------------------------------------------------------------------------
(* Commands and data.                                                      *)

LEMMA SentExpected ==
  ASSUME IInv, Routed, Expected, WaitCommand \/ ClearInterrupts \/ Issue
  PROVE  Expected'
<1>1. /\ word # "none" /\ word' = word /\ plan' = plan /\ block' = block /\ got' = got
      /\ UNCHANGED << fifo, transfer >> /\ Stage \in Commands
      /\ pc \in {"start", "clear", "issue"} /\ (~ rushed' => ~ rushed)
  <2>1. CASE WaitCommand
    BY <2>1 DEF WaitCommand, Sending, registers, line, Noted, IInv, Typing
  <2>2. CASE ClearInterrupts \/ Issue
    BY <2>2 DEF ClearInterrupts, Issue, Sending, registers, line
  <2>3. QED
    BY <2>1, <2>2
<1>2. Stage' = Stage /\ plan # << >>
  <2>1. Stage # "none"
    BY <1>1 DEF Commands
  <2>2. QED
    BY <1>1, <2>1, EmptyPlan DEF Stage
<1>3. ~ rushed' => ~ rushed /\ Calm /\ LineTold
  BY <1>1 DEF Expected, Quiet
<1>4. CASE WaitCommand \/ ClearInterrupts
  <2>1. UNCHANGED << inhibit, fifo, transfer, pending >> /\ pc' \in {"clear", "issue"}
    BY <1>4 DEF WaitCommand, ClearInterrupts, registers, line
  <2>2. ~ Coming'
    BY <1>1, <1>2, <2>1 DEF Coming, Commands
  <2>3. QED
    BY <1>1, <1>2, <1>3, <2>1, <2>2, LineStays DEF Expected
<1>5. CASE Issue
  <2>1. /\ pc = "issue" /\ pc' = "done" /\ rushed' = rushed
        /\ pending' = Overtaken \cup {Current}
        /\ inhibit' = inhibit \cup {"cmd"} \cup (IF Stage \in DataCommands THEN {"dat"} ELSE {})
    BY <1>5 DEF Issue, Sending, Current, DataCommands
  <2>2. ~ rushed => pending' = {Current}
    <3>1. ~ rushed => pending = {}
      BY <1>1, <2>1 DEF IInv, Exchange
    <3>2. QED
      BY <2>1, <3>1 DEF Overtaken
  <2>3. Current.name = Stage
    BY DEF Current
  <2>4. ~ rushed' => LineTold' /\ Still'
    BY <1>1, <1>3, <2>1, <2>2, <2>3 DEF LineTold, Calm, Still
  <2>5. CASE Stage \in DataCommands
    <3>1. ~ Quiet'
      BY <1>1, <1>2, <2>1, <2>5 DEF Quiet, DataCommands
    <3>2. ASSUME ~ rushed' PROVE Arriving'
      <4>1. Still' /\ Len(fifo') = 0 /\ Len(transfer') = 0
        BY <3>2, <2>4 DEF Still
      <4>2. Asked' \in Nat /\ Rest' = Asked' /\ Asked' > 0
        BY <2>1, Sizes DEF Asked, Rest
      <4>3. word' = "read" => Asked' = Words /\ Len(got') = 0
        BY <1>1, <1>2, <2>1 DEF Asked, Routed
      <4>4. Stage' \in DataCommands /\ pc' = "done"
        BY <1>2, <2>1, <2>5
      <4>5. /\ Len(fifo') + Len(transfer') <= Rest'
            /\ word' = "read" => Len(got') = Words - Rest'
            /\ word' = "read" => Still' /\ Rest' > 0
        <5>1. 0 + 0 <= Asked' /\ Words - Words = 0
          BY <4>2, Sizes
        <5>2. word' = "read" => Len(got') = Words - Rest'
          BY <4>2, <4>3, <5>1
        <5>3. Len(fifo') + Len(transfer') <= Rest'
          BY <4>1, <4>2, <5>1
        <5>4. QED
          BY <4>1, <4>2, <5>2, <5>3
      <4>6. QED
        BY <4>4, <4>5 DEF Arriving
    <3>3. QED
      BY <1>1, <1>2, <2>4, <3>1, <3>2 DEF Expected
  <2>6. CASE Stage \notin DataCommands
    <3>1. ~ Coming'
      BY <1>1, <1>2, <2>6 DEF Coming, Commands
    <3>2. ~ rushed' => Calm'
      BY <2>1, <2>2, <2>3, <2>4, <2>6 DEF Calm
    <3>3. QED
      BY <1>1, <1>2, <2>4, <3>1, <3>2 DEF Expected
  <2>7. QED
    BY <2>5, <2>6
<1>6. QED
  BY <1>4, <1>5

\* A command that has ended: the next step or the next stage.
LEMMA EndedExpected ==
  ASSUME IInv, Routed, Expected, AwaitDone \/ Response
  PROVE  Expected'
<1>1. UNCHANGED << rushed, inhibit, fifo, transfer, pending >>
  BY DEF AwaitDone, Response, Noticed, Throw, Leave, registers, line
<1>2. CASE word' = "none"
  BY <1>1, <1>2, LeftExpected
<1>3. CASE word' # "none"
  <2>1. /\ word # "none" /\ Stage \in Commands /\ UNCHANGED << word, block, left, got >> /\ Wanted' = Wanted
        /\ \/ AwaitDone /\ pc = "done" /\ pc' = "response" /\ plan' = plan /\ "done" \in irpt
           \/ Response /\ pc = "response" /\ NextStage
    BY <1>3 DEF AwaitDone, Response, Sending, Throw, Leave, Wanted
  <2>2. plan # << >> /\ word \in {"enable", "read"}
    <3>1. Stage # "none"
      BY <2>1 DEF Commands
    <3>2. QED
      BY <2>1, <3>1, EmptyPlan DEF IInv, Typing, TypeOK
  <2>3. ~ rushed => pending = {}
    BY <2>1 DEF IInv, Exchange
  <2>4. CASE Stage \notin DataCommands
    <3>1. ~ rushed => Calm
      BY <2>1, <2>4 DEF Expected, Quiet
    <3>2. CASE Response
      BY <1>1, <2>1, <2>2, <2>4, <3>1, <3>2, CalmOn DEF Response, Sending
    <3>3. CASE plan' = plan
      <4>1. Stage' = Stage
        BY <3>3 DEF Stage
      <4>2. ~ Coming'
        BY <2>1, <2>4, <4>1 DEF Coming, Commands
      <4>3. QED
        BY <1>1, <2>1, <2>2, <3>1, <3>3, <4>2, LineStays DEF Expected
    <3>4. QED
      BY <2>1, <3>2, <3>3
  <2>5. CASE Stage \in DataCommands
    <3>1. ~ rushed => Arriving
      BY <2>1, <2>5 DEF Expected, Coming
    <3>2. /\ pc \in {"done", "response"} /\ pc' \in {"response", "start"} /\ plan' # << >>
          /\ Stage' = "ready" \/ (Stage' = Stage /\ pc' = "response")
      <4>1. CASE pc' = "response"
        <5>1. plan' = plan
          BY <2>1, <4>1 DEF NextStage
        <5>2. QED
          BY <2>1, <2>2, <4>1, <5>1 DEF Stage
      <4>2. CASE NextStage
        <5>1. Stage' = "ready" /\ plan' # << >>
          BY <2>1, <2>2, <2>5, <4>2, Onward
        <5>2. QED
          BY <2>1, <4>2, <5>1 DEF NextStage
      <4>3. QED
        BY <2>1, <4>1, <4>2
    <3>3. ~ Quiet'
      BY <2>5, <3>2 DEF Quiet, Commands, DataCommands
    <3>4. Rest' = Rest /\ Still' = Still /\ Whole(Wanted, got, fifo, transfer)' = Whole(Wanted, got, fifo, transfer)
      BY <1>1, <2>1, <3>2 DEF Rest, Asked, Still, Whole
    <3>5. ~ rushed' => Arriving'
      BY <1>1, <2>1, <2>3, <3>1, <3>4 DEF Arriving
    <3>6. QED
      BY <1>1, <2>1, <3>2, <3>3, <3>5, LineStays DEF Expected
  <2>6. QED
    BY <2>4, <2>5
<1>4. QED
  BY <1>2, <1>3

LEMMA ReadyExpected ==
  ASSUME IInv, Routed, Expected, AwaitReady \/ StartBytes
  PROVE  Expected'
<1>1. UNCHANGED << rushed, inhibit, fifo, transfer, pending >>
  BY DEF AwaitReady, StartBytes, Noticed, Throw, Leave, registers, line
<1>2. CASE word' = "none"
  BY <1>1, <1>2, LeftExpected
<1>3. CASE word' # "none"
  <2>1. /\ word # "none" /\ UNCHANGED << word, block, got >> /\ pc = "start" /\ Wanted' = Wanted
        /\ \/ AwaitReady /\ Stage = "ready" /\ NextStage
           \/ StartBytes /\ Stage = "bytes" /\ plan' = plan /\ pc' = "bytes" /\ left' = Asked
    BY <1>3 DEF AwaitReady, StartBytes, At, Throw, Leave, Asked, Wanted
  <2>2. plan # << >> /\ word \in {"enable", "read"}
    BY <2>1, EmptyPlan DEF IInv, Typing, TypeOK
  <2>3. /\ Stage \in {"ready", "bytes"} /\ Stage' = "bytes" /\ plan' # << >>
        /\ pc' = "bytes" => left' = Asked
    <3>1. CASE NextStage
      <4>1. Stage' = "bytes" /\ plan' # << >> /\ Stage = "ready"
        <5>1. Stage = "ready"
          BY <2>1, <3>1 DEF StartBytes, NextStage
        <5>2. QED
          BY <2>1, <2>2, <3>1, <5>1, Onward
      <4>2. QED
        BY <3>1, <4>1 DEF NextStage
    <3>2. CASE plan' = plan /\ left' = Asked /\ Stage = "bytes"
      BY <2>2, <3>2 DEF Stage
    <3>3. QED
      BY <2>1, <3>1, <3>2
  <2>4. ~ Quiet'
    BY <2>3 DEF Quiet, Commands, DataCommands
  <2>5. Rest' = Asked /\ Rest = Asked
    BY <2>1, <2>3 DEF Rest, Asked
  <2>6. Still' = Still /\ Whole(Wanted, got, fifo, transfer)' = Whole(Wanted, got, fifo, transfer)
    BY <1>1, <2>1 DEF Still, Whole
  <2>7. ~ rushed => Arriving
    BY <2>1, <2>3 DEF Expected, Coming
  <2>8. ~ rushed' => Arriving'
    <3>1. ~ rushed => pending = {}
      BY <2>3, <2>7 DEF Arriving, DataCommands
    <3>2. QED
      BY <1>1, <2>1, <2>5, <2>6, <2>7, <3>1 DEF Arriving
  <2>9. QED
    BY <1>1, <2>1, <2>3, <2>4, <2>8, LineStays DEF Expected
<1>4. QED
  BY <1>2, <1>3

LEMMA WordExpected ==
  ASSUME IInv, Routed, Carried, Expected, ReadWord
  PROVE  Expected'
<1>1. /\ word # "none" /\ Stage = "bytes" /\ pc = "bytes" /\ left > 0 /\ fifo # << >>
      /\ got' = Append(got, fifo[1]) /\ left' = left - 1 /\ fifo' = Tail(fifo)
      /\ inhibit' = IF left = 1 THEN inhibit \ {"dat"} ELSE inhibit
      /\ UNCHANGED << word, plan, pc, block, rushed, pending, transfer >> /\ Wanted' = Wanted
  BY DEF ReadWord, At, line, Wanted
<1>2. Stage' = Stage /\ plan # << >> /\ left \in Nat
  BY <1>1, EmptyPlan, Sizes DEF Stage, IInv, Typing, TypeOK
<1>3. ASSUME ~ rushed PROVE LineTold' /\ Arriving'
  <2>1. LineTold /\ Arriving /\ Rest = left /\ Rest' = left - 1 /\ pending = {}
    <3>1. Arriving /\ LineTold
      BY <1>1, <1>3 DEF Expected, Coming
    <3>2. pending = {}
      BY <1>1, <3>1 DEF Arriving, DataCommands
    <3>3. QED
      BY <1>1, <3>1, <3>2 DEF Rest
  <2>2. /\ Len(fifo) \in Nat \ {0} /\ fifo[1] \in Payload /\ Len(fifo') = Len(fifo) - 1
        /\ fifo' \in Seq(Payload)
    BY <1>1, Heads DEF Carried
  <2>3. Len(got') = Len(got) + 1 /\ Len(got) \in Nat /\ Len(transfer) \in Nat
    BY <1>1, <2>2, Appended DEF Carried
  <2>4. Len(fifo) + Len(transfer) <= left
    BY <2>1 DEF Arriving
  <2>5. left = 1 => Still'
    <3>1. left = 1 => Len(fifo') = 0 /\ Len(transfer) = 0
      BY <2>2, <2>3, <2>4
    <3>2. QED
      BY <1>1, <2>2, <3>1, EmptySeq DEF Still, Carried
  <2>6. LineTold'
    <3>1. "dat" \in inhibit
      BY <1>1, <2>1 DEF LineTold, Still
    <3>2. QED
      BY <1>1, <2>1, <2>5, <3>1 DEF LineTold
  <2>7. word = "read" => Whole(Wanted, got, fifo, transfer)'
    <3>1. word = "read" => Whole(Wanted, got, fifo, transfer)
      BY <1>1, <2>1 DEF Arriving, Still
    <3>2. Whole(Wanted, got, fifo, transfer) => Whole(Wanted, got', fifo', transfer)
      BY <1>1, WholeOut DEF Carried
    <3>3. QED
      BY <1>1, <3>1, <3>2 DEF Whole
  <2>8. word = "read" => Len(got') = Words - Rest'
    BY <1>2, <2>1, <2>3, Sizes DEF Arriving
  <2>9. Len(fifo') + Len(transfer') <= Rest'
    BY <1>1, <1>2, <2>1, <2>2, <2>3, <2>4
  <2>10. pending' = {}
    BY <1>1, <2>1
  <2>11. QED
    BY <1>1, <2>6, <2>7, <2>8, <2>9, <2>10 DEF Arriving
<1>4. ~ Quiet'
  BY <1>1, <1>2 DEF Quiet, Commands, DataCommands
<1>5. QED
  BY <1>1, <1>2, <1>3, <1>4 DEF Expected

LEMMA DoneExpected ==
  ASSUME IInv, Routed, Carried, Expected, BytesDone
  PROVE  Expected'
<1>1. /\ word # "none" /\ Stage = "bytes" /\ pc = "bytes" /\ left = 0 /\ NextStage
      /\ UNCHANGED << word, block, left, got, rushed, inhibit, fifo, transfer, pending >>
  BY DEF BytesDone, At, registers, line
<1>2. plan # << >> /\ word \in {"enable", "read"}
  BY <1>1, EmptyPlan DEF IInv, Typing, TypeOK
<1>3. Stage' = (IF word = "read" THEN "none" ELSE "width") /\ (Stage' = "none" <=> plan' = << >>)
  BY <1>1, <1>2, Onward
<1>4. ~ Coming'
  BY <1>1, <1>3 DEF Coming, DataCommands
<1>5. ~ rushed => Arriving /\ Rest = 0 /\ pending = {}
  <2>1. ~ rushed => Arriving
    BY <1>1 DEF Expected, Coming
  <2>2. QED
    BY <1>1, <2>1 DEF Arriving, Rest, DataCommands
<1>6. ASSUME ~ rushed PROVE Calm
  <2>1. Len(fifo) + Len(transfer) <= 0 /\ Len(fifo) \in Nat /\ Len(transfer) \in Nat
    BY <1>5, <1>6 DEF Arriving, Carried
  <2>2. Len(fifo) = 0 /\ Len(transfer) = 0
    BY <2>1
  <2>3. Still
    BY <2>2, EmptySeq DEF Still, Carried
  <2>4. QED
    BY <1>5, <1>6, <2>3 DEF Calm
<1>7. ASSUME ~ rushed, word = "read" PROVE got = Data(Wanted)
  <2>1. Whole(Wanted, got, fifo, transfer) /\ Len(got) = Words
    BY <1>5, <1>7, Sizes DEF Arriving
  <2>2. QED
    BY <2>1, WholeRead DEF Carried
<1>8. Data(Wanted)' = Data(Wanted)
  BY <1>1 DEF Data, Wanted
<1>9. QED
  BY <1>1, <1>4, <1>6, <1>7, <1>8, LineStays DEF Expected

----------------------------------------------------------------------------
(* The card and the controller.                                            *)

\* While nothing of the driver moves.
LEMMA Watching ==
  ASSUME UNCHANGED driver
  PROVE  /\ Stage' = Stage /\ (Quiet' <=> Quiet) /\ (Coming' <=> Coming)
         /\ Rest' = Rest /\ Wanted' = Wanted /\ Data(Wanted)' = Data(Wanted)
         /\ UNCHANGED << word, plan, pc, block, left, got, rushed >>
<1>1. UNCHANGED << word, plan, pc, block, left, got, rushed >>
  BY DEF driver
<1>2. Stage' = Stage
  BY <1>1 DEF Stage
<1>3. QED
  BY <1>1, <1>2 DEF Quiet, Coming, Rest, Asked, Data, Wanted

\* A command is answered, or not, only to the driver that sent it.
LEMMA AnswerExpected ==
  ASSUME IInv, Routed, Carried, Expected,
         NEW c \in pending, Answer(c) \/ NoAnswer(c)
  PROVE  Expected'
<1>1. UNCHANGED driver /\ fifo' = fifo /\ pending' = pending \ {c}
  BY DEF Answer, NoAnswer
<1>2. \/ /\ transfer' = Sent(c) /\ inhibit' = inhibit \ {"cmd"}
      \/ /\ transfer' = transfer /\ inhibit' = {} /\ NoAnswer(c)
  BY DEF Answer, NoAnswer
<1>3. c.name \notin DataCommands => transfer' = transfer
  BY <1>2 DEF Sent, DataCommands
<1>4. ASSUME ~ rushed
      PROVE  /\ Still /\ pending = {c} /\ pending' = {} /\ LineTold'
             /\ (c.name \notin DataCommands \/ NoAnswer(c) => Still')
  <2>1. LineTold /\ Still
    BY <1>4 DEF Expected, LineTold
  <2>2. pending = {c}
    BY <1>4 DEF IInv, Alone
  <2>3. c.name \notin DataCommands \/ NoAnswer(c) => Still'
    BY <1>1, <1>3, <2>1 DEF Still, NoAnswer
  <2>4. c.name \in DataCommands => "dat" \in inhibit
    BY <2>1 DEF LineTold
  <2>5. LineTold'
    BY <1>1, <1>2, <2>2, <2>3, <2>4 DEF LineTold
  <2>6. QED
    BY <1>1, <2>1, <2>2, <2>3, <2>5
<1>5. ASSUME ~ rushed, word # "none", Quiet PROVE Calm'
  <2>1. c.name \notin DataCommands
    BY <1>5 DEF Expected, Calm
  <2>2. QED
    BY <1>4, <1>5, <2>1 DEF Calm
<1>6. ASSUME ~ rushed, word # "none", Coming PROVE Arriving'
  <2>1. Arriving
    BY <1>6 DEF Expected
  <2>2. Stage \in DataCommands /\ pc = "done"
    BY <1>4, <1>6, <2>1 DEF Arriving
  <2>3. c.name = Stage /\ c.arg = Argument
    <3>1. Stage \in Commands
      BY <2>2 DEF DataCommands, Commands
    <3>2. pending = {Current}
      BY <1>4, <1>6, <2>2, <3>1 DEF IInv, Exchange
    <3>3. c = Current
      BY <3>2
    <3>4. QED
      BY <3>3 DEF Current
  <2>4. word \in {"enable", "read"}
    BY <1>6 DEF IInv, Typing, TypeOK
  <2>5. Rest = Asked
    BY <2>2 DEF Rest
  <2>6. word = "read" => Stage = "CMD17" /\ got = << >>
    <3>1. plan # << >>
      BY <2>2, EmptyPlan DEF DataCommands
    <3>2. word = "read" => Stage \in ReadStages \cup {"none"}
      BY <2>4, Places
    <3>3. QED
      BY <2>2, <3>1, <3>2 DEF ReadStages, DataCommands, Routed
  <2>7. word = "enable" => Stage = "ACMD51"
    <3>1. word = "enable" => Stage \in EnableStages \cup {"none"}
      BY <2>4, Places
    <3>2. QED
      BY <2>2, <3>1 DEF EnableStages, DataCommands
  <2>8. Len(<< >>) = 0 /\ fifo = << >> /\ transfer = << >>
    BY <1>4, <1>6 DEF Still
  <2>9. CASE NoAnswer(c)
    <3>1. Still' /\ Rest' = Rest /\ Rest > 0 /\ UNCHANGED << fifo, transfer >>
      <4>1. Rest > 0
        BY <2>4, <2>5, Sizes DEF Asked
      <4>2. UNCHANGED << fifo, transfer >>
        BY <1>1, <2>9 DEF NoAnswer
      <4>3. QED
        BY <1>1, <1>4, <1>6, <2>9, <4>1, <4>2, Watching
    <3>2. UNCHANGED << word, got >>
      BY <1>1, Watching
    <3>3. QED
      BY <1>4, <1>6, <2>1, <3>1, <3>2 DEF Arriving
  <2>10. CASE transfer' = Sent(c) /\ word = "enable"
    <3>1. Len(transfer') = 2
      BY <2>3, <2>7, <2>10, ScrWords DEF Sent
    <3>2. Rest' = 2 /\ fifo' = << >> /\ word' = "enable"
      BY <1>1, <2>5, <2>8, <2>10, Watching DEF Asked
    <3>3. QED
      BY <1>4, <1>6, <2>8, <3>1, <3>2 DEF Arriving
  <2>11. CASE transfer' = Sent(c) /\ word = "read"
    <3>1. transfer' = Data(Wanted) /\ block \in Numbers
      <4>1. c.name = "CMD17" /\ c.arg = block
        BY <2>3, <2>6, <2>11 DEF Argument
      <4>2. block \in Numbers
        BY DEF IInv, Typing, Numbers
      <4>3. QED
        BY <2>11, <4>1, <4>2 DEF Sent, Wanted
    <3>2. Len(transfer') = Words /\ Whole(Wanted, << >>, << >>, transfer')
      BY <3>1, DataWords DEF Wanted
    <3>3. /\ Rest' = Words /\ fifo' = << >> /\ got' = << >> /\ Wanted' = Wanted /\ word' = word
          /\ pending' = {}
      BY <1>1, <1>4, <1>6, <2>5, <2>6, <2>8, <2>11, Watching DEF Asked
    <3>4. Len(fifo') + Len(transfer') <= Rest' /\ Len(got') = Words - Rest'
      BY <2>8, <3>2, <3>3, Sizes
    <3>5. Whole(Wanted, got, fifo, transfer)'
      BY <3>2, <3>3
    <3>6. QED
      BY <3>3, <3>4, <3>5 DEF Arriving
  <2>12. QED
    BY <1>2, <2>4, <2>9, <2>10, <2>11
<1>7. QED
  BY <1>1, <1>4, <1>5, <1>6, Watching DEF Expected

LEMMA ArrivalExpected ==
  ASSUME IInv, Routed, Carried, Expected, DataWord \/ DataError
  PROVE  Expected'
<1>1. UNCHANGED driver /\ pending' = pending /\ transfer # << >>
  BY DEF DataWord, DataError
<1>2. ASSUME ~ rushed
      PROVE  LineTold /\ ~ Still /\ ~ Calm /\ pending = {} /\ "dat" \in inhibit
  BY <1>1, <1>2 DEF Expected, LineTold, Still, Calm
<1>3. ~ rushed => LineTold'
  <2>1. CASE DataWord
    BY <1>1, <1>2, <2>1 DEF DataWord, LineTold
  <2>2. CASE DataError
    BY <1>1, <1>2, <2>2 DEF DataError, LineTold, Still
  <2>3. QED
    BY <2>1, <2>2
<1>4. ~ rushed /\ word # "none" => ~ Quiet
  BY <1>2 DEF Expected
<1>5. ASSUME ~ rushed, word # "none", Coming PROVE Arriving'
  <2>1. /\ Arriving /\ pending' = {} /\ Rest' = Rest /\ UNCHANGED << word, got >>
        /\ Wanted' = Wanted /\ Len(fifo) \in Nat /\ Len(got) \in Nat
    BY <1>1, <1>2, <1>5, Watching DEF Expected, Carried
  <2>2. /\ Len(transfer) \in Nat \ {0} /\ transfer[1] \in Payload
        /\ Len(Tail(transfer)) = Len(transfer) - 1
    BY <1>1, Heads DEF Carried
  <2>3. word = "read" => Whole(Wanted, got, fifo, transfer) /\ Len(got) = Words - Rest
    BY <1>2, <1>5, <2>1 DEF Arriving
  <2>4. CASE DataWord
    <3>1. fifo' = Append(fifo, transfer[1]) /\ transfer' = Tail(transfer)
      BY <2>4 DEF DataWord
    <3>2. Len(fifo') = Len(fifo) + 1
      BY <2>2, <3>1, Appended DEF Carried
    <3>3. Len(fifo') + Len(transfer') <= Rest'
      <4>1. Len(fifo) + Len(transfer) <= Rest
        BY <2>1 DEF Arriving
      <4>2. Len(fifo') + Len(transfer') = Len(fifo) + Len(transfer)
        BY <2>1, <2>2, <3>1, <3>2
      <4>3. QED
        BY <2>1, <4>1, <4>2
    <3>4. word = "read" => Whole(Wanted, got, fifo', transfer')
      BY <1>1, <2>3, <3>1, WholeIn DEF Carried
    <3>5. word' = "read" => Whole(Wanted, got, fifo, transfer)' /\ Len(got') = Words - Rest'
      BY <2>1, <2>3, <3>4
    <3>6. QED
      BY <2>1, <3>3, <3>5 DEF Arriving
  <2>5. CASE DataError
    <3>1. Still' /\ Len(fifo') = 0 /\ Len(transfer') = 0
      BY <2>5 DEF DataError, Still
    <3>2. Rest \in Nat
      <4>1. left \in Nat /\ Asked \in Nat
        BY Sizes DEF Asked, IInv, Typing, TypeOK
      <4>2. QED
        BY <4>1 DEF Rest
    <3>3. Rest > 0
      <4>1. Len(fifo) + Len(transfer) <= Rest
        BY <2>1 DEF Arriving
      <4>2. QED
        BY <2>1, <2>2, <3>2, <4>1
    <3>4. Len(fifo') + Len(transfer') <= Rest'
      BY <2>1, <3>1, <3>2
    <3>5. word' = "read" => Still' /\ Rest' > 0 /\ Len(got') = Words - Rest'
      BY <2>1, <2>3, <3>1, <3>3
    <3>6. QED
      BY <2>1, <3>4, <3>5 DEF Arriving
  <2>6. QED
    BY <2>4, <2>5
<1>6. QED
  BY <1>1, <1>3, <1>4, <1>5, Watching DEF Expected

----------------------------------------------------------------------------

LEMMA DataStarts == Init => DataInv
<1> SUFFICES ASSUME Init PROVE DataInv
  OBVIOUS
<1>1. word = "none" /\ pc = "start" /\ got = << >> /\ fifo = << >> /\ transfer = << >> /\ pending = {}
  BY DEF Init
<1>2. Routed /\ Carried
  BY <1>1 DEF Routed, Carried
<1>3. Expected
  BY <1>1 DEF Expected, LineTold, Still
<1>4. QED
  BY <1>2, <1>3 DEF DataInv

LEMMA DataStep ==
  ASSUME IInv, DataInv, [Next]_vars
  PROVE  DataInv'
<1>1. Routed /\ Carried /\ Expected
  BY DEF DataInv
<1>2. Routed' /\ Carried'
  BY <1>1, RoutedStep, CarriedStep
<1>3. Expected'
  <2>1. CASE Driver
    <3>1. CASE Return \/ TimeOut
      <4>1. word' = "none" /\ UNCHANGED << rushed, inhibit, fifo, transfer, pending >>
        BY <3>1 DEF Return, TimeOut, Throw, Leave, registers, line
      <4>2. QED
        BY <1>1, <4>1, LeftExpected
    <3>2. QED
      BY <1>1, <2>1, <3>1, ResetExpected, QuietExpected, WidthExpected, SentExpected,
         EndedExpected, ReadyExpected, WordExpected, DoneExpected DEF Driver
  <2>2. CASE Hardware
    BY <1>1, <2>2, AnswerExpected, ArrivalExpected DEF Hardware
  <2>3. CASE SdEnable \/ \E b \in Blocks : SdReadBlock(b)
    BY <1>1, <2>3, StartedExpected
  <2>4. CASE Restart
    <3>1. word' = "none" /\ UNCHANGED << rushed, inhibit, fifo, transfer, pending >>
      BY <2>4 DEF Restart, Leave, registers, line
    <3>2. QED
      BY <1>1, <3>1, LeftExpected
  <2>5. CASE UNCHANGED vars
    <3>1. UNCHANGED driver /\ UNCHANGED << inhibit, fifo, transfer, pending >>
      BY <2>5 DEF vars, registers, line
    <3>2. Arriving => Arriving'
      BY <3>1, Watching DEF Arriving, Still, Whole
    <3>3. QED
      BY <1>1, <3>1, <3>2, Watching, LineStays DEF Expected
  <2>6. QED
    BY <2>1, <2>2, <2>3, <2>4, <2>5 DEF Next
<1>4. QED
  BY <1>2, <1>3 DEF DataInv

\* SD-READ-BLOCK returns the block it was asked for, whole and in order, from
\* any card that is addressed in bytes and for any size of block and FIFO,
\* whatever earlier reads left behind, unless since the last reset something has
\* been sent while an inhibit bit was set, which the driver does not test
\* (sdcard.f:237, 467, 633).
THEOREM Reads == ASSUME ~ HighCapacity PROVE Spec => []ReadsAsked
<1>1. DataInv => ReadsAsked
  BY DEF DataInv, Expected, ReadsAsked, Wanted, Addressed
<1>2. IInv /\ DataInv /\ [Next]_vars => DataInv'
  BY DataStep
<1>3. QED
  BY <1>1, <1>2, Starts, Step, DataStarts, PTL DEF Spec

----------------------------------------------------------------------------
(* SD-ENABLE, stage by stage.                                              *)

\* How many stages a plan still has, and which comes first.  The last four
\* pairs are those of SET-BUS-WIDTH.
Spots ==
  {<< 18, "reset" >>, << 17, "clock" >>, << 16, "CMD0" >>, << 15, "CMD8" >>, << 14, "CMD55" >>,
   << 13, "ACMD41" >>, << 12, "CMD2" >>, << 11, "CMD3" >>, << 10, "CMD9" >>, << 9, "clock" >>,
   << 8, "CMD7" >>, << 7, "dat" >>, << 6, "CMD55" >>, << 5, "ACMD51" >>, << 4, "ready" >>,
   << 3, "bytes" >>, << 2, "width" >>, << 1, "CMD16" >>,
   << 4, "CMD55" >>, << 3, "ACMD6" >>, << 2, "control0" >>}
InPlace(p) == \A i \in 1..Len(p) : << Len(p) + 1 - i, p[i] >> \in Spots
Placed == word = "enable" => InPlace(plan)

\* What the card must be with n stages to go.
States(n) ==
  IF n >= 15 THEN {"idle", "ready", "ident", "stby", "tran", "data"}
  ELSE IF n >= 13 THEN {"idle"} ELSE IF n = 12 THEN {"idle", "ready"}
  ELSE IF n = 11 THEN {"ident"} ELSE IF n >= 8 THEN {"stby"}
  ELSE IF n >= 5 THEN {"tran"} ELSE {"tran", "data"}
Agreed(n, stage, address, k, width) ==
  /\ k.state \in States(n)
  /\ n <= 10 => address # 0 /\ k.rca = address
  /\ 3 <= n /\ n <= 14 => k.width = 1
  /\ n = 2 => k.width = IF stage \in {"ACMD6", "control0"} THEN 4 ELSE 1
  /\ n <= 1 => k.width = width
  /\ n >= 2 => width = 1

\* The card is one stage ahead of the driver once it has answered.
InCommand == Stage \in Commands /\ pc = "done"
Taken == Stage \in Commands /\ (pc = "response" \/ (pc = "done" /\ pending = {}))
Lost == InCommand /\ pending = {} /\ "done" \notin irpt
Todo == IF Taken THEN Len(plan) - 1 ELSE Len(plan)
Kept == IF Stage = "CMD3" /\ Taken THEN resp.rca ELSE rca
Past == word = "enable" /\ Stage # "reset"
Progress ==
  Past =>
    /\ ~ rushed
    /\ ~ InCommand => pending = {}
    /\ "cmd" \in inhibit => pending # {}
    /\ Len(plan) \in 6..18 => "dat" \notin inhibit
    /\ ~ Lost => Agreed(Todo, Stage, Kept, card, host)

Bred ==
  /\ card.state = "idle" => card.width = 1
  /\ transfer # << >> => card.state \in {"tran", "data"}
Sound ==
  /\ rushed \/ up => \A c \in pending : c.name = "CMD17"
  /\ word = "enable" => ~ up
  /\ word = "read" => up
  /\ EnableSound

EnableInv == Placed /\ Progress /\ Bred /\ Sound

LEMMA SpotsOf ==
  ASSUME NEW n, NEW s, << n, s >> \in Spots
  PROVE  /\ n \in 1..18 /\ s # "CMD17" /\ s # "none"
         /\ s = "reset" => n = 18
         /\ s = "dat" => n = 7
         /\ s = "ACMD51" => n \notin 6..18
         /\ s \in {"clock", "dat", "ready", "bytes"} => n \in 3..18
         /\ s \in {"width", "control0"} => n = 2
         /\ n = 17 => s = "clock"
BY DEF Spots

LEMMA EnablePlanInPlace == InPlace(EnablePlan) /\ Len(EnablePlan) = 18
<1> DEFINE p == EnablePlan
<1>1. Len(p) = 18
  BY DEF EnablePlan
<1>2. /\ p[1] = "reset" /\ p[2] = "clock" /\ p[3] = "CMD0" /\ p[4] = "CMD8" /\ p[5] = "CMD55"
      /\ p[6] = "ACMD41" /\ p[7] = "CMD2" /\ p[8] = "CMD3" /\ p[9] = "CMD9"
  BY DEF EnablePlan
<1>3. /\ p[10] = "clock" /\ p[11] = "CMD7" /\ p[12] = "dat" /\ p[13] = "CMD55"
      /\ p[14] = "ACMD51" /\ p[15] = "ready" /\ p[16] = "bytes" /\ p[17] = "width"
      /\ p[18] = "CMD16"
  BY DEF EnablePlan
<1> HIDE DEF p
<1>4. \A i \in 1..9 : << 19 - i, p[i] >> \in Spots
  BY <1>2 DEF Spots
<1>5. \A i \in 10..18 : << 19 - i, p[i] >> \in Spots
  BY <1>3 DEF Spots
<1>6. InPlace(p)
  BY <1>1, <1>4, <1>5 DEF InPlace
<1>7. QED
  BY <1>1, <1>6 DEF p

LEMMA TailInPlace ==
  ASSUME NEW S, NEW p \in Seq(S), p # << >>, InPlace(p)
  PROVE  /\ InPlace(Tail(p)) /\ Len(Tail(p)) = Len(p) - 1
         /\ Len(p) \in Nat \ {0} /\ << Len(p), p[1] >> \in Spots
<1> DEFINE t == Tail(p)
           n == Len(p)
           m == Len(t)
<1>1. n \in Nat \ {0} /\ m = n - 1 /\ \A i \in 1..m : t[i] = p[i + 1]
  BY Heads
<1>2. \A i \in 1..n : << n + 1 - i, p[i] >> \in Spots
  BY DEF InPlace
<1> HIDE DEF t, n, m
<1>3. << n, p[1] >> \in Spots
  <2>1. 1 \in 1..n /\ n + 1 - 1 = n
    BY <1>1
  <2>2. QED
    BY <1>2, <2>1
<1>4. ASSUME NEW i \in 1..m
      PROVE  << m + 1 - i, t[i] >> \in Spots
  <2>1. i + 1 \in 1..n /\ n + 1 - (i + 1) = m + 1 - i
    BY <1>1
  <2>2. << n + 1 - (i + 1), p[i + 1] >> \in Spots
    BY <1>2, <2>1
  <2>3. QED
    BY <1>1, <2>1, <2>2
<1>5. InPlace(t)
  BY <1>4 DEF InPlace, m
<1>6. QED
  BY <1>1, <1>3, <1>5 DEF t, n, m

LEMMA WidthInPlace ==
  ASSUME NEW p \in Seq(EnableStages), p # << >>, p[1] = "width", InPlace(p)
  PROVE  /\ InPlace(WidthPlan \o Tail(p)) /\ Len(WidthPlan \o Tail(p)) = 4
         /\ Len(p) = 2
<1> DEFINE t == Tail(p)
           w == WidthPlan
           q == w \o t
<1>1. Len(p) = 2 /\ InPlace(t) /\ Len(t) = Len(p) - 1 /\ t \in Seq(EnableStages)
  BY TailInPlace, Heads DEF Spots
<1>2. Len(t) = 1 /\ << 1 + 1 - 1, t[1] >> \in Spots
  BY <1>1 DEF InPlace
<1>3. t[1] = "CMD16"
  BY <1>2 DEF Spots
<1>4. Len(w) = 3 /\ w[1] = "CMD55" /\ w[2] = "ACMD6" /\ w[3] = "control0"
      /\ w \in Seq(EnableStages)
  BY DEF WidthPlan, EnableStages, Commands
<1> HIDE DEF t, w
<1>5. Len(q) = 4 /\ \A i \in 1..4 : q[i] = IF i <= 3 THEN w[i] ELSE t[i - 3]
  <2>1. /\ Len(q) = Len(w) + Len(t)
        /\ \A i \in 1..Len(w) + Len(t) : q[i] = IF i <= Len(w) THEN w[i] ELSE t[i - Len(w)]
    BY <1>1, <1>4, ConcatProperties
  <2>2. QED
    BY <1>2, <1>4, <2>1
<1> HIDE DEF q
<1>6. q[1] = "CMD55" /\ q[2] = "ACMD6" /\ q[3] = "control0" /\ q[4] = "CMD16"
  BY <1>3, <1>4, <1>5
<1>7. \A i \in 1..4 : << 4 + 1 - i, q[i] >> \in Spots
  BY <1>6 DEF Spots
<1>8. InPlace(q)
  BY <1>5, <1>7 DEF InPlace
<1>9. QED
  BY <1>1, <1>5, <1>8 DEF q, w, t

\* Where SD-ENABLE is.
LEMMA Spot ==
  ASSUME Routed, Placed, word = "enable"
  PROVE  /\ plan # << >> => /\ Stage = plan[1] /\ << Len(plan), Stage >> \in Spots
                            /\ Len(plan) \in 1..18 /\ Stage # "none"
                            /\ Len(Tail(plan)) = Len(plan) - 1 /\ InPlace(Tail(plan))
         /\ plan = << >> => Stage = "none" /\ Len(plan) = 0
<1>1. plan \in Seq(EnableStages)
  BY DEF Routed, Ordered
<1>2. ASSUME plan # << >>
      PROVE  /\ Stage = plan[1] /\ << Len(plan), Stage >> \in Spots
             /\ Len(plan) \in 1..18 /\ Stage # "none"
             /\ Len(Tail(plan)) = Len(plan) - 1 /\ InPlace(Tail(plan))
  <2>1. Stage = plan[1]
    BY <1>2 DEF Stage
  <2>2. /\ << Len(plan), Stage >> \in Spots /\ Len(plan) \in Nat
        /\ Len(Tail(plan)) = Len(plan) - 1 /\ InPlace(Tail(plan))
    BY <1>1, <1>2, <2>1, TailInPlace DEF Placed
  <2>3. Len(plan) \in 1..18 /\ Stage # "none"
    BY <2>2 DEF Spots
  <2>4. QED
    BY <2>1, <2>2, <2>3
<1>3. QED
  BY <1>2, EmptyPlan

\* A stage done leads to the next in its place.
LEMMA SpotOn ==
  ASSUME Routed, Placed, word = "enable", plan # << >>, NextStage, word' = word
  PROVE  /\ Placed' /\ Len(plan') = Len(plan) - 1 /\ pc' = "start"
         /\ plan' # << >> => << Stage, Stage' >> \in EnableFollows /\ Stage' # "reset"
         /\ plan' # << >> => << Len(plan'), Stage' >> \in Spots
         /\ plan' = << >> => Stage' = "none"
<1>1. plan \in Seq(EnableStages) /\ plan' = Tail(plan) /\ pc' = "start"
  BY DEF Routed, Ordered, NextStage
<1>2. Tail(plan) \in Seq(EnableStages) /\ Len(Tail(plan)) = Len(plan) - 1 /\ InPlace(Tail(plan))
  BY <1>1, Spot, Heads
<1>3. Tail(plan) # << >> =>
        << plan[1], Tail(plan)[1] >> \in EnableFollows /\ << Len(Tail(plan)), Tail(plan)[1] >> \in Spots
  <2>1. Tail(plan) # << >> => << plan[1], Tail(plan)[1] >> \in EnableFollows
    BY TailOrdered DEF Routed
  <2>2. Tail(plan) # << >> => << Len(Tail(plan)), Tail(plan)[1] >> \in Spots
    BY <1>2, TailInPlace
  <2>3. QED
    BY <2>1, <2>2
<1>4. Stage = plan[1] /\ Stage' = IF plan' = << >> THEN "none" ELSE plan'[1]
  BY DEF Stage
<1>5. << Stage, "reset" >> \notin EnableFollows
  BY DEF EnableFollows
<1>6. QED
  BY <1>1, <1>2, <1>3, <1>4, <1>5 DEF Placed

----------------------------------------------------------------------------
(* What card and driver agree on.                                          *)

\* Stages without a command change nothing of it.
LEMMA AgreedOn ==
  ASSUME NEW n, NEW s, NEW t, NEW a, NEW k, NEW h,
         << n, s >> \in Spots, s \in {"clock", "dat", "ready", "bytes"},
         << s, t >> \in EnableFollows, Agreed(n, s, a, k, h)
  PROVE  Agreed(n - 1, t, a, k, h)
<1>1. << n, s >> \in {<< 17, "clock" >>, << 9, "clock" >>, << 7, "dat" >>, << 4, "ready" >>, << 3, "bytes" >>}
  BY DEF Spots
<1>2. s = "bytes" => t = "width"
  BY DEF EnableFollows
<1>3. QED
  BY <1>1, <1>2 DEF Agreed, States

\* A response read leads to the next stage.
LEMMA AgreedResponse ==
  ASSUME NEW n, NEW s, NEW t, NEW a, NEW k, NEW h,
         << n, s >> \in Spots, s \in Commands,
         n = 1 \/ << s, t >> \in EnableFollows, Agreed(n - 1, s, a, k, h)
  PROVE  Agreed(n - 1, t, a, k, h)
<1>1. n - 1 = 2 => s = "ACMD6"
  BY DEF Spots, Commands
<1>2. s = "ACMD6" /\ n # 1 => t = "control0"
  BY DEF EnableFollows
<1>3. n \in 1..18
  BY DEF Spots
<1>4. QED
  BY <1>1, <1>2, <1>3 DEF Agreed

\* Commands that need no answer.
LEMMA AgreedSilent ==
  ASSUME NEW n, NEW s, NEW a, NEW k, NEW h,
         << n, s >> \in Spots, s \in {"CMD0", "CMD55"}, Agreed(n, s, a, k, h)
  PROVE  Agreed(n - 1, s, a, k, h)
<1>1. << n, s >> \in {<< 16, "CMD0" >>, << 14, "CMD55" >>, << 6, "CMD55" >>, << 4, "CMD55" >>}
  BY DEF Spots
<1>2. CASE n = 16
  BY <1>2 DEF Agreed, States
<1>3. CASE n \in {14, 6, 4}
  BY <1>3 DEF Agreed, States
<1>4. QED
  BY <1>1, <1>2, <1>3

\* What a command makes of the card.
LEMMA AfterFields ==
  ASSUME card \in Card, NEW c, NEW k \in After(c), c.name \in Commands
  PROVE  /\ c.name \notin {"CMD0", "CMD3"} => k.rca = card.rca
         /\ c.name = "CMD0" => k.state = "idle" /\ k.width = 1
         /\ c.name = "CMD8" => card.state = "idle" /\ k.state = "idle"
         /\ c.name \in {"CMD55", "CMD16"} => k.state = card.state
         /\ c.name = "ACMD41" => card.state = "idle" /\ k.state \in {"idle", "ready"}
         /\ c.name = "CMD2" => k.state = "ident"
         /\ c.name = "CMD3" => k.state = "stby" /\ k.rca \in Rcas
         /\ c.name = "CMD9" => k.state = "stby"
         /\ c.name = "CMD7" => k.state = "tran"
         /\ c.name \in {"ACMD51", "CMD17"} => card.state = "tran" /\ k.state = "data"
         /\ c.name = "ACMD6" => card.state = "tran" /\ k.state = "tran" /\ k.width = 4
         /\ c.name \notin {"CMD0", "ACMD6"} => k.width = card.width
<1> DEFINE b == Bare(c)
           to(s) == [b EXCEPT !.state = s]
<1>1. b \in Card /\ b.state = card.state /\ b.rca = card.rca /\ b.width = card.width
  BY DEF Card, Bare
<1>2. \A s : to(s).state = s /\ to(s).rca = card.rca /\ to(s).width = card.width
  BY <1>1 DEF Card
<1>3. \A r : LET x == [to("stby") EXCEPT !.rca = r] IN x.state = "stby" /\ x.rca = r /\ x.width = card.width
  BY <1>1 DEF Card
<1>4. LET x == [b EXCEPT !.width = 4] IN x.state = card.state /\ x.rca = card.rca /\ x.width = 4
  BY <1>1 DEF Card
<1>5. LET x == [card EXCEPT !.app = TRUE] IN
        x.state = card.state /\ x.rca = card.rca /\ x.width = card.width
  BY DEF Card
<1>6. CASE c.name = "CMD0"
  BY <1>6 DEF After
<1>7. CASE c.name \in {"CMD8", "CMD9", "CMD16"}
  BY <1>1, <1>7 DEF After
<1>8. CASE c.name = "CMD55"
  BY <1>5, <1>8 DEF After
<1>9. CASE c.name \in {"ACMD41", "CMD2", "CMD7", "ACMD51", "CMD17"}
  <2>1. /\ c.name = "ACMD41" => card.state = "idle" /\ (k = to("idle") \/ k = to("ready"))
        /\ c.name = "CMD2" => k = to("ident")
        /\ c.name = "CMD7" => k = to("tran")
        /\ c.name \in {"ACMD51", "CMD17"} => card.state = "tran" /\ k = to("data")
    BY <1>9 DEF After
  <2> HIDE DEF to
  <2>2. QED
    BY <1>2, <1>9, <2>1
<1>10. CASE c.name = "CMD3"
  <2>1. PICK r \in Rcas : k = [to("stby") EXCEPT !.rca = r]
    BY <1>10 DEF After
  <2>2. k.state = "stby" /\ k.rca = r /\ k.width = card.width
    BY <1>3, <2>1
  <2>3. QED
    BY <1>10, <2>2
<1>11. CASE c.name = "ACMD6"
  BY <1>4, <1>11 DEF After
<1>12. QED
  BY <1>6, <1>7, <1>8, <1>9, <1>10, <1>11 DEF Commands

\* An answered command brings the card one stage on.
LEMMA AgreedAnswer ==
  ASSUME card \in Card, card.state = "idle" => card.width = 1,
         NEW n, NEW s \in Commands, NEW a, NEW h,
         << n, s >> \in Spots, Agreed(n, s, a, card, h),
         NEW c, NEW k \in After(c), c.name = s
  PROVE  Agreed(n - 1, s, IF s = "CMD3" THEN k.rca ELSE a, k, h)
<1>1. 0 \notin Rcas
  BY CardAssumption
<1> DEFINE u == card
<1>2. /\ s \notin {"CMD0", "CMD3"} => k.rca = u.rca
      /\ s = "CMD0" => k.state = "idle" /\ k.width = 1
      /\ s = "CMD8" => u.state = "idle" /\ k.state = "idle"
      /\ s \in {"CMD55", "CMD16"} => k.state = u.state
      /\ s = "ACMD41" => u.state = "idle" /\ k.state \in {"idle", "ready"}
      /\ s = "CMD2" => k.state = "ident"
      /\ s = "CMD3" => k.state = "stby" /\ k.rca \in Rcas
      /\ s = "CMD9" => k.state = "stby"
      /\ s = "CMD7" => k.state = "tran"
      /\ s \in {"ACMD51", "CMD17"} => u.state = "tran" /\ k.state = "data"
      /\ s = "ACMD6" => u.state = "tran" /\ k.state = "tran" /\ k.width = 4
      /\ s \notin {"CMD0", "ACMD6"} => k.width = u.width
  BY AfterFields
<1>3. u.state = "idle" => u.width = 1
  OBVIOUS
<1>4. Agreed(n, s, a, u, h)
  OBVIOUS
<1> HIDE DEF u
<1>5. CASE s \in {"CMD0", "CMD8", "CMD55", "ACMD41"}
  <2>1. << n, s >> \in {<< 16, "CMD0" >>, << 15, "CMD8" >>, << 14, "CMD55" >>, << 6, "CMD55" >>,
                        << 4, "CMD55" >>, << 13, "ACMD41" >>}
    BY <1>5 DEF Spots
  <2>2. QED
    BY <1>2, <1>3, <1>4, <1>5, <2>1 DEF Agreed, States
<1>6. CASE s \in {"CMD2", "CMD3", "CMD9", "CMD7"}
  <2>1. << n, s >> \in {<< 12, "CMD2" >>, << 11, "CMD3" >>, << 10, "CMD9" >>, << 8, "CMD7" >>}
    BY <1>6 DEF Spots
  <2>2. QED
    BY <1>1, <1>2, <1>4, <1>6, <2>1 DEF Agreed, States
<1>7. CASE s \in {"ACMD51", "ACMD6", "CMD16"}
  <2>1. << n, s >> \in {<< 5, "ACMD51" >>, << 3, "ACMD6" >>, << 1, "CMD16" >>}
    BY <1>7 DEF Spots
  <2>2. QED
    BY <1>2, <1>4, <1>7, <2>1 DEF Agreed, States
<1>8. s # "CMD17"
  BY DEF Spots
<1>9. QED
  BY <1>5, <1>6, <1>7, <1>8 DEF Commands

LEMMA AgreedArrival ==
  ASSUME card \in Card, NEW n, NEW s, NEW a, NEW h, Agreed(n, s, a, card, h),
         card.state \in {"tran", "data"}
  PROVE  Agreed(n, s, a, [card EXCEPT !.state = "tran"], h)
<1> DEFINE k == [card EXCEPT !.state = "tran"]
<1>1. k.state = "tran" /\ k.rca = card.rca /\ k.width = card.width
  BY DEF Card
<1> HIDE DEF k
<1>2. k.state \in States(n)
  BY <1>1 DEF Agreed, States
<1>3. Agreed(n, s, a, k, h)
  BY <1>1, <1>2 DEF Agreed
<1>4. QED
  BY <1>3 DEF k

----------------------------------------------------------------------------
(* A step of SD-ENABLE, of the hardware, of anything.                      *)

LEMMA PlacedStep ==
  ASSUME IInv, Routed, Placed, [Next]_vars
  PROVE  Placed'
<1>1. CASE word' # "enable" \/ UNCHANGED << word, plan >>
  BY <1>1 DEF Placed, InPlace
<1>2. CASE SdEnable
  BY <1>2, EnablePlanInPlace DEF SdEnable, Placed
<1>3. CASE word # "none" /\ word' = word /\ Stage # "none" /\ NextStage
  BY <1>1, <1>3, EmptyPlan, SpotOn
<1>4. CASE SetWidth
  <2>1. SUFFICES ASSUME word' = "enable" PROVE Placed'
    BY <1>1
  <2>2. /\ word = "enable" /\ Stage = "width"
        /\ plan' = WidthPlan \o Tail(plan) \/ plan' = Tail(plan)
    BY <1>4, <2>1 DEF SetWidth, At
  <2>3. plan # << >> /\ plan[1] = "width" /\ plan \in Seq(EnableStages) /\ InPlace(plan)
    BY <2>2, EmptyPlan, Spot DEF Routed, Ordered, Placed
  <2>4. InPlace(Tail(plan)) /\ InPlace(WidthPlan \o Tail(plan))
    BY <2>3, TailInPlace, WidthInPlace
  <2>5. QED
    BY <2>2, <2>4 DEF Placed
<1>5. CASE Hardware \/ UNCHANGED vars
  BY <1>1, <1>5 DEF Hardware, Answer, NoAnswer, DataWord, DataError, driver, vars
<1>6. CASE Return \/ TimeOut \/ Restart \/ \E b \in Blocks : SdReadBlock(b)
  BY <1>1, <1>6 DEF Return, TimeOut, Restart, SdReadBlock, Throw, Leave
<1>7. CASE WaitCommand \/ ClearInterrupts \/ Issue \/ AwaitDone \/ StartBytes \/ ReadWord
  BY <1>1, <1>7 DEF WaitCommand, ClearInterrupts, Issue, AwaitDone, StartBytes, ReadWord, Throw, Leave
<1>8. CASE \/ ResetHost \/ SetClock \/ WaitData \/ AwaitReady \/ Response \/ BytesDone \/ SetControl0
  <2>1. word' = "none" \/ (word # "none" /\ word' = word /\ Stage # "none" /\ NextStage)
    <3>1. Stage \in Commands => Stage # "none"
      BY DEF Commands
    <3>2. QED
      BY <1>8, <3>1 DEF ResetHost, SetClock, WaitData, AwaitReady, Response, BytesDone, SetControl0,
                        At, Sending, Throw, Leave
  <2>2. QED
    BY <1>1, <1>3, <2>1
<1>9. QED
  BY <1>2, <1>4, <1>5, <1>6, <1>7, <1>8 DEF Next, Driver

\* The controller is reset, and the card may be anything.
LEMMA ResetProgress ==
  ASSUME IInv, Routed, Placed, ResetHost, word = "enable"
  PROVE  Progress'
<1>1. /\ Stage = "reset" /\ NextStage /\ word' = word
      /\ pending' = {} /\ inhibit' = {} /\ ~ rushed' /\ host' = 1 /\ card' = card
  BY DEF ResetHost, At
<1>2. plan # << >> /\ << Len(plan), Stage >> \in Spots
  BY <1>1, EmptyPlan, Spot
<1>3. Len(plan) = 18
  BY <1>1, <1>2 DEF Spots
<1>4. Len(plan') = 17 /\ pc' = "start" /\ (plan' # << >> => << Len(plan'), Stage' >> \in Spots)
  BY <1>1, <1>2, <1>3, SpotOn
<1>5. Stage' = "clock"
  <2>1. plan' # << >>
    BY <1>4
  <2>2. QED
    BY <1>4, <2>1 DEF Spots
<1>6. ~ Taken' /\ Todo' = 17
  BY <1>4 DEF Taken, Todo
<1>7. card'.state \in States(17)
  BY <1>1 DEF IInv, Typing, Card, States
<1>8. Agreed(17, Stage', Kept', card', host')
  BY <1>1, <1>7 DEF Agreed
<1>9. QED
  BY <1>1, <1>6, <1>8 DEF Progress

\* Stages without a command.
LEMMA WaitProgress ==
  ASSUME IInv, Routed, Placed, Progress, word = "enable",
         SetClock \/ WaitData \/ AwaitReady \/ BytesDone
  PROVE  Progress'
<1>1. SUFFICES ASSUME word' = "enable" PROVE Progress'
  BY DEF Progress, Past
<1>2. /\ Stage \in {"clock", "dat", "ready", "bytes"} /\ NextStage /\ word' = word
      /\ UNCHANGED << rca, host, card, pending, inhibit >>
  <2>1. CASE SetClock \/ WaitData \/ BytesDone
    BY <2>1 DEF SetClock, WaitData, BytesDone, At, registers, line
  <2>2. CASE AwaitReady
    BY <1>1, <2>2 DEF AwaitReady, Noticed, At, Throw, Leave, line
  <2>3. QED
    BY <2>1, <2>2
<1>3. plan # << >> /\ << Len(plan), Stage >> \in Spots /\ Len(plan) \in 1..18
  BY <1>2, EmptyPlan, Spot
<1>4. /\ ~ rushed /\ pending = {} /\ "cmd" \notin inhibit /\ (Len(plan) \in 6..18 => "dat" \notin inhibit)
      /\ Agreed(Len(plan), Stage, rca, card, host)
  <2>1. Stage \notin Commands /\ Stage # "reset"
    BY <1>2 DEF Commands
  <2>2. ~ InCommand /\ ~ Taken /\ ~ Lost /\ Past
    BY <2>1 DEF InCommand, Taken, Lost, Past
  <2>3. QED
    BY <2>2 DEF Progress, Todo, Kept
<1>5. ~ rushed'
  <2>1. Stage = "dat" => Len(plan) \in 6..18
    <3>1. Stage = "dat" => Len(plan) = 7
      BY <1>3, SpotsOf
    <3>2. QED
      BY <3>1
  <2>2. WaitData => ~ rushed'
    BY <1>4, <2>1 DEF WaitData, Noted, At
  <2>3. SetClock \/ AwaitReady \/ BytesDone => rushed' = rushed
    BY DEF SetClock, AwaitReady, BytesDone, Throw
  <2>4. QED
    BY <1>4, <2>2, <2>3
<1>6. /\ Len(plan') = Len(plan) - 1 /\ pc' = "start"
      /\ << Stage, Stage' >> \in EnableFollows
  <2> DEFINE n == Len(plan)
  <2>1. n \in 3..18
    BY <1>2, <1>3, SpotsOf
  <2> HIDE DEF n
  <2>2. n - 1 # 0
    BY <2>1
  <2>3. /\ Len(plan') = Len(plan) - 1 /\ pc' = "start"
        /\ plan' # << >> => << Stage, Stage' >> \in EnableFollows
    BY <1>2, <1>3, SpotOn
  <2>4. plan' # << >>
    <3>1. Len(plan') # 0
      BY <2>2, <2>3 DEF n
    <3>2. QED
      BY <3>1
  <2>5. QED
    BY <2>3, <2>4
<1>7. Agreed(Len(plan'), Stage', rca', card', host')
  BY <1>2, <1>3, <1>4, <1>6, AgreedOn
<1>8. ~ Taken' /\ ~ InCommand' /\ ~ Lost'
  BY <1>6 DEF Taken, InCommand, Lost
<1>9. Todo' = Len(plan') /\ Kept' = rca'
  BY <1>8 DEF Todo, Kept
<1>10. pending' = {} /\ "cmd" \notin inhibit' /\ (Len(plan') \in 6..18 => "dat" \notin inhibit')
  <2> DEFINE n == Len(plan)
             m == Len(plan')
  <2>1. m = n - 1 /\ n \in 1..18 /\ (n \in 6..18 => "dat" \notin inhibit)
    BY <1>3, <1>4, <1>6
  <2> HIDE DEF n, m
  <2>2. m \in 6..18 => "dat" \notin inhibit
    BY <2>1
  <2>3. QED
    BY <1>2, <1>4, <2>2 DEF m
<1>11. QED
  BY <1>5, <1>7, <1>8, <1>9, <1>10 DEF Progress

\* What Progress says of a command, before it is sent and after.
LEMMA CommandKnown ==
  ASSUME IInv, Routed, Placed, Progress, word = "enable", Stage \in Commands
  PROVE  /\ ~ rushed /\ (pc # "done" => pending = {} /\ "cmd" \notin inhibit)
         /\ (Len(plan) \in 6..18 => "dat" \notin inhibit)
         /\ plan # << >> /\ << Len(plan), Stage >> \in Spots
         /\ ~ Taken => Agreed(Len(plan), Stage, rca, card, host)
         /\ pc = "response" => Agreed(Len(plan) - 1, Stage, Kept, card, host)
<1>1. Stage # "reset" /\ Stage # "none"
  BY DEF Commands
<1>2. Past /\ (pc # "done" => ~ InCommand /\ ~ Lost) /\ (~ Taken => ~ Lost)
  BY <1>1 DEF Past, InCommand, Lost, Taken
<1>3. plan # << >> /\ << Len(plan), Stage >> \in Spots
  BY <1>1, EmptyPlan, Spot
<1>4. ~ Taken => Todo = Len(plan) /\ Kept = rca
  BY DEF Todo, Kept
<1>5. pc = "response" => Todo = Len(plan) - 1
  BY DEF Todo, Taken
<1>6. QED
  BY <1>2, <1>3, <1>4, <1>5 DEF Progress

LEMMA SendProgress ==
  ASSUME IInv, Routed, Placed, Progress, word = "enable",
         WaitCommand \/ ClearInterrupts \/ Issue \/ AwaitDone
  PROVE  Progress'
<1>1. SUFFICES ASSUME word' = "enable" PROVE Progress'
  BY DEF Progress, Past
<1>2. Stage \in Commands /\ UNCHANGED << word, plan, rca, host, card >> /\ (Issue \/ resp' = resp)
  <2>1. CASE WaitCommand \/ ClearInterrupts
    BY <2>1 DEF WaitCommand, ClearInterrupts, Sending, registers, line
  <2>2. CASE Issue
    BY <2>2 DEF Issue, Sending
  <2>3. CASE AwaitDone
    BY <1>1, <2>3 DEF AwaitDone, Noticed, Sending, Throw, Leave, line
  <2>4. QED
    BY <2>1, <2>2, <2>3
<1>3. Stage' = Stage
  BY <1>2 DEF Stage
<1>4. /\ ~ rushed /\ (pc # "done" => pending = {} /\ "cmd" \notin inhibit)
      /\ (Len(plan) \in 6..18 => "dat" \notin inhibit)
      /\ << Len(plan), Stage >> \in Spots
      /\ ~ Taken => Agreed(Len(plan), Stage, rca, card, host)
  BY <1>2, CommandKnown
<1>5. CASE WaitCommand \/ ClearInterrupts
  <2>1. /\ pc \in {"start", "clear"} /\ pc' \in {"clear", "issue"}
        /\ UNCHANGED << inhibit, pending >>
    BY <1>5 DEF WaitCommand, ClearInterrupts, Sending, registers, line
  <2>2. ~ rushed'
    BY <1>4, <1>5, <2>1 DEF WaitCommand, ClearInterrupts, Noted
  <2>3. ~ Taken /\ ~ Taken' /\ ~ InCommand' /\ ~ Lost'
    BY <2>1 DEF Taken, InCommand, Lost
  <2>4. Todo' = Len(plan) /\ Kept' = rca
    BY <1>2, <2>3 DEF Todo, Kept
  <2>5. QED
    BY <1>2, <1>3, <1>4, <2>1, <2>2, <2>3, <2>4 DEF Progress
<1>6. CASE Issue
  <2>1. /\ pc = "issue" /\ pc' = "done" /\ rushed' = rushed /\ pending' # {}
        /\ inhibit' = inhibit \cup {"cmd"} \cup
             (IF Stage \in {"ACMD51", "CMD17"} THEN {"dat"} ELSE {})
    BY <1>6 DEF Issue, Sending
  <2>2. ~ Taken /\ ~ Taken' /\ InCommand' /\ ~ Lost'
    BY <1>2, <1>3, <2>1 DEF Taken, InCommand, Lost
  <2>3. Todo' = Len(plan) /\ Kept' = rca
    BY <1>2, <2>2 DEF Todo, Kept
  <2>4. Len(plan) \in 6..18 => "dat" \notin inhibit'
    <3>1. Stage # "CMD17" /\ (Stage = "ACMD51" => Len(plan) \notin 6..18)
      BY <1>4, SpotsOf
    <3>2. QED
      BY <1>4, <2>1, <3>1
  <2>5. QED
    BY <1>2, <1>3, <1>4, <2>1, <2>2, <2>3, <2>4 DEF Progress
<1>7. CASE AwaitDone
  <2>1. /\ pc = "done" /\ pc' = "response" /\ "done" \in irpt
        /\ UNCHANGED << rushed, inhibit, pending >>
    BY <1>1, <1>7 DEF AwaitDone, Noticed, Sending, Throw, Leave, line
  <2>2. pending = {}
    BY <1>2, <1>4, <2>1 DEF IInv, Exchange
  <2>3. /\ Taken /\ Taken' /\ ~ Lost /\ Past /\ ~ InCommand'
    <3>1. Stage # "reset"
      BY <1>2 DEF Commands
    <3>2. QED
      BY <1>2, <1>3, <2>1, <2>2, <3>1 DEF Taken, Lost, Past, InCommand
  <2>4. Todo' = Todo /\ Kept' = Kept
    <3>1. resp' = resp
      BY <1>7 DEF AwaitDone, Noticed
    <3>2. QED
      BY <1>2, <1>3, <2>3, <3>1 DEF Todo, Kept
  <2>5. Agreed(Todo, Stage, Kept, card, host) /\ "cmd" \notin inhibit
    BY <2>2, <2>3 DEF Progress
  <2>6. QED
    BY <1>2, <1>3, <1>4, <2>1, <2>2, <2>4, <2>5 DEF Progress
<1>8. QED
  BY <1>5, <1>6, <1>7

LEMMA ResponseProgress ==
  ASSUME IInv, Routed, Placed, Progress, word = "enable", Response
  PROVE  Progress'
<1>1. SUFFICES ASSUME word' = "enable" PROVE Progress'
  BY DEF Progress, Past
<1>2. /\ Stage \in Commands /\ pc = "response" /\ NextStage /\ word' = word
      /\ rca' = (IF Stage = "CMD3" THEN resp.rca ELSE rca)
      /\ UNCHANGED << rushed, host, card, pending, inhibit >>
  BY <1>1 DEF Response, Sending, Throw, Leave, registers, line
<1>3. /\ ~ rushed /\ pending = {} /\ "cmd" \notin inhibit
      /\ (Len(plan) \in 6..18 => "dat" \notin inhibit)
      /\ plan # << >> /\ << Len(plan), Stage >> \in Spots
      /\ Agreed(Len(plan) - 1, Stage, Kept, card, host)
  BY <1>2, CommandKnown
<1>4. Kept = rca'
  BY <1>2 DEF Kept, Taken
<1>5. /\ Len(plan') = Len(plan) - 1 /\ pc' = "start"
      /\ plan' # << >> => << Stage, Stage' >> \in EnableFollows
  BY <1>2, <1>3, SpotOn
<1>6. Len(plan) \in 1..18
  BY <1>3, SpotsOf
<1> DEFINE n == Len(plan)
           m == Len(plan')
<1>7. m = n - 1 /\ n \in 1..18
  BY <1>5, <1>6
<1>8. plan' = << >> => m = 0
  OBVIOUS
<1>9. Agreed(n - 1, Stage, rca', card, host) /\ << n, Stage >> \in Spots
  BY <1>3, <1>4
<1>10. "dat" \in inhibit => n \notin 6..18
  BY <1>3
<1> HIDE DEF n, m
<1>11. n = 1 \/ << Stage, Stage' >> \in EnableFollows
  BY <1>5, <1>7, <1>8
<1>12. Agreed(n - 1, Stage', rca', card, host)
  BY <1>2, <1>9, <1>11, AgreedResponse
<1>13. Agreed(m, Stage', rca', card', host') /\ (m \in 6..18 => "dat" \notin inhibit')
  BY <1>2, <1>7, <1>10, <1>12
<1>14. ~ Taken' /\ ~ InCommand'
  BY <1>5 DEF Taken, InCommand
<1>15. Todo' = m /\ Kept' = rca'
  BY <1>14 DEF Todo, Kept, m
<1>16. QED
  BY <1>2, <1>3, <1>13, <1>15 DEF Progress, m

LEMMA BytesProgress ==
  ASSUME IInv, Routed, Placed, Progress, word = "enable", StartBytes \/ ReadWord
  PROVE  Progress'
<1>1. /\ Stage = "bytes" /\ UNCHANGED << word, plan, rca, rushed, host, card, pending >>
      /\ inhibit' \subseteq inhibit
  BY DEF StartBytes, ReadWord, At, registers, line
<1>2. Stage' = Stage
  BY <1>1 DEF Stage
<1>3. Stage \notin Commands
  BY <1>1 DEF Commands
<1>4. ~ Taken /\ ~ Taken' /\ ~ Lost /\ ~ Lost' /\ ~ InCommand /\ ~ InCommand' /\ (Past' <=> Past)
  BY <1>1, <1>2, <1>3 DEF Taken, Lost, InCommand, Past
<1>5. Todo = Len(plan) /\ Todo' = Len(plan) /\ Kept = rca /\ Kept' = rca
  BY <1>1, <1>4 DEF Todo, Kept
<1>6. QED
  BY <1>1, <1>2, <1>4, <1>5 DEF Progress

LEMMA WidthProgress ==
  ASSUME IInv, Routed, Placed, Progress, word = "enable", SetWidth \/ SetControl0
  PROVE  Progress'
<1>1. /\ Stage \in {"width", "control0"} /\ pc = "start" /\ pc' = "start" /\ word' = word
      /\ UNCHANGED << rca, rushed, card, pending, inhibit >>
      /\ host' = IF Stage = "width" THEN host ELSE 4
  BY DEF SetWidth, SetControl0, NextStage, At, registers, line
<1>2. plan # << >> /\ Len(plan) = 2 /\ Stage = plan[1] /\ plan \in Seq(EnableStages) /\ InPlace(plan)
  <2>1. plan # << >>
    BY <1>1, EmptyPlan
  <2>2. << Len(plan), Stage >> \in Spots /\ Stage = plan[1]
    BY <2>1, Spot
  <2>3. QED
    BY <1>1, <2>1, <2>2, SpotsOf DEF Routed, Ordered, Placed
<1>3. ~ rushed /\ pending = {} /\ "cmd" \notin inhibit /\ Agreed(2, Stage, rca, card, host)
  <2>1. Stage \notin Commands /\ Stage # "reset"
    BY <1>1 DEF Commands
  <2>2. ~ InCommand /\ ~ Taken /\ ~ Lost /\ Past
    BY <2>1 DEF InCommand, Taken, Lost, Past
  <2>3. Todo = 2 /\ Kept = rca
    BY <1>2, <2>2 DEF Todo, Kept
  <2>4. QED
    BY <2>2, <2>3 DEF Progress
<1>4. ~ Taken' /\ ~ InCommand'
  BY <1>1 DEF Taken, InCommand
<1>5. Todo' = Len(plan') /\ Kept' = rca
  BY <1>1, <1>4 DEF Todo, Kept
<1>6. \/ Len(plan') = 1 /\ (Stage = "width" => card.width = 1 /\ host = 1)
      \/ Len(plan') = 4 /\ Stage = "width"
  <2>1. plan' = Tail(plan) \/ (Stage = "width" /\ plan' = WidthPlan \o Tail(plan))
    BY <1>1 DEF SetWidth, SetControl0, NextStage, At
  <2>2. Len(Tail(plan)) = 1
    BY <1>2, TailInPlace
  <2>3. Stage = "width" => Len(WidthPlan \o Tail(plan)) = 4
    BY <1>2, WidthInPlace
  <2>4. Stage = "width" => card.width = 1 /\ host = 1
    BY <1>3 DEF Agreed
  <2>5. QED
    BY <2>1, <2>2, <2>3, <2>4
<1>7. Agreed(Len(plan'), Stage', rca, card, host')
  <2>1. CASE Len(plan') = 1
    BY <1>1, <1>3, <1>6, <2>1 DEF Agreed, States
  <2>2. CASE Len(plan') = 4 /\ Stage = "width"
    BY <1>1, <1>3, <2>2 DEF Agreed, States
  <2>3. QED
    BY <1>6, <2>1, <2>2
<1>8. Len(plan') \notin 6..18
  BY <1>6
<1>9. QED
  BY <1>1, <1>3, <1>5, <1>7, <1>8 DEF Progress

\* A command answered, refused or lost while SD-ENABLE waits for it.
LEMMA AnswerProgress ==
  ASSUME IInv, Routed, Placed, Progress, Bred, Past,
         NEW c \in pending, Answer(c) \/ NoAnswer(c)
  PROVE  Progress'
<1>1. /\ UNCHANGED << word, plan, pc, block, rca, rushed, host >>
      /\ pending' = pending \ {c} /\ inhibit' \subseteq inhibit /\ "cmd" \notin inhibit'
  BY DEF Answer, NoAnswer, driver
<1>2. Stage' = Stage
  BY <1>1 DEF Stage
<1>3. ~ rushed /\ InCommand
  BY DEF Progress
<1>4. word = "enable" /\ Stage \in Commands /\ pc = "done"
  BY <1>3 DEF Past, InCommand
<1>5. pending = {Current} /\ c = Current
  <2>1. word # "none"
    BY <1>4
  <2>2. QED
    BY <1>3, <1>4, <2>1 DEF IInv, Exchange
<1>6. ~ Taken
  BY <1>4, <1>5 DEF Taken
<1>7. /\ << Len(plan), Stage >> \in Spots /\ (Len(plan) \in 6..18 => "dat" \notin inhibit)
      /\ Agreed(Len(plan), Stage, rca, card, host)
  BY <1>4, <1>6, CommandKnown
<1>8. Taken' /\ pending' = {} /\ InCommand'
  BY <1>1, <1>2, <1>4, <1>5 DEF Taken, InCommand
<1>9. Todo' = Len(plan) - 1 /\ Kept' = IF Stage = "CMD3" THEN resp'.rca ELSE rca
  BY <1>1, <1>2, <1>8 DEF Todo, Kept
<1>10. c.name = Stage /\ (Silent(c) => Stage \in {"CMD0", "CMD55"})
  BY <1>5 DEF Current, Silent
<1>11. ASSUME ~ Lost' PROVE Agreed(Len(plan) - 1, Stage, Kept', card', host)
  <2>1. CASE Answer(c)
    <3>1. card' \in After(c)
      BY <2>1 DEF Answer
    <3>2. Stage = "CMD3" => resp'.rca = card'.rca
      <4>1. PICK ok \in BOOLEAN :
              resp' = IF Silent(c) THEN resp ELSE [own |-> c.last, ok |-> ok, rca |-> card'.rca]
        BY <2>1, Zenon DEF Answer
      <4>2. QED
        BY <1>10, <4>1
    <3>3. card \in Card /\ (card.state = "idle" => card.width = 1)
      BY DEF IInv, Typing, Bred
    <3>4. Agreed(Len(plan) - 1, Stage, IF Stage = "CMD3" THEN card'.rca ELSE rca, card', host)
      BY <1>4, <1>7, <1>10, <3>1, <3>3, AgreedAnswer
    <3>5. Kept' = IF Stage = "CMD3" THEN card'.rca ELSE rca
      BY <1>9, <3>2
    <3>6. QED
      BY <3>4, <3>5
  <2>2. CASE NoAnswer(c)
    <3>1. card' = card /\ irpt' = irpt \cup (IF Silent(c) THEN {"done"} ELSE {"timeout"})
      BY <2>2 DEF NoAnswer
    <3>2. "done" \in irpt'
      BY <1>8, <1>11 DEF Lost
    <3>3. "done" \notin irpt
      BY <1>3, <1>4, <1>5 DEF IInv, Exchange
    <3>4. Stage \in {"CMD0", "CMD55"}
      BY <1>10, <3>1, <3>2, <3>3
    <3>5. QED
      BY <1>7, <1>9, <3>1, <3>4, AgreedSilent
  <2>3. QED
    BY <2>1, <2>2
<1>12. QED
  BY <1>1, <1>2, <1>3, <1>7, <1>8, <1>9, <1>11 DEF Progress

LEMMA ArrivalProgress ==
  ASSUME IInv, Routed, Placed, Progress, Bred, Past, DataWord \/ DataError
  PROVE  Progress'
<1>1. /\ UNCHANGED << word, plan, pc, rca, rushed, host, pending, resp >>
      /\ inhibit' \subseteq inhibit
      /\ card' = card \/ card' = [card EXCEPT !.state = "tran"]
      /\ transfer # << >> /\ ("done" \in irpt' <=> "done" \in irpt)
  BY DEF DataWord, DataError, driver, Errors
<1>2. Stage' = Stage
  BY <1>1 DEF Stage
<1>3. (InCommand' <=> InCommand) /\ (Taken' <=> Taken)
  BY <1>1, <1>2 DEF InCommand, Taken
<1>4. Lost' <=> Lost
  BY <1>1, <1>3 DEF Lost
<1>5. Todo' = Todo /\ Kept' = Kept
  BY <1>1, <1>2, <1>3 DEF Todo, Kept
<1>6. ~ Lost => Agreed(Todo, Stage, Kept, card', host)
  <2>1. card \in Card /\ card.state \in {"tran", "data"}
    BY <1>1 DEF IInv, Typing, Bred
  <2>2. ~ Lost => Agreed(Todo, Stage, Kept, card, host)
    BY DEF Progress
  <2>3. QED
    BY <1>1, <2>1, <2>2, AgreedArrival
<1>7. QED
  BY <1>1, <1>2, <1>3, <1>4, <1>5, <1>6 DEF Progress

LEMMA ProgressStep ==
  ASSUME IInv, Routed, Placed, Progress, Bred, [Next]_vars
  PROVE  Progress'
<1>1. CASE word' # "enable"
  BY <1>1 DEF Progress, Past
<1>2. CASE SdEnable
  <2>1. plan' = EnablePlan
    BY <1>2 DEF SdEnable
  <2>2. EnablePlan # << >> /\ EnablePlan[1] = "reset"
    BY DEF EnablePlan
  <2>3. Stage' = "reset"
    BY <2>1, <2>2 DEF Stage
  <2>4. QED
    BY <2>3 DEF Progress, Past
<1>3. CASE Return \/ TimeOut \/ Restart \/ \E b \in Blocks : SdReadBlock(b)
  <2>1. word' # "enable"
    BY <1>3 DEF Return, TimeOut, Restart, SdReadBlock, Throw, Leave
  <2>2. QED
    BY <1>1, <2>1
<1>4. CASE \/ ResetHost \/ SetClock \/ WaitData \/ WaitCommand \/ ClearInterrupts \/ Issue
           \/ AwaitDone \/ AwaitReady \/ Response \/ StartBytes \/ ReadWord \/ BytesDone
           \/ SetWidth \/ SetControl0
  <2>1. word' = word \/ word' = "none"
    BY <1>4 DEF ResetHost, SetClock, WaitData, WaitCommand, ClearInterrupts, Issue, AwaitDone,
                AwaitReady, Response, StartBytes, ReadWord, BytesDone, SetWidth, SetControl0,
                Throw, Leave
  <2>2. word = "enable" \/ word' # "enable"
    BY <2>1
  <2>3. QED
    BY <1>1, <1>4, <2>2, ResetProgress, WaitProgress, SendProgress, ResponseProgress,
       BytesProgress, WidthProgress
<1>5. CASE Hardware
  <2>1. UNCHANGED << word, plan >>
    BY <1>5 DEF Hardware, Answer, NoAnswer, DataWord, DataError, driver
  <2>2. Past' <=> Past
    BY <2>1 DEF Past, Stage
  <2>3. CASE ~ Past
    BY <2>2, <2>3 DEF Progress
  <2>4. CASE Past
    BY <1>5, <2>4, AnswerProgress, ArrivalProgress DEF Hardware
  <2>5. QED
    BY <2>3, <2>4
<1>6. CASE UNCHANGED vars
  <2>1. UNCHANGED << word, plan, pc, rca, rushed, host, pending, resp, inhibit, card, irpt >>
    BY <1>6 DEF vars, driver, registers, line
  <2>2. Stage' = Stage
    BY <2>1 DEF Stage
  <2>3. (InCommand' <=> InCommand) /\ (Taken' <=> Taken) /\ (Past' <=> Past)
    BY <2>1, <2>2 DEF InCommand, Taken, Past
  <2>4. Lost' <=> Lost
    BY <2>1, <2>3 DEF Lost
  <2>5. Todo' = Todo /\ Kept' = Kept
    BY <2>1, <2>2, <2>3 DEF Todo, Kept
  <2>6. QED
    BY <2>1, <2>2, <2>3, <2>4, <2>5 DEF Progress
<1>7. QED
  BY <1>2, <1>3, <1>4, <1>5, <1>6 DEF Next, Driver

LEMMA BredStep ==
  ASSUME IInv, Expected, Bred, \A c \in pending : rushed => c.name = "CMD17", [Next]_vars
  PROVE  Bred'
<1>1. CASE card' = card /\ (transfer' = transfer \/ transfer' = << >>)
  BY <1>1 DEF Bred
<1>2. CASE \/ SdEnable \/ Restart \/ Return \/ TimeOut \/ \E b \in Blocks : SdReadBlock(b)
           \/ ResetHost \/ SetClock \/ WaitData \/ WaitCommand \/ ClearInterrupts \/ Issue
  BY <1>1, <1>2 DEF SdEnable, Restart, Return, TimeOut, SdReadBlock, ResetHost, SetClock, WaitData,
                    WaitCommand, ClearInterrupts, Issue, registers, line
<1>3. CASE \/ AwaitDone \/ AwaitReady \/ Response \/ StartBytes \/ ReadWord \/ BytesDone
           \/ SetWidth \/ SetControl0
  BY <1>1, <1>3 DEF AwaitDone, AwaitReady, Response, StartBytes, ReadWord, BytesDone, SetWidth,
                    SetControl0, Noticed, registers, line
<1>4. CASE DataWord \/ DataError
  <2>1. card' = card \/ card' = [card EXCEPT !.state = "tran"]
    BY <1>4 DEF DataWord, DataError
  <2>2. card \in Card /\ card.state \in {"tran", "data"}
    BY <1>4 DEF IInv, Typing, Bred, DataWord, DataError
  <2>3. card'.state \in {"tran", "data"}
    BY <2>1, <2>2 DEF Card
  <2>4. QED
    BY <2>3 DEF Bred
<1>5. ASSUME NEW c \in pending, NoAnswer(c) PROVE Bred'
  BY <1>1, <1>5 DEF NoAnswer
<1>6. ASSUME NEW c \in pending, Answer(c) PROVE Bred'
  <2>1. card' \in After(c) /\ transfer' = Sent(c)
    BY <1>6 DEF Answer
  <2>2. card \in Card /\ c.name \in Commands
    BY DEF IInv, Typing, Pending
  <2>3. card'.state = "idle" => card'.width = 1
    <3>1. card'.state = "idle" => c.name \in {"CMD0", "CMD8", "CMD55", "CMD16", "ACMD41"}
      BY <2>1, <2>2, AfterFields DEF Commands
    <3>2. card'.state = "idle" /\ c.name \in {"CMD8", "CMD55", "CMD16", "ACMD41"} =>
            card.state = "idle" /\ card'.width = card.width
      BY <2>1, <2>2, AfterFields
    <3>3. c.name = "CMD0" => card'.width = 1
      BY <2>1, <2>2, AfterFields
    <3>4. QED
      BY <3>1, <3>2, <3>3 DEF Bred
  <2>4. transfer' # << >> => card'.state \in {"tran", "data"}
    <3>1. c.name \in {"ACMD51", "CMD17"} => card'.state = "data"
      BY <2>1, <2>2, AfterFields
    <3>2. ~ rushed => transfer = << >>
      BY <1>6 DEF Expected, LineTold, Still
    <3>3. c.name \notin {"ACMD51", "CMD17"} => transfer' = << >>
      BY <2>1, <3>2, <1>6 DEF Sent
    <3>4. QED
      BY <3>1, <3>3
  <2>5. QED
    BY <2>3, <2>4 DEF Bred
<1>7. CASE UNCHANGED vars
  BY <1>1, <1>7 DEF vars, line
<1>8. QED
  BY <1>2, <1>3, <1>4, <1>5, <1>6, <1>7 DEF Next, Driver, Hardware

\* Steps that touch nothing Sound speaks of.
LEMMA SoundStays ==
  ASSUME Sound, UNCHANGED << rushed, rca, host, card >>, pending' \subseteq pending,
         up' = up \/ up' = FALSE, word' = word \/ word' = "none", word' = "read" => up'
  PROVE  Sound'
BY DEF Sound, EnableSound

\* A word that returns has enabled the card, or had.
LEMMA ReturnSound ==
  ASSUME IInv, Routed, Placed, Progress, Sound, Return
  PROVE  Sound'
<1>1. /\ word # "none" /\ plan = << >> /\ word' = "none" /\ up'
      /\ UNCHANGED << rushed, rca, host, card, pending >>
  BY DEF Return, Leave, registers, line
<1>2. CASE word = "read"
  BY <1>1, <1>2 DEF Sound, EnableSound
<1>3. CASE word = "enable"
  <2>1. Stage = "none" /\ Len(plan) = 0
    BY <1>1, <1>3, Spot
  <2>2. Past /\ ~ InCommand /\ ~ Taken /\ ~ Lost
    BY <1>3, <2>1 DEF Past, InCommand, Taken, Lost, Commands
  <2>3. Todo = 0 /\ Kept = rca
    BY <2>1, <2>2 DEF Todo, Kept
  <2>4. pending = {} /\ Agreed(0, "none", rca, card, host)
    BY <2>1, <2>2, <2>3 DEF Progress
  <2>5. rca # 0 /\ card.rca = rca /\ card.width = host /\ card.state \in {"tran", "data"}
    BY <2>4 DEF Agreed, States
  <2>6. QED
    BY <1>1, <2>4, <2>5 DEF Sound, EnableSound
<1>4. QED
  BY <1>1, <1>2, <1>3 DEF IInv, Typing, TypeOK

LEMMA SoundStep ==
  ASSUME IInv, Routed, Placed, Progress, Progress', Sound, [Next]_vars
  PROVE  Sound'
<1>1. word \in {"none", "enable", "read"}
  BY DEF IInv, Typing, TypeOK
<1>2. CASE SdEnable
  BY <1>2 DEF SdEnable, Sound, EnableSound, line
<1>3. CASE \E b \in Blocks : SdReadBlock(b)
  BY <1>3 DEF SdReadBlock, Sound, EnableSound, registers, line
<1>4. CASE Restart \/ TimeOut
  BY <1>4, SoundStays DEF Restart, TimeOut, Throw, Leave, registers, line
<1>5. CASE \/ SetClock \/ ClearInterrupts \/ AwaitDone \/ AwaitReady
           \/ StartBytes \/ ReadWord \/ BytesDone \/ SetWidth
  <2>1. /\ UNCHANGED << rushed, rca, host, card, pending, up >>
        /\ word' = word \/ word' = "none"
    BY <1>5 DEF SetClock, ClearInterrupts, AwaitDone, AwaitReady, StartBytes, ReadWord, BytesDone,
                SetWidth, Noticed, Throw, Leave, registers, line
  <2>2. word' = "read" => up'
    BY <2>1 DEF Sound
  <2>3. QED
    BY <2>1, <2>2, SoundStays
<1>6. CASE WaitData \/ WaitCommand
  <2>1. UNCHANGED << word, rca, host, card, pending, up >>
    BY <1>6 DEF WaitData, WaitCommand, registers, line
  <2>2. word # "none"
    BY <1>6 DEF WaitData, WaitCommand, At, Sending
  <2>3. word = "enable" => ~ rushed'
    <3>1. SUFFICES ASSUME word = "enable" PROVE ~ rushed'
      OBVIOUS
    <3>2. Stage' # "reset"
      <4>1. CASE WaitCommand
        <5>1. Stage' = Stage
          BY <4>1 DEF WaitCommand, Stage
        <5>2. QED
          BY <4>1, <5>1 DEF WaitCommand, Sending, Commands
      <4>2. CASE WaitData
        <5>1. NextStage /\ word' = word /\ Stage = "dat"
          BY <4>2 DEF WaitData, At
        <5>2. plan # << >>
          BY <5>1, EmptyPlan
        <5>3. plan' # << >> => Stage' # "reset"
          BY <3>1, <5>1, <5>2, SpotOn
        <5>4. plan' = << >> => Stage' = "none"
          BY DEF Stage
        <5>5. QED
          BY <5>3, <5>4
      <4>3. QED
        BY <1>6, <4>1, <4>2
    <3>3. QED
      BY <2>1, <3>1, <3>2 DEF Progress, Past
  <2>4. word = "read" => up
    BY DEF Sound
  <2>5. QED
    BY <1>1, <2>1, <2>2, <2>3, <2>4 DEF Sound, EnableSound
<1>7. CASE Issue
  <2>1. /\ UNCHANGED << word, rca, host, card, rushed, up >> /\ word # "none" /\ Stage \in Commands
        /\ pending' = Overtaken \cup {Current}
    BY <1>7 DEF Issue, Sending, Current
  <2>2. CASE word = "enable"
    <3>1. Stage # "reset"
      BY <2>1 DEF Commands
    <3>2. ~ rushed /\ ~ up
      BY <2>2, <3>1 DEF Progress, Past, Sound
    <3>3. QED
      BY <2>1, <2>2, <3>2 DEF Sound, EnableSound
  <2>3. CASE word = "read"
    <3>1. Stage = "CMD17"
      <4>1. Stage \in ReadStages \cup {"none"}
        BY <2>3, Places
      <4>2. QED
        BY <2>1, <4>1 DEF ReadStages, Commands
    <3>2. Current.name = "CMD17"
      BY <3>1 DEF Current
    <3>3. up /\ \A c \in pending : c.name = "CMD17"
      BY <2>3 DEF Sound
    <3>4. \A c \in Overtaken : c.name = "CMD17"
      <4>1. pending \subseteq Pending
        BY DEF IInv, Typing
      <4>2. ASSUME NEW p \in pending PROVE [p EXCEPT !.last = FALSE].name = "CMD17"
        BY <3>3, <4>1, <4>2 DEF Pending
      <4>3. QED
        BY <4>2 DEF Overtaken
    <3>5. QED
      BY <2>1, <2>3, <3>2, <3>3, <3>4 DEF Sound, EnableSound
  <2>4. QED
    BY <1>1, <2>1, <2>2, <2>3
<1>8. CASE ResetHost \/ SetControl0 \/ Response
  <2>1. /\ word # "none" /\ up' = up /\ card' = card /\ pending' \subseteq pending
        /\ word' = word \/ word' = "none"
        /\ rushed' => rushed
    BY <1>8 DEF ResetHost, SetControl0, Response, At, Sending, Throw, Leave, line, registers
  <2>2. CASE word = "enable"
    BY <2>1, <2>2 DEF Sound, EnableSound
  <2>3. CASE word = "read"
    <3>1. Stage \in ReadStages \cup {"none"}
      BY <2>3, Places
    <3>2. Stage # "CMD3" /\ Stage # "reset" /\ Stage # "control0"
      BY <3>1 DEF ReadStages
    <3>3. UNCHANGED << rca, host, rushed >>
      BY <1>8, <3>2 DEF ResetHost, SetControl0, Response, At, Throw, registers
    <3>4. word' = "read" => up'
      BY <2>1, <2>3 DEF Sound
    <3>5. QED
      BY <2>1, <3>3, <3>4, SoundStays
  <2>4. QED
    BY <1>1, <2>1, <2>2, <2>3
<1>9. CASE DataWord \/ DataError
  <2>1. UNCHANGED << word, up, rushed, rca, host, pending >>
    BY <1>9 DEF DataWord, DataError, driver
  <2>2. card' = card \/ card' = [card EXCEPT !.state = "tran"]
    BY <1>9 DEF DataWord, DataError
  <2>3. card'.rca = card.rca /\ card'.width = card.width
        /\ (card.state \in {"tran", "data"} => card'.state \in {"tran", "data"})
    BY <2>2 DEF IInv, Typing, Card
  <2>4. QED
    BY <2>1, <2>3 DEF Sound, EnableSound
<1>10. ASSUME NEW c \in pending, Answer(c) \/ NoAnswer(c) PROVE Sound'
  <2>1. UNCHANGED << word, up, rushed, rca, host >> /\ pending' \subseteq pending
    BY <1>10 DEF Answer, NoAnswer, driver
  <2>2. card' = card \/ card' \in After(c)
    BY <1>10 DEF Answer, NoAnswer
  <2>3. card \in Card /\ c.name \in Commands
    BY DEF IInv, Typing, Pending
  <2>4. up => card'.rca = card.rca /\ card'.width = card.width
              /\ (card' = card \/ card'.state = "data")
    <3>1. up => c.name = "CMD17"
      BY DEF Sound
    <3>2. card' \in After(c) /\ c.name = "CMD17" =>
            card'.rca = card.rca /\ card'.width = card.width /\ card'.state = "data"
      BY <2>3, AfterFields
    <3>3. QED
      BY <2>2, <3>1, <3>2
  <2>5. QED
    BY <2>1, <2>4 DEF Sound, EnableSound
<1>11. CASE UNCHANGED vars
  BY <1>11 DEF vars, driver, registers, line, Sound, EnableSound
<1>12. QED
  BY <1>2, <1>3, <1>4, <1>5, <1>6, <1>7, <1>8, <1>9, <1>10, <1>11, ReturnSound
     DEF Next, Driver, Hardware

LEMMA EnableStep ==
  ASSUME IInv, DataInv, EnableInv, [Next]_vars
  PROVE  EnableInv'
<1>1. Routed /\ Expected /\ Placed /\ Progress /\ Bred /\ Sound
  BY DEF DataInv, EnableInv
<1>2. Placed' /\ Progress'
  BY <1>1, PlacedStep, ProgressStep
<1>3. Bred'
  BY <1>1, BredStep DEF Sound
<1>4. Sound'
  BY <1>1, <1>2, SoundStep
<1>5. QED
  BY <1>2, <1>3, <1>4 DEF EnableInv

\* Once SD-ENABLE has returned, however often it had failed, been interrupted
\* or come late before, the card is selected, has the address the driver
\* keeps and the bus width the controller uses, whatever later reads run into;
\* for any card, block size and FIFO (sdcard.f:570, 628).
THEOREM Enables == Spec => []EnableSound
<1>1. Init => EnableInv
  <2>1. Init => word = "none" /\ ~ up /\ pending = {} /\ transfer = << >> /\ card.width = 1
    BY DEF Init
  <2>2. QED
    BY <2>1 DEF EnableInv, Placed, Progress, Past, Bred, Sound, EnableSound
<1>2. IInv /\ DataInv /\ EnableInv /\ [Next]_vars => EnableInv'
  BY EnableStep
<1>3. EnableInv => EnableSound
  BY DEF EnableInv, Sound
<1>4. QED
  BY <1>1, <1>2, <1>3, Starts, Step, DataStarts, DataStep, PTL DEF Spec

----------------------------------------------------------------------------
(* The way that is left.                                                   *)

Stages == EnableStages \cup ReadStages

\* The bus width is set once.
Twice(p) == \E i, j \in 1..Len(p) : i # j /\ p[i] = "width" /\ p[j] = "width"
Once == plan \in Seq(Stages) /\ ~ Twice(plan)
Extra(p) == IF \E i \in 1..Len(p) : p[i] = "width" THEN 3 ELSE 0

LEMMA TailPlain ==
  ASSUME NEW p \in Seq(Stages), p # << >>
  PROVE  /\ Tail(p) \in Seq(Stages) /\ Len(Tail(p)) = Len(p) - 1 /\ Len(p) \in Nat /\ Len(p) >= 1
         /\ \A i \in 1..Len(Tail(p)) : i + 1 \in 1..Len(p) /\ Tail(p)[i] = p[i + 1]
OBVIOUS

LEMMA TailOnce ==
  ASSUME NEW p \in Seq(Stages), p # << >>, ~ Twice(p)
  PROVE  /\ Tail(p) \in Seq(Stages) /\ ~ Twice(Tail(p)) /\ Len(p) \in Nat /\ Len(p) >= 1
         /\ Len(Tail(p)) = Len(p) - 1 /\ Extra(Tail(p)) \in {0, 3} /\ Extra(p) \in {0, 3}
         /\ Extra(Tail(p)) <= Extra(p)
         /\ p[1] = "width" => Extra(Tail(p)) = 0 /\ Extra(p) = 3
<1>1. /\ Tail(p) \in Seq(Stages) /\ Len(Tail(p)) = Len(p) - 1 /\ Len(p) \in Nat /\ Len(p) >= 1
      /\ \A i \in 1..Len(Tail(p)) : i + 1 \in 1..Len(p) /\ Tail(p)[i] = p[i + 1]
  BY TailPlain
<1>2. ~ Twice(Tail(p))
  <2>1. SUFFICES ASSUME NEW i \in 1..Len(Tail(p)), NEW j \in 1..Len(Tail(p)), i # j,
                        Tail(p)[i] = "width", Tail(p)[j] = "width"
                 PROVE  FALSE
    BY DEF Twice
  <2>2. i + 1 # j + 1 /\ p[i + 1] = "width" /\ p[j + 1] = "width"
    BY <1>1, <2>1
  <2>3. QED
    BY <1>1, <2>2 DEF Twice
<1>3. Extra(Tail(p)) <= Extra(p) /\ Extra(Tail(p)) \in {0, 3} /\ Extra(p) \in {0, 3}
  BY <1>1 DEF Extra
<1>4. ASSUME p[1] = "width" PROVE Extra(Tail(p)) = 0 /\ Extra(p) = 3
  <2>1. 1 \in 1..Len(p)
    BY <1>1
  <2>2. ASSUME NEW i \in 1..Len(Tail(p)), Tail(p)[i] = "width" PROVE FALSE
    <3>1. i + 1 # 1 /\ i + 1 \in 1..Len(p) /\ p[i + 1] = "width"
      BY <1>1, <2>2
    <3>2. QED
      BY <1>4, <2>1, <3>1 DEF Twice
  <2>3. QED
    BY <1>4, <2>1, <2>2 DEF Extra
<1>5. QED
  BY <1>1, <1>2, <1>3, <1>4

LEMMA WidthJoined ==
  ASSUME NEW p \in Seq(Stages), Extra(p) = 0
  PROVE  /\ WidthPlan \o p \in Seq(Stages) /\ ~ Twice(WidthPlan \o p)
         /\ Len(WidthPlan \o p) = Len(p) + 3 /\ Extra(WidthPlan \o p) = 0
<1>1. WidthPlan \in Seq(Stages) /\ Len(WidthPlan) = 3 /\ \A i \in 1..3 : WidthPlan[i] # "width"
  <2>1. WidthPlan \in Seq(Stages) /\ Len(WidthPlan) = 3
    BY DEF WidthPlan, Stages, EnableStages, Commands
  <2>2. WidthPlan[1] = "CMD55" /\ WidthPlan[2] = "ACMD6" /\ WidthPlan[3] = "control0"
    BY DEF WidthPlan
  <2>3. QED
    BY <2>1, <2>2
<1>2. /\ WidthPlan \o p \in Seq(Stages) /\ Len(WidthPlan \o p) = Len(p) + 3
      /\ \A i \in 1..Len(p) + 3 : (WidthPlan \o p)[i] = IF i <= 3 THEN WidthPlan[i] ELSE p[i - 3]
  <2> DEFINE w == WidthPlan
  <2>1. w \in Seq(Stages) /\ Len(w) = 3
    BY <1>1
  <2> HIDE DEF w
  <2>2. /\ w \o p \in Seq(Stages) /\ Len(w \o p) = Len(w) + Len(p)
        /\ \A i \in 1..Len(w) + Len(p) : (w \o p)[i] = IF i <= Len(w) THEN w[i] ELSE p[i - Len(w)]
    BY <2>1, ConcatProperties
  <2>3. /\ w \o p \in Seq(Stages) /\ Len(w \o p) = Len(p) + 3
        /\ \A i \in 1..Len(p) + 3 : (w \o p)[i] = IF i <= 3 THEN w[i] ELSE p[i - 3]
    BY <2>1, <2>2
  <2>4. QED
    BY <2>3 DEF w
<1>3. ASSUME NEW i \in 1..Len(WidthPlan \o p), (WidthPlan \o p)[i] = "width" PROVE FALSE
  <2>1. CASE i <= 3
    BY <1>1, <1>2, <1>3, <2>1
  <2>2. CASE ~ i <= 3
    <3>1. i - 3 \in 1..Len(p) /\ p[i - 3] = "width"
      BY <1>2, <1>3, <2>2
    <3>2. QED
      BY <3>1 DEF Extra
  <2>3. QED
    BY <2>1, <2>2
<1>4. QED
  BY <1>2, <1>3 DEF Twice, Extra

LEMMA PlansOnce ==
  /\ EnablePlan \in Seq(Stages) /\ ~ Twice(EnablePlan)
  /\ ReadPlan \in Seq(Stages) /\ ~ Twice(ReadPlan)
  /\ << >> \in Seq(Stages) /\ ~ Twice(<< >>)
<1>1. EnablePlan \in Seq(Stages) /\ ~ Twice(EnablePlan)
  <2>1. EnablePlan \in Seq(Stages) /\ Len(EnablePlan) = 18
    BY DEF EnablePlan, Stages, EnableStages, Commands
  <2>2. ASSUME NEW i \in 1..18, EnablePlan[i] = "width" PROVE i = 17
    <3>1. << 19 - i, "width" >> \in Spots
      BY <2>2, EnablePlanInPlace DEF InPlace
    <3>2. QED
      BY <3>1 DEF Spots
  <2>3. QED
    BY <2>1, <2>2 DEF Twice
<1>2. ReadPlan \in Seq(Stages) /\ ~ Twice(ReadPlan)
  <2>1. ReadPlan \in Seq(Stages) /\ Len(ReadPlan) = 4
    BY DEF ReadPlan, Stages, ReadStages
  <2>2. ReadPlan[1] = "dat" /\ ReadPlan[2] = "CMD17" /\ ReadPlan[3] = "ready" /\ ReadPlan[4] = "bytes"
    BY DEF ReadPlan
  <2>3. QED
    BY <2>1, <2>2 DEF Twice
<1>3. QED
  BY <1>1, <1>2 DEF Twice

\* A stage takes fewer steps than Words + 4, and going to a later stage pays
\* for all of them.
LEMMA Nearer ==
  ASSUME NEW K \in Nat, NEW n \in Nat, NEW s \in 0..K - 1, NEW m \in 0..n, NEW t \in 0..K - 1,
         m < n \/ t < s
  PROVE  1 + m * K + t \in 0..(1 + n * K + s) - 1
<1>1. n - m \in Nat /\ n * K = m * K + (n - m) * K /\ m * K \in Nat /\ (n - m) * K \in Nat
  OBVIOUS
<1>2. CASE m < n
  <2>1. (n - m) * K >= K
    <3>1. n - m - 1 \in Nat /\ (n - m) * K = (n - m - 1) * K + K /\ (n - m - 1) * K >= 0
      BY <1>2
    <3>2. QED
      BY <3>1
  <2>2. QED
    BY <1>1, <2>1
<1>3. CASE t < s
  BY <1>1, <1>3
<1>4. QED
  BY <1>2, <1>3

\* The steps of a stage.
LEMMA StepsKnown ==
  Typing => StepsLeft \in 0..Words + 3 /\ Words + 4 \in Nat
BY CardAssumption DEF Typing, TypeOK, StepsLeft

LEMMA StagesKnown ==
  Once => StagesLeft = Len(plan) + Extra(plan) /\ StagesLeft \in Nat
BY DEF Once, StagesLeft, Extra

LEMMA StageDone ==
  ASSUME Typing, Typing', Once, word # "none", word' = word, Stage # "none", NextStage
  PROVE  Once' /\ Distance' \in 0..Distance - 1
<1>1. plan # << >> /\ plan \in Seq(Stages) /\ ~ Twice(plan) /\ plan' = Tail(plan)
  BY DEF Stage, NextStage, Once
<1>2. Once'
  BY <1>1, TailOnce DEF Once
<1>3. StagesLeft' = Len(Tail(plan)) + Extra(Tail(plan)) /\ StagesLeft = Len(plan) + Extra(plan)
  BY <1>1, <1>2, StagesKnown DEF StagesLeft, Extra
<1>4. StagesLeft \in Nat /\ StagesLeft' \in 0..StagesLeft /\ StagesLeft' < StagesLeft
  BY <1>1, <1>3, TailOnce
<1>5. StepsLeft \in 0..(Words + 4) - 1 /\ StepsLeft' \in 0..(Words + 4) - 1 /\ Words + 4 \in Nat
  BY StepsKnown, CardAssumption DEF Typing, TypeOK, StepsLeft
<1>6. 1 + StagesLeft' * (Words + 4) + StepsLeft' \in 0..(1 + StagesLeft * (Words + 4) + StepsLeft) - 1
  BY <1>4, <1>5, Nearer
<1>7. QED
  BY <1>2, <1>6 DEF Distance

LEMMA StepDone ==
  ASSUME Typing, Typing', Once, word # "none", word' = word, plan' = plan, StepsLeft' < StepsLeft
  PROVE  Once' /\ Distance' \in 0..Distance - 1
<1>1. Once' /\ StagesLeft' = StagesLeft /\ StagesLeft \in Nat
  BY StagesKnown DEF Once, StagesLeft, Twice
<1>2. StepsLeft \in 0..(Words + 4) - 1 /\ StepsLeft' \in 0..(Words + 4) - 1 /\ Words + 4 \in Nat
  BY StepsKnown, CardAssumption DEF Typing, TypeOK, StepsLeft
<1>3. 1 + StagesLeft * (Words + 4) + StepsLeft' \in 0..(1 + StagesLeft * (Words + 4) + StepsLeft) - 1
  BY <1>1, <1>2, Nearer
<1>4. QED
  BY <1>1, <1>3 DEF Distance

LEMMA AllDone ==
  ASSUME Typing, Once, word # "none", word' = "none", plan' = << >>
  PROVE  Once' /\ Distance' \in 0..Distance - 1
<1>1. StagesLeft \in Nat /\ StepsLeft \in Nat /\ Words + 4 \in Nat
  BY StepsKnown, StagesKnown
<1>2. StagesLeft * (Words + 4) \in Nat
  BY <1>1
<1>3. Distance \in Nat /\ Distance >= 1 /\ Distance' = 0
  BY <1>1, <1>2 DEF Distance
<1>4. QED
  BY <1>3, PlansOnce DEF Once

LEMMA WidthDone ==
  ASSUME Typing, Typing', Once, SetWidth
  PROVE  Once' /\ Distance' \in 0..Distance - 1
<1>1. /\ plan # << >> /\ plan \in Seq(Stages) /\ ~ Twice(plan) /\ plan[1] = "width"
      /\ word # "none" /\ word' = word /\ plan' \in {Tail(plan), WidthPlan \o Tail(plan)}
  BY DEF SetWidth, At, Stage, Once
<1>2. /\ Tail(plan) \in Seq(Stages) /\ ~ Twice(Tail(plan)) /\ Len(Tail(plan)) = Len(plan) - 1
      /\ Extra(Tail(plan)) = 0 /\ Extra(plan) = 3 /\ Len(plan) \in Nat /\ Len(plan) >= 1
  BY <1>1, TailOnce
<1>3. /\ plan' \in Seq(Stages) /\ ~ Twice(plan') /\ Extra(plan') = 0
      /\ Len(plan') = Len(plan) - 1 \/ Len(plan') = Len(plan) + 2
  <2>1. CASE plan' = Tail(plan)
    BY <1>2, <2>1
  <2>2. CASE plan' = WidthPlan \o Tail(plan)
    <3> DEFINE q == WidthPlan \o Tail(plan)
    <3>1. q \in Seq(Stages) /\ ~ Twice(q) /\ Extra(q) = 0 /\ Len(q) = Len(Tail(plan)) + 3
      BY <1>2, WidthJoined
    <3> HIDE DEF q
    <3>2. Len(q) = Len(plan) + 2
      BY ONLY <1>2, <3>1
    <3>3. plan' = q
      BY <2>2 DEF q
    <3>4. QED
      BY <3>1, <3>2, <3>3
  <2>3. QED
    BY <1>1, <2>1, <2>2
<1>4. Once'
  BY <1>3 DEF Once
<1>5. StagesLeft = Len(plan) + Extra(plan) /\ StagesLeft' = Len(plan') + Extra(plan')
  BY StagesKnown, <1>4 DEF StagesLeft, Extra
<1>6. StagesLeft \in Nat /\ StagesLeft' \in 0..StagesLeft /\ StagesLeft' < StagesLeft
  <2>1. PICK n \in Nat : n = Len(plan) /\ n >= 1
    BY <1>2
  <2>2. PICK m \in Nat : m = Len(plan') /\ (m = n - 1 \/ m = n + 2)
    BY <1>3, <2>1
  <2>3. Extra(plan) = 3 /\ Extra(plan') = 0
    BY <1>2, <1>3
  <2>4. StagesLeft = n + 3
    BY <1>5, <2>1, <2>3
  <2>5. StagesLeft' = m + 0
    BY <1>5, <2>2, <2>3
  <2>6. QED
    BY ONLY <2>1, <2>2, <2>4, <2>5
<1>7. StepsLeft \in 0..(Words + 4) - 1 /\ StepsLeft' \in 0..(Words + 4) - 1 /\ Words + 4 \in Nat
  BY StepsKnown, CardAssumption DEF Typing, TypeOK, StepsLeft
<1>8. 1 + StagesLeft' * (Words + 4) + StepsLeft' \in 0..(1 + StagesLeft * (Words + 4) + StepsLeft) - 1
  BY <1>6, <1>7, Nearer
<1>9. QED
  BY <1>1, <1>4, <1>8 DEF Distance

LEMMA DriverCloser ==
  ASSUME Typing, Typing', Once, Driver
  PROVE  Once' /\ Distance' \in 0..Distance - 1
<1>0. Words \in Nat \ {0} /\ left \in 0..Words + 2 /\ left' \in 0..Words + 2
  BY CardAssumption DEF Typing, TypeOK
<1>1. CASE Return \/ TimeOut
  BY <1>1, AllDone DEF Return, TimeOut, Throw, Leave
<1>2. CASE ResetHost \/ SetClock \/ WaitData \/ BytesDone \/ SetControl0
  <2>1. word # "none" /\ word' = word /\ Stage # "none" /\ NextStage
    BY <1>2 DEF ResetHost, SetClock, WaitData, BytesDone, SetControl0, At
  <2>2. QED
    BY <2>1, StageDone
<1>3. CASE WaitCommand \/ ClearInterrupts \/ Issue
  <2>1. word # "none" /\ word' = word /\ plan' = plan /\ StepsLeft' < StepsLeft
    BY <1>0, <1>3 DEF WaitCommand, ClearInterrupts, Issue, Sending, StepsLeft
  <2>2. QED
    BY <2>1, StepDone
<1>4. CASE AwaitDone
  <2>1. CASE Throw
    BY <1>4, <2>1, AllDone DEF Throw, Leave, AwaitDone, Sending
  <2>2. CASE ~ Throw
    <3>1. word # "none" /\ word' = word /\ plan' = plan /\ StepsLeft' < StepsLeft
      BY <1>4, <2>2 DEF AwaitDone, Sending, StepsLeft
    <3>2. QED
      BY <3>1, StepDone
  <2>3. QED
    BY <2>1, <2>2
<1>5. CASE AwaitReady \/ Response
  <2>1. word # "none" /\ Stage # "none"
    BY <1>5 DEF AwaitReady, Response, At, Sending, Commands
  <2>2. CASE Throw
    BY <2>1, <2>2, AllDone DEF Throw, Leave
  <2>3. CASE ~ Throw
    <3>1. word' = word /\ NextStage
      BY <1>5, <2>3 DEF AwaitReady, Response
    <3>2. QED
      BY <2>1, <3>1, StageDone
  <2>4. QED
    BY <2>2, <2>3
<1>6. CASE StartBytes \/ ReadWord
  <2>1. word # "none" /\ word' = word /\ plan' = plan
    BY <1>6 DEF StartBytes, ReadWord, At
  <2>2. StepsLeft' < StepsLeft
    BY <1>0, <1>6 DEF StartBytes, ReadWord, At, StepsLeft
  <2>3. QED
    BY <2>1, <2>2, StepDone
<1>7. CASE SetWidth
  BY <1>7, WidthDone
<1>8. QED
  BY <1>1, <1>2, <1>3, <1>4, <1>5, <1>6, <1>7 DEF Driver

LEMMA StepCloser ==
  ASSUME Typing, Typing', Once, [Next]_vars
  PROVE  Once' /\ (word # "none" /\ driver' # driver => Distance' \in 0..Distance - 1)
<1>1. CASE Driver
  BY <1>1, DriverCloser
<1>2. CASE Restart
  <2>1. word' = "none" /\ plan' = << >>
    BY <1>2 DEF Restart, Leave
  <2>2. Once'
    BY <2>1, PlansOnce DEF Once
  <2>3. QED
    BY <2>1, <2>2, AllDone
<1>3. CASE SdEnable \/ \E b \in Blocks : SdReadBlock(b)
  <2>1. word = "none" /\ plan' \in {EnablePlan, ReadPlan}
    BY <1>3 DEF SdEnable, SdReadBlock
  <2>2. QED
    BY <2>1, PlansOnce DEF Once
<1>4. CASE Hardware \/ UNCHANGED vars
  <2>1. driver' = driver
    BY <1>4 DEF Hardware, Answer, NoAnswer, DataWord, DataError, vars
  <2>2. plan' = plan
    BY <2>1 DEF driver
  <2>3. QED
    BY <2>1, <2>2 DEF Once, Twice
<1>5. QED
  BY <1>1, <1>2, <1>3, <1>4 DEF Next

\* SD-ENABLE and SD-READ-BLOCK have only so many steps, whatever the card
\* answers, late or never, and whatever an earlier word left behind: only
\* waiting, which a deadline ends, can keep them (sdcard.f:237, 628).
THEOREM Closer == Spec => ComesCloser
<1>1. Init => Once
  BY PlansOnce DEF Init, Once
<1>2. IInv => Typing
  BY DEF IInv
<1>3. Typing /\ Typing' /\ Once /\ [Next]_vars =>
        Once' /\ [word # "none" /\ driver' # driver => Distance' \in 0..Distance - 1]_vars
  BY StepCloser
<1>4. QED
  BY <1>1, <1>2, <1>3, Starts, Step, PTL DEF Spec, ComesCloser

=============================================================================
