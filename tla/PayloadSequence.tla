-------------------------- MODULE PayloadSequence --------------------------
(***************************************************************************)
(* The sequence that rpi_disp_cap starts on a payload (UPPM cmdimpl.c,     *)
(* pldmgr.c): power on, up to three pings while it boots, display,         *)
(* capture, display off, camera off, shutdown, and power off by a          *)
(* scheduled command.  Each answer of the payload brings the next step; no *)
(* step has a timeout.  One payload is modelled: the two share nothing but *)
(* the code.                                                               *)
(*                                                                         *)
(* The scheduler is reduced to the one task of the payload's id, 10 + its  *)
(* node, and that task's copy in flash (PersistentScheduler has it in      *)
(* full).  The payload and its line are external.                          *)
(***************************************************************************)
EXTENDS Naturals, Sequences

CONSTANTS
  Reps,        \* pings that are scheduled, 3
  Cells,       \* length of an argument buffer; memset reaches cell 1 only
  MaxOrders,   \* bound on the orders of the ground
  MaxHarms,    \* bound on losses, restarts, negative answers, clear commands
  None

ASSUME PayloadAssumption ==
  /\ Reps \in Nat \ {0} /\ Cells \in Nat \ {0}
  /\ MaxOrders \in Nat /\ MaxHarms \in Nat
  /\ None \notin Seq(Nat)

VARIABLES
  plds,        \* state of the payload, as the UPPM has it
  args,        \* the cells of the argument buffers, by the order they are of; 0 is '\0'
  task,        \* repetitions left: [kind, reps]
  saved,       \* the task in flash
  loaded,      \* flash_scheds_loaded
  toPld, toUppm,
  payload,     \* "dark", "boot", "up", "halted"
  lcd,         \* the arguments that are displayed, or None
  asked,       \* ghost: the same if no command to the display had failed
  sizes,       \* ghost: the length of the arguments of each order
  captured,    \* ghost: the orders whose capture was tried
  lost,        \* ghost: whether a frame was lost since the payload booted
  raced,       \* ghost: whether two displays were under way at once since then
  emptied,     \* ghost: whether the buffer was cleared or reset
  harms        \* ghost

uppm  == <<plds, args, task, saved, loaded>>
lines == <<toPld, toUppm>>
rpi   == <<payload, lcd, asked>>
flags == <<lost, raced, emptied>>
ghost == <<sizes, captured, flags, harms>>
vars  == <<uppm, lines, rpi, ghost>>

NoTask == [kind |-> "none", reps |-> 0]
Ping(n) == [kind |-> "ping", reps |-> n]
Off == [kind |-> "off", reps |-> 1]

Zeros == [c \in 1 .. Cells |-> 0]

Init ==
  /\ plds = "OFF" /\ args = Zeros
  /\ task = NoTask /\ saved = NoTask /\ loaded = FALSE
  /\ toPld = <<>> /\ toUppm = <<>>
  /\ payload = "dark" /\ lcd = None /\ asked = None
  /\ sizes = <<>> /\ captured = {} /\ harms = 0
  /\ lost = FALSE /\ raced = FALSE /\ emptied = FALSE

Harm == harms < MaxHarms /\ harms' = harms + 1
Unharmed == UNCHANGED harms

(* Every change of the task is flushed.                                    *)
SetTask(t) == task' = t /\ saved' = t

(* scheduler_clear_task fails without a task, and flushes nothing.         *)
ClearTask == IF task = NoTask THEN UNCHANGED <<task, saved>> ELSE SetTask(NoTask)

ToPayload(cmd, a) == toPld' = Append(toPld, [cmd |-> cmd, args |-> a])

(* The string in a buffer.                                                 *)
Text(cells) ==
  LET end == CHOOSE n \in 0 .. Cells :
               /\ \A c \in 1 .. n : cells[c] # 0
               /\ n < Cells => cells[n + 1] = 0
  IN  [c \in 1 .. end |-> cells[c]]

(* pldmgr_clear_node: sizeof of a pointer, so the tail stays.              *)
ClearedArgs == [args EXCEPT ![1] = 0]
ClearNode == plds' = "OFF" /\ args' = ClearedArgs

(* mutant: the first cell is not copied                                    *)
FilledBehind(k, size) ==
  [c \in 1 .. Cells |-> IF c > 1 /\ c <= size THEN k ELSE args[c]]

(* memcpy of strlen bytes, without the terminator.                         *)
Filled(k, size) == [c \in 1 .. Cells |-> IF c <= size THEN k ELSE ClearedArgs[c]]

-----------------------------------------------------------------------------
(* eps_sw: sent and answered before the handler goes on.                   *)
SwitchOn ==
  \/ /\ payload' = IF payload = "dark" THEN "boot" ELSE payload
     /\ Unharmed
  \/ Harm /\ UNCHANGED payload

FsmInit(k, size) == plds' = "OFF" /\ args' = Filled(k, size)

(* rpi_disp_cap.  An id in use makes scheduler_schedule_cmd_in fail, and   *)
(* the ground is told so, but the order has been taken.                    *)
Order(size) ==
  /\ Len(sizes) < MaxOrders
  /\ sizes' = Append(sizes, size)
  /\ FsmInit(Len(sizes'), size)
  /\ SwitchOn
  /\ IF task = NoTask THEN SetTask(Ping(Reps)) ELSE UNCHANGED <<task, saved>>
  /\ UNCHANGED <<loaded, lines, lcd, asked, captured, flags>>

(* A scheduled ping.  A payload boots in less than the time of all of      *)
(* them, so the last one meets it booted.                                  *)
RunPing ==
  /\ task.kind = "ping"
  /\ task.reps = 1 /\ harms = 0 => payload # "boot"
  /\ ToPayload("com_ping", <<>>)
  /\ SetTask(IF task.reps = 1 THEN NoTask ELSE Ping(task.reps - 1))
  /\ UNCHANGED <<plds, args, loaded, toUppm, rpi, ghost>>

Dark == payload' = "dark" /\ lcd' = None /\ asked' = None

(* The scheduled eps_sw.  Within the 30 s all that was on the lines has    *)
(* been dealt with, and the payload has shut down.                         *)
RunOff ==
  /\ task.kind = "off"
  /\ harms = 0 => toPld = <<>> /\ toUppm = <<>>
  /\ SetTask(NoTask)
  /\ \/ Dark /\ Unharmed
     \/ Harm /\ UNCHANGED rpi
  /\ UNCHANGED <<plds, args, loaded, lines, sizes, captured, flags>>

-----------------------------------------------------------------------------
(* The answers, by the command they answer.                                *)
Ignore == UNCHANGED <<plds, args, task, saved, toPld>>

ComPing ==
  IF plds # "OFF" THEN Ignore
  ELSE /\ plds' = "STARTED" /\ ClearTask
       /\ ToPayload("lcd_display", Text(args))
       /\ UNCHANGED args

(* A step forward on a positive answer; a negative one ends the sequence.  *)
Advance(ok, state, cmd, a) ==
  /\ IF ok THEN plds' = state /\ UNCHANGED args /\ ToPayload(cmd, a)
           ELSE ClearNode /\ UNCHANGED toPld
  /\ UNCHANGED <<task, saved>>

(* mutant: the result is not looked at                                     *)
LcdDisplayUnchecked(ok) ==
  IF plds # "STARTED" THEN Ignore
  ELSE Advance(TRUE, "DISPLAYED", "cam_capture", Text(args))

LcdDisplay(ok) ==
  IF plds # "STARTED" THEN Ignore
  ELSE Advance(ok, "DISPLAYED", "cam_capture", Text(args))

CamCapture(ok) ==
  IF plds # "DISPLAYED" THEN Ignore ELSE Advance(ok, "CAPTURED", "lcd_off", <<>>)

LcdOff(ok) == Advance(ok, plds, "cam_off", <<>>)

(* mutant: power goes without a shutdown                                   *)
CamOffNoShutdown(ok) ==
  IF plds # "CAPTURED" THEN Ignore
  ELSE /\ IF ok /\ task = NoTask THEN SetTask(Off) ELSE UNCHANGED <<task, saved>>
       /\ IF ok THEN plds' = "OFF" /\ UNCHANGED args ELSE ClearNode
       /\ UNCHANGED toPld

(* mutant: nothing is scheduled that cuts the power                        *)
CamOffStaysOn(ok) ==
  IF plds # "CAPTURED" THEN Ignore
  ELSE IF ok
    THEN /\ plds' = "OFF" /\ ToPayload("rpi_shutdown", <<>>)
         /\ UNCHANGED <<args, task, saved>>
    ELSE ClearNode /\ UNCHANGED <<task, saved, toPld>>

CamOff(ok) ==
  IF plds # "CAPTURED" THEN Ignore
  ELSE IF ok
    THEN /\ plds' = "OFF" /\ UNCHANGED args
         /\ ToPayload("rpi_shutdown", <<>>)
         /\ IF task = NoTask THEN SetTask(Off) ELSE UNCHANGED <<task, saved>>
    ELSE ClearNode /\ UNCHANGED <<task, saved, toPld>>

DisplayUnderWay ==
  \/ \E i \in 1 .. Len(toPld) : toPld[i].cmd = "lcd_display"
  \/ \E i \in 1 .. Len(toUppm) : toUppm[i].cmd = "lcd_display"

(* Of the answers only that to a ping displays, and only a negative one    *)
(* touches the buffer.                                                     *)
Note ==
  /\ raced' = (raced \/ (DisplayUnderWay /\ plds = "OFF" /\ plds' = "STARTED"))
  /\ emptied' = (emptied \/ args' # args)

Receive ==
  /\ toUppm # <<>>
  /\ toUppm' = Tail(toUppm)
  /\ LET answer == Head(toUppm)
     IN  CASE answer.cmd = "com_ping"    -> ComPing
           [] answer.cmd = "lcd_display" -> LcdDisplay(answer.ok)
           [] answer.cmd = "cam_capture" -> CamCapture(answer.ok)
           [] answer.cmd = "lcd_off"     -> LcdOff(answer.ok)
           [] answer.cmd = "cam_off"     -> CamOff(answer.ok)
  /\ Note
  /\ UNCHANGED <<loaded, rpi, sizes, captured, lost, harms>>

-----------------------------------------------------------------------------
(* The payload: it boots, by when all that was on the lines has been dealt *)
(* with, and carries out its commands in order.                            *)
Boot ==
  /\ payload = "boot" /\ toPld = <<>> /\ toUppm = <<>>
  /\ payload' = "up" /\ lost' = FALSE /\ raced' = FALSE
  /\ UNCHANGED <<uppm, lines, lcd, asked, sizes, captured, emptied, harms>>

(* What a command makes of a display that shows `now`.                     *)
Shown(msg, now) ==
  CASE msg.cmd = "lcd_display" -> msg.args
    [] msg.cmd \in {"lcd_off", "rpi_shutdown"} -> None
    [] OTHER -> now

(* A command that fails may leave the display as it was.  A shutdown is    *)
(* not answered.                                                           *)
Serve ==
  /\ payload = "up" /\ toPld # <<>>
  /\ toPld' = Tail(toPld)
  /\ LET msg == Head(toPld)
     IN  /\ asked' = Shown(msg, asked)
         /\ captured' = IF msg.cmd = "cam_capture" /\ msg.args # <<>>
                          THEN captured \cup {msg.args[1]} ELSE captured
         /\ IF msg.cmd = "rpi_shutdown"
              THEN payload' = "halted" /\ lcd' = Shown(msg, lcd) /\ UNCHANGED toUppm /\ Unharmed
              ELSE /\ UNCHANGED payload
                   /\ \E ok \in BOOLEAN :
                        /\ toUppm' = Append(toUppm, [cmd |-> msg.cmd, ok |-> ok])
                        /\ IF ok THEN lcd' = Shown(msg, lcd) /\ Unharmed
                                 ELSE lcd' \in {lcd, Shown(msg, lcd)} /\ Harm
  /\ UNCHANGED <<uppm, sizes, flags>>

(* Nobody listens.                                                         *)
Unheard ==
  /\ payload # "up" /\ toPld # <<>>
  /\ toPld' = Tail(toPld)
  /\ UNCHANGED <<uppm, toUppm, rpi, ghost>>

-----------------------------------------------------------------------------
Lose ==
  /\ Harm /\ lost' = TRUE
  /\ \/ toPld # <<>> /\ toPld' = Tail(toPld) /\ UNCHANGED toUppm
     \/ toUppm # <<>> /\ toUppm' = Tail(toUppm) /\ UNCHANGED toPld
  /\ UNCHANGED <<uppm, rpi, sizes, captured, raced, emptied>>

(* sw_off of the EPS, at its periodic restart for one.                     *)
EpsRestart ==
  /\ Harm /\ Dark
  /\ UNCHANGED <<uppm, lines, sizes, captured, flags>>

UppmReset ==
  /\ Harm
  /\ plds' = "OFF" /\ args' = Zeros /\ toUppm' = <<>>
  /\ task' = NoTask /\ loaded' = FALSE /\ emptied' = TRUE
  /\ UNCHANGED <<saved, toPld, rpi, sizes, captured, lost, raced>>

(* The first time command after a reset.                                   *)
LoadSchedules ==
  /\ ~loaded /\ loaded' = TRUE
  /\ task' = saved
  /\ UNCHANGED <<plds, args, saved, lines, rpi, ghost>>

(* ppm_clear_bufs 3.                                                       *)
ClearBufs ==
  /\ Harm
  /\ ClearNode /\ emptied' = TRUE
  /\ UNCHANGED <<task, saved, loaded, lines, rpi, sizes, captured, lost, raced>>

Sequence == RunPing \/ RunOff \/ Receive
Payload  == Boot \/ Serve \/ Unheard

Next ==
  \/ \E size \in 1 .. Cells : Order(size)
  \/ Sequence \/ Payload \/ LoadSchedules
  \/ Lose \/ EpsRestart \/ UppmReset \/ ClearBufs

Spec == Init /\ [][Next]_vars /\ WF_vars(Sequence) /\ WF_vars(Payload)

-----------------------------------------------------------------------------
TypeOK ==
  /\ plds \in {"OFF", "STARTED", "DISPLAYED", "CAPTURED"}
  /\ args \in [1 .. Cells -> 0 .. MaxOrders]
  /\ {task, saved} \subseteq {NoTask, Off} \cup {Ping(n) : n \in 1 .. Reps}
  /\ loaded \in BOOLEAN /\ payload \in {"dark", "boot", "up", "halted"}
  /\ captured \subseteq 1 .. Len(sizes) /\ harms \in 0 .. MaxHarms

(* What the payload carries out in a step, if anything.                    *)
Serves(cmd) == Serve /\ Head(toPld).cmd = cmd

(* However orders, pings and answers of several sequences overlap, and     *)
(* whatever restarts, fails or is cleared: the payload is told to capture  *)
(* each order at most once, behind the display of that order (unless a     *)
(* frame was lost: a payload whose shutdown was lost can be taken through  *)
(* an order again); and then it displays what that order asked for, even   *)
(* if frames were lost, unless two displays were under way at once (the    *)
(* answer to the older one is then taken for the younger, which may fail   *)
(* or be lost: rpi_disp_cap again while pings are answered).               *)
CapturesDisplayed ==
  [][Serves("cam_capture") =>
       LET a == Head(toPld).args
       IN  /\ lost \/ (asked = a /\ (a # <<>> => a[1] \notin captured))
           /\ raced \/ lcd = a]_vars

(* The payload gets the arguments of an order from its first cell on;      *)
(* what follows them is the tail of a longer order before.  There are none *)
(* at all only after the UPPM was reset, its buffers were cleared or the   *)
(* payload gave a negative answer.                                         *)
ArgsAsOrdered ==
  [][Serves("lcd_display") =>
       LET a == Head(toPld).args
           k == a[1]
       IN  IF a = <<>> THEN emptied
           ELSE /\ \A c \in 1 .. sizes[k] : a[c] = k
                /\ Len(a) > sizes[k] => \E j \in 1 .. k - 1 : sizes[j] >= Len(a)]_vars

(* The scheduled command cuts the power of a payload that has shut down,   *)
(* unless something went wrong before.                                     *)
CleanPowerOff ==
  [][RunOff => payload = "halted" \/ harms' > 0]_vars

(* If nothing goes wrong, every order ends with the payload powered off,   *)
(* and captured if its pings were scheduled, unless another one follows:   *)
(* with up to four orders that overlap.  With five, a ping answer that is  *)
(* left over can start the sequence anew while it is being switched off,   *)
(* and its ClearTask removes the scheduled power off: the payload halts    *)
(* with its power on (cmdimpl_com_ping, cmdimpl_cam_off).                  *)
Completes ==
  \A k \in 1 .. MaxOrders :
    LET over == harms > 0 \/ Len(sizes) > k
        ended == payload = "dark" /\ plds = "OFF" /\ task = NoTask
    IN  /\ Len(sizes) = k ~> over \/ ended
        /\ Len(sizes) = k /\ task.kind = "ping" ~> over \/ (ended /\ k \in captured)
=============================================================================
