# Verification of the MAVERIC flight software

This directory holds TLA+ models of the MAVERIC flight software, TLC
configurations that check them, and TLAPS proofs. It follows the code of the
two payload processor modules (PPMs), `common/maveric`, `projects/Maveric_UPPM`
and `projects/Maveric_LPPM`, and of the power system, `projects/EPS`.
`PROJECT.json` says for every definition which lines of the code it stands for.

    tlc -config Scheduler.cfg MCScheduler      # any run, see the table below
    tlapm SchedulerProofs.tla                  # any proof module

## 1. The system

MAVERIC is a 3U CubeSat in orbit. Three computers fly this code, each a PIC24
with one thread, the *superloop*, and interrupts.

* The **Upper PPM** (UPPM) talks to the ground station through the AX100 radio,
  to the EPS over I2C, to two payload computers (Holonav, Astroboard) and to
  the Lower PPM over serial lines. It decides on the stage of the mission.
* The **Lower PPM** (LPPM) keeps the time, reads the sensors and drives the
  attitude control unit (MTQ). A terminal (FTDI) is wired to it on the bench.
* The **EPS** measures and switches power. It executes the commands of the UPPM
  and answers them when the UPPM reads.

An iteration of a superloop handles the received bytes of every port
(`mcpmgr_parse_stream`) and then runs the tasks that are due
(`scheduler_run_tasks`). Interrupts only put bytes into ring buffers and count
milliseconds. So **concurrency** is of two kinds: an interrupt between any two
accesses of the superloop, and several nodes with messages under way. **Failure**
is a reset at any time (watchdog, the reset every two hours, a command, power),
lost and damaged bytes, and flash that is half written or half erased.

| Component | State | Operations | Talks to | Hard | What makes it correct |
|---|---|---|---|---|---|
| Scheduler | 16 tasks in two segments, id map | schedule, deschedule, reschedule, update, clear, refresh, scan | called by commands and by the tasks it runs | changes to the table during the scan | ids and slots agree; a task runs as often as asked; due tasks are served |
| Persistent schedules | commands in RAM and in flash, `flash_scheds_loaded` | flush after each change, load with the first time command | scheduler, flash manager, time commands | resets between any two | what was scheduled survives, with its remaining runs |
| Flash manager, driver | records in the sectors of the AT25DF641 | find the last record, append, erase | configuration, schedules, reboot counter | power failures within a flush | it is a register that survives them |
| Ring buffers | `data`, `r`, `w` | push, pop, clear | interrupts and superloop | interrupts in between | it is a queue |
| KISS framing | parser state, buffer | frame, parse a byte | ring buffer, packet manager | bytes lost or garbled, filler | an intact frame is received |
| Packets and routing | received packet per port | parse, acknowledge, forward, check, execute, answer | all nodes | damaged headers, order of answers | executed once, where and as sent; answered |
| System time | time base, millisecond counter | sync, read, set | scheduler, time commands, MTQ | two sources of time | the PPMs agree in the end |
| Operations stages | `ops_stage`, `deploy_time`, tasks of the stage | boot, transition, deploy, configure | flash manager, EPS, LPPM | resets, refused flushes, lost records | the antennas deploy, and not too early |
| GNC supervision | planner mode, expected mode, MTQ mode, telemetry | planner step, power check, polls, MTQ reset | UPPM, LPPM, EPS, MTQ | decisions on old telemetry, lost frames | the mode that power and sky call for |
| Link to the EPS | I2C buffer and frame of the slave, receive buffer of the master | command, wait, read; parse, execute, answer | UPPM, EPS | the slave's interrupt between any two cells, late answers | one answer at most, whole, in order |
| EPS board | outputs, timed switch, restart counter | switch, timed switch, tick, restart | UPPM | equality tests on counters, replaced switches | what was switched on goes off, the restart comes |
| Payload sequence | a state and an argument buffer per payload | order, ping, display, capture, off | scheduler, EPS, payloads | lost and repeated answers, overlapping orders | each order captured once, as ordered; powered off in the end |
| Command table | 64 buckets | set, get, delete | packet manager | full table, tombstones | a function from ids to handlers |
| Drivers of devices | registers | read, write | buses | | no control state |

`PROJECT.json` lists under `hazards` where in the code each of these is hard to
test, and which property covers it or why none does.

## 2. The modules

    SchedTable <- Scheduler <- PersistentScheduler      SchedulerProofs
                      MCScheduler   MCPersistentScheduler
    FlashSector <- FlashJournal => PersistentRegister   FlashJournalProofs
    RingBuf => Fifo                                     ReceptionProofs
    KissFrame <- KissLink <- MCKissLink                 ReceptionProofs
    McpNetwork <- MCMcpNetwork                          McpNetworkProofs
    EpsLink => EpsMailbox                               EpsProofs
    EpsBoard                                            EpsProofs
    OpsStages                                           OpsStagesProofs
    GncSupervision                                      GncSupervisionProofs
    PayloadSequence                                     PayloadSequenceProofs

`<-` is EXTENDS, `=>` is "implements": checked by TLC with a refinement mapping,
and proved. A proof module may EXTEND two models that share no variable; the
names of KissLink (`LinkInit`, `LinkSpec`, ...) and EpsBoard (`BoardInit`,
`BoardSpec`, ...) begin as they do for this reason.

**SchedTable, Scheduler** (`scheduler.c`). SchedTable is the table with its
operations as operators, one per function of the code; Scheduler adds the clock
and the superloop. The superloop is in `idle` between scans, and in a scan at a
slot: `StartScan`, `Skip`, `Begin` (the test and the start of the task), the
task's own call, `Finish` (the code after the switch, with the `now` that was
read before). A task makes one call into the scheduler, or several that schedule
function tasks (as `hk_heartbeats` does). Ghosts count the runs of each slot and
the repetitions it was given. By itself it is the scheduler of the LPPM, where
`flashmgr_schedules_*` do nothing.

**PersistentScheduler** is the scheduler of the UPPM. It adds the flash image,
`flash_scheds_loaded`, and resets; each operation is the one of Scheduler with
its flush. A flush is one step here.

**FlashSector, FlashJournal** show what happens within a flush: block erases and
page programs with a power failure between or during them. **PersistentRegister**
is what the users of `flashmgr.c` may rely on, and FlashJournal implements it.
OpsStages uses it in this form: the last record, or a corrupt one after a loss of
power.

**RingBuf** splits a pop into its accesses to the volatile indices (`Compare`,
`Subtract`, `Copy`, `Advance`) and a clear into its assignments; `Push` is an
interrupt and may come between any two. **Fifo** is the queue it implements.

**KissFrame, KissLink** (`frame.c`): the sender's framing and the receiver's
parser, byte by byte, over a line that loses and garbles bytes and has filler
between frames.

**McpNetwork** (`mcpmgr.c`, `mcppkt.c`, the time commands of `cmdimpl.c`): both
PPMs, the ground and the terminal. A packet is one whole frame; a byte fault
either loses it or leaves it with a wrong CRC, which KissLink justifies.
`Process` is `mcpmgr_process_pkt` with all frames it sends. A handler is one
action: what arrives while it runs is only appended to queues.

**OpsStages** (UPPM `main.c`, `housekeeping.c`, configuration commands): time in
coarse ticks, the three tasks that matter, the loop of flush and read back in
`system_ops_transition_safe` one round at a time.

**GncSupervision** (LPPM `gnc.c`, `housekeeping.c`, `adcsmtq.c`; UPPM
`system_ops_check_eps`): the planner sets modes of the MTQ over a line of frames
and reads its status back; the UPPM orders modes of the planner by telemetry.
Task id 7 of the LPPM is explicit, since `mtq_reset` relies on it: it is free, has
the task that turns communication on again (due, or descheduled), or another task.
The ghost `barred` says that a use of the id by the ground keeps communication off.

**EpsLink** (UPPM `mcppkt.c`, `i2c.c`; EPS `interrupt.c`, `cmdmgr.c`, `cmdpkt.c`,
`framer.c`): `Send` to `ReadCell` are `mcppkt_dispatch` of the UPPM, and each
`Write` and `ReadCell` includes the interrupt of the EPS that it causes.
`StartParse` to `FillCell` are the superloop of the EPS: parse, run, `rb_clear`,
zero `i2c_frame`, fill it. `StartRead` comes after the 50 ms whether the answer
is ready or not. A frame is a sequence of a few cells, told apart by the number
of the command and the place in the frame. **EpsMailbox** is what the UPPM may
rely on: the EPS holds one answer at most, of the command it executed last.

**EpsBoard** (EPS `main.c`, `cmdimpl.c`): a tick of the superloop of the EPS is
one action, `Tick` or `Restart`; the commands that switch, time and set the
restart counter come in between. The measurement of the battery is one of the
four cases `eps_housekeeping` distinguishes. Ghosts remember how long a timed
switch has been outstanding and what each output is on for. EpsLink says which
commands arrive; here any may.

**PayloadSequence** (UPPM `cmdimpl.c`, `pldmgr.c`): the order of the ground, one
action per answer of the payload, and the scheduled command of the payload's
task id (pings first, power off at the end) with its copy in flash, as
PersistentScheduler has it. The payload is a computer that boots, serves what it
is sent, and halts; it and its line are external. A command that fails is answered
negatively and may leave the display as it was. Ghosts remember what the display
was asked to show (`asked`), and what the properties except: a lost frame
(`lost`), a second display while one is under way (`raced`), each since the
payload booted, and a buffer that was cleared or reset (`emptied`).

## 3. The runs

| Run | Module, config | Shows | Bounds |
|---|---|---|---|
| `scheduler` | MCScheduler | the table and its scan | 2 function slots, 1 command slot, 3 ids, clock 0..1, 1 time command, RepsInfinite 3 |
| `persistent` | MCPersistentScheduler | runs and settings of commands across resets | 1 function slot, 2 command slots, 1 reset |
| `sched_flush_before_load` | MCPersistentScheduler | **violation**, the finding of section 4 | as above |
| `flash_journal` | FlashJournal | the journal is a register | records of 3 cells, sector 16, block 8, page 2 |
| `ringbuf` | RingBuf | the buffer is a queue | Size 4, arithmetic modulo 16, 2 clears |
| `kiss_link` | MCKissLink | the parser recovers | buffer of 6, messages up to 2 bytes, 2 faults, 2 filler bytes |
| `mcp_network` | MCMcpNetwork | requests and answers | 4 kinds of request, 2 requests, 1 harm |
| `eps_link` | EpsLink | the EPS is a box with one answer | frames of 3 cells, buffers of 7 and 4, 3 commands, 1 restart |
| `eps_board` | EpsBoard | switches and restarts end as they should | 2 outputs, restart at 5, counters modulo 8, times 0..3, 3 commands |
| `ops_stages` | OpsStages | stages of the mission | waits 2, 3, 5, reset after 3 ticks, 2 boots, 3 tries, 2 commands, 4 harms |
| `gnc_supervision` | GncSupervision | modes of the planner and of the MTQ | 1 command of the ground, 1 harm |
| `payload_sequence` | PayloadSequence | display and capture | 3 pings, buffers of 2 cells, 2 orders, 2 harms |

### Properties

* **scheduler**: `TypeOK`; `IdMapConsistent` ids and occupied slots correspond;
  `RepsAccounted` remaining repetitions are those given minus the runs;
  `NoOverrun` no task runs more often than asked; `FreedWhenDone` the end of a
  task frees no slot that is not done; `SetTimeKeepsDelays` a time command
  keeps the delays; `DueServed` a due task is served.
* **persistent**: `FlashMirrorsTable` flash never lags behind RAM;
  `AccountedAcrossResets` runs and remaining runs add up across resets.
* **flash_journal**: `FlushedIsRead` a successful flush is what the next boot
  reads; `NeverRefused` no flush is refused; `ImplementsRegister`.
* **ringbuf**: `PopsOnlyFilled` nothing is popped that was not pushed;
  `ImplementsFifo`.
* **kiss_link**: `IntactIsTaken` an intact frame is received whatever came before
  it, unless that broke off in an escape; `LosesOneAtMost` of two intact frames
  in a row the second is always received; `OneStrayAtMost` at most one false
  message before that of an intact frame.
* **mcp_network**: `ExecutedAsAsked` a request runs at most once, at the node
  and with the argument it was sent with; `AnswersInOrder` no result without an
  execution, acknowledgements along the way before the result, each once (a user that asks
  for an echo to itself gets each twice, and is excepted); `Answered` every
  executable command gets a result when nothing is harmed; `TimesAgree` the PPMs
  end with the same time whatever was lost.
* **eps_link**: `TakenInOrder` no answer is taken twice, and none after a newer
  one; `ImplementsMailbox`; `PromptIsTaken` a command that meets the EPS at rest
  and is done within 50 ms gets its own answer.
* **eps_board**: `TimedEnds` a timed switch ends at its time; `OnForAReason` an
  output is on by an order that stands, or because a later timed switch replaced
  its own; `SparesTimed` the periodic restart cuts no timed switch short;
  `RestartsAgain` the periodic restart comes again and again, once commands stop
  (the model's do, after `MaxBoardCommands`).
* **ops_stages**: `DeployOnlyAfterWait`, `StoredOrTriedOut` (a transition ends
  with OPS_SAFE in flash or after its last try), `EventuallyDeploys`.
* **gnc_supervision**: `ResetsJustified` no reboot of the MTQ without a fault or
  a direct use by the ground; `OffKept` OFF stays once the UPPM knows of it;
  `CommReturns` communication comes back after every reset, of the planner, the
  ground or a restart, unless the ground put another task under id 7 before it, or
  cleared or descheduled the task that brings it back; `SafeWhenCritical` at low
  power the MTQ ends in SAFE; `SpinsWhenPowered` with power and sun it ends in
  SUN_SPIN. The last two except communication that the ground keeps off, too.
* **payload_sequence**: `CapturesDisplayed` each order is captured at most once
  and behind its own display, unless a frame was lost, and with its own picture,
  lost frames or not, unless two displays were under way at once; `ArgsAsOrdered`
  the payload gets the arguments of the order, with at most the tail of a longer
  one behind, and none only after the buffer was cleared or reset;
  `CleanPowerOff` power is cut after the shutdown; `Completes` every order ends
  with the payload captured and powered off, if nothing goes wrong.

Every model has a type invariant, `TypeOK`, `LinkTypeOK` or `BoardTypeOK`. Only
the run of the scheduler checks it; it is proved for all models but
GncSupervision, whose `SelectSeq` of a LAMBDA the provers do not know. For each
property `PROJECT.json` names a *mutant*, a plausible mistake in a mapped
definition with which TLC finds the property violated; the mutants stand before
the definitions they replace.

### Why the bounds are enough

*Tables.* Both segments fill up, the two kinds of task compete for an id, and a
task can meet every other in every order. Two ids more or a second time command
add copies. RepsInfinite 3 leaves 0, one, several and infinite.
*Flash.* As in the code, the sector size is no multiple of the record size,
records straddle pages and blocks, and the sector is filled and erased several
times. The places a scan looks at are 5, so one is before, in and behind each
block boundary.
*Ring buffer.* Size 4 fills, wraps and empties; the modulus of the arithmetic is
larger than the size, as 65536 is than 256.
*Frames.* Every class of byte that the parser tells apart; frames that run
together or filler overflow the buffer.
*Network.* Two requests meet on every line, with a time update between them; one
harm hits any frame or PPM at any time. MaxQueue only keeps the endless time
updates from piling up without bound.
*Link to the EPS.* A frame has its two delimiters and a cell between them, so it
can be torn on either side of its middle. The buffer of the EPS holds two
commands and a cell of a third, that of the UPPM one read and a cell: both
overflow, as the 255 bytes of `rxbufs[0]` do with the third read of 127. With three
commands an answer can be late by one and by two.
*EPS board.* The counter can be set to every value, before, at and beyond the
restart; a timed switch can be as long as it may be and still meets the restart;
two outputs and three commands replace a switch, and order it anew.
*Stages.* A wait shorter than, equal to and longer than the reset period; the
limit of boots is reached; the harms suffice for all tries of a transition to be
refused.
*GNC.* One command and one fault at any moment meet every interleaving of the
seven periodic activities; power and sky change without bound.
*Payload.* The second order meets the first in every state; its arguments are
shorter, as long or longer. With two harms a lost answer meets a restart.

### Fairness

The superloop of each node always runs again: `WF(Loop)` in Scheduler, `WF` of
`Process` for each line in McpNetwork, `WF(System)` in OpsStages, which is one
superloop and passing time, `WF` of `Dispatch`, `ParseRx` and the EPS's
`Superloop` in EpsLink, of `EpsSuperloop` in EpsBoard, and of `Sequence` (the UPPM's
scheduler and receiver) in PayloadSequence. A payload that is on boots and serves
what it is sent (`WF(Payload)`). Tasks with infinite repetitions come again
(`Sync`, the periodic tasks of GncSupervision), and the task that ends an MTQ
reset comes after 10 s (`DueServed` is what justifies these). Nothing is assumed
of the ground, of faults, or of lines beyond that a frame on a working line
arrives; a restart of the UPPM or of the EPS, a lost frame or a late answer may
come but need not. Deadlock is checked except in McpNetwork, EpsLink and
PayloadSequence, which stop when their bounds are used up.

GncSupervision assumes that an exchange with the MTQ, milliseconds on a line,
takes less than the seconds between steps of the planner; `GncStep` therefore
waits for its own frames to be served.

## 4. Finding, and limits

**Persisted commands can be dropped** (`flashmgr.c:155`). A command that is
scheduled after a reset and before the first time command is flushed as part of
a table that has not been loaded, and replaces the persisted ones
(`KeptUntilLoaded`, run `sched_flush_before_load`).

Further limits that the models show or that were met while writing them. The
properties above except them, or the bounds of a run leave them out as said; no
run of its own shows them.

Scheduler and flash:

* a loaded command can take over the id of a function task, since loading does
  not look (`flashmgr.c:142`): when that task ends it clears the command instead
  of itself, and runs in every scan from then on. The run `persistent` keeps the
  ids of the two kinds apart;
* a torn record hides the good one before it (`flashmgr.c:106`): the defaults are
  used. For the configuration they mean OPS_SAFE, whose first task deploys the
  antennas; `DeployOnlyAfterWait` has this case in it;
* the reboot counter stops at 32768 and does not wrap, although `flashmgr.c:74`
  says so: its two bytes divide the sector, the check of `flashWriteSafe`
  (`at25df641.c:543`) refuses the last place, and the sector is never erased.
  `GeometryAssumption` excludes such a record; those of 14, 157 and 1002 bytes
  do not divide 65536;
* an interrupted erase leaves old records behind, and a later boot may find one
  (`flashmgr.c:57`); `FlushedIsRead` and the register except it;
* after a time command from within a task, the task's next release is on the old
  time base (`scheduler.c:76`); releases in flash are not refreshed
  (`scheduler.c:130`);

Bytes, packets, stages and modes:

* bytes received during `rb_clear` may be zeroed (`ringbuf.c:15`);
* a message near the limit is too long once escaped (`frame.c:8`);
* a damaged request is acknowledged with its damaged arguments (`mcpmgr.c:93`);
* a user that names itself as the echo of its request gets each answer twice
  (`mcppkt.c:173`); `AnswersInOrder` excepts it;
* `ppm_clear_bufs 1` clears the packet it answers to (UPPM `cmdimpl.c:172`);
* after `mtq_reset` by the ground the planner may reset the MTQ a second time,
  since the status is old (`adcsmtq.c:501`); `ResetsJustified` excepts it;
* an order of `check_eps` on old telemetry can overrule an OFF that has just been
  set (UPPM `main.c:229`); `OffKept` begins when the UPPM knows of OFF;
* with task id 7 taken by another command when the MTQ is reset, or its task
  cleared or descheduled, the MTQ stays silent until a reset or a restart finds the
  id free (`adcsmtq.c:506`), and no planner resets a silent MTQ; `CommReturns`
  excepts this use by the ground, and no other;
* on flash without any record the first boot is in OPS_SAFE; OpsStages begins
  with OPS_INIT stored, as at launch.

EPS:

* an answer that is not ready after 50 ms is read with the next command and taken
  then, for a later command than its own (`mcppkt.c:137`); `TakenInOrder` is what
  remains true;
* commands that arrive while the EPS works on one are dropped by the `rb_clear`
  before its answer (`cmdpkt.c:167`), whole or in part;
* a timed switch of time 0 lasts a whole turn of the 16-bit counter; one that is
  replaced by another leaves its output on (`cmdimpl.c:600`); and a running timer
  also ends an output that a plain order has switched on again;
* a timed switch that is ordered on the tick before the periodic restart is cut
  short by it (`main.c:515`), and a counter set beyond 7200 puts the restart off
  until it has come round. `eps_rst_ctn` or timed switches, repeated in time, put
  it off for ever.

Payload sequence:

* a negative or lost answer ends the sequence with the payload on, until the EPS
  restarts (UPPM `cmdimpl.c:764`): no step has a timeout;
* the tail of longer arguments stays behind shorter ones (`pldmgr.c:23`), since
  `memset` clears as many bytes as a pointer has; the first cell of a buffer in
  the model stands for these;
* `rpi_disp_cap` reports FAILURE when the payload's task id is in use, although
  the order has been taken and the state has been reset (`cmdimpl.c:718`);
* after a reset of the UPPM the pings come back from flash, and start a sequence
  with empty arguments;
* with two pings answered and an order in between, the displays of both orders are
  under way at once, and the answer to the first is taken for the second's. If the
  second display then fails or is lost, its capture is taken with the first picture
  still shown, and the negative answer is ignored since the state is no longer
  STARTED (UPPM `cmdimpl.c:757`); `CapturesDisplayed` excepts the picture then;
* a payload whose shutdown was lost stays up until its power is cut, and can be
  taken through an order again by a ping answer left over; `CapturesDisplayed`
  excepts this too, and `CleanPowerOff` what comes after any harm;
* with five orders that overlap, nothing else going wrong, a ping answer left
  over starts the sequence once more after `cam_off` while the state is OFF.
  The `scheduler_clear_task` of `com_ping` then removes the power off scheduled
  under the same id: the payload halts and keeps its power (UPPM
  `cmdimpl.c:739`, `:825`). `Completes` holds with up to four orders; the run has
  two;
* in the model the lines are empty when the power is cut after 30 s, unless
  something went wrong before (`RunOff`): the payload serves what it was sent
  in less.

## 5. What is proved

The proofs hold for every value of the constants that satisfies the ASSUMEs of
the modules: any number of slots, ids, jobs and outputs, any size of buffer,
frame, record and sector, any wait, period and limit, any number of faults and
commands. An invariant of a run is seldom inductive; what each proof adds is the
reason why it holds.

* **SchedulerProofs**: `TypeCorrect`, `IdMapAlwaysConsistent`,
  `RepsAlwaysAccounted`, `NeverOverruns`, `OnlyFreedWhenDone`, `DelaysKept`.
  Consistency of ids and slots is not inductive alone, since an id map that points
  to another segment or a slot out of range would break it with the next
  operation. `GoodTable` adds types and segments. One lemma per operation of the
  table says that it keeps a good table good; the steps of the scheduler cite
  them. `RepsAccounted` speaks of tasks between scans; a task that runs has been
  counted and not yet charged, and may have been given new repetitions meanwhile.
  `Balanced` is the balance of a slot with what is in progress, and covers 0,
  RepsInfinite and runs that are not charged.
  For PersistentScheduler: `FlashAlwaysMirrors`, `AlwaysAccounted`,
  `PTypeCorrect`. All operations but a load and a reset are steps of Scheduler
  with a flush, so its invariant carries over. `PInv` adds that free slots are all
  zero (`Tidy`), what the record in flash looks like (`StoredGood`), and that flash
  and RAM hold the same commands or RAM holds none and runs none (`Mirrors`,
  `Unloaded`). The runs are balanced against the repetitions in flash rather than
  in RAM (`StoredOwed`), since those survive the reset. The theorems assume
  `IdsApart`, that no command has the id of a function task that `system_init`
  schedules. The code does not check this when it loads: `flashmgr.c` maps the id
  of a loaded command to its slot whatever it was mapped to. It is up to whoever
  chooses the ids of commands.
* **FlashJournalProofs**: `NeverRefusesAFlush`, `FlushedIsAlwaysRead`,
  `JournalIsRegister`, `JournalKeepsTypes`. The journal is in order when all places before some place
  are not empty and all from it on are: then the scan finds that place. An
  interrupted erase breaks the second half, and `Ordered` keeps
  the halves apart: the first is enough for the place that a flush chooses to be
  empty (`NeverRefused`), the record of a complete flush is the last one the scan
  finds by both. The
  invariant for a flush in progress says which cells of the new place are
  written, page by page.
* **ReceptionProofs**: `RingBufTyped`, `NeverPopsEmpty`, `RingIsFifo`. That a pop
  copies only from a filled buffer needs `FilledOnceSeen`, what each of the two
  reads of `w` established: if the first saw `w >= r`, the second may see a
  smaller `w` only if pushes have wrapped it, and then the difference modulo 2^16
  is not 0. The refinement adds that the byte copied is still at `r` when `r`
  advances (`CopyIsKept`), and that `memset` begins at the oldest byte.
  For KissLink: `IntactAlwaysTaken`, `AlwaysLosesOneAtMost`,
  `AlwaysOneStrayAtMost`. While a frame arrives intact the parser is at one of
  five places in it (`Progress`: before the header, behind it, in the body, in an
  escape, or at the end), and in the body it has stored exactly what has been
  taken from the line: the message is `done \o rest` and the line holds the
  framing of `rest`. A parser that stood in an escape when the header came is
  the exception `escaped`, which waits for the footer, and so is right for the
  frame after (`before => ~escaped`).
* **EpsProofs**, for EpsLink: `AlwaysTakenInOrder`, `LinkAlwaysTyped`, `LinkIsMailbox`. A
  frame is told by its last cell, which is written once and read once. The last
  cells on their way to the EPS, in its buffer and its parser, are in the order
  of the commands, and so are those on the way back; between the two stands
  `latest`. The box of the refinement is what a read that is under way, or one
  that begins now, would return.
  For EpsBoard: `BoardTyped`, `TimedAlwaysEnds`, `AlwaysForAReason`,
  `TimedSpared`. The timer has not passed its end (`TimerBelowEnd`), so that the
  comparison for equality cannot miss it; and a restart counter one tick before
  the restart with a switch outstanding is one that a command put there
  (`LateIsKnown`).
* **OpsStagesProofs**: `OpsTyped`, `NoEarlyDeployment`, `TransitionStores`. That
  the antennas wait is not inductive: the deployment is one boot after the
  transition that allows it. `IInv` says that from launch on either nothing but
  waiting has happened, with OPS_INIT in flash and the stored wait pending
  (`AtLaunch`), or there is a `Reason` for deployment that never goes away again.
* **GncSupervisionProofs**: `ResetsAlwaysJustified`, `OffAlwaysKept`. While
  nothing has gone wrong, the mode of the MTQ, the mode the planner expects and
  the status it has read last are in one of four relations to the frames on the
  line (`Coherent`: `Silent`, `Agreed`, `Ordered`, `Taken`), and in none of them
  does the planner see a SAFE that it did not expect.

* **PayloadSequenceProofs**: `AlwaysCapturesDisplayed`, `ArgsAlwaysAsOrdered`,
  `PowerOffAlwaysClean`, `PayloadTyped`. What an argument buffer holds is the
  newest order in front and the tail of a longer one behind (`BufferKept`), and
  so do the messages made of it (`LinesKept`). For a capture on the line the
  question is what the payload will be showing by the time it comes to it: what
  it shows now if nothing before it on the line changes that, or the last display
  command before it (`ShownBy`), and that no earlier capture is of the same order
  (`Fresh`). Both are also said of the capture that the next answer to a display
  will set off (`NextShown`, `NextFresh`), without which they are not inductive.
  What the payload was asked to display is not yet what it displays: a display may
  fail. `PictureInv` follows the one display that is under way from the UPPM to the
  payload (`SentRight`), its positive answer back (`AnsweredRight`), and the capture
  that sets off (`PictureRight`); it holds while there is only one (`OneDisplay`).
  `Clean` says where a payload is whose power is due to be cut.
* **McpNetworkProofs**: `AlwaysExecutedAsAsked`, `AlwaysAnswersInOrder`,
  `McpTyped`. Every step of the network does three things to the frames on the
  lines: some leave or are damaged, some are shown to a user, some are appended to
  a line. That an invariant survives each of the three is proved once, and for
  an action only what it takes, shows and sends. `Requested`: of each request there
  is at most one frame and none once it was run, and while it is intact it is the
  original, on the way from its user to its destination; no PPM sends a
  frame back where it came from (`PortsCross`). `AnswersFollow`: an answer on a
  line goes home and a result is of a request that was run; ahead of an intact
  request there is nothing, or acknowledgements of the first PPM, and those that
  share its line are before it; and the answers seen or under way are in
  order. The last part holds only of requests that were run or are intact: the
  answers to a request with a damaged header may come from anywhere, and twice,
  and it is never run. The forwarding itself is a recursive function over the
  frames of a handler (`Selected`); that it keeps their order is an induction over
  its places, done with the well-founded order of the naturals.

Only model-checked are the liveness properties (`DueServed`, `Answered`,
`TimesAgree`, `PromptIsTaken`, `RestartsAgain`, `EventuallyDeploys`,
`CommReturns`, `SafeWhenCritical`, `SpinsWhenPowered`, `Completes`), for which
the prover has no fairness reasoning. Every invariant, action property and
refinement of the passing runs is proved. What TLC adds for these is that the
states they speak of are reached, and, by the mutants, that they depend on the
code. `KeptUntilLoaded` is the property that the code violates.

## 6. What is not modelled

Device drivers, CRC and calendar arithmetic, log messages, the texts of commands
and the layout of the telemetry: input and output or pure functions. A CRC is
modelled by whether it fits. The commands that read or set one value are one
path, which McpNetwork has. The table of commands is filled once at boot and only
read afterwards. The parser of the Naviguider's text protocol has no state that
another part depends on.

Of the EPS, burns of the antennas appear by their length against the watchdog,
and measured values by the mode they lead to; the converters and sensors are
registers that are read. EpsBoard and EpsLink are not composed: nothing in the
link depends on what a command does, and EpsBoard lets any command arrive at any
time, which includes those the link lets through.

The flying software, `common/maveric` and the three projects above, is about
12,100 lines of the 88,580 in the repository. The rest does not fly here:
`archive/aeneas` is the software of an earlier satellite, `misc/sboot` the boot
tools and test programs of another processor, `projects/Dodona` build files, and
`tests` tests classes that are gone. A share of the whole repository says little
about the coverage of the system for this reason.

## 7. Plan

Done, in this order: the scheduler and its persistence; flash; bytes and frames;
packets; stages of the mission; GNC; the link to the EPS, its board, and the
payload sequence; the proofs of section 5.

Left, most useful first:

1. The race between the ground's OFF and an order of the power check decided on
   older telemetry, as a property of its own, once it is settled who should win.
2. An abstract specification of the network, requests that are executed once and
   answered in order, which McpNetwork implements as EpsLink does EpsMailbox.
3. The reboot counter on a sector that its records divide, and the erase that
   would let it wrap.
4. `HashTable` against a function, for all short sequences of operations.
5. The parser of the Naviguider.
