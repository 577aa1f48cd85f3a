------------------------ MODULE PersistentScheduler -------------------------
(***************************************************************************)
(* The scheduler of the upper computer: scheduler.c with the table of      *)
(* scheduled commands kept in flash.  Operations on commands flush the     *)
(* whole command segment; a reset loses the table in RAM, schedules the    *)
(* function tasks of system_init again, and the commands come back with    *)
(* the first time command after the reset (ppm_set_time_from_str calls     *)
(* flashmgr_schedules_load_flash).                                         *)
(*                                                                         *)
(* A flush is one step here: FlashJournal models what happens within.      *)
(***************************************************************************)
EXTENDS Scheduler, Sequences

CONSTANTS
  BootJobs,   \* the function tasks of system_init: a set of sequences of jobs
  MaxBoots    \* bound on the number of resets

ASSUME BootAssumption ==
  /\ \A jobs \in BootJobs :   \* they fit, and have ids of their own
       /\ jobs \in Seq(Job) /\ Len(jobs) <= MaxFuncTasks
       /\ \A m, n \in DOMAIN jobs : jobs[m].id = jobs[n].id => m = n
  /\ MaxBoots \in Nat

VARIABLES
  image,     \* the last schedules record in flash, or NoImage
  loaded,    \* flash_scheds_loaded
  boots,     \* resets so far
  execs,     \* ghost: runs of a command slot since it got its repetitions,
             \* whatever resets came between
  owed       \* ghost: the runs it is owed since then

flashVars == <<image, loaded, boots, execs, owed>>
pvars == <<vars, flashVars>>

NoImage == <<>>
Segment(t) == [s \in CmdSlots |-> t.tasks[s]]

(* Every operation ends with a flush if it touched a command.              *)
FlushIf(touched) == image' = IF touched THEN Segment(tab') ELSE image

IsCommand(id) == Found(tab, id) /\ tab.tasks[tab.idMap[id]].type = "CMD"

(* What flashmgr_schedules_load_flash makes of a table: free command slots *)
(* are filled from the image, and the ids of those it fills mapped to them,*)
(* whatever they were mapped to.                                           *)
Loads == ~loaded /\ image # NoImage

Restored(t) == {s \in CmdSlots : ~Occupied(t, s) /\ image[s].type # "NONE"}

Load(t) ==
  [tasks |-> [s \in Slots |-> IF s \in Restored(t) THEN image[s] ELSE t.tasks[s]],
   idMap |-> [id \in Ids |->
                LET slots == {s \in Restored(t) : image[s].id = id}
                IN  IF slots = {} THEN t.idMap[id]
                    ELSE CHOOSE s \in slots : \A r \in slots : r <= s]]

(* The function tasks of system_init, scheduled one after the other into   *)
(* an empty table.                                                         *)
Booted(jobs) ==
  [tasks |-> [s \in Slots |->
                IF s + 1 \in DOMAIN jobs
                  THEN LET job == jobs[s + 1]
                       IN  Create(job.id, "FUNC", job.delay, job.period, job.reps)
                  ELSE Empty],
   idMap |-> [id \in Ids |->
                LET slots == {s \in FuncSlots : s + 1 \in DOMAIN jobs /\ jobs[s + 1].id = id}
                IN  IF slots = {} THEN Null ELSE CHOOSE s \in slots : TRUE]]

PInit ==
  /\ \E jobs \in BootJobs :
       /\ tab = Booted(jobs)
       /\ budget = [s \in Slots |-> Booted(jobs).tasks[s].reps]
  /\ clock = 0 /\ sets = 0
  /\ pc = "idle" /\ slot = 0 /\ loopNow = 0
  /\ runs = [s \in Slots |-> 0]
  /\ image = NoImage /\ loaded = FALSE /\ boots = 0
  /\ execs = [s \in CmdSlots |-> 0] /\ owed = [s \in CmdSlots |-> 0]

-----------------------------------------------------------------------------
(* Ghost bookkeeping of the runs of commands across resets.                *)
Owe(s, reps) ==
  /\ execs' = [execs EXCEPT ![s] = IF Executing(s) THEN 1 ELSE 0]
  /\ owed'  = [owed EXCEPT ![s] = IF reps = 0 THEN 1 ELSE reps]

SameOwed == UNCHANGED <<execs, owed>>
SameBoot == UNCHANGED <<loaded, boots>>

PScheduleCmd(job) ==
  /\ ScheduleCmd(job, clock + job.delay)
  /\ FlushIf(CanSchedule(tab, job.id, CmdSlots))
  /\ IF CanSchedule(tab, job.id, CmdSlots)
       THEN Owe(FirstFree(tab, CmdSlots), job.reps)
       ELSE SameOwed
  /\ SameBoot

PDeschedule(id) ==
  DescheduleCall(id) /\ FlushIf(IsCommand(id)) /\ SameOwed /\ SameBoot

PReschedule(id) ==
  RescheduleCall(id, clock) /\ FlushIf(IsCommand(id)) /\ SameOwed /\ SameBoot

(* mutant: no flush *)
PUpdateNoFlush(id, period, reps) ==
  /\ UpdateCall(id, period, reps)
  /\ UNCHANGED image
  /\ IF IsCommand(id) THEN Owe(tab.idMap[id], reps) ELSE SameOwed
  /\ SameBoot

PUpdate(id, period, reps) ==
  /\ UpdateCall(id, period, reps)
  /\ FlushIf(IsCommand(id))
  /\ IF IsCommand(id) THEN Owe(tab.idMap[id], reps) ELSE SameOwed
  /\ SameBoot

PClear(id) ==
  ClearCall(id) /\ FlushIf(IsCommand(id)) /\ SameOwed /\ SameBoot

(* ppm_set_time_from_str: move the clock, refresh, load.                   *)
PSetTime(time) ==
  /\ Called
  /\ sets < MaxSets
  /\ sets' = sets + 1
  /\ clock' = time
  /\ LET refreshed == RefreshAll(tab, clock, time)
     IN  IF Loads
           THEN /\ tab' = Load(refreshed)
                /\ loaded' = TRUE
                /\ runs' = [s \in Slots |-> IF s \in Restored(tab) THEN 0 ELSE runs[s]]
                /\ budget' = [s \in Slots |->
                                IF s \in Restored(tab) THEN image[s].reps ELSE budget[s]]
           ELSE tab' = refreshed /\ UNCHANGED <<loaded, runs, budget>>
  /\ UNCHANGED <<image, boots, execs, owed>>

PBegin ==
  /\ Begin
  /\ execs' = IF slot \in CmdSlots /\ tab.tasks[slot].reps # RepsInfinite
                THEN [execs EXCEPT ![slot] = @ + 1]
                ELSE execs
  /\ UNCHANGED <<image, loaded, boots, owed>>

(* mutant: flush only when the command is done *)
PFinishLazy ==
  /\ Finish
  /\ LET task == tab.tasks[slot]
     IN  FlushIf(RepsLeft(task.reps) = 0 /\ task.type # "NONE" /\ IsCommand(task.id))
  /\ SameOwed /\ SameBoot

PFinish ==
  /\ Finish
  /\ LET task == tab.tasks[slot]
     IN  FlushIf(IF RepsLeft(task.reps) > 0 THEN task.type = "CMD"
                 ELSE task.type # "NONE" /\ IsCommand(task.id))
  /\ SameOwed /\ SameBoot

(* ppm_reset, the scheduled reset, the watchdog or a loss of power: RAM is *)
(* gone and system_init runs.  A run cut short is owed again.              *)
Reboot(jobs) ==
  /\ boots < MaxBoots
  /\ boots' = boots + 1
  /\ tab' = Booted(jobs)
  /\ budget' = [s \in Slots |-> Booted(jobs).tasks[s].reps]
  /\ runs' = [s \in Slots |-> 0]
  /\ clock' = 0 /\ pc' = "idle" /\ slot' = 0 /\ loopNow' = 0
  /\ loaded' = FALSE
  /\ owed' = IF InRun /\ slot \in CmdSlots THEN [owed EXCEPT ![slot] = @ + 1] ELSE owed
  /\ UNCHANGED <<image, sets, execs>>

PCall ==
  \/ \E job \in CmdJobs : PScheduleCmd(job)
  \/ \E id \in Ids : PDeschedule(id)
  \/ \E id \in Ids : PReschedule(id)
  \/ \E id \in Ids, period \in Periods, reps \in RepCounts : PUpdate(id, period, reps)
  \/ \E id \in Ids : PClear(id)
  \/ \E time \in 0 .. MaxTime : PSetTime(time)

PNext ==
  \/ PCall
  \/ (StartScan \/ Skip \/ Tick) /\ UNCHANGED flashVars
  \/ PBegin \/ PFinish
  \/ \E jobs \in BootJobs : Reboot(jobs)

PSpec == PInit /\ [][PNext]_pvars

-----------------------------------------------------------------------------
PTypeOK ==
  /\ TypeOK
  /\ image \in {NoImage} \cup [CmdSlots -> Task]
  /\ loaded \in BOOLEAN /\ boots \in 0 .. MaxBoots
  /\ execs \in [CmdSlots -> Nat] /\ owed \in [CmdSlots -> Nat]

(* All of a task but its next release, which is not flushed when the time  *)
(* is set.                                                                 *)
Kept(task) == <<task.type, task.id, task.active, task.period, task.reps>>

(* Flash never lags behind RAM: the last record holds the commands of the  *)
(* table with the repetitions they have left, or none of them has been     *)
(* loaded or scheduled since the reset.                                    *)
FlashMirrorsTable ==
  \/ \A s \in CmdSlots :
       Kept(tab.tasks[s]) = Kept(IF image = NoImage THEN Empty ELSE image[s])
  \/ ~loaded /\ \A s \in CmdSlots : ~Occupied(tab, s)

(* A command runs as often as it was asked to across resets, neither more  *)
(* nor less: what it has left and what it has run make up what it is owed, *)
(* where a run that a reset cut short is repeated.                         *)
AccountedAcrossResets ==
  \A s \in CmdSlots :
    Occupied(tab, s) /\ tab.tasks[s].reps # RepsInfinite =>
      LET left == IF tab.tasks[s].reps = 0 THEN 1 ELSE tab.tasks[s].reps
      IN  left + execs[s] = owed[s] + (IF Executing(s) THEN 1 ELSE 0)

PersistedIds(i) == IF i = NoImage THEN {} ELSE {i[s].id : s \in {r \in CmdSlots : i[r].type = "CMD"}}

(* Commands wait in flash for the first time command after a reset: until  *)
(* they are loaded no flush drops them.                                    *)
KeptUntilLoaded ==
  [][~loaded /\ (\A s \in CmdSlots : ~Occupied(tab, s))
       => PersistedIds(image) \subseteq PersistedIds(image')]_pvars

=============================================================================
