----------------------------- MODULE Scheduler ------------------------------
(***************************************************************************)
(* The task scheduler of both computers (common/maveric/src/scheduler.c),  *)
(* driven by the superloop.  One thread runs everything: between scans it  *)
(* handles received commands, and a scan visits every slot and runs the    *)
(* tasks that are due.  The work of a task is itself a client of the       *)
(* scheduler, so a call may arrive while the scan stands in a slot.        *)
(* The clock is the system time: it advances on its own and a time command *)
(* moves it either way.                                                    *)
(***************************************************************************)
EXTENDS SchedTable

CONSTANTS
  FuncJobs,    \* function tasks the code schedules: [id, delay, period, reps]
  CmdJobs,     \* commands it may be asked to schedule, the same fields
  StartTimes,  \* start times given to the _at operations
  Periods,     \* arguments of scheduler_update_task
  RepCounts,
  MaxTime,     \* bound on the clock
  MaxSets      \* bound on the number of time commands

Job == [id : Ids, delay : Nat, period : Nat, reps : 0 .. RepsInfinite]

ASSUME JobsAssumption ==
  /\ FuncJobs \subseteq Job /\ CmdJobs \subseteq Job
  /\ StartTimes \subseteq Nat /\ Periods \subseteq Nat
  /\ RepCounts \subseteq 0 .. RepsInfinite
  /\ MaxTime \in Nat /\ MaxSets \in Nat

VARIABLES
  tab,       \* g_scheduler
  clock,     \* systime_epoch_ms()
  pc,        \* where the superloop stands
  slot,      \* i of scheduler_run_tasks
  loopNow,   \* now of scheduler_run_tasks, read before the task's work
  sets,      \* time commands so far
  runs,      \* ghost: runs of the task in a slot since it got its repetitions
  budget     \* ghost: the repetitions it was given

vars == <<tab, clock, pc, slot, loopNow, sets, runs, budget>>

Idle  == pc = "idle"
InRun == pc \in {"body", "func", "after"}
Executing(s) == InRun /\ slot = s

Init ==
  /\ tab = EmptyTable
  /\ clock = 0 /\ sets = 0
  /\ pc = "idle" /\ slot = 0 /\ loopNow = 0
  /\ runs = [s \in Slots |-> 0]
  /\ budget = [s \in Slots |-> 0]

-----------------------------------------------------------------------------
(* Calls into the scheduler.  A handler or a task's work makes one call,   *)
(* except that a heartbeat check may schedule several function tasks       *)
(* (mtq_reset and nvg_reset in one hk_heartbeats).                         *)

Called == /\ pc \in {"idle", "body"}
          /\ pc' = IF Idle THEN pc ELSE "after"
          /\ UNCHANGED <<slot, loopNow>>

CalledFunc == /\ pc \in {"idle", "body", "func"}
              /\ pc' = IF Idle THEN pc ELSE "func"
              /\ UNCHANGED <<slot, loopNow>>

(* Ghost bookkeeping: a slot that gets repetitions starts counting anew, a *)
(* run in progress counting as the first of them; a freed slot has none.   *)
Settle ==
  /\ runs' = [s \in Slots |-> IF Occupied(tab', s) THEN runs[s] ELSE 0]
  /\ budget' = [s \in Slots |-> IF Occupied(tab', s) THEN budget[s] ELSE 0]

Grant(s, reps) ==
  /\ runs' = [runs EXCEPT ![s] = IF Executing(s) THEN 1 ELSE 0]
  /\ budget' = [budget EXCEPT ![s] = reps]

Schedule(job, type, segment, start) ==
  /\ tab' = ScheduleTask(tab, Create(job.id, type, start, job.period, job.reps), segment)
  /\ IF CanSchedule(tab, job.id, segment)
       THEN Grant(FirstFree(tab, segment), job.reps)
       ELSE UNCHANGED <<runs, budget>>

ScheduleFunc(job, start) ==
  CalledFunc /\ Schedule(job, "FUNC", FuncSlots, start) /\ UNCHANGED <<clock, sets>>

ScheduleCmd(job, start) ==
  Called /\ Schedule(job, "CMD", CmdSlots, start) /\ UNCHANGED <<clock, sets>>

DescheduleCall(id) ==
  /\ Called
  /\ tab' = Deschedule(tab, id)
  /\ UNCHANGED <<clock, sets, runs, budget>>

RescheduleCall(id, next) ==
  /\ Called
  /\ tab' = Reschedule(tab, id, next)
  /\ UNCHANGED <<clock, sets, runs, budget>>

UpdateCall(id, period, reps) ==
  /\ Called
  /\ tab' = UpdateTask(tab, id, period, reps)
  /\ IF Found(tab, id) THEN Grant(tab.idMap[id], reps) ELSE UNCHANGED <<runs, budget>>
  /\ UNCHANGED <<clock, sets>>

ClearCall(id) ==
  /\ Called
  /\ tab' = ClearTask(tab, id)
  /\ Settle
  /\ UNCHANGED <<clock, sets>>

(* ppm_set_time and hk_systime_sync: move the clock, then refresh.         *)
SetTime(time) ==
  /\ Called
  /\ sets < MaxSets
  /\ sets' = sets + 1
  /\ clock' = time
  /\ tab' = RefreshAll(tab, clock, time)
  /\ UNCHANGED <<runs, budget>>

-----------------------------------------------------------------------------
(* scheduler_run_tasks                                                     *)

StartScan ==
  /\ Idle
  /\ pc' = "scan" /\ slot' = 0
  /\ UNCHANGED <<tab, clock, loopNow, sets, runs, budget>>

(* mutant: the scan ends with the first task that is due *)
NextSlotStops == pc' = "idle" /\ slot' = 0

NextSlot ==
  IF slot + 1 \in Slots
    THEN pc' = "scan" /\ slot' = slot + 1
    ELSE pc' = "idle" /\ slot' = 0

Skip ==
  /\ pc = "scan" /\ ~Due(tab, slot, clock)
  /\ NextSlot
  /\ UNCHANGED <<tab, clock, loopNow, sets, runs, budget>>

Begin ==
  /\ pc = "scan" /\ Due(tab, slot, clock)
  /\ pc' = "body" /\ loopNow' = clock
  /\ runs' = IF budget[slot] = RepsInfinite THEN runs ELSE [runs EXCEPT ![slot] = @ + 1]
  /\ UNCHANGED <<tab, clock, slot, sets, budget>>

Finish ==
  /\ InRun
  /\ tab' = AfterRun(tab, slot, loopNow)
  /\ loopNow' = 0
  /\ Settle
  /\ NextSlot
  /\ UNCHANGED <<clock, sets>>

Tick ==
  /\ clock < MaxTime
  /\ clock' = clock + 1
  /\ UNCHANGED <<tab, pc, slot, loopNow, sets, runs, budget>>

-----------------------------------------------------------------------------
Call ==
  \/ \E job \in FuncJobs : \E start \in StartTimes \cup {clock + job.delay} :
       ScheduleFunc(job, start)
  \/ \E job \in CmdJobs : \E start \in StartTimes \cup {clock + job.delay} :
       ScheduleCmd(job, start)
  \/ \E id \in Ids : DescheduleCall(id)
  \/ \E id \in Ids : \E next \in StartTimes \cup {clock} : RescheduleCall(id, next)
  \/ \E id \in Ids, period \in Periods, reps \in RepCounts : UpdateCall(id, period, reps)
  \/ \E id \in Ids : ClearCall(id)
  \/ \E time \in 0 .. MaxTime : SetTime(time)

Loop == StartScan \/ Skip \/ Begin \/ Finish

Next == Call \/ Loop \/ Tick

Spec == Init /\ [][Next]_vars /\ WF_vars(Loop)

-----------------------------------------------------------------------------
TypeOK ==
  /\ tab \in Table /\ Segmented(tab)
  /\ clock \in 0 .. MaxTime /\ sets \in 0 .. MaxSets
  /\ pc \in {"idle", "scan", "body", "func", "after"}
  /\ slot \in Slots /\ loopNow \in 0 .. MaxTime
  /\ runs \in [Slots -> Nat]
  /\ budget \in [Slots -> 0 .. RepsInfinite]

(* Every task can be found by its id and no id leads to a freed slot or to *)
(* another task, so that a task that completes clears itself and nothing   *)
(* else (scheduler_clear_task goes through id_map).                        *)
IdMapConsistent == Consistent(tab)

(* The remaining repetitions of a task are those it was given minus the    *)
(* runs it has had, whatever was scheduled, cleared or updated from within *)
(* the runs of this and other tasks.  A run counts when it begins and is   *)
(* charged when it ends.                                                   *)
RepsAccounted ==
  \A s \in Slots :
    Occupied(tab, s) =>
      IF budget[s] \in {0, RepsInfinite}
        THEN tab.tasks[s].reps = budget[s]
        ELSE tab.tasks[s].reps + runs[s] = budget[s] + (IF Executing(s) THEN 1 ELSE 0)

(* A task given n repetitions, n > 0 and finite, never runs more than n    *)
(* times; one given none runs once at most.                                *)
NoOverrun ==
  \A s \in Slots :
    Occupied(tab, s) /\ budget[s] # RepsInfinite =>
      runs[s] <= IF budget[s] = 0 THEN 1 ELSE budget[s]

(* A scan frees a slot only after the task has used up its repetitions: no *)
(* other task's completion takes it away.                                  *)
FreedWhenDone ==
  [][Finish => \A s \in Slots :
       Occupied(tab, s) /\ ~Occupied(tab', s) =>
         budget[s] # RepsInfinite /\ runs[s] >= budget[s]]_vars

(* When the system time is set, each active task keeps the delay that was  *)
(* left to its next release.                                               *)
SetTimeKeepsDelays ==
  [][sets' # sets => \A s \in Slots :
       tab.tasks[s].active => tab'.tasks[s].next - clock' = tab.tasks[s].next - clock]_vars

(* A due task is run, or stops being due because someone cleared,          *)
(* descheduled or moved it; no other task can starve it.                   *)
DueServed ==
  \A s \in Slots : Due(tab, s, clock) ~> (~Due(tab, s, clock) \/ Executing(s))
=============================================================================
