----------------------------- MODULE SchedTable -----------------------------
(***************************************************************************)
(* The data of scheduler_s and the operations that scheduler.c performs on *)
(* it, as operators from tables to tables.  A table is a record of         *)
(*   tasks  the array of schedtask_s, function tasks first, commands after *)
(*   idMap  id_map, the slot that an id points at, or Null                 *)
(* The function pointer or command of a task is not part of the record:    *)
(* cmd_ptr always points at the command buffer of the task's own slot, so  *)
(* a slot and its command are written, cleared and flashed together.       *)
(***************************************************************************)
EXTENDS Integers

CONSTANTS
  MaxFuncTasks,   \* SCHEDULER_MAX_FUNC_TASKS
  MaxCmdTasks,    \* SCHEDULER_MAX_CMD_TASKS
  MaxIds,         \* SCHEDULER_MAX_IDS
  RepsInfinite    \* SCHEDULE_REPS_INFINITE, the largest uint16

ASSUME SchedConstants ==
  /\ MaxFuncTasks \in Nat \ {0}
  /\ MaxCmdTasks \in Nat \ {0}
  /\ MaxIds \in Nat \ {0}
  /\ RepsInfinite \in Nat \ {0}

FuncSlots == 0 .. MaxFuncTasks - 1
CmdSlots  == MaxFuncTasks .. MaxFuncTasks + MaxCmdTasks - 1
Slots     == 0 .. MaxFuncTasks + MaxCmdTasks - 1
Ids       == 0 .. MaxIds - 1
Null      == -1

Task == [type   : {"NONE", "FUNC", "CMD"},
         id     : Ids,
         active : BOOLEAN,
         next   : Int,
         period : Nat,
         reps   : 0 .. RepsInfinite]

Table == [tasks : [Slots -> Task], idMap : [Ids -> Slots \cup {Null}]]

(* What memset(task_ptr, 0, sizeof(schedtask_s)) leaves in a slot.         *)
Empty == [type |-> "NONE", id |-> 0, active |-> FALSE,
          next |-> 0, period |-> 0, reps |-> 0]

EmptyTable == [tasks |-> [s \in Slots |-> Empty],
               idMap |-> [i \in Ids |-> Null]]

Create(id, type, next, period, reps) ==
  [type |-> type, id |-> id, active |-> TRUE,
   next |-> next, period |-> period, reps |-> reps]

Occupied(tab, s) == tab.tasks[s].type # "NONE"

-----------------------------------------------------------------------------
(* schedule_task: refuse an id in use or a full segment, else take the     *)
(* first free slot of the segment.                                         *)

InUse(tab, id) == tab.idMap[id] # Null /\ Occupied(tab, tab.idMap[id])

Free(tab, segment) == {s \in segment : ~Occupied(tab, s)}

FirstFree(tab, segment) ==
  CHOOSE s \in Free(tab, segment) : \A r \in Free(tab, segment) : s <= r

CanSchedule(tab, id, segment) == ~InUse(tab, id) /\ Free(tab, segment) # {}

Place(tab, task, s) ==
  [tasks |-> [tab.tasks EXCEPT ![s] = task],
   idMap |-> [tab.idMap EXCEPT ![task.id] = s]]

ScheduleTask(tab, task, segment) ==
  IF CanSchedule(tab, task.id, segment)
    THEN Place(tab, task, FirstFree(tab, segment))
    ELSE tab

-----------------------------------------------------------------------------
(* The operations that look a task up by id first check that the slot the  *)
(* id points at still carries that id.                                     *)

Found(tab, id) == tab.idMap[id] # Null /\ tab.tasks[tab.idMap[id]].id = id

SetSlot(tab, s, task) == [tab EXCEPT !.tasks[s] = task]

Deschedule(tab, id) ==
  LET s == tab.idMap[id]
  IN  IF Found(tab, id)
        THEN SetSlot(tab, s, [tab.tasks[s] EXCEPT !.active = FALSE])
        ELSE tab

Reschedule(tab, id, next) ==
  LET s == tab.idMap[id]
  IN  IF Found(tab, id)
        THEN SetSlot(tab, s, [tab.tasks[s] EXCEPT !.active = TRUE, !.next = next])
        ELSE tab

(* mutant: the repetitions are not updated *)
UpdateTaskPeriodOnly(tab, id, period, reps) ==
  LET s == tab.idMap[id]
  IN  IF Found(tab, id)
        THEN SetSlot(tab, s, [tab.tasks[s] EXCEPT !.period = period])
        ELSE tab

UpdateTask(tab, id, period, reps) ==
  LET s == tab.idMap[id]
  IN  IF Found(tab, id)
        THEN SetSlot(tab, s, [tab.tasks[s] EXCEPT !.period = period, !.reps = reps])
        ELSE tab

(* mutant: the id stays mapped *)
ClearTaskKeepsId(tab, id) ==
  IF Found(tab, id) THEN SetSlot(tab, tab.idMap[id], Empty) ELSE tab

ClearTask(tab, id) ==
  IF Found(tab, id)
    THEN [tasks |-> [tab.tasks EXCEPT ![tab.idMap[id]] = Empty],
          idMap |-> [tab.idMap EXCEPT ![id] = Null]]
    ELSE tab

-----------------------------------------------------------------------------
(* scheduler_refresh_all: keep the delay to the next release of every      *)
(* active task when the system time moves from oldtime to now.             *)

(* mutant: the loop ends with the function tasks *)
RefreshAllFuncOnly(tab, oldtime, now) ==
  [tab EXCEPT !.tasks =
     [s \in Slots |->
        IF tab.tasks[s].active /\ s \in FuncSlots
          THEN [tab.tasks[s] EXCEPT !.next = now + (@ - oldtime)]
          ELSE tab.tasks[s]]]

RefreshAll(tab, oldtime, now) ==
  [tab EXCEPT !.tasks =
     [s \in Slots |->
        IF tab.tasks[s].active
          THEN [tab.tasks[s] EXCEPT !.next = now + (@ - oldtime)]
          ELSE tab.tasks[s]]]

(* The part of scheduler_run_tasks before and after the task's own work.   *)
(* AfterRun reads the slot again: the work may have changed it.            *)

Due(tab, s, now) == tab.tasks[s].active /\ tab.tasks[s].next <= now

(* mutant: no test for zero *)
RepsLeftUnguarded(reps) == IF reps # RepsInfinite THEN reps - 1 ELSE reps

RepsLeft(reps) ==
  IF reps > 0 /\ reps # RepsInfinite THEN reps - 1 ELSE reps

(* mutant: one run more than there are repetitions *)
AfterRunOneMore(tab, s, now) ==
  LET task == tab.tasks[s]
      left == RepsLeft(task.reps)
  IN  IF task.reps > 0
        THEN SetSlot(tab, s, [task EXCEPT !.reps = left, !.next = now + task.period])
        ELSE IF task.type # "NONE" THEN ClearTask(tab, task.id) ELSE tab

(* mutant: no check that the task has not been cleared meanwhile *)
AfterRunUnchecked(tab, s, now) ==
  LET task == tab.tasks[s]
      left == RepsLeft(task.reps)
      counted == SetSlot(tab, s, [task EXCEPT !.reps = left])
  IN  IF left > 0
        THEN SetSlot(tab, s, [task EXCEPT !.reps = left, !.next = now + task.period])
        ELSE ClearTask(counted, task.id)

AfterRun(tab, s, now) ==
  LET task == tab.tasks[s]
      left == RepsLeft(task.reps)
      counted == SetSlot(tab, s, [task EXCEPT !.reps = left])
  IN  IF left > 0
        THEN SetSlot(tab, s, [task EXCEPT !.reps = left, !.next = now + task.period])
        ELSE IF task.type # "NONE" THEN ClearTask(counted, task.id) ELSE counted

-----------------------------------------------------------------------------
(* The two directions of the id map agree: an id that is mapped leads to   *)
(* an occupied slot that carries it, and an occupied slot is reached by    *)
(* its id.  Two occupied slots then never carry the same id.               *)
Consistent(tab) ==
  /\ \A id \in Ids :
       tab.idMap[id] # Null =>
         /\ Occupied(tab, tab.idMap[id])
         /\ tab.tasks[tab.idMap[id]].id = id
  /\ \A s \in Slots : Occupied(tab, s) => tab.idMap[tab.tasks[s].id] = s

(* Function tasks and commands stay in their segments, and only an         *)
(* occupied slot is active.                                                *)
Segmented(tab) ==
  /\ \A s \in FuncSlots : tab.tasks[s].type \in {"NONE", "FUNC"}
  /\ \A s \in CmdSlots : tab.tasks[s].type \in {"NONE", "CMD"}
  /\ \A s \in Slots : tab.tasks[s].active => Occupied(tab, s)
=============================================================================
