-------------------------- MODULE SchedulerProofs ---------------------------
(***************************************************************************)
(* Proofs about the scheduler, for any number of slots and ids and for any *)
(* set of jobs.  The operators on tables keep tables well typed and the id *)
(* map consistent (IInv).  On top of that the balance of a task, its       *)
(* repetitions left against the runs it has had, is kept by every call and *)
(* every part of a scan (RInv).  The properties of the scheduler follow.   *)
(***************************************************************************)
EXTENDS PersistentScheduler, WellFoundedInduction, TLAPS

(* The two segments partition the slots.                                   *)
LEMMA SlotFacts ==
  /\ Slots = FuncSlots \cup CmdSlots
  /\ FuncSlots \cap CmdSlots = {}
  /\ 0 \in Slots /\ Slots \subseteq Int /\ Null \notin Slots
  /\ 0 \in Ids
BY SchedConstants DEF Slots, FuncSlots, CmdSlots, Null, Ids

(* What the table operators rely on and preserve.                          *)
GoodTable(t) == t \in Table /\ Segmented(t) /\ Consistent(t)

LEMMA EmptyTask == Empty \in Task
BY SchedConstants, SlotFacts DEF Empty, Task

LEMMA EmptyGood == GoodTable(EmptyTable)
<1>1. EmptyTable \in Table
  BY EmptyTask DEF EmptyTable, Table
<1>2. Segmented(EmptyTable)
  BY SlotFacts DEF EmptyTable, Segmented, Occupied, Empty
<1>3. Consistent(EmptyTable)
  BY SlotFacts DEF EmptyTable, Consistent, Occupied, Empty
<1> QED BY <1>1, <1>2, <1>3 DEF GoodTable

(* A segment with a free slot has a first one.                             *)
LEMMA LeastNat ==
  ASSUME NEW S \in SUBSET Nat, S # {}
  PROVE  \E m \in S : \A n \in S : m <= n
<1> DEFINE R == OpToRel(<, Nat)
<1>1. IsWellFoundedOn(R, Nat)
  BY NatLessThanWellFounded
<1>2. PICK m \in S : \A n \in S : ~(<<n, m>> \in R)
  <2> HIDE DEF R
  <2> QED BY <1>1, WFMin
<1>3. \A n \in S : ~(n < m)
  BY <1>2 DEF OpToRel
<1> QED BY <1>3

LEMMA FirstFreeFacts ==
  ASSUME NEW t, NEW segment \in {FuncSlots, CmdSlots}, Free(t, segment) # {}
  PROVE  FirstFree(t, segment) \in segment /\ ~Occupied(t, FirstFree(t, segment))
<1>1. Free(t, segment) \in SUBSET Nat
  BY SchedConstants DEF Free, FuncSlots, CmdSlots
<1>2. \E s \in Free(t, segment) : \A r \in Free(t, segment) : s <= r
  BY <1>1, LeastNat
<1>3. FirstFree(t, segment) \in Free(t, segment)
  BY <1>2 DEF FirstFree
<1> QED BY <1>3 DEF Free

-----------------------------------------------------------------------------
(* The operations preserve GoodTable.                                      *)

(* Overwriting a task by one of the same kind and id changes no mapping.   *)
LEMMA SetSlotGood ==
  ASSUME NEW t, GoodTable(t), NEW s \in Slots, NEW task \in Task,
         task.type = t.tasks[s].type, task.id = t.tasks[s].id,
         task.active => Occupied(t, s)
  PROVE  GoodTable(SetSlot(t, s, task))
<1> DEFINE u == SetSlot(t, s, task)
<1>1. u \in Table /\ u.idMap = t.idMap /\ u.tasks = [t.tasks EXCEPT ![s] = task]
  BY DEF GoodTable, SetSlot, Table
<1>2. \A r \in Slots : u.tasks[r].type = t.tasks[r].type /\ u.tasks[r].id = t.tasks[r].id
  BY <1>1 DEF GoodTable, Table
<1>3. Segmented(u)
  <2>1. \A r \in Slots : u.tasks[r].active => Occupied(u, r)
    BY <1>1, <1>2 DEF GoodTable, Table, Segmented, Occupied
  <2> QED BY <1>2, <2>1, SlotFacts DEF GoodTable, Segmented
<1>4. Consistent(u)
  BY <1>1, <1>2 DEF GoodTable, Table, Consistent, Occupied
<1> QED BY <1>1, <1>3, <1>4 DEF GoodTable

(* A free slot may take a task whose id is not in use.                     *)
LEMMA PlaceGood ==
  ASSUME NEW t, GoodTable(t), NEW task \in Task, NEW s \in Slots,
         \/ s \in FuncSlots /\ task.type = "FUNC"
         \/ s \in CmdSlots /\ task.type = "CMD",
         ~Occupied(t, s), ~InUse(t, task.id)
  PROVE  GoodTable(Place(t, task, s))
<1> DEFINE u == Place(t, task, s)
<1>0. task.id \in Ids /\ task.type # "NONE"
  BY DEF Task
<1>1. t.idMap[task.id] = Null
  BY <1>0 DEF GoodTable, Consistent, InUse
<1>2. /\ u \in Table
      /\ u.idMap = [t.idMap EXCEPT ![task.id] = s]
      /\ u.tasks = [t.tasks EXCEPT ![s] = task]
  BY <1>0 DEF GoodTable, Place, Table
<1>3. Segmented(u)
  BY <1>0, <1>2, SlotFacts DEF GoodTable, Table, Segmented, Occupied
<1>4. Consistent(u)
  <2>1. ASSUME NEW id \in Ids, u.idMap[id] # Null
        PROVE  Occupied(u, u.idMap[id]) /\ u.tasks[u.idMap[id]].id = id
    <3>1. CASE id = task.id
      BY <3>1, <1>0, <1>2, SlotFacts DEF GoodTable, Table, Occupied
    <3>2. CASE id # task.id
      <4>1. u.idMap[id] = t.idMap[id] /\ t.idMap[id] \in Slots /\ t.idMap[id] # s
        BY <2>1, <3>2, <1>0, <1>2 DEF GoodTable, Table, Consistent
      <4> QED BY <2>1, <4>1, <1>2 DEF GoodTable, Table, Consistent, Occupied
    <3> QED BY <3>1, <3>2
  <2>2. ASSUME NEW r \in Slots, Occupied(u, r)
        PROVE  u.idMap[u.tasks[r].id] = r
    <3>1. CASE r = s
      BY <3>1, <1>0, <1>2 DEF GoodTable, Table
    <3>2. CASE r # s
      <4>1. u.tasks[r] = t.tasks[r] /\ Occupied(t, r)
        BY <2>2, <3>2, <1>2 DEF GoodTable, Table, Occupied
      <4>2. t.idMap[t.tasks[r].id] = r /\ t.tasks[r].id \in Ids
        BY <4>1 DEF GoodTable, Table, Task, Consistent
      <4>3. t.tasks[r].id # task.id
        BY <4>2, <1>1, SlotFacts
      <4> QED BY <4>1, <4>2, <4>3, <1>2 DEF GoodTable, Table
    <3> QED BY <3>1, <3>2
  <2> QED BY <2>1, <2>2 DEF Consistent
<1> QED BY <1>2, <1>3, <1>4 DEF GoodTable

LEMMA ScheduleGood ==
  ASSUME NEW t, GoodTable(t), NEW task \in Task, NEW segment,
         \/ segment = FuncSlots /\ task.type = "FUNC"
         \/ segment = CmdSlots /\ task.type = "CMD"
  PROVE  GoodTable(ScheduleTask(t, task, segment))
<1>1. CASE CanSchedule(t, task.id, segment)
  <2> DEFINE s == FirstFree(t, segment)
  <2>1. s \in segment /\ ~Occupied(t, s) /\ ~InUse(t, task.id)
    BY <1>1, FirstFreeFacts DEF CanSchedule
  <2>2. GoodTable(Place(t, task, s))
    <3> HIDE DEF s
    <3> QED BY <2>1, PlaceGood, SlotFacts
  <2> QED BY <1>1, <2>2 DEF ScheduleTask
<1>2. CASE ~CanSchedule(t, task.id, segment)
  BY <1>2 DEF ScheduleTask
<1> QED BY <1>1, <1>2

(* In a consistent table the slot an id points at is the task of that id.  *)
LEMMA FoundFacts ==
  ASSUME NEW t, GoodTable(t), NEW id \in Ids, Found(t, id)
  PROVE  /\ t.idMap[id] \in Slots /\ Occupied(t, t.idMap[id])
         /\ t.tasks[t.idMap[id]] \in Task /\ t.tasks[t.idMap[id]].id = id
BY DEF GoodTable, Table, Found, Consistent

LEMMA DescheduleGood ==
  ASSUME NEW t, GoodTable(t), NEW id \in Ids
  PROVE  GoodTable(Deschedule(t, id))
<1>1. CASE Found(t, id)
  <2> DEFINE s == t.idMap[id]
             task == [t.tasks[s] EXCEPT !.active = FALSE]
  <2>0. s \in Slots /\ Occupied(t, s) /\ t.tasks[s] \in Task
    BY <1>1, FoundFacts
  <2>1. task \in Task /\ task.type = t.tasks[s].type /\ task.id = t.tasks[s].id
    <3> HIDE DEF s
    <3> QED BY <2>0 DEF Task
  <2>2. GoodTable(SetSlot(t, s, task))
    <3> HIDE DEF s, task
    <3> QED BY <2>0, <2>1, SetSlotGood
  <2>3. Deschedule(t, id) = SetSlot(t, s, task)
    BY <1>1 DEF Deschedule
  <2> HIDE DEF s, task
  <2> QED BY <2>2, <2>3
<1>2. CASE ~Found(t, id)
  BY <1>2 DEF Deschedule
<1> QED BY <1>1, <1>2

LEMMA RescheduleGood ==
  ASSUME NEW t, GoodTable(t), NEW id \in Ids, NEW next \in Int
  PROVE  GoodTable(Reschedule(t, id, next))
<1>1. CASE Found(t, id)
  <2> DEFINE s == t.idMap[id]
             task == [t.tasks[s] EXCEPT !.active = TRUE, !.next = next]
  <2>0. s \in Slots /\ Occupied(t, s) /\ t.tasks[s] \in Task
    BY <1>1, FoundFacts
  <2>1. task \in Task /\ task.type = t.tasks[s].type /\ task.id = t.tasks[s].id
    <3> HIDE DEF s
    <3> QED BY <2>0 DEF Task
  <2>2. GoodTable(SetSlot(t, s, task))
    <3> HIDE DEF s, task
    <3> QED BY <2>0, <2>1, SetSlotGood
  <2>3. Reschedule(t, id, next) = SetSlot(t, s, task)
    BY <1>1 DEF Reschedule
  <2> HIDE DEF s, task
  <2> QED BY <2>2, <2>3
<1>2. CASE ~Found(t, id)
  BY <1>2 DEF Reschedule
<1> QED BY <1>1, <1>2

LEMMA UpdateGood ==
  ASSUME NEW t, GoodTable(t), NEW id \in Ids, NEW period \in Nat,
         NEW reps \in 0 .. RepsInfinite
  PROVE  GoodTable(UpdateTask(t, id, period, reps))
<1>1. CASE Found(t, id)
  <2> DEFINE s == t.idMap[id]
             task == [t.tasks[s] EXCEPT !.period = period, !.reps = reps]
  <2>0. s \in Slots /\ Occupied(t, s) /\ t.tasks[s] \in Task
    BY <1>1, FoundFacts
  <2>1. task \in Task /\ task.type = t.tasks[s].type /\ task.id = t.tasks[s].id
    <3> HIDE DEF s
    <3> QED BY <2>0 DEF Task
  <2>2. GoodTable(SetSlot(t, s, task))
    <3> HIDE DEF s, task
    <3> QED BY <2>0, <2>1, SetSlotGood
  <2>3. UpdateTask(t, id, period, reps) = SetSlot(t, s, task)
    BY <1>1 DEF UpdateTask
  <2> HIDE DEF s, task
  <2> QED BY <2>2, <2>3
<1>2. CASE ~Found(t, id)
  BY <1>2 DEF UpdateTask
<1> QED BY <1>1, <1>2

LEMMA ClearGood ==
  ASSUME NEW t, GoodTable(t), NEW id \in Ids
  PROVE  GoodTable(ClearTask(t, id))
<1>1. CASE Found(t, id)
  <2> DEFINE s == t.idMap[id]
             u == ClearTask(t, id)
  <2>1. s \in Slots /\ Occupied(t, s) /\ t.tasks[s].id = id
    BY <1>1, FoundFacts
  <2>2. /\ u \in Table
        /\ u.idMap = [t.idMap EXCEPT ![id] = Null]
        /\ u.tasks = [t.tasks EXCEPT ![s] = Empty]
    BY <1>1, <2>1, EmptyTask DEF GoodTable, ClearTask, Table
  <2>3. Segmented(u)
    BY <2>1, <2>2, SlotFacts DEF GoodTable, Table, Segmented, Occupied, Empty
  <2>4. Consistent(u)
    <3>1. ASSUME NEW j \in Ids, u.idMap[j] # Null
          PROVE  Occupied(u, u.idMap[j]) /\ u.tasks[u.idMap[j]].id = j
      <4>1. j # id /\ u.idMap[j] = t.idMap[j]
        BY <3>1, <2>2 DEF GoodTable, Table
      <4>2. t.idMap[j] \in Slots /\ Occupied(t, t.idMap[j]) /\ t.tasks[t.idMap[j]].id = j
        BY <3>1, <4>1 DEF GoodTable, Table, Consistent
      <4>3. t.idMap[j] # s
        BY <4>1, <4>2, <2>1
      <4> QED BY <4>1, <4>2, <4>3, <2>1, <2>2 DEF GoodTable, Table, Occupied
    <3>2. ASSUME NEW r \in Slots, Occupied(u, r)
          PROVE  u.idMap[u.tasks[r].id] = r
      <4>1. r # s /\ u.tasks[r] = t.tasks[r] /\ Occupied(t, r)
        BY <3>2, <2>1, <2>2 DEF GoodTable, Table, Occupied, Empty
      <4>2. t.idMap[t.tasks[r].id] = r /\ t.tasks[r].id \in Ids /\ t.tasks[r].id # id
        BY <4>1, <2>1 DEF GoodTable, Table, Task, Consistent
      <4> QED BY <4>1, <4>2, <2>2 DEF GoodTable, Table
    <3> QED BY <3>1, <3>2 DEF Consistent
  <2> QED BY <2>2, <2>3, <2>4 DEF GoodTable
<1>2. CASE ~Found(t, id)
  BY <1>2 DEF ClearTask
<1> QED BY <1>1, <1>2

LEMMA RefreshGood ==
  ASSUME NEW t, GoodTable(t), NEW oldtime \in Int, NEW now \in Int
  PROVE  GoodTable(RefreshAll(t, oldtime, now))
<1> DEFINE u == RefreshAll(t, oldtime, now)
<1> DEFINE moved(r) == IF t.tasks[r].active
                         THEN [t.tasks[r] EXCEPT !.next = now + (@ - oldtime)]
                         ELSE t.tasks[r]
<1>0. \A r \in Slots : /\ moved(r) \in Task
                        /\ moved(r).type = t.tasks[r].type
                        /\ moved(r).id = t.tasks[r].id
                        /\ moved(r).active = t.tasks[r].active
  <2> TAKE r \in Slots
  <2>1. t.tasks[r] \in Task
    BY DEF GoodTable, Table
  <2> QED BY <2>1 DEF Task
<1>1. u.idMap = t.idMap /\ u.tasks = [r \in Slots |-> moved(r)] /\ u \in Table
  <2>1. u = [tasks |-> [r \in Slots |-> moved(r)], idMap |-> t.idMap]
    BY DEF GoodTable, Table, RefreshAll
  <2> HIDE DEF u, moved
  <2> QED BY <1>0, <2>1 DEF GoodTable, Table
<1>2. \A r \in Slots : /\ u.tasks[r].type = t.tasks[r].type
                        /\ u.tasks[r].id = t.tasks[r].id
                        /\ u.tasks[r].active = t.tasks[r].active
  <2> HIDE DEF u, moved
  <2> QED BY <1>0, <1>1
<1>3. Segmented(u)
  BY <1>2, SlotFacts DEF GoodTable, Segmented, Occupied
<1>4. Consistent(u)
  BY <1>1, <1>2 DEF GoodTable, Table, Consistent, Occupied
<1> QED BY <1>1, <1>3, <1>4 DEF GoodTable

LEMMA RepsLeftFacts ==
  ASSUME NEW n \in 0 .. RepsInfinite
  PROVE  RepsLeft(n) \in 0 .. RepsInfinite
BY SchedConstants DEF RepsLeft

LEMMA AfterRunGood ==
  ASSUME NEW t, GoodTable(t), NEW s \in Slots, NEW now \in Int
  PROVE  GoodTable(AfterRun(t, s, now))
<1> DEFINE task == t.tasks[s]
           left == RepsLeft(task.reps)
           again == [task EXCEPT !.reps = left, !.next = now + task.period]
           over == [task EXCEPT !.reps = left]
           counted == SetSlot(t, s, over)
<1>1. task \in Task /\ left \in 0 .. RepsInfinite /\ task.id \in Ids
  <2>1. task \in Task  BY DEF GoodTable, Table
  <2> QED BY <2>1, RepsLeftFacts DEF Task
<1>2. /\ again \in Task /\ again.type = task.type /\ again.id = task.id
      /\ over \in Task /\ over.type = task.type /\ over.id = task.id
      /\ again.active = task.active /\ over.active = task.active
  <2>0. task.period \in Nat /\ now + task.period \in Int
    BY <1>1 DEF Task
  <2> DEFINE n == now + task.period
  <2> HIDE DEF task, left, n
  <2>1. [task EXCEPT !.reps = left, !.next = n] \in Task  BY <1>1, <2>0 DEF Task, n
  <2>2. over \in Task  BY <1>1 DEF Task
  <2>3. again.type = task.type /\ again.id = task.id /\ again.active = task.active
    BY <1>1 DEF Task
  <2>4. over.type = task.type /\ over.id = task.id /\ over.active = task.active
    BY <1>1 DEF Task
  <2> QED BY <2>1, <2>2, <2>3, <2>4 DEF n
<1>3. task.active => Occupied(t, s)
  BY DEF GoodTable, Segmented
<1>4. GoodTable(SetSlot(t, s, again)) /\ GoodTable(counted)
  <2>1. task.type = t.tasks[s].type /\ task.id = t.tasks[s].id
    OBVIOUS
  <2> HIDE DEF task, again, over
  <2> QED BY <1>2, <1>3, <2>1, SetSlotGood
<1>5. GoodTable(ClearTask(counted, task.id))
  <2> HIDE DEF counted, task
  <2> QED BY <1>1, <1>4, ClearGood
<1>6. AfterRun(t, s, now) \in {SetSlot(t, s, again), ClearTask(counted, task.id), counted}
  BY DEF AfterRun
<1> HIDE DEF task, again, counted
<1> QED BY <1>4, <1>5, <1>6

-----------------------------------------------------------------------------
(* The state invariant.                                                    *)

IInv == TypeOK /\ IdMapConsistent

LEMMA InitIInv == Init => IInv
<1> SUFFICES ASSUME Init PROVE IInv
  OBVIOUS
<1>1. GoodTable(tab)
  BY EmptyGood DEF Init
<1> QED BY <1>1, SlotFacts, SchedConstants, JobsAssumption
        DEF Init, IInv, TypeOK, IdMapConsistent, GoodTable

(* Every step leaves a good table.                                         *)
LEMMA StepGood == IInv /\ [Next]_vars => GoodTable(tab')
<1> SUFFICES ASSUME IInv, [Next]_vars PROVE GoodTable(tab')
  OBVIOUS
<1>0. GoodTable(tab) /\ clock \in Int /\ slot \in Slots /\ loopNow \in Int
  BY JobsAssumption DEF IInv, TypeOK, IdMapConsistent, GoodTable
<1>1. ASSUME NEW job \in FuncJobs, NEW start \in StartTimes \cup {clock + job.delay},
             ScheduleFunc(job, start)
      PROVE  GoodTable(tab')
  <2> DEFINE task == Create(job.id, "FUNC", start, job.period, job.reps)
  <2>1. task \in Task /\ task.type = "FUNC"
    BY <1>0, JobsAssumption DEF Job, Create, Task
  <2>2. tab' = ScheduleTask(tab, task, FuncSlots)
    BY <1>1 DEF ScheduleFunc, Schedule
  <2> HIDE DEF task
  <2> QED BY <1>0, <2>1, <2>2, ScheduleGood
<1>2. ASSUME NEW job \in CmdJobs, NEW start \in StartTimes \cup {clock + job.delay},
             ScheduleCmd(job, start)
      PROVE  GoodTable(tab')
  <2> DEFINE task == Create(job.id, "CMD", start, job.period, job.reps)
  <2>1. task \in Task /\ task.type = "CMD"
    BY <1>0, JobsAssumption DEF Job, Create, Task
  <2>2. tab' = ScheduleTask(tab, task, CmdSlots)
    BY <1>2 DEF ScheduleCmd, Schedule
  <2> HIDE DEF task
  <2> QED BY <1>0, <2>1, <2>2, ScheduleGood
<1>3. ASSUME NEW id \in Ids, DescheduleCall(id)
      PROVE  GoodTable(tab')
  BY <1>0, <1>3, DescheduleGood DEF DescheduleCall
<1>4. ASSUME NEW id \in Ids, NEW next \in StartTimes \cup {clock}, RescheduleCall(id, next)
      PROVE  GoodTable(tab')
  BY <1>0, <1>4, RescheduleGood, JobsAssumption DEF RescheduleCall
<1>5. ASSUME NEW id \in Ids, NEW period \in Periods, NEW reps \in RepCounts,
             UpdateCall(id, period, reps)
      PROVE  GoodTable(tab')
  BY <1>0, <1>5, UpdateGood, JobsAssumption DEF UpdateCall
<1>6. ASSUME NEW id \in Ids, ClearCall(id)
      PROVE  GoodTable(tab')
  BY <1>0, <1>6, ClearGood DEF ClearCall
<1>7. ASSUME NEW time \in 0 .. MaxTime, SetTime(time)
      PROVE  GoodTable(tab')
  BY <1>0, <1>7, RefreshGood DEF SetTime
<1>8. CASE Finish
  BY <1>0, <1>8, AfterRunGood DEF Finish
<1>9. CASE UNCHANGED tab
  BY <1>0, <1>9
<1> QED
  BY <1>1, <1>2, <1>3, <1>4, <1>5, <1>6, <1>7, <1>8, <1>9
  DEF Next, Call, Loop, StartScan, Skip, Begin, Tick, vars

(* The other variables stay in range.                                      *)
LEMMA GrantTyped ==
  ASSUME TypeOK, NEW s \in Slots, NEW reps \in 0 .. RepsInfinite, Grant(s, reps)
  PROVE  runs' \in [Slots -> Nat] /\ budget' \in [Slots -> 0 .. RepsInfinite]
BY DEF TypeOK, Grant

LEMMA SettleTyped ==
  ASSUME TypeOK, Settle
  PROVE  runs' \in [Slots -> Nat] /\ budget' \in [Slots -> 0 .. RepsInfinite]
BY SchedConstants DEF TypeOK, Settle

LEMMA ScheduleTyped ==
  ASSUME TypeOK, NEW job \in Job, NEW type, NEW segment \in {FuncSlots, CmdSlots},
         NEW start, Schedule(job, type, segment, start)
  PROVE  runs' \in [Slots -> Nat] /\ budget' \in [Slots -> 0 .. RepsInfinite]
<1>1. CASE CanSchedule(tab, job.id, segment)
  <2>1. FirstFree(tab, segment) \in Slots
    BY <1>1, FirstFreeFacts, SlotFacts DEF CanSchedule
  <2>2. Grant(FirstFree(tab, segment), job.reps) /\ job.reps \in 0 .. RepsInfinite
    BY <1>1 DEF Schedule, Job
  <2> QED BY <2>1, <2>2, GrantTyped
<1>2. CASE ~CanSchedule(tab, job.id, segment)
  BY <1>2 DEF Schedule, TypeOK
<1> QED BY <1>1, <1>2

LEMMA NextSlotTyped ==
  ASSUME slot \in Slots, NextSlot
  PROVE  slot' \in Slots /\ pc' \in {"scan", "idle"}
BY SlotFacts DEF NextSlot

LEMMA StepTyped == IInv /\ [Next]_vars => TypeOK'
<1> SUFFICES ASSUME IInv, [Next]_vars PROVE TypeOK'
  OBVIOUS
<1>0. TypeOK /\ tab' \in Table /\ Segmented(tab)'
  BY StepGood DEF IInv, GoodTable, Segmented, Occupied
<1> DEFINE Rest == /\ clock' \in 0 .. MaxTime /\ sets' \in 0 .. MaxSets
                   /\ pc' \in {"idle", "scan", "body", "func", "after"}
                   /\ slot' \in Slots /\ loopNow' \in 0 .. MaxTime
                   /\ runs' \in [Slots -> Nat]
                   /\ budget' \in [Slots -> 0 .. RepsInfinite]
<1> SUFFICES Rest
  BY <1>0 DEF TypeOK, Segmented, Occupied
<1>1. ASSUME NEW job \in FuncJobs, NEW start \in StartTimes \cup {clock + job.delay},
             ScheduleFunc(job, start)
      PROVE  Rest
  BY <1>0, <1>1, ScheduleTyped, JobsAssumption DEF ScheduleFunc, CalledFunc, TypeOK
<1>2. ASSUME NEW job \in CmdJobs, NEW start \in StartTimes \cup {clock + job.delay},
             ScheduleCmd(job, start)
      PROVE  Rest
  BY <1>0, <1>2, ScheduleTyped, JobsAssumption DEF ScheduleCmd, Called, TypeOK
<1>3. ASSUME NEW id \in Ids, DescheduleCall(id)
      PROVE  Rest
  BY <1>0, <1>3 DEF DescheduleCall, Called, TypeOK
<1>4. ASSUME NEW id \in Ids, NEW next \in StartTimes \cup {clock}, RescheduleCall(id, next)
      PROVE  Rest
  BY <1>0, <1>4 DEF RescheduleCall, Called, TypeOK
<1>5. ASSUME NEW id \in Ids, NEW period \in Periods, NEW reps \in RepCounts,
             UpdateCall(id, period, reps)
      PROVE  Rest
  <2>1. CASE Found(tab, id)
    <3>1. tab.idMap[id] \in Slots
      BY <2>1, <1>0 DEF Found, TypeOK, Table
    <3> QED BY <1>0, <1>5, <2>1, <3>1, GrantTyped, JobsAssumption
            DEF UpdateCall, Called, TypeOK
  <2>2. CASE ~Found(tab, id)
    BY <1>0, <1>5, <2>2 DEF UpdateCall, Called, TypeOK
  <2> QED BY <2>1, <2>2
<1>6. ASSUME NEW id \in Ids, ClearCall(id)
      PROVE  Rest
  BY <1>0, <1>6, SettleTyped DEF ClearCall, Called, TypeOK
<1>7. ASSUME NEW time \in 0 .. MaxTime, SetTime(time)
      PROVE  Rest
  BY <1>0, <1>7, JobsAssumption DEF SetTime, Called, TypeOK
<1>8. CASE StartScan
  BY <1>0, <1>8, SlotFacts DEF StartScan, TypeOK
<1>9. CASE Skip
  BY <1>0, <1>9, NextSlotTyped DEF Skip, TypeOK
<1>10. CASE Begin
  BY <1>0, <1>10 DEF Begin, TypeOK
<1>11. CASE Finish
  BY <1>0, <1>11, NextSlotTyped, SettleTyped, JobsAssumption DEF Finish, TypeOK
<1>12. CASE Tick
  BY <1>0, <1>12, JobsAssumption DEF Tick, TypeOK
<1>13. CASE UNCHANGED vars
  BY <1>0, <1>13 DEF vars, TypeOK
<1> HIDE DEF Rest
<1> QED BY <1>1, <1>2, <1>3, <1>4, <1>5, <1>6, <1>7, <1>8, <1>9, <1>10, <1>11, <1>12, <1>13
        DEF Next, Call, Loop, vars

LEMMA StepIInv == IInv /\ [Next]_vars => IInv'
<1> SUFFICES ASSUME IInv, [Next]_vars PROVE IInv'
  OBVIOUS
<1>1. Consistent(tab)'
  BY StepGood DEF GoodTable, Consistent, Occupied
<1> QED BY <1>1, StepTyped DEF IInv, IdMapConsistent

(* The variables keep their types: the table never holds a task outside    *)
(* its segment or an id out of range, and the scan never leaves the table. *)
THEOREM TypeCorrect == Spec => []TypeOK
<1>1. IInv => TypeOK
  BY DEF IInv
<1> QED BY InitIInv, StepIInv, <1>1, PTL DEF Spec

(* The id map and the slots agree in every reachable state, for any number *)
(* of slots and ids: ids of occupied slots are distinct, and a task that   *)
(* completes or is cleared by its id frees its own slot.                   *)
THEOREM IdMapAlwaysConsistent == Spec => []IdMapConsistent
<1>1. IInv => IdMapConsistent
  BY DEF IInv
<1> QED BY InitIInv, StepIInv, <1>1, PTL DEF Spec

-----------------------------------------------------------------------------
(* Repetitions.                                                            *)

(* reps are left of b after n runs, with a run in progress if c is 1: an   *)
(* occupied slot has a repetition left, unless it was given none.          *)
Balanced(reps, n, b, c) ==
  /\ b \in {0, RepsInfinite} => reps = b
  /\ b \notin {0, RepsInfinite} => reps >= 1 /\ reps + n = b + c
  /\ b = 0 => n = c
  /\ b # RepsInfinite => n >= c

InProgress(s) == IF Executing(s) THEN 1 ELSE 0

AllBalanced ==
  \A s \in Slots : Occupied(tab, s) =>
    Balanced(tab.tasks[s].reps, runs[s], budget[s], InProgress(s))

RInv == IInv /\ AllBalanced

(* New repetitions start balanced, also when a run is in progress.         *)
LEMMA BalancedAtFirst ==
  ASSUME NEW b \in 0 .. RepsInfinite, NEW c \in {0, 1}
  PROVE  Balanced(b, c, b, c)
BY SchedConstants DEF Balanced

LEMMA BalancedInRun ==
  ASSUME NEW reps \in 0 .. RepsInfinite, NEW n \in Nat, NEW b \in 0 .. RepsInfinite,
         Balanced(reps, n, b, 0)
  PROVE  Balanced(reps, IF b = RepsInfinite THEN n ELSE n + 1, b, 1)
BY SchedConstants DEF Balanced

(* A run charges one repetition; none is left only after the last of them. *)
LEMMA BalancedAfterRun ==
  ASSUME NEW reps \in 0 .. RepsInfinite, NEW n \in Nat, NEW b \in 0 .. RepsInfinite,
         Balanced(reps, n, b, 1)
  PROVE  IF RepsLeft(reps) > 0
           THEN Balanced(RepsLeft(reps), n, b, 0)
           ELSE b # RepsInfinite /\ n >= b
BY SchedConstants DEF Balanced, RepsLeft

-----------------------------------------------------------------------------
(* A step that changes neither the repetitions nor the bookkeeping of the  *)
(* tasks that stay, and neither begins nor ends a run, keeps the balance.  *)
LEMMA KeepsBalance ==
  ASSUME AllBalanced,
         \A s \in Slots : Occupied(tab', s) =>
           /\ Occupied(tab, s) /\ tab'.tasks[s].reps = tab.tasks[s].reps
           /\ runs'[s] = runs[s] /\ budget'[s] = budget[s],
         \A s \in Slots : InProgress(s)' = InProgress(s)
  PROVE  AllBalanced'
<1> SUFFICES ASSUME NEW s \in Slots, Occupied(tab', s)
             PROVE  Balanced(tab'.tasks[s].reps, runs'[s], budget'[s], InProgress(s)')
  BY DEF AllBalanced, Balanced, Occupied
<1> QED BY DEF AllBalanced

(* Neither does a call, of the superloop or of a task's work.              *)
LEMMA CallsInPlace ==
  ASSUME Called \/ CalledFunc
  PROVE  \A s \in Slots : InProgress(s)' = InProgress(s)
BY DEF Called, CalledFunc, Idle, InProgress, Executing, InRun

LEMMA InProgressTyped == \A s \in Slots : InProgress(s) \in {0, 1}
BY DEF InProgress

(* A call that gives a slot its repetitions.                               *)
LEMMA GrantKeeps ==
  ASSUME TypeOK, AllBalanced, NEW g \in Slots, NEW reps \in 0 .. RepsInfinite,
         Grant(g, reps), tab'.tasks[g].reps = reps,
         \A s \in Slots \ {g} : tab'.tasks[s] = tab.tasks[s],
         \A s \in Slots : InProgress(s)' = InProgress(s)
  PROVE  AllBalanced'
<1> SUFFICES ASSUME NEW s \in Slots, Occupied(tab', s)
             PROVE  Balanced(tab'.tasks[s].reps, runs'[s], budget'[s], InProgress(s)')
  BY DEF AllBalanced, Balanced, Occupied
<1>1. CASE s = g
  <2>1. runs'[s] = InProgress(s) /\ budget'[s] = reps
    BY <1>1 DEF TypeOK, Grant, InProgress
  <2> QED BY <1>1, <2>1, BalancedAtFirst, InProgressTyped
<1>2. CASE s # g
  <2>1. runs'[s] = runs[s] /\ budget'[s] = budget[s]
    BY <1>2 DEF TypeOK, Grant
  <2> QED BY <1>2, <2>1 DEF AllBalanced, Occupied
<1> QED BY <1>1, <1>2

LEMMA ScheduleKeeps ==
  ASSUME RInv, NEW job \in Job, NEW type \in {"FUNC", "CMD"},
         NEW segment \in {FuncSlots, CmdSlots}, NEW start, Schedule(job, type, segment, start),
         \A s \in Slots : InProgress(s)' = InProgress(s)
  PROVE  AllBalanced'
<1>1. CASE CanSchedule(tab, job.id, segment)
  <2> DEFINE g == FirstFree(tab, segment)
             task == Create(job.id, type, start, job.period, job.reps)
  <2>1. g \in Slots
    BY <1>1, FirstFreeFacts, SlotFacts DEF CanSchedule
  <2>2. tab'.tasks = [tab.tasks EXCEPT ![g] = task] /\ task.reps = job.reps
    BY <1>1 DEF Schedule, ScheduleTask, Place, Create
  <2>3. Grant(g, job.reps) /\ job.reps \in 0 .. RepsInfinite
    BY <1>1 DEF Schedule, Job
  <2> HIDE DEF g, task
  <2>4. tab.tasks \in [Slots -> Task]
    BY DEF RInv, IInv, TypeOK, Table
  <2> QED BY <2>1, <2>2, <2>3, <2>4, GrantKeeps DEF RInv, IInv
<1>2. CASE ~CanSchedule(tab, job.id, segment)
  <2>1. UNCHANGED <<tab, runs, budget>>
    BY <1>2 DEF Schedule, ScheduleTask, Create
  <2> QED BY <2>1, KeepsBalance DEF RInv
<1> QED BY <1>1, <1>2

(* What deschedule and reschedule leave of a task.                         *)
LEMMA ActivationFacts ==
  ASSUME NEW t, GoodTable(t), NEW id \in Ids, NEW next \in Int, NEW s \in Slots,
         NEW u \in {Deschedule(t, id), Reschedule(t, id, next)}
  PROVE  u.tasks[s].reps = t.tasks[s].reps /\ u.tasks[s].type = t.tasks[s].type
<1>1. t.tasks \in [Slots -> Task]
  BY DEF GoodTable, Table
<1>2. CASE Found(t, id)
  <2> DEFINE m == t.idMap[id]
             off == [t.tasks[m] EXCEPT !.active = FALSE]
             on == [t.tasks[m] EXCEPT !.active = TRUE, !.next = next]
  <2>1. m \in Slots /\ t.tasks[m] \in Task
    BY <1>2, FoundFacts
  <2>2. /\ off.reps = t.tasks[m].reps /\ off.type = t.tasks[m].type
        /\ on.reps = t.tasks[m].reps /\ on.type = t.tasks[m].type
    BY <2>1 DEF Task
  <2>3. u.tasks \in {[t.tasks EXCEPT ![m] = off], [t.tasks EXCEPT ![m] = on]}
    BY <1>2 DEF Deschedule, Reschedule, SetSlot, GoodTable, Table
  <2> HIDE DEF m, off, on
  <2> QED BY <1>1, <2>1, <2>2, <2>3
<1>3. CASE ~Found(t, id)
  BY <1>3 DEF Deschedule, Reschedule
<1> QED BY <1>2, <1>3

LEMMA UpdateFacts ==
  ASSUME NEW t, GoodTable(t), NEW id \in Ids, Found(t, id), NEW period, NEW reps
  PROVE  LET u == UpdateTask(t, id, period, reps)
         IN  /\ u.tasks[t.idMap[id]].reps = reps
             /\ \A s \in Slots \ {t.idMap[id]} : u.tasks[s] = t.tasks[s]
<1> DEFINE m == t.idMap[id]
           task == [t.tasks[m] EXCEPT !.period = period, !.reps = reps]
<1>1. m \in Slots /\ t.tasks[m] \in Task /\ t.tasks \in [Slots -> Task]
  BY FoundFacts DEF GoodTable, Table
<1>2. UpdateTask(t, id, period, reps).tasks = [t.tasks EXCEPT ![m] = task]
  BY DEF UpdateTask, SetSlot, GoodTable, Table
<1>3. task.reps = reps
  BY <1>1 DEF Task
<1> HIDE DEF m, task
<1> QED BY <1>1, <1>2, <1>3 DEF m

LEMMA ClearFacts ==
  ASSUME NEW t, GoodTable(t), NEW id \in Ids, NEW s \in Slots
  PROVE  IF Found(t, id) /\ s = t.idMap[id]
           THEN ~Occupied(ClearTask(t, id), s)
           ELSE ClearTask(t, id).tasks[s] = t.tasks[s]
<1>1. CASE Found(t, id)
  <2>1. t.idMap[id] \in Slots /\ t.tasks \in [Slots -> Task]
    BY <1>1, FoundFacts DEF GoodTable, Table
  <2> QED BY <1>1, <2>1 DEF ClearTask, Occupied, Empty
<1>2. CASE ~Found(t, id)
  BY <1>2 DEF ClearTask
<1> QED BY <1>1, <1>2

(* A refresh moves the releases of active tasks, and nothing else.         *)
LEMMA RefreshFacts ==
  ASSUME NEW t, GoodTable(t), NEW oldtime \in Int, NEW now \in Int, NEW s \in Slots
  PROVE  LET u == RefreshAll(t, oldtime, now)
         IN  /\ u.tasks[s].reps = t.tasks[s].reps /\ u.tasks[s].type = t.tasks[s].type
             /\ t.tasks[s].active => u.tasks[s].next = now + (t.tasks[s].next - oldtime)
<1> DEFINE n == now + (t.tasks[s].next - oldtime)
           u == RefreshAll(t, oldtime, now)
<1>1. t.tasks[s] \in Task
  BY DEF GoodTable, Table
<1>2. u.tasks[s] = IF t.tasks[s].active THEN [t.tasks[s] EXCEPT !.next = n] ELSE t.tasks[s]
  BY DEF RefreshAll, GoodTable, Table
<1> HIDE DEF n, u
<1> QED BY <1>1, <1>2 DEF Task, n, u

(* After its run a task goes on with what is left, or is cleared; no other *)
(* slot is touched.                                                        *)
LEMMA AfterRunFacts ==
  ASSUME NEW t, GoodTable(t), NEW s \in Slots, NEW now \in Int, NEW r \in Slots
  PROVE  LET u == AfterRun(t, s, now)
             left == RepsLeft(t.tasks[s].reps)
         IN  /\ r # s => u.tasks[r] = t.tasks[r]
             /\ left > 0 => u.tasks[s].reps = left /\ u.tasks[s].type = t.tasks[s].type
             /\ ~(left > 0) => ~Occupied(u, s)
<1> DEFINE task == t.tasks[s]
           left == RepsLeft(task.reps)
           again == [task EXCEPT !.reps = left, !.next = now + task.period]
           over == [task EXCEPT !.reps = left]
           counted == SetSlot(t, s, over)
           u == AfterRun(t, s, now)
<1>1. task \in Task /\ t.tasks \in [Slots -> Task] /\ task.id \in Ids
  <2>1. task \in Task /\ t.tasks \in [Slots -> Task]  BY DEF GoodTable, Table
  <2> QED BY <2>1 DEF Task
<1>2. CASE left > 0
  <2>1. u.tasks = [t.tasks EXCEPT ![s] = again]
    BY <1>2 DEF AfterRun, SetSlot, GoodTable, Table
  <2>2. again.reps = left /\ again.type = task.type
    <3> DEFINE n == now + task.period
    <3> HIDE DEF task, left, n
    <3>1. [task EXCEPT !.reps = left, !.next = n].reps = left
      BY <1>1 DEF Task
    <3>2. [task EXCEPT !.reps = left, !.next = n].type = task.type
      BY <1>1 DEF Task
    <3> QED BY <3>1, <3>2 DEF n
  <2> HIDE DEF u, again
  <2> QED BY <1>1, <1>2, <2>1, <2>2 DEF u
<1>3. CASE ~(left > 0)
  <2>1. over \in Task /\ over.type = task.type /\ over.id = task.id /\ over.active = task.active
    <3>1. left \in 0 .. RepsInfinite
      BY <1>1, RepsLeftFacts DEF Task
    <3> HIDE DEF task, left
    <3> QED BY <1>1, <3>1 DEF Task
  <2>2. GoodTable(counted)
    <3>1. over.active => Occupied(t, s)
      BY <2>1 DEF GoodTable, Segmented
    <3> HIDE DEF over
    <3> QED BY <2>1, <3>1, SetSlotGood
  <2>3. counted.tasks = [t.tasks EXCEPT ![s] = over] /\ counted.idMap = t.idMap
    BY DEF SetSlot, GoodTable, Table
  <2>4. CASE task.type # "NONE"
    <3>1. u = ClearTask(counted, task.id)
      BY <1>3, <2>4 DEF AfterRun
    <3>2. Found(counted, task.id) /\ counted.idMap[task.id] = s
      <4>1. t.idMap[task.id] = s
        BY <2>4 DEF GoodTable, Consistent, Occupied
      <4> HIDE DEF task, counted, over
      <4> QED BY <4>1, <1>1, <2>1, <2>3, SlotFacts DEF Found
    <3>3. ~Occupied(u, s) /\ (r # s => u.tasks[r] = counted.tasks[r])
      <4> HIDE DEF counted, task, u
      <4> QED BY <3>1, <3>2, <2>2, <1>1, ClearFacts
    <3> HIDE DEF u, counted, over
    <3> QED BY <1>3, <3>3, <2>3, <1>1 DEF u
  <2>5. CASE task.type = "NONE"
    <3>1. u = counted
      BY <1>3, <2>5 DEF AfterRun
    <3> HIDE DEF u, counted, over
    <3> QED BY <1>1, <1>3, <2>1, <2>3, <2>5, <3>1 DEF u, Occupied
  <2> QED BY <2>4, <2>5
<1> QED BY <1>2, <1>3

-----------------------------------------------------------------------------
LEMMA InitBalanced == Init => AllBalanced
BY DEF Init, AllBalanced, EmptyTable, Empty, Occupied

(* The scan stands in no task before a run begins, nor after it ends.      *)
LEMMA BeginKeeps ==
  ASSUME RInv, Begin
  PROVE  AllBalanced'
<1> SUFFICES ASSUME NEW s \in Slots, Occupied(tab', s)
             PROVE  Balanced(tab'.tasks[s].reps, runs'[s], budget'[s], InProgress(s)')
  BY DEF AllBalanced, Balanced, Occupied
<1>1. /\ tab' = tab /\ budget' = budget /\ Occupied(tab, s)
      /\ runs[s] \in Nat /\ budget[s] \in 0 .. RepsInfinite
      /\ tab.tasks[s].reps \in 0 .. RepsInfinite
  BY DEF Begin, RInv, IInv, TypeOK, Table, Task
<1>2. Balanced(tab.tasks[s].reps, runs[s], budget[s], 0)
  BY <1>1 DEF RInv, AllBalanced, Begin, InProgress, Executing, InRun
<1>3. CASE s = slot
  <2>1. InProgress(s)' = 1
    BY <1>3 DEF Begin, InProgress, Executing, InRun
  <2>2. runs'[s] = IF budget[s] = RepsInfinite THEN runs[s] ELSE runs[s] + 1
    BY <1>3 DEF Begin, RInv, IInv, TypeOK
  <2> QED BY <1>1, <1>2, <2>1, <2>2, BalancedInRun
<1>4. CASE s # slot
  <2>1. InProgress(s)' = 0 /\ runs'[s] = runs[s]
    BY <1>4 DEF Begin, InProgress, Executing, InRun, RInv, IInv, TypeOK
  <2> QED BY <1>1, <1>2, <2>1
<1> QED BY <1>3, <1>4

LEMMA FinishKeeps ==
  ASSUME RInv, Finish
  PROVE  AllBalanced'
<1> SUFFICES ASSUME NEW s \in Slots, Occupied(tab', s)
             PROVE  Balanced(tab'.tasks[s].reps, runs'[s], budget'[s], InProgress(s)')
  BY DEF AllBalanced, Balanced, Occupied
<1>1. GoodTable(tab) /\ slot \in Slots /\ loopNow \in Int /\ tab' = AfterRun(tab, slot, loopNow)
  BY JobsAssumption DEF Finish, RInv, IInv, TypeOK, IdMapConsistent, GoodTable
<1>2. runs'[s] = runs[s] /\ budget'[s] = budget[s] /\ InProgress(s)' = 0
  BY DEF Finish, Settle, NextSlot, InProgress, Executing, InRun
<1>3. /\ runs[s] \in Nat /\ budget[s] \in 0 .. RepsInfinite
      /\ tab.tasks[s].reps \in 0 .. RepsInfinite
  BY DEF RInv, IInv, TypeOK, Table, Task
<1>4. CASE s = slot
  <2>1. RepsLeft(tab.tasks[s].reps) > 0
    BY <1>1, <1>4, AfterRunFacts
  <2>2. /\ tab'.tasks[s].reps = RepsLeft(tab.tasks[s].reps)
        /\ tab'.tasks[s].type = tab.tasks[s].type
    BY <1>1, <1>4, <2>1, AfterRunFacts
  <2>3. Balanced(tab.tasks[s].reps, runs[s], budget[s], 1)
    BY <1>4, <2>2 DEF RInv, AllBalanced, Finish, InProgress, Executing, Occupied
  <2> QED BY <1>2, <1>3, <2>1, <2>2, <2>3, BalancedAfterRun
<1>5. CASE s # slot
  <2>1. tab'.tasks[s] = tab.tasks[s]
    BY <1>1, <1>5, AfterRunFacts
  <2>2. Balanced(tab.tasks[s].reps, runs[s], budget[s], 0)
    BY <1>5, <2>1 DEF RInv, AllBalanced, InProgress, Executing, Occupied
  <2> QED BY <1>2, <2>1, <2>2
<1> QED BY <1>4, <1>5

LEMMA StepBalanced == RInv /\ [Next]_vars => AllBalanced'
<1> SUFFICES ASSUME RInv, [Next]_vars PROVE AllBalanced'
  OBVIOUS
<1>0. /\ GoodTable(tab) /\ TypeOK /\ AllBalanced
      /\ tab.tasks \in [Slots -> Task] /\ clock \in Int
  BY JobsAssumption DEF RInv, IInv, TypeOK, IdMapConsistent, GoodTable, Table
<1>1. ASSUME NEW job \in FuncJobs, NEW start, ScheduleFunc(job, start)
      PROVE  AllBalanced'
  BY <1>1, ScheduleKeeps, CallsInPlace, JobsAssumption DEF ScheduleFunc
<1>2. ASSUME NEW job \in CmdJobs, NEW start, ScheduleCmd(job, start)
      PROVE  AllBalanced'
  BY <1>2, ScheduleKeeps, CallsInPlace, JobsAssumption DEF ScheduleCmd
<1>3. ASSUME NEW id \in Ids, DescheduleCall(id)
      PROVE  AllBalanced'
  <2>1. \A s \in Slots : /\ tab'.tasks[s].reps = tab.tasks[s].reps
                         /\ tab'.tasks[s].type = tab.tasks[s].type
    BY <1>0, <1>3, ActivationFacts DEF DescheduleCall
  <2> QED BY <1>0, <1>3, <2>1, CallsInPlace, KeepsBalance DEF DescheduleCall, Occupied
<1>4. ASSUME NEW id \in Ids, NEW next \in StartTimes \cup {clock}, RescheduleCall(id, next)
      PROVE  AllBalanced'
  <2>1. \A s \in Slots : /\ tab'.tasks[s].reps = tab.tasks[s].reps
                         /\ tab'.tasks[s].type = tab.tasks[s].type
    BY <1>0, <1>4, ActivationFacts, JobsAssumption DEF RescheduleCall
  <2> QED BY <1>0, <1>4, <2>1, CallsInPlace, KeepsBalance DEF RescheduleCall, Occupied
<1>5. ASSUME NEW id \in Ids, NEW period \in Periods, NEW reps \in RepCounts,
             UpdateCall(id, period, reps)
      PROVE  AllBalanced'
  <2>0. tab' = UpdateTask(tab, id, period, reps)
    BY <1>5 DEF UpdateCall
  <2>1. CASE Found(tab, id)
    <3>1. /\ tab.idMap[id] \in Slots /\ Grant(tab.idMap[id], reps)
          /\ reps \in 0 .. RepsInfinite
      BY <1>0, <1>5, <2>1, FoundFacts, JobsAssumption DEF UpdateCall
    <3> QED BY <1>0, <1>5, <2>0, <2>1, <3>1, UpdateFacts, GrantKeeps, CallsInPlace
            DEF UpdateCall
  <2>2. CASE ~Found(tab, id)
    BY <1>0, <1>5, <2>0, <2>2, KeepsBalance, CallsInPlace DEF UpdateCall, UpdateTask
  <2> QED BY <2>1, <2>2
<1>6. ASSUME NEW id \in Ids, ClearCall(id)
      PROVE  AllBalanced'
  <2>1. \A s \in Slots : Occupied(tab', s) => tab'.tasks[s] = tab.tasks[s]
    BY <1>0, <1>6, ClearFacts DEF ClearCall
  <2> QED BY <1>0, <1>6, <2>1, KeepsBalance, CallsInPlace DEF ClearCall, Settle, Occupied
<1>7. ASSUME NEW time \in 0 .. MaxTime, SetTime(time)
      PROVE  AllBalanced'
  <2>1. \A s \in Slots : /\ tab'.tasks[s].reps = tab.tasks[s].reps
                         /\ tab'.tasks[s].type = tab.tasks[s].type
    BY <1>0, <1>7, RefreshFacts DEF SetTime
  <2> QED BY <1>0, <1>7, <2>1, KeepsBalance, CallsInPlace DEF SetTime, Occupied
<1>8. CASE StartScan \/ Skip \/ Tick \/ UNCHANGED vars
  <2>1. \A s \in Slots : InProgress(s)' = InProgress(s)
    BY <1>8 DEF StartScan, Skip, Tick, vars, NextSlot, Idle, InProgress, Executing, InRun
  <2>2. UNCHANGED <<tab, runs, budget>>
    BY <1>8 DEF StartScan, Skip, Tick, vars
  <2> QED BY <1>0, <2>1, <2>2, KeepsBalance
<1>9. CASE Begin
  BY <1>9, BeginKeeps
<1>10. CASE Finish
  BY <1>10, FinishKeeps
<1> QED BY <1>1, <1>2, <1>3, <1>4, <1>5, <1>6, <1>7, <1>8, <1>9, <1>10 DEF Next, Call, Loop

LEMMA RInvAlways == Spec => []RInv
<1>1. Init => RInv
  BY InitIInv, InitBalanced DEF RInv
<1>2. RInv /\ [Next]_vars => RInv'
  BY StepIInv, StepBalanced DEF RInv
<1> QED BY <1>1, <1>2, PTL DEF Spec

-----------------------------------------------------------------------------
(* No sequence of calls, from outside or from within the runs of tasks,    *)
(* makes a task lose or gain a repetition.                                 *)
THEOREM RepsAlwaysAccounted == Spec => []RepsAccounted
<1>1. RInv => RepsAccounted
  <2> SUFFICES ASSUME RInv, NEW s \in Slots, Occupied(tab, s)
               PROVE  IF budget[s] \in {0, RepsInfinite}
                        THEN tab.tasks[s].reps = budget[s]
                        ELSE tab.tasks[s].reps + runs[s]
                               = budget[s] + (IF Executing(s) THEN 1 ELSE 0)
    BY DEF RepsAccounted
  <2> QED BY DEF RInv, AllBalanced, Balanced, InProgress
<1> QED BY <1>1, RInvAlways, PTL

(* A task never runs more often than it was given repetitions.             *)
THEOREM NeverOverruns == Spec => []NoOverrun
<1>1. RInv => NoOverrun
  <2> SUFFICES ASSUME RInv, NEW s \in Slots, Occupied(tab, s), budget[s] # RepsInfinite
               PROVE  runs[s] <= IF budget[s] = 0 THEN 1 ELSE budget[s]
    BY DEF NoOverrun
  <2>1. /\ runs[s] \in Nat /\ budget[s] \in 0 .. RepsInfinite
        /\ tab.tasks[s].reps \in 0 .. RepsInfinite /\ InProgress(s) \in {0, 1}
    BY InProgressTyped DEF RInv, IInv, TypeOK, Table, Task
  <2>2. Balanced(tab.tasks[s].reps, runs[s], budget[s], InProgress(s))
    BY DEF RInv, AllBalanced
  <2> QED BY <2>1, <2>2, SchedConstants DEF Balanced
<1> QED BY <1>1, RInvAlways, PTL

(* The end of a run frees no slot but its own, and that one only after the *)
(* last repetition.                                                        *)
THEOREM OnlyFreedWhenDone == Spec => FreedWhenDone
<1>1. RInv /\ [Next]_vars =>
        [Finish => \A s \in Slots :
           Occupied(tab, s) /\ ~Occupied(tab', s) =>
             budget[s] # RepsInfinite /\ runs[s] >= budget[s]]_vars
  <2> SUFFICES ASSUME RInv, Finish, NEW s \in Slots, Occupied(tab, s), ~Occupied(tab', s)
               PROVE  budget[s] # RepsInfinite /\ runs[s] >= budget[s]
    OBVIOUS
  <2>1. /\ GoodTable(tab) /\ slot \in Slots /\ loopNow \in Int
        /\ tab' = AfterRun(tab, slot, loopNow)
    BY JobsAssumption DEF Finish, RInv, IInv, TypeOK, IdMapConsistent, GoodTable
  <2>2. s = slot /\ ~(RepsLeft(tab.tasks[s].reps) > 0)
    BY <2>1, AfterRunFacts DEF Occupied
  <2>3. Balanced(tab.tasks[s].reps, runs[s], budget[s], 1)
    BY <2>2 DEF RInv, AllBalanced, Finish, InProgress, Executing
  <2>4. /\ runs[s] \in Nat /\ budget[s] \in 0 .. RepsInfinite
        /\ tab.tasks[s].reps \in 0 .. RepsInfinite
    BY DEF RInv, IInv, TypeOK, Table, Task
  <2> QED BY <2>2, <2>3, <2>4, BalancedAfterRun
<1> QED BY <1>1, RInvAlways, PTL DEF Spec, FreedWhenDone

(* A change of the system time leaves the delay of every active task.      *)
THEOREM DelaysKept == Spec => SetTimeKeepsDelays
<1>1. RInv /\ [Next]_vars =>
        [sets' # sets => \A s \in Slots :
           tab.tasks[s].active =>
             tab'.tasks[s].next - clock' = tab.tasks[s].next - clock]_vars
  <2> SUFFICES ASSUME RInv, Next, sets' # sets, NEW s \in Slots, tab.tasks[s].active
               PROVE  tab'.tasks[s].next - clock' = tab.tasks[s].next - clock
    OBVIOUS
  <2>1. PICK time \in 0 .. MaxTime : SetTime(time)
    BY DEF Next, Call, Loop, ScheduleFunc, ScheduleCmd, DescheduleCall, RescheduleCall,
           UpdateCall, ClearCall, StartScan, Skip, Begin, Finish, Tick
  <2>2. GoodTable(tab) /\ clock \in Int /\ time \in Int
    BY JobsAssumption DEF RInv, IInv, TypeOK, IdMapConsistent, GoodTable
  <2>3. tab'.tasks[s].next = time + (tab.tasks[s].next - clock)
    BY <2>1, <2>2, RefreshFacts DEF SetTime
  <2>4. tab.tasks[s].next \in Int
    BY <2>2 DEF GoodTable, Table, Task
  <2> QED BY <2>1, <2>2, <2>3, <2>4 DEF SetTime
<1> QED BY <1>1, RInvAlways, PTL DEF Spec, SetTimeKeepsDelays
-----------------------------------------------------------------------------
(***************************************************************************)
(* The scheduler of the upper computer, for any number of commands and     *)
(* resets as well: the table in flash never lags behind, and runs and      *)
(* repetitions add up across resets.  These theorems assume what the code  *)
(* leaves to the operators, that no command has the id of a function task  *)
(* of system_init (IdsApart).                                              *)
(*                                                                         *)
(* All operations but a load and a reset are steps of Scheduler, so its    *)
(* invariant IInv is kept by them.                                         *)
(***************************************************************************)
BootId(id) == \E jobs \in BootJobs : \E n \in DOMAIN jobs : jobs[n].id = id
CmdId(id)  == \E job \in CmdJobs : job.id = id

IdsApart == \A id \in Ids : ~(BootId(id) /\ CmdId(id))

(* The commands in flash, also when there is no record.                    *)
Stored == IF image = NoImage THEN [s \in CmdSlots |-> Empty] ELSE image

ImageTyped == image = NoImage \/ image \in [CmdSlots -> Task]

(* A free slot holds nothing, and the two kinds of task their own ids.     *)
Tidy(t) == \A s \in Slots : ~Occupied(t, s) => t.tasks[s] = Empty

OwnIds(t) ==
  /\ \A s \in FuncSlots : Occupied(t, s) => BootId(t.tasks[s].id)
  /\ \A s \in CmdSlots : Occupied(t, s) => CmdId(t.tasks[s].id)

StoredGood ==
  /\ \A s \in CmdSlots :
       /\ Stored[s] \in Task /\ Stored[s].type \in {"NONE", "CMD"}
       /\ Stored[s].active => Stored[s].type = "CMD"
       /\ IF Stored[s].type = "NONE" THEN Stored[s] = Empty ELSE CmdId(Stored[s].id)
  /\ \A r, s \in CmdSlots :
       Stored[r].type = "CMD" /\ Stored[s].type = "CMD" /\ Stored[r].id = Stored[s].id => r = s

(* Either flash and RAM hold the same commands, or those in flash wait for *)
(* the first time command after a reset.                                   *)
Mirrors == \A s \in CmdSlots : Kept(tab.tasks[s]) = Kept(Stored[s])

NoCommands == \A s \in CmdSlots : ~Occupied(tab, s)

Unloaded == ~loaded /\ NoCommands /\ ~(InRun /\ slot \in CmdSlots)

(* The repetitions in flash and the runs make up what is owed.             *)
Left(reps) == IF reps = 0 THEN 1 ELSE reps

Balances(task, s) ==
  task.type # "NONE" /\ task.reps # RepsInfinite =>
    Left(task.reps) + execs[s] = owed[s] + InProgress(s)

StoredOwed == \A s \in CmdSlots : Balances(Stored[s], s)

PInv ==
  /\ IInv /\ Tidy(tab) /\ OwnIds(tab)
  /\ loaded \in BOOLEAN /\ ImageTyped
  /\ execs \in [CmdSlots -> Nat] /\ owed \in [CmdSlots -> Nat]
  /\ StoredGood /\ (Mirrors \/ Unloaded) /\ StoredOwed

-----------------------------------------------------------------------------
LEMMA Segments ==
  /\ CmdSlots \subseteq Slots /\ FuncSlots \subseteq Slots
  /\ \A s \in CmdSlots : s \in Int /\ s \notin FuncSlots
  /\ \A s \in FuncSlots : s \in Int /\ s \notin CmdSlots
  /\ CmdSlots # {}
BY SchedConstants DEF Slots, FuncSlots, CmdSlots

LEMMA NoImageIsNone == ASSUME NEW f \in [CmdSlots -> Task] PROVE f # NoImage
<1>1. DOMAIN f # {}
  BY Segments
<1>2. DOMAIN <<>> = {}
  OBVIOUS
<1> QED BY <1>1, <1>2 DEF NoImage

LEMMA GoodNow == IInv => GoodTable(tab) /\ clock \in Int /\ slot \in Slots /\ loopNow \in Int
BY JobsAssumption DEF IInv, TypeOK, IdMapConsistent, GoodTable

(* A step that clears a slot, keeps the kind and the id of its task, or    *)
(* leaves it, keeps the slots tidy and the ids apart.                      *)
Descends(t, u) ==
  \A s \in Slots :
    \/ u.tasks[s] = Empty
    \/ u.tasks[s] = t.tasks[s]
    \/ /\ Occupied(t, s)
       /\ u.tasks[s].type = t.tasks[s].type /\ u.tasks[s].id = t.tasks[s].id

LEMMA DescendsKeeps ==
  ASSUME NEW t, NEW u, Tidy(t), OwnIds(t), Descends(t, u)
  PROVE  Tidy(u) /\ OwnIds(u)
<1>1. Tidy(u)
  BY DEF Tidy, Descends, Occupied
<1>2. OwnIds(u)
  BY Segments DEF OwnIds, Descends, Occupied, Empty
<1> QED BY <1>1, <1>2

-----------------------------------------------------------------------------
(* What the operations leave of the tasks.                                 *)

(* The operations by id touch one task, the one that is found.             *)
Touches(t, u, id) ==
  /\ ~Found(t, id) => u = t
  /\ Found(t, id) => \A s \in Slots \ {t.idMap[id]} : u.tasks[s] = t.tasks[s]

LEMMA DescheduleTouches ==
  ASSUME NEW t, GoodTable(t), NEW id \in Ids, NEW next \in Int,
         NEW u \in {Deschedule(t, id), Reschedule(t, id, next)}
  PROVE  /\ Touches(t, u, id) /\ Descends(t, u)
         /\ \A s \in Slots : u.tasks[s].reps = t.tasks[s].reps /\ u.tasks[s].type = t.tasks[s].type
<1>1. t.tasks \in [Slots -> Task]
  BY DEF GoodTable, Table
<1>2. CASE Found(t, id)
  <2> DEFINE m == t.idMap[id]
             off == [t.tasks[m] EXCEPT !.active = FALSE]
             on == [t.tasks[m] EXCEPT !.active = TRUE, !.next = next]
  <2>1. m \in Slots /\ t.tasks[m] \in Task /\ Occupied(t, m)
    BY <1>2, FoundFacts
  <2>2. /\ off.id = t.tasks[m].id /\ off.type = t.tasks[m].type
        /\ on.id = t.tasks[m].id /\ on.type = t.tasks[m].type
    BY <2>1 DEF Task
  <2>3. u.tasks \in {[t.tasks EXCEPT ![m] = off], [t.tasks EXCEPT ![m] = on]}
    BY <1>2 DEF Deschedule, Reschedule, SetSlot, GoodTable, Table
  <2>4. Touches(t, u, id)
    <3> HIDE DEF off, on
    <3> QED BY <1>1, <1>2, <2>1, <2>3 DEF Touches
  <2>5. Descends(t, u)
    <3> HIDE DEF m, off, on
    <3> QED BY <1>1, <2>1, <2>2, <2>3 DEF Descends
  <2> QED BY <2>4, <2>5, ActivationFacts
<1>3. CASE ~Found(t, id)
  BY <1>3 DEF Deschedule, Reschedule, Touches, Descends
<1> QED BY <1>2, <1>3

LEMMA UpdateTouches ==
  ASSUME NEW t, GoodTable(t), NEW id \in Ids, NEW period, NEW reps,
         NEW u, u = UpdateTask(t, id, period, reps)
  PROVE  Touches(t, u, id) /\ Descends(t, u)
<1>1. t.tasks \in [Slots -> Task]
  BY DEF GoodTable, Table
<1>2. CASE Found(t, id)
  <2> DEFINE m == t.idMap[id]
             task == [t.tasks[m] EXCEPT !.period = period, !.reps = reps]
  <2>1. m \in Slots /\ t.tasks[m] \in Task /\ Occupied(t, m)
    BY <1>2, FoundFacts
  <2>2. task.id = t.tasks[m].id /\ task.type = t.tasks[m].type
    BY <2>1 DEF Task
  <2>3. u.tasks = [t.tasks EXCEPT ![m] = task]
    BY <1>2 DEF UpdateTask, SetSlot, GoodTable, Table
  <2>4. Touches(t, u, id)
    <3> HIDE DEF task
    <3> QED BY <1>1, <1>2, <2>1, <2>3 DEF Touches
  <2>5. Descends(t, u)
    <3> HIDE DEF m, task
    <3> QED BY <1>1, <2>1, <2>2, <2>3 DEF Descends
  <2> QED BY <2>4, <2>5
<1>3. CASE ~Found(t, id)
  BY <1>3 DEF UpdateTask, Touches, Descends
<1> QED BY <1>2, <1>3

LEMMA ClearTouches ==
  ASSUME NEW t, GoodTable(t), NEW id \in Ids, NEW u, u = ClearTask(t, id)
  PROVE  /\ Touches(t, u, id) /\ Descends(t, u)
         /\ \A s \in Slots : Occupied(u, s) => u.tasks[s] = t.tasks[s]
<1>1. t.tasks \in [Slots -> Task]
  BY DEF GoodTable, Table
<1>2. CASE Found(t, id)
  <2>1. t.idMap[id] \in Slots /\ u.tasks = [t.tasks EXCEPT ![t.idMap[id]] = Empty]
    BY <1>2, FoundFacts DEF ClearTask
  <2> QED BY <1>1, <1>2, <2>1 DEF Touches, Descends, Occupied, Empty
<1>3. CASE ~Found(t, id)
  BY <1>3 DEF ClearTask, Touches, Descends
<1> QED BY <1>2, <1>3

(* An operation on an id that is not a command's leaves the commands.      *)
LEMMA NotACommand ==
  ASSUME GoodTable(tab), NEW id \in Ids, NEW u, Touches(tab, u, id), ~IsCommand(id)
  PROVE  \A s \in CmdSlots : u.tasks[s] = tab.tasks[s]
<1>1. CASE Found(tab, id)
  <2>1. tab.idMap[id] \in Slots /\ Occupied(tab, tab.idMap[id])
    BY <1>1, FoundFacts
  <2>2. tab.idMap[id] \notin CmdSlots
    BY <1>1, <2>1 DEF IsCommand, GoodTable, Segmented, Occupied
  <2> QED BY <1>1, <2>2, Segments DEF Touches
<1>2. CASE ~Found(tab, id)
  BY <1>2 DEF Touches
<1> QED BY <1>1, <1>2

LEMMA RefreshKept ==
  ASSUME NEW t, GoodTable(t), NEW oldtime \in Int, NEW now \in Int,
         NEW u, u = RefreshAll(t, oldtime, now)
  PROVE  /\ Descends(t, u)
         /\ \A s \in Slots : /\ Kept(u.tasks[s]) = Kept(t.tasks[s])
                             /\ u.tasks[s].type = t.tasks[s].type
<1> SUFFICES ASSUME NEW s \in Slots
             PROVE  /\ Kept(u.tasks[s]) = Kept(t.tasks[s])
                    /\ u.tasks[s].type = t.tasks[s].type /\ u.tasks[s].id = t.tasks[s].id
                    /\ ~Occupied(t, s) => u.tasks[s] = t.tasks[s]
  BY DEF Descends
<1> DEFINE n == now + (t.tasks[s].next - oldtime)
<1>1. t.tasks[s] \in Task /\ (t.tasks[s].active => Occupied(t, s))
  BY DEF GoodTable, Table, Segmented
<1>2. u.tasks[s] = IF t.tasks[s].active THEN [t.tasks[s] EXCEPT !.next = n] ELSE t.tasks[s]
  BY DEF RefreshAll, GoodTable, Table
<1> HIDE DEF n
<1>3. CASE t.tasks[s].active
  BY <1>1, <1>2, <1>3 DEF Task, Kept
<1>4. CASE ~t.tasks[s].active
  BY <1>2, <1>4
<1> QED BY <1>3, <1>4

(* A task with repetitions left keeps the rest of itself, one without is   *)
(* cleared, and a slot that was freed meanwhile is left alone.             *)
LEMMA AfterRunKept ==
  ASSUME NEW t, GoodTable(t), Tidy(t), NEW s \in Slots, NEW now \in Int,
         NEW u, u = AfterRun(t, s, now)
  PROVE  /\ Descends(t, u)
         /\ ~Occupied(t, s) => u = t
         /\ \A r \in Slots \ {s} : u.tasks[r] = t.tasks[r]
<1> DEFINE task == t.tasks[s]
           left == RepsLeft(task.reps)
           again == [task EXCEPT !.reps = left, !.next = now + task.period]
           over == [task EXCEPT !.reps = left]
           counted == SetSlot(t, s, over)
<1>1. task \in Task /\ t.tasks \in [Slots -> Task] /\ task.id \in Ids
  <2>1. task \in Task /\ t.tasks \in [Slots -> Task]  BY DEF GoodTable, Table
  <2> QED BY <2>1 DEF Task
<1>2. \A r \in Slots \ {s} : u.tasks[r] = t.tasks[r]
  BY AfterRunFacts
<1>3. CASE task.type = "NONE"
  <2>1. task = Empty
    BY <1>3 DEF Tidy, Occupied
  <2>2. left = 0 /\ over = Empty
    BY <2>1 DEF RepsLeft, Empty
  <2>3. u = counted
    BY <1>3, <2>2 DEF AfterRun
  <2>4. counted = [t EXCEPT !.tasks[s] = task]
    BY <2>1, <2>2 DEF SetSlot
  <2>5. u = t
    <3> HIDE DEF counted
    <3> QED BY <2>3, <2>4, <1>1 DEF GoodTable, Table
  <2> QED BY <1>2, <2>5 DEF Descends
<1>4. CASE task.type # "NONE" /\ left > 0
  <2>1. u = SetSlot(t, s, again)
    BY <1>4 DEF AfterRun
  <2>2. u.tasks[s] = again
    <3> HIDE DEF again
    <3> QED BY <2>1, <1>1 DEF SetSlot, GoodTable, Table
  <2>3. again.type = task.type /\ again.id = task.id
    <3> DEFINE n == now + task.period
    <3> HIDE DEF task, left, n
    <3>1. /\ [task EXCEPT !.reps = left, !.next = n].type = task.type
          /\ [task EXCEPT !.reps = left, !.next = n].id = task.id
      BY <1>1 DEF Task
    <3> QED BY <3>1 DEF n
  <2> HIDE DEF again
  <2> QED BY <1>2, <1>4, <2>2, <2>3 DEF Descends, Occupied
<1>5. CASE task.type # "NONE" /\ ~(left > 0)
  <2>1. u = ClearTask(counted, task.id)
    BY <1>5 DEF AfterRun
  <2>2. over.id = task.id
    <3> HIDE DEF task, left
    <3> QED BY <1>1 DEF Task
  <2>3. /\ counted.idMap = t.idMap /\ counted.tasks[s] = over
        /\ counted.tasks = [t.tasks EXCEPT ![s] = over]
    <3> HIDE DEF over
    <3> QED BY <1>1 DEF SetSlot, GoodTable, Table
  <2>4. t.idMap[task.id] = s
    BY <1>5 DEF GoodTable, Consistent, Occupied
  <2>5. Found(counted, task.id)
    <3> HIDE DEF task, counted, over
    <3> QED BY <2>2, <2>3, <2>4, SlotFacts DEF Found
  <2>6. u.tasks[s] = Empty
    <3> HIDE DEF counted, over, task
    <3> QED BY <2>1, <2>3, <2>4, <2>5, <1>1 DEF ClearTask
  <2> QED BY <1>2, <1>5, <2>6 DEF Descends, Occupied
<1> QED BY <1>2, <1>3, <1>4, <1>5

LEMMA ScheduleTouches ==
  ASSUME GoodTable(tab), Tidy(tab), OwnIds(tab), NEW job \in CmdJobs, NEW start \in Int,
         NEW u, u = ScheduleTask(tab, Create(job.id, "CMD", start, job.period, job.reps), CmdSlots)
  PROVE  /\ Tidy(u) /\ OwnIds(u)
         /\ CanSchedule(tab, job.id, CmdSlots) =>
              LET g == FirstFree(tab, CmdSlots)
              IN  /\ g \in CmdSlots /\ u.tasks[g].reps = job.reps
                  /\ \A s \in Slots \ {g} : u.tasks[s] = tab.tasks[s]
         /\ ~CanSchedule(tab, job.id, CmdSlots) => u = tab
<1> DEFINE new == Create(job.id, "CMD", start, job.period, job.reps)
<1>1. new.id = job.id /\ new.reps = job.reps /\ new.type = "CMD"
  BY DEF Create
<1> HIDE DEF new
<1>2. CASE CanSchedule(tab, job.id, CmdSlots)
  <2> DEFINE g == FirstFree(tab, CmdSlots)
  <2>1. g \in CmdSlots /\ ~Occupied(tab, g)
    BY <1>2, FirstFreeFacts DEF CanSchedule
  <2>2. u = Place(tab, new, g)
    BY <1>1, <1>2 DEF ScheduleTask, new
  <2>3. u.tasks = [tab.tasks EXCEPT ![g] = new] /\ tab.tasks \in [Slots -> Task]
    BY <2>2 DEF Place, GoodTable, Table
  <2> HIDE DEF g
  <2>4. u.tasks[g] = new /\ \A s \in Slots \ {g} : u.tasks[s] = tab.tasks[s]
    BY <2>1, <2>3, Segments
  <2>5. Tidy(u)
    BY <1>1, <2>4 DEF Tidy, Occupied
  <2>6. OwnIds(u)
    BY <1>1, <2>1, <2>4, Segments DEF OwnIds, Occupied, CmdId
  <2> QED BY <1>1, <1>2, <2>1, <2>4, <2>5, <2>6 DEF g
<1>3. CASE ~CanSchedule(tab, job.id, CmdSlots)
  BY <1>1, <1>3 DEF ScheduleTask, new
<1> QED BY <1>2, <1>3

-----------------------------------------------------------------------------
(* What a step that flushes, and one that does not, leave of the invariant.*)

(* The parts of the invariant that relate flash and RAM.                   *)
FlashInv == ImageTyped /\ StoredGood /\ (Mirrors \/ Unloaded)

LEMMA StoredTyped == ASSUME PInv, NEW s \in CmdSlots
                     PROVE  Stored[s] \in Task /\ Stored[s].reps \in 0 .. RepsInfinite
<1>1. Stored[s] \in Task
  BY DEF PInv, StoredGood
<1> QED BY <1>1 DEF Task

LEMMA FlushStores ==
  ASSUME GoodTable(tab'), Tidy(tab'), OwnIds(tab'), image' = Segment(tab')
  PROVE  FlashInv' /\ \A s \in CmdSlots : Stored'[s] = tab'.tasks[s]
<1>1. tab'.tasks \in [Slots -> Task]
  BY DEF GoodTable, Table
<1>2. image' \in [CmdSlots -> Task]
  BY <1>1, Segments DEF Segment
<1>3. image' # NoImage
  BY <1>2, NoImageIsNone
<1>4. \A s \in CmdSlots : Stored'[s] = tab'.tasks[s]
  BY <1>3 DEF Stored, Segment
<1>5. StoredGood'
  <2>1. ASSUME NEW s \in CmdSlots
        PROVE  /\ tab'.tasks[s] \in Task /\ tab'.tasks[s].type \in {"NONE", "CMD"}
               /\ tab'.tasks[s].active => tab'.tasks[s].type = "CMD"
               /\ IF tab'.tasks[s].type = "NONE" THEN tab'.tasks[s] = Empty
                                                 ELSE CmdId(tab'.tasks[s].id)
    BY <1>1, <2>1, Segments DEF GoodTable, Segmented, Tidy, OwnIds, Occupied
  <2>2. ASSUME NEW r \in CmdSlots, NEW s \in CmdSlots,
               tab'.tasks[r].type = "CMD", tab'.tasks[s].type = "CMD",
               tab'.tasks[r].id = tab'.tasks[s].id
        PROVE  r = s
    BY <2>2, Segments DEF GoodTable, Consistent, Occupied
  <2> QED BY <1>4, <2>1, <2>2 DEF StoredGood, CmdId
<1>6. Mirrors'
  BY <1>4 DEF Mirrors
<1>7. ImageTyped'
  BY <1>2 DEF ImageTyped
<1> QED BY <1>4, <1>5, <1>6, <1>7 DEF FlashInv

LEMMA StoreStays ==
  ASSUME ImageTyped, StoredGood, image' = image
  PROVE  Stored' = Stored /\ ImageTyped' /\ StoredGood'
<1>1. Stored' = Stored
  BY DEF Stored
<1> QED BY <1>1 DEF ImageTyped, StoredGood, CmdId

LEMMA SameImage ==
  ASSUME FlashInv, image' = image, loaded' = loaded,
         \A s \in CmdSlots : Kept(tab'.tasks[s]) = Kept(tab.tasks[s]),
         InRun' /\ slot' \in CmdSlots => (InRun /\ slot \in CmdSlots) \/ ~NoCommands
  PROVE  FlashInv' /\ Stored' = Stored
<1>1. Stored' = Stored /\ ImageTyped' /\ StoredGood'
  BY StoreStays DEF FlashInv
<1>2. CASE Mirrors
  BY <1>1, <1>2 DEF FlashInv, Mirrors
<1>3. CASE Unloaded
  <2>1. \A s \in CmdSlots : tab'.tasks[s].type = tab.tasks[s].type
    BY DEF Kept
  <2>2. Unloaded'
    BY <1>3, <2>1 DEF Unloaded, NoCommands, Occupied
  <2> QED BY <1>1, <2>2 DEF FlashInv
<1> QED BY <1>2, <1>3 DEF FlashInv

(* Runs in progress of commands are runs of tasks that are in flash.       *)
LEMMA TableBalances ==
  ASSUME PInv, NEW s \in CmdSlots
  PROVE  Balances(tab.tasks[s], s) /\ (InProgress(s) = 1 => Mirrors)
<1>1. CASE Mirrors
  <2>1. tab.tasks[s].type = Stored[s].type /\ tab.tasks[s].reps = Stored[s].reps
    BY <1>1 DEF Mirrors, Kept
  <2> QED BY <1>1, <2>1 DEF PInv, StoredOwed, Balances
<1>2. CASE Unloaded
  BY <1>2 DEF Unloaded, NoCommands, Occupied, Balances, InProgress, Executing
<1> QED BY <1>1, <1>2 DEF PInv

(* Without a flush the balance of a command changes in nothing.            *)
LEMMA SameBalance ==
  ASSUME PInv, Stored' = Stored,
         \A s \in CmdSlots :
           \/ Stored[s].type = "NONE"
           \/ Stored[s].reps = RepsInfinite
           \/ execs'[s] - owed'[s] - InProgress(s)' = execs[s] - owed[s] - InProgress(s),
         execs' \in [CmdSlots -> Nat], owed' \in [CmdSlots -> Nat]
  PROVE  StoredOwed'
<1> SUFFICES ASSUME NEW s \in CmdSlots, Stored[s].type # "NONE", Stored[s].reps # RepsInfinite
             PROVE  Left(Stored[s].reps) + execs'[s] = owed'[s] + InProgress(s)'
  BY DEF StoredOwed, Balances, Left
<1>1. Left(Stored[s].reps) + execs[s] = owed[s] + InProgress(s)
  BY DEF PInv, StoredOwed, Balances
<1>2. /\ execs[s] \in Nat /\ owed[s] \in Nat /\ execs'[s] \in Nat /\ owed'[s] \in Nat
      /\ InProgress(s) \in Int /\ InProgress(s)' \in Int /\ Left(Stored[s].reps) \in Int
  BY StoredTyped DEF PInv, InProgress, Left
<1> QED BY <1>1, <1>2

LEMMA StepKeeps ==
  ASSUME PInv, IInv', Tidy(tab'), OwnIds(tab'), loaded' \in BOOLEAN, FlashInv', StoredOwed',
         execs' \in [CmdSlots -> Nat], owed' \in [CmdSlots -> Nat]
  PROVE  PInv'
<1>1. Tidy(tab)'
  BY DEF Tidy, Occupied, Empty
<1>2. OwnIds(tab)'
  BY DEF OwnIds, Occupied, BootId, CmdId
<1> QED BY <1>1, <1>2 DEF PInv, FlashInv

LEMMA FlushKeeps ==
  ASSUME PInv, IInv', Tidy(tab'), OwnIds(tab'), image' = Segment(tab'), loaded' = loaded,
         execs' \in [CmdSlots -> Nat], owed' \in [CmdSlots -> Nat],
         \A s \in CmdSlots :
           tab'.tasks[s].type # "NONE" /\ tab'.tasks[s].reps # RepsInfinite =>
             Left(tab'.tasks[s].reps) + execs'[s] = owed'[s] + InProgress(s)'
  PROVE  PInv'
<1>1. GoodTable(tab')
  BY DEF IInv, TypeOK, IdMapConsistent, GoodTable, Segmented, Consistent, Occupied
<1>2. FlashInv' /\ \A s \in CmdSlots : Stored'[s] = tab'.tasks[s]
  BY <1>1, FlushStores
<1>3. StoredOwed'
  BY <1>2 DEF StoredOwed, Balances, Left
<1> QED BY <1>2, <1>3, StepKeeps DEF PInv

LEMMA NoFlushKeeps ==
  ASSUME PInv, IInv', Tidy(tab'), OwnIds(tab'), image' = image, loaded' = loaded,
         \A s \in CmdSlots : Kept(tab'.tasks[s]) = Kept(tab.tasks[s]),
         InRun' /\ slot' \in CmdSlots => (InRun /\ slot \in CmdSlots) \/ ~NoCommands,
         execs' \in [CmdSlots -> Nat], owed' \in [CmdSlots -> Nat],
         \A s \in CmdSlots :
           \/ Stored[s].type = "NONE"
           \/ Stored[s].reps = RepsInfinite
           \/ execs'[s] - owed'[s] - InProgress(s)' = execs[s] - owed[s] - InProgress(s)
  PROVE  PInv'
<1>1. FlashInv' /\ Stored' = Stored
  BY SameImage DEF PInv, FlashInv
<1> QED BY <1>1, SameBalance, StepKeeps DEF PInv

(* A call returns to where the scan stood.                                 *)
LEMMA CalledStays ==
  ASSUME Called
  PROVE  /\ InRun' /\ slot' \in CmdSlots => InRun /\ slot \in CmdSlots
         /\ \A s \in Slots : InProgress(s)' = InProgress(s)
BY CallsInPlace DEF Called, Idle, InRun

(* Each part of the superloop, and each call, is a step of Scheduler.      *)
LEMMA StepGoodNow ==
  ASSUME PInv, [Next]_vars
  PROVE  IInv' /\ GoodTable(tab) /\ Tidy(tab) /\ OwnIds(tab) /\ clock \in Int
BY StepIInv, GoodNow DEF PInv

(* A call that changes neither repetitions nor kinds, or clears.           *)
LEMMA ByIdKeeps ==
  ASSUME PInv, IInv', NEW id \in Ids, Touches(tab, tab', id), Descends(tab, tab'),
         \A s \in Slots : Occupied(tab', s) =>
           Occupied(tab, s) /\ tab'.tasks[s].reps = tab.tasks[s].reps,
         Called, FlushIf(IsCommand(id)), SameOwed, SameBoot
  PROVE  PInv'
<1>1. GoodTable(tab) /\ Tidy(tab) /\ OwnIds(tab)
  BY GoodNow DEF PInv
<1>2. Tidy(tab') /\ OwnIds(tab')
  BY <1>1, DescendsKeeps
<1>3. /\ execs' = execs /\ owed' = owed /\ loaded' = loaded
      /\ execs \in [CmdSlots -> Nat] /\ owed \in [CmdSlots -> Nat]
  BY DEF SameOwed, SameBoot, PInv
<1>4. \A s \in CmdSlots : InProgress(s)' = InProgress(s)
  BY CalledStays, Segments
<1>5. CASE IsCommand(id)
  <2>1. image' = Segment(tab')
    BY <1>5 DEF FlushIf
  <2>2. ASSUME NEW s \in CmdSlots, tab'.tasks[s].type # "NONE",
               tab'.tasks[s].reps # RepsInfinite
        PROVE  Left(tab'.tasks[s].reps) + execs'[s] = owed'[s] + InProgress(s)'
    BY <1>3, <1>4, <2>2, Segments, TableBalances DEF Balances, Occupied
  <2> QED BY <1>2, <1>3, <2>1, <2>2, FlushKeeps
<1>6. CASE ~IsCommand(id)
  <2>1. image' = image
    BY <1>6 DEF FlushIf
  <2>2. \A s \in CmdSlots : Kept(tab'.tasks[s]) = Kept(tab.tasks[s])
    BY <1>1, <1>6, NotACommand
  <2> QED BY <1>2, <1>3, <1>4, <2>1, <2>2, CalledStays, NoFlushKeeps
<1> QED BY <1>5, <1>6

LEMMA PDescheduleKeeps == ASSUME PInv, NEW id \in Ids, PDeschedule(id) PROVE PInv'
<1>1. DescheduleCall(id) /\ Next
  BY DEF PDeschedule, Next, Call
<1>2. IInv' /\ GoodTable(tab)
  BY <1>1, StepGoodNow
<1>3. tab' = Deschedule(tab, id) /\ Called
  BY <1>1 DEF DescheduleCall
<1>4. /\ Touches(tab, tab', id) /\ Descends(tab, tab')
      /\ \A s \in Slots : Occupied(tab', s) =>
           Occupied(tab, s) /\ tab'.tasks[s].reps = tab.tasks[s].reps
  BY <1>2, <1>3, DescheduleTouches DEF Occupied
<1> QED BY <1>2, <1>3, <1>4, ByIdKeeps DEF PDeschedule

LEMMA PRescheduleKeeps == ASSUME PInv, NEW id \in Ids, PReschedule(id) PROVE PInv'
<1>1. RescheduleCall(id, clock) /\ Next
  BY DEF PReschedule, Next, Call
<1>2. IInv' /\ GoodTable(tab) /\ clock \in Int
  BY <1>1, StepGoodNow
<1>3. tab' = Reschedule(tab, id, clock) /\ Called
  BY <1>1 DEF RescheduleCall
<1>4. /\ Touches(tab, tab', id) /\ Descends(tab, tab')
      /\ \A s \in Slots : Occupied(tab', s) =>
           Occupied(tab, s) /\ tab'.tasks[s].reps = tab.tasks[s].reps
  BY <1>2, <1>3, DescheduleTouches DEF Occupied
<1> QED BY <1>2, <1>3, <1>4, ByIdKeeps DEF PReschedule

LEMMA PClearKeeps == ASSUME PInv, NEW id \in Ids, PClear(id) PROVE PInv'
<1>1. ClearCall(id) /\ Next
  BY DEF PClear, Next, Call
<1>2. IInv' /\ GoodTable(tab)
  BY <1>1, StepGoodNow
<1>3. tab' = ClearTask(tab, id) /\ Called
  BY <1>1 DEF ClearCall
<1>4. /\ Touches(tab, tab', id) /\ Descends(tab, tab')
      /\ \A s \in Slots : Occupied(tab', s) =>
           Occupied(tab, s) /\ tab'.tasks[s].reps = tab.tasks[s].reps
  BY <1>2, <1>3, ClearTouches DEF Occupied
<1> QED BY <1>2, <1>3, <1>4, ByIdKeeps DEF PClear

(* A slot that gets repetitions owes them, and the run in progress is the  *)
(* first of them.                                                          *)
LEMMA OweKeeps ==
  ASSUME PInv, IInv', Tidy(tab'), OwnIds(tab'), Called, NEW g \in CmdSlots,
         NEW reps \in 0 .. RepsInfinite, tab'.tasks[g].reps = reps,
         \A s \in CmdSlots \ {g} : tab'.tasks[s] = tab.tasks[s],
         Owe(g, reps), image' = Segment(tab'), loaded' = loaded
  PROVE  PInv'
<1>1. execs \in [CmdSlots -> Nat] /\ owed \in [CmdSlots -> Nat]
  BY DEF PInv
<1>2. execs' \in [CmdSlots -> Nat] /\ owed' \in [CmdSlots -> Nat]
  BY <1>1 DEF Owe
<1>3. ASSUME NEW s \in CmdSlots, tab'.tasks[s].type # "NONE", tab'.tasks[s].reps # RepsInfinite
      PROVE  Left(tab'.tasks[s].reps) + execs'[s] = owed'[s] + InProgress(s)'
  <2>1. InProgress(s)' = InProgress(s)
    BY CalledStays, Segments
  <2>2. CASE s = g
    <3>1. execs'[s] = InProgress(s) /\ owed'[s] = Left(reps)
      BY <1>1, <2>2 DEF Owe, InProgress, Left
    <3>2. InProgress(s) \in Int /\ Left(reps) \in Int
      BY DEF InProgress, Left
    <3> QED BY <2>1, <2>2, <3>1, <3>2
  <2>3. CASE s # g
    <3>1. execs'[s] = execs[s] /\ owed'[s] = owed[s]
      BY <1>1, <2>3 DEF Owe
    <3> QED BY <1>3, <2>1, <2>3, <3>1, TableBalances DEF Balances
  <2> QED BY <2>2, <2>3
<1> QED BY <1>2, <1>3, FlushKeeps

LEMMA PScheduleCmdKeeps == ASSUME PInv, NEW job \in CmdJobs, PScheduleCmd(job) PROVE PInv'
<1> DEFINE start == clock + job.delay
<1>1. ScheduleCmd(job, start) /\ Next
  BY DEF PScheduleCmd, Next, Call
<1>2. IInv' /\ GoodTable(tab) /\ Tidy(tab) /\ OwnIds(tab) /\ clock \in Int
  BY <1>1, StepGoodNow
<1>3. /\ tab' = ScheduleTask(tab, Create(job.id, "CMD", start, job.period, job.reps), CmdSlots)
      /\ Called
  BY <1>1 DEF ScheduleCmd, Schedule
<1>4. start \in Int /\ job.reps \in 0 .. RepsInfinite
  BY <1>2, JobsAssumption DEF Job
<1> HIDE DEF start
<1>5. /\ Tidy(tab') /\ OwnIds(tab')
      /\ CanSchedule(tab, job.id, CmdSlots) =>
           LET g == FirstFree(tab, CmdSlots)
           IN  /\ g \in CmdSlots /\ tab'.tasks[g].reps = job.reps
               /\ \A s \in Slots \ {g} : tab'.tasks[s] = tab.tasks[s]
      /\ ~CanSchedule(tab, job.id, CmdSlots) => tab' = tab
  BY <1>2, <1>3, <1>4, ScheduleTouches
<1>6. CASE CanSchedule(tab, job.id, CmdSlots)
  <2>1. Owe(FirstFree(tab, CmdSlots), job.reps) /\ image' = Segment(tab') /\ loaded' = loaded
    BY <1>6 DEF PScheduleCmd, FlushIf, SameBoot
  <2> QED BY <1>2, <1>3, <1>4, <1>5, <1>6, <2>1, Segments, OweKeeps
<1>7. CASE ~CanSchedule(tab, job.id, CmdSlots)
  <2>1. /\ image' = image /\ loaded' = loaded /\ execs' = execs /\ owed' = owed
        /\ execs \in [CmdSlots -> Nat] /\ owed \in [CmdSlots -> Nat]
    BY <1>7 DEF PScheduleCmd, FlushIf, SameBoot, SameOwed, PInv
  <2>2. \A s \in CmdSlots : InProgress(s)' = InProgress(s)
    BY <1>3, CalledStays, Segments
  <2> QED BY <1>2, <1>3, <1>5, <1>7, <2>1, <2>2, CalledStays, NoFlushKeeps
<1> QED BY <1>6, <1>7

LEMMA PUpdateKeeps ==
  ASSUME PInv, NEW id \in Ids, NEW period \in Periods, NEW reps \in RepCounts,
         PUpdate(id, period, reps)
  PROVE  PInv'
<1>1. UpdateCall(id, period, reps) /\ Next
  BY DEF PUpdate, Next, Call
<1>2. IInv' /\ GoodTable(tab) /\ Tidy(tab) /\ OwnIds(tab) /\ reps \in 0 .. RepsInfinite
  BY <1>1, StepGoodNow, JobsAssumption
<1>3. tab' = UpdateTask(tab, id, period, reps) /\ Called
  BY <1>1 DEF UpdateCall
<1>4. Touches(tab, tab', id) /\ Tidy(tab') /\ OwnIds(tab')
  BY <1>2, <1>3, UpdateTouches, DescendsKeeps
<1>5. CASE IsCommand(id)
  <2> DEFINE g == tab.idMap[id]
  <2>1. g \in CmdSlots
    BY <1>2, <1>5, FoundFacts, Segments, SlotFacts DEF IsCommand, GoodTable, Segmented
  <2>2. tab'.tasks[g].reps = reps /\ \A s \in CmdSlots \ {g} : tab'.tasks[s] = tab.tasks[s]
    BY <1>2, <1>3, <1>5, UpdateFacts, Segments DEF IsCommand
  <2>3. Owe(g, reps) /\ image' = Segment(tab') /\ loaded' = loaded
    BY <1>5 DEF PUpdate, FlushIf, SameBoot
  <2> HIDE DEF g
  <2> QED BY <1>2, <1>3, <1>4, <2>1, <2>2, <2>3, OweKeeps
<1>6. CASE ~IsCommand(id)
  <2>1. /\ image' = image /\ loaded' = loaded /\ execs' = execs /\ owed' = owed
        /\ execs \in [CmdSlots -> Nat] /\ owed \in [CmdSlots -> Nat]
    BY <1>6 DEF PUpdate, FlushIf, SameBoot, SameOwed, PInv
  <2>2. \A s \in CmdSlots : Kept(tab'.tasks[s]) = Kept(tab.tasks[s])
    BY <1>2, <1>4, <1>6, NotACommand
  <2>3. \A s \in CmdSlots : InProgress(s)' = InProgress(s)
    BY <1>3, CalledStays, Segments
  <2> QED BY <1>2, <1>3, <1>4, <2>1, <2>2, <2>3, CalledStays, NoFlushKeeps
<1> QED BY <1>5, <1>6

-----------------------------------------------------------------------------
(* The superloop.                                                          *)

LEMMA ScanKeeps ==
  ASSUME PInv, (StartScan \/ Skip \/ Tick) /\ UNCHANGED flashVars
  PROVE  PInv'
<1>1. Next
  BY DEF Next, Loop
<1>2. IInv' /\ Tidy(tab) /\ OwnIds(tab)
  BY <1>1, StepGoodNow
<1>3. /\ tab' = tab /\ image' = image /\ loaded' = loaded /\ execs' = execs /\ owed' = owed
      /\ execs \in [CmdSlots -> Nat] /\ owed \in [CmdSlots -> Nat]
  BY DEF StartScan, Skip, Tick, flashVars, PInv
<1>4. /\ \A s \in Slots : InProgress(s)' = InProgress(s)
      /\ InRun' /\ slot' \in CmdSlots => InRun /\ slot \in CmdSlots
  BY DEF StartScan, Skip, Tick, NextSlot, Idle, InProgress, Executing, InRun
<1>5. \A s \in CmdSlots : InProgress(s)' = InProgress(s)
  BY <1>4, Segments
<1> QED BY <1>2, <1>3, <1>4, <1>5, NoFlushKeeps

(* A run of a command begins only when flash has the command as well.      *)
LEMMA PBeginKeeps == ASSUME PInv, PBegin PROVE PInv'
<1>1. Begin /\ Next
  BY DEF PBegin, Next, Loop
<1>2. IInv' /\ GoodTable(tab) /\ Tidy(tab) /\ OwnIds(tab)
  BY <1>1, StepGoodNow
<1>3. /\ tab' = tab /\ slot' = slot /\ slot \in Slots /\ tab.tasks[slot].active
      /\ pc = "scan" /\ pc' = "body"
  BY <1>1, GoodNow DEF Begin, Due, PInv
<1>4. /\ image' = image /\ loaded' = loaded /\ owed' = owed
      /\ execs \in [CmdSlots -> Nat] /\ owed \in [CmdSlots -> Nat]
  BY DEF PBegin, PInv
<1>5. execs' \in [CmdSlots -> Nat]
  BY <1>4 DEF PBegin
<1>6. slot \in CmdSlots => ~NoCommands
  BY <1>2, <1>3 DEF NoCommands, GoodTable, Segmented
<1>7. ASSUME NEW s \in CmdSlots
      PROVE  \/ Stored[s].reps = RepsInfinite
             \/ execs'[s] - owed'[s] - InProgress(s)' = execs[s] - owed[s] - InProgress(s)
  <2>1. InProgress(s) = 0 /\ execs[s] \in Nat /\ owed[s] \in Nat
    BY <1>3, <1>4 DEF InProgress, Executing, InRun
  <2>2. CASE s = slot
    <3>1. Mirrors
      BY <1>6, <2>2 DEF PInv, Unloaded
    <3>2. Stored[s].reps = tab.tasks[s].reps
      BY <3>1 DEF Mirrors, Kept
    <3>3. InProgress(s)' = 1
      BY <1>3, <2>2 DEF InProgress, Executing, InRun
    <3>4. tab.tasks[s].reps # RepsInfinite => execs'[s] = execs[s] + 1
      BY <1>4, <2>2 DEF PBegin
    <3> QED BY <1>4, <2>1, <3>2, <3>3, <3>4
  <2>3. CASE s # slot
    <3>1. InProgress(s)' = 0
      BY <1>3, <2>3 DEF InProgress, Executing
    <3>2. execs'[s] = execs[s]
      BY <1>4, <2>3 DEF PBegin
    <3> QED BY <1>4, <2>1, <3>1, <3>2
  <2> QED BY <2>2, <2>3
<1> QED BY <1>2, <1>3, <1>4, <1>5, <1>6, <1>7, NoFlushKeeps

(* The end of a run charges a command and flushes it.                      *)
LEMMA PFinishKeeps == ASSUME PInv, PFinish PROVE PInv'
<1> DEFINE task == tab.tasks[slot]
           left == RepsLeft(task.reps)
           touched == IF left > 0 THEN task.type = "CMD"
                      ELSE task.type # "NONE" /\ IsCommand(task.id)
<1>1. Finish /\ Next /\ FlushIf(touched)
  BY DEF PFinish, Next, Loop
<1>2. IInv' /\ GoodTable(tab) /\ Tidy(tab) /\ OwnIds(tab) /\ slot \in Slots /\ loopNow \in Int
  BY <1>1, StepGoodNow, GoodNow DEF PInv
<1>3. tab' = AfterRun(tab, slot, loopNow) /\ InRun /\ ~InRun'
  BY <1>1 DEF Finish, NextSlot, InRun
<1>4. /\ Tidy(tab') /\ OwnIds(tab')
      /\ ~Occupied(tab, slot) => tab' = tab
      /\ \A r \in Slots \ {slot} : tab'.tasks[r] = tab.tasks[r]
  BY <1>2, <1>3, AfterRunKept, DescendsKeeps
<1>5. /\ loaded' = loaded /\ execs' = execs /\ owed' = owed
      /\ execs \in [CmdSlots -> Nat] /\ owed \in [CmdSlots -> Nat]
  BY DEF PFinish, SameOwed, SameBoot, PInv
<1>6. task \in Task /\ task.reps \in 0 .. RepsInfinite
  <2>1. task \in Task
    BY <1>2 DEF GoodTable, Table
  <2> QED BY <2>1 DEF Task
<1>7. \A s \in CmdSlots : InProgress(s)' = 0 /\ (s # slot => InProgress(s) = 0)
  BY <1>3 DEF InProgress, Executing
<1>8. CASE touched
  <2>1. image' = Segment(tab')
    BY <1>1, <1>8 DEF FlushIf
  <2>2. ASSUME NEW s \in CmdSlots, tab'.tasks[s].type # "NONE",
               tab'.tasks[s].reps # RepsInfinite
        PROVE  Left(tab'.tasks[s].reps) + execs'[s] = owed'[s] + InProgress(s)'
    <3>1. CASE s = slot
      <4>1. left > 0
        BY <1>2, <1>3, <2>2, <3>1, AfterRunFacts DEF Occupied
      <4>2. tab'.tasks[s].reps = left /\ tab'.tasks[s].type = task.type
        BY <1>2, <1>3, <3>1, <4>1, AfterRunFacts
      <4>3. task.reps > 0 /\ task.reps # RepsInfinite /\ left = task.reps - 1
        BY <1>6, <2>2, <4>1, <4>2 DEF RepsLeft
      <4>4. InProgress(s) = 1
        BY <1>3, <3>1 DEF InProgress, Executing
      <4>5. Left(task.reps) + execs[s] = owed[s] + InProgress(s)
        <5>1. Balances(tab.tasks[s], s)
          BY TableBalances
        <5> QED BY <2>2, <3>1, <4>2, <4>3, <5>1 DEF Balances
      <4>6. Left(task.reps) = task.reps /\ Left(left) = task.reps - 1
        BY <1>6, <4>1, <4>3 DEF Left
      <4>7. execs[s] \in Nat /\ owed[s] \in Nat /\ task.reps \in Int
        BY <1>5, <1>6
      <4> HIDE DEF task, left
      <4> QED BY <1>5, <1>7, <4>2, <4>4, <4>5, <4>6, <4>7
    <3>2. CASE s # slot
      <4>1. tab'.tasks[s] = tab.tasks[s]
        BY <1>4, <3>2, Segments
      <4>2. Balances(tab.tasks[s], s)
        BY TableBalances
      <4> QED BY <1>5, <1>7, <2>2, <3>2, <4>1, <4>2 DEF Balances
    <3> QED BY <3>1, <3>2
  <2> QED BY <1>2, <1>4, <1>5, <2>1, <2>2, FlushKeeps
<1>9. CASE ~touched
  <2>1. image' = image
    BY <1>1, <1>9 DEF FlushIf
  <2>2. slot \in CmdSlots => ~Occupied(tab, slot)
    <3> SUFFICES ASSUME slot \in CmdSlots, task.type # "NONE" PROVE FALSE
      BY DEF Occupied
    <3>1. task.type = "CMD"
      BY <1>2 DEF GoodTable, Segmented
    <3>2. task.id \in Ids /\ tab.idMap[task.id] = slot
      BY <1>2, <1>6 DEF GoodTable, Consistent, Occupied, Task
    <3>3. IsCommand(task.id)
      BY <1>2, <3>1, <3>2, SlotFacts DEF IsCommand, Found
    <3> QED BY <1>9, <3>1, <3>3
  <2>3. \A s \in CmdSlots : Kept(tab'.tasks[s]) = Kept(tab.tasks[s])
    BY <1>4, <2>2, Segments
  <2>4. ASSUME NEW s \in CmdSlots
        PROVE  \/ Stored[s].type = "NONE"
               \/ execs'[s] - owed'[s] - InProgress(s)' = execs[s] - owed[s] - InProgress(s)
    <3>1. CASE s = slot
      <4>1. Mirrors
        BY <1>3, <3>1 DEF PInv, Unloaded
      <4> QED BY <2>2, <3>1, <4>1 DEF Mirrors, Kept, Occupied
    <3>2. CASE s # slot
      BY <1>5, <1>7, <3>2
    <3> QED BY <3>1, <3>2
  <2> QED BY <1>2, <1>3, <1>4, <1>5, <2>1, <2>3, <2>4, NoFlushKeeps
<1> QED BY <1>8, <1>9

-----------------------------------------------------------------------------
(* The tables that system_init and a load leave.                           *)

LEMMA BootedFacts ==
  ASSUME NEW jobs \in BootJobs
  PROVE  /\ GoodTable(Booted(jobs)) /\ Tidy(Booted(jobs)) /\ OwnIds(Booted(jobs))
         /\ \A s \in CmdSlots : Booted(jobs).tasks[s] = Empty
<1> DEFINE u == Booted(jobs)
           task(s) == LET job == jobs[s + 1]
                      IN  Create(job.id, "FUNC", job.delay, job.period, job.reps)
           slots(id) == {s \in FuncSlots : s + 1 \in DOMAIN jobs /\ jobs[s + 1].id = id}
<1>1. /\ DOMAIN jobs = 1 .. Len(jobs) /\ Len(jobs) \in Nat /\ Len(jobs) <= MaxFuncTasks
      /\ \A n \in DOMAIN jobs : jobs[n] \in Job
      /\ \A m, n \in DOMAIN jobs : jobs[m].id = jobs[n].id => m = n
  BY BootAssumption
<1>2. \A s \in Slots : s + 1 \in DOMAIN jobs => s \in FuncSlots
  BY <1>1, SchedConstants DEF Slots, FuncSlots
<1>3. ASSUME NEW s \in Slots, s + 1 \in DOMAIN jobs
      PROVE  /\ task(s) \in Task /\ task(s).id = jobs[s + 1].id /\ task(s).type = "FUNC"
             /\ jobs[s + 1].id \in Ids /\ BootId(jobs[s + 1].id)
  <2>1. jobs[s + 1] \in Job
    BY <1>1, <1>3
  <2>2. BootId(jobs[s + 1].id)
    BY <1>3 DEF BootId
  <2> QED BY <2>1, <2>2 DEF Job, Task, Create
<1>4. /\ u.tasks = [s \in Slots |-> IF s + 1 \in DOMAIN jobs THEN task(s) ELSE Empty]
      /\ u.idMap = [id \in Ids |-> IF slots(id) = {} THEN Null ELSE CHOOSE s \in slots(id) : TRUE]
      /\ u = [tasks |-> u.tasks, idMap |-> u.idMap]
  BY DEF Booted
<1>5. \A id \in Ids : slots(id) # {} => u.idMap[id] \in slots(id)
  BY <1>4
<1>6. \A s \in Slots : u.tasks[s] = IF s + 1 \in DOMAIN jobs THEN task(s) ELSE Empty
  BY <1>4
<1>7. u \in Table
  <2>1. u.tasks \in [Slots -> Task]
    <3> HIDE DEF task, u
    <3> QED BY <1>3, <1>4, EmptyTask
  <2>2. u.idMap \in [Ids -> Slots \cup {Null}]
    <3>1. \A id \in Ids : u.idMap[id] \in Slots \cup {Null}
      <4>1. \A id \in Ids : slots(id) \subseteq Slots
        BY Segments
      <4>2. \A id \in Ids : slots(id) = {} => u.idMap[id] = Null
        BY <1>4
      <4> HIDE DEF u, slots
      <4> QED BY <1>5, <4>1, <4>2
    <3> QED BY <1>4, <3>1
  <2> HIDE DEF u
  <2> QED BY <1>4, <2>1, <2>2 DEF Table
<1> HIDE DEF u, task
<1>8. \A s \in Slots : Occupied(u, s) <=> s + 1 \in DOMAIN jobs
  BY <1>3, <1>6 DEF Occupied, Empty
<1>9. \A s \in CmdSlots : u.tasks[s] = Empty
  BY <1>2, <1>6, Segments
<1>10. Segmented(u)
  <2>1. \A s \in FuncSlots : u.tasks[s].type \in {"NONE", "FUNC"}
    BY <1>3, <1>6, Segments DEF Empty
  <2>2. \A s \in CmdSlots : u.tasks[s].type \in {"NONE", "CMD"}
    BY <1>9 DEF Empty
  <2>3. \A s \in Slots : u.tasks[s].active => Occupied(u, s)
    BY <1>6, <1>8 DEF Empty
  <2> QED BY <2>1, <2>2, <2>3 DEF Segmented
<1>11. Consistent(u)
  <2>1. ASSUME NEW id \in Ids, u.idMap[id] # Null
        PROVE  Occupied(u, u.idMap[id]) /\ u.tasks[u.idMap[id]].id = id
    <3>1. u.idMap[id] \in slots(id)
      BY <1>4, <1>5, <2>1
    <3> QED BY <1>3, <1>6, <1>8, <3>1, Segments
  <2>2. ASSUME NEW s \in Slots, Occupied(u, s)
        PROVE  u.idMap[u.tasks[s].id] = s
    <3> DEFINE id == u.tasks[s].id
    <3>1. s + 1 \in DOMAIN jobs /\ id = jobs[s + 1].id /\ id \in Ids
      BY <1>3, <1>6, <1>8, <2>2
    <3>2. s \in slots(id)
      BY <1>2, <3>1
    <3>3. u.idMap[id] \in slots(id)
      BY <1>5, <3>1, <3>2
    <3> DEFINE r == u.idMap[id]
    <3>4. r + 1 = s + 1 /\ r \in FuncSlots
      BY <1>1, <3>1, <3>3
    <3>5. r \in Int /\ s \in Int
      BY <3>4, Segments, SlotFacts
    <3>6. r = s
      <4> HIDE DEF r
      <4> QED BY <3>4, <3>5
    <3> QED BY <3>6
  <2> QED BY <2>1, <2>2 DEF Consistent
<1>12. Tidy(u)
  BY <1>6, <1>8 DEF Tidy
<1>13. OwnIds(u)
  BY <1>3, <1>6, <1>8, <1>9, Segments DEF OwnIds, Occupied, Empty
<1> QED BY <1>7, <1>9, <1>10, <1>11, <1>12, <1>13 DEF GoodTable, u

(* A load into a table without commands gives the commands in flash, found *)
(* by their ids.                                                           *)
LEMMA LoadFacts ==
  ASSUME IdsApart, NEW u, GoodTable(u), Tidy(u), OwnIds(u),
         \A s \in CmdSlots : ~Occupied(u, s),
         StoredGood, ImageTyped, image # NoImage
  PROVE  /\ GoodTable(Load(u)) /\ Tidy(Load(u)) /\ OwnIds(Load(u))
         /\ \A s \in CmdSlots : Load(u).tasks[s] = Stored[s]
<1> DEFINE v == Load(u)
           slots(id) == {s \in Restored(u) : image[s].id = id}
<1>1. /\ image \in [CmdSlots -> Task] /\ Stored = image
      /\ u.tasks \in [Slots -> Task] /\ u.idMap \in [Ids -> Slots \cup {Null}]
  BY DEF ImageTyped, Stored, GoodTable, Table
<1>2. /\ v.tasks = [s \in Slots |-> IF s \in Restored(u) THEN image[s] ELSE u.tasks[s]]
      /\ v.idMap = [id \in Ids |-> IF slots(id) = {} THEN u.idMap[id]
                                   ELSE CHOOSE s \in slots(id) : \A r \in slots(id) : r <= s]
      /\ v = [tasks |-> v.tasks, idMap |-> v.idMap]
  BY DEF Load
<1>3. Restored(u) = {s \in CmdSlots : image[s].type = "CMD"}
  BY <1>1 DEF Restored, StoredGood
<1>4. \A s \in CmdSlots : v.tasks[s] = image[s]
  <2> SUFFICES ASSUME NEW s \in CmdSlots PROVE v.tasks[s] = image[s]
    OBVIOUS
  <2>1. CASE s \in Restored(u)
    BY <1>2, <2>1, Segments
  <2>2. CASE s \notin Restored(u)
    <3>1. image[s].type = "NONE"
      BY <1>1, <1>3, <2>2 DEF StoredGood
    <3>2. image[s] = Empty /\ u.tasks[s] = Empty
      BY <1>1, <3>1, Segments DEF StoredGood, Tidy
    <3> QED BY <1>2, <2>2, <3>2, Segments
  <2> QED BY <2>1, <2>2
<1>5. \A s \in FuncSlots : v.tasks[s] = u.tasks[s]
  BY <1>2, <1>3, Segments
<1>6. \A id \in Ids : \A s \in slots(id) : v.idMap[id] = s
  <2> SUFFICES ASSUME NEW id \in Ids, NEW s \in slots(id) PROVE v.idMap[id] = s
    OBVIOUS
  <2>1. slots(id) = {s}
    BY <1>1, <1>3 DEF StoredGood
  <2>2. s <= s
    BY <1>3, Segments
  <2>3. (CHOOSE m \in slots(id) : \A r \in slots(id) : r <= m) = s
    BY <2>1, <2>2
  <2> QED BY <1>2, <2>1, <2>3
<1>7. \A id \in Ids : slots(id) = {} => v.idMap[id] = u.idMap[id]
  BY <1>2
<1>8. v \in Table
  <2>1. v.tasks \in [Slots -> Task]
    <3>1. \A s \in Slots : v.tasks[s] \in Task
      BY <1>1, <1>4, <1>5, SlotFacts
    <3> QED BY <1>2, <3>1
  <2>2. v.idMap \in [Ids -> Slots \cup {Null}]
    <3>1. \A id \in Ids : v.idMap[id] \in Slots \cup {Null}
      BY <1>1, <1>3, <1>6, <1>7, Segments
    <3> QED BY <1>2, <3>1
  <2> HIDE DEF v
  <2> QED BY <1>2, <2>1, <2>2 DEF Table
<1> HIDE DEF v
<1>9. Segmented(v)
  BY <1>1, <1>4, <1>5, SlotFacts DEF Segmented, GoodTable, StoredGood, Occupied
<1>10. Tidy(v)
  BY <1>1, <1>4, <1>5, SlotFacts DEF Tidy, StoredGood, Occupied
<1>11. OwnIds(v)
  BY <1>1, <1>4, <1>5 DEF OwnIds, StoredGood, Occupied
<1>12. Consistent(v)
  <2>1. ASSUME NEW id \in Ids, v.idMap[id] # Null
        PROVE  Occupied(v, v.idMap[id]) /\ v.tasks[v.idMap[id]].id = id
    <3>1. CASE slots(id) = {}
      <4> DEFINE s == u.idMap[id]
      <4>1. v.idMap[id] = s /\ s # Null
        BY <1>7, <2>1, <3>1
      <4>2. s \in Slots /\ Occupied(u, s) /\ u.tasks[s].id = id
        BY <1>1, <4>1 DEF GoodTable, Consistent
      <4>3. s \in FuncSlots
        BY <4>2, SlotFacts
      <4> HIDE DEF s
      <4> QED BY <1>5, <4>1, <4>2, <4>3 DEF Occupied
    <3>2. CASE slots(id) # {}
      <4>1. PICK s \in slots(id) : v.idMap[id] = s
        BY <1>6, <3>2
      <4> QED BY <1>3, <1>4, <4>1 DEF Occupied
    <3> QED BY <3>1, <3>2
  <2>2. ASSUME NEW s \in Slots, Occupied(v, s)
        PROVE  v.idMap[v.tasks[s].id] = s
    <3> DEFINE id == v.tasks[s].id
    <3>1. id \in Ids
      <4>1. v.tasks[s] \in Task
        BY <1>8 DEF Table
      <4> QED BY <4>1 DEF Task
    <3>2. CASE s \in FuncSlots
      <4>1. Occupied(u, s) /\ u.tasks[s].id = id
        BY <1>5, <2>2, <3>2 DEF Occupied
      <4>2. ~CmdId(id)
        BY <3>1, <3>2, <4>1 DEF IdsApart, OwnIds
      <4>3. slots(id) = {}
        BY <1>1, <1>3, <4>2 DEF StoredGood
      <4>4. u.idMap[id] = s
        BY <4>1 DEF GoodTable, Consistent
      <4> QED BY <1>7, <3>1, <4>3, <4>4
    <3>3. CASE s \in CmdSlots
      <4>1. s \in slots(id)
        BY <1>1, <1>3, <1>4, <2>2, <3>3 DEF StoredGood, Occupied
      <4> QED BY <1>6, <3>1, <4>1
    <3> QED BY <3>2, <3>3, SlotFacts
  <2> QED BY <2>1, <2>2 DEF Consistent
<1> QED BY <1>1, <1>4, <1>8, <1>9, <1>10, <1>11, <1>12 DEF GoodTable, v

(* A load finds the commands in flash, or nothing that is missing in RAM.  *)
LEMMA LoadMirrors ==
  ASSUME IdsApart, PInv, Loads, NEW time \in Int, NEW w, w = RefreshAll(tab, clock, time)
  PROVE  /\ GoodTable(Load(w)) /\ Tidy(Load(w)) /\ OwnIds(Load(w))
         /\ \A s \in CmdSlots : Kept(Load(w).tasks[s]) = Kept(Stored[s])
<1>1. GoodTable(tab) /\ Tidy(tab) /\ OwnIds(tab) /\ clock \in Int
  BY GoodNow DEF PInv
<1>2. GoodTable(w) /\ Tidy(w) /\ OwnIds(w)
  BY <1>1, RefreshGood, RefreshKept, DescendsKeeps
<1>3. \A s \in Slots : Kept(w.tasks[s]) = Kept(tab.tasks[s]) /\ w.tasks[s].type = tab.tasks[s].type
  BY <1>1, RefreshKept
<1>4. CASE Unloaded
  <2>1. \A s \in CmdSlots : ~Occupied(w, s)
    BY <1>3, <1>4, Segments DEF Unloaded, NoCommands, Occupied
  <2> QED BY <1>2, <2>1, LoadFacts DEF PInv, Loads
<1>5. CASE Mirrors
  <2>1. \A s \in CmdSlots : Kept(w.tasks[s]) = Kept(Stored[s])
    BY <1>3, <1>5, Segments DEF Mirrors
  <2>2. Restored(w) = {}
    <3>1. \A s \in CmdSlots : w.tasks[s].type = image[s].type
      BY <2>1 DEF Kept, Stored, Loads
    <3> QED BY <3>1 DEF Restored, Occupied
  <2>3. Load(w) = [tasks |-> [s \in Slots |-> w.tasks[s]], idMap |-> [id \in Ids |-> w.idMap[id]]]
    BY <2>2 DEF Load
  <2>4. Load(w) = w
    BY <1>2, <2>3 DEF GoodTable, Table
  <2> QED BY <1>2, <2>1, <2>4
<1> QED BY <1>4, <1>5 DEF PInv

LEMMA PSetTimeKeeps ==
  ASSUME IdsApart, PInv, NEW time \in 0 .. MaxTime, PSetTime(time)
  PROVE  PInv'
<1> DEFINE w == RefreshAll(tab, clock, time)
<1>1. /\ GoodTable(tab) /\ Tidy(tab) /\ OwnIds(tab) /\ clock \in Int /\ time \in Int
      /\ slot \in Slots /\ loopNow \in Int
  BY GoodNow, JobsAssumption DEF PInv
<1>2. /\ Called /\ sets < MaxSets /\ sets' = sets + 1 /\ clock' = time
      /\ image' = image /\ execs' = execs /\ owed' = owed
  BY DEF PSetTime
<1>3. execs' \in [CmdSlots -> Nat] /\ owed' \in [CmdSlots -> Nat]
  BY <1>2 DEF PInv
<1>4. \A s \in CmdSlots : InProgress(s)' = InProgress(s)
  BY <1>2, CalledStays, Segments
<1>5. CASE Loads
  <2>1. /\ tab' = Load(w) /\ loaded' = TRUE
        /\ runs' = [s \in Slots |-> IF s \in Restored(tab) THEN 0 ELSE runs[s]]
        /\ budget' = [s \in Slots |->
                        IF s \in Restored(tab) THEN image[s].reps ELSE budget[s]]
    BY <1>5 DEF PSetTime
  <2>2. /\ GoodTable(tab') /\ Tidy(tab') /\ OwnIds(tab')
        /\ \A s \in CmdSlots : Kept(tab'.tasks[s]) = Kept(Stored[s])
    BY <1>1, <1>5, <2>1, LoadMirrors
  <2>3. IInv'
    <3>1. clock' \in 0 .. MaxTime /\ sets' \in 0 .. MaxSets
      BY <1>2, JobsAssumption DEF PInv, IInv, TypeOK
    <3>2. /\ pc' \in {"idle", "scan", "body", "func", "after"}
          /\ slot' \in Slots /\ loopNow' \in 0 .. MaxTime
      BY <1>2 DEF Called, Idle, PInv, IInv, TypeOK
    <3>3. runs' \in [Slots -> Nat]
      BY <2>1 DEF PInv, IInv, TypeOK
    <3>4. budget' \in [Slots -> 0 .. RepsInfinite]
      <4>1. \A s \in Restored(tab) : image[s].reps \in 0 .. RepsInfinite
        BY <1>5, StoredTyped DEF Restored, Stored, Loads
      <4> QED BY <2>1, <4>1 DEF PInv, IInv, TypeOK
    <3>5. tab' \in Table /\ Segmented(tab)' /\ Consistent(tab)'
      BY <2>2 DEF GoodTable, Segmented, Consistent, Occupied
    <3> QED BY <3>1, <3>2, <3>3, <3>4, <3>5 DEF IInv, TypeOK, IdMapConsistent
  <2>4. Stored' = Stored /\ ImageTyped' /\ StoredGood'
    BY <1>2, StoreStays DEF PInv
  <2>5. Mirrors'
    BY <2>2, <2>4 DEF Mirrors, Kept
  <2>6. StoredOwed'
    BY <1>2, <1>3, <1>4, <2>4, SameBalance
  <2> QED BY <1>3, <2>1, <2>2, <2>3, <2>4, <2>5, <2>6, StepKeeps DEF FlashInv
<1>6. CASE ~Loads
  <2>1. SetTime(time) /\ Next /\ tab' = w /\ loaded' = loaded
    BY <1>6 DEF PSetTime, SetTime, Next, Call
  <2>2. IInv'
    BY <2>1, StepGoodNow
  <2>3. /\ Tidy(tab') /\ OwnIds(tab')
        /\ \A s \in CmdSlots : Kept(tab'.tasks[s]) = Kept(tab.tasks[s])
    BY <1>1, <2>1, RefreshKept, DescendsKeeps, Segments
  <2> QED BY <1>2, <1>3, <1>4, <2>1, <2>2, <2>3, CalledStays, NoFlushKeeps
<1> QED BY <1>5, <1>6

(* A reset leaves the commands in flash, and owes the run it cut short.    *)
LEMMA RebootKeeps == ASSUME PInv, NEW jobs \in BootJobs, Reboot(jobs) PROVE PInv'
<1>1. /\ GoodTable(tab') /\ Tidy(tab') /\ OwnIds(tab')
      /\ \A s \in CmdSlots : tab'.tasks[s] = Empty
  BY BootedFacts DEF Reboot
<1>2. /\ image' = image /\ execs' = execs /\ loaded' = FALSE
      /\ pc' = "idle" /\ slot' = 0 /\ clock' = 0 /\ loopNow' = 0 /\ sets' = sets
      /\ execs \in [CmdSlots -> Nat] /\ owed \in [CmdSlots -> Nat]
  BY DEF Reboot, PInv
<1>3. owed' \in [CmdSlots -> Nat]
  BY <1>2 DEF Reboot
<1>4. IInv'
  <2>1. runs' \in [Slots -> Nat]
    BY DEF Reboot
  <2>2. budget' \in [Slots -> 0 .. RepsInfinite]
    <3>1. \A s \in Slots : Booted(jobs).tasks[s] \in Task
      BY BootedFacts DEF GoodTable, Table
    <3>2. \A s \in Slots : Booted(jobs).tasks[s].reps \in 0 .. RepsInfinite
      BY <3>1 DEF Task
    <3> QED BY <3>2 DEF Reboot
  <2>3. tab' \in Table /\ Segmented(tab)' /\ Consistent(tab)'
    BY <1>1 DEF GoodTable, Segmented, Consistent, Occupied
  <2> QED BY <1>2, <2>1, <2>2, <2>3, SlotFacts, JobsAssumption
          DEF PInv, IInv, TypeOK, IdMapConsistent
<1>5. Stored' = Stored /\ ImageTyped' /\ StoredGood'
  BY <1>2, StoreStays DEF PInv
<1>6. Unloaded'
  BY <1>1, <1>2 DEF Unloaded, NoCommands, Occupied, Empty, InRun
<1>7. StoredOwed'
  <2>1. ASSUME NEW s \in CmdSlots
        PROVE  execs'[s] - owed'[s] - InProgress(s)' = execs[s] - owed[s] - InProgress(s)
    <3>1. InProgress(s)' = 0 /\ execs[s] \in Nat /\ owed[s] \in Nat
      BY <1>2 DEF InProgress, Executing, InRun
    <3>2. owed'[s] = owed[s] + InProgress(s)
      BY <1>2 DEF Reboot, InProgress, Executing
    <3>3. InProgress(s) \in Int
      BY DEF InProgress
    <3> QED BY <1>2, <3>1, <3>2, <3>3
  <2> QED BY <1>2, <1>3, <1>5, <2>1, SameBalance
<1> QED BY <1>1, <1>2, <1>3, <1>4, <1>5, <1>6, <1>7, StepKeeps DEF FlashInv

-----------------------------------------------------------------------------
LEMMA InitPInv == PInit => PInv
<1> SUFFICES ASSUME PInit PROVE PInv
  OBVIOUS
<1>1. PICK jobs \in BootJobs :
        tab = Booted(jobs) /\ budget = [s \in Slots |-> Booted(jobs).tasks[s].reps]
  BY DEF PInit
<1>2. /\ GoodTable(tab) /\ Tidy(tab) /\ OwnIds(tab)
      /\ \A s \in CmdSlots : tab.tasks[s] = Empty
  BY <1>1, BootedFacts
<1>3. budget \in [Slots -> 0 .. RepsInfinite]
  <2>1. \A s \in Slots : tab.tasks[s] \in Task
    BY <1>2 DEF GoodTable, Table
  <2>2. \A s \in Slots : tab.tasks[s].reps \in 0 .. RepsInfinite
    BY <2>1 DEF Task
  <2> QED BY <1>1, <2>2
<1>4. IInv
  BY <1>2, <1>3, SlotFacts, JobsAssumption DEF PInit, IInv, TypeOK, IdMapConsistent, GoodTable
<1>5. image = NoImage /\ \A s \in CmdSlots : Stored[s] = Empty
  BY DEF PInit, Stored
<1>6. StoredGood
  BY <1>5, EmptyTask DEF StoredGood, Empty
<1>7. Mirrors /\ StoredOwed
  BY <1>2, <1>5 DEF Mirrors, StoredOwed, Balances, Empty
<1> QED BY <1>2, <1>4, <1>5, <1>6, <1>7 DEF PInit, PInv, ImageTyped

LEMMA StepPInv == IdsApart /\ PInv /\ [PNext]_pvars => PInv'
<1> SUFFICES ASSUME IdsApart, PInv, [PNext]_pvars PROVE PInv'
  OBVIOUS
<1>1. CASE PCall
  BY <1>1, PScheduleCmdKeeps, PDescheduleKeeps, PRescheduleKeeps, PUpdateKeeps, PClearKeeps,
     PSetTimeKeeps DEF PCall
<1>2. CASE (StartScan \/ Skip \/ Tick) /\ UNCHANGED flashVars
  BY <1>2, ScanKeeps
<1>3. CASE PBegin
  BY <1>3, PBeginKeeps
<1>4. CASE PFinish
  BY <1>4, PFinishKeeps
<1>5. CASE \E jobs \in BootJobs : Reboot(jobs)
  BY <1>5, RebootKeeps
<1>6. CASE UNCHANGED pvars
  <2>1. [Next]_vars
    BY <1>6 DEF pvars
  <2>2. IInv' /\ Tidy(tab) /\ OwnIds(tab)
    BY <2>1, StepGoodNow
  <2>3. /\ tab' = tab /\ image' = image /\ loaded' = loaded /\ execs' = execs /\ owed' = owed
        /\ pc' = pc /\ slot' = slot
        /\ execs \in [CmdSlots -> Nat] /\ owed \in [CmdSlots -> Nat]
    BY <1>6 DEF pvars, vars, flashVars, PInv
  <2>4. \A s \in CmdSlots : InProgress(s)' = InProgress(s)
    BY <2>3 DEF InProgress, Executing, InRun
  <2>5. InRun' = InRun
    BY <2>3 DEF InRun
  <2> QED BY <2>2, <2>3, <2>4, <2>5, NoFlushKeeps
<1> QED BY <1>1, <1>2, <1>3, <1>4, <1>5, <1>6 DEF PNext

(* Every operation that touches a command flushes it: flash never lags     *)
(* behind RAM, if no command has the id of a function task.                *)
THEOREM FlashAlwaysMirrors == ASSUME IdsApart PROVE PSpec => []FlashMirrorsTable
<1>1. PInv => FlashMirrorsTable
  BY DEF PInv, Mirrors, Unloaded, NoCommands, Stored, FlashMirrorsTable
<1>2. PInv /\ [PNext]_pvars => PInv'
  BY StepPInv
<1> QED BY InitPInv, <1>1, <1>2, PTL DEF PSpec

(* A command runs as often as it was asked to, whatever resets come in     *)
(* between; only a run that a reset cut short is repeated.                 *)
THEOREM AlwaysAccounted == ASSUME IdsApart PROVE PSpec => []AccountedAcrossResets
<1>1. PInv => AccountedAcrossResets
  <2> SUFFICES ASSUME PInv, NEW s \in CmdSlots, Occupied(tab, s),
                      tab.tasks[s].reps # RepsInfinite
               PROVE  Left(tab.tasks[s].reps) + execs[s] = owed[s] + InProgress(s)
    BY DEF AccountedAcrossResets, Left, InProgress
  <2> QED BY TableBalances DEF Balances, Occupied
<1>2. PInv /\ [PNext]_pvars => PInv'
  BY StepPInv
<1> QED BY InitPInv, <1>1, <1>2, PTL DEF PSpec

BootsBounded == boots \in 0 .. MaxBoots

LEMMA BootsStayBounded == BootsBounded /\ [PNext]_pvars => BootsBounded'
<1> SUFFICES ASSUME boots \in 0 .. MaxBoots, [PNext]_pvars PROVE boots' \in 0 .. MaxBoots
  BY DEF BootsBounded
<1>1. ASSUME NEW jobs \in BootJobs, Reboot(jobs) PROVE boots' \in 0 .. MaxBoots
  BY <1>1, BootAssumption DEF Reboot
<1>2. CASE PCall
  BY <1>2 DEF PCall, PScheduleCmd, PDeschedule, PReschedule, PUpdate, PClear, PSetTime, SameBoot
<1> QED BY <1>1, <1>2 DEF PNext, PBegin, PFinish, SameBoot, flashVars, pvars

(* The scheduler of the upper computer keeps its types and its id map,     *)
(* through loads and resets too.                                           *)
THEOREM PTypeCorrect == ASSUME IdsApart PROVE PSpec => [](PTypeOK /\ IdMapConsistent)
<1>1. PInit => PInv /\ BootsBounded
  BY InitPInv, BootAssumption DEF PInit, BootsBounded
<1>2. PInv /\ BootsBounded /\ [PNext]_pvars => PInv' /\ BootsBounded'
  BY StepPInv, BootsStayBounded
<1>3. PInv /\ BootsBounded => PTypeOK /\ IdMapConsistent
  BY DEF PInv, IInv, ImageTyped, PTypeOK, BootsBounded
<1> QED BY <1>1, <1>2, <1>3, PTL DEF PSpec
=============================================================================
