-------------------------- MODULE OpsStagesProofs --------------------------
(***************************************************************************)
(* Proofs about the operations stages, for every wait, reset period, limit *)
(* on the boots and number of tries, and any number of commands, resets    *)
(* and refused flushes.                                                    *)
(***************************************************************************)
EXTENDS OpsStages, TLAPS

\* A reason to deploy never goes away again.
Reason == \/ ghost.longest >= ghost.planned
          \/ boots > BootLimit \/ ghost.lost \/ ghost.ground > 0

\* Without a reason the configuration in flash is that of the launch, and the
\* only task of a stage is the transition after the wait it holds.
AtLaunch ==
    /\ flash = [stage |-> "INIT", wait |-> ghost.planned]
    /\ safeAt \in {None, ghost.planned} /\ deployAt = None /\ tries = None
    /\ ~burns /\ uptime <= ghost.longest

\* The defaults, which replace a corrupt record at the boot, are OPS_SAFE: no
\* transition runs while the record is corrupt.
CorruptIdle == flash = Corrupt => safeAt = None /\ tries = None

IInv == TypeOK /\ (Reason \/ AtLaunch) /\ CorruptIdle

\* The history after a boot has at most one more refused flush in it.
LEMMA FlushFacts ==
    ASSUME NEW record, NEW old, NEW history, Flush(record, old, history)
    PROVE  /\ flash' \in {record, old}
           /\ \/ ghost' = history
              \/ history.harm < MaxHarm /\ ghost' = [history EXCEPT !.harm = @ + 1]
  BY DEF Flush

History == [planned : Waits, longest : 0 .. ResetPeriod, lost : BOOLEAN,
            ground : 0 .. MaxGround, harm : 0 .. MaxHarm]

\* A history with one more harm in it is a history with the same past.
LEMMA HarmFacts ==
    ASSUME NEW h \in History, h.harm < MaxHarm
    PROVE  LET g == [h EXCEPT !.harm = @ + 1]
           IN  /\ g \in History /\ g.planned = h.planned /\ g.longest = h.longest
               /\ g.lost = h.lost /\ g.ground = h.ground
  BY OpsAssumption DEF History

\* A boot from a record, with a history that takes over the past.
LEMMA BootFacts ==
    ASSUME TypeOK, NEW record \in Configs \cup {Corrupt}, NEW h \in History, Boot(record, h)
    PROVE  /\ TypeOK' /\ CorruptIdle'
           /\ ghost'.planned = h.planned /\ ghost'.longest = h.longest
           /\ ghost'.lost = h.lost /\ ghost'.ground = h.ground
           /\ boots' >= boots /\ uptime' = 0 /\ tries' = None /\ burns' = burns
           /\ boots' <= BootLimit /\ record # Corrupt /\ record.stage = "INIT"
                => flash' = record /\ safeAt' = record.wait /\ deployAt' = None
<1> DEFINE config == Restored(record)
<1>1. config \in Configs
  BY OpsAssumption DEF Restored, Default, Configs, Stages
<1>2. cfg' \in Configs /\ (flash' = record \/ flash' = cfg')
  BY <1>1, FlushFacts DEF Boot, Configs, Stages
<1>3. /\ ghost' \in History
      /\ ghost'.planned = h.planned /\ ghost'.longest = h.longest
      /\ ghost'.lost = h.lost /\ ghost'.ground = h.ground
  <2>1. ghost' = h \/ (h.harm < MaxHarm /\ ghost' = [h EXCEPT !.harm = @ + 1])
    BY FlushFacts DEF Boot
  <2> QED
    BY <2>1, HarmFacts
<1>4. /\ safeAt' = IF cfg'.stage = "INIT" THEN cfg'.wait ELSE None
      /\ deployAt' = IF cfg'.stage = "SAFE" THEN 1 ELSE None
  BY DEF Boot, Planned
<1>5. /\ boots' = IF boots > BootLimit THEN boots ELSE boots + 1
      /\ uptime' = 0 /\ tries' = None /\ running' = TRUE /\ burns' = burns
  BY DEF Boot
<1>6. boots' \in 0 .. BootLimit + 1 /\ boots' >= boots
  BY <1>5, OpsAssumption DEF TypeOK
<1>7. TypeOK'
  <2>1. safeAt' \in Waits \cup {None} /\ deployAt' \in {1, None}
    BY <1>2, <1>4 DEF Configs
  <2> QED
    BY <1>2, <1>3, <1>5, <1>6, <2>1, OpsAssumption DEF TypeOK, History
<1>8. CorruptIdle'
  <2>1. flash' = Corrupt => record = Corrupt
    BY <1>2, OpsAssumption DEF Configs, Stages
  <2>2. record = Corrupt => config.stage = "SAFE"
    BY DEF Restored, Default
  <2>3. config.stage = "SAFE" => cfg' = config
    BY DEF Boot, Overdue
  <2> QED
    BY <1>4, <1>5, <2>1, <2>2, <2>3 DEF CorruptIdle
<1>9. ASSUME boots' <= BootLimit, record # Corrupt, record.stage = "INIT"
      PROVE  flash' = record /\ safeAt' = record.wait /\ deployAt' = None
  <2>1. config = record
    BY <1>9 DEF Restored
  <2>2. ~(boots' > BootLimit)
    BY <1>9, <1>6, OpsAssumption
  <2>3. cfg' = record /\ flash' = record
    BY <2>1, <2>2, <1>5 DEF Boot, Overdue
  <2> QED
    BY <1>4, <1>9, <2>3
<1> QED
  BY <1>3, <1>5, <1>6, <1>7, <1>8, <1>9

\* A boot from the record in flash, or from one that was torn, which leaves the
\* loss in the history.
LEMMA BootIInv ==
    ASSUME IInv, NEW record \in Configs \cup {Corrupt}, NEW h \in History, Boot(record, h),
           h.planned = ghost.planned, h.longest = ghost.longest, h.ground = ghost.ground,
           ghost.lost => h.lost, h.lost \/ record = flash
    PROVE  IInv'
<1>1. TypeOK /\ TypeOK' /\ CorruptIdle'
  BY BootFacts DEF IInv
<1>2. CASE Reason
  BY <1>1, <1>2, BootFacts, OpsAssumption DEF IInv, Reason, TypeOK
<1>3. CASE h.lost
  BY <1>1, <1>3, BootFacts DEF IInv, Reason
<1>4. CASE AtLaunch /\ record = flash
  <2>1. record.stage = "INIT" /\ record.wait = ghost.planned /\ record # Corrupt
    BY <1>1, <1>4, OpsAssumption DEF AtLaunch, TypeOK
  <2>2. CASE boots' > BootLimit
    BY <1>1, <2>2 DEF IInv, Reason
  <2>3. CASE ~(boots' > BootLimit)
    <3>1. boots' <= BootLimit
      BY <1>1, <2>3, OpsAssumption DEF TypeOK
    <3>2. flash' = record /\ safeAt' = record.wait /\ deployAt' = None
      BY <1>1, <2>1, <3>1, BootFacts
    <3>3. AtLaunch'
      BY <1>1, <1>4, <2>1, <3>2, BootFacts DEF AtLaunch, TypeOK
    <3> QED
      BY <1>1, <3>3 DEF IInv
  <2> QED
    BY <2>2, <2>3
<1> QED
  BY <1>2, <1>3, <1>4 DEF IInv

LEMMA InitIInv == Init => IInv
<1> SUFFICES ASSUME Init PROVE IInv
  OBVIOUS
<1>1. PICK w \in Waits : /\ flash = [stage |-> "INIT", wait |-> w]
                         /\ ghost = [planned |-> w, longest |-> 0, lost |-> FALSE,
                                     ground |-> 0, harm |-> 0]
  BY DEF Init
<1>2. /\ flash \in Configs /\ flash # Corrupt
      /\ flash = [stage |-> "INIT", wait |-> ghost.planned]
  BY <1>1, OpsAssumption DEF Configs, Stages
<1>3. ghost \in History /\ ghost.longest = 0
  BY <1>1, OpsAssumption DEF History
<1>4. cfg \in Configs
  BY OpsAssumption DEF Init, Default, Configs, Stages
<1>5. TypeOK
  <2>1. boots \in 0..BootLimit + 1 /\ uptime \in 0..ResetPeriod
    BY OpsAssumption DEF Init
  <2>2. /\ safeAt = None /\ deployAt = None /\ tries = None
        /\ running = FALSE /\ burns = FALSE
    BY DEF Init
  <2>3. ghost \in [planned : Waits, longest : 0 .. ResetPeriod, lost : BOOLEAN,
                   ground : 0 .. MaxGround, harm : 0 .. MaxHarm]
    BY <1>3 DEF History
  <2> QED
    BY <1>2, <1>3, <1>4, <2>1, <2>2, <2>3 DEF TypeOK
<1>6. AtLaunch /\ CorruptIdle
  BY <1>2, <1>3 DEF Init, AtLaunch, CorruptIdle
<1> QED
  BY <1>5, <1>6 DEF IInv

LEMMA TickIInv == ASSUME IInv, Tick PROVE IInv'
<1>1. TypeOK'
  BY OpsAssumption DEF IInv, TypeOK, Tick, TaskDue, ResetDue
<1>2. (Reason \/ AtLaunch)'
  BY OpsAssumption DEF IInv, TypeOK, Tick, Reason, AtLaunch
<1> QED
  BY <1>1, <1>2 DEF IInv, CorruptIdle, Tick

LEMMA ScheduledResetIInv == ASSUME IInv, ScheduledReset PROVE IInv'
  BY DEF IInv, TypeOK, ScheduledReset, Reason, AtLaunch, CorruptIdle

\* The wait is over: here a reason arises.
LEMMA StartTransitionIInv == ASSUME IInv, StartTransition PROVE IInv'
<1>1. TypeOK'
  BY OpsAssumption DEF IInv, TypeOK, StartTransition
<1>2. Reason'
  <2>1. CASE Reason
    BY <2>1 DEF Reason, StartTransition
  <2>2. CASE AtLaunch
    BY <2>2, OpsAssumption DEF AtLaunch, StartTransition, SafeDue, IInv, TypeOK, Reason
  <2> QED
    BY <2>1, <2>2 DEF IInv
<1>3. CorruptIdle'
  BY DEF IInv, CorruptIdle, StartTransition, SafeDue
<1> QED
  BY <1>1, <1>2, <1>3 DEF IInv

LEMMA TryTransitionIInv == ASSUME IInv, TryTransition PROVE IInv'
<1>1. [cfg EXCEPT !.stage = "SAFE"] \in Configs /\ flash \in Configs
  BY DEF IInv, TypeOK, CorruptIdle, TryTransition, Configs, Stages
<1>2. flash' \in Configs /\ cfg' \in Configs
  BY <1>1, FlushFacts, OpsAssumption DEF TryTransition, Loaded
<1>3. /\ ghost' \in History
      /\ ghost'.planned = ghost.planned /\ ghost'.longest = ghost.longest
      /\ ghost'.lost = ghost.lost /\ ghost'.ground = ghost.ground
  BY FlushFacts, HarmFacts DEF IInv, TypeOK, TryTransition, History
<1>4. tries' \in (0 .. MaxTries - 1) \cup {None} /\ running' \in BOOLEAN
  <2>1. tries \in 0 .. MaxTries - 1
    BY DEF IInv, TypeOK, TryTransition
  <2>2. \/ tries' = None /\ running' = FALSE
        \/ tries + 1 # MaxTries /\ tries' = tries + 1 /\ running' = running
    BY DEF TryTransition
  <2>3. tries + 1 # MaxTries => tries + 1 \in 0 .. MaxTries - 1
    BY <2>1, OpsAssumption
  <2> QED
    BY <2>2, <2>3 DEF IInv, TypeOK
<1>5. TypeOK'
  BY <1>2, <1>3, <1>4 DEF IInv, TypeOK, TryTransition, History
<1>6. Reason /\ Reason'
  BY <1>3 DEF IInv, Reason, AtLaunch, TryTransition
<1>7. CorruptIdle'
  BY <1>2, OpsAssumption DEF CorruptIdle, Configs, Stages
<1> QED
  BY <1>5, <1>6, <1>7 DEF IInv

LEMMA DeployIInv == ASSUME IInv, Deploy PROVE IInv'
<1>1. Reason /\ Reason'
  BY DEF IInv, Reason, AtLaunch, Deploy, DeployDue
<1> QED
  BY <1>1 DEF IInv, TypeOK, CorruptIdle, Deploy

LEMMA GroundIInv == ASSUME IInv, GroundCommand PROVE IInv'
<1> DEFINE heard == [ghost EXCEPT !.ground = @ + 1]
<1>1. heard \in History /\ heard.ground > 0
  BY OpsAssumption DEF IInv, TypeOK, GroundCommand, History
<1>2. ghost' \in History /\ ghost'.ground > 0
  <2>1. ghost' = heard \/ (heard.harm < MaxHarm /\ ghost' = [heard EXCEPT !.harm = @ + 1])
    BY FlushFacts DEF GroundCommand
  <2> QED
    BY <1>1, <2>1, HarmFacts
<1>3. cfg' \in Configs
  <2>1. cfg \in Configs /\ Default \in Configs /\ Loaded(flash) \subseteq Configs
    BY OpsAssumption DEF IInv, TypeOK, Default, Loaded, Configs, Stages
  <2>2. \/ \E st \in Stages : cfg' = [cfg EXCEPT !.stage = st]
        \/ \E w \in Waits : cfg' = [cfg EXCEPT !.wait = w]
        \/ cfg' = Default \/ cfg' \in Loaded(flash) \/ cfg' = cfg
    BY DEF GroundCommand
  <2>3. ASSUME NEW st \in Stages PROVE [cfg EXCEPT !.stage = st] \in Configs
    BY <2>1 DEF Configs
  <2>4. ASSUME NEW w \in Waits PROVE [cfg EXCEPT !.wait = w] \in Configs
    BY <2>1 DEF Configs
  <2> QED
    BY <2>1, <2>2, <2>3, <2>4
<1>4. flash' = flash \/ flash' = cfg'
  BY FlushFacts DEF GroundCommand
<1>5. TypeOK'
  BY <1>2, <1>3, <1>4 DEF IInv, TypeOK, GroundCommand, History
<1>6. CorruptIdle'
  <2>1. flash' = Corrupt => flash = Corrupt
    BY <1>3, <1>4, OpsAssumption DEF Configs, Stages
  <2>2. safeAt' = safeAt /\ tries' = tries
    BY DEF GroundCommand
  <2> QED
    BY <2>1, <2>2 DEF IInv, CorruptIdle
<1> QED
  BY <1>2, <1>5, <1>6 DEF IInv, Reason

LEMMA RestartIInv == ASSUME IInv, Restart PROVE IInv'
<1>1. ghost \in History /\ flash \in Configs \cup {Corrupt} /\ ghost.lost \in BOOLEAN
  BY DEF IInv, TypeOK, History
<1> QED
  BY <1>1, BootIInv DEF Restart

LEMMA UnplannedResetIInv == ASSUME IInv, UnplannedReset PROVE IInv'
<1> DEFINE h1 == [ghost EXCEPT !.harm = @ + 1]
           h2 == [ghost EXCEPT !.harm = @ + 1, !.lost = TRUE]
<1>1. /\ ghost \in History /\ flash \in Configs \cup {Corrupt} /\ ghost.harm < MaxHarm
  BY DEF IInv, TypeOK, UnplannedReset, History
<1>2. CASE Boot(flash, h1)
  BY <1>1, <1>2, HarmFacts, BootIInv
<1>3. CASE Boot(Corrupt, h2)
  <2>1. /\ h2 \in History /\ h2.planned = ghost.planned /\ h2.longest = ghost.longest
        /\ h2.ground = ghost.ground /\ h2.lost
    <3>1. h2 = [h1 EXCEPT !.lost = TRUE]
      BY <1>1 DEF History
    <3>2. /\ h1 \in History /\ h1.planned = ghost.planned
          /\ h1.longest = ghost.longest /\ h1.ground = ghost.ground
      BY <1>1, HarmFacts
    <3>3. ASSUME NEW h \in History
          PROVE  LET g == [h EXCEPT !.lost = TRUE]
                 IN  /\ g \in History /\ g.planned = h.planned /\ g.longest = h.longest
                     /\ g.ground = h.ground /\ g.lost
      BY DEF History
    <3> QED
      BY <3>1, <3>2, <3>3
  <2> QED
    BY <1>1, <1>3, <2>1, BootIInv
<1> QED
  BY <1>2, <1>3 DEF UnplannedReset

LEMMA NextIInv == IInv /\ [Next]_vars => IInv'
<1> SUFFICES ASSUME IInv, [Next]_vars PROVE IInv'
  OBVIOUS
<1>1. CASE UNCHANGED vars
  BY <1>1 DEF vars, IInv, TypeOK, Reason, AtLaunch, CorruptIdle
<1> QED
  BY <1>1, TickIInv, ScheduledResetIInv, StartTransitionIInv, TryTransitionIInv, DeployIInv,
     RestartIInv, GroundIInv, UnplannedResetIInv
  DEF Next, System

LEMMA Inductive == Spec => []IInv
  BY InitIInv, NextIInv, PTL DEF Spec

\* The state of the mission keeps its types.
THEOREM OpsTyped == Spec => []TypeOK
<1>1. IInv => TypeOK
  BY DEF IInv
<1> QED
  BY <1>1, Inductive, PTL

\* The antennas are not deployed without a reason.
THEOREM NoEarlyDeployment == Spec => []DeployOnlyAfterWait
<1>1. IInv => DeployOnlyAfterWait
  BY DEF IInv, Reason, AtLaunch, DeployOnlyAfterWait
<1> QED
  BY <1>1, Inductive, PTL

\* A transition never ends for a record that was refused, but for the last try.
THEOREM TransitionStores == Spec => StoredOrTriedOut
<1> DEFINE A == tries # None /\ tries' = None /\ ~running' =>
                   \/ flash' # Corrupt /\ flash'.stage = "SAFE"
                   \/ tries + 1 = MaxTries
<1>1. IInv /\ [Next]_vars => [A]_vars
  <2> SUFFICES ASSUME IInv, Next, tries # None, tries' = None, ~running',
                      tries + 1 # MaxTries
               PROVE  flash' # Corrupt /\ flash'.stage = "SAFE"
    OBVIOUS
  <2>1. TryTransition
    BY DEF Next, System, Tick, ScheduledReset, StartTransition, Deploy, Restart, Boot,
           GroundCommand, UnplannedReset
  <2>2. [cfg EXCEPT !.stage = "SAFE"] \in Configs /\ flash \in Configs
    BY DEF IInv, TypeOK, CorruptIdle, Configs, Stages
  <2>3. flash' \in Configs /\ flash' # Corrupt
    BY <2>1, <2>2, FlushFacts, OpsAssumption DEF TryTransition, Configs, Stages
  <2>4. cfg' = flash' /\ cfg'.stage = "SAFE"
    <3>1. tries + 1 # None
      BY OpsAssumption DEF IInv, TypeOK
    <3>2. cfg'.stage = "SAFE"
      BY <2>1, <3>1 DEF TryTransition
    <3> QED
      BY <2>1, <2>3, <3>2 DEF TryTransition, Loaded
  <2> QED
    BY <2>3, <2>4
<1> QED
  BY <1>1, Inductive, PTL DEF Spec, StoredOrTriedOut
============================================================================
