----------------------------- MODULE OpsStages -----------------------------
(***************************************************************************)
(* The operations stages of the mission, as the Upper PPM drives them:     *)
(* system_init, system_ops_transition_safe, system_ops_deploy and the      *)
(* scheduled reset (UPPM main.c, housekeeping.c), the commands of the      *)
(* ground on the configuration (cmdimpl.c), and flashmgr's configuration   *)
(* record as FlashJournal shows it to behave: the last one written, or a   *)
(* corrupt one after a loss of power in the middle of a flush.             *)
(***************************************************************************)
EXTENDS Naturals

CONSTANTS Waits,        \* deploy_time, in ticks of the model (45 min in the defaults)
          DefaultWait,  \* the deploy_time of flashmgr_config_load_defaults
          ResetPeriod,  \* ticks from a boot to the reset that hk_init schedules
          BootLimit,    \* boots after which system_init leaves OPS_INIT (100)
          MaxTries,     \* flushes system_ops_transition_safe tries (5)
          MaxGround,    \* bound: commands from the ground
          MaxHarm,      \* bound: unplanned resets and refused flushes
          None,         \* a task that is not scheduled
          Corrupt       \* a record with a wrong CRC

ASSUME OpsAssumption ==
    /\ Waits \subseteq Nat \ {0} /\ DefaultWait \in Waits
    /\ ResetPeriod \in Nat \ {0} /\ BootLimit \in Nat /\ MaxTries \in Nat \ {0}
    /\ MaxGround \in Nat /\ MaxHarm \in Nat
    /\ None \notin Nat /\ Corrupt \notin [stage : {"INIT", "SAFE", "NOMINAL"}, wait : Waits]

Stages  == {"INIT", "SAFE", "NOMINAL"}
Configs == [stage : Stages, wait : Waits]
Default == [stage |-> "SAFE", wait |-> DefaultWait]

VARIABLES flash,     \* the last configuration record
          cfg,       \* g_flashmgr.config
          boots,     \* rbt_cnt
          uptime,    \* ticks since the boot
          safeAt,    \* the release of system_ops_transition_safe, or None
          deployAt,  \* the release of system_ops_deploy, or None
          running,   \* g_superloop_running
          tries,     \* flushes of the transition in progress, or None
          burns,     \* whether eps_burn was sent
          ghost      \* history: [planned, longest, lost, ground, harm]

vars == <<flash, cfg, boots, uptime, safeAt, deployAt, running, tries, burns, ghost>>

\* flashmgr_config_load_flash: the fields of a corrupt record are what they are.
Loaded(record) == IF record = Corrupt THEN Configs ELSE {record}

\* flashmgr_config_flush over the record old: written, or refused, which is harm.
Flush(record, old, history) ==
    \/ flash' = record /\ ghost' = history
    \/ /\ history.harm < MaxHarm
       /\ flash' = old /\ ghost' = [history EXCEPT !.harm = @ + 1]

Restored(record) == IF record = Corrupt THEN Default ELSE record

\* Mutant: the counter of the boots is not looked at.
OverdueNever(count, config) == FALSE

\* system_init: "Force switch to OPS_SAFE if we're still in OPS_INIT after 100 reboots".
Overdue(count, config) == count > BootLimit /\ config.stage = "INIT"

\* Mutant: the case of OPS_INIT falls through as well.
PlannedFallsThrough(config) ==
    /\ safeAt' = IF config.stage = "INIT" THEN config.wait ELSE None
    /\ deployAt' = IF config.stage # "NOMINAL" THEN 1 ELSE None

\* system_init's switch: the tasks of the stage.
Planned(config) ==
    /\ safeAt' = IF config.stage = "INIT" THEN config.wait ELSE None
    /\ deployAt' = IF config.stage = "SAFE" THEN 1 ELSE None

\* system_init, once flashmgr_init has counted the boot and read the record.
Boot(record, history) ==
    LET count  == IF boots > BootLimit THEN boots ELSE boots + 1
        config == Restored(record)
    IN  /\ boots' = count /\ uptime' = 0 /\ running' = TRUE /\ tries' = None
        /\ IF Overdue(count, config)
           THEN /\ cfg' = [config EXCEPT !.stage = "SAFE"]
                /\ Flush(cfg', record, history)
           ELSE cfg' = config /\ flash' = record /\ ghost' = history
        /\ Planned(cfg')
        /\ UNCHANGED burns

\* Launch: OPS_INIT has been stored, and the first boot is to come.
Init ==
    /\ \E w \in Waits : /\ flash = [stage |-> "INIT", wait |-> w]
                        /\ ghost = [planned |-> w, longest |-> 0, lost |-> FALSE,
                                    ground |-> 0, harm |-> 0]
    /\ cfg = Default /\ boots = 0 /\ uptime = 0
    /\ safeAt = None /\ deployAt = None /\ running = FALSE /\ tries = None
    /\ burns = FALSE

ResetDue  == running /\ uptime = ResetPeriod
SafeDue   == safeAt # None /\ uptime >= safeAt
DeployDue == deployAt # None /\ uptime >= deployAt
TaskDue   == ResetDue \/ SafeDue \/ DeployDue

Tick ==
    /\ running /\ tries = None /\ ~TaskDue
    /\ uptime' = uptime + 1
    /\ ghost' = [ghost EXCEPT !.longest = IF @ > uptime THEN @ ELSE uptime + 1]
    /\ UNCHANGED <<flash, cfg, boots, safeAt, deployAt, running, tries, burns>>

\* hk_ppm_reset.  The scan goes on to the tasks after it.
ScheduledReset ==
    /\ tries = None /\ ResetDue
    /\ running' = FALSE
    /\ UNCHANGED <<flash, cfg, boots, uptime, safeAt, deployAt, tries, burns, ghost>>

StartTransition ==
    /\ tries = None /\ SafeDue
    /\ tries' = 0 /\ safeAt' = None
    /\ UNCHANGED <<flash, cfg, boots, uptime, deployAt, running, burns, ghost>>

\* Mutant: what was flushed is not read back.
TryTransitionUnread ==
    LET wanted == [cfg EXCEPT !.stage = "SAFE"]
    IN  /\ tries # None
        /\ Flush(wanted, flash, ghost) /\ cfg' = wanted
        /\ tries' = None /\ running' = FALSE
        /\ UNCHANGED <<boots, uptime, safeAt, deployAt, burns>>

\* Mutant: one round more.
TryTransitionOneMore ==
    LET wanted == [cfg EXCEPT !.stage = "SAFE"]
    IN  /\ tries # None
        /\ Flush(wanted, flash, ghost)
        /\ cfg' \in Loaded(flash')
        /\ IF cfg'.stage = "SAFE" \/ tries = MaxTries
           THEN tries' = None /\ running' = FALSE
           ELSE tries' = tries + 1 /\ UNCHANGED running
        /\ UNCHANGED <<boots, uptime, safeAt, deployAt, burns>>

\* One round of the loop in system_ops_transition_safe, and its end.
TryTransition ==
    LET wanted == [cfg EXCEPT !.stage = "SAFE"]
    IN  /\ tries # None
        /\ Flush(wanted, flash, ghost)
        /\ cfg' \in Loaded(flash')
        /\ IF cfg'.stage = "SAFE" \/ tries + 1 = MaxTries
           THEN tries' = None /\ running' = FALSE
           ELSE tries' = tries + 1 /\ UNCHANGED running
        /\ UNCHANGED <<boots, uptime, safeAt, deployAt, burns>>

\* system_ops_deploy: eps_burn to the EPS.
Deploy ==
    /\ tries = None /\ DeployDue
    /\ burns' = TRUE /\ deployAt' = None
    /\ UNCHANGED <<flash, cfg, boots, uptime, safeAt, running, tries, ghost>>

\* system_cleanup at the end of the iteration in which the superloop is left.
Restart ==
    /\ ~running /\ tries = None /\ ~TaskDue
    /\ Boot(flash, ghost)

\* cfg_set_ops, cfg_set_dpltm, cfg_load_dfl, cfg_load_flash, cfg_flush, ppm_reset.
GroundCommand ==
    /\ running /\ tries = None /\ ghost.ground < MaxGround
    /\ LET heard == [ghost EXCEPT !.ground = @ + 1]
       IN  \/ \E s \in Stages : /\ cfg' = [cfg EXCEPT !.stage = s]
                                /\ Flush(cfg', flash, heard) /\ UNCHANGED running
           \/ \E w \in Waits : /\ cfg' = [cfg EXCEPT !.wait = w]
                               /\ ghost' = heard /\ UNCHANGED <<flash, running>>
           \/ cfg' = Default /\ ghost' = heard /\ UNCHANGED <<flash, running>>
           \/ cfg' \in Loaded(flash) /\ ghost' = heard /\ UNCHANGED <<flash, running>>
           \/ Flush(cfg, flash, heard) /\ UNCHANGED <<cfg, running>>
           \/ running' = FALSE /\ ghost' = heard /\ UNCHANGED <<cfg, flash>>
    /\ UNCHANGED <<boots, uptime, safeAt, deployAt, tries, burns>>

\* The watchdog or a loss of power, which tears a record that is being flushed:
\* by the transition, by system_init, or for a command of the ground.
Flushing == tries # None \/ (uptime = 0 /\ boots > BootLimit) \/ ghost.ground > 0
UnplannedReset ==
    /\ boots > 0 /\ ghost.harm < MaxHarm
    /\ \/ Boot(flash, [ghost EXCEPT !.harm = @ + 1])
       \/ Flushing /\ Boot(Corrupt, [ghost EXCEPT !.harm = @ + 1, !.lost = TRUE])

System == \/ Tick \/ ScheduledReset \/ StartTransition \/ TryTransition
          \/ Deploy \/ Restart
Next == System \/ GroundCommand \/ UnplannedReset

\* The superloop runs, and time passes.
Spec == Init /\ [][Next]_vars /\ WF_vars(System)

TypeOK ==
    /\ flash \in Configs \cup {Corrupt} /\ cfg \in Configs
    /\ boots \in 0 .. BootLimit + 1 /\ uptime \in 0 .. ResetPeriod
    /\ safeAt \in Waits \cup {None} /\ deployAt \in {1, None}
    /\ running \in BOOLEAN /\ burns \in BOOLEAN
    /\ tries \in (0 .. MaxTries - 1) \cup {None}
    /\ ghost \in [planned : Waits, longest : 0 .. ResetPeriod, lost : BOOLEAN,
                  ground : 0 .. MaxGround, harm : 0 .. MaxHarm]

\* The antennas are not deployed before the satellite was up, in one piece,
\* for the time stored at launch; unless it rebooted more often than the
\* limit, its configuration was lost (the defaults are OPS_SAFE), or the
\* ground has intervened (system_init, flashmgr_config_load_defaults).
DeployOnlyAfterWait ==
    burns => \/ ghost.longest >= ghost.planned
             \/ boots > BootLimit \/ ghost.lost \/ ghost.ground > 0

\* A transition that ends has stored OPS_SAFE, unless every one of its
\* flushes was refused: reading the record back is what notices a refused one
\* (system_ops_transition_safe).
StoredOrTriedOut ==
    [][tries # None /\ tries' = None /\ ~running' =>
          \/ flash' # Corrupt /\ flash'.stage = "SAFE"
          \/ tries + 1 = MaxTries]_vars

\* The antennas are deployed in the end, also if the stored time is longer
\* than the reset period and no boot lasts that long, unless the ground has
\* intervened (the limit on the boots in system_init).
EventuallyDeploys == <>(burns \/ ghost.ground > 0)
============================================================================
