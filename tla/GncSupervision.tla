-------------------------- MODULE GncSupervision --------------------------
(***************************************************************************)
(* Who may turn the satellite: the planner of the Lower PPM (gnc.c) drives *)
(* the modes of the magnetorquer unit (MTQ, adcsmtq.c) through registers   *)
(* that are read and written over a serial line, and the Upper PPM enables *)
(* or disables the planner by the power the EPS reports                    *)
(* (system_ops_check_eps), from telemetry it polled up to 10 s before.     *)
(*                                                                         *)
(* The periodic tasks are actions that may happen at any time, with one    *)
(* assumption on time: an exchange takes less than the period of the task  *)
(* that starts it (milliseconds on a line, tasks of 5 s and more).         *)
(***************************************************************************)
EXTENDS Naturals, Sequences

CONSTANTS GroundModes,   \* MTQ modes the ground sets directly
          MaxGround,     \* bound: commands of the ground
          MaxHarm        \* bound: lost frames, restarts, the MTQ's own changes of mode

GncModes == {"SAFE", "AUTO", "MANUAL", "OFF"}
MtqModes == {"SAFE", "DETUMBLING", "SUN_SPIN", "POINTING", "MANUAL"}

ASSUME GncAssumption == GroundModes \subseteq MtqModes /\ MaxGround \in Nat /\ MaxHarm \in Nat

Keep == "KEEP"      \* the planner sends no mode

Frames == [type : {"SET"}, mode : MtqModes, own : BOOLEAN]
          \cup [type : {"READ", "REBOOT"}, mode : {Keep}, own : BOOLEAN]
Orders == [by : {"GS", "EPS"}, mode : GncModes]

VARIABLES power,     \* eps_mode >= 1 on the EPS
          tlmPower,  \* g_tlm.eps_mode >= 1 on the UPPM
          tlmGnc,    \* g_tlm.gnc_mode on the UPPM
          toLppm,    \* Seq(Orders), gnc_set_mode on its way, from the ground or check_eps
          gncMode, expectedMode,   \* g_gnc on the LPPM
          stat,      \* MTQ_STAT in the LPPM's table, [mode, calm]: calm is sun and no tumb
          allowComm, \* g_mtq.allow_comm
          slot7,     \* id 7 of the LPPM's scheduler: "free", mtq_reset_part2 (due, or "stopped"
                     \* as descheduled), or another task
          line,      \* Seq(Frames), on their way to the MTQ; own: those of gnc_step
          mode, calm, \* the MTQ
          ground, harm,  \* history: commands of the ground, harm
          touched,       \* history: whether the ground used the MTQ
          barred         \* history: whether the ground's use of id 7 keeps communication off

uppm == <<tlmPower, tlmGnc>>
lppm == <<gncMode, expectedMode, stat, allowComm, slot7>>
mtq  == <<line, mode>>
env  == <<power, calm>>
hist == <<ground, harm, touched, barred>>
vars == <<uppm, toLppm, lppm, mtq, env, hist>>

Read(own)     == [type |-> "READ", mode |-> Keep, own |-> own]
Reboot        == [type |-> "REBOOT", mode |-> Keep, own |-> FALSE]
SetTo(m, own) == [type |-> "SET", mode |-> m, own |-> own]
OwnUnderWay   == \E i \in DOMAIN line : line[i].own
Under(by)     == \E i \in DOMAIN toLppm : toLppm[i].by = by

Init ==
    /\ power \in BOOLEAN /\ calm \in BOOLEAN
    /\ tlmPower = FALSE /\ tlmGnc = "SAFE" /\ toLppm = <<>>
    /\ gncMode = "SAFE" /\ expectedMode = "SAFE"
    /\ stat = [mode |-> "SAFE", calm |-> FALSE]
    /\ allowComm = FALSE /\ slot7 = "part2" /\ line = <<Reboot>>   \* mtq_init
    /\ mode = "SAFE"
    /\ ground = 0 /\ harm = 0 /\ touched = FALSE /\ barred = FALSE

(*************************** The Upper PPM *********************************)
\* hk_update_tlm and both cmdimpl_tlm_get_data: the answers of the EPS and of
\* the LPPM, one of which may be lost.  A request that waits behind an order is
\* this action after that order.
UpdateTlm(epsHeard, lppmHeard) ==
    /\ tlmPower' = IF epsHeard THEN power ELSE tlmPower
    /\ tlmGnc' = IF lppmHeard THEN gncMode ELSE tlmGnc
    /\ UNCHANGED <<toLppm, lppm, mtq>>
Poll == UpdateTlm(TRUE, TRUE) /\ UNCHANGED <<env, hist>>

\* Mutant: "In manual off state" is not looked at.
OrderIgnoresOff(eps, gnc) ==
    CASE eps /\ gnc = "SAFE"   -> {"AUTO"}
      [] ~eps /\ gnc # "SAFE"  -> {"SAFE"}
      [] OTHER                 -> {}

\* Mutant: at critical power only the automatic mode is left.
OrderKeepsManual(eps, gnc) ==
    CASE eps /\ gnc = "SAFE"   -> {"AUTO"}
      [] ~eps /\ gnc = "AUTO"  -> {"SAFE"}
      [] OTHER                 -> {}

\* What system_ops_check_eps orders.
Order(eps, gnc) ==
    CASE gnc = "OFF"                        -> {}
      [] eps /\ gnc = "SAFE"                -> {"AUTO"}
      [] ~eps /\ gnc \in {"AUTO", "MANUAL"} -> {"SAFE"}
      [] OTHER                              -> {}

CheckEps ==
    /\ ~Under("EPS")
    /\ \E m \in Order(tlmPower, tlmGnc) : toLppm' = Append(toLppm, [by |-> "EPS", mode |-> m])
    /\ UNCHANGED <<uppm, lppm, mtq, env, hist>>

(*************************** The Lower PPM *********************************)
\* cmdimpl_gnc_set_mode
TakeOrder ==
    /\ toLppm # <<>>
    /\ toLppm' = Tail(toLppm) /\ gncMode' = Head(toLppm).mode
    /\ UNCHANGED <<uppm, expectedMode, stat, allowComm, slot7, mtq, env, hist>>

\* Mutant: a reset that meets the task of the one before cancels it.
ResetCancels ==
    /\ line' = IF allowComm THEN Append(line, Reboot) ELSE line
    /\ allowComm' = FALSE
    /\ slot7' = CASE slot7 = "free" -> "part2" [] slot7 = "part2" -> "free" [] OTHER -> slot7

\* mtq_reset: a task with id 7 that is already there makes its scheduling fail.
Reset ==
    /\ line' = IF allowComm THEN Append(line, Reboot) ELSE line
    /\ allowComm' = FALSE
    /\ slot7' = IF slot7 = "free" THEN "part2" ELSE slot7

\* History: the ground has put another task in the way of this reset, or
\* descheduled the task of the one before.
Bar == barred' = (slot7 \in {"other", "stopped"})

\* Mutant: one bit more than the mode has.
ParsedModeWide(s) == IF s.calm THEN "8" ELSE s.mode

\* mtq_stat_parse_mode
ParsedMode(s) == s.mode

\* Mutant: the mode is not read back.
SetModeUnread(m, own) == line' = Append(line, SetTo(m, own))

\* mtq_set_mode
SetMode(m, own) == line' = line \o <<SetTo(m, own), Read(own)>>

\* Mutant: in MANUAL the planner does nothing on its return to AUTO.
PlanLeavesManual(current, sun) ==
    CASE gncMode = "SAFE" /\ current # "SAFE"         -> {"SAFE"}
      [] gncMode = "MANUAL" /\ current # "MANUAL"     -> {"MANUAL"}
      [] gncMode = "AUTO" /\ current \in {"SAFE", "DETUMBLING"} /\ sun -> {"SUN_SPIN"}
      [] gncMode = "AUTO" /\ current = "SAFE" /\ ~sun -> {"DETUMBLING", Keep}
      [] OTHER                                        -> {Keep}

\* The modes gnc_step may set.  Whether the satellite turns too fast to be
\* detumbled is left open.
Plan(current, sun) ==
    CASE gncMode = "SAFE" /\ current # "SAFE"           -> {"SAFE"}
      [] gncMode = "MANUAL" /\ current # "MANUAL"       -> {"MANUAL"}
      [] gncMode = "AUTO" /\ current \in {"SAFE", "DETUMBLING", "MANUAL"} /\ sun -> {"SUN_SPIN"}
      [] gncMode = "AUTO" /\ current = "SAFE" /\ ~sun   -> {"DETUMBLING", Keep}
      [] gncMode = "AUTO" /\ current = "MANUAL" /\ ~sun -> {"DETUMBLING"}
      [] OTHER                                          -> {Keep}

\* gnc_step.  The MTQ had time to take the mode of the step before.
GncStep ==
    /\ allowComm /\ ~OwnUnderWay
    /\ LET current == ParsedMode(stat)
       IN  \/ /\ current = "SAFE" /\ expectedMode # "SAFE"
              /\ expectedMode' = "SAFE"
              /\ Reset /\ Bar
           \/ /\ ~(current = "SAFE" /\ expectedMode # "SAFE")
              /\ \E m \in Plan(current, stat.calm) :
                    IF m = Keep THEN expectedMode' = current /\ UNCHANGED line
                                ELSE expectedMode' = m /\ SetMode(m, TRUE)
              /\ UNCHANGED <<allowComm, slot7, barred>>
    /\ UNCHANGED <<uppm, toLppm, gncMode, stat, mode, env, ground, harm, touched>>

\* hk_read_sensors
ReadSensors ==
    /\ allowComm /\ line = <<>>
    /\ line' = <<Read(FALSE)>>
    /\ UNCHANGED <<uppm, toLppm, lppm, mode, env, hist>>

\* mtq_reset_part2, 10 s after the reset.  The time, the axis and the orbit it
\* writes do not concern the modes.
ResetPart2 ==
    /\ slot7 = "part2" /\ line = <<>>
    /\ slot7' = "free" /\ allowComm' = TRUE
    /\ UNCHANGED <<uppm, toLppm, gncMode, expectedMode, stat, mtq, env, hist>>

(***************************** The MTQ *************************************)
\* The MTQ does as the next frame says; its answer to a read is parsed by
\* mtq_parse_stream and mtq_read_complete.
MtqServes ==
    /\ line # <<>>
    /\ line' = Tail(line)
    /\ LET f == Head(line)
       IN  CASE f.type = "SET"    -> mode' = f.mode /\ UNCHANGED stat
             [] f.type = "REBOOT" -> mode' = "SAFE" /\ UNCHANGED stat
             [] f.type = "READ"   -> stat' = [mode |-> mode, calm |-> calm] /\ UNCHANGED mode
    /\ UNCHANGED <<uppm, toLppm, gncMode, expectedMode, allowComm, slot7, env, hist>>

(***************** The ground, the environment, what goes wrong ************)
Sky ==
    /\ \/ power' = ~power /\ UNCHANGED calm
       \/ calm' = ~calm /\ UNCHANGED power
    /\ UNCHANGED <<uppm, toLppm, lppm, mtq, hist>>

\* gnc_set_mode, forwarded by the UPPM.
GroundSetsGnc(m) ==
    /\ ground < MaxGround /\ ground' = ground + 1
    /\ toLppm' = Append(toLppm, [by |-> "GS", mode |-> m])
    /\ UNCHANGED <<uppm, lppm, mtq, env, harm, touched, barred>>

\* mtq_set_mode, mtq_reset
GroundUsesMtq ==
    /\ ground < MaxGround /\ ground' = ground + 1 /\ touched' = TRUE
    /\ \/ /\ allowComm
          /\ \E m \in GroundModes : SetMode(m, FALSE)
          /\ UNCHANGED <<allowComm, slot7, barred>>
       \/ Reset /\ Bar
    /\ UNCHANGED <<uppm, toLppm, gncMode, expectedMode, stat, mode, env, harm>>

\* ppm_sched_cmd, ppm_clear_sched and ppm_desched
UseId7 ==
    /\ ground < MaxGround /\ ground' = ground + 1
    /\ \/ slot7 = "free" /\ slot7' = "other" /\ UNCHANGED barred
       \/ slot7 = "part2" /\ slot7' \in {"free", "stopped"} /\ barred' = TRUE
    /\ UNCHANGED <<uppm, toLppm, gncMode, expectedMode, stat, allowComm, mtq, env, harm, touched>>

\* What was done to id 7 ends or is undone: the last repetition of the other
\* task, ppm_clear_sched, and ppm_resched.
LeaveId7 ==
    /\ \/ slot7 \in {"other", "stopped"} /\ slot7' = "free" /\ UNCHANGED barred
       \/ slot7 = "stopped" /\ slot7' = "part2" /\ barred' = FALSE
    /\ UNCHANGED <<uppm, toLppm, gncMode, expectedMode, stat, allowComm, mtq, env>>
    /\ UNCHANGED <<ground, harm, touched>>

LineFault ==
    /\ line # <<>> /\ line' = Tail(line)
    /\ UNCHANGED <<uppm, toLppm, lppm, mode, barred>>
LinkFault ==
    /\ \/ toLppm # <<>> /\ toLppm' = Tail(toLppm) /\ UNCHANGED <<uppm, lppm, mtq>>
       \/ UpdateTlm(FALSE, TRUE)
       \/ UpdateTlm(TRUE, FALSE)
    /\ UNCHANGED barred
Drift ==
    /\ mode' \in {"SAFE", "DETUMBLING"}
    /\ UNCHANGED <<uppm, toLppm, lppm, line, barred>>
UppmRestart ==
    /\ tlmPower' = FALSE /\ tlmGnc' = "SAFE"
    /\ UNCHANGED <<toLppm, lppm, mtq, barred>>
\* gnc_init and mtq_init
LppmRestart ==
    /\ toLppm' = <<>>
    /\ gncMode' = "SAFE" /\ expectedMode' = "SAFE"
    /\ stat' = [mode |-> "SAFE", calm |-> FALSE]
    /\ allowComm' = FALSE /\ slot7' = "part2" /\ barred' = FALSE
    /\ line' = Append(SelectSeq(line, LAMBDA f : f.type # "READ"), Reboot)
    /\ UNCHANGED <<uppm, mode>>
Harm ==
    /\ harm < MaxHarm /\ harm' = harm + 1
    /\ LineFault \/ LinkFault \/ Drift \/ UppmRestart \/ LppmRestart
    /\ UNCHANGED <<env, ground, touched>>

Next ==
    \/ Poll \/ CheckEps
    \/ TakeOrder \/ GncStep \/ ReadSensors \/ ResetPart2
    \/ MtqServes
    \/ (\E m \in GncModes : GroundSetsGnc(m)) \/ GroundUsesMtq
    \/ UseId7 \/ LeaveId7
    \/ Sky \/ Harm

\* Every task is periodic or due after 10 s and both superloops always run;
\* the MTQ serves its line.
Spec ==
    /\ Init /\ [][Next]_vars
    /\ WF_vars(Poll) /\ WF_vars(CheckEps)
    /\ WF_vars(TakeOrder) /\ WF_vars(GncStep) /\ WF_vars(ReadSensors)
    /\ WF_vars(ResetPart2) /\ WF_vars(MtqServes)

TypeOK ==
    /\ power \in BOOLEAN /\ tlmPower \in BOOLEAN /\ calm \in BOOLEAN
    /\ tlmGnc \in GncModes /\ gncMode \in GncModes
    /\ toLppm \in Seq(Orders) /\ line \in Seq(Frames)
    /\ expectedMode \in MtqModes /\ mode \in MtqModes
    /\ stat \in [mode : MtqModes, calm : BOOLEAN]
    /\ allowComm \in BOOLEAN /\ slot7 \in {"free", "part2", "stopped", "other"}
    /\ ground \in 0 .. MaxGround /\ harm \in 0 .. MaxHarm
    /\ touched \in BOOLEAN /\ barred \in BOOLEAN

\* The MTQ is not rebooted, 10 s without attitude control, for a mode that the
\* planner itself has brought about: only for a lost frame, a change of the
\* MTQ's own, a restart, or after the ground used the MTQ directly (gnc_step).
ResetsJustified == [][allowComm /\ ~allowComm' => harm' > 0 \/ touched']_vars

\* Once OFF has reached the telemetry of the UPPM, and nothing older is under
\* way, the planner stays OFF, at any power, until the ground sets another mode
\* or a PPM restarts ("In manual off state", system_ops_check_eps).
OffSettled == /\ gncMode = "OFF" /\ tlmGnc = "OFF"
              /\ ~Under("EPS") /\ ~Under("GS")
OffKept == [][OffSettled => OffSettled' \/ ground' > ground \/ harm' > harm]_vars

\* Communication with the MTQ comes back after every reset, of the planner, the
\* ground or a restart, also when a reset meets the task of the one before;
\* unless the ground cleared or descheduled the task that brings it back, or put
\* another one under its id before the reset.  Then it comes back after the next
\* reset that finds the id free (mtq_reset, mtq_reset_part2).
CommReturns == ~allowComm ~> (allowComm \/ barred)

\* If the power stays critical, the MTQ ends in SAFE, whatever mode the planner
\* was in and whatever was lost on the way, unless the planner is OFF or the
\* ground keeps communication off (system_ops_check_eps, gnc_step).
SafeWhenCritical ==
    <>[]~power => <>[](mode = "SAFE" \/ gncMode = "OFF" \/ barred)

\* If power and the sky stay good, the MTQ ends in SUN_SPIN, unless the ground
\* set a mode that the planner leaves alone, or keeps communication off.
SpinsWhenPowered ==
    <>[](power /\ calm) =>
        <>[](\/ mode \in {"SUN_SPIN", "POINTING"} \/ gncMode \in {"OFF", "MANUAL"}
             \/ barred)
============================================================================
