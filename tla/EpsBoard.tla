------------------------------ MODULE EpsBoard ------------------------------
(***************************************************************************)
(* The EPS and its switched outputs: the commands eps_sw, eps_sw_t and     *)
(* eps_rst_ctn (EPS cmdimpl.c), and what eps_superloop (EPS main.c) does   *)
(* once per tick: the supervision of the battery, the end of a timed       *)
(* switch, and the periodic restart of the board.  All of them share two   *)
(* counters that are compared for equality.                                *)
(*                                                                         *)
(* One timed switch can be outstanding: sw_flag, sw_number, sw_counter and *)
(* sw_end belong to the latest one.                                        *)
(***************************************************************************)
EXTENDS Naturals

CONSTANTS
  Channels,     \* switched outputs, 1 .. 6
  RestartAt,    \* ticks from restart to restart, 7200
  Wrap,         \* the counters are of type int16: 2^16
  MaxTime,      \* longest timed switch, 255
  MaxBoardCommands   \* bound: commands, unplanned restarts and losses of power

ASSUME EpsBoardAssumption ==
  /\ Channels \subseteq Nat \ {0}
  /\ RestartAt \in Nat /\ Wrap \in Nat /\ MaxTime \in Nat /\ MaxBoardCommands \in Nat
  /\ MaxTime + 1 < RestartAt /\ RestartAt < Wrap

VARIABLES
  on,             \* the outputs that are high
  eps_mode,
  counter_reset,
  sw_flag, sw_number, sw_counter, sw_end,
  age,            \* ghost: ticks since the outstanding timed switch was ordered
  late,           \* ghost: it was ordered, or the counter set, right before a restart
  why,            \* ghost: what each output is on for
  commands        \* ghost: how many there were

switch    == <<sw_flag, sw_number, sw_counter, sw_end, age, late>>
boardVars == <<on, eps_mode, counter_reset, switch, why, commands>>

Reasons == {"off", "order", "timed", "stranded"}
NoReason == [c \in Channels |-> "off"]

(* An output number that names no output is 0 here.                        *)
Outputs == Channels \cup {0}

BoardInit ==
  /\ on = {} /\ eps_mode = 3
  /\ counter_reset = 0
  /\ sw_flag = 0 /\ sw_number = 0 /\ sw_counter = 0 /\ sw_end = 0
  /\ age = 0 /\ late = FALSE /\ why = NoReason
  /\ commands = 0

Count == commands < MaxBoardCommands /\ commands' = commands + 1

-----------------------------------------------------------------------------
(* A state that is neither 0 nor 1 changes nothing.                        *)
EpsSwitch(output, state) ==
  /\ Count
  /\ output \in Channels /\ state \in {0, 1}
  /\ on'  = IF state = 1 THEN on \cup {output} ELSE on \ {output}
  /\ why' = [why EXCEPT ![output] = IF state = 1 THEN "order" ELSE "off"]
  /\ UNCHANGED <<eps_mode, counter_reset, switch>>

(* Whoever waited for the switch that is replaced waits forever.           *)
Reordered(output) ==
  [c \in Channels |-> IF c = output THEN "timed"
                      ELSE IF why[c] = "timed" THEN "stranded" ELSE why[c]]

(* mutant: sw_counter goes on from the switch before                       *)
EpsSwitchTimeGoesOn(output, time) ==
  /\ Count
  /\ sw_flag' = 1 /\ sw_number' = output /\ sw_end' = time
  /\ UNCHANGED sw_counter
  /\ on' = on \cup ({output} \cap Channels)
  /\ why' = Reordered(output)
  /\ age' = 0 /\ late' = (counter_reset = RestartAt - 1)
  /\ UNCHANGED <<eps_mode, counter_reset>>

(* The timer starts also for an output that there is not.                  *)
EpsSwitchTime(output, time) ==
  /\ Count
  /\ sw_flag' = 1 /\ sw_number' = output /\ sw_counter' = 0 /\ sw_end' = time
  /\ on' = on \cup ({output} \cap Channels)
  /\ why' = Reordered(output)
  /\ age' = 0 /\ late' = (counter_reset = RestartAt - 1)
  /\ UNCHANGED <<eps_mode, counter_reset>>

EpsRst(n) ==
  /\ Count
  /\ counter_reset' = n
  /\ late' = (late \/ (sw_flag = 1 /\ n = RestartAt - 1))
  /\ UNCHANGED <<on, eps_mode, sw_flag, sw_number, sw_counter, sw_end, age, why>>

-----------------------------------------------------------------------------
(* reset_cpu, and eps_init with its sw_off.  sw_counter and sw_end start   *)
(* uninitialized, and are not read before eps_sw_t sets them.              *)
Reboot ==
  /\ on' = {} /\ why' = NoReason
  /\ eps_mode' = 3 /\ counter_reset' = 0
  /\ sw_flag' = 0 /\ sw_number' = 0 /\ sw_counter' = 0 /\ sw_end' = 0
  /\ age' = 0 /\ late' = FALSE

(* eps_burn and eps_cut hold the superloop for 1000 * cut_time ms modulo   *)
(* 2^16, which may be longer than the 17 s of the watchdog; or power is    *)
(* lost.  A shorter burn leaves the state as it is.                        *)
UnplannedRestart == Count /\ Reboot

Inc(n) == IF n + 1 = Wrap THEN 0 ELSE n + 1

(* The battery and the bus as eps_housekeeping measures them: both below   *)
(* 6500 mV, with a battery ("empty") or without one that can be measured,  *)
(* the bus only with a battery below 7200 mV, or neither.                  *)
ModeAt == [empty |-> 0, absent |-> 0, low |-> 1, full |-> 2]
Powers == DOMAIN ModeAt

Expires == sw_flag = 1 /\ Inc(sw_counter) = sw_end

(* mutants: the restart is put off on every tick before it, or never       *)
CountedNever == IF Inc(counter_reset) = RestartAt - 1 THEN 0 ELSE Inc(counter_reset)
CountedAlways == Inc(counter_reset)

(* counter_reset after the tick; a timed switch that goes on holds the     *)
(* restart off.                                                            *)
Counted ==
  IF sw_flag = 1 /\ ~Expires /\ Inc(counter_reset) = RestartAt - 1
    THEN 0 ELSE Inc(counter_reset)

(* mutant: sw_number is zeroed before power_io                             *)
SwitchedOffZeroed(power) == IF power = "empty" THEN Channels ELSE {}

(* sw_off, and power_io(sw_number, 0) when its time has come.              *)
SwitchedOff(power) ==
  (IF Expires THEN {sw_number} ELSE {}) \cup (IF power = "empty" THEN Channels ELSE {})

Tick(power) ==
  /\ Counted # RestartAt
  /\ counter_reset' = Counted
  /\ eps_mode' = ModeAt[power]
  /\ on' = on \ SwitchedOff(power)
  /\ why' = [c \in Channels |-> IF c \in SwitchedOff(power) THEN "off" ELSE why[c]]
  /\ IF Expires
       THEN sw_flag' = 0 /\ sw_number' = 0 /\ age' = 0 /\ late' = FALSE
       ELSE /\ UNCHANGED <<sw_flag, sw_number, late>>
            /\ age' = IF sw_flag = 1 THEN age + 1 ELSE 0
  /\ sw_counter' = IF sw_flag = 1 THEN Inc(sw_counter) ELSE sw_counter
  /\ UNCHANGED <<sw_end, commands>>

Restart ==
  /\ Counted = RestartAt
  /\ Reboot
  /\ UNCHANGED commands

EpsSuperloop == Restart \/ \E power \in Powers : Tick(power)

Command ==
  \/ \E output \in Outputs : \/ \E state \in {0, 1} : EpsSwitch(output, state)
                             \/ \E time \in 0 .. MaxTime : EpsSwitchTime(output, time)
  \/ \E n \in 0 .. Wrap - 1 : EpsRst(n)

BoardNext == Command \/ EpsSuperloop \/ UnplannedRestart

BoardSpec == BoardInit /\ [][BoardNext]_boardVars /\ WF_boardVars(EpsSuperloop)

-----------------------------------------------------------------------------
BoardTypeOK ==
  /\ on \subseteq Channels /\ eps_mode \in 0 .. 3
  /\ counter_reset \in 0 .. Wrap - 1 /\ sw_counter \in 0 .. Wrap - 1
  /\ sw_flag \in {0, 1} /\ sw_number \in Outputs /\ sw_end \in 0 .. MaxTime
  /\ age \in Nat /\ late \in BOOLEAN
  /\ why \in [Channels -> Reasons] /\ commands \in 0 .. MaxBoardCommands

(* A timed switch ends at its time, and one of time 0 when the counter     *)
(* comes round, whatever is switched, set or ordered anew meanwhile.       *)
TimedEnds == sw_flag = 1 => age < (IF sw_end = 0 THEN Wrap ELSE sw_end)

(* An output is on because a plain order said so, or for a timed switch    *)
(* that is still outstanding for this very output, or because a later      *)
(* timed switch replaced the one that would have turned it off.            *)
OnForAReason ==
  /\ on = {c \in Channels : why[c] # "off"}
  /\ \A c \in Channels : why[c] = "timed" => sw_flag = 1 /\ sw_number = c

(* The periodic restart does not cut a timed switch short, unless the      *)
(* switch was ordered, or the counter set, on the last tick before it.     *)
SparesTimed == [][Restart /\ sw_flag = 1 => late]_boardVars

(* Once commands stop, the board keeps restarting periodically, wherever   *)
(* they left its counter and its timed switch.  Here they stop because of  *)
(* MaxBoardCommands: timed switches, or commands that set the counter, can *)
(* put the restart off for as long as they go on.                          *)
RestartsAgain == []<><<Restart>>_boardVars
=============================================================================
