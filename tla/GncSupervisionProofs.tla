------------------------ MODULE GncSupervisionProofs ------------------------
(***************************************************************************)
(* For any number of commands of the ground and of faults: the MTQ is not  *)
(* rebooted for a mode the planner brought about, and a planner that was   *)
(* turned off stays off.                                                   *)
(***************************************************************************)
EXTENDS GncSupervision, SequenceTheorems, TLAPS

(* What the planner thinks of the MTQ, while nothing went wrong and the    *)
(* ground did not use the MTQ: without communication the MTQ is in SAFE;   *)
(* with it, the task that brings it back is gone, and either no mode is    *)
(* under way and all three agree, or the expected mode is, and the last    *)
(* mode read is the one before.  The ground may use the id of the task.    *)
Quiet == harm = 0 /\ ~touched

Silent ==
  /\ line \in {<<>>, <<Reboot>>}
  /\ mode = "SAFE" /\ expectedMode = "SAFE" /\ stat.mode = "SAFE"

Agreed == line \in {<<>>, <<Read(FALSE)>>} /\ mode = expectedMode /\ stat.mode = mode

Ordered ==
  /\ line \in {<<SetTo(expectedMode, TRUE), Read(TRUE)>>,
               <<Read(FALSE), SetTo(expectedMode, TRUE), Read(TRUE)>>}
  /\ stat.mode = mode

Taken == line = <<Read(TRUE)>> /\ mode = expectedMode

Coherent ==
  /\ expectedMode \in MtqModes /\ mode \in MtqModes
  /\ stat \in [mode : MtqModes, calm : BOOLEAN] /\ calm \in BOOLEAN
  /\ allowComm \in BOOLEAN
  /\ ~allowComm => Silent
  /\ allowComm => slot7 \notin {"part2", "stopped"} /\ (Agreed \/ Ordered \/ Taken)

IInv ==
  /\ toLppm \in Seq(Orders) /\ gncMode \in GncModes /\ tlmGnc \in GncModes
  /\ ground \in Nat /\ harm \in Nat /\ touched \in BOOLEAN
  /\ Quiet => Coherent

LEMMA InitIInv == Init => IInv
<1> SUFFICES ASSUME Init PROVE IInv
  OBVIOUS
<1>1. toLppm \in Seq(Orders) /\ gncMode \in GncModes /\ tlmGnc \in GncModes
  BY DEF Init, GncModes
<1>2. ground \in Nat /\ harm \in Nat /\ touched \in BOOLEAN
  BY DEF Init
<1>3. Coherent
  BY DEF Init, Coherent, Silent, MtqModes
<1> QED BY <1>1, <1>2, <1>3 DEF IInv

(* Orders on their way to the Lower PPM.                                   *)
LEMMA OrderSent ==
  ASSUME toLppm \in Seq(Orders), NEW by \in {"GS", "EPS"}, NEW m \in GncModes
  PROVE  Append(toLppm, [by |-> by, mode |-> m]) \in Seq(Orders)
<1>1. [by |-> by, mode |-> m] \in Orders
  BY DEF Orders
<1> HIDE DEF Orders
<1> QED BY <1>1

LEMMA OrderTaken ==
  ASSUME toLppm \in Seq(Orders), toLppm # <<>>
  PROVE  Head(toLppm) \in Orders /\ Tail(toLppm) \in Seq(Orders) /\ Head(toLppm).mode \in GncModes
<1>1. Head(toLppm) \in Orders /\ Tail(toLppm) \in Seq(Orders)
  OBVIOUS
<1> QED BY <1>1 DEF Orders

(* The lines that the invariant names.                                     *)
LEMMA Lines ==
  ASSUME NEW a, NEW b, NEW c
  PROVE  /\ <<a>> # <<>> /\ <<a, b>> # <<>> /\ <<a, b, c>> # <<>>
         /\ Head(<<a>>) = a /\ Head(<<a, b>>) = a /\ Head(<<a, b, c>>) = a
         /\ Tail(<<a>>) = <<>> /\ Tail(<<a, b>>) = <<b>> /\ Tail(<<a, b, c>>) = <<b, c>>
<1>1. /\ <<a>> # <<>> /\ <<a, b>> # <<>> /\ <<a, b, c>> # <<>>
      /\ Head(<<a>>) = a /\ Head(<<a, b>>) = a /\ Head(<<a, b, c>>) = a
  OBVIOUS
<1>2. Tail(<<a>>) = <<>>
  OBVIOUS
<1>3. Tail(<<a, b>>) = <<b>>
  OBVIOUS
<1>4. Tail(<<a, b, c>>) = <<b, c>>
  OBVIOUS
<1> QED BY <1>1, <1>2, <1>3, <1>4

LEMMA Longer ==
  ASSUME NEW a, NEW b, NEW c
  PROVE  /\ <<>> \o <<b, c>> = <<b, c>>
         /\ <<a>> \o <<b, c>> = <<a, b, c>>
<1>1. <<>> \o <<b, c>> = <<b, c>>
  OBVIOUS
<1>2. <<a>> \o <<b, c>> = <<a, b, c>>
  <2> DEFINE S == {a, b, c}
  <2>1. <<a>> \in Seq(S) /\ <<b, c>> \in Seq(S) /\ <<a, b, c>> \in Seq(S)
    OBVIOUS
  <2>2. Len(<<a>>) = 1 /\ Len(<<b, c>>) = 2 /\ Len(<<a, b, c>>) = 3
    OBVIOUS
  <2>3. <<a>> \o <<b, c>> \in Seq(S) /\ Len(<<a>> \o <<b, c>>) = 3
    BY <2>1, <2>2, ConcatProperties
  <2>4. \A k \in 1 .. 3 : (<<a>> \o <<b, c>>)[k] = <<a, b, c>>[k]
    BY <2>1, <2>2, ConcatProperties
  <2> QED BY <2>1, <2>2, <2>3, <2>4, SeqEqual
<1> QED BY <1>1, <1>2

LEMMA Own ==
  ASSUME Coherent, allowComm, ~OwnUnderWay
  PROVE  Agreed
<1>1. ASSUME Ordered PROVE FALSE
  <2>1. CASE line = <<SetTo(expectedMode, TRUE), Read(TRUE)>>
    <3>1. 1 \in DOMAIN line /\ line[1].own
      BY <2>1 DEF SetTo
    <3> QED BY <3>1 DEF OwnUnderWay
  <2>2. CASE line = <<Read(FALSE), SetTo(expectedMode, TRUE), Read(TRUE)>>
    <3>1. 2 \in DOMAIN line /\ line[2].own
      BY <2>2 DEF SetTo
    <3> QED BY <3>1 DEF OwnUnderWay
  <2> QED BY <1>1, <2>1, <2>2 DEF Ordered
<1>2. ASSUME Taken PROVE FALSE
  <2>1. 1 \in DOMAIN line /\ line[1].own
    BY <1>2 DEF Taken, Read
  <2> QED BY <2>1 DEF OwnUnderWay
<1> QED BY <1>1, <1>2 DEF Coherent

LEMMA PlanModes ==
  ASSUME NEW current, NEW sun, NEW m \in Plan(current, sun)
  PROVE  m = Keep \/ m \in MtqModes
BY DEF Plan, MtqModes, Keep

(* The planner does not reset the MTQ by itself.                           *)
LEMMA StepCoherent ==
  ASSUME Coherent, GncStep
  PROVE  Coherent' /\ allowComm' = allowComm
<1>1. Agreed /\ allowComm = TRUE /\ slot7 \notin {"part2", "stopped"}
  BY Own DEF Coherent, GncStep
<1>2. ~(ParsedMode(stat) = "SAFE" /\ expectedMode # "SAFE")
  BY <1>1 DEF Agreed, ParsedMode
<1>3. /\ UNCHANGED <<allowComm, slot7, stat, mode, calm>>
      /\ \E m \in Plan(ParsedMode(stat), stat.calm) :
            IF m = Keep THEN expectedMode' = ParsedMode(stat) /\ UNCHANGED line
                        ELSE expectedMode' = m /\ SetMode(m, TRUE)
  BY <1>2 DEF GncStep, env
<1>4. PICK m \in Plan(ParsedMode(stat), stat.calm) :
            IF m = Keep THEN expectedMode' = ParsedMode(stat) /\ UNCHANGED line
                        ELSE expectedMode' = m /\ SetMode(m, TRUE)
  BY <1>3
<1>5. CASE m = Keep
  <2>1. UNCHANGED line /\ expectedMode' = expectedMode
    BY <1>1, <1>4, <1>5 DEF Agreed, ParsedMode
  <2> QED BY <1>1, <1>3, <2>1 DEF Coherent, Agreed
<1>6. CASE m # Keep
  <2>1. expectedMode' = m /\ m \in MtqModes /\ line' = line \o <<SetTo(m, TRUE), Read(TRUE)>>
    BY <1>4, <1>6, PlanModes DEF SetMode
  <2>2. line' \in {<<SetTo(m, TRUE), Read(TRUE)>>, <<Read(FALSE), SetTo(m, TRUE), Read(TRUE)>>}
    <3> DEFINE a == Read(FALSE)
               b == SetTo(m, TRUE)
               c == Read(TRUE)
    <3>1. (line = <<>> \/ line = <<a>>) /\ line' = line \o <<b, c>>
      BY <1>1, <2>1 DEF Agreed
    <3> HIDE DEF a, b, c
    <3>2. <<>> \o <<b, c>> = <<b, c>> /\ <<a>> \o <<b, c>> = <<a, b, c>>
      BY Longer, Zenon
    <3>3. line' \in {<<b, c>>, <<a, b, c>>}
      BY <3>1, <3>2
    <3> QED BY <3>3 DEF a, b, c
  <2>3. Ordered'
    <3>1. line' \in {<<SetTo(expectedMode', TRUE), Read(TRUE)>>,
                     <<Read(FALSE), SetTo(expectedMode', TRUE), Read(TRUE)>>}
      BY <2>1, <2>2
    <3>2. stat'.mode = mode'
      BY <1>1, <1>3 DEF Agreed
    <3> QED BY <3>1, <3>2 DEF Ordered, SetTo, Read
  <2> QED BY <1>1, <1>3, <2>1, <2>3 DEF Coherent
<1> QED BY <1>5, <1>6

LEMMA ServeCoherent ==
  ASSUME Coherent, MtqServes
  PROVE  Coherent' /\ allowComm' = allowComm
<1>1. /\ line # <<>> /\ line' = Tail(line)
      /\ UNCHANGED <<expectedMode, allowComm, slot7, calm>>
      /\ Head(line).type = "SET" => mode' = Head(line).mode /\ UNCHANGED stat
      /\ Head(line).type = "REBOOT" => mode' = "SAFE" /\ UNCHANGED stat
      /\ Head(line).type = "READ" => stat' = [mode |-> mode, calm |-> calm] /\ UNCHANGED mode
  BY DEF MtqServes, env
<1>2. CASE ~allowComm
  <2>1. line = <<Reboot>> /\ Silent
    BY <1>1, <1>2 DEF Coherent, Silent
  <2>2. line' = <<>> /\ Head(line).type = "REBOOT"
    BY <1>1, <2>1, Lines DEF Reboot
  <2>3. Silent'
    BY <1>1, <2>1, <2>2 DEF Silent
  <2> QED BY <1>1, <1>2, <2>1, <2>2, <2>3 DEF Coherent, Silent, MtqModes
<1>3. CASE allowComm /\ Agreed
  <2>1. line = <<Read(FALSE)>> /\ mode = expectedMode
    BY <1>1, <1>3 DEF Agreed
  <2>2. line' = <<>> /\ Head(line).type = "READ"
    BY <1>1, <2>1, Lines DEF Read
  <2>3. stat' = [mode |-> mode, calm |-> calm] /\ mode' = mode
    BY <1>1, <2>2
  <2>4. Agreed'
    BY <1>1, <2>1, <2>2, <2>3 DEF Agreed
  <2> QED BY <1>1, <1>3, <2>3, <2>4 DEF Coherent
<1>4. CASE allowComm /\ Ordered /\ line = <<SetTo(expectedMode, TRUE), Read(TRUE)>>
  <2>1. line' = <<Read(TRUE)>> /\ Head(line) = SetTo(expectedMode, TRUE)
    BY <1>1, <1>4, Lines
  <2>2. mode' = expectedMode /\ UNCHANGED stat
    BY <1>1, <2>1 DEF SetTo
  <2>3. Taken'
    BY <1>1, <2>1, <2>2 DEF Taken, Read
  <2> QED BY <1>1, <1>4, <2>2, <2>3 DEF Coherent
<1>5. CASE allowComm /\ Ordered /\ line = <<Read(FALSE), SetTo(expectedMode, TRUE), Read(TRUE)>>
  <2>1. line' = <<SetTo(expectedMode, TRUE), Read(TRUE)>> /\ Head(line).type = "READ"
    <3> DEFINE a == Read(FALSE)
               b == SetTo(expectedMode, TRUE)
               c == Read(TRUE)
    <3>1. a.type = "READ"
      BY DEF Read
    <3> HIDE DEF a, b, c
    <3>2. Tail(<<a, b, c>>) = <<b, c>> /\ Head(<<a, b, c>>) = a
      BY Lines
    <3>3. line = <<a, b, c>>
      BY <1>5 DEF a, b, c
    <3>4. line' = <<b, c>> /\ Head(line) = a
      BY <1>1, <3>2, <3>3
    <3> QED BY <3>1, <3>4 DEF b, c
  <2>2. stat' = [mode |-> mode, calm |-> calm] /\ mode' = mode
    BY <1>1, <2>1
  <2>3. expectedMode' = expectedMode /\ stat'.mode = mode'
    BY <1>1, <2>2
  <2>4. line' = <<SetTo(expectedMode', TRUE), Read(TRUE)>>
    BY <2>1, <2>3
  <2>5. Ordered'
    BY <2>3, <2>4 DEF Ordered, SetTo, Read
  <2> QED BY <1>1, <1>5, <2>2, <2>5 DEF Coherent
<1>6. CASE allowComm /\ Taken
  <2>1. line' = <<>> /\ Head(line).type = "READ"
    BY <1>1, <1>6, Lines DEF Taken, Read
  <2>2. stat' = [mode |-> mode, calm |-> calm] /\ mode' = mode
    BY <1>1, <2>1
  <2>3. Agreed'
    BY <1>1, <1>6, <2>1, <2>2 DEF Agreed, Taken
  <2> QED BY <1>1, <1>6, <2>2, <2>3 DEF Coherent
<1> QED BY <1>2, <1>3, <1>4, <1>5, <1>6 DEF Coherent, Ordered

LEMMA QuietCoherent ==
  ASSUME Coherent,
         ReadSensors \/ ResetPart2 \/ Sky \/ Poll \/ CheckEps \/ TakeOrder
           \/ (\E m \in GncModes : GroundSetsGnc(m)) \/ UseId7 \/ LeaveId7 \/ UNCHANGED vars
  PROVE  Coherent' /\ (allowComm => allowComm')
<1>1. CASE ReadSensors
  <2>1. /\ allowComm /\ line = <<>> /\ line' = <<Read(FALSE)>>
        /\ UNCHANGED <<expectedMode, stat, allowComm, slot7, mode, calm>>
    BY <1>1 DEF ReadSensors, lppm, env
  <2>2. Agreed
    <3>1. ~OwnUnderWay
      BY <2>1 DEF OwnUnderWay
    <3> QED BY <2>1, <3>1, Own
  <2>3. Agreed'
    BY <2>1, <2>2 DEF Agreed, Read
  <2> QED BY <2>1, <2>3 DEF Coherent
<1>2. CASE ResetPart2
  <2>1. /\ slot7 = "part2" /\ line = <<>> /\ slot7' = "free" /\ allowComm' = TRUE
        /\ UNCHANGED <<expectedMode, stat, line, mode, calm>>
    BY <1>2 DEF ResetPart2, mtq, env
  <2>2. Silent
    BY <2>1 DEF Coherent
  <2>3. Agreed'
    BY <2>1, <2>2 DEF Silent, Agreed
  <2> QED BY <2>1, <2>3 DEF Coherent
<1>3. CASE Sky
  <2>1. UNCHANGED <<expectedMode, stat, allowComm, slot7, line, mode>> /\ calm' \in BOOLEAN
    BY <1>3 DEF Sky, lppm, mtq, Coherent
  <2> QED BY <2>1 DEF Coherent, Silent, Agreed, Ordered, Taken, SetTo, Read, Reboot
<1>4. CASE Poll \/ CheckEps \/ TakeOrder \/ (\E m \in GncModes : GroundSetsGnc(m))
             \/ UNCHANGED vars
  <2>1. UNCHANGED <<expectedMode, stat, allowComm, slot7, line, mode, calm>>
    BY <1>4 DEF Poll, UpdateTlm, CheckEps, TakeOrder, GroundSetsGnc, vars, lppm, mtq, env
  <2> QED BY <2>1 DEF Coherent, Silent, Agreed, Ordered, Taken, SetTo, Read, Reboot
<1>5. CASE UseId7 \/ LeaveId7
  <2>1. /\ UNCHANGED <<expectedMode, stat, allowComm, line, mode, calm>>
        /\ slot7' \in {"part2", "stopped"} => slot7 \in {"part2", "stopped"}
    BY <1>5 DEF UseId7, LeaveId7, mtq, env
  <2> QED BY <2>1 DEF Coherent, Silent, Agreed, Ordered, Taken, SetTo, Read, Reboot
<1> QED BY <1>1, <1>2, <1>3, <1>4, <1>5

LEMMA StepIInv == IInv /\ [Next]_vars => IInv'
<1> SUFFICES ASSUME IInv, [Next]_vars PROVE IInv'
  OBVIOUS
<1>1. ASSUME UNCHANGED <<ground, harm, touched>> PROVE Quiet' => Quiet
  BY <1>1 DEF Quiet
<1>2. CASE Poll
  <2>1. UNCHANGED <<toLppm, gncMode, ground, harm, touched>> /\ tlmGnc' \in GncModes
    BY <1>2 DEF Poll, UpdateTlm, lppm, hist, IInv
  <2> QED BY <1>1, <1>2, <2>1, QuietCoherent DEF IInv
<1>3. CASE CheckEps
  <2>1. UNCHANGED <<tlmGnc, gncMode, ground, harm, touched>>
    BY <1>3 DEF CheckEps, uppm, lppm, hist
  <2>2. toLppm' \in Seq(Orders)
    <3>1. PICK m \in Order(tlmPower, tlmGnc) : toLppm' = Append(toLppm, [by |-> "EPS", mode |-> m])
      BY <1>3 DEF CheckEps
    <3>2. m \in GncModes
      BY DEF Order, GncModes
    <3> QED BY <3>1, <3>2, OrderSent DEF IInv
  <2> QED BY <1>1, <1>3, <2>1, <2>2, QuietCoherent DEF IInv
<1>4. CASE TakeOrder
  <2>1. UNCHANGED <<tlmGnc, ground, harm, touched>>
    BY <1>4 DEF TakeOrder, uppm, hist
  <2>2. toLppm' \in Seq(Orders) /\ gncMode' \in GncModes
    BY <1>4, OrderTaken DEF TakeOrder, IInv
  <2> QED BY <1>1, <1>4, <2>1, <2>2, QuietCoherent DEF IInv
<1>5. CASE GncStep \/ MtqServes
  <2>1. UNCHANGED <<toLppm, gncMode, tlmGnc, ground, harm, touched>>
    BY <1>5 DEF GncStep, MtqServes, uppm, hist
  <2> QED BY <1>1, <1>5, <2>1, StepCoherent, ServeCoherent DEF IInv
<1>6. CASE ReadSensors \/ ResetPart2 \/ Sky \/ UNCHANGED vars
  <2>1. UNCHANGED <<toLppm, gncMode, tlmGnc, ground, harm, touched>>
    BY <1>6 DEF ReadSensors, ResetPart2, Sky, vars, uppm, lppm, hist
  <2> QED BY <1>1, <1>6, <2>1, QuietCoherent DEF IInv
<1>7. CASE \E m \in GncModes : GroundSetsGnc(m)
  <2>1. PICK m \in GncModes : GroundSetsGnc(m)
    BY <1>7
  <2>2. UNCHANGED <<gncMode, tlmGnc, harm, touched>> /\ ground' \in Nat
    BY <2>1 DEF GroundSetsGnc, uppm, lppm, IInv
  <2>3. toLppm' \in Seq(Orders)
    BY <2>1, OrderSent DEF GroundSetsGnc, IInv
  <2>4. Quiet' => Quiet
    BY <2>2 DEF Quiet
  <2> QED BY <1>7, <2>2, <2>3, <2>4, QuietCoherent DEF IInv
<1>8. CASE GroundUsesMtq
  <2>1. UNCHANGED <<toLppm, gncMode, tlmGnc, harm>> /\ ground' \in Nat /\ touched' = TRUE
    BY <1>8 DEF GroundUsesMtq, uppm, IInv
  <2> QED BY <2>1 DEF IInv, Quiet
<1>9. CASE UseId7 \/ LeaveId7
  <2>1. UNCHANGED <<toLppm, gncMode, tlmGnc, harm, touched>> /\ ground' \in Nat
    BY <1>9 DEF UseId7, LeaveId7, uppm, IInv
  <2>2. Quiet' => Quiet
    BY <2>1 DEF Quiet
  <2> QED BY <1>9, <2>1, <2>2, QuietCoherent DEF IInv
<1>10. CASE Harm
  <2>1. UNCHANGED <<ground, touched>> /\ harm' = harm + 1
    BY <1>10 DEF Harm
  <2>2. toLppm' \in Seq(Orders) /\ gncMode' \in GncModes /\ tlmGnc' \in GncModes
    <3>1. CASE LineFault \/ Drift
      BY <3>1 DEF LineFault, Drift, uppm, lppm, IInv
    <3>2. CASE LinkFault
      BY <3>2, OrderTaken DEF LinkFault, UpdateTlm, uppm, lppm, IInv
    <3>3. CASE UppmRestart
      BY <3>3 DEF UppmRestart, lppm, IInv, GncModes
    <3>4. CASE LppmRestart
      BY <3>4 DEF LppmRestart, uppm, IInv, GncModes
    <3> QED BY <1>10, <3>1, <3>2, <3>3, <3>4 DEF Harm
  <2>3. ~Quiet'
    BY <2>1 DEF Quiet, IInv
  <2> QED BY <2>1, <2>2, <2>3 DEF IInv
<1> QED BY <1>2, <1>3, <1>4, <1>5, <1>6, <1>7, <1>8, <1>9, <1>10 DEF Next

LEMMA IInvInvariant == Spec => []IInv
BY InitIInv, StepIInv, PTL DEF Spec

(* While nothing went wrong and the ground left the MTQ alone, the planner *)
(* never takes a mode of its own for a failure and reboots the MTQ         *)
(* (gnc_step).                                                             *)
THEOREM ResetsAlwaysJustified == Spec => ResetsJustified
<1>1. IInv /\ IInv' /\ [Next]_vars => [allowComm /\ ~allowComm' => harm' > 0 \/ touched']_vars
  <2> SUFFICES ASSUME IInv, IInv', Next, allowComm, ~allowComm', harm' = 0, ~touched'
               PROVE  FALSE
    BY DEF IInv
  <2>1. ~Harm
    <3>1. harm' = harm + 1 => harm' # 0
      BY DEF IInv
    <3> QED BY <3>1 DEF Harm
  <2>2. ~GroundUsesMtq
    BY Zenon DEF GroundUsesMtq
  <2>3. UNCHANGED <<harm, touched>>
    <3>1. CASE Poll \/ CheckEps \/ TakeOrder \/ GncStep \/ ReadSensors \/ ResetPart2 \/ MtqServes
                 \/ Sky
      BY <3>1 DEF Poll, CheckEps, TakeOrder, GncStep, ReadSensors, ResetPart2, MtqServes, Sky, hist
    <3>2. CASE \E m \in GncModes : GroundSetsGnc(m)
      BY <3>2 DEF GroundSetsGnc
    <3>3. CASE UseId7 \/ LeaveId7
      BY <3>3 DEF UseId7, LeaveId7
    <3> QED BY <2>1, <2>2, <3>1, <3>2, <3>3 DEF Next
  <2>4. Coherent
    BY <2>3 DEF IInv, Quiet
  <2> QED BY <2>1, <2>2, <2>4, StepCoherent, ServeCoherent, QuietCoherent DEF Next
<1> QED BY <1>1, IInvInvariant, PTL DEF Spec, ResetsJustified

(* A planner that is OFF, known to be OFF, and to which no order is under  *)
(* way, stays OFF until the ground or a fault intervenes, at any power     *)
(* (system_ops_check_eps).                                                 *)
THEOREM OffAlwaysKept == Spec => OffKept
<1>1. IInv /\ IInv' /\ [Next]_vars
        => [OffSettled => OffSettled' \/ ground' > ground \/ harm' > harm]_vars
  <2> SUFFICES ASSUME IInv, IInv', Next, OffSettled
               PROVE  OffSettled' \/ ground' > ground \/ harm' > harm
    OBVIOUS
  <2>1. toLppm = <<>>
    <3>1. SUFFICES ASSUME toLppm # <<>> PROVE FALSE
      OBVIOUS
    <3>2. 1 \in DOMAIN toLppm /\ toLppm[1] \in Orders
      BY <3>1 DEF IInv
    <3>3. toLppm[1].by \in {"GS", "EPS"}
      BY <3>2 DEF Orders
    <3> QED BY <3>2, <3>3 DEF OffSettled, Under
  <2>2. CASE Poll
    BY <2>1, <2>2 DEF Poll, UpdateTlm, OffSettled, Under, lppm
  <2>3. CASE CheckEps
    <3>1. Order(tlmPower, tlmGnc) = {}
      BY DEF Order, OffSettled
    <3> QED BY <2>3, <3>1 DEF CheckEps
  <2>4. CASE TakeOrder
    BY <2>1, <2>4 DEF TakeOrder
  <2>5. CASE GncStep \/ ReadSensors \/ ResetPart2 \/ MtqServes \/ Sky
    BY <2>1, <2>5 DEF GncStep, ReadSensors, ResetPart2, MtqServes, Sky, OffSettled, Under,
                      uppm, lppm
  <2>6. CASE (\E m \in GncModes : GroundSetsGnc(m)) \/ GroundUsesMtq
    <3>1. ground' = ground + 1
      BY <2>6 DEF GroundSetsGnc, GroundUsesMtq
    <3> QED BY <3>1 DEF IInv
  <2>7. CASE Harm
    BY <2>7 DEF Harm, IInv
  <2>8. CASE UseId7 \/ LeaveId7
    BY <2>1, <2>8 DEF UseId7, LeaveId7, OffSettled, Under, uppm
  <2> QED BY <2>2, <2>3, <2>4, <2>5, <2>6, <2>7, <2>8 DEF Next
<1> QED BY <1>1, IInvInvariant, PTL DEF Spec, OffKept
=============================================================================
