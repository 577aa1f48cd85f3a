------------------------------ MODULE KissLink ------------------------------
(***************************************************************************)
(* Frames of one node on their way to the parser of the next: a serial     *)
(* line that may lose or garble bytes (a full receive buffer loses them    *)
(* too), and filler between frames, as in the fixed-size I2C reads by      *)
(* which mcppkt_dispatch fetches the answers of the EPS.                   *)
(***************************************************************************)
EXTENDS KissFrame

CONSTANTS
  Messages,    \* the messages that are sent
  MaxFaults,   \* bound on lost and garbled bytes
  MaxFiller    \* bound on filler bytes

ASSUME LinkAssumption ==
  /\ Messages \subseteq Seq(Byte)
  /\ MaxFaults \in Nat /\ MaxFiller \in Nat

VARIABLES
  msg,       \* the message being sent, or the one sent last
  wire,      \* the bytes of its frame that are still to come
  parser,    \* the parser of the receiver
  got,       \* messages the receiver took from the line since the frame began
  escaped,   \* ghost: whether the parser stood in an escape when it began
  intact,    \* ghost: whether no byte of the frame was lost or garbled so far
  before,    \* ghost: whether the frame before was intact
  faults, filler

linkVars == <<msg, wire, parser, got, escaped, intact, before, faults, filler>>

LinkInit ==
  /\ msg = <<>> /\ wire = <<>>
  /\ parser = Waiting
  /\ got = <<>>
  /\ escaped = FALSE /\ intact = TRUE /\ before = TRUE
  /\ faults = 0 /\ filler = 0

Send(m) ==
  /\ wire = <<>>
  /\ msg' = m /\ wire' = FrameOf(m)
  /\ wire' # <<>>
  /\ got' = <<>>
  /\ escaped' = (parser.fsm = "IN_ESCAPE")
  /\ intact' = TRUE /\ before' = intact
  /\ UNCHANGED <<parser, faults, filler>>

(* One turn of the loop of mcpmgr_parse_stream.                            *)
Receive(b) ==
  IF Completes(parser, b)
    THEN parser' = Cleaned /\ got' = Append(got, Message(parser))
    ELSE parser' = Process(parser, b) /\ UNCHANGED got

Deliver ==
  /\ wire # <<>>
  /\ Receive(Head(wire))
  /\ wire' = Tail(wire)
  /\ UNCHANGED <<msg, escaped, intact, before, faults, filler>>

Fault ==
  /\ wire # <<>> /\ faults < MaxFaults
  /\ faults' = faults + 1 /\ intact' = FALSE
  /\ wire' = Tail(wire)
  /\ \/ UNCHANGED <<parser, got>>
     \/ \E b \in Byte \ {Head(wire)} : Receive(b)
  /\ UNCHANGED <<msg, escaped, before, filler>>

Fill ==
  /\ wire = <<>> /\ filler < MaxFiller
  /\ filler' = filler + 1
  /\ Receive("x")
  /\ UNCHANGED <<msg, wire, escaped, intact, before, faults>>

LinkNext == (\E m \in Messages : Send(m)) \/ Deliver \/ Fault \/ Fill

LinkSpec == LinkInit /\ [][LinkNext]_linkVars

-----------------------------------------------------------------------------
LinkTypeOK ==
  /\ msg \in Messages \cup {<<>>}
  /\ wire \in Seq(Byte) /\ got \in Seq(Seq(Byte))
  /\ parser \in Parser /\ Len(parser.buf) <= FrameMax
  /\ escaped \in BOOLEAN /\ intact \in BOOLEAN /\ before \in BOOLEAN
  /\ faults \in 0 .. MaxFaults /\ filler \in 0 .. MaxFiller

Sent == wire = <<>> /\ msg # <<>>

(* Transparency and resynchronisation: a frame that arrives intact is      *)
(* taken from the line, and last, whatever came before it, unless the line *)
(* broke off in the middle of an escape.                                   *)
IntactIsTaken ==
  Sent /\ intact /\ ~escaped => got # <<>> /\ Last(got) = msg

(* Of two frames in a row that arrive intact the second is always taken.   *)
LosesOneAtMost ==
  Sent /\ intact /\ before => got # <<>> /\ Last(got) = msg

(* Garbage is handed on at most once before the message of an intact frame *)
(* (its header ends the garbage), and never after it.                      *)
OneStrayAtMost == Sent /\ intact => Len(got) <= 2

=============================================================================
