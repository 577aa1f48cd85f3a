----------------------------- MODULE KissFrame ------------------------------
(***************************************************************************)
(* Framing of common/maveric/src/frame.c: frame_create on the sender and   *)
(* the byte-by-byte parser kiss_process_byte on the receiver.  Only the    *)
(* bytes with a meaning in KISS are told apart; "x" stands for the others, *)
(* the data-frame byte 0x00 among them.  The CSP header and CRC32 that a   *)
(* frame for the ground has in addition are bytes of the message here.     *)
(***************************************************************************)
EXTENDS Integers, Sequences, SequencesExt

CONSTANT FrameMax   \* FRAME_MAX_SIZE

ASSUME FrameMaxAssumption == FrameMax \in Nat /\ FrameMax > 3

Byte == {"FEND", "FESC", "TFEND", "TFESC", "x"}

DataFrame == "x"

-----------------------------------------------------------------------------
(* kiss_apply_byte_check                                                   *)
(* mutant: FEND goes out as it is *)
EscapeFescOnly(b) == IF b = "FESC" THEN <<"FESC", "TFESC">> ELSE <<b>>

Escape(b) ==
  CASE b = "FEND" -> <<"FESC", "TFEND">>
    [] b = "FESC" -> <<"FESC", "TFESC">>
    [] OTHER      -> <<b>>

Stuffed(msg) == FlattenSeq([k \in DOMAIN msg |-> Escape(msg[k])])

(* frame_create: the header, the message and the footer; nothing when the  *)
(* message is too long.                                                    *)
FrameOf(msg) ==
  IF Len(msg) + 3 > FrameMax
    THEN <<>>
    ELSE <<"FEND", DataFrame>> \o Stuffed(msg) \o <<"FEND">>

-----------------------------------------------------------------------------
(* kiss_parser_s and kiss_process_byte                                     *)
Parser == [fsm : {"WAIT_FEND", "IN_FRAME", "IN_ESCAPE"}, buf : Seq(Byte)]

Waiting == [fsm |-> "WAIT_FEND", buf |-> <<>>]
Started == [fsm |-> "IN_FRAME", buf |-> <<>>]

(* mutant: no test for a full buffer *)
StoreUnbounded(p, b) == [fsm |-> "IN_FRAME", buf |-> Append(p.buf, b)]

Store(p, b) ==
  IF Len(p.buf) < FrameMax
    THEN [fsm |-> "IN_FRAME", buf |-> Append(p.buf, b)]
    ELSE Waiting

Completes(p, b) == p.fsm = "IN_FRAME" /\ b = "FEND" /\ p.buf # <<>>

(* mutant: swapped *)
UnescapedSwapped(b) == IF b = "TFEND" THEN "FESC" ELSE "FEND"

Unescaped(b) == IF b = "TFEND" THEN "FEND" ELSE "FESC"

(* mutant: an invalid escape does not end the escape *)
ProcessStuck(p, b) ==
  CASE p.fsm = "WAIT_FEND" -> IF b = "FEND" THEN Started ELSE p
    [] p.fsm = "IN_FRAME" /\ b = "FEND" -> p
    [] p.fsm = "IN_FRAME" /\ b = "FESC" -> [p EXCEPT !.fsm = "IN_ESCAPE"]
    [] p.fsm = "IN_FRAME" /\ b \notin {"FEND", "FESC"} -> Store(p, b)
    [] p.fsm = "IN_ESCAPE" -> IF b \in {"TFEND", "TFESC"} THEN Store(p, Unescaped(b)) ELSE p

(* What a byte that completes no frame does.                               *)
Process(p, b) ==
  CASE p.fsm = "WAIT_FEND" -> IF b = "FEND" THEN Started ELSE p
    [] p.fsm = "IN_FRAME" /\ b = "FEND" -> p
    [] p.fsm = "IN_FRAME" /\ b = "FESC" -> [p EXCEPT !.fsm = "IN_ESCAPE"]
    [] p.fsm = "IN_FRAME" /\ b \notin {"FEND", "FESC"} -> Store(p, b)
    [] p.fsm = "IN_ESCAPE" -> IF b \in {"TFEND", "TFESC"}
                                THEN Store(p, Unescaped(b))
                                ELSE Waiting

(* mcpmgr_parse_stream and the cleanup of mcpmgr_process_pkt: the frame    *)
(* without its first byte is the packet, and the parser stays in a frame,  *)
(* since the footer of one frame may be the header of the next.            *)
Message(p) == Tail(p.buf)
Cleaned == Started
=============================================================================
