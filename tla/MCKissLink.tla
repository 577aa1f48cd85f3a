----------------------------- MODULE MCKissLink -----------------------------
(* Messages of one and two bytes: all of them, and those whose frames stay *)
(* within FRAME_MAX_SIZE after escaping.                                   *)
EXTENDS KissLink

MCMessages == {<<b>> : b \in Byte} \cup (Byte \X Byte)

MCFitting == {m \in MCMessages : Len(FrameOf(m)) <= FrameMax}
=============================================================================
