------------------------- MODULE PersistentRegister -------------------------
(***************************************************************************)
(* What the users of flashmgr rely on: a register that keeps the last      *)
(* record flushed across resets.  A flush takes time; while it lasts the   *)
(* register is busy, and power may fail.  After an interrupted flush the   *)
(* register holds the old or the new record or none at all, in which case  *)
(* the defaults are used.  It may also be left corrupt, and then nothing   *)
(* is promised until it is whole again.                                    *)
(***************************************************************************)
CONSTANTS Records, Default

VARIABLES stored, pending, loaded, corrupt

rvars == <<stored, pending, loaded, corrupt>>

NoFlush == "none"

Init ==
  /\ stored = Default
  /\ pending = NoFlush
  /\ loaded = Default
  /\ corrupt = FALSE

StartFlush(r) ==
  /\ pending = NoFlush
  /\ pending' = r
  /\ UNCHANGED <<stored, loaded>>

EndFlush ==
  /\ pending # NoFlush
  /\ stored' = pending
  /\ pending' = NoFlush
  /\ UNCHANGED loaded

Interrupt ==
  /\ pending # NoFlush
  /\ stored' \in {stored, pending, Default}
  /\ pending' = NoFlush
  /\ loaded' = stored'

Restart ==
  /\ pending = NoFlush
  /\ loaded' = stored
  /\ UNCHANGED <<stored, pending>>

Promised ==
  ((\E r \in Records : StartFlush(r)) \/ EndFlush \/ Interrupt \/ Restart)
  /\ UNCHANGED corrupt

Corrupted == corrupt \/ corrupt'

Next == Promised \/ Corrupted

Spec == Init /\ [][Next]_rvars
=============================================================================
