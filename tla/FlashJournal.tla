---------------------------- MODULE FlashJournal ----------------------------
(***************************************************************************)
(* One record kept in flash by flashmgr.c: the configuration               *)
(* (flashmgr_config_flush, flashmgr_config_load_flash) or the table of     *)
(* scheduled commands (flashmgr_schedules_flush, ..._load_flash).  A flush *)
(* is a sequence of flash commands; power can fail between and during      *)
(* them, and the next boot reads what is there.                            *)
(*                                                                         *)
(* A record is a member of Records; its k-th cell on flash is <<r, k>>.    *)
(* The CRC accepts exactly the complete images of records.                 *)
(***************************************************************************)
EXTENDS FlashSector, FiniteSets

CONSTANTS
  Records,
  Default    \* what is used when nothing valid is found

ASSUME RecordsAssumption ==
  /\ Default \notin Records /\ "none" \notin Records \cup {Default}
  /\ Erased \notin Records \X Offsets

VARIABLES
  flash,    \* the sector
  op,       \* what the flash manager is doing
  rec,      \* new_record, the record being flushed or last flushed
  addr,     \* new_addr
  done,     \* blocks erased or cells written so far
  status,   \* the result of the last flush of this boot
  loaded,   \* what the last boot found
  before,   \* ghost: what a boot would have found when the flush began
  torn      \* ghost: whether the last erase of the sector was interrupted

vars == <<flash, op, rec, addr, done, status, loaded, before, torn>>

Image(r) == [k \in Offsets |-> <<r, k>>]

(* find_last_record into the zeroed or default buffer, then check_crc16.   *)
Load(f) ==
  LET found == {r \in Records : ReadAt(f, LastRecord(f)) = Image(r)}
  IN  IF NothingWritten(f) \/ found = {} THEN Default ELSE CHOOSE r \in found : TRUE

Init ==
  /\ flash = [c \in Cells |-> Erased]
  /\ op = "idle" /\ rec = "none" /\ addr = 0 /\ done = 0
  /\ status = "none" /\ loaded = Default /\ before = Default /\ torn = FALSE

(* flashmgr_append_record up to its first flash command.                   *)
Flush(r) ==
  /\ op = "idle"
  /\ rec' = r
  /\ addr' = IF MustErase(AfterLast(flash)) THEN 0 ELSE AfterLast(flash)
  /\ op' = IF MustErase(AfterLast(flash)) THEN "erase" ELSE "check"
  /\ done' = 0
  /\ status' = "none"
  /\ before' = Load(flash)
  /\ UNCHANGED <<flash, loaded, torn>>

(* The loop over the blocks of the sector.                                 *)
(* mutant: only the first block is erased                                  *)
EraseNextOnce ==
  /\ op = "erase"
  /\ flash' = EraseBlock(flash, done)
  /\ op' = "check" /\ torn' = FALSE
  /\ UNCHANGED <<rec, addr, done, status, loaded, before>>

EraseNext ==
  /\ op = "erase"
  /\ flash' = EraseBlock(flash, done)
  /\ IF done + 1 \in Blocks
       THEN op' = "erase" /\ done' = done + 1 /\ UNCHANGED torn
       ELSE op' = "check" /\ done' = 0 /\ torn' = FALSE
  /\ UNCHANGED <<rec, addr, status, loaded, before>>

(* flashWriteSafe refuses or starts to program.                            *)
Check ==
  /\ op = "check"
  /\ IF WriteStatus(flash, addr) = "SUCCESS"
       THEN op' = "write" /\ UNCHANGED status
       ELSE op' = "idle" /\ status' = WriteStatus(flash, addr)
  /\ UNCHANGED <<flash, rec, addr, done, loaded, before, torn>>

ProgramNext ==
  /\ op = "write"
  /\ flash' = Program(flash, addr, Image(rec), Chunk(addr, done))
  /\ LET written == done + Cardinality(Chunk(addr, done))
     IN  IF written = RecordSize
           THEN op' = "idle" /\ done' = 0 /\ status' = "SUCCESS"
           ELSE op' = "write" /\ done' = written /\ UNCHANGED status
  /\ UNCHANGED <<rec, addr, loaded, before, torn>>

(* Reset or power-up: RAM is gone, the journal is read.                    *)
Boot(f) ==
  /\ loaded' = Load(f)
  /\ op' = "idle" /\ rec' = "none" /\ addr' = 0 /\ done' = 0
  /\ status' = "none" /\ before' = Default

Reset ==
  /\ op = "idle"
  /\ Boot(flash)
  /\ UNCHANGED <<flash, torn>>

(* Power fails: an interrupted program command leaves some of its cells    *)
(* written, an interrupted erase command leaves its block as it was.       *)
PowerLoss ==
  /\ \/ op = "erase" /\ UNCHANGED flash /\ torn' = TRUE
     \/ op = "check" /\ UNCHANGED <<flash, torn>>
     \/ /\ op = "write"
        /\ \E part \in SUBSET Chunk(addr, done) :
             flash' = Program(flash, addr, Image(rec), part)
        /\ UNCHANGED torn
  /\ Boot(flash')

Next == (\E r \in Records : Flush(r)) \/ EraseNext \/ Check \/ ProgramNext
        \/ Reset \/ PowerLoss

Spec == Init /\ [][Next]_vars

-----------------------------------------------------------------------------
TypeOK ==
  /\ flash \in [Cells -> {Erased} \cup (Records \X Offsets)]
  /\ op \in {"idle", "erase", "check", "write"}
  /\ rec \in Records \cup {"none"}
  /\ addr \in RecordAddrs
  /\ done \in 0 .. SectorSize
  /\ status \in {"none", "SUCCESS", "OUT_OF_BOUNDS", "FLASH_NOT_EMPTY"}
  /\ loaded \in Records \cup {Default} /\ before \in Records \cup {Default}
  /\ torn \in BOOLEAN

(* A record whose flush reported SUCCESS is the one the next boot reads,   *)
(* until another flush begins; except after an interrupted erase, which    *)
(* leaves old records beyond the new ones until the sector is full again.  *)
FlushedIsRead == op = "idle" /\ status = "SUCCESS" /\ ~torn => Load(flash) = rec

(* No flush is refused: the place chosen for a record lies inside the      *)
(* sector and is empty, also after a write was interrupted.                *)
NeverRefused == status \notin {"OUT_OF_BOUNDS", "FLASH_NOT_EMPTY"}

(* The journal as the register its users see.                              *)
Register ==
  INSTANCE PersistentRegister WITH
    stored  <- IF op = "idle" THEN Load(flash) ELSE before,
    pending <- IF op = "idle" THEN "none" ELSE rec,
    corrupt <- torn

(* The journal implements the register: a boot finds the last record       *)
(* flushed; after an interrupted flush it finds the old or the new one or  *)
(* the defaults, and never a stale or mixed record.  An interrupted erase  *)
(* leaves it corrupt until the next erase is complete.                     *)
ImplementsRegister == Register!Spec
=============================================================================
