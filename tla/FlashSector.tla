---------------------------- MODULE FlashSector -----------------------------
(***************************************************************************)
(* How flashmgr.c lays records of one kind out in their sector of the      *)
(* AT25DF641: fixed-size records one after the other from the start of the *)
(* sector, the last one the current one, the sector erased when full.      *)
(* A sector is a function from 0 .. SectorSize-1 to cells; addresses here  *)
(* are relative to the start of the sector.                                *)
(***************************************************************************)
EXTENDS Integers

CONSTANTS
  SectorSize,   \* FLASH_SECTOR_SIZE
  BlockSize,    \* FLASH_BLOCK_SIZE, what one erase command erases
  PageSize,     \* FLASH_PAGE_SIZE, what one program command can write
  RecordSize,   \* size of a record
  Erased        \* the value of an erased cell

ASSUME GeometryAssumption ==
  /\ {SectorSize, BlockSize, PageSize, RecordSize} \subseteq Nat \ {0}
  /\ RecordSize <= SectorSize
  /\ SectorSize % BlockSize = 0 /\ BlockSize % PageSize = 0
  /\ SectorSize % RecordSize # 0   \* so for the records of 14, 157 and 1002 bytes

Cells   == 0 .. SectorSize - 1
Blocks  == 0 .. (SectorSize \div BlockSize) - 1
Offsets == 0 .. RecordSize - 1

(* The addresses find_last_record visits.                                  *)
Places      == SectorSize \div RecordSize
RecordAddrs == {k * RecordSize : k \in 0 .. Places - 1}

(* CheckFlashEmpty on a record's cells.                                    *)
EmptyAt(flash, addr) == \A k \in Offsets : flash[addr + k] = Erased

(* flashmgr_find_last_record: the scan stops at the first empty record or  *)
(* past the last one; the record before is the last, and the start of the  *)
(* sector when there is none before.                                       *)
ScanStop(flash) ==
  LET empty == {a \in RecordAddrs : EmptyAt(flash, a)}
  IN  IF empty = {}
        THEN Places * RecordSize
        ELSE CHOOSE a \in empty : \A b \in empty : a <= b

(* mutant: the address the scan stopped at *)
LastRecordNext(flash) == ScanStop(flash)

LastRecord(flash) ==
  IF ScanStop(flash) = 0 THEN 0 ELSE ScanStop(flash) - RecordSize

NothingWritten(flash) == EmptyAt(flash, 0)

ReadAt(flash, addr) == [k \in Offsets |-> flash[addr + k]]

(* flashmgr_append_record: where the new record goes; past the last place  *)
(* for a record the sector is erased first and the record goes to 0.       *)
(* mutant: the last record is written over *)
AfterLastOverwrites(flash) == LastRecord(flash)

AfterLast(flash) ==
  LET last == LastRecord(flash)
  IN  IF last = 0 /\ EmptyAt(flash, 0) THEN 0 ELSE last + RecordSize

(* mutant: the size of the record is not reserved *)
MustEraseLate(addr) == addr > SectorSize

MustErase(addr) == addr > SectorSize - RecordSize

EraseBlock(flash, block) ==
  [c \in Cells |-> IF c \div BlockSize = block THEN Erased ELSE flash[c]]

(* flashWriteSafe: the checks, then one program command per page touched.  *)
(* The end address that is compared with the last address of the sector is *)
(* the one after the record.                                               *)
WriteStatus(flash, addr) ==
  IF addr + RecordSize > SectorSize - 1 THEN "OUT_OF_BOUNDS"
  ELSE IF ~EmptyAt(flash, addr) THEN "FLASH_NOT_EMPTY"
  ELSE "SUCCESS"

(* The offsets of a record at addr that the program command starting at    *)
(* offset done covers: up to the page boundary or the end of the record.   *)
Chunk(addr, done) ==
  {k \in Offsets : k >= done /\ (addr + k) \div PageSize = (addr + done) \div PageSize}

Program(flash, addr, image, offsets) ==
  [c \in Cells |-> IF c - addr \in offsets THEN image[c - addr] ELSE flash[c]]
=============================================================================
