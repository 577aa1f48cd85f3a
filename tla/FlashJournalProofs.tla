------------------------- MODULE FlashJournalProofs -------------------------
(***************************************************************************)
(* For every geometry of the flash, every size of the records and any      *)
(* sequence of flushes, resets and losses of power: no flush is refused,   *)
(* a flushed record is read, and the journal is a register.                *)
(***************************************************************************)
EXTENDS FlashJournal, FiniteSetTheorems, WellFoundedInduction, TLAPS

End == Places * RecordSize

LEMMA Products ==
  ASSUME NEW a \in Int, NEW b \in Int, a <= b, NEW c \in Nat PROVE a * c <= b * c
OBVIOUS

LEMMA Sizes ==
  /\ SectorSize \in Nat \ {0} /\ RecordSize \in Nat \ {0}
  /\ Places \in Nat \ {0} /\ End \in Nat
  /\ End < SectorSize /\ SectorSize < End + RecordSize
<1>1. SectorSize \in Nat \ {0} /\ RecordSize \in Nat \ {0} /\ RecordSize <= SectorSize
      /\ SectorSize % RecordSize # 0
  BY GeometryAssumption
<1>2. Places \in Nat \ {0} /\ End \in Nat /\ End <= SectorSize /\ SectorSize < End + RecordSize
  BY <1>1 DEF Places, End
<1>3. End # SectorSize
  BY <1>1 DEF Places, End
<1> QED BY <1>1, <1>2, <1>3

LEMMA NextProduct == \A k \in Int : (k + 1) * RecordSize = k * RecordSize + RecordSize
BY Sizes

(* The places for records: they lie in the sector, do not overlap, and     *)
(* follow each other up to End.                                            *)
LEMMA InSector ==
  ASSUME NEW a \in RecordAddrs
  PROVE  /\ a \in Nat /\ a + RecordSize <= End
         /\ \A k \in Offsets : a + k \in Cells
<1>1. PICK k \in 0 .. Places - 1 : a = k * RecordSize
  BY DEF RecordAddrs
<1>2. (k + 1) * RecordSize <= End
  BY Sizes, Products DEF End
<1>3. a \in Nat /\ a + RecordSize <= End
  BY <1>1, <1>2, Sizes, NextProduct
<1> QED BY <1>3, Sizes DEF Offsets, Cells

LEMMA Apart ==
  ASSUME NEW a \in RecordAddrs, NEW b \in RecordAddrs, a < b
  PROVE  a + RecordSize <= b
<1>1. PICK j \in 0 .. Places - 1 : a = j * RecordSize
  BY DEF RecordAddrs
<1>2. PICK k \in 0 .. Places - 1 : b = k * RecordSize
  BY DEF RecordAddrs
<1>3. ~(k <= j)
  BY <1>1, <1>2, Products, Sizes
<1>4. (j + 1) * RecordSize <= k * RecordSize
  BY <1>3, Products, Sizes
<1> QED BY <1>1, <1>2, <1>4, NextProduct, Sizes

LEMMA NextPlace ==
  ASSUME NEW a \in RecordAddrs
  PROVE  a + RecordSize \in RecordAddrs \/ a + RecordSize = End
<1>1. PICK k \in 0 .. Places - 1 : a = k * RecordSize
  BY DEF RecordAddrs
<1>2. a + RecordSize = (k + 1) * RecordSize
  BY <1>1, NextProduct
<1>3. CASE k + 1 = Places
  BY <1>2, <1>3 DEF End
<1>4. CASE k + 1 # Places
  <2>1. k + 1 \in 0 .. Places - 1
    BY <1>4, Sizes
  <2> QED BY <1>2, <2>1 DEF RecordAddrs
<1> QED BY <1>3, <1>4

(* The place before any other, and before End.                             *)
LEMMA PlaceBefore ==
  ASSUME NEW a \in RecordAddrs \cup {End}, a # 0
  PROVE  a - RecordSize \in RecordAddrs
<1>1. PICK k \in 0 .. Places : a = k * RecordSize
  BY Sizes DEF RecordAddrs, End
<1>2. k # 0
  BY <1>1, Sizes
<1>3. k - 1 \in 0 .. Places - 1 /\ (k - 1) * RecordSize = k * RecordSize - RecordSize
  BY <1>2, Sizes
<1> QED BY <1>1, <1>3 DEF RecordAddrs

LEMMA FirstPlace == 0 \in RecordAddrs
<1>1. 0 \in 0 .. Places - 1 /\ 0 = 0 * RecordSize
  BY Sizes
<1> QED BY <1>1 DEF RecordAddrs

LEMMA Least ==
  ASSUME NEW T, T \subseteq Nat, T # {}
  PROVE  \E x \in T : \A y \in T : x <= y
<1> DEFINE Less == OpToRel(<, Nat)
<1>1. IsWellFoundedOn(Less, Nat)
  BY NatLessThanWellFounded
<1>2. \A x, y \in Nat : x < y => <<x, y>> \in Less
  BY DEF OpToRel
<1> HIDE DEF Less
<1>3. PICK x \in T : \A y \in T : ~(<<y, x>> \in Less)
  BY <1>1, WFMin
<1>4. \A y \in T : ~(y < x)
  BY <1>2, <1>3, Zenon
<1> QED BY <1>4

-----------------------------------------------------------------------------
(* The scan for the first empty place.                                     *)
FullBefore(f, a) == \A b \in RecordAddrs : b < a => ~EmptyAt(f, b)
EmptyAfter(f, a) == \A b \in RecordAddrs : a < b => EmptyAt(f, b)
Packed(f) == \A a, b \in RecordAddrs : a < b /\ EmptyAt(f, a) => EmptyAt(f, b)

LEMMA Scan ==
  ASSUME NEW f
  PROVE  /\ ScanStop(f) \in RecordAddrs \cup {End}
         /\ FullBefore(f, ScanStop(f))
         /\ ScanStop(f) \in RecordAddrs => EmptyAt(f, ScanStop(f))
<1> DEFINE empty == {a \in RecordAddrs : EmptyAt(f, a)}
<1>0. \A a \in RecordAddrs : a \in Nat /\ a < End
  BY InSector, Sizes
<1>1. CASE empty = {}
  <2>1. ScanStop(f) = End
    BY <1>1 DEF ScanStop, End
  <2> QED BY <1>0, <1>1, <2>1 DEF FullBefore
<1>2. CASE empty # {}
  <2>1. \E a \in empty : \A b \in empty : a <= b
    BY <1>0, <1>2, Least
  <2>2. ScanStop(f) = CHOOSE a \in empty : \A b \in empty : a <= b
    BY <1>2 DEF ScanStop
  <2>3. ScanStop(f) \in empty /\ \A b \in empty : ScanStop(f) <= b
    BY <2>1, <2>2
  <2> QED BY <1>0, <2>3 DEF FullBefore
<1> QED BY <1>1, <1>2

(* Where the scan stops is determined by the first empty place.            *)
LEMMA ScanIs ==
  ASSUME NEW f, NEW a \in RecordAddrs \cup {End}, FullBefore(f, a),
         a \in RecordAddrs => EmptyAt(f, a)
  PROVE  ScanStop(f) = a
<1>0. \A b \in RecordAddrs \cup {End} : b \in Nat /\ (b \in RecordAddrs => b < End)
  BY InSector, Sizes
<1>1. ScanStop(f) \in RecordAddrs \cup {End}
  BY Scan
<1>2. ~(ScanStop(f) < a)
  <2> SUFFICES ASSUME ScanStop(f) < a PROVE FALSE
    OBVIOUS
  <2>1. ScanStop(f) \in RecordAddrs
    BY <1>0, <1>1
  <2> QED BY <2>1, Scan DEF FullBefore
<1>3. ~(a < ScanStop(f))
  <2> SUFFICES ASSUME a < ScanStop(f) PROVE FALSE
    OBVIOUS
  <2>1. a \in RecordAddrs
    BY <1>0, <1>1
  <2> QED BY <2>1, Scan DEF FullBefore
<1> QED BY <1>0, <1>1, <1>2, <1>3

(* A record is written where the scan stops.                               *)
LEMMA NewPlace ==
  ASSUME NEW f
  PROVE  /\ AfterLast(f) = ScanStop(f)
         /\ ~MustErase(ScanStop(f)) => ScanStop(f) \in RecordAddrs
<1>1. ScanStop(f) \in RecordAddrs \cup {End} /\ ScanStop(f) \in Int
  BY Scan, InSector, Sizes
<1>2. CASE ScanStop(f) = 0
  <2>1. EmptyAt(f, 0)
    BY <1>2, Scan, FirstPlace
  <2> QED BY <1>2, <2>1, FirstPlace DEF AfterLast, LastRecord
<1>3. CASE ScanStop(f) # 0
  <2>1. ~EmptyAt(f, 0)
    BY <1>1, <1>3, Scan, FirstPlace, InSector, Sizes DEF FullBefore
  <2>2. LastRecord(f) = ScanStop(f) - RecordSize
    BY <1>3 DEF LastRecord
  <2>3. AfterLast(f) = ScanStop(f)
    BY <1>1, <2>1, <2>2, Sizes DEF AfterLast
  <2>4. MustErase(End)
    BY Sizes DEF MustErase
  <2> QED BY <1>1, <2>3, <2>4
<1> QED BY <1>2, <1>3

(* What a boot reads.                                                      *)
LoadAt(f, a) ==
  LET found == {q \in Records : ReadAt(f, a) = Image(q)}
  IN  IF found = {} THEN Default ELSE CHOOSE q \in found : TRUE

LEMMA Loads ==
  ASSUME NEW f, NEW a \in RecordAddrs, FullBefore(f, a), EmptyAfter(f, a)
  PROVE  /\ EmptyAt(f, a) /\ a = 0 => Load(f) = Default
         /\ EmptyAt(f, a) /\ a # 0 => Load(f) = LoadAt(f, a - RecordSize)
         /\ ~EmptyAt(f, a) => LastRecord(f) = a /\ Load(f) = LoadAt(f, a)
<1>0. a \in Nat /\ 0 \in RecordAddrs /\ RecordSize \in Nat \ {0}
  BY InSector, FirstPlace, Sizes
<1>1. CASE EmptyAt(f, a) /\ a = 0
  BY <1>1 DEF Load, NothingWritten
<1>2. CASE EmptyAt(f, a) /\ a # 0
  <2>1. ScanStop(f) = a
    BY <1>2, ScanIs
  <2>2. ~NothingWritten(f)
    BY <1>0, <1>2 DEF NothingWritten, FullBefore
  <2>3. LastRecord(f) = a - RecordSize
    BY <1>2, <2>1 DEF LastRecord
  <2> QED BY <1>2, <2>2, <2>3 DEF Load, LoadAt
<1>3. CASE ~EmptyAt(f, a)
  <2>1. FullBefore(f, a + RecordSize)
    <3> SUFFICES ASSUME NEW b \in RecordAddrs, b < a + RecordSize PROVE ~EmptyAt(f, b)
      BY DEF FullBefore
    <3>1. b \in Nat /\ ~(a < b)
      BY <1>0, InSector, Apart
    <3> QED BY <1>0, <1>3, <3>1 DEF FullBefore
  <2>2. a + RecordSize \in RecordAddrs => EmptyAt(f, a + RecordSize)
    BY <1>0 DEF EmptyAfter
  <2>3. ScanStop(f) = a + RecordSize
    BY <2>1, <2>2, ScanIs, NextPlace
  <2>4. LastRecord(f) = a
    BY <1>0, <2>3 DEF LastRecord
  <2>5. ~NothingWritten(f)
    BY <1>0, <1>3 DEF NothingWritten, FullBefore
  <2> QED BY <1>3, <2>4, <2>5 DEF Load, LoadAt
<1> QED BY <1>1, <1>2, <1>3

LEMMA Images ==
  ASSUME NEW p \in Records, NEW q \in Records, Image(p) = Image(q)
  PROVE  p = q
<1>1. 0 \in Offsets
  BY Sizes DEF Offsets
<1>2. Image(p)[0] = <<p, 0>> /\ Image(q)[0] = <<q, 0>>
  BY <1>1 DEF Image
<1> QED BY <1>2

LEMMA SameLoad ==
  ASSUME NEW f, NEW g, NEW a, ReadAt(f, a) = ReadAt(g, a)
  PROVE  LoadAt(f, a) = LoadAt(g, a)
BY DEF LoadAt

LEMMA LoadsImage ==
  ASSUME NEW f, NEW a, NEW q \in Records, ReadAt(f, a) = Image(q)
  PROVE  LoadAt(f, a) = q
<1>1. {p \in Records : ReadAt(f, a) = Image(p)} = {q}
  BY Images
<1> QED BY <1>1 DEF LoadAt

-----------------------------------------------------------------------------
(* Programming and erasing.                                                *)
Cell == {Erased} \cup (Records \X Offsets)

LEMMA Programmed ==
  ASSUME NEW f \in [Cells -> Cell], NEW a \in RecordAddrs, NEW q \in Records,
         NEW offs, offs \subseteq Offsets
  PROVE  /\ Program(f, a, Image(q), offs) \in [Cells -> Cell]
         /\ \A k \in Offsets : Program(f, a, Image(q), offs)[a + k]
                                 = IF k \in offs THEN <<q, k>> ELSE f[a + k]
         /\ \A b \in RecordAddrs : b # a =>
              (EmptyAt(Program(f, a, Image(q), offs), b) <=> EmptyAt(f, b))
         /\ \A b \in RecordAddrs : b # a =>
              ReadAt(Program(f, a, Image(q), offs), b) = ReadAt(f, b)
<1> DEFINE g == Program(f, a, Image(q), offs)
<1>0. a \in Nat /\ RecordSize \in Nat /\ \A k \in Offsets : k \in Nat /\ k < RecordSize
  BY InSector, Sizes DEF Offsets
<1>1. \A k \in offs : Image(q)[k] = <<q, k>> /\ <<q, k>> \in Cell
  BY DEF Image, Cell
<1>2. g = [c \in Cells |-> IF c - a \in offs THEN Image(q)[c - a] ELSE f[c]]
  BY DEF Program
<1>3. g \in [Cells -> Cell]
  BY <1>1, <1>2
<1>4. \A k \in Offsets : a + k \in Cells /\ (a + k) - a = k
  BY <1>0, InSector
<1>5. \A k \in Offsets : g[a + k] = IF k \in offs THEN <<q, k>> ELSE f[a + k]
  BY <1>1, <1>2, <1>4
<1>6. ASSUME NEW b \in RecordAddrs, b # a, NEW k \in Offsets
      PROVE  g[b + k] = f[b + k]
  <2>1. b \in Nat /\ b + k \in Cells
    BY InSector
  <2>2. (b + k) - a \notin Offsets
    <3>1. CASE a < b
      <4>1. a + RecordSize <= b
        BY <3>1, Apart
      <4> QED BY <1>0, <2>1, <4>1
    <3>2. CASE b < a
      <4>1. b + RecordSize <= a
        BY <3>2, Apart
      <4> QED BY <1>0, <2>1, <4>1
    <3> QED BY <1>0, <1>6, <2>1, <3>1, <3>2
  <2> QED BY <1>2, <2>1, <2>2
<1> HIDE DEF g
<1>7. \A b \in RecordAddrs : b # a => (EmptyAt(g, b) <=> EmptyAt(f, b))
  BY <1>6 DEF EmptyAt
<1>8. \A b \in RecordAddrs : b # a => ReadAt(g, b) = ReadAt(f, b)
  BY <1>6 DEF ReadAt
<1> QED BY <1>3, <1>5, <1>7, <1>8 DEF g

(* What one program command covers: the offsets from done to some last one. *)
LEMMA Chunks ==
  ASSUME NEW a \in RecordAddrs, NEW d \in Offsets
  PROVE  \E m \in Offsets : /\ d <= m /\ Chunk(a, d) = d .. m
                            /\ d + Cardinality(Chunk(a, d)) = m + 1
<1> DEFINE page == (a + d) \div PageSize
           edge == page * PageSize + PageSize - 1 - a
           m == IF edge < RecordSize - 1 THEN edge ELSE RecordSize - 1
<1>0. /\ a \in Nat /\ d \in Nat /\ d < RecordSize /\ RecordSize \in Nat
      /\ PageSize \in Nat \ {0}
  BY InSector, Sizes, GeometryAssumption DEF Offsets
<1>1. page \in Nat /\ page * PageSize \in Nat
      /\ page * PageSize <= a + d /\ a + d < page * PageSize + PageSize
  BY <1>0
<1>2. m \in Offsets /\ d <= m
  BY <1>0, <1>1 DEF Offsets
<1>3. ASSUME NEW k \in Offsets, k >= d
      PROVE  (a + k) \div PageSize = page <=> k <= edge
  <2>1. k \in Nat
    BY DEF Offsets
  <2>2. CASE k <= edge
    <3>1. page * PageSize <= a + k /\ a + k < page * PageSize + PageSize
      BY <1>0, <1>1, <1>3, <2>1, <2>2
    <3> HIDE DEF page
    <3>2. (a + k) \div PageSize = page
      BY <1>0, <1>1, <2>1, <3>1
    <3> QED BY <2>2, <3>2 DEF page
  <2>3. CASE ~(k <= edge)
    <3>1. a + k >= page * PageSize + PageSize
      BY <1>0, <1>1, <2>1, <2>3
    <3> HIDE DEF page
    <3>2. (a + k) \div PageSize # page
      BY <1>0, <1>1, <2>1, <3>1
    <3> QED BY <2>3, <3>2 DEF page
  <2> QED BY <2>2, <2>3
<1>4. Chunk(a, d) = d .. m
  <2>1. \A k \in Offsets : k \in Nat /\ k <= RecordSize - 1
    BY <1>0 DEF Offsets
  <2>2. edge \in Int
    BY <1>0, <1>1
  <2>3. Chunk(a, d) = {k \in Offsets : k >= d /\ k <= edge}
    BY <1>3 DEF Chunk
  <2>4. \A k : k \in Offsets <=> k \in Nat /\ k <= RecordSize - 1
    BY <1>0 DEF Offsets
  <2> HIDE DEF edge
  <2> QED BY <1>0, <2>2, <2>3, <2>4
<1>5. Cardinality(d .. m) = m - d + 1
  BY <1>0, <1>2, FS_Interval DEF Offsets
<1> QED BY <1>0, <1>2, <1>4, <1>5 DEF Offsets

LEMMA EraseErases ==
  ASSUME NEW f \in [Cells -> Cell], NEW d \in Blocks,
         \A c \in Cells : c \div BlockSize < d => f[c] = Erased
  PROVE  /\ EraseBlock(f, d) \in [Cells -> Cell]
         /\ \A c \in Cells : c \div BlockSize < d + 1 => EraseBlock(f, d)[c] = Erased
         /\ d + 1 \notin Blocks => \A c \in Cells : EraseBlock(f, d)[c] = Erased
<1>0. /\ BlockSize \in Nat \ {0} /\ SectorSize \in Nat \ {0} /\ SectorSize % BlockSize = 0
      /\ d \in Nat
  BY GeometryAssumption DEF Blocks
<1>1. EraseBlock(f, d) \in [Cells -> Cell]
  BY DEF EraseBlock, Cell
<1>2. \A c \in Cells : c \div BlockSize \in Nat
  BY <1>0 DEF Cells
<1>3. \A c \in Cells : c \div BlockSize < d + 1 => EraseBlock(f, d)[c] = Erased
  <2>1. \A n \in Nat : n < d + 1 => n < d \/ n = d
    BY <1>0
  <2> QED BY <1>2, <2>1 DEF EraseBlock
<1>4. ASSUME d + 1 \notin Blocks, NEW c \in Cells PROVE c \div BlockSize < d + 1
  <2> DEFINE n == SectorSize \div BlockSize
  <2>1. n \in Nat /\ n * BlockSize = SectorSize
    BY <1>0
  <2>2. n <= d + 1
    BY <1>0, <1>4, <2>1 DEF Blocks
  <2>3. c \in Nat /\ c < n * BlockSize
    BY <1>0, <2>1 DEF Cells
  <2> HIDE DEF n
  <2>4. c \div BlockSize < n
    <3> DEFINE q == c \div BlockSize
    <3>1. q \in Nat /\ q * BlockSize <= c
      BY <1>0, <2>3
    <3> HIDE DEF q
    <3>2. ~(n <= q)
      BY <1>0, <2>1, <2>3, <3>1, Products
    <3> QED BY <2>1, <3>1, <3>2 DEF q
  <2> QED BY <1>0, <1>2, <2>1, <2>2, <2>4
<1> QED BY <1>1, <1>3, <1>4

-----------------------------------------------------------------------------
(* The places before the one being written are full, those behind it are   *)
(* empty; except that after an interrupted erase old records may lie       *)
(* behind it.                                                              *)
Ordered(f, a) == FullBefore(f, a) /\ (~torn => EmptyAfter(f, a))

Holds(f, a, r) == ReadAt(f, a) = Image(r)

IdleOK ==
  op = "idle" =>
    /\ ~torn => Packed(flash)
    /\ status = "SUCCESS" => rec \in Records /\ Holds(flash, addr, rec) /\ Ordered(flash, addr)

Erasing ==
  op = "erase" =>
    /\ addr = 0 /\ done \in Blocks
    /\ \A c \in Cells : c \div BlockSize < done => flash[c] = Erased

Writing ==
  /\ op \in {"check", "write"} =>
       /\ Ordered(flash, addr)
       /\ ~torn => addr = 0 \/ before = LoadAt(flash, addr - RecordSize)
  /\ op = "check" => done = 0 /\ EmptyAt(flash, addr)
  /\ op = "write" =>
       /\ done \in Offsets
       /\ \A k \in Offsets : flash[addr + k] = IF k < done THEN <<rec, k>> ELSE Erased

JournalTyped ==
  /\ flash \in [Cells -> Cell]
  /\ op \in {"idle", "erase", "check", "write"}
  /\ rec \in Records \cup {"none"} /\ (op # "idle" => rec \in Records)
  /\ addr \in RecordAddrs
  /\ done \in 0 .. SectorSize
  /\ status \in {"none", "SUCCESS"} /\ (op # "idle" => status = "none")
  /\ loaded \in Records \cup {Default} /\ before \in Records \cup {Default}
  /\ torn \in BOOLEAN

IInv == JournalTyped /\ IdleOK /\ Erasing /\ Writing

LEMMA NotErased == ASSUME NEW q \in Records, NEW k \in Offsets PROVE <<q, k>> # Erased
BY RecordsAssumption

LEMMA LoadTyped == ASSUME NEW f PROVE Load(f) \in Records \cup {Default}
<1> DEFINE found == {q \in Records : ReadAt(f, LastRecord(f)) = Image(q)}
<1>1. found # {} => (CHOOSE q \in found : TRUE) \in found
  OBVIOUS
<1> QED BY <1>1 DEF Load

LEMMA OrderedPacks ==
  ASSUME NEW f, NEW a \in RecordAddrs, FullBefore(f, a), EmptyAfter(f, a)
  PROVE  Packed(f)
<1> SUFFICES ASSUME NEW b \in RecordAddrs, NEW c \in RecordAddrs, b < c, EmptyAt(f, b)
             PROVE  EmptyAt(f, c)
  BY DEF Packed
<1>1. ~(b < a)
  BY DEF FullBefore
<1>2. a < c
  BY <1>1, InSector
<1> QED BY <1>2 DEF EmptyAfter

LEMMA InitIInv == Init => IInv
<1> SUFFICES ASSUME Init PROVE IInv
  OBVIOUS
<1>1. JournalTyped
  <2>1. torn \in BOOLEAN
    BY Zenon DEF Init
  <2>2. addr \in RecordAddrs /\ done \in 0 .. SectorSize
    BY FirstPlace, Sizes DEF Init
  <2>3. flash \in [Cells -> Cell]
    BY DEF Init, Cell
  <2> QED BY <2>1, <2>2, <2>3 DEF Init, JournalTyped
<1>2. \A a \in RecordAddrs : EmptyAt(flash, a)
  BY InSector DEF Init, EmptyAt
<1>3. Packed(flash)
  BY <1>2 DEF Packed
<1> QED BY <1>1, <1>3 DEF Init, IInv, IdleOK, Erasing, Writing

LEMMA FlushIInv == ASSUME IInv, NEW r \in Records, Flush(r) PROVE IInv'
<1>0. /\ UNCHANGED <<flash, loaded, torn>> /\ op = "idle" /\ rec' = r /\ done' = 0
      /\ status' = "none" /\ before' = Load(flash)
  BY DEF Flush
<1>1. CASE MustErase(AfterLast(flash))
  <2>1. op' = "erase" /\ addr' = 0
    BY <1>1 DEF Flush
  <2>2. 0 \in Blocks /\ \A c \in Cells : ~(c \div BlockSize < 0)
    BY GeometryAssumption DEF Blocks, Cells
  <2>3. JournalTyped'
    BY <1>0, <2>1, FirstPlace, LoadTyped, Sizes DEF IInv, JournalTyped
  <2> QED BY <1>0, <2>1, <2>2, <2>3 DEF IInv, IdleOK, Erasing, Writing
<1>2. CASE ~MustErase(AfterLast(flash))
  <2>1. op' = "check" /\ addr' = ScanStop(flash) /\ addr' \in RecordAddrs
    BY <1>2, NewPlace DEF Flush
  <2>2. FullBefore(flash, addr') /\ EmptyAt(flash, addr')
    BY <2>1, Scan
  <2>3. ~torn => EmptyAfter(flash, addr')
    BY <1>0, <2>1, <2>2 DEF IInv, IdleOK, Packed, EmptyAfter
  <2>4. ~torn => addr' = 0 \/ before' = LoadAt(flash, addr' - RecordSize)
    BY <1>0, <2>1, <2>2, <2>3, Loads
  <2>5. JournalTyped'
    BY <1>0, <2>1, LoadTyped, Sizes DEF IInv, JournalTyped
  <2>6. Writing'
    BY <1>0, <2>1, <2>2, <2>3, <2>4 DEF Writing, Ordered
  <2> QED BY <1>0, <2>1, <2>5, <2>6 DEF IInv, IdleOK, Erasing
<1> QED BY <1>1, <1>2

LEMMA EraseIInv == ASSUME IInv, EraseNext PROVE IInv'
<1>0. /\ op = "erase" /\ flash' = EraseBlock(flash, done) /\ addr = 0 /\ done \in Blocks
      /\ UNCHANGED <<rec, addr, status, loaded, before>>
  BY DEF EraseNext, IInv, Erasing
<1>1. /\ flash' \in [Cells -> Cell]
      /\ \A c \in Cells : c \div BlockSize < done + 1 => flash'[c] = Erased
      /\ done + 1 \notin Blocks => \A c \in Cells : flash'[c] = Erased
  BY <1>0, EraseErases DEF IInv, JournalTyped, Erasing
<1>2. CASE done + 1 \in Blocks
  <2>1. op' = "erase" /\ done' = done + 1 /\ torn' = torn
    BY <1>2 DEF EraseNext
  <2>2. done' \in 0 .. SectorSize
    <3>1. SectorSize \div BlockSize <= SectorSize
      BY GeometryAssumption
    <3> QED BY <1>2, <2>1, <3>1, GeometryAssumption DEF Blocks
  <2>3. JournalTyped'
    BY <1>0, <1>1, <2>1, <2>2 DEF IInv, JournalTyped
  <2> QED BY <1>0, <1>1, <1>2, <2>1, <2>3 DEF IInv, IdleOK, Erasing, Writing
<1>3. CASE done + 1 \notin Blocks
  <2>1. op' = "check" /\ done' = 0 /\ torn' = FALSE
    BY <1>3 DEF EraseNext
  <2>2. \A a \in RecordAddrs : EmptyAt(flash', a)
    BY <1>1, <1>3, InSector DEF EmptyAt
  <2>3. FullBefore(flash', 0) /\ EmptyAfter(flash', 0)
    BY <2>2, InSector DEF FullBefore, EmptyAfter
  <2>4. JournalTyped'
    <3>1. torn' \in BOOLEAN
      BY <2>1, Zenon
    <3> QED BY <1>0, <1>1, <2>1, <3>1, Sizes DEF IInv, JournalTyped
  <2>5. Writing'
    BY <1>0, <2>1, <2>2, <2>3, FirstPlace DEF Writing, Ordered
  <2> QED BY <2>1, <2>4, <2>5 DEF IInv, IdleOK, Erasing
<1> QED BY <1>2, <1>3

LEMMA Accepted ==
  ASSUME NEW f, NEW a \in RecordAddrs, EmptyAt(f, a)
  PROVE  WriteStatus(f, a) = "SUCCESS"
BY InSector, Sizes DEF WriteStatus

LEMMA CheckIInv == ASSUME IInv, Check PROVE IInv'
<1>1. WriteStatus(flash, addr) = "SUCCESS"
  BY Accepted DEF IInv, JournalTyped, Writing, Check
<1>2. /\ op = "check" /\ op' = "write" /\ done = 0
      /\ UNCHANGED <<status, flash, rec, addr, done, loaded, before, torn>>
  BY <1>1 DEF Check, IInv, Writing
<1>3. JournalTyped'
  BY <1>2 DEF IInv, JournalTyped
<1>4. 0 \in Offsets /\ \A k \in Offsets : ~(k < 0) /\ flash[addr + k] = Erased
  BY <1>2, Sizes DEF IInv, Writing, EmptyAt, Offsets
<1>5. Writing'
  BY <1>2, <1>4 DEF IInv, Writing, Ordered
<1> QED BY <1>2, <1>3, <1>5 DEF IInv, IdleOK, Erasing

(* Programming some of the record leaves the other places alone.           *)
LEMMA ProgramOrdered ==
  ASSUME IInv, op = "write", NEW part, part \subseteq Offsets,
         flash' = Program(flash, addr, Image(rec), part)
  PROVE  /\ flash' \in [Cells -> Cell]
         /\ FullBefore(flash', addr) /\ (~torn => EmptyAfter(flash', addr))
         /\ \A k \in Offsets : flash'[addr + k] = IF k < done \/ k \in part THEN <<rec, k>> ELSE Erased
         /\ \A b \in RecordAddrs : b # addr => ReadAt(flash', b) = ReadAt(flash, b)
<1>0. /\ rec \in Records /\ addr \in RecordAddrs /\ flash \in [Cells -> Cell]
      /\ FullBefore(flash, addr) /\ (~torn => EmptyAfter(flash, addr))
      /\ \A k \in Offsets : flash[addr + k] = IF k < done THEN <<rec, k>> ELSE Erased
  BY DEF IInv, JournalTyped, Writing, Ordered
<1>1. /\ flash' \in [Cells -> Cell]
      /\ \A k \in Offsets : flash'[addr + k] = IF k \in part THEN <<rec, k>> ELSE flash[addr + k]
      /\ \A b \in RecordAddrs : b # addr => (EmptyAt(flash', b) <=> EmptyAt(flash, b))
      /\ \A b \in RecordAddrs : b # addr => ReadAt(flash', b) = ReadAt(flash, b)
  BY <1>0, Programmed
<1>2. \A b \in RecordAddrs : b < addr \/ addr < b => b # addr
  BY <1>0, InSector
<1>3. FullBefore(flash', addr) /\ (~torn => EmptyAfter(flash', addr))
  BY <1>0, <1>1, <1>2 DEF FullBefore, EmptyAfter
<1> QED BY <1>0, <1>1, <1>3

LEMMA ProgramIInv == ASSUME IInv, ProgramNext PROVE IInv'
<1>0. /\ op = "write" /\ flash' = Program(flash, addr, Image(rec), Chunk(addr, done))
      /\ UNCHANGED <<rec, addr, loaded, before, torn>>
      /\ rec \in Records /\ addr \in RecordAddrs /\ done \in Offsets
  BY DEF ProgramNext, IInv, JournalTyped, Writing
<1>1. PICK m \in Offsets : /\ done <= m /\ Chunk(addr, done) = done .. m
                           /\ done + Cardinality(Chunk(addr, done)) = m + 1
  BY <1>0, Chunks
<1>2. done \in Nat /\ m \in Nat /\ m < RecordSize /\ RecordSize \in Nat
      /\ \A k \in Offsets : k \in Nat /\ k < RecordSize
  BY <1>0, Sizes DEF Offsets
<1>3. Chunk(addr, done) \subseteq Offsets
  BY DEF Chunk
<1>4. /\ flash' \in [Cells -> Cell]
      /\ FullBefore(flash', addr) /\ (~torn => EmptyAfter(flash', addr))
      /\ \A k \in Offsets : flash'[addr + k]
            = IF k < done \/ k \in Chunk(addr, done) THEN <<rec, k>> ELSE Erased
      /\ \A b \in RecordAddrs : b # addr => ReadAt(flash', b) = ReadAt(flash, b)
  BY <1>0, <1>3, ProgramOrdered
<1>5. \A k \in Offsets : flash'[addr + k] = IF k < m + 1 THEN <<rec, k>> ELSE Erased
  <2>1. \A k \in Offsets : (k < done \/ k \in done .. m) <=> k < m + 1
    BY <1>1, <1>2
  <2> QED BY <1>1, <1>4, <2>1
<1>6. CASE m + 1 = RecordSize
  <2>1. op' = "idle" /\ done' = 0 /\ status' = "SUCCESS"
    BY <1>1, <1>6 DEF ProgramNext
  <2>2. ReadAt(flash', addr) = Image(rec)
    BY <1>2, <1>5, <1>6 DEF ReadAt, Image
  <2>3. ~torn => Packed(flash')
    BY <1>0, <1>4, OrderedPacks
  <2>4. JournalTyped'
    BY <1>0, <1>4, <2>1, Sizes DEF IInv, JournalTyped
  <2>5. IdleOK'
    BY <1>0, <1>4, <2>1, <2>2, <2>3 DEF IdleOK, Holds, Ordered
  <2> QED BY <2>1, <2>4, <2>5 DEF IInv, Erasing, Writing
<1>7. CASE m + 1 # RecordSize
  <2>1. op' = "write" /\ done' = m + 1 /\ status' = status
    BY <1>1, <1>7 DEF ProgramNext
  <2>2. done' \in Offsets /\ done' \in 0 .. SectorSize
    BY <1>2, <1>7, <2>1, Sizes, GeometryAssumption DEF Offsets
  <2>3. JournalTyped'
    BY <1>0, <1>4, <2>1, <2>2 DEF IInv, JournalTyped
  <2>4. ~torn => addr = 0 \/ before = LoadAt(flash', addr - RecordSize)
    <3>1. addr # 0 => addr - RecordSize \in RecordAddrs /\ addr - RecordSize # addr
      BY <1>0, <1>2, PlaceBefore, InSector, Sizes
    <3>2. addr # 0 => ReadAt(flash', addr - RecordSize) = ReadAt(flash, addr - RecordSize)
      BY <1>4, <3>1
    <3> QED BY <1>0, <3>2 DEF IInv, Writing, LoadAt
  <2>5. Writing'
    BY <1>0, <1>4, <1>5, <2>1, <2>2, <2>4 DEF Writing, Ordered
  <2> QED BY <2>1, <2>3, <2>5 DEF IInv, IdleOK, Erasing
<1> QED BY <1>6, <1>7

LEMMA BootIInv ==
  ASSUME flash' \in [Cells -> Cell], torn' \in BOOLEAN, ~torn' => Packed(flash'), Boot(flash')
  PROVE  IInv'
<1>1. JournalTyped'
  BY LoadTyped, FirstPlace, Sizes DEF Boot, JournalTyped
<1> QED BY <1>1 DEF Boot, IInv, IdleOK, Erasing, Writing

LEMMA ResetIInv == ASSUME IInv, Reset PROVE IInv'
<1>1. /\ UNCHANGED <<flash, torn>> /\ Boot(flash) /\ op = "idle"
  BY DEF Reset
<1>2. Boot(flash')
  BY <1>1
<1> QED BY <1>1, <1>2, BootIInv DEF IInv, JournalTyped, IdleOK

LEMMA PowerLossIInv == ASSUME IInv, PowerLoss PROVE IInv'
<1>0. Boot(flash')
  BY DEF PowerLoss
<1>1. CASE op = "erase"
  BY <1>0, <1>1, BootIInv DEF PowerLoss, IInv, JournalTyped
<1>2. CASE op = "check"
  <2>1. UNCHANGED <<flash, torn>>
    BY <1>2 DEF PowerLoss
  <2>2. ~torn => Packed(flash)
    BY <1>2, OrderedPacks DEF IInv, JournalTyped, Writing, Ordered
  <2> QED BY <1>0, <2>1, <2>2, BootIInv DEF IInv, JournalTyped
<1>3. CASE op = "write"
  <2>1. PICK part \in SUBSET Chunk(addr, done) :
          flash' = Program(flash, addr, Image(rec), part)
    BY <1>3 DEF PowerLoss
  <2>2. part \subseteq Offsets /\ UNCHANGED torn
    BY <1>3 DEF PowerLoss, Chunk
  <2>3. /\ flash' \in [Cells -> Cell]
        /\ FullBefore(flash', addr) /\ (~torn => EmptyAfter(flash', addr))
    BY <1>3, <2>1, <2>2, ProgramOrdered
  <2>4. ~torn => Packed(flash')
    BY <2>3, OrderedPacks DEF IInv, JournalTyped
  <2> QED BY <1>0, <2>2, <2>3, <2>4, BootIInv DEF IInv, JournalTyped
<1> QED BY <1>1, <1>2, <1>3 DEF PowerLoss

LEMMA StepIInv == IInv /\ [Next]_vars => IInv'
<1> SUFFICES ASSUME IInv, [Next]_vars PROVE IInv'
  OBVIOUS
<1>1. CASE \E r \in Records : Flush(r)
  BY <1>1, FlushIInv
<1>2. CASE EraseNext
  BY <1>2, EraseIInv
<1>3. CASE Check
  BY <1>3, CheckIInv
<1>4. CASE ProgramNext
  BY <1>4, ProgramIInv
<1>5. CASE Reset
  BY <1>5, ResetIInv
<1>6. CASE PowerLoss
  BY <1>6, PowerLossIInv
<1>7. CASE UNCHANGED vars
  BY <1>7 DEF vars, IInv, JournalTyped, IdleOK, Erasing, Writing, Ordered, Holds
<1> QED BY <1>1, <1>2, <1>3, <1>4, <1>5, <1>6, <1>7 DEF Next

LEMMA IInvInvariant == Spec => []IInv
BY InitIInv, StepIInv, PTL DEF Spec

(* Whatever flushes, erases and losses of power do to the flash, a cell is *)
(* erased or holds a cell of a record, and a flush is at a place for one   *)
(* (flashmgr_append_record).                                               *)
THEOREM JournalKeepsTypes == Spec => []TypeOK
<1>1. IInv => TypeOK
  BY DEF IInv, JournalTyped, TypeOK, Cell
<1> QED BY <1>1, IInvInvariant, PTL

-----------------------------------------------------------------------------
(* No flush is refused: a record goes where the scan found an empty place  *)
(* inside the sector, or to the start of an erased one.                    *)
THEOREM NeverRefusesAFlush == Spec => []NeverRefused
<1>1. IInv => NeverRefused
  BY DEF IInv, JournalTyped, NeverRefused
<1> QED BY <1>1, IInvInvariant, PTL

LEMMA FlushedInv == IInv => FlushedIsRead
<1> SUFFICES ASSUME IInv, op = "idle", status = "SUCCESS", ~torn
             PROVE  Load(flash) = rec
  BY DEF FlushedIsRead
<1>1. /\ rec \in Records /\ addr \in RecordAddrs /\ ReadAt(flash, addr) = Image(rec)
      /\ FullBefore(flash, addr) /\ EmptyAfter(flash, addr)
  BY DEF IInv, JournalTyped, IdleOK, Holds, Ordered
<1>2. ~EmptyAt(flash, addr)
  <2>1. 0 \in Offsets
    BY Sizes DEF Offsets
  <2>2. flash[addr + 0] = <<rec, 0>>
    BY <1>1, <2>1 DEF ReadAt, Image
  <2> QED BY <1>1, <2>1, <2>2, NotErased DEF EmptyAt
<1> QED BY <1>1, <1>2, Loads, LoadsImage

LEMMA FlushedNow == IInv' => FlushedIsRead'
BY FlushedInv, PTL

(* A flush that reports SUCCESS is what the next boot reads.               *)
THEOREM FlushedIsAlwaysRead == Spec => []FlushedIsRead
BY FlushedInv, IInvInvariant, PTL

-----------------------------------------------------------------------------
(* The journal as a register.                                              *)
LEMMA FlushStarts ==
  ASSUME IInv, NEW r \in Records, Flush(r)
  PROVE  Register!Next
<1>1. /\ op = "idle" /\ op' # "idle" /\ rec' = r /\ before' = Load(flash)
      /\ UNCHANGED <<loaded, torn>>
  BY DEF Flush
<1> QED BY <1>1 DEF Register!Next, Register!Promised, Register!StartFlush, Register!NoFlush

LEMMA EraseStutters ==
  ASSUME IInv, EraseNext
  PROVE  Register!Next \/ UNCHANGED Register!rvars
<1>1. op = "erase" /\ op' # "idle" /\ UNCHANGED <<rec, before, loaded>>
  BY DEF EraseNext
<1>2. CASE torn
  BY <1>2 DEF Register!Next, Register!Corrupted
<1>3. CASE ~torn
  <2>1. torn = FALSE /\ torn' = FALSE
    BY <1>3 DEF EraseNext, IInv, JournalTyped
  <2> QED BY <1>1, <2>1 DEF Register!rvars
<1> QED BY <1>2, <1>3

LEMMA CheckStutters ==
  ASSUME IInv, Check
  PROVE  UNCHANGED Register!rvars
<1>1. WriteStatus(flash, addr) = "SUCCESS"
  BY Accepted DEF IInv, JournalTyped, Writing, Check
<1>2. op = "check" /\ op' = "write" /\ UNCHANGED <<rec, before, loaded, torn>>
  BY <1>1 DEF Check
<1> QED BY <1>2 DEF Register!rvars

LEMMA ProgramEnds ==
  ASSUME IInv, IInv', ProgramNext
  PROVE  Register!Next \/ UNCHANGED Register!rvars
<1>1. op = "write" /\ UNCHANGED <<rec, before, loaded, torn>>
  BY DEF ProgramNext
<1>2. CASE op' = "write"
  BY <1>1, <1>2 DEF Register!rvars
<1>3. CASE torn
  BY <1>3 DEF Register!Next, Register!Corrupted
<1>4. CASE op' = "idle" /\ status' = "SUCCESS" /\ ~torn
  <2>1. Load(flash') = rec
    <3>1. FlushedIsRead'
      BY FlushedNow
    <3> QED BY <1>1, <1>4, <3>1 DEF FlushedIsRead
  <2>2. rec # "none"
    BY <1>1, RecordsAssumption DEF IInv, JournalTyped
  <2> QED BY <1>1, <1>4, <2>1, <2>2
          DEF Register!Next, Register!Promised, Register!EndFlush, Register!NoFlush
<1> QED BY <1>2, <1>3, <1>4 DEF ProgramNext

(* After a loss of power the sector holds the record before, the new one,  *)
(* or a torn one.                                                          *)
LEMMA LossKeeps ==
  ASSUME IInv, PowerLoss, op # "erase", ~torn
  PROVE  Load(flash') \in {before, rec, Default}
<1>0. /\ rec \in Records /\ addr \in RecordAddrs
      /\ FullBefore(flash, addr) /\ EmptyAfter(flash, addr)
      /\ addr = 0 \/ before = LoadAt(flash, addr - RecordSize)
      /\ addr # 0 => addr - RecordSize \in RecordAddrs /\ addr - RecordSize # addr
  BY PlaceBefore, InSector, Sizes DEF IInv, JournalTyped, Writing, Ordered, PowerLoss
<1>1. CASE op = "check"
  <2>1. flash' = flash
    BY <1>1 DEF PowerLoss
  <2> QED BY <1>0, <1>1, <2>1, Loads DEF IInv, Writing
<1>2. CASE op = "write"
  <2>1. PICK part \in SUBSET Chunk(addr, done) :
          flash' = Program(flash, addr, Image(rec), part)
    BY <1>2 DEF PowerLoss
  <2>2. part \subseteq Offsets
    BY DEF Chunk
  <2>3. /\ FullBefore(flash', addr) /\ EmptyAfter(flash', addr)
        /\ \A k \in Offsets : flash'[addr + k] \in {<<rec, k>>, Erased}
        /\ \A b \in RecordAddrs : b # addr => ReadAt(flash', b) = ReadAt(flash, b)
    BY <1>2, <2>1, <2>2, ProgramOrdered
  <2>4. CASE EmptyAt(flash', addr)
    <3>1. addr # 0 => LoadAt(flash', addr - RecordSize) = LoadAt(flash, addr - RecordSize)
      <4>1. addr # 0 => ReadAt(flash', addr - RecordSize) = ReadAt(flash, addr - RecordSize)
        BY <1>0, <2>3
      <4> QED BY <4>1, SameLoad
    <3>2. /\ addr = 0 => Load(flash') = Default
          /\ addr # 0 => Load(flash') = LoadAt(flash', addr - RecordSize)
      BY <1>0, <2>3, <2>4, Loads
    <3> QED BY <1>0, <3>1, <3>2
  <2>5. CASE ~EmptyAt(flash', addr)
    <3>1. PICK k \in Offsets : flash'[addr + k] = <<rec, k>>
      BY <2>3, <2>5 DEF EmptyAt
    <3>2. \A q \in Records : ReadAt(flash', addr) = Image(q) => q = rec
      <4> SUFFICES ASSUME NEW q \in Records, ReadAt(flash', addr) = Image(q) PROVE q = rec
        OBVIOUS
      <4>1. ReadAt(flash', addr)[k] = <<rec, k>>
        BY <3>1 DEF ReadAt
      <4>2. Image(q)[k] = <<q, k>>
        BY DEF Image
      <4> QED BY <4>1, <4>2
    <3>3. LoadAt(flash', addr) \in {rec, Default}
      <4> DEFINE found == {q \in Records : ReadAt(flash', addr) = Image(q)}
      <4>1. found = {} \/ (CHOOSE q \in found : TRUE) \in found
        OBVIOUS
      <4>2. \A q \in found : q = rec
        BY <3>2
      <4> QED BY <4>1, <4>2 DEF LoadAt
    <3> QED BY <1>0, <2>3, <2>5, <3>3, Loads
  <2> QED BY <2>4, <2>5
<1> QED BY <1>1, <1>2 DEF PowerLoss

LEMMA PowerLossInterrupts ==
  ASSUME IInv, PowerLoss
  PROVE  Register!Next
<1>1. CASE op = "erase"
  <2>1. torn'
    BY <1>1, Zenon DEF PowerLoss
  <2> QED BY <2>1 DEF Register!Next, Register!Corrupted
<1>2. CASE torn
  BY <1>2 DEF Register!Next, Register!Corrupted
<1>3. CASE op # "erase" /\ ~torn
  <2>1. /\ op # "idle" /\ op' = "idle" /\ loaded' = Load(flash') /\ UNCHANGED torn
    BY <1>3 DEF PowerLoss, Boot
  <2>2. Load(flash') \in {before, rec, Default}
    BY <1>3, LossKeeps
  <2>3. rec # "none"
    BY <2>1, RecordsAssumption DEF IInv, JournalTyped
  <2> QED BY <2>1, <2>2, <2>3
          DEF Register!Next, Register!Promised, Register!Interrupt, Register!NoFlush
<1> QED BY <1>1, <1>2, <1>3

LEMMA ResetRestarts ==
  ASSUME Reset
  PROVE  Register!Next
<1>1. op = "idle" /\ op' = "idle" /\ loaded' = Load(flash) /\ UNCHANGED <<flash, torn>>
  BY DEF Reset, Boot
<1> QED BY <1>1 DEF Register!Next, Register!Promised, Register!Restart, Register!NoFlush

(* The journal is a register that keeps the last record flushed, through   *)
(* resets and losses of power, except while an interrupted erase has left  *)
(* it corrupt.                                                             *)
THEOREM JournalIsRegister == Spec => ImplementsRegister
<1>1. Init => Register!Init
  <2> SUFFICES ASSUME Init PROVE Register!Init
    OBVIOUS
  <2>1. 0 \in RecordAddrs /\ EmptyAt(flash, 0)
    BY FirstPlace, InSector DEF Init, EmptyAt
  <2>2. Load(flash) = Default
    BY <2>1 DEF Load, NothingWritten
  <2> QED BY <2>2 DEF Init, Register!Init, Register!NoFlush
<1>2. IInv /\ IInv' /\ [Next]_vars => [Register!Next]_(Register!rvars)
  <2> SUFFICES ASSUME IInv, IInv', [Next]_vars
               PROVE  Register!Next \/ UNCHANGED Register!rvars
    OBVIOUS
  <2>1. CASE UNCHANGED vars
    BY <2>1 DEF vars, Register!rvars
  <2> QED BY <2>1, FlushStarts, EraseStutters, CheckStutters, ProgramEnds, PowerLossInterrupts,
             ResetRestarts DEF Next
<1> QED BY <1>1, <1>2, IInvInvariant, PTL DEF Spec, ImplementsRegister, Register!Spec
=============================================================================
