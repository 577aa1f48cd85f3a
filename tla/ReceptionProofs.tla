-------------------------- MODULE ReceptionProofs ---------------------------
(***************************************************************************)
(* The way of a byte from the receive interrupt to a message.              *)
(*                                                                         *)
(* For every size of the ring buffer and any number of clears and          *)
(* interrupts, the superloop never pops from an empty buffer, and the      *)
(* buffer implements a queue.                                              *)
(*                                                                         *)
(* For every frame size, every set of messages and any number of faults    *)
(* and filler bytes, the KISS parser takes the message of an intact frame, *)
(* loses one frame at most before it is in step again, and hands on one    *)
(* piece of garbage at most with an intact frame.                          *)
(***************************************************************************)
EXTENDS RingBuf, KissLink, SequenceTheorems, WellFoundedInduction, TLAPS

-----------------------------------------------------------------------------
(* The ring buffer                                                         *)

(* Between the two reads of w a push can fill an empty buffer but nothing  *)
(* can empty a filled one: w behind r stays different from r, and a length *)
(* that is not zero, also one computed from a w that has wrapped, comes    *)
(* from indices that differ.                                               *)
FilledOnceSeen == pc \in {"behind", "copy", "advance"} => w # r

IInv == TypeOK /\ FilledOnceSeen

(* The index after an index is an index.                                   *)
LEMMA SuccIndex == ASSUME NEW k \in Index PROVE Succ(k) \in Index
  BY SizeAssumption DEF Succ, Index

LEMMA InitIInv == Init => IInv
  BY SizeAssumption DEF Init, IInv, TypeOK, FilledOnceSeen, Index, Zero, Nothing

(* A push leaves the indices different if they were, since it stops short  *)
(* of r.                                                                   *)
LEMMA PushIInv == ASSUME IInv, NEW b \in Bytes, Push(b) PROVE IInv'
<1>1. Succ(w) \in Index
  BY SuccIndex DEF IInv, TypeOK
<1>2. w' \in Index /\ data' \in [Index -> Bytes \cup {Zero}]
  BY <1>1 DEF IInv, TypeOK, Push
<1>3. w # r => w' # r'
  BY DEF Push
<1> QED
  BY <1>2, <1>3 DEF IInv, TypeOK, FilledOnceSeen, Push

LEMMA CompareIInv == ASSUME IInv, Compare PROVE IInv'
  BY SizeAssumption DEF IInv, TypeOK, FilledOnceSeen, Compare, Index

(* A length of one byte or more comes from indices that differ.            *)
LEMMA SubtractIInv == ASSUME IInv, Subtract PROVE IInv'
<1>1. CASE pc = "behind"
  BY <1>1 DEF IInv, TypeOK, FilledOnceSeen, Subtract
<1>2. CASE pc = "ahead"
  <2>1. w = r => LenAhead = 0
    BY SizeAssumption DEF LenAhead, IInv, TypeOK, Index
  <2>2. pc' = "copy" => w # r
    BY <1>2, <2>1 DEF Subtract
  <2> QED
    BY <1>2, <2>2 DEF IInv, TypeOK, FilledOnceSeen, Subtract
<1> QED
  BY <1>1, <1>2 DEF Subtract

LEMMA PopIInv == ASSUME IInv, Copy \/ Advance PROVE IInv'
<1>1. CASE Copy
  BY <1>1 DEF IInv, TypeOK, FilledOnceSeen, Copy
<1>2. CASE Advance
  <2>1. r' \in Index
    BY <1>2, SuccIndex DEF IInv, TypeOK, Advance
  <2> QED
    BY <1>2, <2>1 DEF IInv, TypeOK, FilledOnceSeen, Advance
<1> QED
  BY <1>1, <1>2

LEMMA ClearIInv == ASSUME IInv, ClearW \/ ClearR \/ Memset PROVE IInv'
<1>0. 0 \in Index
  BY SizeAssumption DEF Index
<1>1. CASE ClearW
  <2>1. clears' \in 0 .. MaxClears
    BY <1>1, SizeAssumption DEF IInv, TypeOK, ClearW
  <2> QED
    BY <1>0, <1>1, <2>1 DEF IInv, TypeOK, FilledOnceSeen, ClearW
<1>2. CASE ClearR
  BY <1>0, <1>2 DEF IInv, TypeOK, FilledOnceSeen, ClearR
<1>3. CASE Memset
  BY <1>0, <1>3 DEF IInv, TypeOK, FilledOnceSeen, Memset
<1> QED
  BY <1>1, <1>2, <1>3

LEMMA StepIInv == IInv /\ [Next]_vars => IInv'
<1> SUFFICES ASSUME IInv, [Next]_vars PROVE IInv'
  OBVIOUS
<1>1. CASE Next
  BY <1>1, PushIInv, CompareIInv, SubtractIInv, PopIInv, ClearIInv DEF Next, Superloop
<1>2. CASE UNCHANGED vars
  BY <1>2 DEF vars, IInv, TypeOK, FilledOnceSeen
<1> QED
  BY <1>1, <1>2

LEMMA IInvInvariant == Spec => []IInv
<1>1. Init => IInv
  BY InitIInv
<1>2. IInv /\ [Next]_vars => IInv'
  BY StepIInv
<1> QED
  BY <1>1, <1>2, PTL DEF Spec

(* The fields of the ring buffer stay in their ranges.                     *)
THEOREM RingBufTyped == Spec => []TypeOK
<1>1. IInv => TypeOK
  BY DEF IInv
<1> QED
  BY <1>1, IInvInvariant, PTL

(* A pop copies a byte out only when there is one, whatever interrupts     *)
(* come between the two reads of w in rb_len.                              *)
THEOREM NeverPopsEmpty == Spec => []PopsOnlyFilled
<1>1. IInv => PopsOnlyFilled
  BY DEF IInv, FilledOnceSeen, PopsOnlyFilled
<1> QED
  BY <1>1, IInvInvariant, PTL

-----------------------------------------------------------------------------
(* The refinement of the queue.                                            *)

(* The byte that was copied is still there when r advances, and while the  *)
(* cells are zeroed the first one is the oldest.                           *)
CopyIsKept == pc = "advance" => byte = data[r]
ZeroedFromR == pc = "memset" => r = 0

QInv == IInv /\ CopyIsKept /\ ZeroedFromR

LEMMA InitQInv == Init => QInv
  BY InitIInv DEF Init, QInv, CopyIsKept, ZeroedFromR

LEMMA StepQInv == QInv /\ [Next]_vars => QInv'
<1> SUFFICES ASSUME QInv, [Next]_vars PROVE CopyIsKept' /\ ZeroedFromR'
  BY StepIInv DEF QInv
<1> USE DEF QInv, CopyIsKept, ZeroedFromR
<1>1. ASSUME NEW b \in Bytes, Push(b) PROVE CopyIsKept' /\ ZeroedFromR'
  <2>1. pc = "advance" => data'[r] = data[r]
    BY <1>1 DEF Push, IInv, TypeOK, FilledOnceSeen
  <2> QED BY <1>1, <2>1 DEF Push
<1>2. CASE Compare \/ Subtract \/ Copy \/ Advance
  BY <1>2 DEF Compare, Subtract, Copy, Advance
<1>3. CASE ClearW \/ ClearR \/ Memset
  BY <1>3 DEF ClearW, ClearR, Memset
<1>4. CASE UNCHANGED vars
  BY <1>4 DEF vars
<1> QED BY <1>1, <1>2, <1>3, <1>4 DEF Next, Superloop

(* Indices modulo Size, without the modulus.                               *)
LEMMA ModFacts ==
  ASSUME NEW a \in Int, 0 - Size <= a, a < 2 * Size
  PROVE  a % Size = IF a < 0 THEN a + Size ELSE IF a < Size THEN a ELSE a - Size
<1>0. Size \in Nat /\ Size > 0
  BY SizeAssumption
<1>1. a < 0 => a % Size = a + Size
  BY <1>0
<1>2. 0 <= a /\ a < Size => a % Size = a
  BY <1>0
<1>3. Size <= a => a % Size = a - Size
  BY <1>0
<1> QED BY <1>0, <1>1, <1>2, <1>3

Count == IF w >= First THEN w - First ELSE w - First + Size

(* The place of the k-th byte, counted from index f.                       *)
Place(f, k) == IF f + k - 1 < Size THEN f + k - 1 ELSE f + k - 1 - Size

LEMMA SuccFacts ==
  ASSUME NEW k \in Index
  PROVE  Succ(k) = IF k = Size - 1 THEN 0 ELSE k + 1
  BY ModFacts, SizeAssumption DEF Succ, Index

LEMMA ContentsFacts ==
  ASSUME TypeOK
  PROVE  /\ First \in Index /\ Count \in 0 .. Size - 1
         /\ Contents = [k \in 1 .. Count |-> data[Place(First, k)]]
         /\ \A k \in 1 .. Count : Place(First, k) \in Index
<1>1. First \in Index /\ w \in Index
  BY SizeAssumption DEF TypeOK, First, Index
<1>2. (w - First) % Size = Count /\ Count \in 0 .. Size - 1
  BY <1>1, ModFacts, SizeAssumption DEF Count, Index
<1>3. \A k \in 1 .. Count : (First + k - 1) % Size = Place(First, k)
  BY <1>1, <1>2, ModFacts, SizeAssumption DEF Place, Index
<1>4. \A k \in 1 .. Count : Place(First, k) \in Index
  BY <1>1, <1>2, SizeAssumption DEF Place, Index
<1> QED BY <1>1, <1>2, <1>3, <1>4 DEF Contents

LEMMA ContentsSeq ==
  ASSUME TypeOK
  PROVE  Contents \in Seq(Bytes \cup {Zero}) /\ Len(Contents) = Count
<1>1. \A k \in 1 .. Count : data[Place(First, k)] \in Bytes \cup {Zero}
  BY ContentsFacts DEF TypeOK
<1> QED BY <1>1, ContentsFacts

(* The same, in the state after a step.                                    *)
LEMMA ContentsNow ==
  TypeOK => /\ First \in Index /\ Count \in 0 .. Size - 1
            /\ Contents = [k \in 1 .. Count |-> data[Place(First, k)]]
BY ContentsFacts

LEMMA ContentsNext ==
  (TypeOK => /\ First \in Index /\ Count \in 0 .. Size - 1
             /\ Contents = [k \in 1 .. Count |-> data[Place(First, k)]])'
BY ContentsNow, PTL

(* What leaves the indices, and the cells between them, leaves the queue.  *)
LEMMA SameContents ==
  ASSUME TypeOK, TypeOK', First' = First, w' = w,
         \A k \in 1 .. Count : data'[Place(First, k)] = data[Place(First, k)]
  PROVE  Contents' = Contents
<1>1. Count' = Count
  BY DEF Count
<1>2. Contents' = [k \in 1 .. Count |-> data'[Place(First, k)]]
  BY <1>1, ContentsNext DEF Place
<1> QED BY <1>2, ContentsFacts

(* Append and Tail, cell by cell.                                          *)
LEMMA AppendCells ==
  ASSUME NEW S, NEW q \in Seq(S), NEW e \in S
  PROVE  Append(q, e) = [k \in 1 .. Len(q) + 1 |-> IF k = Len(q) + 1 THEN e ELSE q[k]]
<1> DEFINE n == Len(q) + 1
           f == [k \in 1 .. n |-> IF k = n THEN e ELSE q[k]]
<1>1. n \in Nat /\ n - 1 = Len(q)
  OBVIOUS
<1>2. \A k \in 1 .. n : f[k] \in S
  BY <1>1, ElementOfSeq
<1>3. \A k \in 1 .. Len(q) : f[k] = q[k]
  BY <1>1
<1>4. f[n] = e
  BY <1>1
<1>5. f \in Seq(S) /\ Len(f) = n
  <2>1. f = [k \in 1 .. n |-> f[k]]
    OBVIOUS
  <2> HIDE DEF f, n
  <2> QED BY <1>1, <1>2, <2>1
<1>6. \A k \in 1 .. n : Append(q, e)[k] = f[k]
  <2> HIDE DEF f
  <2> QED BY <1>1, <1>3, <1>4, AppendProperties
<1> HIDE DEF f
<1>7. Append(q, e) = f
  BY <1>5, <1>6, AppendProperties, SeqEqual
<1> QED BY <1>7 DEF f

LEMMA TailCells ==
  ASSUME NEW S, NEW q \in Seq(S), Len(q) > 0
  PROVE  q # <<>> /\ Tail(q) = [k \in 1 .. Len(q) - 1 |-> q[k + 1]]
<1> DEFINE f == [k \in 1 .. Len(q) - 1 |-> q[k + 1]]
<1>1. Len(q) - 1 \in Nat /\ q # <<>>
  BY EmptySeq
<1>2. \A k \in 1 .. Len(q) - 1 : f[k] \in S
  BY <1>1, ElementOfSeq
<1>3. f \in Seq(S) /\ Len(f) = Len(q) - 1
  BY <1>1, <1>2, LenProperties
<1> QED BY <1>1, <1>3, HeadTailProperties, SeqEqual

LEMMA PushPuts ==
  ASSUME QInv, QInv', NEW b \in Bytes, Push(b)
  PROVE  Queue!Next \/ UNCHANGED Queue!fvars
<1>0. TypeOK /\ TypeOK' /\ Size \in Nat /\ Size > 1 /\ w \in Index /\ r \in Index
  BY SizeAssumption DEF QInv, IInv, TypeOK
<1>1. UNCHANGED <<r, pc, out>> /\ First' = First
  BY DEF Push, First
<1>2. CASE Succ(w) = r
  <2>1. Contents' = Contents
    BY <1>0, <1>1, <1>2, SameContents DEF Push
  <2> QED BY <1>1, <2>1 DEF Queue!fvars
<1>3. CASE Succ(w) # r /\ pc = "clear_r" /\ w = Size - 1
  <2>1. Count' = 0
    BY <1>0, <1>1, <1>3, SuccFacts DEF Push, Count, First
  <2>2. Contents' = <<>>
    BY <1>0, <2>1, ContentsNext
  <2>3. (pc \in {"clear_r", "memset"})' = TRUE
    BY <1>1, <1>3
  <2> QED BY <1>1, <2>2, <2>3 DEF Queue!Next, Queue!Clear
<1>4. CASE Succ(w) # r /\ ~(pc = "clear_r" /\ w = Size - 1)
  <2>1. Count' = Count + 1 /\ Count < Size - 1 /\ Count \in Nat /\ First \in Index
    <3>1. w' = IF w = Size - 1 THEN 0 ELSE w + 1
      BY <1>0, <1>4, SuccFacts DEF Push
    <3>2. First \in Index /\ (w = Size - 1 => First # 0) /\ (w # Size - 1 => w + 1 # First)
      <4>1. CASE pc = "clear_r"
        BY <1>0, <1>4, <4>1 DEF First, Index
      <4>2. CASE pc # "clear_r"
        <5>1. (IF w = Size - 1 THEN 0 ELSE w + 1) # r
          BY <1>0, <1>4, SuccFacts
        <5> QED BY <1>0, <4>2, <5>1 DEF First
      <4> QED BY <4>1, <4>2
    <3>3. Count' = IF w' >= First THEN w' - First ELSE w' - First + Size
      BY <1>1 DEF Count
    <3> QED BY <1>0, <3>1, <3>2, <3>3 DEF Count, Index
  <2>2. data' = [data EXCEPT ![w] = b]
    BY <1>4 DEF Push
  <2>3. Place(First, Count + 1) = w
    BY <1>0, <2>1 DEF Place, Count, Index
  <2>4. \A k \in 1 .. Count : Place(First, k) \in Index /\ Place(First, k) # w
    BY <1>0, <2>1 DEF Place, Count, Index
  <2>5. Contents' = [k \in 1 .. Count + 1 |-> data'[Place(First, k)]]
    BY <1>0, <1>1, <2>1, ContentsNext DEF Place
  <2>6. /\ \A k \in 1 .. Count : data'[Place(First, k)] = data[Place(First, k)]
        /\ data'[Place(First, Count + 1)] = b
    BY <1>0, <2>2, <2>3, <2>4 DEF TypeOK
  <2>7. Contents' = [k \in 1 .. Count + 1 |-> IF k = Count + 1 THEN b ELSE Contents[k]]
    BY <1>0, <2>1, <2>5, <2>6, ContentsFacts
  <2>8. Contents' = Append(Contents, b)
    BY <1>0, <2>1, <2>7, ContentsSeq, AppendCells
  <2>9. Len(Contents) < Size - 1
    BY <1>0, <2>1, ContentsSeq
  <2>10. (pc \in {"clear_r", "memset"})' = (pc \in {"clear_r", "memset"})
    BY <1>1
  <2> QED BY <1>1, <2>8, <2>9, <2>10 DEF Queue!Next, Queue!Put
<1> QED BY <1>2, <1>3, <1>4

LEMMA AdvanceGets ==
  ASSUME QInv, QInv', Advance
  PROVE  Queue!Get
<1>0. TypeOK /\ TypeOK' /\ Size \in Nat /\ Size > 1 /\ w \in Index /\ r \in Index /\ w # r
  BY SizeAssumption DEF QInv, IInv, TypeOK, FilledOnceSeen, Advance
<1>1. /\ r' = Succ(r) /\ out' = data[r] /\ UNCHANGED <<data, w>>
      /\ First = r /\ First' = r' /\ pc = "advance" /\ pc' = "idle"
  BY DEF Advance, First, QInv, CopyIsKept
<1>2. Count > 0 /\ Count' = Count - 1 /\ Count \in Nat
  BY <1>0, <1>1, SuccFacts DEF Count, Index
<1>3. \A k \in 1 .. Count - 1 : Place(r', k) = Place(r, k + 1)
  <2>1. r' = IF r = Size - 1 THEN 0 ELSE r + 1
    BY <1>0, <1>1, SuccFacts
  <2>2. Count \in 0 .. Size - 1
    BY <1>0, ContentsFacts
  <2>3. SUFFICES ASSUME NEW k \in 1 .. Count - 1
                 PROVE  Place(r', k) = Place(r, k + 1)
    OBVIOUS
  <2> QED BY <1>0, <2>1, <2>2, <2>3 DEF Place, Index
<1>4. Contents' = [k \in 1 .. Count - 1 |-> data[Place(r', k)]]
  BY <1>0, <1>1, <1>2, ContentsNext DEF Place
<1>5. Contents' = [k \in 1 .. Count - 1 |-> Contents[k + 1]]
  BY <1>0, <1>1, <1>2, <1>3, <1>4, ContentsFacts
<1>6. Contents # <<>> /\ Contents' = Tail(Contents)
  BY <1>0, <1>2, <1>5, ContentsSeq, TailCells
<1>7. Head(Contents) = data[r]
  <2>1. Contents[1] = data[Place(r, 1)] /\ Place(r, 1) = r
    BY <1>0, <1>1, <1>2, ContentsFacts DEF Place, Index
  <2> QED BY <1>0, <1>6, <2>1, ContentsSeq
<1>8. (pc \in {"clear_r", "memset"})' = FALSE /\ ~(pc \in {"clear_r", "memset"})
  BY <1>1
<1> QED BY <1>1, <1>6, <1>7, <1>8 DEF Queue!Get

LEMMA ClearWClears ==
  ASSUME QInv, QInv', ClearW
  PROVE  Queue!Clear
<1>1. TypeOK' /\ w' = 0 /\ First' = 0 /\ pc' = "clear_r" /\ out' = out
  BY DEF ClearW, First, QInv, IInv
<1>2. Count' = 0
  BY <1>1 DEF Count
<1>3. Contents' = <<>>
  BY <1>1, <1>2, ContentsNext
<1>4. (pc \in {"clear_r", "memset"})' = TRUE
  BY <1>1
<1> QED BY <1>1, <1>3, <1>4 DEF Queue!Clear

LEMMA QuietSteps ==
  ASSUME QInv, QInv', Compare \/ Subtract \/ Copy \/ ClearR \/ UNCHANGED vars
  PROVE  UNCHANGED Queue!fvars
<1>1. UNCHANGED <<data, w, out>> /\ First' = First
  BY DEF Compare, Subtract, Copy, ClearR, vars, First
<1>2. (pc \in {"clear_r", "memset"})' = (pc \in {"clear_r", "memset"})
  BY DEF Compare, Subtract, Copy, ClearR, vars
<1>3. Contents' = Contents
  BY <1>1, SameContents DEF QInv, IInv
<1> QED BY <1>1, <1>2, <1>3 DEF Queue!fvars

(* The last cell is never part of the queue: r is 0 and w at most there.   *)
LEMMA MemsetSpoils ==
  ASSUME QInv, QInv', Memset
  PROVE  Queue!Next \/ UNCHANGED Queue!fvars
<1>0. /\ TypeOK /\ TypeOK' /\ Size \in Nat /\ Size > 1 /\ w \in Index /\ r = 0 /\ i \in Index
      /\ pc = "memset" /\ data' = [data EXCEPT ![i] = Zero] /\ UNCHANGED <<r, w, out>>
      /\ First = 0 /\ First' = 0 /\ Count = w
  BY SizeAssumption
     DEF QInv, IInv, TypeOK, ZeroedFromR, Memset, First, Count, Index
<1>1. \A k \in 1 .. w : Place(0, k) = k - 1 /\ k - 1 \in Index
  BY <1>0 DEF Place, Index
<1>2. CASE i >= w
  <2>1. Contents' = Contents
    <3>1. \A k \in 1 .. w : data'[Place(0, k)] = data[Place(0, k)]
      BY <1>0, <1>1, <1>2 DEF TypeOK, Index
    <3> QED BY <1>0, <3>1, SameContents
  <2>2. CASE pc' = "idle"
    <3>1. (pc \in {"clear_r", "memset"})' = FALSE
      BY <2>2
    <3> QED BY <1>0, <2>1, <3>1 DEF Queue!Next, Queue!Cleared
  <2>3. CASE pc' = "memset"
    <3>1. (pc \in {"clear_r", "memset"})' = (pc \in {"clear_r", "memset"})
      BY <1>0, <2>3
    <3> QED BY <1>0, <2>1, <3>1 DEF Queue!fvars
  <2> QED BY <1>0, <2>2, <2>3 DEF Memset
<1>3. CASE i < w
  <2>1. pc' = "memset"
    BY <1>0, <1>3 DEF Memset, Index
  <2>2. (pc \in {"clear_r", "memset"})' = TRUE /\ (pc \in {"clear_r", "memset"}) = TRUE
    BY <1>0, <2>1
  <2>3. Contents' = [k \in 1 .. w |-> data'[k - 1]] /\ Contents = [k \in 1 .. w |-> data[k - 1]]
    BY <1>0, <1>1, ContentsFacts, ContentsNext DEF Count, Place
  <2>4. i + 1 \in 1 .. w /\ \A k \in 1 .. w : data'[k - 1] = IF k = i + 1 THEN Zero ELSE data[k - 1]
    BY <1>0, <1>1, <1>3 DEF TypeOK, Index
  <2>5. Contents' = [Contents EXCEPT ![i + 1] = Zero] /\ i + 1 \in DOMAIN Contents
    BY <2>3, <2>4
  <2> QED BY <1>0, <2>2, <2>5 DEF Queue!Next, Queue!Spoil
<1> QED BY <1>0, <1>2, <1>3 DEF Index

LEMMA StepSimulates == QInv /\ QInv' /\ [Next]_vars => [Queue!Next]_(Queue!fvars)
<1> SUFFICES ASSUME QInv, QInv', [Next]_vars
             PROVE  Queue!Next \/ UNCHANGED Queue!fvars
  OBVIOUS
<1>1. CASE \E b \in Bytes : Push(b)
  BY <1>1, PushPuts
<1>2. CASE Advance
  BY <1>2, AdvanceGets DEF Queue!Next
<1>3. CASE ClearW
  BY <1>3, ClearWClears DEF Queue!Next
<1>4. CASE Memset
  BY <1>4, MemsetSpoils
<1>5. CASE Compare \/ Subtract \/ Copy \/ ClearR \/ UNCHANGED vars
  BY <1>5, QuietSteps
<1> QED BY <1>1, <1>2, <1>3, <1>4, <1>5 DEF Next, Superloop

(* A ring buffer of any size is a queue of one byte less, whatever the     *)
(* interleaving of interrupts and superloop.                               *)
THEOREM RingIsFifo == Spec => ImplementsFifo
<1>1. Init => Queue!Init
  <2> SUFFICES ASSUME Init PROVE Queue!Init
    OBVIOUS
  <2>1. Contents = <<>>
    <3>1. TypeOK /\ Count = 0
      BY InitIInv DEF IInv, Init, Count, First
    <3> QED BY <3>1, ContentsFacts
  <2>2. (pc \in {"clear_r", "memset"}) = FALSE
    BY DEF Init
  <2> QED BY <2>1, <2>2 DEF Init, Queue!Init
<1>2. QInv /\ [Next]_vars => QInv'
  BY StepQInv
<1> QED BY <1>1, <1>2, InitQInv, StepSimulates, PTL DEF Spec, ImplementsFifo, Queue!Spec

-----------------------------------------------------------------------------
(* The KISS link                                                           *)

(* A set of naturals with 0 and the successors of its elements has all.    *)
LEMMA Induct ==
  ASSUME NEW S \in SUBSET Nat, 0 \in S, \A n \in S : n + 1 \in S
  PROVE  \A n \in Nat : n \in S
<1> DEFINE T == Nat \ S
<1>1. SUFFICES ASSUME T # {} PROVE FALSE
  OBVIOUS
<1>2. PICK n \in T : \A m \in T : <<m, n>> \notin OpToRel(<, Nat)
  BY <1>1, WFMin, NatLessThanWellFounded
<1>3. \A m \in T : ~(m < n)
  BY <1>2 DEF OpToRel
<1>4. n # 0 /\ n \in Nat /\ n - 1 \in Nat /\ (n - 1) + 1 = n
  OBVIOUS
<1>5. n - 1 \in S
  BY <1>3, <1>4
<1> QED BY <1>4, <1>5

(* Facts about sequences of bytes.                                         *)
LEMMA Concatenated ==
  \A s, t \in Seq(Byte) : s \o t \in Seq(Byte)
  BY ConcatProperties

LEMMA Associates ==
  \A s, t, u \in Seq(Byte) : (s \o t) \o u = s \o (t \o u)
<1> SUFFICES ASSUME NEW s \in Seq(Byte), NEW t \in Seq(Byte), NEW u \in Seq(Byte)
             PROVE  (s \o t) \o u = s \o (t \o u)
  OBVIOUS
<1> QED BY ConcatAssociative

LEMMA WithEmpty ==
  \A s \in Seq(Byte) : <<>> \o s = s /\ s \o <<>> = s
  BY ConcatEmptySeq

(* FlattenSeq is defined by a recursive function f over the indices.       *)
Flattens(f, s, n) ==
  f = [j \in 1 .. n |-> IF j = 1 THEN s[j] ELSE f[j - 1] \o s[j]]

LEMMA Unfold ==
  ASSUME NEW s, NEW n \in Nat, NEW f, Flattens(f, s, n)
  PROVE  /\ DOMAIN f = 1 .. n
         /\ \A j \in 1 .. n : f[j] = IF j = 1 THEN s[j] ELSE f[j - 1] \o s[j]
<1> DEFINE G(j) == IF j = 1 THEN s[j] ELSE f[j - 1] \o s[j]
<1>1. f = [j \in 1 .. n |-> G(j)]
  BY DEF Flattens
<1> HIDE DEF G
<1>2. DOMAIN f = 1 .. n /\ \A j \in 1 .. n : f[j] = G(j)
  BY <1>1
<1> QED BY <1>2 DEF G

LEMMA FlattenExists ==
  ASSUME NEW s
  PROVE  \A n \in Nat : \E f : Flattens(f, s, n)
<1> DEFINE S == {n \in Nat : \E f : Flattens(f, s, n)}
<1>1. 0 \in S
  <2> DEFINE f == [j \in 1 .. 0 |-> <<>>]
             G(j) == IF j = 1 THEN s[j] ELSE f[j - 1] \o s[j]
  <2> HIDE DEF G
  <2>1. f = [j \in 1 .. 0 |-> G(j)]
    OBVIOUS
  <2>2. Flattens(f, s, 0)
    BY <2>1, Zenon DEF Flattens, G
  <2> QED BY <2>2
<1>2. ASSUME NEW n \in S PROVE n + 1 \in S
  <2>1. PICK f : Flattens(f, s, n)
    OBVIOUS
  <2> DEFINE F(j) == IF j = 1 THEN s[j] ELSE f[j - 1] \o s[j]
             g == [j \in 1 .. n + 1 |-> F(j)]
             G(j) == IF j = 1 THEN s[j] ELSE g[j - 1] \o s[j]
  <2>2. \A j \in 1 .. n : f[j] = F(j)
    BY <2>1, Unfold
  <2>3. \A j \in 1 .. n + 1 : j # 1 => g[j - 1] = f[j - 1]
    <3> HIDE DEF F
    <3> QED BY <2>2
  <2> HIDE DEF g
  <2>4. \A j \in 1 .. n + 1 : F(j) = G(j)
    BY <2>3
  <2>5. g = [j \in 1 .. n + 1 |-> G(j)]
    <3> HIDE DEF F, G
    <3> QED BY <2>4 DEF g
  <2>6. Flattens(g, s, n + 1)
    BY <2>5, Zenon DEF Flattens
  <2> QED BY <2>6
<1> HIDE DEF S
<1>3. \A n \in Nat : n \in S
  <2>1. S \in SUBSET Nat
    BY DEF S
  <2> QED BY <1>1, <1>2, <2>1, Induct
<1> QED BY <1>3 DEF S

LEMMA FlattenFacts ==
  ASSUME NEW s \in Seq(Seq(Byte)), s # <<>>
  PROVE  \E f : /\ FlattenSeq(s) = f[Len(s)]
                /\ f[1] = s[1]
                /\ \A j \in 2 .. Len(s) : f[j] = f[j - 1] \o s[j]
<1> DEFINE n == Len(s)
           f == CHOOSE f : Flattens(f, s, n)
<1>1. n \in Nat \ {0}
  OBVIOUS
<1>2. Flattens(f, s, n)
  BY <1>1, FlattenExists
<1>3. FlattenSeq(s) = f[n]
  BY <1>1, Zenon DEF FlattenSeq, Flattens
<1> HIDE DEF f
<1>4. \A j \in 1 .. n : f[j] = IF j = 1 THEN s[j] ELSE f[j - 1] \o s[j]
  BY <1>1, <1>2, Unfold
<1>5. f[1] = s[1]
  BY <1>1, <1>4
<1>6. ASSUME NEW j \in 2 .. n PROVE f[j] = f[j - 1] \o s[j]
  <2>1. j \in 1 .. n /\ j # 1
    BY <1>1
  <2> QED BY <1>4, <2>1, Zenon
<1> QED BY <1>3, <1>5, <1>6

LEMMA FlattenEmpty == FlattenSeq(<<>>) = <<>>
  BY Zenon, Len(<<>>) = 0 DEF FlattenSeq

LEMMA FlattenTyped ==
  ASSUME NEW s \in Seq(Seq(Byte)) PROVE FlattenSeq(s) \in Seq(Byte)
<1>1. CASE s = <<>>
  <2>1. <<>> \in Seq(Byte)
    OBVIOUS
  <2> QED BY <1>1, <2>1, FlattenEmpty
<1>2. CASE s # <<>>
  <2>1. PICK f : /\ FlattenSeq(s) = f[Len(s)]
                 /\ f[1] = s[1]
                 /\ \A j \in 2 .. Len(s) : f[j] = f[j - 1] \o s[j]
    BY <1>2, FlattenFacts
  <2> DEFINE S == {n \in Nat : n < Len(s) => f[n + 1] \in Seq(Byte)}
  <2>2. 0 \in S
    BY <1>2, <2>1
  <2>3. ASSUME NEW n \in S PROVE n + 1 \in S
    <3>1. SUFFICES ASSUME n + 1 < Len(s) PROVE f[(n + 1) + 1] \in Seq(Byte)
      OBVIOUS
    <3>2. f[n + 1] \in Seq(Byte) /\ s[n + 2] \in Seq(Byte)
      BY <3>1
    <3>3. n + 2 \in 2 .. Len(s) /\ (n + 2) - 1 = n + 1 /\ (n + 1) + 1 = n + 2
      BY <3>1
    <3>4. f[n + 2] = f[n + 1] \o s[n + 2]
      BY <2>1, <3>3
    <3> QED BY <3>2, <3>3, <3>4, ConcatProperties
  <2>4. \A n \in Nat : n \in S
    <3> HIDE DEF S
    <3>1. S \in SUBSET Nat
      BY DEF S
    <3> QED BY <2>2, <2>3, <3>1, Induct
  <2>5. Len(s) - 1 \in Nat /\ Len(s) - 1 < Len(s) /\ (Len(s) - 1) + 1 = Len(s)
    BY <1>2
  <2>6. Len(s) - 1 \in S
    BY <2>4, <2>5
  <2>7. f[(Len(s) - 1) + 1] \in Seq(Byte)
    BY <2>5, <2>6
  <2> QED BY <2>1, <2>5, <2>7
<1> QED BY <1>1, <1>2

LEMMA FlattenCons ==
  ASSUME NEW s \in Seq(Seq(Byte)), s # <<>>
  PROVE  FlattenSeq(s) = Head(s) \o FlattenSeq(Tail(s))
<1> DEFINE t == Tail(s)
<1>0. /\ t \in Seq(Seq(Byte)) /\ Len(t) = Len(s) - 1 /\ Len(s) \in Nat /\ Len(s) > 0
      /\ Head(s) = s[1] /\ s[1] \in Seq(Byte)
      /\ \A j \in 1 .. Len(t) : t[j] = s[j + 1] /\ t[j] \in Seq(Byte)
  OBVIOUS
<1> HIDE DEF t
<1>1. PICK f : /\ FlattenSeq(s) = f[Len(s)]
               /\ f[1] = s[1]
               /\ \A j \in 2 .. Len(s) : f[j] = f[j - 1] \o s[j]
  BY FlattenFacts
<1>2. CASE t = <<>>
  <2>1. Len(s) = 1
    BY <1>0, <1>2
  <2>2. FlattenSeq(s) = s[1] /\ FlattenSeq(t) = <<>>
    BY <1>1, <1>2, <2>1, FlattenEmpty
  <2> QED BY <1>0, <2>2, ConcatEmptySeq DEF t
<1>3. CASE t # <<>>
  <2>1. PICK g : /\ FlattenSeq(t) = g[Len(t)]
                 /\ g[1] = t[1]
                 /\ \A j \in 2 .. Len(t) : g[j] = g[j - 1] \o t[j]
    BY <1>0, <1>3, FlattenFacts
  <2>2. Len(t) > 0 /\ Len(t) \in Nat
    BY <1>0, <1>3
  <2> DEFINE P(n) == g[n + 1] \in Seq(Byte) /\ f[n + 2] = s[1] \o g[n + 1]
             S == {n \in Nat : n < Len(t) => P(n)}
  <2>3. P(0)
    <3>1. 2 \in 2 .. Len(s) /\ 2 - 1 = 1 /\ 1 \in 1 .. Len(t) /\ 1 + 1 = 2 /\ 0 + 1 = 1 /\ 0 + 2 = 2
      BY <1>0, <2>2
    <3>2. f[2] = f[1] \o s[2] /\ t[1] = s[2] /\ t[1] \in Seq(Byte)
      BY <1>0, <1>1, <3>1
    <3> QED BY <1>1, <2>1, <3>1, <3>2
  <2>4. ASSUME NEW n \in Nat, n + 1 < Len(t), P(n) PROVE P(n + 1)
    <3>1. n + 2 \in 2 .. Len(t) /\ n + 2 \in 1 .. Len(t) /\ n + 3 \in 2 .. Len(s)
      BY <1>0, <2>4
    <3>2. /\ (n + 2) - 1 = n + 1 /\ (n + 2) + 1 = n + 3 /\ (n + 3) - 1 = n + 2
          /\ (n + 1) + 1 = n + 2 /\ (n + 1) + 2 = n + 3
      OBVIOUS
    <3>3. t[n + 2] \in Seq(Byte) /\ t[n + 2] = s[n + 3]
      BY <1>0, <3>1, <3>2
    <3>4. g[n + 2] = g[n + 1] \o t[n + 2]
      BY <2>1, <3>1, <3>2
    <3>5. f[n + 3] = (s[1] \o g[n + 1]) \o t[n + 2]
      BY <1>1, <2>4, <3>1, <3>2, <3>3
    <3>6. f[n + 3] = s[1] \o g[n + 2]
      <4> HIDE DEF P
      <4>1. s[1] \in Seq(Byte) /\ g[n + 1] \in Seq(Byte) /\ t[n + 2] \in Seq(Byte)
        BY <1>0, <2>4, <3>3 DEF P
      <4>2. (s[1] \o g[n + 1]) \o t[n + 2] = s[1] \o (g[n + 1] \o t[n + 2])
        BY <4>1, Associates, Zenon
      <4> QED BY <3>4, <3>5, <4>2, Zenon
    <3>7. g[n + 2] \in Seq(Byte)
      BY <2>4, <3>3, <3>4, ConcatProperties
    <3> QED BY <3>2, <3>6, <3>7
  <2> HIDE DEF P
  <2>5. 0 \in S /\ \A n \in S : n + 1 \in S
    BY <2>2, <2>3, <2>4
  <2>6. \A n \in Nat : n \in S
    <3>1. S \in SUBSET Nat
      OBVIOUS
    <3> QED BY <2>5, <3>1, Induct, Zenon
  <2>7. Len(t) - 1 \in Nat /\ Len(t) - 1 < Len(t)
    BY <2>2
  <2>8. P(Len(t) - 1)
    BY <2>6, <2>7
  <2>9. (Len(t) - 1) + 1 = Len(t) /\ (Len(t) - 1) + 2 = Len(s)
    BY <1>0, <2>2
  <2> QED BY <1>0, <1>1, <2>1, <2>8, <2>9 DEF P, t
<1> QED BY <1>2, <1>3

-----------------------------------------------------------------------------
LEMMA OneByte ==
  \A b \in Byte : <<b>> \in Seq(Byte)
  OBVIOUS

LEMMA HeadTailOfPrefixed ==
  ASSUME NEW b \in Byte, NEW s \in Seq(Byte)
  PROVE  /\ <<b>> \o s # <<>>
         /\ Head(<<b>> \o s) = b /\ Tail(<<b>> \o s) = s
<1> DEFINE p == <<b>> \o s
<1>1. /\ p \in Seq(Byte) /\ Len(p) = 1 + Len(s) /\ p[1] = b
      /\ \A j \in 1 .. Len(s) : p[j + 1] = s[j]
  BY OneByte, ConcatProperties
<1>2. p # <<>>
  BY <1>1
<1> HIDE DEF p
<1>3. /\ Head(p) = b /\ Tail(p) \in Seq(Byte) /\ Len(Tail(p)) = Len(s)
      /\ \A j \in 1 .. Len(s) : Tail(p)[j] = s[j]
  BY <1>1, <1>2
<1>4. Tail(p) = s
  BY <1>3, SeqEqual
<1> QED BY <1>2, <1>3, <1>4 DEF p

LEMMA HeadPrefixesTail ==
  ASSUME NEW s \in Seq(Byte), s # <<>>
  PROVE  /\ Head(s) \in Byte /\ Tail(s) \in Seq(Byte)
         /\ s = <<Head(s)>> \o Tail(s)
<1>1. /\ Head(s) \in Byte /\ Tail(s) \in Seq(Byte) /\ Head(s) = s[1]
      /\ Len(s) = 1 + Len(Tail(s))
      /\ \A j \in 1 .. Len(Tail(s)) : Tail(s)[j] = s[j + 1]
  BY HeadTailProperties
<1> DEFINE t == Tail(s)
           p == <<Head(s)>> \o t
<1> HIDE DEF t
<1>2. /\ p \in Seq(Byte) /\ Len(p) = 1 + Len(t) /\ p[1] = Head(s)
      /\ \A j \in 1 .. Len(t) : p[j + 1] = t[j]
  BY <1>1, OneByte, ConcatProperties DEF t
<1> HIDE DEF p
<1>3. \A j \in 1 .. Len(s) : j # 1 => j - 1 \in 1 .. Len(t) /\ (j - 1) + 1 = j
  BY <1>1 DEF t
<1>4. \A j \in 1 .. Len(s) : s[j] = p[j]
  BY <1>1, <1>2, <1>3 DEF t
<1>5. s = p
  BY <1>1, <1>2, <1>4, SeqEqual DEF t
<1> QED BY <1>1, <1>5 DEF p, t

LEMMA TailOfAppended ==
  ASSUME NEW s \in Seq(Byte), NEW b \in Byte
  PROVE  Append(s, b) = s \o <<b>>
  BY AppendIsConcat

-----------------------------------------------------------------------------
(* The bytes that are still to come when rest is still to be sent.         *)
Coming(rest) == Stuffed(rest) \o <<"FEND">>

LEMMA EscapeTyped == \A b \in Byte : Escape(b) \in Seq(Byte)
<1> SUFFICES ASSUME NEW b \in Byte PROVE Escape(b) \in Seq(Byte)
  OBVIOUS
<1>1. <<"FESC", "TFEND">> \in Seq(Byte) /\ <<"FESC", "TFESC">> \in Seq(Byte) /\ <<b>> \in Seq(Byte)
  BY DEF Byte
<1> QED BY <1>1 DEF Escape

LEMMA StuffedTyped == \A m \in Seq(Byte) : Stuffed(m) \in Seq(Byte)
<1> SUFFICES ASSUME NEW m \in Seq(Byte) PROVE Stuffed(m) \in Seq(Byte)
  OBVIOUS
<1>1. [k \in DOMAIN m |-> Escape(m[k])] \in Seq(Seq(Byte))
  <2>1. DOMAIN m = 1 .. Len(m) /\ Len(m) \in Nat /\ \A k \in 1 .. Len(m) : m[k] \in Byte
    OBVIOUS
  <2> QED BY <2>1, EscapeTyped
<1> QED BY <1>1, FlattenTyped DEF Stuffed

LEMMA StuffedEmpty == Stuffed(<<>>) = <<>>
<1>1. [k \in DOMAIN <<>> |-> Escape(<<>>[k])] = <<>>
  OBVIOUS
<1> QED BY <1>1, FlattenEmpty DEF Stuffed

LEMMA StuffedCons ==
  ASSUME NEW m \in Seq(Byte), m # <<>>
  PROVE  Stuffed(m) = Escape(Head(m)) \o Stuffed(Tail(m))
<1> DEFINE E(s) == [k \in DOMAIN s |-> Escape(s[k])]
           t == Tail(m)
<1>1. /\ DOMAIN m = 1 .. Len(m) /\ Len(m) \in Nat /\ Len(m) > 0
      /\ \A k \in 1 .. Len(m) : m[k] \in Byte
      /\ t \in Seq(Byte) /\ DOMAIN t = 1 .. Len(t) /\ Len(t) = Len(m) - 1
      /\ \A k \in 1 .. Len(t) : t[k] = m[k + 1] /\ t[k] \in Byte
      /\ Head(m) = m[1]
  OBVIOUS
<1> HIDE DEF t
<1>2. E(m) \in Seq(Seq(Byte)) /\ E(t) \in Seq(Seq(Byte))
  BY <1>1, EscapeTyped
<1>3. /\ Len(E(m)) = Len(m) /\ \A k \in 1 .. Len(m) : E(m)[k] = Escape(m[k])
      /\ Len(E(t)) = Len(t) /\ \A k \in 1 .. Len(t) : E(t)[k] = Escape(t[k])
  BY <1>1
<1> HIDE DEF E
<1>4. E(m) # <<>> /\ Head(E(m)) = Escape(Head(m))
  BY <1>1, <1>2, <1>3
<1>5. Tail(E(m)) = E(t)
  <2>1. /\ Tail(E(m)) \in Seq(Seq(Byte)) /\ Len(Tail(E(m))) = Len(E(m)) - 1
        /\ \A j \in 1 .. Len(Tail(E(m))) : Tail(E(m))[j] = E(m)[j + 1]
    BY <1>2, <1>4, HeadTailProperties
  <2>2. \A j \in 1 .. Len(t) : j + 1 \in 1 .. Len(m)
    BY <1>1
  <2>3. \A j \in 1 .. Len(t) : Tail(E(m))[j] = E(t)[j]
    BY <1>1, <1>3, <2>1, <2>2
  <2> QED BY <1>1, <1>2, <1>3, <2>1, <2>3, SeqEqual
<1> QED BY <1>2, <1>4, <1>5, FlattenCons DEF Stuffed, E, t

LEMMA ComingTyped ==
  \A m \in Seq(Byte) : Coming(m) \in Seq(Byte) /\ Stuffed(m) \in Seq(Byte)
<1>1. <<"FEND">> \in Seq(Byte)
  BY OneByte DEF Byte
<1> QED BY <1>1, StuffedTyped, Concatenated DEF Coming

LEMMA ComingEmpty == Coming(<<>>) = <<"FEND">> /\ <<"FEND">> = <<"FEND">> \o <<>>
<1>1. <<"FEND">> \in Seq(Byte)
  BY OneByte DEF Byte
<1> QED BY <1>1, StuffedEmpty, WithEmpty DEF Coming

LEMMA ComingNotEmpty == \A m \in Seq(Byte) : Coming(m) # <<>>
<1> SUFFICES ASSUME NEW m \in Seq(Byte) PROVE Coming(m) # <<>>
  OBVIOUS
<1>1. Stuffed(m) \in Seq(Byte) /\ <<"FEND">> \in Seq(Byte)
  BY StuffedTyped, OneByte DEF Byte
<1> QED BY <1>1, ConcatEqualIffEmpty DEF Coming

(* An escaped byte sends its code after FESC.                              *)
Code(b) == IF b = "FEND" THEN "TFEND" ELSE "TFESC"

LEMMA ComingCons ==
  ASSUME NEW m \in Seq(Byte), m # <<>>
  PROVE  /\ Head(m) \notin {"FEND", "FESC"} =>
              Coming(m) = <<Head(m)>> \o Coming(Tail(m))
         /\ Head(m) \in {"FEND", "FESC"} =>
              Coming(m) = <<"FESC">> \o (<<Code(Head(m))>> \o Coming(Tail(m)))
<1> DEFINE h == Head(m)
           t == Tail(m)
           F == <<"FEND">>
<1>1. h \in Byte /\ t \in Seq(Byte)
  BY HeadPrefixesTail
<1>2. Stuffed(m) = Escape(h) \o Stuffed(t)
  BY StuffedCons
<1> HIDE DEF h, t
<1>3. Escape(h) \in Seq(Byte) /\ Stuffed(t) \in Seq(Byte) /\ F \in Seq(Byte)
  BY <1>1, EscapeTyped, StuffedTyped, OneByte DEF Byte
<1>4. Coming(m) = Escape(h) \o Coming(t)
  <2>1. (Escape(h) \o Stuffed(t)) \o F = Escape(h) \o (Stuffed(t) \o F)
    BY <1>3, Associates
  <2> QED BY <1>2, <2>1 DEF Coming
<1>5. h \notin {"FEND", "FESC"} => Escape(h) = <<h>>
  BY DEF Escape
<1>6. ASSUME h \in {"FEND", "FESC"}
      PROVE  Coming(m) = <<"FESC">> \o (<<Code(h)>> \o Coming(t))
  <2>1. Escape(h) = <<"FESC", Code(h)>>
    BY <1>6 DEF Escape, Code
  <2>2. <<"FESC">> \in Seq(Byte) /\ <<Code(h)>> \in Seq(Byte)
    BY OneByte DEF Byte, Code
  <2>3. <<"FESC", Code(h)>> = <<"FESC">> \o <<Code(h)>>
    OBVIOUS
  <2>4. Coming(t) \in Seq(Byte)
    BY <1>1, ComingTyped
  <2>5. (<<"FESC">> \o <<Code(h)>>) \o Coming(t) = <<"FESC">> \o (<<Code(h)>> \o Coming(t))
    BY <2>2, <2>4, Associates
  <2> QED BY <1>4, <2>1, <2>3, <2>5
<1> QED BY <1>4, <1>5, <1>6 DEF h, t

LEMMA ConcatFour ==
  ASSUME NEW a \in Seq(Byte), NEW b \in Seq(Byte), NEW c \in Seq(Byte), NEW d \in Seq(Byte)
  PROVE  ((a \o b) \o c) \o d = a \o (b \o (c \o d))
<1>1. a \o b \in Seq(Byte) /\ c \o d \in Seq(Byte)
  BY Concatenated
<1>2. ((a \o b) \o c) \o d = (a \o b) \o (c \o d)
  <2>1. \A p \in Seq(Byte) : (p \o c) \o d = p \o (c \o d)
    BY Associates, Zenon
  <2> QED BY <1>1, <2>1, Zenon
<1>3. (a \o b) \o (c \o d) = a \o (b \o (c \o d))
  <2>1. \A p \in Seq(Byte) : (a \o b) \o p = a \o (b \o p)
    BY Associates, Zenon
  <2> QED BY <1>1, <2>1, Zenon
<1> QED BY <1>2, <1>3, Zenon

LEMMA FrameShape ==
  ASSUME NEW m \in Seq(Byte), FrameOf(m) # <<>>
  PROVE  /\ Len(m) + 3 <= FrameMax
         /\ FrameOf(m) = <<"FEND">> \o (<<"x">> \o Coming(m))
<1>1. Len(m) + 3 <= FrameMax
  BY FrameMaxAssumption DEF FrameOf
<1> DEFINE F == <<"FEND">>
           X == <<"x">>
           S == Stuffed(m)
<1>2. F \in Seq(Byte) /\ X \in Seq(Byte) /\ S \in Seq(Byte) /\ S \o F \in Seq(Byte)
  BY OneByte, StuffedTyped, Concatenated DEF Byte
<1>3. <<"FEND", "x">> = F \o X
  OBVIOUS
<1>4. FrameOf(m) = ((F \o X) \o S) \o F
  BY <1>1, <1>3, FrameMaxAssumption DEF FrameOf, DataFrame
<1> HIDE DEF F, X, S
<1>5. ((F \o X) \o S) \o F = F \o (X \o (S \o F))
  <2>1. F \in Seq(Byte) /\ X \in Seq(Byte) /\ S \in Seq(Byte)
    BY <1>2
  <2>2. \A a, b, c, d \in Seq(Byte) : ((a \o b) \o c) \o d = a \o (b \o (c \o d))
    BY ConcatFour, Zenon
  <2>3. \A c, d \in Seq(Byte) : ((F \o X) \o c) \o d = F \o (X \o (c \o d))
    BY <2>1, <2>2, Zenon
  <2> QED BY <2>1, <2>3, Zenon
<1> QED BY <1>1, <1>4, <1>5 DEF Coming, F, X, S

-----------------------------------------------------------------------------
(* The parser during an intact frame: how much of the message it has       *)
(* taken, or that it waits for the footer because the escape it stood in   *)
(* swallowed the header.  Garbage ends at most once, with the header.      *)
Taken(done, fsm) ==
  parser = IF escaped THEN Waiting ELSE [fsm |-> fsm, buf |-> <<"x">> \o done]

AtHeader ==
  /\ wire = <<"FEND">> \o (<<"x">> \o Coming(msg))
  /\ got = <<>> /\ escaped = (parser.fsm = "IN_ESCAPE")

AfterHeader ==
  /\ wire = <<"x">> \o Coming(msg)
  /\ parser = IF escaped THEN Waiting ELSE Started
  /\ Len(got) <= 1

InBody ==
  /\ Len(got) <= 1
  /\ \E done, rest \in Seq(Byte) :
       /\ msg = done \o rest /\ wire = Coming(rest)
       /\ Taken(done, "IN_FRAME")

InEscape ==
  /\ Len(got) <= 1
  /\ \E done, rest \in Seq(Byte), b \in {"FEND", "FESC"} :
       /\ msg = done \o (<<b>> \o rest) /\ wire = <<Code(b)>> \o Coming(rest)
       /\ Taken(done, "IN_ESCAPE")

Over ==
  /\ wire = <<>> /\ Len(got) <= 2 /\ parser.fsm # "IN_ESCAPE"
  /\ ~escaped /\ msg # <<>> => got # <<>> /\ Last(got) = msg

Progress == intact => AtHeader \/ AfterHeader \/ InBody \/ InEscape \/ Over

Fits == wire # <<>> => Len(msg) + 3 <= FrameMax

LinkInv == LinkTypeOK /\ Fits /\ (before => ~escaped) /\ Progress

LEMMA MsgTyped == ASSUME LinkTypeOK PROVE msg \in Seq(Byte)
<1>1. <<>> \in Seq(Byte)
  OBVIOUS
<1> QED BY <1>1, LinkAssumption DEF LinkTypeOK

LEMMA LinkInitInv == ASSUME LinkInit PROVE LinkInv
<1>1. /\ <<>> \in Seq(Byte) /\ <<>> \in Seq(Seq(Byte)) /\ Len(<<>>) = 0
  OBVIOUS
<1>2. parser \in Parser /\ Len(parser.buf) <= FrameMax /\ parser.fsm # "IN_ESCAPE"
  BY <1>1, FrameMaxAssumption DEF LinkInit, Waiting, Parser
<1>3. LinkTypeOK
  <2>1. msg \in Messages \cup {<<>>} /\ wire \in Seq(Byte) /\ got \in Seq(Seq(Byte))
    BY <1>1 DEF LinkInit
  <2>2. escaped \in BOOLEAN /\ intact \in BOOLEAN /\ before \in BOOLEAN
    BY DEF LinkInit
  <2>3. faults \in 0 .. MaxFaults /\ filler \in 0 .. MaxFiller
    BY LinkAssumption DEF LinkInit
  <2> QED BY <1>2, <2>1, <2>2, <2>3 DEF LinkTypeOK
<1>4. Over
  BY <1>1, <1>2 DEF LinkInit, Over
<1> QED BY <1>3, <1>4 DEF LinkInit, LinkInv, Fits, Progress

(* A byte keeps the parser a parser, and the taken messages messages.      *)
LEMMA ParserTyped ==
  ASSUME NEW p \in Parser, Len(p.buf) <= FrameMax, NEW b \in Byte
  PROVE  /\ Process(p, b) \in Parser /\ Len(Process(p, b).buf) <= FrameMax
         /\ Completes(p, b) => Message(p) \in Seq(Byte)
<1>1. p.buf \in Seq(Byte) /\ p.fsm \in {"WAIT_FEND", "IN_FRAME", "IN_ESCAPE"}
      /\ <<>> \in Seq(Byte) /\ Len(<<>>) = 0
  BY DEF Parser
<1>2. /\ Waiting \in Parser /\ Len(Waiting.buf) <= FrameMax
      /\ Started \in Parser /\ Len(Started.buf) <= FrameMax
  BY <1>1, FrameMaxAssumption DEF Waiting, Started, Parser
<1>3. ASSUME NEW c \in Byte
      PROVE  Store(p, c) \in Parser /\ Len(Store(p, c).buf) <= FrameMax
  <2>1. CASE Len(p.buf) < FrameMax
    <3>1. Append(p.buf, c) \in Seq(Byte) /\ Len(Append(p.buf, c)) = Len(p.buf) + 1
      BY <1>1
    <3>2. Store(p, c) = [fsm |-> "IN_FRAME", buf |-> Append(p.buf, c)]
      BY <2>1 DEF Store
    <3>3. Len(p.buf) + 1 <= FrameMax
      BY <1>1, <2>1, FrameMaxAssumption
    <3> QED BY <3>1, <3>2, <3>3 DEF Parser
  <2>2. CASE ~(Len(p.buf) < FrameMax)
    BY <1>2, <2>2 DEF Store
  <2> QED BY <2>1, <2>2
<1>4. [p EXCEPT !.fsm = "IN_ESCAPE"] \in Parser
      /\ Len([p EXCEPT !.fsm = "IN_ESCAPE"].buf) <= FrameMax
  BY DEF Parser
<1>5. Unescaped(b) \in Byte
  BY DEF Unescaped, Byte
<1>6. Process(p, b) \in Parser /\ Len(Process(p, b).buf) <= FrameMax
  <2>1. Process(p, b) \in {Started, p, [p EXCEPT !.fsm = "IN_ESCAPE"],
                           Store(p, b), Store(p, Unescaped(b)), Waiting}
    <3> HIDE DEF Started, Store, Waiting, Unescaped
    <3> QED BY <1>1 DEF Process
  <2> HIDE DEF Process
  <2> QED BY <1>2, <1>3, <1>4, <1>5, <2>1
<1>7. Completes(p, b) => Message(p) \in Seq(Byte)
  BY <1>1, HeadTailProperties DEF Completes, Message
<1> QED BY <1>6, <1>7

LEMMA ReceiveTyped ==
  ASSUME LinkTypeOK, NEW b \in Byte, Receive(b)
  PROVE  parser' \in Parser /\ Len(parser'.buf) <= FrameMax /\ got' \in Seq(Seq(Byte))
<1>1. parser \in Parser /\ Len(parser.buf) <= FrameMax /\ got \in Seq(Seq(Byte))
  BY DEF LinkTypeOK
<1>2. CASE Completes(parser, b)
  <2>1. Message(parser) \in Seq(Byte)
    BY <1>1, <1>2, ParserTyped
  <2>2. parser' = Started /\ got' = Append(got, Message(parser))
    BY <1>2 DEF Receive, Cleaned
  <2>3. got' \in Seq(Seq(Byte))
    <3> HIDE DEF Message
    <3> QED BY <1>1, <2>1, <2>2
  <2>4. <<>> \in Seq(Byte) /\ Len(<<>>) = 0
    OBVIOUS
  <2>5. parser' \in Parser /\ Len(parser'.buf) <= FrameMax
    BY <2>2, <2>4, FrameMaxAssumption DEF Started, Parser
  <2> QED BY <2>3, <2>5
<1>3. CASE ~Completes(parser, b)
  BY <1>1, <1>3, ParserTyped DEF Receive
<1> QED BY <1>2, <1>3

(* The messages taken grow by one at most.                                 *)
LEMMA ReceiveGrows ==
  ASSUME LinkTypeOK, NEW b \in Byte, Receive(b)
  PROVE  /\ Len(got) \in Nat /\ Len(got') <= Len(got) + 1
         /\ Completes(parser, b) => /\ got' # <<>> /\ Last(got') = Message(parser)
                                    /\ parser' = Started
         /\ ~Completes(parser, b) => got' = got /\ parser' = Process(parser, b)
<1>1. got \in Seq(Seq(Byte)) /\ parser \in Parser /\ Len(parser.buf) <= FrameMax
  BY DEF LinkTypeOK
<1>2. CASE Completes(parser, b)
  <2>1. Message(parser) \in Seq(Byte)
    BY <1>1, <1>2, ParserTyped
  <2>2. got' = Append(got, Message(parser))
    BY <1>2 DEF Receive
  <2>3. /\ got' # <<>> /\ Len(got') = Len(got) + 1 /\ Len(got) \in Nat
        /\ got'[Len(got) + 1] = Message(parser)
    <3> HIDE DEF Message
    <3> QED BY <1>1, <2>1, <2>2, AppendProperties
  <2>4. Last(got') = Message(parser)
    BY <2>3 DEF Last
  <2> QED BY <1>2, <2>3, <2>4 DEF Receive, Cleaned
<1>3. CASE ~Completes(parser, b)
  BY <1>1, <1>3 DEF Receive
<1> QED BY <1>2, <1>3

-----------------------------------------------------------------------------
LEMMA LinkTypeNext == ASSUME LinkTypeOK, [LinkNext]_linkVars PROVE LinkTypeOK'
<1>1. ASSUME NEW m \in Messages, Send(m) PROVE LinkTypeOK'
  <2>1. m \in Seq(Byte)
    BY LinkAssumption
  <2>2. wire' \in Seq(Byte)
    <3>1. FrameOf(m) # <<>>
      BY <1>1 DEF Send
    <3>2. FrameOf(m) = <<"FEND">> \o (<<"x">> \o Coming(m))
      BY <2>1, <3>1, FrameShape
    <3>3. <<"FEND">> \in Seq(Byte) /\ <<"x">> \in Seq(Byte)
      BY OneByte DEF Byte
    <3>4. Coming(m) \in Seq(Byte)
      BY <2>1, ComingTyped
    <3> QED BY <1>1, <3>2, <3>3, <3>4, Concatenated DEF Send
  <2>3. <<>> \in Seq(Seq(Byte))
    OBVIOUS
  <2>4. escaped' \in BOOLEAN /\ intact' \in BOOLEAN /\ before' \in BOOLEAN
    BY <1>1, Zenon DEF Send, LinkTypeOK
  <2>5. msg' \in Messages /\ got' \in Seq(Seq(Byte))
    BY <1>1, <2>3 DEF Send
  <2> QED BY <1>1, <2>2, <2>4, <2>5 DEF Send, LinkTypeOK
<1>2. CASE Deliver
  <2>1. wire \in Seq(Byte) /\ wire # <<>> /\ Receive(Head(wire)) /\ wire' = Tail(wire)
    BY <1>2 DEF Deliver, LinkTypeOK
  <2>2. Head(wire) \in Byte /\ wire' \in Seq(Byte)
    BY <2>1, HeadPrefixesTail
  <2>3. parser' \in Parser /\ Len(parser'.buf) <= FrameMax /\ got' \in Seq(Seq(Byte))
    BY <2>1, <2>2, ReceiveTyped
  <2> QED BY <1>2, <2>2, <2>3 DEF Deliver, LinkTypeOK
<1>3. CASE Fault
  <2>1. wire' \in Seq(Byte)
    BY <1>3, HeadPrefixesTail DEF Fault, LinkTypeOK
  <2>2. parser' \in Parser /\ Len(parser'.buf) <= FrameMax /\ got' \in Seq(Seq(Byte))
    <3>1. CASE UNCHANGED <<parser, got>>
      BY <3>1 DEF LinkTypeOK
    <3>2. CASE \E b \in Byte \ {Head(wire)} : Receive(b)
      BY <3>2, ReceiveTyped
    <3> QED BY <1>3, <3>1, <3>2 DEF Fault
  <2>3. faults' \in 0 .. MaxFaults /\ intact' \in BOOLEAN
    <3>1. faults' = faults + 1 /\ faults < MaxFaults /\ faults \in 0 .. MaxFaults
      BY <1>3 DEF Fault, LinkTypeOK
    <3>2. faults' \in 0 .. MaxFaults
      BY <3>1, LinkAssumption
    <3> QED BY <1>3, <3>2 DEF Fault
  <2> QED BY <1>3, <2>1, <2>2, <2>3 DEF Fault, LinkTypeOK
<1>4. CASE Fill
  <2>1. parser' \in Parser /\ Len(parser'.buf) <= FrameMax /\ got' \in Seq(Seq(Byte))
    BY <1>4, ReceiveTyped DEF Fill, Byte
  <2>2. filler' \in 0 .. MaxFiller
    BY <1>4, LinkAssumption DEF Fill, LinkTypeOK
  <2> QED BY <1>4, <2>1, <2>2 DEF Fill, LinkTypeOK
<1>5. CASE UNCHANGED linkVars
  BY <1>5 DEF linkVars, LinkTypeOK
<1> QED BY <1>1, <1>2, <1>3, <1>4, <1>5 DEF LinkNext

(* An intact frame of which no byte is left has been dealt with.           *)
LEMMA EmptyWireIsOver ==
  ASSUME LinkInv, intact, wire = <<>>
  PROVE  Over
<1>1. msg \in Seq(Byte)
  BY MsgTyped DEF LinkInv
<1>2. ~AtHeader /\ ~AfterHeader
  <2>1. Coming(msg) \in Seq(Byte) /\ "x" \in Byte /\ "FEND" \in Byte
    BY <1>1, ComingTyped DEF Byte
  <2>2. <<"x">> \o Coming(msg) \in Seq(Byte) /\ <<"x">> \o Coming(msg) # <<>>
    BY <2>1, OneByte, Concatenated, HeadTailOfPrefixed
  <2>3. <<"FEND">> \o (<<"x">> \o Coming(msg)) # <<>>
    BY <2>1, <2>2, HeadTailOfPrefixed
  <2> QED BY <2>2, <2>3 DEF AtHeader, AfterHeader
<1>3. ~InBody
  BY ComingNotEmpty DEF InBody
<1>4. ~InEscape
  <2>1. ASSUME NEW rest \in Seq(Byte), NEW b \in {"FEND", "FESC"}
        PROVE  <<Code(b)>> \o Coming(rest) # <<>>
    <3>1. Coming(rest) \in Seq(Byte) /\ Code(b) \in Byte
      BY ComingTyped DEF Code, Byte
    <3> QED BY <3>1, HeadTailOfPrefixed
  <2> QED BY <2>1 DEF InEscape
<1> QED BY <1>2, <1>3, <1>4 DEF LinkInv, Progress

LEMMA SendKeepsInv ==
  ASSUME LinkInv, NEW m \in Messages, Send(m)
  PROVE  Fits' /\ (before' => ~escaped') /\ Progress'
<1>1. m \in Seq(Byte) /\ FrameOf(m) # <<>> /\ wire = <<>>
  BY LinkAssumption DEF Send
<1>2. Len(m) + 3 <= FrameMax /\ FrameOf(m) = <<"FEND">> \o (<<"x">> \o Coming(m))
  BY <1>1, FrameShape
<1>3. Fits'
  BY <1>2 DEF Send, Fits
<1>4. before' => ~escaped'
  <2>1. SUFFICES ASSUME intact PROVE parser.fsm # "IN_ESCAPE"
    BY Zenon DEF Send
  <2> QED BY <1>1, <2>1, EmptyWireIsOver DEF Over
<1>5. AtHeader'
  <2>1. msg' = m /\ wire' = FrameOf(m) /\ got' = <<>> /\ parser' = parser
    BY DEF Send
  <2>2. escaped' = (parser'.fsm = "IN_ESCAPE")
    BY Zenon DEF Send
  <2>3. Coming(msg)' = Coming(m)
    BY <2>1, Zenon DEF Coming, Stuffed
  <2> QED BY <1>2, <2>1, <2>2, <2>3, Zenon DEF AtHeader
<1> QED BY <1>3, <1>4, <1>5 DEF Progress

(* The header ends at most one piece of garbage.                           *)
LEMMA HeaderStep ==
  ASSUME LinkInv, Deliver, intact, AtHeader
  PROVE  AfterHeader'
<1>1. msg \in Seq(Byte) /\ Coming(msg) \in Seq(Byte)
  BY MsgTyped, ComingTyped DEF LinkInv
<1>2. <<"x">> \o Coming(msg) \in Seq(Byte)
  BY <1>1, OneByte, Concatenated DEF Byte
<1>3. Head(wire) = "FEND" /\ Tail(wire) = <<"x">> \o Coming(msg)
  BY <1>2, HeadTailOfPrefixed DEF AtHeader, Byte
<1>4. /\ wire' = <<"x">> \o Coming(msg) /\ msg' = msg /\ escaped' = escaped
      /\ Receive("FEND")
  BY <1>3 DEF Deliver
<1>5. wire' = <<"x">> \o Coming(msg')
  BY <1>4
<1>6. parser \in Parser /\ "FEND" \in Byte /\ LinkTypeOK /\ got = <<>> /\ Len(<<>>) = 0
  BY DEF LinkInv, LinkTypeOK, Byte, AtHeader
<1>7. /\ Len(got') <= Len(got) + 1
      /\ Completes(parser, "FEND") => parser' = Started
      /\ ~Completes(parser, "FEND") => got' = got /\ parser' = Process(parser, "FEND")
  BY <1>4, <1>6, ReceiveGrows
<1>8. Len(got') <= 1
  BY <1>6, <1>7
<1>9. parser' = IF escaped' THEN Waiting ELSE Started
  <2>1. CASE parser.fsm = "IN_ESCAPE"
    <3>1. ~Completes(parser, "FEND") /\ Process(parser, "FEND") = Waiting
      BY <2>1 DEF Completes, Process
    <3>2. escaped'
      BY <1>4, <2>1, Zenon DEF AtHeader
    <3> QED BY <1>7, <3>1, <3>2
  <2>2. CASE parser.fsm = "WAIT_FEND"
    <3>1. ~Completes(parser, "FEND") /\ Process(parser, "FEND") = Started
      BY <2>2 DEF Completes, Process
    <3>2. ~escaped'
      <4>1. parser.fsm # "IN_ESCAPE"
        BY <2>2
      <4> QED BY <1>4, <4>1, Zenon DEF AtHeader
    <3> QED BY <1>7, <3>1, <3>2
  <2>3. CASE parser.fsm = "IN_FRAME"
    <3>1. parser = [fsm |-> "IN_FRAME", buf |-> parser.buf]
      BY <1>6, <2>3 DEF Parser
    <3>2. ~Completes(parser, "FEND") => Process(parser, "FEND") = Started
      <4>1. Process(parser, "FEND") = parser
        BY <2>3 DEF Process
      <4> QED BY <2>3, <3>1, <4>1 DEF Completes, Started
    <3>3. ~escaped'
      <4>1. parser.fsm # "IN_ESCAPE"
        BY <2>3
      <4> QED BY <1>4, <4>1, Zenon DEF AtHeader
    <3> QED BY <1>7, <3>2, <3>3
  <2> QED BY <1>6, <2>1, <2>2, <2>3 DEF Parser
<1> QED BY <1>5, <1>8, <1>9 DEF AfterHeader, Coming, Stuffed

(* What the parser does with the bytes of an intact frame.                 *)
LEMMA ParserWaits ==
  /\ \A b \in Byte \ {"FEND"} : ~Completes(Waiting, b) /\ Process(Waiting, b) = Waiting
  /\ ~Completes(Waiting, "FEND") /\ Process(Waiting, "FEND") = Started
<1>1. Waiting.fsm = "WAIT_FEND"
  BY DEF Waiting
<1>2. ASSUME NEW b \in Byte \ {"FEND"} PROVE Process(Waiting, b) = Waiting
  BY <1>1 DEF Process
<1>3. Process(Waiting, "FEND") = Started
  BY <1>1 DEF Process
<1> QED BY <1>1, <1>2, <1>3 DEF Completes

LEMMA ParserTakes ==
  ASSUME NEW buf \in Seq(Byte), Len(buf) < FrameMax, buf # <<>>
  PROVE  LET p == [fsm |-> "IN_FRAME", buf |-> buf]
             q == [fsm |-> "IN_ESCAPE", buf |-> buf]
         IN  /\ \A b \in Byte \ {"FEND", "FESC"} :
                  ~Completes(p, b) /\ Process(p, b) = [fsm |-> "IN_FRAME", buf |-> buf \o <<b>>]
             /\ ~Completes(p, "FESC") /\ Process(p, "FESC") = q
             /\ Completes(p, "FEND") /\ Message(p) = Tail(buf)
             /\ \A b \in {"FEND", "FESC"} :
                  /\ ~Completes(q, Code(b))
                  /\ Process(q, Code(b)) = [fsm |-> "IN_FRAME", buf |-> buf \o <<b>>]
<1> DEFINE p == [fsm |-> "IN_FRAME", buf |-> buf]
           q == [fsm |-> "IN_ESCAPE", buf |-> buf]
<1>1. /\ p.fsm = "IN_FRAME" /\ p.buf = buf /\ q.fsm = "IN_ESCAPE" /\ q.buf = buf
      /\ [p EXCEPT !.fsm = "IN_ESCAPE"] = q
  OBVIOUS
<1> HIDE DEF p, q
<1>2. \A b \in Byte : Append(buf, b) = buf \o <<b>>
  BY AppendIsConcat
<1>3. ASSUME NEW b \in Byte \ {"FEND", "FESC"}
      PROVE  ~Completes(p, b) /\ Process(p, b) = [fsm |-> "IN_FRAME", buf |-> buf \o <<b>>]
  <2>1. Process(p, b) = Store(p, b)
    BY <1>1 DEF Process
  <2>2. Store(p, b) = [fsm |-> "IN_FRAME", buf |-> buf \o <<b>>]
    BY <1>1, <1>2 DEF Store
  <2>3. ~Completes(p, b)
    BY DEF Completes
  <2> QED BY <2>1, <2>2, <2>3
<1>4. ~Completes(p, "FESC") /\ Process(p, "FESC") = q
  <2>1. Process(p, "FESC") = [p EXCEPT !.fsm = "IN_ESCAPE"]
    BY <1>1 DEF Process
  <2> QED BY <1>1, <2>1 DEF Completes
<1>5. Completes(p, "FEND") /\ Message(p) = Tail(buf)
  BY <1>1 DEF Completes, Message
<1>6. ASSUME NEW b \in {"FEND", "FESC"}
      PROVE  /\ ~Completes(q, Code(b))
             /\ Process(q, Code(b)) = [fsm |-> "IN_FRAME", buf |-> buf \o <<b>>]
  <2>1. Code(b) \in {"TFEND", "TFESC"} /\ Unescaped(Code(b)) = b
    BY DEF Code, Unescaped
  <2>2. Process(q, Code(b)) = Store(q, Unescaped(Code(b)))
    BY <1>1, <2>1 DEF Process
  <2>3. Process(q, Code(b)) = Store(q, b)
    BY <2>1, <2>2
  <2>4. Store(q, b) = [fsm |-> "IN_FRAME", buf |-> buf \o <<b>>]
    BY <1>1, <1>2 DEF Store, Byte
  <2> QED BY <1>1, <2>3, <2>4 DEF Completes
<1> QED BY <1>3, <1>4, <1>5, <1>6 DEF p, q

(* A byte that completes no message and is delivered.                      *)
LEMMA DeliverByte ==
  ASSUME LinkInv, Deliver, NEW b \in Byte, NEW s \in Seq(Byte), wire = <<b>> \o s
  PROVE  /\ wire' = s /\ msg' = msg /\ escaped' = escaped /\ Len(got') <= Len(got) + 1
         /\ Len(got) \in Nat
         /\ Completes(parser, b) => /\ got' # <<>> /\ Last(got') = Message(parser)
                                    /\ parser' = Started
         /\ ~Completes(parser, b) => got' = got /\ parser' = Process(parser, b)
<1>1. Head(wire) = b /\ Tail(wire) = s
  BY HeadTailOfPrefixed
<1>2. Receive(b) /\ LinkTypeOK
  BY <1>1 DEF Deliver, LinkInv
<1>3. /\ Len(got) \in Nat /\ Len(got') <= Len(got) + 1
      /\ Completes(parser, b) => /\ got' # <<>> /\ Last(got') = Message(parser)
                                 /\ parser' = Started
      /\ ~Completes(parser, b) => got' = got /\ parser' = Process(parser, b)
  BY <1>2, ReceiveGrows
<1> QED BY <1>1, <1>3 DEF Deliver

LEMMA AfterHeaderStep ==
  ASSUME LinkInv, Deliver, AfterHeader
  PROVE  InBody'
<1>1. msg \in Seq(Byte) /\ Coming(msg) \in Seq(Byte) /\ "x" \in Byte
  BY MsgTyped, ComingTyped DEF LinkInv, Byte
<1>2. /\ wire' = Coming(msg) /\ msg' = msg /\ escaped' = escaped
      /\ ~Completes(parser, "x") => got' = got /\ parser' = Process(parser, "x")
  BY <1>1, DeliverByte DEF AfterHeader
<1>3. /\ ~Completes(parser, "x")
      /\ Process(parser, "x") = IF escaped THEN Waiting ELSE [fsm |-> "IN_FRAME", buf |-> <<"x">> \o <<>>]
  <2>1. CASE escaped
    BY <1>1, <2>1, ParserWaits DEF AfterHeader
  <2>2. CASE ~escaped
    <3>1. parser = Started /\ Started.fsm = "IN_FRAME" /\ Started.buf = <<>> /\ Len(<<>>) = 0
      BY <2>2 DEF AfterHeader, Started
    <3>2. Process(parser, "x") = Store(Started, "x")
      BY <3>1 DEF Process
    <3>3. Store(Started, "x") = [fsm |-> "IN_FRAME", buf |-> Append(<<>>, "x")]
      BY <3>1, FrameMaxAssumption DEF Store
    <3>4. Append(<<>>, "x") = <<"x">> \o <<>>
      OBVIOUS
    <3> QED BY <2>2, <3>1, <3>2, <3>3, <3>4 DEF Completes
  <2> QED BY <2>1, <2>2
<1>4. Taken(<<>>, "IN_FRAME")'
  BY <1>2, <1>3, Zenon DEF Taken
<1>5. <<>> \in Seq(Byte) /\ msg' = <<>> \o msg
  BY <1>1, <1>2, WithEmpty
<1>6. Len(got') <= 1
  BY <1>2, <1>3 DEF AfterHeader
<1> QED BY <1>1, <1>2, <1>4, <1>5, <1>6 DEF InBody

(* The buffer of the parser has room for the whole message.                *)
LEMMA BufferHasRoom ==
  ASSUME LinkInv, wire # <<>>, NEW done \in Seq(Byte), NEW rest \in Seq(Byte),
         msg = done \o rest
  PROVE  LET buf == <<"x">> \o done
         IN  buf \in Seq(Byte) /\ buf # <<>> /\ Len(buf) < FrameMax /\ Tail(buf) = done
<1> DEFINE buf == <<"x">> \o done
<1>1. "x" \in Byte /\ <<"x">> \in Seq(Byte) /\ Len(<<"x">>) = 1
  BY OneByte DEF Byte
<1>2. buf \in Seq(Byte) /\ buf # <<>> /\ Tail(buf) = done
  BY <1>1, Concatenated, HeadTailOfPrefixed
<1>3. Len(buf) = 1 + Len(done)
  BY <1>1, ConcatProperties
<1>4. Len(msg) = Len(done) + Len(rest)
  BY ConcatProperties
<1>5. Len(msg) + 3 <= FrameMax
  BY DEF LinkInv, Fits
<1> HIDE DEF buf
<1>6. Len(buf) < FrameMax
  BY <1>3, <1>4, <1>5, FrameMaxAssumption
<1> QED BY <1>2, <1>6 DEF buf

LEMMA OneByteMore ==
  ASSUME NEW done \in Seq(Byte), NEW b \in Byte, NEW rest \in Seq(Byte)
  PROVE  /\ done \o <<b>> \in Seq(Byte)
         /\ done \o (<<b>> \o rest) = (done \o <<b>>) \o rest
         /\ (<<"x">> \o done) \o <<b>> = <<"x">> \o (done \o <<b>>)
<1>1. <<b>> \in Seq(Byte) /\ <<"x">> \in Seq(Byte)
  BY OneByte DEF Byte
<1>2. done \o (<<b>> \o rest) = (done \o <<b>>) \o rest
  BY <1>1, Associates
<1>3. (<<"x">> \o done) \o <<b>> = <<"x">> \o (done \o <<b>>)
  BY <1>1, Associates
<1> QED BY <1>1, <1>2, <1>3, Concatenated

LEMMA BodyStep ==
  ASSUME LinkInv, Deliver, InBody
  PROVE  InBody' \/ InEscape' \/ Over'
<1>1. PICK done \in Seq(Byte), rest \in Seq(Byte) :
         /\ msg = done \o rest /\ wire = Coming(rest)
         /\ Taken(done, "IN_FRAME")
  BY DEF InBody
<1> DEFINE buf == <<"x">> \o done
           p == [fsm |-> "IN_FRAME", buf |-> buf]
           q == [fsm |-> "IN_ESCAPE", buf |-> buf]
<1>2. Len(got) <= 1
  BY DEF InBody
<1>3. buf \in Seq(Byte) /\ buf # <<>> /\ Len(buf) < FrameMax /\ Tail(buf) = done
  BY <1>1, BufferHasRoom DEF Deliver
<1>4. parser = IF escaped THEN Waiting ELSE p
  BY <1>1 DEF Taken
<1> HIDE DEF buf, p, q
<1>5. /\ \A b \in Byte \ {"FEND", "FESC"} :
           ~Completes(p, b) /\ Process(p, b) = [fsm |-> "IN_FRAME", buf |-> buf \o <<b>>]
      /\ ~Completes(p, "FESC") /\ Process(p, "FESC") = q
      /\ Completes(p, "FEND") /\ Message(p) = Tail(buf)
  BY <1>3, ParserTakes DEF p, q
<1>6. CASE rest = <<>>
  <2>1. <<>> \in Seq(Byte) /\ "FEND" \in Byte /\ wire = <<"FEND">> \o <<>> /\ msg = done
    BY <1>1, <1>6, ComingEmpty, WithEmpty DEF Byte
  <2>2. /\ wire' = <<>> /\ msg' = msg /\ escaped' = escaped /\ Len(got') <= 2
        /\ Completes(parser, "FEND") => /\ got' # <<>> /\ Last(got') = Message(parser)
                                        /\ parser' = Started
        /\ ~Completes(parser, "FEND") => parser' = Process(parser, "FEND")
    <3>1. /\ wire' = <<>> /\ msg' = msg /\ escaped' = escaped
          /\ Len(got') <= Len(got) + 1 /\ Len(got) \in Nat
          /\ Completes(parser, "FEND") => /\ got' # <<>> /\ Last(got') = Message(parser)
                                          /\ parser' = Started
          /\ ~Completes(parser, "FEND") => got' = got /\ parser' = Process(parser, "FEND")
      <4> HIDE DEF Completes
      <4> QED BY <2>1, DeliverByte, Zenon
    <3>2. Len(got') \in Nat
      <4>1. got' \in Seq(Seq(Byte))
        BY LinkTypeNext DEF LinkInv, LinkTypeOK, LinkNext
      <4> QED BY <4>1
    <3>3. Len(got') <= 2
      BY <1>2, <3>1, <3>2
    <3> QED BY <3>1, <3>3, Zenon
  <2>3. parser' = Started
    BY <1>4, <1>5, <2>2, ParserWaits
  <2>4. ~escaped => got' # <<>> /\ Last(got') = msg
    BY <1>3, <1>4, <1>5, <2>1, <2>2
  <2>5. Started.fsm # "IN_ESCAPE"
    BY DEF Started
  <2>6. Last(got)' = Last(got')
    BY DEF Last
  <2>7. ~escaped' /\ msg' # <<>> => got' # <<>> /\ Last(got)' = msg'
    BY <2>2, <2>4, <2>6
  <2>8. wire' = <<>> /\ Len(got') <= 2 /\ parser'.fsm # "IN_ESCAPE"
    BY <2>2, <2>3, <2>5
  <2> QED BY <2>7, <2>8 DEF Over
<1>7. CASE rest # <<>>
  <2> DEFINE h == Head(rest)
             t == Tail(rest)
  <2>1. h \in Byte /\ t \in Seq(Byte) /\ rest = <<h>> \o t
    BY <1>7, HeadPrefixesTail
  <2>2. /\ h \notin {"FEND", "FESC"} => Coming(rest) = <<h>> \o Coming(t)
        /\ h \in {"FEND", "FESC"} =>
             Coming(rest) = <<"FESC">> \o (<<Code(h)>> \o Coming(t))
    BY <1>7, ComingCons
  <2> HIDE DEF h, t
  <2>3. Coming(t) \in Seq(Byte)
    BY <2>1, ComingTyped
  <2>4. CASE h \notin {"FEND", "FESC"}
    <3>1. /\ wire' = Coming(t) /\ msg' = msg /\ escaped' = escaped
          /\ ~Completes(parser, h) => got' = got /\ parser' = Process(parser, h)
      BY <1>1, <2>1, <2>2, <2>3, <2>4, DeliverByte
    <3>2. ~Completes(parser, h) /\ Process(parser, h) =
            IF escaped THEN Waiting ELSE [fsm |-> "IN_FRAME", buf |-> buf \o <<h>>]
      BY <1>4, <1>5, <2>1, <2>4, ParserWaits
    <3>3. /\ done \o <<h>> \in Seq(Byte) /\ msg' = (done \o <<h>>) \o t
          /\ buf \o <<h>> = <<"x">> \o (done \o <<h>>)
      BY <1>1, <2>1, <3>1, OneByteMore DEF buf
    <3>4. Taken(done \o <<h>>, "IN_FRAME")'
      BY <3>1, <3>2, <3>3, Zenon DEF Taken
    <3>5. Coming(t) = Coming(t)' /\ Len(got') <= 1
      BY <1>2, <3>1, <3>2
    <3> QED BY <2>1, <3>1, <3>3, <3>4, <3>5 DEF InBody
  <2>5. CASE h \in {"FEND", "FESC"}
    <3> DEFINE cd == <<Code(h)>> \o Coming(t)
    <3>1. cd \in Seq(Byte) /\ "FESC" \in Byte
      <4>1. Code(h) \in Byte
        BY DEF Code, Byte
      <4> QED BY <2>3, <4>1, OneByte, Concatenated DEF Byte
    <3>2. wire = <<"FESC">> \o cd
      BY <1>1, <2>2, <2>5
    <3> HIDE DEF cd
    <3>3. /\ wire' = cd /\ msg' = msg /\ escaped' = escaped
          /\ ~Completes(parser, "FESC") => got' = got /\ parser' = Process(parser, "FESC")
      BY <3>1, <3>2, DeliverByte
    <3>4. ~Completes(parser, "FESC")
          /\ Process(parser, "FESC") = IF escaped THEN Waiting ELSE q
      BY <1>4, <1>5, <3>1, ParserWaits
    <3>5. Taken(done, "IN_ESCAPE")'
      BY <3>3, <3>4, Zenon DEF Taken, q, buf
    <3>6. Len(got') <= 1
      BY <1>2, <3>3, <3>4
    <3>7. msg' = done \o (<<h>> \o t) /\ wire' = <<Code(h)>> \o Coming(t)
      BY <1>1, <2>1, <3>3 DEF cd
    <3> QED BY <2>1, <2>5, <3>5, <3>6, <3>7 DEF InEscape
  <2> QED BY <2>4, <2>5
<1> QED BY <1>6, <1>7

LEMMA EscapeStep ==
  ASSUME LinkInv, Deliver, InEscape
  PROVE  InBody'
<1>1. PICK done \in Seq(Byte), rest \in Seq(Byte), b \in {"FEND", "FESC"} :
         /\ msg = done \o (<<b>> \o rest) /\ wire = <<Code(b)>> \o Coming(rest)
         /\ Taken(done, "IN_ESCAPE")
  BY DEF InEscape
<1> DEFINE buf == <<"x">> \o done
           q == [fsm |-> "IN_ESCAPE", buf |-> buf]
<1>2. Len(got) <= 1
  BY DEF InEscape
<1>3. /\ b \in Byte /\ <<b>> \o rest \in Seq(Byte) /\ Coming(rest) \in Seq(Byte)
      /\ Code(b) \in Byte \ {"FEND"}
  <2>1. b \in Byte /\ Code(b) \in Byte \ {"FEND"}
    BY <1>1 DEF Byte, Code
  <2> QED BY <1>1, <2>1, OneByte, Concatenated, ComingTyped
<1>4. buf \in Seq(Byte) /\ buf # <<>> /\ Len(buf) < FrameMax
  BY <1>1, <1>3, BufferHasRoom DEF Deliver
<1>5. parser = IF escaped THEN Waiting ELSE q
  BY <1>1 DEF Taken
<1> HIDE DEF buf, q
<1>6. ~Completes(q, Code(b)) /\ Process(q, Code(b)) = [fsm |-> "IN_FRAME", buf |-> buf \o <<b>>]
  BY <1>1, <1>4, ParserTakes DEF q
<1>7. /\ wire' = Coming(rest) /\ msg' = msg /\ escaped' = escaped
      /\ ~Completes(parser, Code(b)) => got' = got /\ parser' = Process(parser, Code(b))
  BY <1>1, <1>3, DeliverByte
<1>8. ~Completes(parser, Code(b)) /\ Process(parser, Code(b)) =
        IF escaped THEN Waiting ELSE [fsm |-> "IN_FRAME", buf |-> buf \o <<b>>]
  BY <1>3, <1>5, <1>6, ParserWaits
<1>9. /\ done \o <<b>> \in Seq(Byte) /\ msg' = (done \o <<b>>) \o rest
      /\ buf \o <<b>> = <<"x">> \o (done \o <<b>>)
  BY <1>1, <1>3, <1>7, OneByteMore DEF buf
<1>10. Taken(done \o <<b>>, "IN_FRAME")'
  BY <1>7, <1>8, <1>9, Zenon DEF Taken
<1>11. Len(got') <= 1
  BY <1>2, <1>7, <1>8
<1> QED BY <1>1, <1>7, <1>9, <1>10, <1>11 DEF InBody

-----------------------------------------------------------------------------
(* The filler leaves no escape behind and completes no message.            *)
LEMMA FillKeepsOver ==
  ASSUME LinkInv, Fill, Over
  PROVE  Over'
<1>1. parser \in Parser /\ Receive("x") /\ parser.fsm # "IN_ESCAPE"
  BY DEF LinkInv, LinkTypeOK, Fill, Over
<1>2. ~Completes(parser, "x")
  BY DEF Completes
<1>3. got' = got /\ parser' = Process(parser, "x")
  BY <1>1, <1>2 DEF Receive
<1>4. Process(parser, "x").fsm # "IN_ESCAPE"
  <2>1. CASE parser.fsm = "WAIT_FEND"
    BY <2>1 DEF Process
  <2>2. CASE parser.fsm = "IN_FRAME"
    <3>1. Process(parser, "x") = Store(parser, "x")
      BY <2>2 DEF Process
    <3> QED BY <3>1 DEF Store, Waiting
  <2> QED BY <1>1, <2>1, <2>2 DEF Parser
<1>5. Last(got)' = Last(got)
  BY <1>3 DEF Last
<1> QED BY <1>3, <1>4, <1>5 DEF Fill, Over

LEMMA LinkNextInv == ASSUME LinkInv, [LinkNext]_linkVars PROVE LinkInv'
<1>1. LinkTypeOK'
  BY LinkTypeNext DEF LinkInv
<1>2. ASSUME NEW m \in Messages, Send(m) PROVE LinkInv'
  BY <1>1, <1>2, SendKeepsInv DEF LinkInv
<1>3. CASE Deliver
  <2>1. Fits' /\ (before' => ~escaped')
    BY <1>3 DEF LinkInv, Fits, Deliver
  <2>2. SUFFICES ASSUME intact PROVE Progress'
    BY <1>1, <1>3, <2>1 DEF LinkInv, Deliver, Progress
  <2>3. ~Over
    BY <1>3 DEF Over, Deliver
  <2>4. AtHeader \/ AfterHeader \/ InBody \/ InEscape
    BY <2>2, <2>3 DEF LinkInv, Progress
  <2> QED BY <1>3, <2>2, <2>4, HeaderStep, AfterHeaderStep, BodyStep, EscapeStep DEF Progress
<1>4. CASE Fault
  BY <1>1, <1>4 DEF LinkInv, Fits, Progress, Fault
<1>5. CASE Fill
  <2>1. Fits' /\ (before' => ~escaped')
    BY <1>5 DEF LinkInv, Fits, Fill
  <2>2. SUFFICES ASSUME intact PROVE Progress'
    BY <1>1, <1>5, <2>1 DEF LinkInv, Fill, Progress
  <2>3. Over
    <3>1. wire = <<>>
      BY <1>5 DEF Fill
    <3> QED BY <2>2, <3>1, EmptyWireIsOver
  <2> QED BY <1>5, <2>3, FillKeepsOver DEF Progress
<1>6. CASE UNCHANGED linkVars
  BY <1>6 DEF linkVars, LinkInv, LinkTypeOK, Fits, Progress, AtHeader, AfterHeader,
     InBody, InEscape, Over, Taken, Coming, Stuffed, Last
<1> QED BY <1>2, <1>3, <1>4, <1>5, <1>6 DEF LinkNext

LEMMA LinkInvariant == LinkSpec => []LinkInv
<1>1. LinkInit => LinkInv
  BY LinkInitInv
<1>2. LinkInv /\ [LinkNext]_linkVars => LinkInv'
  BY LinkNextInv
<1> QED BY <1>1, <1>2, PTL DEF LinkSpec

(* A frame of which no byte is lost or garbled is taken from the line, and *)
(* last, whatever the parser of the receiver holds when it begins, except  *)
(* in the middle of an escape.                                             *)
THEOREM IntactAlwaysTaken == LinkSpec => []IntactIsTaken
<1>1. LinkInv => IntactIsTaken
  BY EmptyWireIsOver DEF Over, IntactIsTaken, Sent
<1> QED BY <1>1, LinkInvariant, PTL

(* Of two frames in a row that arrive intact the second is taken: the      *)
(* parser loses one frame at most before it finds the line again.          *)
THEOREM AlwaysLosesOneAtMost == LinkSpec => []LosesOneAtMost
<1>1. LinkInv => LosesOneAtMost
  BY EmptyWireIsOver DEF Over, LosesOneAtMost, Sent, LinkInv
<1> QED BY <1>1, LinkInvariant, PTL

(* At most one piece of garbage is handed on before the message of an      *)
(* intact frame, and none after it.                                        *)
THEOREM AlwaysOneStrayAtMost == LinkSpec => []OneStrayAtMost
<1>1. LinkInv => OneStrayAtMost
  BY EmptyWireIsOver DEF Over, OneStrayAtMost, Sent
<1> QED BY <1>1, LinkInvariant, PTL

=============================================================================
