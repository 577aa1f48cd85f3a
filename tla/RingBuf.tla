------------------------------ MODULE RingBuf -------------------------------
(***************************************************************************)
(* A receive buffer (common/maveric/src/ringbuf.c) between an interrupt    *)
(* service routine, which pushes one byte per interrupt and runs to        *)
(* completion, and the superloop, which pops byte by byte and can be       *)
(* interrupted between any two accesses to the volatile indices.           *)
(***************************************************************************)
EXTENDS Integers, Sequences

CONSTANTS
  Size,        \* RINGBUF_SIZE
  Wrap,        \* 2^16, the modulus of uint16_t arithmetic
  Bytes,
  MaxClears    \* bound on the number of clears

ASSUME SizeAssumption ==
  /\ Size \in Nat /\ Size > 1
  /\ Wrap \in Nat /\ Size <= Wrap
  /\ MaxClears \in Nat
  /\ {"zero", "nothing"} \cap Bytes = {}

VARIABLES
  data, r, w,  \* the fields of ringbuf_s
  pc,          \* where the superloop stands in a pop or a clear
  i,           \* the next cell that memset zeroes
  byte,        \* the byte a pop has copied out
  out,         \* the byte the last pop returned
  clears       \* clears begun

vars == <<data, r, w, pc, i, byte, out, clears>>

Index == 0 .. Size - 1

(* mutant: no wrap *)
SuccUnwrapped(k) == k + 1

Succ(k) == (k + 1) % Size
Zero    == "zero"
Nothing == "nothing"

Init ==
  /\ data = [k \in Index |-> Zero]
  /\ r = 0 /\ w = 0
  /\ pc = "idle" /\ i = 0
  /\ byte = Nothing /\ out = Nothing /\ clears = 0

(* mutants: no test for a full buffer; a buffer taken for full too early   *)
PushUnchecked(b) ==
  /\ data' = [data EXCEPT ![w] = b]
  /\ w' = Succ(w)
  /\ UNCHANGED <<r, pc, i, byte, out, clears>>

PushEarly(b) ==
  /\ IF Succ(Succ(w)) = r
       THEN UNCHANGED <<data, w>>
       ELSE data' = [data EXCEPT ![w] = b] /\ w' = Succ(w)
  /\ UNCHANGED <<r, pc, i, byte, out, clears>>

(* The interrupt service routine: rb_push.                                 *)
Push(b) ==
  /\ IF Succ(w) = r
       THEN UNCHANGED <<data, w>>
       ELSE /\ data' = [data EXCEPT ![w] = b]
            /\ w' = Succ(w)
  /\ UNCHANGED <<r, pc, i, byte, out, clears>>

(* rb_pop(buf, 1, &b).  rb_len reads w twice: to compare it with r, and to *)
(* subtract; a push may come between.                                      *)
Compare ==
  /\ pc = "idle"
  /\ pc' = IF w >= r THEN "ahead" ELSE "behind"
  /\ UNCHANGED <<data, r, w, i, byte, out, clears>>

LenAhead  == (w - r) % Wrap
LenBehind == (Size - (r - w)) % Wrap

Subtract ==
  /\ pc \in {"ahead", "behind"}
  /\ LET len == IF pc = "ahead" THEN LenAhead ELSE LenBehind
     IN  pc' = IF 1 > len THEN "idle" ELSE "copy"
  /\ UNCHANGED <<data, r, w, i, byte, out, clears>>

Copy ==
  /\ pc = "copy"
  /\ byte' = data[r]
  /\ pc' = "advance"
  /\ UNCHANGED <<data, r, w, i, out, clears>>

Advance ==
  /\ pc = "advance"
  /\ r' = Succ(r)
  /\ out' = byte
  /\ pc' = "idle"
  /\ UNCHANGED <<data, w, i, byte, clears>>

(* rb_clear, called by irqmgr_clear with the interrupts enabled.           *)
ClearW ==
  /\ pc = "idle" /\ clears < MaxClears
  /\ w' = 0 /\ clears' = clears + 1
  /\ pc' = "clear_r"
  /\ UNCHANGED <<data, r, i, byte, out>>

ClearR ==
  /\ pc = "clear_r"
  /\ r' = 0
  /\ pc' = "memset" /\ i' = 0
  /\ UNCHANGED <<data, w, byte, out, clears>>

Memset ==
  /\ pc = "memset"
  /\ data' = [data EXCEPT ![i] = Zero]
  /\ IF i + 1 \in Index
       THEN i' = i + 1 /\ UNCHANGED pc
       ELSE i' = 0 /\ pc' = "idle"
  /\ UNCHANGED <<r, w, byte, out, clears>>

Superloop == Compare \/ Subtract \/ Copy \/ Advance \/ ClearW \/ ClearR \/ Memset

Next == (\E b \in Bytes : Push(b)) \/ Superloop

Spec == Init /\ [][Next]_vars

-----------------------------------------------------------------------------
TypeOK ==
  /\ data \in [Index -> Bytes \cup {Zero}]
  /\ r \in Index /\ w \in Index /\ i \in Index
  /\ pc \in {"idle", "ahead", "behind", "copy", "advance", "clear_r", "memset"}
  /\ byte \in Bytes \cup {Zero, Nothing} /\ out \in Bytes \cup {Zero, Nothing}
  /\ clears \in 0 .. MaxClears

(* The bytes in the buffer, oldest first.  While w has been reset and r has *)
(* not, they are those that have arrived since.                            *)
First == IF pc = "clear_r" THEN 0 ELSE r

Contents == [k \in 1 .. (w - First) % Size |-> data[(First + k - 1) % Size]]

(* A byte is copied out only when there is one: a push between the two     *)
(* reads of w in rb_len, also one that wraps w, never makes an empty       *)
(* buffer look filled.                                                     *)
PopsOnlyFilled == pc \in {"copy", "advance"} => w # r

(* The queue that the superloop sees.                                      *)
Queue ==
  INSTANCE Fifo WITH
    Capacity <- Size - 1,
    queue    <- Contents,
    clearing <- pc \in {"clear_r", "memset"}

(* The buffer is a queue of Size - 1 bytes, whatever the interleaving of   *)
(* interrupts and superloop; a clear empties it, and only bytes received   *)
(* during a clear can be lost or zeroed.                                   *)
ImplementsFifo == Queue!Spec
=============================================================================
