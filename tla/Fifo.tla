-------------------------------- MODULE Fifo --------------------------------
(***************************************************************************)
(* What the users of a ring buffer rely on: bytes come out in the order in *)
(* which they went in; a byte that finds the buffer full is lost.  While   *)
(* the buffer is being cleared nothing is taken from it, and a byte that   *)
(* arrives may be lost or be found as Zero.                                *)
(***************************************************************************)
EXTENDS Naturals, Sequences

CONSTANTS Bytes, Capacity, Nothing, Zero

VARIABLES queue, out, clearing

fvars == <<queue, out, clearing>>

Init == queue = <<>> /\ out = Nothing /\ clearing = FALSE

Put(b) ==
  /\ \/ Len(queue) < Capacity /\ queue' = Append(queue, b)
     \/ (Len(queue) = Capacity \/ clearing) /\ UNCHANGED queue
  /\ UNCHANGED <<out, clearing>>

Get ==
  /\ ~clearing /\ queue # <<>>
  /\ out' = Head(queue)
  /\ queue' = Tail(queue)
  /\ UNCHANGED clearing

Clear == queue' = <<>> /\ clearing' = TRUE /\ UNCHANGED out

Spoil ==
  /\ clearing
  /\ \E k \in DOMAIN queue : queue' = [queue EXCEPT ![k] = Zero]
  /\ UNCHANGED <<out, clearing>>

Cleared == clearing' = FALSE /\ UNCHANGED <<queue, out>>

Next == (\E b \in Bytes : Put(b)) \/ Get \/ Clear \/ Spoil \/ Cleared

Spec == Init /\ [][Next]_fvars
=============================================================================
