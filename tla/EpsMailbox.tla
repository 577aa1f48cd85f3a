----------------------------- MODULE EpsMailbox -----------------------------
(***************************************************************************)
(* What the UPPM may rely on when it commands the EPS: a box that holds at *)
(* most one answer.  Commands are numbered as they are asked.  The EPS     *)
(* carries out some of them, in that order, and puts the answer of the one *)
(* it carried out last into the box; a read empties the box.  Commands and *)
(* answers may be lost, and an answer may be read after a later command.   *)
(***************************************************************************)
EXTENDS Naturals, Sequences

CONSTANT None

VARIABLES
  asked,    \* number of the last command asked
  latest,   \* the command carried out last; 0 before the first
  owed,     \* whether its answer is still to come
  box,      \* the answer in the box, or None
  given     \* the answers that were read

mvars == <<asked, latest, owed, box, given>>

Init == asked = 0 /\ latest = 0 /\ owed = FALSE /\ box = None /\ given = <<>>

Ask == asked' = asked + 1 /\ UNCHANGED <<latest, owed, box, given>>

Execute ==
  /\ ~owed
  /\ latest' \in latest + 1 .. asked
  /\ owed' = TRUE
  /\ UNCHANGED <<asked, box, given>>

Answer ==
  /\ owed
  /\ box' = latest /\ owed' = FALSE
  /\ UNCHANGED <<asked, latest, given>>

Lose ==
  /\ box' = None
  /\ owed' \in {owed, FALSE}
  /\ UNCHANGED <<asked, latest, given>>

Read ==
  /\ given' = IF box = None THEN given ELSE Append(given, box)
  /\ box' = None
  /\ UNCHANGED <<asked, latest, owed>>

Next == Ask \/ Execute \/ Answer \/ Lose \/ Read

Spec == Init /\ [][Next]_mvars

-----------------------------------------------------------------------------
(* No answer is read twice, and none after the answer of a later command.  *)
GivenInOrder == \A i, j \in DOMAIN given : i < j => given[i] < given[j]
=============================================================================
