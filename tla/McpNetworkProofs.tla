-------------------------- MODULE McpNetworkProofs --------------------------
(***************************************************************************)
(* What is proved of McpNetwork: ExecutedAsAsked and AnswersInOrder, for   *)
(* any shapes of requests and any number of requests, faults and frames.   *)
(*                                                                         *)
(* A step of any actor does three things to the frames on the links: first *)
(* frames leave and others are damaged (Shortened), answers reach a user   *)
(* (Received), and frames are put at the end of a link (Appended).  What   *)
(* the invariants say is kept by each of the three; what remains for an    *)
(* action is to show what it takes, what it shows to the user and what it  *)
(* sends.  The invariants are stated of q, ask, rn and ib, for queue,      *)
(* asked, ran and inbox, so that they can be said of the state between two *)
(* of the three.                                                           *)
(***************************************************************************)
EXTENDS McpNetwork, SequenceTheorems, WellFoundedInduction, TLAPS

-----------------------------------------------------------------------------
(***************************************************************************)
(* Sequences: the frames chosen by Selected.                               *)
(***************************************************************************)

(* A set of naturals with 0 and the successors of its elements has all.    *)
LEMMA Induct ==
  ASSUME NEW S \in SUBSET Nat, 0 \in S, \A n \in S : n + 1 \in S
  PROVE  \A n \in Nat : n \in S
<1> DEFINE T == Nat \ S
<1>1. SUFFICES ASSUME T # {} PROVE FALSE
  OBVIOUS
<1>2. PICK n \in T : \A m \in T : <<m, n>> \notin OpToRel(<, Nat)
  BY <1>1, WFMin, NatLessThanWellFounded
<1>3. \A m \in T : ~(m < n)
  BY <1>2 DEF OpToRel
<1>4. n # 0 /\ n \in Nat /\ n - 1 \in Nat /\ (n - 1) + 1 = n
  OBVIOUS
<1>5. n - 1 \in S
  BY <1>3, <1>4
<1> QED BY <1>4, <1>5

-----------------------------------------------------------------------------
(* Selected is defined by a recursive function f over the places.          *)
Selects(f, s, I, n) ==
  f = [i \in 0 .. n |-> IF i = 0 THEN <<>>
                        ELSE IF i \in I THEN Append(f[i - 1], s[i]) ELSE f[i - 1]]

(* Such an f, place by place.                                              *)
LEMMA SelectsUnfold ==
  ASSUME NEW s, NEW I, NEW n \in Nat, NEW f, Selects(f, s, I, n)
  PROVE  /\ DOMAIN f = 0 .. n
         /\ \A i \in 0 .. n : f[i] = IF i = 0 THEN <<>>
                        ELSE IF i \in I THEN Append(f[i - 1], s[i]) ELSE f[i - 1]
<1> DEFINE G(i) == IF i = 0 THEN <<>>
                   ELSE IF i \in I THEN Append(f[i - 1], s[i]) ELSE f[i - 1]
<1>1. f = [i \in 0 .. n |-> G(i)]
  BY DEF Selects
<1> HIDE DEF G
<1>2. DOMAIN f = 0 .. n /\ \A i \in 0 .. n : f[i] = G(i)
  BY <1>1
<1> QED BY <1>2 DEF G

(* There is such an f, so that the CHOOSE of Selected is one.              *)
LEMMA SelectsExists ==
  ASSUME NEW s, NEW I
  PROVE  \A n \in Nat : \E f : Selects(f, s, I, n)
<1> DEFINE S == {n \in Nat : \E f : Selects(f, s, I, n)}
<1>1. 0 \in S
  <2> DEFINE f == [i \in 0 .. 0 |-> <<>>]
             G(i) == IF i = 0 THEN <<>>
                     ELSE IF i \in I THEN Append(f[i - 1], s[i]) ELSE f[i - 1]
  <2>1. \A i \in 0 .. 0 : G(i) = <<>>
    OBVIOUS
  <2> HIDE DEF G
  <2>2. f = [i \in 0 .. 0 |-> G(i)]
    BY <2>1
  <2> HIDE DEF f
  <2>3. Selects(f, s, I, 0)
    BY <2>2, Zenon DEF Selects, G
  <2> QED BY <2>3
<1>2. ASSUME NEW n \in S PROVE n + 1 \in S
  <2>1. PICK f : Selects(f, s, I, n)
    OBVIOUS
  <2> DEFINE F(i) == IF i = 0 THEN <<>>
                     ELSE IF i \in I THEN Append(f[i - 1], s[i]) ELSE f[i - 1]
             g == [i \in 0 .. n + 1 |-> F(i)]
             G(i) == IF i = 0 THEN <<>>
                     ELSE IF i \in I THEN Append(g[i - 1], s[i]) ELSE g[i - 1]
  <2>2. DOMAIN f = 0 .. n /\ \A i \in 0 .. n : f[i] = F(i)
    <3>1. n \in Nat
      OBVIOUS
    <3> HIDE DEF F
    <3>2. f = [i \in 0 .. n |-> IF i = 0 THEN <<>>
                        ELSE IF i \in I THEN Append(f[i - 1], s[i]) ELSE f[i - 1]]
      BY <2>1, Zenon DEF Selects
    <3>3. f = [i \in 0 .. n |-> F(i)]
      BY <3>2, Zenon DEF F
    <3> QED BY <3>3
  <2>3. \A i \in 0 .. n + 1 : i # 0 => g[i - 1] = f[i - 1]
    <3> HIDE DEF F
    <3> QED BY <2>2
  <2> HIDE DEF g
  <2>4. \A i \in 0 .. n + 1 : F(i) = G(i)
    BY <2>3
  <2>5. g = [i \in 0 .. n + 1 |-> G(i)]
    <3> HIDE DEF F, G
    <3> QED BY <2>4 DEF g
  <2>6. Selects(g, s, I, n + 1)
    BY <2>5, Zenon DEF Selects
  <2> QED BY <2>6
<1> HIDE DEF S
<1>3. \A n \in Nat : n \in S
  <2>1. S \in SUBSET Nat
    BY DEF S
  <2> QED BY <1>1, <1>2, <2>1, Induct
<1> QED BY <1>3 DEF S

(* t is made of the elements of s at the places src, which are in I and    *)
(* below n, in their order.                                                *)
Drawn(t, s, I, n, src) ==
  /\ src \in [1 .. Len(t) -> I \cap (1 .. n)]
  /\ \A j, k \in 1 .. Len(t) : j < k => src[j] < src[k]
  /\ \A k \in 1 .. Len(t) : t[k] = s[src[k]]

(* One place more.                                                         *)
LEMMA DrawnMore ==
  ASSUME NEW T, NEW s \in Seq(T), NEW I, NEW n \in Nat, n + 1 \in 1 .. Len(s),
         NEW t \in Seq(T), NEW src, Drawn(t, s, I, n, src)
  PROVE  \E src2 : Drawn(IF n + 1 \in I THEN Append(t, s[n + 1]) ELSE t, s, I, n + 1, src2)
<1>1. Len(t) \in Nat /\ s[n + 1] \in T
  OBVIOUS
<1>2. CASE n + 1 \notin I
  BY <1>1, <1>2 DEF Drawn
<1>3. CASE n + 1 \in I
  <2> DEFINE t2 == Append(t, s[n + 1])
             src2 == [k \in 1 .. Len(t) + 1 |-> IF k = Len(t) + 1 THEN n + 1 ELSE src[k]]
  <2>1. Len(t2) = Len(t) + 1 /\ t2[Len(t) + 1] = s[n + 1]
        /\ \A k \in 1 .. Len(t) : t2[k] = t[k]
    BY <1>1, AppendProperties
  <2>2. /\ \A k \in 1 .. Len(t) : src[k] \in I /\ src[k] \in 1 .. n
        /\ \A j, k \in 1 .. Len(t) : j < k => src[j] < src[k]
        /\ \A k \in 1 .. Len(t) : t[k] = s[src[k]]
    BY DEF Drawn
  <2> HIDE DEF t2
  <2>3. src2 \in [1 .. Len(t2) -> I \cap (1 .. n + 1)]
    BY <1>1, <1>3, <2>1, <2>2
  <2>4. \A j, k \in 1 .. Len(t2) : j < k => src2[j] < src2[k]
    <3> TAKE j, k \in 1 .. Len(t2)
    <3> HAVE j < k
    <3>1. j \in 1 .. Len(t) /\ src2[j] = src[j] /\ src[j] \in 1 .. n
      BY <1>1, <2>1, <2>2
    <3>2. CASE k = Len(t) + 1
      <4>1. src2[k] = n + 1
        BY <1>1, <3>2
      <4> QED BY <3>1, <4>1
    <3>3. CASE k # Len(t) + 1
      <4>1. k \in 1 .. Len(t) /\ src2[k] = src[k] /\ src[k] \in 1 .. n
        BY <1>1, <2>1, <2>2, <3>3
      <4> QED BY <2>2, <3>1, <4>1
    <3> QED BY <3>2, <3>3
  <2>5. \A k \in 1 .. Len(t2) : t2[k] = s[src2[k]]
    BY <1>1, <2>1, <2>2
  <2>6. Drawn(t2, s, I, n + 1, src2)
    <3> HIDE DEF src2
    <3> QED BY <2>3, <2>4, <2>5 DEF Drawn
  <2> QED BY <1>3, <2>6 DEF t2
<1> QED BY <1>2, <1>3

(* What is selected stands in its order, at places in I.                   *)
LEMMA SelectedDrawn ==
  ASSUME NEW T, NEW s \in Seq(T), NEW I
  PROVE  /\ Selected(s, I) \in Seq(T)
         /\ \E src : Drawn(Selected(s, I), s, I, Len(s), src)
<1> DEFINE n == Len(s)
           f == CHOOSE f : Selects(f, s, I, n)
<1>1. n \in Nat
  OBVIOUS
<1>2. Selects(f, s, I, n)
  BY <1>1, SelectsExists
<1>3. Selected(s, I) = f[n]
  BY Zenon DEF Selected, Selects
<1> HIDE DEF f
<1>4. \A i \in 0 .. n : f[i] = IF i = 0 THEN <<>>
                 ELSE IF i \in I THEN Append(f[i - 1], s[i]) ELSE f[i - 1]
  BY <1>1, <1>2, SelectsUnfold
<1> DEFINE P(k) == f[k] \in Seq(T) /\ \E src : Drawn(f[k], s, I, k, src)
           S == {k \in Nat : k <= n => P(k)}
<1>5. P(0)
  <2>1. f[0] = <<>> /\ <<>> \in Seq(T) /\ Len(<<>>) = 0
    BY <1>1, <1>4
  <2>2. Drawn(<<>>, s, I, 0, <<>>)
    <3>1. 1 .. Len(<<>>) = {} /\ <<>> \in [{} -> I \cap (1 .. 0)]
      OBVIOUS
    <3> QED BY <3>1 DEF Drawn
  <2> QED BY <2>1, <2>2
<1>6. ASSUME NEW k \in Nat, k + 1 <= n, P(k) PROVE P(k + 1)
  <2>1. k + 1 \in 1 .. n /\ k + 1 \in 0 .. n /\ (k + 1) - 1 = k /\ k + 1 # 0
    BY <1>1, <1>6
  <2>2. f[k + 1] = IF k + 1 \in I THEN Append(f[k], s[k + 1]) ELSE f[k]
    BY <1>4, <2>1
  <2>3. PICK src : Drawn(f[k], s, I, k, src)
    BY <1>6
  <2>4. f[k] \in Seq(T)
    BY <1>6
  <2> HIDE DEF P
  <2>5. \E src2 : Drawn(IF k + 1 \in I THEN Append(f[k], s[k + 1]) ELSE f[k], s, I, k + 1, src2)
    BY <2>1, <2>3, <2>4, DrawnMore
  <2>6. f[k + 1] \in Seq(T)
    <3>1. s[k + 1] \in T
      BY <2>1
    <3> QED BY <2>2, <2>4, <3>1
  <2>7. \E src2 : Drawn(f[k + 1], s, I, k + 1, src2)
    BY <2>2, <2>5, Zenon
  <2> QED BY <2>6, <2>7 DEF P
<1> HIDE DEF P
<1>7. 0 \in S /\ \A k \in S : k + 1 \in S
  BY <1>1, <1>5, <1>6
<1>8. \A k \in Nat : k \in S
  <2>1. S \in SUBSET Nat
    OBVIOUS
  <2> QED BY <1>7, <2>1, Induct, Zenon
<1>9. P(n)
  BY <1>1, <1>8
<1> QED BY <1>3, <1>9 DEF P

-----------------------------------------------------------------------------
(***************************************************************************)
(* Requests.  Requested is the invariant behind ExecutedAsAsked: a request *)
(* is in one place at most, and nowhere when it was run; while it is       *)
(* intact it is what its user asked for and on the way from its user to    *)
(* its destination.                                                        *)
(***************************************************************************)

(* Commands that users asked for, and answers that a user will be shown.   *)
IsRequest(x) == x.ptype = "CMD" /\ x.req # 0
IsAnswer(x) == x.ptype # "CMD" /\ x.intact /\ x.dest \in Users
(* The PPM that a request comes to first, and the frame as its user sent   *)
(* it.                                                                     *)
First(ask, r) == Home(ask[r].user)
Original(ask, r) == Packet(ask[r].user, ask[r].dest, ask[r].echo, "CMD", ask[r].id, r, r)
(* From the user to the first PPM, or from there to the other one.         *)
OnItsWay(ask, l, x) ==
  \/ l = <<x.orgn, First(ask, x.req)>>
  \/ /\ l = <<First(ask, x.req), Other(First(ask, x.req))>>
     /\ x.dest # l[1] /\ Port(l[1], x.dest) = l[2]
(* A request frame that stands for one that was made: while it is intact   *)
(* it is the original, on its way.                                         *)
Genuine(ask, l, x) ==
  /\ x.req \in 1 .. Len(ask)
  /\ x.intact => x = Original(ask, x.req) /\ OnItsWay(ask, l, x)
(* Request r was not run; no frame of it is on a link.                     *)
NotRun(rn, r) == \A k \in DOMAIN rn : rn[k].req # r
Absent(q, r) == \A l \in Links : \A i \in DOMAIN q[l] : IsRequest(q[l][i]) => q[l][i].req # r

(* The parts of the invariant: what is on the links, no two frames of one  *)
(* request, what was run.                                                  *)
AllGenuine(q, ask, rn) ==
  \A l \in Links : \A i \in DOMAIN q[l] :
     IsRequest(q[l][i]) => Genuine(ask, l, q[l][i]) /\ NotRun(rn, q[l][i].req)
Single(q) ==
  \A l, m \in Links : \A i \in DOMAIN q[l] : \A j \in DOMAIN q[m] :
     /\ IsRequest(q[l][i]) /\ IsRequest(q[m][j])
     /\ q[l][i].req = q[m][j].req
     => l = m /\ i = j
RanRight(ask, rn) ==
  /\ \A k \in DOMAIN rn : /\ rn[k].req \in 1 .. Len(ask)
                          /\ rn[k].node = ask[rn[k].req].dest
                          /\ rn[k].arg = rn[k].req
  /\ \A j, k \in DOMAIN rn : rn[j].req = rn[k].req => j = k
Requested(q, ask, rn) == AllGenuine(q, ask, rn) /\ Single(q) /\ RanRight(ask, rn)

QueueType == [Links -> Seq(Packets)]

(* q2 is q without some first frames of each link, the rest perhaps        *)
(* damaged.                                                                *)
Weaker(x, y) == x = y \/ (~x.intact /\ x.ptype = y.ptype /\ x.req = y.req)
Shortened(q, q2, sh) ==
  /\ sh \in [Links -> Nat]
  /\ \A l \in Links : \A i \in DOMAIN q2[l] :
       /\ i + sh[l] \in DOMAIN q[l]
       /\ Weaker(q2[l][i], q[l][i + sh[l]])

(* Losing or damaging frames keeps it.                                     *)
LEMMA ShortenedRequested ==
  ASSUME NEW q \in QueueType, NEW q2 \in QueueType, NEW ask, NEW rn, NEW sh,
         Shortened(q, q2, sh), Requested(q, ask, rn)
  PROVE  Requested(q2, ask, rn)
<1>1. ASSUME NEW l \in Links, NEW i \in DOMAIN q2[l], IsRequest(q2[l][i])
      PROVE  /\ i + sh[l] \in DOMAIN q[l] /\ IsRequest(q[l][i + sh[l]])
             /\ q[l][i + sh[l]].req = q2[l][i].req
             /\ q2[l][i].intact => q2[l][i] = q[l][i + sh[l]]
  BY <1>1 DEF Shortened, Weaker, IsRequest
<1>2. AllGenuine(q2, ask, rn)
  <2> SUFFICES ASSUME NEW l \in Links, NEW i \in DOMAIN q2[l], IsRequest(q2[l][i])
               PROVE  Genuine(ask, l, q2[l][i]) /\ NotRun(rn, q2[l][i].req)
    BY DEF AllGenuine
  <2>1. Genuine(ask, l, q[l][i + sh[l]]) /\ NotRun(rn, q[l][i + sh[l]].req)
    BY <1>1 DEF Requested, AllGenuine
  <2> QED BY <1>1, <2>1 DEF Genuine
<1>3. Single(q2)
  <2> SUFFICES ASSUME NEW l \in Links, NEW m \in Links, NEW i \in DOMAIN q2[l], NEW j \in DOMAIN q2[m],
                      IsRequest(q2[l][i]), IsRequest(q2[m][j]), q2[l][i].req = q2[m][j].req
               PROVE  l = m /\ i = j
    BY DEF Single
  <2>1. l = m /\ i + sh[l] = j + sh[m]
    BY <1>1 DEF Requested, Single
  <2>2. sh[l] \in Nat /\ i \in Nat /\ j \in Nat
    BY <2>1 DEF Shortened, QueueType
  <2> QED BY <2>1, <2>2
<1> QED BY <1>2, <1>3 DEF Requested

(* q2 is q with the frames t at the end of link m.                         *)
LEMMA Appended ==
  ASSUME NEW q \in QueueType, NEW m \in Links, NEW t \in Seq(Packets)
  PROVE  LET q2 == [q EXCEPT ![m] = @ \o t]
         IN  /\ q2 \in QueueType
             /\ \A l \in Links \ {m} : q2[l] = q[l]
             /\ q2[m] = q[m] \o t
             /\ DOMAIN q[m] \subseteq DOMAIN q2[m]
             /\ \A i \in DOMAIN q[m] : q2[m][i] = q[m][i]
             /\ \A i \in DOMAIN q2[m] : i \notin DOMAIN q[m] =>
                   i - Len(q[m]) \in DOMAIN t /\ q2[m][i] = t[i - Len(q[m])]
<1>1. q[m] \in Seq(Packets)
  BY DEF QueueType
<1>2. /\ q[m] \o t \in Seq(Packets) /\ Len(q[m] \o t) = Len(q[m]) + Len(t)
      /\ \A i \in 1 .. Len(q[m]) : (q[m] \o t)[i] = q[m][i]
      /\ \A i \in 1 .. Len(q[m]) + Len(t) : i > Len(q[m]) => (q[m] \o t)[i] = t[i - Len(q[m])]
  BY <1>1
<1>3. Len(q[m]) \in Nat /\ Len(t) \in Nat
  BY <1>1
<1> DEFINE q2 == [q EXCEPT ![m] = @ \o t]
<1>4. q2 \in QueueType /\ q2[m] = q[m] \o t /\ \A l \in Links \ {m} : q2[l] = q[l]
  BY <1>2 DEF QueueType
<1>5. DOMAIN q2[m] = 1 .. Len(q[m]) + Len(t) /\ DOMAIN q[m] = 1 .. Len(q[m]) /\ DOMAIN t = 1 .. Len(t)
  BY <1>1, <1>2, <1>4
<1> HIDE DEF q2
<1> QED BY <1>2, <1>3, <1>4, <1>5 DEF q2

(* So does sending a request that is nowhere else.                         *)
LEMMA AppendedRequested ==
  ASSUME NEW q \in QueueType, NEW m \in Links, NEW t \in Seq(Packets), NEW ask, NEW rn,
         Requested(q, ask, rn),
         \A i, j \in DOMAIN t : IsRequest(t[i]) /\ IsRequest(t[j]) => i = j,
         \A i \in DOMAIN t : IsRequest(t[i]) =>
            Genuine(ask, m, t[i]) /\ NotRun(rn, t[i].req) /\ Absent(q, t[i].req)
  PROVE  Requested([q EXCEPT ![m] = @ \o t], ask, rn)
<1> DEFINE q2 == [q EXCEPT ![m] = @ \o t]
           New(l, i) == l = m /\ i \notin DOMAIN q[m]
<1>1. \A l \in Links : \A i \in DOMAIN q2[l] :
          IF New(l, i) THEN i - Len(q[m]) \in DOMAIN t /\ q2[l][i] = t[i - Len(q[m])]
          ELSE i \in DOMAIN q[l] /\ q2[l][i] = q[l][i]
  BY Appended
<1>2. \A i \in DOMAIN q2[m] : i \in Nat
  <2>1. q2[m] \in Seq(Packets)
    BY Appended DEF QueueType
  <2> QED BY <2>1
<1>3. Len(q[m]) \in Nat
  BY DEF QueueType
<1> HIDE DEF q2
<1>4. AllGenuine(q2, ask, rn)
  BY <1>1 DEF Requested, AllGenuine
<1>5. Single(q2)
  <2> SUFFICES ASSUME NEW l \in Links, NEW k \in Links, NEW i \in DOMAIN q2[l], NEW j \in DOMAIN q2[k],
                      IsRequest(q2[l][i]), IsRequest(q2[k][j]), q2[l][i].req = q2[k][j].req
               PROVE  l = k /\ i = j
    BY DEF Single
  <2>1. CASE New(l, i) /\ New(k, j)
    BY <1>1, <1>2, <1>3, <2>1
  <2>2. CASE New(l, i) /\ ~New(k, j)
    BY <1>1, <2>2 DEF Absent
  <2>3. CASE ~New(l, i) /\ New(k, j)
    BY <1>1, <2>3 DEF Absent
  <2>4. CASE ~New(l, i) /\ ~New(k, j)
    BY <1>1, <2>4 DEF Requested, Single
  <2> QED BY <2>1, <2>2, <2>3, <2>4
<1> QED BY <1>4, <1>5 DEF Requested, q2

RanType == Seq([req : Requests, node : Nodes, arg : Times])

(* And running one that has left the links.                                *)
LEMMA RunRequested ==
  ASSUME NEW q, NEW ask, NEW rn \in RanType, NEW e \in [req : Requests, node : Nodes, arg : Times],
         Requested(q, ask, rn), Absent(q, e.req), NotRun(rn, e.req),
         e.req \in 1 .. Len(ask), e.node = ask[e.req].dest, e.arg = e.req
  PROVE  Requested(q, ask, rn \o <<e>>)
<1> DEFINE r2 == rn \o <<e>>
<1>1. /\ DOMAIN r2 = 1 .. Len(rn) + 1 /\ r2[Len(rn) + 1] = e /\ Len(rn) \in Nat
      /\ DOMAIN rn = 1 .. Len(rn) /\ \A k \in DOMAIN rn : r2[k] = rn[k]
  BY DEF RanType
<1> HIDE DEF r2
<1>2. \A k \in DOMAIN r2 : k \in DOMAIN rn \/ k = Len(rn) + 1
  BY <1>1
<1>3. \A r : NotRun(r2, r) <=> NotRun(rn, r) /\ e.req # r
  <2>1. Len(rn) + 1 \in DOMAIN r2 /\ DOMAIN rn \subseteq DOMAIN r2
    BY <1>1
  <2> QED BY <1>1, <1>2, <2>1 DEF NotRun
<1>4. AllGenuine(q, ask, r2)
  BY <1>3 DEF Requested, AllGenuine, Absent
<1>5. RanRight(ask, r2)
  <2>1. \A k \in DOMAIN r2 : /\ r2[k].req \in 1 .. Len(ask)
                          /\ r2[k].node = ask[r2[k].req].dest
                          /\ r2[k].arg = r2[k].req
    BY <1>1, <1>2 DEF Requested, RanRight
  <2>2. \A j, k \in DOMAIN r2 : r2[j].req = r2[k].req => j = k
    BY <1>1, <1>2 DEF Requested, RanRight, NotRun
  <2> QED BY <2>1, <2>2 DEF RanRight
<1> QED BY <1>4, <1>5 DEF Requested, r2

(* A new request leaves the others as they are.                            *)
LEMMA AskedRequested ==
  ASSUME NEW q, NEW ask \in Seq(Shapes), NEW rn, NEW s \in Shapes, Requested(q, ask, rn)
  PROVE  Requested(q, Append(ask, s), rn)
<1> DEFINE a2 == Append(ask, s)
<1>1. Len(ask) \in Nat /\ Len(a2) = Len(ask) + 1 /\ \A r \in 1 .. Len(ask) : a2[r] = ask[r]
  OBVIOUS
<1> HIDE DEF a2
<1>2. \A x : \A l \in Links : Genuine(ask, l, x) => Genuine(a2, l, x)
  BY <1>1 DEF Genuine, Original, OnItsWay, First
<1>3. RanRight(a2, rn)
  <2>1. \A k \in DOMAIN rn : rn[k].req \in 1 .. Len(a2) /\ a2[rn[k].req] = ask[rn[k].req]
    BY <1>1 DEF Requested, RanRight
  <2> QED BY <2>1 DEF Requested, RanRight
<1> QED BY <1>2, <1>3 DEF Requested, AllGenuine, a2

-----------------------------------------------------------------------------
(***************************************************************************)
(* What a PPM sends for a frame it takes, as a whole and by link.          *)
(***************************************************************************)

(* A frame n makes for p: a time command, an answer in its request's name. *)
OfItsOwn(n, p, x) ==
  /\ x.orgn = n /\ x.intact /\ p.ptype = "CMD"
  /\ x.ptype # "ACK" => x.arg \in Times
  /\ \/ x.ptype = "CMD" /\ x.req = 0
     \/ x.ptype = "ACK" /\ x.req = p.req
     \/ x.ptype = "RES" /\ x.req = p.req /\ Executes(n, p)
(* Answers to p for one node, unless it echoes to itself: first the        *)
(* acknowledgement, then the result.                                       *)
Apart(p, x, y) ==
  /\ x.ptype # "CMD" /\ y.ptype # "CMD" /\ x.dest = y.dest /\ p.ptype = "CMD" /\ p.echo # p.orgn
  => x.ptype = "ACK" /\ y.ptype = "RES"
(* What n makes of p: p itself, last, or frames of its own.                *)
Outgoing(n, p, out) ==
  /\ out \in Seq(Packets)
  /\ \A k \in DOMAIN out : \/ k = Len(out) /\ out[k] = p /\ p.dest # n
                           \/ OfItsOwn(n, p, out[k])
  /\ \A j, k \in DOMAIN out : j < k => Apart(p, out[j], out[k])

(* What the assumption on the constants gives.                             *)
LEMMA McpNatural == MaxRequests \in Nat /\ Times \subseteq Times \cup {Garbled} /\ 0 \in Times
BY McpAssumption DEF Times

(* A frame made of typed fields is a frame.                                *)
LEMMA PacketTyped ==
  ASSUME NEW orgn \in Nodes, NEW dest \in Nodes \cup {None}, NEW echo \in Nodes \cup {None},
         NEW ptype \in {"CMD", "RES", "ACK"}, NEW id \in Ids,
         NEW arg \in Times \cup {Garbled}, NEW req \in 0 .. MaxRequests
  PROVE  Packet(orgn, dest, echo, ptype, id, arg, req) \in Packets
BY DEF Packet, Packets

(* mcp_respond: an answer for the sender and one for the echo.             *)
LEMMA Responds ==
  ASSUME NEW n \in Ppms, NEW p \in Packets, NEW ptype \in {"RES", "ACK"},
         NEW arg \in Times \cup {Garbled}
  PROVE  LET a == Respond(n, p, ptype, arg)
         IN  /\ a \in Seq(Packets)
             /\ \A k \in DOMAIN a : a[k].orgn = n /\ a[k].intact /\ a[k].ptype = ptype
                                    /\ a[k].req = p.req /\ a[k].arg = arg
             /\ \A j, k \in DOMAIN a : j < k /\ a[j].dest = a[k].dest => p.echo = p.orgn
<1> DEFINE to(d) == Packet(n, d, None, ptype, p.id, arg, p.req)
<1>1. p.orgn \in Nodes /\ p.echo \in Nodes \cup {None} /\ n \in Nodes /\ p.id \in Ids
      /\ p.req \in 0 .. MaxRequests
  BY DEF Packets, Nodes
<1>2. \A d \in Nodes : to(d) \in Packets
  BY <1>1, PacketTyped
<1>3. \A d : to(d).orgn = n /\ to(d).intact /\ to(d).ptype = ptype
             /\ to(d).req = p.req /\ to(d).arg = arg /\ to(d).dest = d
  BY DEF Packet
<1> HIDE DEF to
<1>4. CASE p.echo = None
  <2>1. Respond(n, p, ptype, arg) = <<to(p.orgn)>>
    BY <1>4 DEF Respond, to
  <2> QED BY <1>1, <1>2, <1>3, <2>1
<1>5. CASE p.echo # None
  <2>1. Respond(n, p, ptype, arg) = <<to(p.orgn), to(p.echo)>>
    BY <1>5 DEF Respond, to
  <2>2. to(p.orgn) \in Packets /\ to(p.echo) \in Packets
    BY <1>1, <1>2, <1>5
  <2>3. \A k \in DOMAIN <<to(p.orgn), to(p.echo)>> : k = 1 \/ k = 2
    OBVIOUS
  <2> QED BY <1>3, <2>1, <2>2, <2>3
<1> QED BY <1>4, <1>5

(* The elements of two sequences put together.                             *)
LEMMA Joined ==
  ASSUME NEW T, NEW a \in Seq(T), NEW b \in Seq(T)
  PROVE  /\ a \o b \in Seq(T) /\ Len(a \o b) = Len(a) + Len(b)
         /\ Len(a) \in Nat /\ Len(b) \in Nat
         /\ DOMAIN a = 1 .. Len(a) /\ DOMAIN b = 1 .. Len(b)
         /\ \A k \in DOMAIN (a \o b) :
              \/ k \in DOMAIN a /\ (a \o b)[k] = a[k]
              \/ /\ k - Len(a) \in DOMAIN b /\ k \notin DOMAIN a
                 /\ k \in Nat /\ (a \o b)[k] = b[k - Len(a)]
OBVIOUS

(* The answers of a command: results, and the time for the UPPM before     *)
(* them.                                                                   *)
LEMMA AnswersOwn ==
  ASSUME NEW n \in Ppms, NEW p \in Packets, time \in [Ppms -> Times], Executes(n, p),
         p.arg \in Times
  PROVE  LET b == Answers(n, p)
         IN  /\ b \in Seq(Packets)
             /\ \A k \in DOMAIN b : OfItsOwn(n, p, b[k]) /\ b[k].ptype # "ACK"
             /\ \A j, k \in DOMAIN b : j < k => Apart(p, b[j], b[k])
<1>1. time[n] \in Times /\ 0 \in Times /\ Times \subseteq Times \cup {Garbled}
  BY McpNatural
<1>2. CASE p.ptype # "CMD"
  <2>1. Answers(n, p) = <<>>
    BY <1>2 DEF Answers
  <2> QED BY <2>1
<1>3. CASE p.ptype = "CMD" /\ p.id = "ppm_get_time"
  <2>1. Answers(n, p) = Respond(n, p, "RES", time[n])
    BY <1>3 DEF Answers
  <2> DEFINE b == Respond(n, p, "RES", time[n])
  <2>2. /\ b \in Seq(Packets)
        /\ \A k \in DOMAIN b : b[k].orgn = n /\ b[k].intact /\ b[k].ptype = "RES"
                                    /\ b[k].req = p.req /\ b[k].arg = time[n]
        /\ \A j, k \in DOMAIN b : j < k /\ b[j].dest = b[k].dest => p.echo = p.orgn
    BY <1>1, Responds
  <2> HIDE DEF b
  <2>3. \A k \in DOMAIN b : OfItsOwn(n, p, b[k]) /\ b[k].ptype # "ACK"
    BY <1>1, <1>3, <2>2 DEF OfItsOwn
  <2>4. \A j, k \in DOMAIN b : j < k => Apart(p, b[j], b[k])
    BY <2>2 DEF Apart
  <2> QED BY <2>1, <2>2, <2>3, <2>4 DEF b
<1>4. CASE p.ptype = "CMD" /\ p.id # "ppm_get_time"
  <2> DEFINE c == Packet(n, "UPPM", None, "CMD", "ppm_set_time", p.arg, 0)
             pre == IF n = "LPPM" THEN <<c>> ELSE <<>>
             b == Respond(n, p, "RES", 0)
  <2>1. Answers(n, p) = pre \o b
    BY <1>4 DEF Answers
  <2>2. /\ b \in Seq(Packets)
        /\ \A k \in DOMAIN b : b[k].orgn = n /\ b[k].intact /\ b[k].ptype = "RES"
                                    /\ b[k].req = p.req /\ b[k].arg = 0
        /\ \A j, k \in DOMAIN b : j < k /\ b[j].dest = b[k].dest => p.echo = p.orgn
    BY <1>1, Responds
  <2>3. c \in Packets /\ c.orgn = n /\ c.intact /\ c.ptype = "CMD" /\ c.req = 0 /\ c.arg = p.arg
    <3>1. /\ n \in Nodes /\ "UPPM" \in Nodes \cup {None} /\ None \in Nodes \cup {None}
          /\ "CMD" \in {"CMD", "RES", "ACK"} /\ "ppm_set_time" \in Ids
          /\ p.arg \in Times \cup {Garbled} /\ 0 \in 0 .. MaxRequests
      BY McpNatural DEF Nodes, Ppms, Ids, TimeCmds
    <3>2. c \in Packets
      BY <3>1, PacketTyped
    <3> QED BY <3>2 DEF Packet
  <2> HIDE DEF b, c
  <2>4. pre \in Seq(Packets) /\ \A k \in DOMAIN pre : pre[k] = c /\ k = 1
    <3>1. CASE n = "LPPM"
      BY <2>3, <3>1
    <3>2. CASE n # "LPPM"
      BY <3>2
    <3> QED BY <3>1, <3>2
  <2>5. OfItsOwn(n, p, c) /\ c.ptype # "ACK"
    BY <1>4, <2>3 DEF OfItsOwn
  <2>6. \A k \in DOMAIN b : OfItsOwn(n, p, b[k]) /\ b[k].ptype # "ACK"
    BY <1>1, <1>4, <2>2 DEF OfItsOwn
  <2>7. \A x : Apart(p, c, x) /\ Apart(p, x, c)
    BY <2>3 DEF Apart
  <2>8. \A j, k \in DOMAIN b : j < k => Apart(p, b[j], b[k])
    BY <2>2 DEF Apart
  <2> DEFINE a == pre \o b
  <2>9. /\ a \in Seq(Packets) /\ Len(pre) \in Nat
        /\ \A k \in DOMAIN a :
              \/ k \in DOMAIN pre /\ a[k] = pre[k]
              \/ k - Len(pre) \in DOMAIN b /\ k \in Nat /\ a[k] = b[k - Len(pre)]
    BY <2>2, <2>4, Joined
  <2> HIDE DEF a, pre
  <2>10. \A k \in DOMAIN a : OfItsOwn(n, p, a[k]) /\ a[k].ptype # "ACK"
    BY <2>4, <2>5, <2>6, <2>9
  <2>11. \A j, k \in DOMAIN a : j < k => Apart(p, a[j], a[k])
    BY <2>4, <2>7, <2>8, <2>9
  <2> QED BY <2>1, <2>9, <2>10, <2>11 DEF a
<1> QED BY <1>2, <1>3, <1>4

(* The acknowledgements of a command.                                      *)
LEMMA AcksOwn ==
  ASSUME NEW n \in Ppms, NEW p \in Packets
  PROVE  LET a == Acks(n, p)
         IN  /\ a \in Seq(Packets)
             /\ \A k \in DOMAIN a : OfItsOwn(n, p, a[k]) /\ a[k].ptype = "ACK"
             /\ \A j, k \in DOMAIN a : j < k => Apart(p, a[j], a[k])
<1>1. CASE p.ptype = "CMD" /\ p.orgn \in Users
  <2> DEFINE r == Respond(n, p, "ACK", p.arg)
  <2>1. Acks(n, p) = r
    BY <1>1 DEF Acks
  <2>2. p.arg \in Times \cup {Garbled} /\ "ACK" \in {"RES", "ACK"}
    BY DEF Packets
  <2>3. /\ r \in Seq(Packets)
        /\ \A k \in DOMAIN r : r[k].orgn = n /\ r[k].intact /\ r[k].ptype = "ACK"
                                /\ r[k].req = p.req /\ r[k].arg = p.arg
        /\ \A j, k \in DOMAIN r : j < k /\ r[j].dest = r[k].dest => p.echo = p.orgn
    BY <2>2, Responds
  <2> HIDE DEF r
  <2>4. \A k \in DOMAIN r : OfItsOwn(n, p, r[k]) /\ r[k].ptype = "ACK"
    BY <1>1, <2>3 DEF OfItsOwn
  <2>5. \A j, k \in DOMAIN r : j < k => Apart(p, r[j], r[k])
    BY <2>3 DEF Apart
  <2> QED BY <2>1, <2>3, <2>4, <2>5
<1>2. CASE ~(p.ptype = "CMD" /\ p.orgn \in Users)
  <2>1. Acks(n, p) = <<>>
    BY <1>2 DEF Acks
  <2> QED BY <2>1
<1> QED BY <1>1, <1>2

(* What a PPM makes of a frame is of this kind,                            *)
LEMMA OutputOutgoing ==
  ASSUME NEW n \in Ppms, NEW p \in Packets, time \in [Ppms -> Times],
         p.intact /\ p.ptype # "ACK" => p.arg \in Times
  PROVE  Outgoing(n, p, Output(n, p))
<1> DEFINE a == Acks(n, p)
           b == IF p.dest # n THEN <<p>> ELSE IF Executes(n, p) THEN Answers(n, p) ELSE <<>>
           out == a \o b
<1>1. /\ a \in Seq(Packets)
      /\ \A k \in DOMAIN a : OfItsOwn(n, p, a[k]) /\ a[k].ptype = "ACK"
      /\ \A j, k \in DOMAIN a : j < k => Apart(p, a[j], a[k])
  BY AcksOwn
<1> HIDE DEF a
<1>2. /\ b \in Seq(Packets)
      /\ \A k \in DOMAIN b : \/ k = Len(b) /\ b[k] = p /\ p.dest # n
                             \/ OfItsOwn(n, p, b[k]) /\ b[k].ptype # "ACK"
      /\ \A j, k \in DOMAIN b : j < k => Apart(p, b[j], b[k])
  <2>1. CASE p.dest # n
    BY <2>1
  <2>2. CASE p.dest = n /\ Executes(n, p)
    <3>1. b = Answers(n, p)
      BY <2>2
    <3>2. CASE p.ptype = "ACK"
      <4>1. b = <<>>
        BY <3>1, <3>2 DEF Answers
      <4> HIDE DEF b
      <4> QED BY <4>1
    <3>3. CASE p.ptype # "ACK"
      <4>1. p.arg \in Times
        BY <2>2, <3>3 DEF Executes
      <4> QED BY <2>2, <3>1, <4>1, AnswersOwn
    <3> QED BY <3>2, <3>3
  <2>3. CASE p.dest = n /\ ~Executes(n, p)
    BY <2>3
  <2> QED BY <2>1, <2>2, <2>3
<1> HIDE DEF b
<1>3. Output(n, p) = out
  BY DEF Output, a, b
<1>4. /\ out \in Seq(Packets) /\ Len(out) = Len(a) + Len(b) /\ Len(a) \in Nat /\ Len(b) \in Nat
      /\ \A k \in DOMAIN out :
            \/ k \in DOMAIN a /\ out[k] = a[k]
            \/ k - Len(a) \in DOMAIN b /\ k \notin DOMAIN a /\ k \in Nat /\ out[k] = b[k - Len(a)]
      /\ DOMAIN a = 1 .. Len(a) /\ DOMAIN b = 1 .. Len(b)
  BY <1>1, <1>2, Joined
<1> HIDE DEF out
<1>5. \A k \in DOMAIN out : \/ k = Len(out) /\ out[k] = p /\ p.dest # n
                            \/ OfItsOwn(n, p, out[k])
  BY <1>1, <1>2, <1>4
<1>6. ASSUME NEW j \in DOMAIN out, NEW k \in DOMAIN out, j < k PROVE Apart(p, out[j], out[k])
  <2>1. CASE j \in DOMAIN a /\ k \in DOMAIN a
    BY <1>1, <1>4, <1>6, <2>1
  <2>2. CASE j \in DOMAIN a /\ k \notin DOMAIN a
    <3>1. out[j].ptype = "ACK"
      BY <1>1, <1>4, <2>2
    <3>2. \/ out[k] = p
          \/ OfItsOwn(n, p, out[k]) /\ out[k].ptype # "ACK"
      BY <1>2, <1>4, <2>2
    <3> QED BY <3>1, <3>2 DEF Apart, OfItsOwn
  <2>3. CASE j \notin DOMAIN a
    <3>1. k \notin DOMAIN a /\ j - Len(a) < k - Len(a)
      BY <1>4, <1>6, <2>3
    <3> QED BY <1>2, <1>4, <2>3, <3>1
  <2> QED BY <2>1, <2>2, <2>3
<1> QED BY <1>3, <1>4, <1>5, <1>6 DEF Outgoing

(* and so is the part of it that leaves through one port.                  *)
LEMMA SelectedOutgoing ==
  ASSUME NEW n \in Ppms, NEW p \in Packets, NEW out, Outgoing(n, p, out), NEW port
  PROVE  LET t == Selected(out, Through(n, port, out))
         IN  Outgoing(n, p, t) /\ \A i \in DOMAIN t : Port(n, t[i].dest) = port
<1> DEFINE I == Through(n, port, out)
           t == Selected(out, I)
<1>1. out \in Seq(Packets)
  BY DEF Outgoing
<1>2. t \in Seq(Packets)
  BY <1>1, SelectedDrawn
<1>3. PICK src : Drawn(t, out, I, Len(out), src)
  BY <1>1, SelectedDrawn
<1> HIDE DEF t
<1>4. /\ DOMAIN t = 1 .. Len(t) /\ Len(t) \in Nat /\ Len(out) \in Nat /\ DOMAIN out = 1 .. Len(out)
  BY <1>1, <1>2
<1>5. /\ \A k \in DOMAIN t : src[k] \in DOMAIN out /\ src[k] \in I /\ t[k] = out[src[k]]
      /\ \A j, k \in DOMAIN t : j < k => src[j] < src[k]
  BY <1>3, <1>4 DEF Drawn
<1>6. \A k \in DOMAIN t : Port(n, t[k].dest) = port
  BY <1>5 DEF Through
<1>7. ASSUME NEW k \in DOMAIN t
      PROVE  \/ k = Len(t) /\ t[k] = p /\ p.dest # n
             \/ OfItsOwn(n, p, t[k])
  <2>1. CASE src[k] = Len(out)
    <3>1. k = Len(t)
      <4>1. Len(t) \in DOMAIN t /\ src[Len(t)] \in DOMAIN out
        BY <1>4, <1>5
      <4>2. ~(k < Len(t))
        BY <1>4, <1>5, <2>1, <4>1
      <4> QED BY <1>4, <4>2
    <3> QED BY <1>5, <3>1 DEF Outgoing
  <2>2. CASE src[k] # Len(out)
    BY <1>5, <2>2 DEF Outgoing
  <2> QED BY <2>1, <2>2
<1>8. \A j, k \in DOMAIN t : j < k => Apart(p, t[j], t[k])
  BY <1>5 DEF Outgoing
<1> QED BY <1>2, <1>6, <1>7, <1>8 DEF Outgoing, t

(* The nodes and the links between them.                                   *)
LEMMA PpmsAndLinks ==
  /\ \A n \in Ppms : <<n, Other(n)>> \in Links /\ Other(n) \in Ppms /\ Other(Other(n)) = n /\ Other(n) # n
  /\ \A l \in Links : /\ l[2] \in Ppms
                      /\ \/ l[1] \in Users /\ l = <<l[1], Home(l[1])>>
                         \/ l[1] \in Ppms /\ l = <<l[1], Other(l[1])>>
  /\ \A u \in Users : <<u, Home(u)>> \in Links /\ Home(u) \in Ppms
  /\ Users \cap Ppms = {} /\ "EPS" \notin Users \cup Ppms /\ Users \cup Ppms \subseteq Nodes
BY DEF Links, Ppms, Users, Nodes, Home, Other

(* What is queued goes to the other PPM.                                   *)
LEMMA QueuedAppended ==
  ASSUME NEW q \in QueueType, NEW n \in Ppms, NEW out \in Seq(Packets)
  PROVE  LET t == Selected(out, Through(n, Other(n), out))
         IN  Queued(q, n, out) = [q EXCEPT ![<<n, Other(n)>>] = @ \o t]
<1>1. \A l \in Links : l[1] = n <=> l = <<n, Other(n)>>
  BY PpmsAndLinks
<1> DEFINE t == Selected(out, Through(n, Other(n), out))
           m == <<n, Other(n)>>
<1>2. m \in Links /\ m[1] = n /\ m[2] = Other(n)
  BY PpmsAndLinks
<1>3. \A l \in Links :
        (IF l[1] = n THEN q[l] \o Selected(out, Through(n, l[2], out)) ELSE q[l])
        = IF l = m THEN q[l] \o t ELSE q[l]
  BY <1>1, <1>2
<1>4. Queued(q, n, out) = [l \in Links |-> IF l = m THEN q[l] \o t ELSE q[l]]
  BY <1>3 DEF Queued
<1>5. [q EXCEPT ![m] = @ \o t] = [l \in Links |-> IF l = m THEN q[l] \o t ELSE q[l]]
  BY <1>2 DEF QueueType
<1> QED BY <1>4, <1>5

(* Frames with nothing in them that is a request.                          *)
LEMMA AppendedQuiet ==
  ASSUME NEW q \in QueueType, NEW m \in Links, NEW t \in Seq(Packets), NEW ask, NEW rn,
         Requested(q, ask, rn), \A i \in DOMAIN t : ~IsRequest(t[i])
  PROVE  Requested([q EXCEPT ![m] = @ \o t], ask, rn)
BY AppendedRequested

(* The first frame of a link is taken: of its request nothing is left.     *)
TailOf(q, l) == [q EXCEPT ![l] = Tail(@)]
(* Taking the first frame is a shortening,                                 *)
LEMMA TakenShortened ==
  ASSUME NEW q \in QueueType, NEW l \in Links, q[l] # <<>>
  PROVE  /\ TailOf(q, l) \in QueueType
         /\ Shortened(q, TailOf(q, l), [m \in Links |-> IF m = l THEN 1 ELSE 0])
         /\ 1 \in DOMAIN q[l] /\ Head(q[l]) = q[l][1] /\ q[l][1] \in Packets
<1> DEFINE q2 == TailOf(q, l)
           sh == [m \in Links |-> IF m = l THEN 1 ELSE 0]
<1>1. q[l] \in Seq(Packets) /\ q[l] # <<>>
  BY DEF QueueType
<1>2. /\ Tail(q[l]) \in Seq(Packets) /\ Len(Tail(q[l])) = Len(q[l]) - 1
      /\ Len(q[l]) \in Nat /\ Len(q[l]) # 0
      /\ \A i \in 1 .. Len(q[l]) - 1 : Tail(q[l])[i] = q[l][i + 1]
  BY <1>1
<1>3. q2 \in QueueType /\ q2[l] = Tail(q[l]) /\ \A m \in Links \ {l} : q2[m] = q[m]
  BY <1>2 DEF QueueType, TailOf
<1> HIDE DEF q2
<1>4. \A i \in DOMAIN q2[l] : i + 1 \in DOMAIN q[l] /\ q2[l][i] = q[l][i + 1]
  <2>1. DOMAIN q2[l] = 1 .. Len(q[l]) - 1 /\ DOMAIN q[l] = 1 .. Len(q[l])
    BY <1>1, <1>2, <1>3
  <2> QED BY <1>2, <1>3, <2>1
<1>5. \A m \in Links \ {l} : \A i \in DOMAIN q2[m] : i + 0 \in DOMAIN q[m] /\ i + 0 = i
  BY <1>3 DEF QueueType
<1>6. Shortened(q, q2, sh)
  BY <1>3, <1>4, <1>5 DEF Shortened, Weaker
<1> QED BY <1>1, <1>2, <1>3, <1>6 DEF q2

(* and as no two frames are of one request, none of that request is left.  *)
LEMMA TakenAbsent ==
  ASSUME NEW q \in QueueType, NEW l \in Links, q[l] # <<>>, NEW ask, NEW rn,
         Requested(q, ask, rn), IsRequest(Head(q[l]))
  PROVE  /\ Absent(TailOf(q, l), Head(q[l]).req) /\ NotRun(rn, Head(q[l]).req)
         /\ Genuine(ask, l, Head(q[l]))
<1> DEFINE q2 == TailOf(q, l)
           sh == [m \in Links |-> IF m = l THEN 1 ELSE 0]
<1>1. 1 \in DOMAIN q[l] /\ Head(q[l]) = q[l][1] /\ Shortened(q, q2, sh) /\ q2 \in QueueType
  BY TakenShortened
<1> HIDE DEF q2
<1>2. ASSUME NEW m \in Links, NEW i \in DOMAIN q2[m], IsRequest(q2[m][i]),
             q2[m][i].req = Head(q[l]).req
      PROVE  FALSE
  <2>1. i + sh[m] \in DOMAIN q[m] /\ IsRequest(q[m][i + sh[m]]) /\ q[m][i + sh[m]].req = q[l][1].req
    BY <1>1, <1>2 DEF Shortened, Weaker, IsRequest
  <2>2. m = l /\ i + sh[m] = 1
    BY <1>1, <2>1 DEF Requested, Single
  <2>3. i \in Nat /\ i # 0
    BY <1>1, <1>2 DEF QueueType
  <2> QED BY <2>2, <2>3
<1>3. NotRun(rn, q[l][1].req) /\ Genuine(ask, l, q[l][1])
  BY <1>1 DEF Requested, AllGenuine
<1> QED BY <1>1, <1>2, <1>3 DEF Absent, q2

(* No node is reached by each PPM through the other one.                   *)
LEMMA PortsCross ==
  \A d : ~(Port("LPPM", d) = "UPPM" /\ Port("UPPM", d) = "LPPM")
BY DEF Port, None

(* A forwarded request is on its way: no PPM sends back what it was sent.  *)
LEMMA ForwardedOnItsWay ==
  ASSUME NEW n \in Ppms, NEW ask \in Seq(Shapes), NEW l \in Links, l[2] = n,
         NEW p \in Packets, IsRequest(p), Genuine(ask, l, p),
         p.dest # n, Port(n, p.dest) = Other(n)
  PROVE  Genuine(ask, <<n, Other(n)>>, p)
<1> SUFFICES ASSUME p.intact
             PROVE  OnItsWay(ask, <<n, Other(n)>>, p)
  BY DEF Genuine
<1>1. OnItsWay(ask, l, p) /\ p = Original(ask, p.req) /\ p.req \in 1 .. Len(ask)
  BY DEF Genuine
<1>2. p.orgn = ask[p.req].user /\ p.orgn \in Users
  <2>1. ask[p.req] \in Shapes
    BY <1>1
  <2>2. p.orgn = ask[p.req].user
    BY <1>1 DEF Original, Packet
  <2> QED BY <2>1, <2>2, McpAssumption
<1> DEFINE f == First(ask, p.req)
<1>3. f = Home(p.orgn) /\ f \in Ppms
  BY <1>2, PpmsAndLinks DEF First
<1>4. CASE l = <<p.orgn, f>>
  <2>1. n = f
    BY <1>4
  <2> QED BY <2>1, Zenon DEF OnItsWay
<1>5. CASE l = <<f, Other(f)>> /\ p.dest # l[1] /\ Port(l[1], p.dest) = l[2]
  <2>1. n = Other(f) /\ p.dest # f /\ Port(f, p.dest) = n /\ Other(n) = f
    BY <1>3, <1>5, PpmsAndLinks
  <2>3. (f = "LPPM" /\ n = "UPPM") \/ (f = "UPPM" /\ n = "LPPM")
    BY <1>3, <2>1 DEF Ppms, Other
  <2> QED BY <2>1, <2>3, PortsCross
<1> QED BY <1>1, <1>4, <1>5 DEF OnItsWay

-----------------------------------------------------------------------------
(***************************************************************************)
(* What the users see, types, and the first actions.                       *)
(***************************************************************************)

(* What a user keeps of an answer; the user of a PPM; what n shows of out. *)
Entries == [req : 0 .. MaxRequests, orgn : Nodes, ptype : {"RES", "ACK"}]
InboxType == [Users -> Seq(Entries)]
UserOf(n) == IF n = "UPPM" THEN "GS" ELSE "FTDI"
SeenBy(n, out) ==
  Selected([i \in DOMAIN out |-> Told(out[i])], Through(n, UserOf(n), out) \cap Valid(out))

(* A PPM reaches a user through its own port only.                         *)
LEMMA PortUser ==
  ASSUME NEW n \in Ppms, NEW d, NEW u \in Users, Port(n, d) = u
  PROVE  d = u /\ u = UserOf(n)
BY DEF Port, Ppms, Users, UserOf, None

(* Each PPM has one user.                                                  *)
LEMMA UserOfHome ==
  /\ \A n \in Ppms : UserOf(n) \in Users /\ Home(UserOf(n)) = n
  /\ \A u \in Users : UserOf(Home(u)) = u
BY DEF UserOf, Home, Users, Ppms

(* t is what the users see of out: valid answers, in their order.          *)
ToldOf(n, t, out, src) ==
  /\ \A k \in DOMAIN t : /\ src[k] \in DOMAIN out /\ t[k] = Told(out[src[k]])
                         /\ out[src[k]].intact /\ out[src[k]].ptype # "CMD"
                         /\ out[src[k]].dest = UserOf(n)
  /\ \A j, k \in DOMAIN t : j < k => src[j] < src[k]

(* What is shown is that.                                                  *)
LEMMA TellsValid ==
  ASSUME NEW n \in Ppms, NEW out \in Seq(Packets)
  PROVE  /\ SeenBy(n, out) \in Seq(Entries)
         /\ \E src : ToldOf(n, SeenBy(n, out), out, src)
<1> DEFINE told == [i \in DOMAIN out |-> Told(out[i])]
           I == Through(n, UserOf(n), out) \cap Valid(out)
           t == Selected(told, I)
           T == [req : 0 .. MaxRequests, orgn : Nodes, ptype : {"CMD", "RES", "ACK"}]
<1>1. /\ DOMAIN out = 1 .. Len(out) /\ Len(out) \in Nat
      /\ \A i \in DOMAIN out : out[i] \in Packets
  OBVIOUS
<1>2. \A x \in Packets : Told(x) \in T /\ (x.ptype # "CMD" => Told(x) \in Entries)
  BY DEF Told, Packets, Entries
<1>3. told \in Seq(T) /\ DOMAIN told = 1 .. Len(out)
  <2> HIDE DEF T
  <2> QED BY <1>1, <1>2
<1>4. t \in Seq(T) /\ \E src : Drawn(t, told, I, Len(told), src)
  <2> HIDE DEF told, I, T
  <2> QED BY <1>3, SelectedDrawn
<1>5. PICK src : Drawn(t, told, I, Len(told), src)
  BY <1>4
<1> HIDE DEF t
<1>6. DOMAIN t = 1 .. Len(t) /\ Len(t) \in Nat /\ Len(told) = Len(out)
  BY <1>1, <1>3, <1>4
<1>7. /\ \A k \in DOMAIN t : src[k] \in I /\ src[k] \in DOMAIN out /\ t[k] = told[src[k]]
      /\ \A j, k \in DOMAIN t : j < k => src[j] < src[k]
  <2> HIDE DEF told, I
  <2> QED BY <1>1, <1>5, <1>6 DEF Drawn
<1>8. \A k \in DOMAIN t : t[k] = Told(out[src[k]])
  BY <1>7
<1>9. ToldOf(n, t, out, src)
  <2>1. \A k \in DOMAIN t : /\ out[src[k]].intact /\ out[src[k]].ptype # "CMD"
                            /\ Port(n, out[src[k]].dest) = UserOf(n)
    BY <1>7 DEF Through, Valid
  <2>2. \A k \in DOMAIN t : out[src[k]].dest = UserOf(n)
    BY <2>1, PortUser, UserOfHome
  <2> QED BY <1>7, <1>8, <2>1, <2>2 DEF ToldOf
<1>10. t \in Seq(Entries)
  <2>1. \A k \in DOMAIN t : t[k] \in Entries
    BY <1>1, <1>2, <1>9 DEF ToldOf
  <2> HIDE DEF T, told, I
  <2> QED BY <1>4, <1>6, <2>1
<1> QED BY <1>9, <1>10 DEF t, SeenBy

(* Nothing is selected at no place.                                        *)
LEMMA SelectedNone ==
  ASSUME NEW T, NEW s \in Seq(T)
  PROVE  Selected(s, {}) = <<>>
<1> DEFINE t == Selected(s, {})
<1>1. t \in Seq(T) /\ \E src : Drawn(t, s, {}, Len(s), src)
  BY SelectedDrawn
<1> HIDE DEF t
<1>2. Len(t) \in Nat /\ ~(1 \in 1 .. Len(t))
  BY <1>1 DEF Drawn
<1>3. Len(t) = 0
  BY <1>2
<1> QED BY <1>1, <1>3 DEF t

(* What is shown goes to the user of the PPM.                              *)
LEMMA SeenReceived ==
  ASSUME NEW n \in Ppms, NEW out \in Seq(Packets), inbox \in InboxType
  PROVE  Seen(n, out) = [inbox EXCEPT ![UserOf(n)] = @ \o SeenBy(n, out)]
<1> DEFINE told == [i \in DOMAIN out |-> Told(out[i])]
           t(u) == Selected(told, Through(n, u, out) \cap Valid(out))
           v == UserOf(n)
<1>1. ASSUME NEW u \in Users, u # v PROVE inbox[u] \o t(u) = inbox[u]
  <2>1. Through(n, u, out) = {}
    BY <1>1, PortUser DEF Through
  <2>2. told \in Seq({Told(out[i]) : i \in DOMAIN out})
    OBVIOUS
  <2> HIDE DEF told
  <2>3. t(u) = <<>>
    BY <2>1, <2>2, SelectedNone
  <2>4. inbox[u] \in Seq(Entries)
    BY DEF InboxType
  <2>5. inbox[u] \o <<>> = inbox[u]
    BY <2>4
  <2> HIDE DEF t
  <2> QED BY <2>3, <2>5
<1>2. t(v) = SeenBy(n, out) /\ v \in Users
  BY UserOfHome DEF SeenBy
<1>3. Seen(n, out) = [u \in Users |-> inbox[u] \o t(u)]
  BY DEF Seen
<1> HIDE DEF t
<1>4. Seen(n, out) = [u \in Users |-> IF u = v THEN inbox[u] \o SeenBy(n, out) ELSE inbox[u]]
  <2> HIDE DEF v
  <2> QED BY <1>1, <1>2, <1>3
<1>5. [inbox EXCEPT ![v] = @ \o SeenBy(n, out)]
        = [u \in Users |-> IF u = v THEN inbox[u] \o SeenBy(n, out) ELSE inbox[u]]
  <2> HIDE DEF v
  <2> QED BY <1>2 DEF InboxType
<1> QED BY <1>4, <1>5

(* Intact frames carry an argument that a request or a clock gave them.    *)
ArgsSent(q) ==
  \A l \in Links : \A i \in DOMAIN q[l] :
     q[l][i].intact /\ q[l][i].ptype # "ACK" => q[l][i].arg \in Times
(* The invariant behind ExecutedAsAsked.                                   *)
RequestsSafe == TypeOK /\ ArgsSent(queue) /\ Requested(queue, asked, ran)

(* TypeOK, part by part.                                                   *)
LEMMA TypesUsed ==
  ASSUME TypeOK
  PROVE  /\ queue \in QueueType /\ time \in [Ppms -> Times] /\ asked \in Seq(Shapes)
         /\ Len(asked) \in Nat /\ Len(asked) <= MaxRequests
         /\ ran \in RanType /\ inbox \in InboxType /\ harm \in 0 .. MaxHarm
<1>1. /\ queue \in QueueType /\ time \in [Ppms -> Times] /\ asked \in Seq(Shapes)
      /\ Len(asked) <= MaxRequests
      /\ ran \in RanType /\ inbox \in InboxType /\ harm \in 0 .. MaxHarm
  BY Zenon DEF TypeOK, QueueType, RanType, InboxType, Entries
<1> QED BY <1>1

(* TypeOK, from its parts.                                                 *)
LEMMA TypesShown ==
  ASSUME queue \in QueueType, time \in [Ppms -> Times], asked \in Seq(Shapes),
         Len(asked) <= MaxRequests, ran \in RanType, inbox \in InboxType, harm \in 0 .. MaxHarm
  PROVE  TypeOK
BY DEF TypeOK, QueueType, RanType, InboxType, Entries

(* Losing and damaging frames keeps the arguments typed.                   *)
LEMMA ShortenedArgs ==
  ASSUME NEW q, NEW q2, NEW sh, Shortened(q, q2, sh), ArgsSent(q)
  PROVE  ArgsSent(q2)
BY DEF ArgsSent, Shortened, Weaker

(* The same for frames that are sent.                                      *)
LEMMA AppendedArgs ==
  ASSUME NEW q \in QueueType, NEW m \in Links, NEW t \in Seq(Packets), ArgsSent(q),
         \A i \in DOMAIN t : t[i].intact /\ t[i].ptype # "ACK" => t[i].arg \in Times
  PROVE  ArgsSent([q EXCEPT ![m] = @ \o t])
<1> DEFINE q2 == [q EXCEPT ![m] = @ \o t]
<1>1. \A l \in Links : \A i \in DOMAIN q2[l] :
          \/ i \in DOMAIN q[l] /\ q2[l][i] = q[l][i]
          \/ i - Len(q[m]) \in DOMAIN t /\ q2[l][i] = t[i - Len(q[m])]
  BY Appended
<1> HIDE DEF q2
<1> QED BY <1>1 DEF ArgsSent, q2

(* Init.                                                                   *)
LEMMA RequestsSafeInit == Init => RequestsSafe
<1> SUFFICES ASSUME Init PROVE RequestsSafe
  OBVIOUS
<1>1. /\ queue = [l \in Links |-> <<>>] /\ time = [n \in Ppms |-> 0] /\ asked = <<>>
      /\ ran = <<>> /\ inbox = [u \in Users |-> <<>>] /\ harm = 0
  BY DEF Init
<1>2. TypeOK
  <2>1. queue \in QueueType /\ inbox \in InboxType /\ ran \in RanType
    BY <1>1 DEF QueueType, InboxType, RanType
  <2>2. time \in [Ppms -> Times] /\ asked \in Seq(Shapes) /\ Len(asked) = 0 /\ harm \in 0 .. MaxHarm
    BY <1>1, McpNatural, McpAssumption
  <2> QED BY <2>1, <2>2, TypesShown, McpNatural
<1>3. \A l \in Links : DOMAIN queue[l] = {}
  BY <1>1
<1>4. DOMAIN ran = {}
  BY <1>1
<1> QED BY <1>2, <1>3, <1>4 DEF RequestsSafe, ArgsSent, Requested, AllGenuine, Single, RanRight

(* A request is made.                                                      *)
LEMMA AskAppends ==
  ASSUME RequestsSafe, NEW s \in Shapes, Ask(s)
  PROVE  LET r == Len(asked) + 1
             p == Packet(s.user, s.dest, s.echo, "CMD", s.id, r, r)
             m == <<s.user, Home(s.user)>>
         IN  /\ m \in Links /\ p \in Packets /\ r \in 1 .. MaxRequests /\ r \notin 1 .. Len(asked)
             /\ s.user \in Users
             /\ <<p>> \in Seq(Packets) /\ \A i \in DOMAIN <<p>> : <<p>>[i] = p
             /\ p = Original(asked', r) /\ asked' = Append(asked, s) /\ asked'[r] = s
             /\ Len(asked') = r
             /\ Genuine(asked', m, p) /\ IsRequest(p) /\ p.req = r /\ p.arg = r
             /\ queue' = [queue EXCEPT ![m] = @ \o <<p>>]
<1> DEFINE r == Len(asked) + 1
           p == Packet(s.user, s.dest, s.echo, "CMD", s.id, r, r)
           m == <<s.user, Home(s.user)>>
<1>1. asked \in Seq(Shapes) /\ Len(asked) \in Nat /\ r <= MaxRequests /\ queue \in QueueType
  BY TypesUsed DEF RequestsSafe, Ask
<1>2. r \in 1 .. MaxRequests /\ r \in Times /\ r \notin 1 .. Len(asked) /\ r \in 0 .. MaxRequests /\ r # 0
  BY <1>1, McpNatural DEF Times
<1>3. s.user \in Users /\ s.dest \in Nodes /\ s.echo \in Nodes \cup {None} /\ s.id \in Ids
  BY McpAssumption
<1>4. p \in Packets
  BY <1>2, <1>3, PacketTyped, PpmsAndLinks
<1>5. p.orgn = s.user /\ p.req = r /\ p.arg = r /\ p.ptype = "CMD"
  BY DEF Packet
<1>6. m \in Links
  BY <1>3, PpmsAndLinks
<1>7. asked' = Append(asked, s) /\ Len(asked') = r /\ asked'[r] = s
  BY <1>1 DEF Ask
<1>8. p = Original(asked', r)
  BY <1>7 DEF Original
<1>9. queue' = [queue EXCEPT ![m] = Append(@, p)]
  BY DEF Ask
<1> HIDE DEF p
<1>10. queue' = [queue EXCEPT ![m] = @ \o <<p>>]
  <2>1. queue[m] \in Seq(Packets)
    BY <1>1, <1>6 DEF QueueType
  <2>2. Append(queue[m], p) = queue[m] \o <<p>>
    BY <1>4, <2>1
  <2> QED BY <1>1, <1>6, <1>9, <2>2 DEF QueueType
<1>11. OnItsWay(asked', m, p)
  BY <1>5, <1>7 DEF OnItsWay, First
<1>12. Genuine(asked', m, p) /\ IsRequest(p)
  BY <1>1, <1>2, <1>5, <1>7, <1>8, <1>11 DEF Genuine, IsRequest
<1>13. <<p>> \in Seq(Packets) /\ \A i \in DOMAIN <<p>> : <<p>>[i] = p
  BY <1>4
<1> QED BY <1>2, <1>3, <1>4, <1>5, <1>6, <1>7, <1>8, <1>10, <1>12, <1>13 DEF p

(* Ask keeps the invariant.                                                *)
LEMMA RequestsSafeAsk ==
  ASSUME RequestsSafe, NEW s \in Shapes, Ask(s)
  PROVE  RequestsSafe'
<1> DEFINE r == Len(asked) + 1
           p == Packet(s.user, s.dest, s.echo, "CMD", s.id, r, r)
           m == <<s.user, Home(s.user)>>
           t == <<p>>
<1>1. /\ m \in Links /\ p \in Packets /\ r \in 1 .. MaxRequests /\ r \notin 1 .. Len(asked)
      /\ t \in Seq(Packets) /\ \A i \in DOMAIN t : t[i] = p
      /\ asked' = Append(asked, s) /\ Len(asked') = r
      /\ Genuine(asked', m, p) /\ IsRequest(p) /\ p.req = r /\ p.arg = r
      /\ queue' = [queue EXCEPT ![m] = @ \o t]
  BY AskAppends
<1>2. /\ queue \in QueueType /\ time \in [Ppms -> Times] /\ asked \in Seq(Shapes)
      /\ ran \in RanType /\ inbox \in InboxType /\ harm \in 0 .. MaxHarm
  BY TypesUsed DEF RequestsSafe
<1> HIDE DEF p, t, m
<1>3. TypeOK'
  <2>1. queue' \in QueueType
    BY <1>1, <1>2, Appended
  <2>2. asked' \in Seq(Shapes) /\ Len(asked') <= MaxRequests
    BY <1>1, <1>2, McpNatural
  <2>3. UNCHANGED <<time, ran, inbox, harm>>
    BY DEF Ask
  <2> QED BY <1>2, <2>1, <2>2, <2>3 DEF TypeOK, QueueType, RanType, InboxType, Entries
<1>4. ArgsSent(queue')
  <2>1. r \in Times
    BY <1>1, McpNatural DEF Times
  <2> QED BY <1>1, <1>2, <2>1, AppendedArgs DEF RequestsSafe
<1>5. Requested(queue, asked', ran)
  BY <1>1, <1>2, AskedRequested DEF RequestsSafe
<1>6. NotRun(ran, r) /\ Absent(queue, r)
  BY <1>1 DEF RequestsSafe, Requested, RanRight, NotRun, AllGenuine, Absent, Genuine
<1>7. Requested(queue', asked', ran)
  <2>1. \A i, j \in DOMAIN t : i = j
    BY DEF t
  <2> QED BY <1>1, <1>2, <1>5, <1>6, <2>1, AppendedRequested
<1>8. ran' = ran
  BY DEF Ask
<1> QED BY <1>3, <1>4, <1>7, <1>8 DEF RequestsSafe

-----------------------------------------------------------------------------
(***************************************************************************)
(* Sync, Lose, Garble and Reset: they send commands of request 0 at most.  *)
(***************************************************************************)

(* A link left as it is.                                                   *)
LEMMA StillShortened ==
  ASSUME NEW q \in QueueType
  PROVE  Shortened(q, q, [l \in Links |-> 0])
BY DEF Shortened, Weaker, QueueType

(* Nothing is sent.                                                        *)
LEMMA NothingAppended ==
  ASSUME NEW q \in QueueType, NEW m \in Links
  PROVE  [q EXCEPT ![m] = @ \o <<>>] = q
<1>1. q[m] \in Seq(Packets)
  BY DEF QueueType
<1>2. q[m] \o <<>> = q[m]
  BY <1>1
<1> QED BY <1>2 DEF QueueType

(* A step in which frames leave or are damaged, and frames appended are    *)
(* neither requests nor answers.                                           *)
Quiet(x) == ~IsRequest(x) /\ ~IsAnswer(x) /\ x.arg \in Times
Quieted(q, q2) ==
  \E q1 \in QueueType, m \in Links, t \in Seq(Packets) :
     /\ \E sh : Shortened(q, q1, sh)
     /\ q2 = [q1 EXCEPT ![m] = @ \o t]
     /\ \A i \in DOMAIN t : Quiet(t[i])

(* Frames only leave.                                                      *)
LEMMA OnlyShortened ==
  ASSUME NEW q, NEW q1 \in QueueType, NEW sh, Shortened(q, q1, sh)
  PROVE  Quieted(q, q1)
<1> DEFINE m == <<"GS", "UPPM">>
<1>1. m \in Links
  BY DEF Links
<1>2. q1 = [q1 EXCEPT ![m] = @ \o <<>>]
  BY <1>1, NothingAppended
<1>3. <<>> \in Seq(Packets) /\ \A i \in DOMAIN <<>> : Quiet(<<>>[i])
  OBVIOUS
<1> HIDE DEF m
<1> QED BY <1>1, <1>2, <1>3 DEF Quieted

(* A frame is lost.                                                        *)
LEMMA LoseQuiet ==
  ASSUME queue \in QueueType, NEW l \in Links, Lose(l)
  PROVE  Quieted(queue, queue')
<1>1. queue' = TailOf(queue, l) /\ queue[l] # <<>>
  BY DEF Lose, TailOf
<1> QED BY <1>1, TakenShortened, OnlyShortened

(* A damaged frame keeps its type and request, and is not intact.          *)
LEMMA DamagedWeaker ==
  ASSUME NEW p \in Packets, NEW x \in Damaged(p)
  PROVE  x \in Packets /\ Weaker(x, p)
<1>1. CASE x = [p EXCEPT !.intact = FALSE, !.arg = Garbled]
  BY <1>1 DEF Packets, Weaker
<1>2. CASE \E d \in Nodes \cup {None} : x = [p EXCEPT !.intact = FALSE, !.dest = d]
  BY <1>2 DEF Packets, Weaker
<1>3. CASE \E o \in Nodes : x = [p EXCEPT !.intact = FALSE, !.orgn = o]
  BY <1>3 DEF Packets, Weaker
<1> QED BY <1>1, <1>2, <1>3 DEF Damaged

(* A frame is damaged.                                                     *)
LEMMA GarbleQuiet ==
  ASSUME queue \in QueueType, NEW l \in Links, Garble(l)
  PROVE  Quieted(queue, queue')
<1>1. queue[l] # <<>> /\ queue[l] \in Seq(Packets)
  BY DEF Garble, QueueType
<1>2. PICK x \in Damaged(Head(queue[l])) : queue' = [queue EXCEPT ![l] = <<x>> \o Tail(@)]
  BY DEF Garble
<1>3. Head(queue[l]) \in Packets /\ Head(queue[l]) = queue[l][1]
  BY <1>1
<1>4. x \in Packets /\ Weaker(x, queue[l][1])
  BY <1>2, <1>3, DamagedWeaker
<1> DEFINE s == <<x>> \o Tail(queue[l])
<1>5. /\ s \in Seq(Packets) /\ DOMAIN s = DOMAIN queue[l]
      /\ \A i \in DOMAIN s : s[i] = IF i = 1 THEN x ELSE queue[l][i]
  <2>1. /\ Tail(queue[l]) \in Seq(Packets) /\ Len(Tail(queue[l])) = Len(queue[l]) - 1
        /\ Len(queue[l]) \in Nat /\ Len(queue[l]) # 0
        /\ \A i \in 1 .. Len(queue[l]) - 1 : Tail(queue[l])[i] = queue[l][i + 1]
    BY <1>1
  <2> DEFINE a == Tail(queue[l])
  <2>2. a \in Seq(Packets) /\ Len(a) = Len(queue[l]) - 1
        /\ \A i \in 1 .. Len(queue[l]) - 1 : a[i] = queue[l][i + 1]
    BY <2>1
  <2> HIDE DEF a
  <2>3. /\ <<x>> \o a \in Seq(Packets) /\ Len(<<x>> \o a) = 1 + Len(a)
        /\ (<<x>> \o a)[1] = x
        /\ \A i \in 2 .. Len(a) + 1 : (<<x>> \o a)[i] = a[i - 1]
    BY <1>4, <2>2
  <2> DEFINE b == <<x>> \o a
  <2>4. b \in Seq(Packets) /\ Len(b) = Len(queue[l]) /\ b[1] = x
        /\ \A i \in 2 .. Len(a) + 1 : b[i] = a[i - 1]
    BY <2>1, <2>2, <2>3
  <2> HIDE DEF b
  <2>5. DOMAIN b = 1 .. Len(queue[l]) /\ DOMAIN queue[l] = 1 .. Len(queue[l])
    BY <1>1, <2>4
  <2>6. \A i \in DOMAIN b : i # 1 => b[i] = queue[l][i]
    BY <2>1, <2>2, <2>4, <2>5
  <2>7. s = b
    BY DEF a, b
  <2> HIDE DEF s
  <2> QED BY <2>4, <2>5, <2>6, <2>7
<1> HIDE DEF s
<1>6. queue' \in QueueType /\ queue'[l] = s /\ \A m \in Links \ {l} : queue'[m] = queue[m]
  BY <1>2, <1>5 DEF QueueType, s
<1>7. Shortened(queue, queue', [m \in Links |-> 0])
  <2>1. \A m \in Links : \A i \in DOMAIN queue'[m] :
           i \in DOMAIN queue[m] /\ i + 0 = i /\ Weaker(queue'[m][i], queue[m][i])
    <3>1. \A i \in DOMAIN queue'[l] : i \in DOMAIN queue[l] /\ Weaker(queue'[l][i], queue[l][i])
      BY <1>4, <1>5, <1>6 DEF Weaker
    <3>2. \A m \in Links \ {l} : \A i \in DOMAIN queue'[m] :
            i \in DOMAIN queue[m] /\ Weaker(queue'[m][i], queue[m][i])
      BY <1>6 DEF Weaker
    <3>3. \A m \in Links : \A i \in DOMAIN queue'[m] : i \in Nat
      BY <1>6 DEF QueueType
    <3> QED BY <3>1, <3>2, <3>3
  <2> QED BY <2>1 DEF Shortened
<1> QED BY <1>6, <1>7, OnlyShortened

(* A time command of a PPM's own.                                          *)
LEMMA OwnCommandQuiet ==
  ASSUME NEW n \in Ppms, NEW d \in Ppms, NEW id \in TimeCmds, NEW arg \in Times
  PROVE  LET x == Packet(n, d, None, "CMD", id, arg, 0)
         IN  x \in Packets /\ Quiet(x)
<1>1. /\ n \in Nodes /\ d \in Nodes \cup {None} /\ None \in Nodes \cup {None} /\ id \in Ids
      /\ "CMD" \in {"CMD", "RES", "ACK"} /\ arg \in Times \cup {Garbled} /\ 0 \in 0 .. MaxRequests
  BY McpNatural, PpmsAndLinks DEF Ids
<1>2. Packet(n, d, None, "CMD", id, arg, 0) \in Packets
  BY <1>1, PacketTyped
<1> QED BY <1>2 DEF Quiet, IsRequest, IsAnswer, Packet

(* LPPM asks for the time.                                                 *)
LEMMA SyncQuiet ==
  ASSUME queue \in QueueType, time \in [Ppms -> Times], Sync
  PROVE  Quieted(queue, queue')
<1> DEFINE x == Packet("LPPM", "UPPM", None, "CMD", "ppm_set_time", time["LPPM"], 0)
           m == <<"LPPM", "UPPM">>
<1>1. "LPPM" \in Ppms /\ "UPPM" \in Ppms /\ "ppm_set_time" \in TimeCmds /\ time["LPPM"] \in Times
      /\ m \in Links
  BY DEF Ppms, TimeCmds, Links
<1>2. x \in Packets /\ Quiet(x)
  BY <1>1, OwnCommandQuiet
<1>3. queue' = [queue EXCEPT ![m] = Append(@, x)]
  BY DEF Sync
<1> HIDE DEF x, m
<1>4. queue' = [queue EXCEPT ![m] = @ \o <<x>>]
  <2>1. queue[m] \in Seq(Packets)
    BY <1>1 DEF QueueType
  <2>2. Append(queue[m], x) = queue[m] \o <<x>>
    BY <1>2, <2>1
  <2> QED BY <1>1, <1>3, <2>2 DEF QueueType
<1>5. <<x>> \in Seq(Packets) /\ \A i \in DOMAIN <<x>> : Quiet(<<x>>[i])
  <2>1. <<x>> \in Seq(Packets) /\ \A i \in DOMAIN <<x>> : <<x>>[i] = x
    BY <1>2
  <2> QED BY <1>2, <2>1
<1> QED BY <1>1, <1>4, <1>5, StillShortened DEF Quieted

(* A PPM starts over.                                                      *)
LEMMA ResetQuiet ==
  ASSUME queue \in QueueType, time \in [Ppms -> Times], NEW n \in Ppms, Reset(n)
  PROVE  Quieted(queue, queue')
<1> DEFINE boot == IF n = "UPPM"
                THEN Packet("UPPM", "LPPM", None, "CMD", "ppm_get_time", 0, 0)
                ELSE Packet("LPPM", "UPPM", None, "CMD", "ppm_set_time", time["LPPM"], 0)
           q1 == [l \in Links |-> IF l[2] = n THEN <<>> ELSE queue[l]]
           o == <<boot>>
           t == Selected(o, Through(n, Other(n), o))
           m == <<n, Other(n)>>
<1>1. "LPPM" \in Ppms /\ "UPPM" \in Ppms /\ {"ppm_get_time", "ppm_set_time"} = TimeCmds
      /\ time["LPPM"] \in Times /\ 0 \in Times
  BY McpNatural DEF Ppms, TimeCmds
<1>2. boot \in Packets /\ Quiet(boot)
  <2>1. "ppm_get_time" \in TimeCmds /\ "ppm_set_time" \in TimeCmds
    BY <1>1
  <2> QED BY <1>1, <2>1, OwnCommandQuiet
<1>3. queue' = Queued(q1, n, o)
  BY DEF Reset
<1> HIDE DEF boot
<1>4. /\ q1 \in QueueType
      /\ Shortened(queue, q1, [l \in Links |-> 0])
  <2>1. \A l \in Links : q1[l] = <<>> \/ q1[l] = queue[l]
    OBVIOUS
  <2>2. q1 \in QueueType
    BY <2>1 DEF QueueType
  <2> HIDE DEF q1
  <2>3. \A l \in Links : \A i \in DOMAIN q1[l] : i \in DOMAIN queue[l] /\ i + 0 = i /\ q1[l] = queue[l]
    BY <2>1, <2>2 DEF QueueType
  <2> QED BY <2>2, <2>3 DEF Shortened, Weaker
<1> HIDE DEF q1
<1>5. o \in Seq({boot}) /\ o \in Seq(Packets)
  BY <1>2
<1> HIDE DEF o
<1>6. t \in Seq({boot})
  BY <1>5, SelectedDrawn
<1>7. m \in Links /\ queue' = [q1 EXCEPT ![m] = @ \o t]
  <2>1. m \in Links
    BY PpmsAndLinks
  <2>2. Queued(q1, n, o) = [q1 EXCEPT ![m] = @ \o t]
    BY <1>4, <1>5, QueuedAppended
  <2> QED BY <1>3, <2>1, <2>2, Zenon
<1> HIDE DEF t, m
<1>8. t \in Seq(Packets) /\ \A i \in DOMAIN t : Quiet(t[i])
  BY <1>2, <1>6
<1> QED BY <1>4, <1>7, <1>8 DEF Quieted

(* Such a step keeps the invariant.                                        *)
LEMMA RequestsSafeQuiet ==
  ASSUME RequestsSafe, Quieted(queue, queue'), UNCHANGED <<asked, ran, inbox>>,
         time' \in [Ppms -> Times], harm' \in 0 .. MaxHarm
  PROVE  RequestsSafe'
<1>1. PICK q1 \in QueueType, m \in Links, t \in Seq(Packets) :
         /\ \E sh : Shortened(queue, q1, sh)
         /\ queue' = [q1 EXCEPT ![m] = @ \o t]
         /\ \A i \in DOMAIN t : Quiet(t[i])
  BY DEF Quieted
<1>2. PICK sh : Shortened(queue, q1, sh)
  BY <1>1
<1>3. queue \in QueueType
  BY TypesUsed DEF RequestsSafe
<1>4. queue' \in QueueType
  BY <1>1, Appended
<1>5. TypeOK'
  BY <1>4 DEF RequestsSafe, TypeOK, QueueType
<1>6. ArgsSent(queue')
  <2>1. ArgsSent(q1)
    BY <1>2, ShortenedArgs DEF RequestsSafe
  <2> QED BY <1>1, <2>1, AppendedArgs DEF Quiet
<1>7. Requested(queue', asked, ran)
  <2>1. Requested(q1, asked, ran)
    BY <1>2, <1>3, ShortenedRequested DEF RequestsSafe
  <2> QED BY <1>1, <2>1, AppendedQuiet DEF Quiet
<1> QED BY <1>5, <1>6, <1>7 DEF RequestsSafe

(* The faults and Sync are such steps.                                     *)
LEMMA HarmStep ==
  ASSUME TypeOK, Sync \/ Harm
  PROVE  /\ Quieted(queue, queue') /\ UNCHANGED <<asked, ran, inbox>>
         /\ time' \in [Ppms -> Times] /\ harm' \in 0 .. MaxHarm
<1>1. queue \in QueueType /\ time \in [Ppms -> Times] /\ harm \in 0 .. MaxHarm /\ MaxHarm \in Nat
  BY TypesUsed, McpAssumption
<1>2. CASE Sync
  BY <1>1, <1>2, SyncQuiet DEF Sync
<1>3. ASSUME NEW l \in Links, Lose(l)
      PROVE  /\ Quieted(queue, queue') /\ UNCHANGED <<asked, ran, inbox>>
             /\ time' \in [Ppms -> Times] /\ harm' \in 0 .. MaxHarm
  <2>1. Quieted(queue, queue')
    BY <1>1, <1>3, LoseQuiet
  <2>2. harm < MaxHarm /\ harm' = harm + 1 /\ UNCHANGED <<time, asked, ran, inbox>>
    BY <1>3 DEF Lose
  <2> QED BY <1>1, <2>1, <2>2
<1>4. ASSUME NEW l \in Links, Garble(l)
      PROVE  /\ Quieted(queue, queue') /\ UNCHANGED <<asked, ran, inbox>>
             /\ time' \in [Ppms -> Times] /\ harm' \in 0 .. MaxHarm
  <2>1. Quieted(queue, queue')
    BY <1>1, <1>4, GarbleQuiet
  <2>2. harm < MaxHarm /\ harm' = harm + 1 /\ UNCHANGED <<time, asked, ran, inbox>>
    BY <1>4 DEF Garble
  <2> QED BY <1>1, <2>1, <2>2
<1>5. ASSUME NEW n \in Ppms, Reset(n)
      PROVE  /\ Quieted(queue, queue') /\ UNCHANGED <<asked, ran, inbox>>
             /\ time' \in [Ppms -> Times] /\ harm' \in 0 .. MaxHarm
  <2>1. Quieted(queue, queue')
    BY <1>1, <1>5, ResetQuiet
  <2>2. time' \in [Ppms -> Times]
    BY <1>1, <1>5, McpNatural DEF Reset
  <2>3. harm' \in 0 .. MaxHarm /\ UNCHANGED <<asked, ran, inbox>>
    BY <1>1, <1>5 DEF Reset
  <2> QED BY <2>1, <2>2, <2>3
<1> QED BY <1>2, <1>3, <1>4, <1>5 DEF Harm

-----------------------------------------------------------------------------
(***************************************************************************)
(* Process, and the first theorems.                                        *)
(***************************************************************************)

(* A PPM takes p from link l, runs it if it may, and sends out.            *)
LEMMA ProcessParts ==
  ASSUME RequestsSafe, NEW l \in Links, Process(l)
  PROVE  LET n == l[2]
             p == Head(queue[l])
             out == Output(n, p)
             q1 == TailOf(queue, l)
             m == <<n, Other(n)>>
             t == Selected(out, Through(n, Other(n), out))
             v == UserOf(n)
         IN  /\ queue[l] # <<>> /\ n \in Ppms /\ p \in Packets /\ m \in Links
             /\ p = queue[l][1] /\ 1 \in DOMAIN queue[l]
             /\ q1 \in QueueType
             /\ Shortened(queue, q1, [k \in Links |-> IF k = l THEN 1 ELSE 0])
             /\ Outgoing(n, p, out) /\ out \in Seq(Packets)
             /\ Outgoing(n, p, t) /\ t \in Seq(Packets)
             /\ \A i \in DOMAIN t : Port(n, t[i].dest) = Other(n)
             /\ queue' = [q1 EXCEPT ![m] = @ \o t]
             /\ inbox' = [inbox EXCEPT ![v] = @ \o SeenBy(n, out)]
             /\ v \in Users /\ Home(v) = n
             /\ SeenBy(n, out) \in Seq(Entries)
             /\ ran' = ran \o RunAt(n, p) /\ UNCHANGED <<asked, harm>>
<1> DEFINE n == l[2]
           p == Head(queue[l])
           out == Output(n, p)
           q1 == TailOf(queue, l)
           m == <<n, Other(n)>>
           t == Selected(out, Through(n, Other(n), out))
           v == UserOf(n)
<1>1. /\ queue \in QueueType /\ time \in [Ppms -> Times] /\ inbox \in InboxType
  BY TypesUsed DEF RequestsSafe
<1>2. queue[l] # <<>> /\ n \in Ppms /\ m \in Links /\ v \in Users /\ Home(v) = n
  BY PpmsAndLinks, UserOfHome DEF Process
<1>3. /\ q1 \in QueueType
      /\ Shortened(queue, q1, [k \in Links |-> IF k = l THEN 1 ELSE 0])
      /\ 1 \in DOMAIN queue[l] /\ p = queue[l][1] /\ p \in Packets
  BY <1>1, <1>2, TakenShortened
<1>4. p.intact /\ p.ptype # "ACK" => p.arg \in Times
  BY <1>3 DEF RequestsSafe, ArgsSent
<1>5. Outgoing(n, p, out)
  BY <1>1, <1>2, <1>3, <1>4, OutputOutgoing
<1>6. out \in Seq(Packets)
  BY <1>5 DEF Outgoing
<1>7. /\ queue' = Queued([queue EXCEPT ![l] = Tail(@)], n, out)
      /\ inbox' = Seen(n, out) /\ ran' = ran \o RunAt(n, p) /\ UNCHANGED <<asked, harm>>
  BY DEF Process
<1>8. queue' = Queued(q1, n, out)
  BY <1>7 DEF TailOf
<1> HIDE DEF p, out, q1
<1>9. queue' = [q1 EXCEPT ![m] = @ \o t]
  <2>1. Queued(q1, n, out) = [q1 EXCEPT ![m] = @ \o t]
    BY <1>2, <1>3, <1>6, QueuedAppended
  <2> QED BY <1>8, <2>1, Zenon
<1>10. Outgoing(n, p, t) /\ \A i \in DOMAIN t : Port(n, t[i].dest) = Other(n)
  BY <1>2, <1>3, <1>5, SelectedOutgoing
<1>11. t \in Seq(Packets)
  <2> HIDE DEF t
  <2> QED BY <1>10 DEF Outgoing
<1>12. inbox' = [inbox EXCEPT ![v] = @ \o SeenBy(n, out)] /\ SeenBy(n, out) \in Seq(Entries)
  <2>1. SeenBy(n, out) \in Seq(Entries)
    BY <1>2, <1>6, TellsValid
  <2>2. Seen(n, out) = [inbox EXCEPT ![v] = @ \o SeenBy(n, out)]
    BY <1>1, <1>2, <1>6, SeenReceived
  <2> QED BY <1>7, <2>1, <2>2, Zenon
<1> HIDE DEF t, v, m, n
<1>13. ran' = ran \o RunAt(n, p) /\ UNCHANGED <<asked, harm>>
  BY <1>7
<1> QED BY <1>2, <1>3, <1>5, <1>6, <1>9, <1>10, <1>11, <1>12, <1>13, Zenon DEF n, p, out, q1, m, t, v

(* What is run is the request as it was made, and it goes no further.      *)
LEMMA RunsRequest ==
  ASSUME NEW n \in Ppms, NEW p \in Packets, NEW ask \in Seq(Shapes), NEW l \in Links,
         Len(ask) <= MaxRequests,
         IsRequest(p) => Genuine(ask, l, p), RunAt(n, p) # <<>>
  PROVE  \E e \in [req : Requests, node : Nodes, arg : Times] :
            /\ RunAt(n, p) = <<e>> /\ e.req = p.req /\ e.node = p.dest /\ e.arg = p.req
            /\ IsRequest(p) /\ p.intact /\ p.req \in 1 .. Len(ask) /\ p = Original(ask, p.req)
            /\ p.dest = n \/ Port(n, p.dest) = "EPS"
<1> DEFINE node == IF p.dest = n THEN n ELSE "EPS"
           e == [req |-> p.req, node |-> node, arg |-> p.arg]
<1>1. /\ RunAt(n, p) = <<e>> /\ p.intact /\ IsRequest(p)
      /\ p.dest = n \/ (p.dest # n /\ Port(n, p.dest) = "EPS")
  BY DEF RunAt, IsRequest
<1>2. p.req \in 1 .. Len(ask) /\ p = Original(ask, p.req)
  BY <1>1 DEF Genuine
<1>3. p.arg = p.req
  BY <1>2 DEF Original, Packet
<1>4. p.dest # n => p.dest = "EPS"
  BY <1>1 DEF Port, None
<1>5. p.req \in Requests /\ p.req \in Times /\ node = p.dest /\ node \in Nodes
  <2>1. p.req \in Requests /\ p.req \in Times
    BY <1>2, McpNatural DEF Requests, Times
  <2> QED BY <1>4, <2>1, PpmsAndLinks DEF Nodes
<1>6. e \in [req : Requests, node : Nodes, arg : Times]
  BY <1>3, <1>5
<1> QED BY <1>1, <1>2, <1>3, <1>5, <1>6

(* Process keeps the invariant.                                            *)
LEMMA RequestsSafeProcess ==
  ASSUME RequestsSafe, NEW l \in Links, Process(l)
  PROVE  RequestsSafe'
<1> DEFINE n == l[2]
           p == Head(queue[l])
           out == Output(n, p)
           q1 == TailOf(queue, l)
           m == <<n, Other(n)>>
           t == Selected(out, Through(n, Other(n), out))
           v == UserOf(n)
           seen == SeenBy(n, out)
<1>1. /\ queue[l] # <<>> /\ n \in Ppms /\ p \in Packets /\ m \in Links
      /\ p = queue[l][1] /\ 1 \in DOMAIN queue[l]
      /\ q1 \in QueueType
      /\ Shortened(queue, q1, [k \in Links |-> IF k = l THEN 1 ELSE 0])
      /\ Outgoing(n, p, t) /\ t \in Seq(Packets)
      /\ \A i \in DOMAIN t : Port(n, t[i].dest) = Other(n)
      /\ queue' = [q1 EXCEPT ![m] = @ \o t]
      /\ inbox' = [inbox EXCEPT ![v] = @ \o seen] /\ v \in Users
      /\ seen \in Seq(Entries)
      /\ ran' = ran \o RunAt(n, p) /\ UNCHANGED <<asked, harm>>
  BY ProcessParts, Zenon
<1>2. /\ queue \in QueueType /\ time \in [Ppms -> Times] /\ asked \in Seq(Shapes)
      /\ Len(asked) \in Nat /\ Len(asked) <= MaxRequests
      /\ ran \in RanType /\ inbox \in InboxType /\ harm \in 0 .. MaxHarm
  BY TypesUsed DEF RequestsSafe
<1>3. p.intact /\ p.ptype # "ACK" => p.arg \in Times
  BY <1>1 DEF RequestsSafe, ArgsSent
<1>4. IsRequest(p) => Absent(q1, p.req) /\ NotRun(ran, p.req) /\ Genuine(asked, l, p)
  BY <1>1, <1>2, TakenAbsent DEF RequestsSafe
<1>5. time' \in [Ppms -> Times]
  <2>1. time' = IF Executes(n, p) /\ SetsTime(n, p) THEN [time EXCEPT ![n] = p.arg] ELSE time
    BY DEF Process
  <2>2. Executes(n, p) /\ SetsTime(n, p) => p.arg \in Times
    BY <1>3 DEF Executes, SetsTime
  <2> HIDE DEF n, p
  <2> QED BY <1>1, <1>2, <2>1, <2>2
<1> HIDE DEF p, out, q1, t, v, m, seen
<1>6. queue' \in QueueType
  BY <1>1, Appended
<1>7. inbox' \in InboxType
  <2>1. inbox[v] \in Seq(Entries)
    BY <1>1, <1>2 DEF InboxType
  <2>2. inbox[v] \o seen \in Seq(Entries)
    BY <1>1, <2>1
  <2> QED BY <1>1, <1>2, <2>2 DEF InboxType
<1>8. ArgsSent(queue')
  <2>1. ArgsSent(q1)
    BY <1>1, ShortenedArgs DEF RequestsSafe
  <2>2. \A i \in DOMAIN t : t[i].intact /\ t[i].ptype # "ACK" => t[i].arg \in Times
    BY <1>1, <1>3 DEF Outgoing, OfItsOwn
  <2> QED BY <1>1, <2>1, <2>2, AppendedArgs
<1>9. Requested(q1, asked, ran)
  BY <1>1, <1>2, ShortenedRequested DEF RequestsSafe
<1>10. \A i \in DOMAIN t : IsRequest(t[i]) => i = Len(t) /\ t[i] = p /\ p.dest # n
  BY <1>1 DEF Outgoing, OfItsOwn, IsRequest
<1>11. ran' \in RanType /\ Requested(queue', asked, ran')
  <2>1. CASE RunAt(n, p) = <<>>
    <3>1. ran' = ran
      BY <1>1, <1>2, <2>1 DEF RanType
    <3>2. \A i \in DOMAIN t : IsRequest(t[i]) =>
             Genuine(asked, m, t[i]) /\ NotRun(ran, t[i].req) /\ Absent(q1, t[i].req)
      BY <1>1, <1>2, <1>4, <1>10, ForwardedOnItsWay DEF m
    <3>3. \A i, j \in DOMAIN t : IsRequest(t[i]) /\ IsRequest(t[j]) => i = j
      BY <1>10
    <3>4. Requested(queue', asked, ran)
      BY <1>1, <1>9, <3>2, <3>3, AppendedRequested
    <3> QED BY <1>2, <3>1, <3>4
  <2>2. CASE RunAt(n, p) # <<>>
    <3>1. PICK e \in [req : Requests, node : Nodes, arg : Times] :
            /\ RunAt(n, p) = <<e>> /\ e.req = p.req /\ e.node = p.dest /\ e.arg = p.req
            /\ IsRequest(p) /\ p.intact /\ p.req \in 1 .. Len(asked) /\ p = Original(asked, p.req)
            /\ p.dest = n \/ Port(n, p.dest) = "EPS"
      BY <1>1, <1>2, <1>4, <2>2, RunsRequest
    <3>2. p.dest = asked[p.req].dest
      BY <3>1 DEF Original, Packet
    <3>3. Requested(q1, asked, ran \o <<e>>)
      BY <1>2, <1>4, <1>9, <3>1, <3>2, RunRequested
    <3>4. \A i \in DOMAIN t : ~IsRequest(t[i])
      <4> SUFFICES ASSUME NEW i \in DOMAIN t, IsRequest(t[i]) PROVE FALSE
        OBVIOUS
      <4>1. t[i] = p /\ p.dest # n /\ Port(n, t[i].dest) = Other(n)
        BY <1>1, <1>10
      <4>2. Port(n, p.dest) = "EPS" /\ Other(n) \in Ppms /\ "EPS" \notin Ppms
        BY <1>1, <3>1, <4>1, PpmsAndLinks
      <4> QED BY <4>1, <4>2
    <3>5. Requested(queue', asked, ran \o <<e>>)
      BY <1>1, <3>3, <3>4, AppendedQuiet
    <3>6. ran \o <<e>> \in RanType
      BY <1>2 DEF RanType
    <3> QED BY <1>1, <3>1, <3>5, <3>6
  <2> QED BY <2>1, <2>2
<1>12. TypeOK'
  <2>1. asked' = asked /\ harm' = harm
    BY <1>1
  <2> QED BY <1>2, <1>5, <1>6, <1>7, <1>11, <2>1, Zenon DEF TypeOK, QueueType, RanType, InboxType, Entries
<1> QED BY <1>1, <1>8, <1>11, <1>12 DEF RequestsSafe

(* The invariant is inductive.                                             *)
LEMMA RequestsSafeNext == RequestsSafe /\ [Next]_vars => RequestsSafe'
<1> SUFFICES ASSUME RequestsSafe, [Next]_vars PROVE RequestsSafe'
  OBVIOUS
<1>1. CASE \E s \in Shapes : Ask(s)
  BY <1>1, RequestsSafeAsk
<1>2. CASE \E l \in Links : Process(l)
  BY <1>2, RequestsSafeProcess
<1>3. CASE Sync \/ Harm
  BY <1>3, HarmStep, RequestsSafeQuiet DEF RequestsSafe
<1>4. CASE UNCHANGED vars
  BY <1>4 DEF vars, RequestsSafe, TypeOK
<1> QED BY <1>1, <1>2, <1>3, <1>4 DEF Next

(* Every frame, time, request and answer stays in its type: in particular, *)
(* the time base of a PPM is never set from a damaged argument             *)
(* (ppm_set_time).                                                         *)
THEOREM McpTyped == Spec => []TypeOK
<1>1. RequestsSafe => TypeOK
  BY DEF RequestsSafe
<1> QED BY <1>1, RequestsSafeInit, RequestsSafeNext, PTL DEF Spec

(* Whatever lines and forwarding PPMs do to a frame, a request is executed *)
(* at most once, where it was sent and with the arguments it was sent with *)
(* (mcpmgr_process_pkt).                                                   *)
THEOREM AlwaysExecutedAsAsked == Spec => []ExecutedAsAsked
<1>1. RequestsSafe => ExecutedAsAsked
  BY DEF RequestsSafe, Requested, RanRight, ExecutedAsAsked
<1> QED BY <1>1, RequestsSafeInit, RequestsSafeNext, PTL DEF Spec

-----------------------------------------------------------------------------
(***************************************************************************)
(* Answers.  AnswersFollow is the invariant behind AnswersInOrder.  An     *)
(* answer for a user is on the link to its PPM; a result is of a request   *)
(* that was run where it comes from; before an intact request there is no  *)
(* answer of it, or acknowledgements of the first PPM only, those on the   *)
(* same link ahead of it (Ahead); and the answers of a request in S, seen  *)
(* or on the way to the same user, are in the order of their rank.  S will *)
(* be the set of the requests that were run or are on their way and        *)
(* intact: the answers to a request with a damaged header may come twice   *)
(* and from anywhere, and it will never run.                               *)
(***************************************************************************)

(* The link on which answers come back to the PPM of user u.               *)
Back(u) == <<Other(Home(u)), Home(u)>>
(* The place of an answer on the way of its request: the acknowledgement   *)
(* of the first PPM, that of the second, the result.                       *)
Rank(ask, a) ==
  IF a.ptype = "RES" THEN 3 ELSE IF a.orgn = First(ask, a.req) THEN 1 ELSE 2
FirstAck(ask, a) == a.ptype = "ACK" /\ a.orgn = First(ask, a.req)
(* A result is of a request that was run where it comes from.              *)
Backed(rn, a) ==
  a.ptype = "RES" /\ a.req # 0 => \E k \in DOMAIN rn : rn[k].req = a.req /\ rn[k].node = a.orgn
Founded(ask, rn, a) == a.orgn \in Ppms /\ a.req \in 0 .. Len(ask) /\ Backed(rn, a)
(* A request that may still be run; answers to request r, and those for    *)
(* user u.                                                                 *)
IsCopy(x) == IsRequest(x) /\ x.intact
AnswerOf(x, r) == IsAnswer(x) /\ x.req = r
AnswerFor(x, u, r) == AnswerOf(x, r) /\ x.dest = u

(* The parts of the invariant.                                             *)
AllFounded(q, ask, rn, ib) ==
  /\ \A l \in Links : \A i \in DOMAIN q[l] :
        IsAnswer(q[l][i]) => l = Back(q[l][i].dest) /\ Founded(ask, rn, q[l][i])
  /\ \A u \in Users : \A j \in DOMAIN ib[u] : Founded(ask, rn, ib[u][j])
Unanswered(q, ib, r) ==
  /\ \A l \in Links : \A i \in DOMAIN q[l] : ~AnswerOf(q[l][i], r)
  /\ \A u \in Users : \A j \in DOMAIN ib[u] : ib[u][j].req # r
OnlyFirst(q, ask, ib, r) ==
  /\ \A l \in Links : \A i \in DOMAIN q[l] : AnswerOf(q[l][i], r) => FirstAck(ask, q[l][i])
  /\ \A u \in Users : \A j \in DOMAIN ib[u] : ib[u][j].req = r => FirstAck(ask, ib[u][j])
Ahead(q, ask, ib) ==
  \A l \in Links : \A i \in DOMAIN q[l] :
     IsCopy(q[l][i]) =>
        IF l[1] \in Users THEN Unanswered(q, ib, q[l][i].req)
        ELSE /\ OnlyFirst(q, ask, ib, q[l][i].req)
             /\ \A j \in DOMAIN q[l] : AnswerOf(q[l][j], q[l][i].req) => j < i
InOrder(q, ask, ib, r) ==
  \A u \in Users :
     /\ \A i, j \in DOMAIN ib[u] :
           i < j /\ ib[u][i].req = r /\ ib[u][j].req = r => Rank(ask, ib[u][i]) < Rank(ask, ib[u][j])
     /\ \A i, j \in DOMAIN q[Back(u)] :
           i < j /\ AnswerFor(q[Back(u)][i], u, r) /\ AnswerFor(q[Back(u)][j], u, r)
              => Rank(ask, q[Back(u)][i]) < Rank(ask, q[Back(u)][j])
     /\ \A i \in DOMAIN ib[u] : \A j \in DOMAIN q[Back(u)] :
           ib[u][i].req = r /\ AnswerFor(q[Back(u)][j], u, r)
              => Rank(ask, ib[u][i]) < Rank(ask, q[Back(u)][j])
Plain(ask, r) == ask[r].echo # ask[r].user
Ordered(q, ask, ib, S) == \A r \in S : Plain(ask, r) => InOrder(q, ask, ib, r)
AnswersFollow(q, ask, rn, ib, S) ==
  AllFounded(q, ask, rn, ib) /\ Ahead(q, ask, ib) /\ Ordered(q, ask, ib, S)

(* It is one of the links.                                                 *)
LEMMA BackLink == \A u \in Users : Back(u) \in Links
BY PpmsAndLinks DEF Back, Links, Users, Home, Other

(* Frames are lost or damaged.                                             *)
LEMMA ShortenedAnswered ==
  ASSUME NEW q \in QueueType, NEW q2 \in QueueType, NEW ask, NEW rn, NEW ib, NEW S, NEW sh,
         Shortened(q, q2, sh), AnswersFollow(q, ask, rn, ib, S)
  PROVE  AnswersFollow(q2, ask, rn, ib, S)
<1>1. ASSUME NEW l \in Links, NEW i \in DOMAIN q2[l]
      PROVE  /\ i + sh[l] \in DOMAIN q[l] /\ i \in Nat /\ sh[l] \in Nat
             /\ IsAnswer(q2[l][i]) \/ IsCopy(q2[l][i]) => q2[l][i] = q[l][i + sh[l]]
  BY DEF Shortened, Weaker, IsAnswer, IsCopy, QueueType
<1>2. AllFounded(q2, ask, rn, ib)
  BY <1>1 DEF AnswersFollow, AllFounded
<1>3. \A r : Unanswered(q, ib, r) => Unanswered(q2, ib, r)
  BY <1>1 DEF Unanswered, AnswerOf
<1>4. \A r : OnlyFirst(q, ask, ib, r) => OnlyFirst(q2, ask, ib, r)
  BY <1>1 DEF OnlyFirst, AnswerOf
<1>5. Ahead(q2, ask, ib)
  <2> SUFFICES ASSUME NEW l \in Links, NEW i \in DOMAIN q2[l], IsCopy(q2[l][i])
               PROVE  IF l[1] \in Users THEN Unanswered(q2, ib, q2[l][i].req)
                      ELSE /\ OnlyFirst(q2, ask, ib, q2[l][i].req)
                           /\ \A j \in DOMAIN q2[l] : AnswerOf(q2[l][j], q2[l][i].req) => j < i
    BY DEF Ahead
  <2> DEFINE c == i + sh[l]
  <2>1. c \in DOMAIN q[l] /\ q2[l][i] = q[l][c] /\ IsCopy(q[l][c])
    BY <1>1
  <2>2. IF l[1] \in Users THEN Unanswered(q, ib, q[l][c].req)
        ELSE /\ OnlyFirst(q, ask, ib, q[l][c].req)
             /\ \A j \in DOMAIN q[l] : AnswerOf(q[l][j], q[l][c].req) => j < c
    BY <2>1 DEF AnswersFollow, Ahead
  <2>3. CASE l[1] \in Users
    BY <1>3, <2>1, <2>2, <2>3
  <2>4. CASE l[1] \notin Users
    <3>1. ASSUME NEW j \in DOMAIN q2[l], AnswerOf(q2[l][j], q2[l][i].req) PROVE j < i
      <4>1. j + sh[l] < c
        BY <1>1, <2>1, <2>2, <2>4, <3>1 DEF AnswerOf
      <4> QED BY <1>1, <4>1
    <3> QED BY <1>4, <2>1, <2>2, <2>4, <3>1
  <2> QED BY <2>3, <2>4
<1>6. ASSUME NEW r \in S, Plain(ask, r) PROVE InOrder(q2, ask, ib, r)
  <2> SUFFICES ASSUME NEW u \in Users
               PROVE  /\ \A i, j \in DOMAIN ib[u] :
                           i < j /\ ib[u][i].req = r /\ ib[u][j].req = r
                              => Rank(ask, ib[u][i]) < Rank(ask, ib[u][j])
                      /\ \A i, j \in DOMAIN q2[Back(u)] :
                           i < j /\ AnswerFor(q2[Back(u)][i], u, r) /\ AnswerFor(q2[Back(u)][j], u, r)
                              => Rank(ask, q2[Back(u)][i]) < Rank(ask, q2[Back(u)][j])
                      /\ \A i \in DOMAIN ib[u] : \A j \in DOMAIN q2[Back(u)] :
                           ib[u][i].req = r /\ AnswerFor(q2[Back(u)][j], u, r)
                              => Rank(ask, ib[u][i]) < Rank(ask, q2[Back(u)][j])
    BY DEF InOrder
  <2> DEFINE b == Back(u)
  <2>1. b \in Links
    BY BackLink
  <2>2. /\ \A i, j \in DOMAIN ib[u] :
             i < j /\ ib[u][i].req = r /\ ib[u][j].req = r
                => Rank(ask, ib[u][i]) < Rank(ask, ib[u][j])
        /\ \A i, j \in DOMAIN q[b] :
             i < j /\ AnswerFor(q[b][i], u, r) /\ AnswerFor(q[b][j], u, r)
                => Rank(ask, q[b][i]) < Rank(ask, q[b][j])
        /\ \A i \in DOMAIN ib[u] : \A j \in DOMAIN q[b] :
             ib[u][i].req = r /\ AnswerFor(q[b][j], u, r)
                => Rank(ask, ib[u][i]) < Rank(ask, q[b][j])
    BY <1>6, Zenon DEF AnswersFollow, Ordered, InOrder
  <2> HIDE DEF b
  <2>3. \A i \in DOMAIN q2[b] : AnswerFor(q2[b][i], u, r) =>
           i + sh[b] \in DOMAIN q[b] /\ q2[b][i] = q[b][i + sh[b]]
    BY <1>1, <2>1 DEF AnswerFor, AnswerOf
  <2>4. \A i, j \in DOMAIN q2[b] : i < j => i + sh[b] < j + sh[b]
    BY <1>1, <2>1
  <2>5. \A i, j \in DOMAIN q2[b] :
           i < j /\ AnswerFor(q2[b][i], u, r) /\ AnswerFor(q2[b][j], u, r)
              => Rank(ask, q2[b][i]) < Rank(ask, q2[b][j])
    BY <2>2, <2>3, <2>4
  <2>6. \A i \in DOMAIN ib[u] : \A j \in DOMAIN q2[b] :
           ib[u][i].req = r /\ AnswerFor(q2[b][j], u, r)
              => Rank(ask, ib[u][i]) < Rank(ask, q2[b][j])
    BY <2>2, <2>3
  <2> QED BY <2>2, <2>5, <2>6 DEF b
<1> QED BY <1>2, <1>5, <1>6 DEF AnswersFollow, Ordered

(* Frames t are sent on link m.                                            *)
MayBeSent(q, ask, rn, ib, S, m, t) ==
  /\ \A i \in DOMAIN t : IsAnswer(t[i]) =>
        /\ m = Back(t[i].dest) /\ Founded(ask, rn, t[i])
        /\ \A l \in Links : \A j \in DOMAIN q[l] : IsCopy(q[l][j]) => q[l][j].req # t[i].req
  /\ \A i \in DOMAIN t : IsCopy(t[i]) =>
        IF m[1] \in Users
        THEN Unanswered(q, ib, t[i].req) /\ \A j \in DOMAIN t : ~AnswerOf(t[j], t[i].req)
        ELSE /\ OnlyFirst(q, ask, ib, t[i].req)
             /\ \A j \in DOMAIN t : AnswerOf(t[j], t[i].req) => FirstAck(ask, t[j]) /\ j < i
  /\ \A r \in S : Plain(ask, r) => \A u \in Users :
        /\ \A i, j \in DOMAIN t :
              i < j /\ AnswerFor(t[i], u, r) /\ AnswerFor(t[j], u, r)
                 => Rank(ask, t[i]) < Rank(ask, t[j])
        /\ \A j \in DOMAIN t : AnswerFor(t[j], u, r) =>
              /\ \A i \in DOMAIN ib[u] : ib[u][i].req = r => Rank(ask, ib[u][i]) < Rank(ask, t[j])
              /\ \A i \in DOMAIN q[m] :
                    AnswerFor(q[m][i], u, r) => Rank(ask, q[m][i]) < Rank(ask, t[j])

(* That keeps the invariant.                                               *)
LEMMA SentAnswered ==
  ASSUME NEW q \in QueueType, NEW m \in Links, NEW t \in Seq(Packets),
         NEW ask, NEW rn, NEW ib, NEW S,
         AnswersFollow(q, ask, rn, ib, S), MayBeSent(q, ask, rn, ib, S, m, t)
  PROVE  AnswersFollow([q EXCEPT ![m] = @ \o t], ask, rn, ib, S)
<1> DEFINE q2 == [q EXCEPT ![m] = @ \o t]
           New(l, i) == l = m /\ i \notin DOMAIN q[m]
           k == Len(q[m])
<1>1. \A l \in Links : \A i \in DOMAIN q2[l] :
          IF New(l, i) THEN i - k \in DOMAIN t /\ q2[l][i] = t[i - k]
          ELSE i \in DOMAIN q[l] /\ q2[l][i] = q[l][i]
  BY Appended
<1>2. /\ k \in Nat /\ DOMAIN q[m] = 1 .. k
      /\ \A l \in Links : \A i \in DOMAIN q2[l] : i \in Nat /\ i # 0
  <2>1. q2 \in QueueType
    BY Appended
  <2> HIDE DEF q2
  <2> QED BY <2>1 DEF QueueType
<1>3. \A i, j \in DOMAIN q2[m] : New(m, j) /\ i < j /\ ~New(m, i) => i \in DOMAIN q[m]
  BY <1>1
<1>4. \A i, j \in DOMAIN q2[m] : New(m, i) /\ i < j => New(m, j) /\ i - k < j - k
  BY <1>2
<1> HIDE DEF q2, k
<1>5. AllFounded(q2, ask, rn, ib)
  <2>1. ASSUME NEW l \in Links, NEW i \in DOMAIN q2[l], IsAnswer(q2[l][i])
        PROVE  l = Back(q2[l][i].dest) /\ Founded(ask, rn, q2[l][i])
    <3>1. CASE New(l, i)
      BY <1>1, <2>1, <3>1 DEF MayBeSent
    <3>2. CASE ~New(l, i)
      BY <1>1, <2>1, <3>2 DEF AnswersFollow, AllFounded
    <3> QED BY <3>1, <3>2
  <2> QED BY <2>1 DEF AnswersFollow, AllFounded
<1>6. Ahead(q2, ask, ib)
  <2> SUFFICES ASSUME NEW l \in Links, NEW i \in DOMAIN q2[l], IsCopy(q2[l][i])
               PROVE  IF l[1] \in Users THEN Unanswered(q2, ib, q2[l][i].req)
                      ELSE /\ OnlyFirst(q2, ask, ib, q2[l][i].req)
                           /\ \A j \in DOMAIN q2[l] : AnswerOf(q2[l][j], q2[l][i].req) => j < i
    BY DEF Ahead
  <2> DEFINE r == q2[l][i].req
  <2>1. CASE ~New(l, i)
    <3>1. i \in DOMAIN q[l] /\ q2[l][i] = q[l][i] /\ IsCopy(q[l][i]) /\ q[l][i].req = r
      BY <1>1, <2>1
    <3>2. \A j \in DOMAIN t : ~AnswerOf(t[j], r)
      BY <3>1 DEF MayBeSent, AnswerOf
    <3>3. IF l[1] \in Users THEN Unanswered(q, ib, r)
          ELSE /\ OnlyFirst(q, ask, ib, r)
               /\ \A j \in DOMAIN q[l] : AnswerOf(q[l][j], r) => j < i
      BY <3>1 DEF AnswersFollow, Ahead
    <3> HIDE DEF r
    <3>4. \A h \in Links : \A j \in DOMAIN q2[h] : AnswerOf(q2[h][j], r) =>
             j \in DOMAIN q[h] /\ q2[h][j] = q[h][j]
      BY <1>1, <3>2
    <3>5. Unanswered(q, ib, r) => Unanswered(q2, ib, r)
      BY <3>4 DEF Unanswered
    <3>6. OnlyFirst(q, ask, ib, r) => OnlyFirst(q2, ask, ib, r)
      BY <3>4 DEF OnlyFirst
    <3> QED BY <3>3, <3>4, <3>5, <3>6 DEF r
  <2>2. CASE New(l, i)
    <3>1. l = m /\ i - k \in DOMAIN t /\ q2[l][i] = t[i - k] /\ IsCopy(t[i - k]) /\ t[i - k].req = r
      BY <1>1, <2>2
    <3>2. IF m[1] \in Users
          THEN Unanswered(q, ib, r) /\ \A j \in DOMAIN t : ~AnswerOf(t[j], r)
          ELSE /\ OnlyFirst(q, ask, ib, r)
               /\ \A j \in DOMAIN t : AnswerOf(t[j], r) => FirstAck(ask, t[j]) /\ j < i - k
      BY <3>1 DEF MayBeSent
    <3> HIDE DEF r
    <3>3. CASE m[1] \in Users
      <4>1. Unanswered(q2, ib, r)
        BY <1>1, <3>2, <3>3 DEF Unanswered
      <4> QED BY <3>1, <3>3, <4>1 DEF r
    <3>4. CASE m[1] \notin Users
      <4>1. OnlyFirst(q2, ask, ib, r)
        BY <1>1, <3>2, <3>4 DEF OnlyFirst
      <4>2. ASSUME NEW j \in DOMAIN q2[m], AnswerOf(q2[m][j], r) PROVE j < i
        <5>1. CASE New(m, j)
          <6>1. j - k \in DOMAIN t /\ AnswerOf(t[j - k], r)
            BY <1>1, <4>2, <5>1
          <6>2. j - k < i - k
            BY <3>2, <3>4, <6>1
          <6> QED BY <1>2, <3>1, <6>2
        <5>2. CASE ~New(m, j)
          BY <1>1, <1>2, <2>2, <3>1, <5>2
        <5> QED BY <5>1, <5>2
      <4> QED BY <3>1, <3>4, <4>1, <4>2 DEF r
    <3> QED BY <3>3, <3>4
  <2> QED BY <2>1, <2>2
<1>7. ASSUME NEW r \in S, Plain(ask, r) PROVE InOrder(q2, ask, ib, r)
  <2> SUFFICES ASSUME NEW u \in Users
               PROVE  /\ \A i, j \in DOMAIN ib[u] :
                           i < j /\ ib[u][i].req = r /\ ib[u][j].req = r
                              => Rank(ask, ib[u][i]) < Rank(ask, ib[u][j])
                      /\ \A i, j \in DOMAIN q2[Back(u)] :
                           i < j /\ AnswerFor(q2[Back(u)][i], u, r) /\ AnswerFor(q2[Back(u)][j], u, r)
                              => Rank(ask, q2[Back(u)][i]) < Rank(ask, q2[Back(u)][j])
                      /\ \A i \in DOMAIN ib[u] : \A j \in DOMAIN q2[Back(u)] :
                           ib[u][i].req = r /\ AnswerFor(q2[Back(u)][j], u, r)
                              => Rank(ask, ib[u][i]) < Rank(ask, q2[Back(u)][j])
    BY DEF InOrder
  <2> DEFINE b == Back(u)
  <2>1. b \in Links
    BY BackLink
  <2>2. /\ \A i, j \in DOMAIN ib[u] :
             i < j /\ ib[u][i].req = r /\ ib[u][j].req = r
                => Rank(ask, ib[u][i]) < Rank(ask, ib[u][j])
        /\ \A i, j \in DOMAIN q[b] :
             i < j /\ AnswerFor(q[b][i], u, r) /\ AnswerFor(q[b][j], u, r)
                => Rank(ask, q[b][i]) < Rank(ask, q[b][j])
        /\ \A i \in DOMAIN ib[u] : \A j \in DOMAIN q[b] :
             ib[u][i].req = r /\ AnswerFor(q[b][j], u, r)
                => Rank(ask, ib[u][i]) < Rank(ask, q[b][j])
    BY <1>7, Zenon DEF AnswersFollow, Ordered, InOrder
  <2> HIDE DEF b
  <2>3. /\ \A i, j \in DOMAIN t :
              i < j /\ AnswerFor(t[i], u, r) /\ AnswerFor(t[j], u, r)
                 => Rank(ask, t[i]) < Rank(ask, t[j])
        /\ \A j \in DOMAIN t : AnswerFor(t[j], u, r) =>
              /\ \A i \in DOMAIN ib[u] : ib[u][i].req = r => Rank(ask, ib[u][i]) < Rank(ask, t[j])
              /\ \A i \in DOMAIN q[m] :
                    AnswerFor(q[m][i], u, r) => Rank(ask, q[m][i]) < Rank(ask, t[j])
    BY <1>7, Zenon DEF MayBeSent
  <2>4. ASSUME NEW i \in DOMAIN q2[b], NEW j \in DOMAIN q2[b], i < j,
               AnswerFor(q2[b][i], u, r), AnswerFor(q2[b][j], u, r)
        PROVE  Rank(ask, q2[b][i]) < Rank(ask, q2[b][j])
    <3>1. CASE New(b, i)
      <4>1. New(b, j) /\ i - k < j - k
        BY <1>4, <2>1, <2>4, <3>1
      <4> QED BY <1>1, <2>1, <2>3, <2>4, <3>1, <4>1
    <3>2. CASE ~New(b, i) /\ New(b, j)
      BY <1>1, <2>1, <2>3, <2>4, <3>2
    <3>3. CASE ~New(b, i) /\ ~New(b, j)
      BY <1>1, <2>1, <2>2, <2>4, <3>3
    <3> QED BY <3>1, <3>2, <3>3
  <2>5. ASSUME NEW i \in DOMAIN ib[u], NEW j \in DOMAIN q2[b],
               ib[u][i].req = r, AnswerFor(q2[b][j], u, r)
        PROVE  Rank(ask, ib[u][i]) < Rank(ask, q2[b][j])
    BY <1>1, <2>1, <2>2, <2>3, <2>5
  <2> QED BY <2>2, <2>4, <2>5 DEF b
<1> QED BY <1>5, <1>6, <1>7 DEF AnswersFollow, Ordered, q2

(* User u receives the answers t.                                          *)
MayBeReceived(q, ask, rn, ib, S, u, t) ==
  /\ \A i \in DOMAIN t :
        /\ Founded(ask, rn, t[i])
        /\ \A l \in Links : \A j \in DOMAIN q[l] :
              IsCopy(q[l][j]) /\ q[l][j].req = t[i].req => l[1] \notin Users /\ FirstAck(ask, t[i])
  /\ \A r \in S : Plain(ask, r) =>
        /\ \A i, j \in DOMAIN t :
              i < j /\ t[i].req = r /\ t[j].req = r => Rank(ask, t[i]) < Rank(ask, t[j])
        /\ \A j \in DOMAIN t : t[j].req = r =>
              /\ \A i \in DOMAIN ib[u] : ib[u][i].req = r => Rank(ask, ib[u][i]) < Rank(ask, t[j])
              /\ \A i \in DOMAIN q[Back(u)] :
                    AnswerFor(q[Back(u)][i], u, r) => Rank(ask, t[j]) < Rank(ask, q[Back(u)][i])

(* The answers a user has after t.                                         *)
LEMMA Received ==
  ASSUME NEW ib \in InboxType, NEW u \in Users, NEW t \in Seq(Entries)
  PROVE  LET ib2 == [ib EXCEPT ![u] = @ \o t]
         IN  /\ ib2 \in InboxType
             /\ \A v \in Users \ {u} : ib2[v] = ib[v]
             /\ \A i \in DOMAIN ib2[u] :
                   \/ i \in DOMAIN ib[u] /\ ib2[u][i] = ib[u][i]
                   \/ /\ i \notin DOMAIN ib[u] /\ i - Len(ib[u]) \in DOMAIN t
                      /\ ib2[u][i] = t[i - Len(ib[u])]
             /\ \A i, j \in DOMAIN ib2[u] : i < j /\ i \notin DOMAIN ib[u] =>
                   j \notin DOMAIN ib[u] /\ i - Len(ib[u]) < j - Len(ib[u])
<1>1. ib[u] \in Seq(Entries)
  BY DEF InboxType
<1>2. /\ ib[u] \o t \in Seq(Entries) /\ Len(ib[u] \o t) = Len(ib[u]) + Len(t)
      /\ \A i \in 1 .. Len(ib[u]) : (ib[u] \o t)[i] = ib[u][i]
      /\ \A i \in 1 .. Len(ib[u]) + Len(t) : i > Len(ib[u]) => (ib[u] \o t)[i] = t[i - Len(ib[u])]
  BY <1>1
<1>3. Len(ib[u]) \in Nat /\ Len(t) \in Nat
  BY <1>1
<1> DEFINE ib2 == [ib EXCEPT ![u] = @ \o t]
<1>4. ib2 \in InboxType /\ ib2[u] = ib[u] \o t /\ \A v \in Users \ {u} : ib2[v] = ib[v]
  BY <1>2 DEF InboxType
<1>5. DOMAIN ib2[u] = 1 .. Len(ib[u]) + Len(t) /\ DOMAIN ib[u] = 1 .. Len(ib[u]) /\ DOMAIN t = 1 .. Len(t)
  BY <1>1, <1>2, <1>4
<1> HIDE DEF ib2
<1> QED BY <1>2, <1>3, <1>4, <1>5 DEF ib2

(* That keeps the invariant.                                               *)
LEMMA ReceivedAnswered ==
  ASSUME NEW q \in QueueType, NEW ib \in InboxType, NEW u \in Users, NEW t \in Seq(Entries),
         NEW ask, NEW rn, NEW S,
         AnswersFollow(q, ask, rn, ib, S), MayBeReceived(q, ask, rn, ib, S, u, t)
  PROVE  AnswersFollow(q, ask, rn, [ib EXCEPT ![u] = @ \o t], S)
<1> DEFINE ib2 == [ib EXCEPT ![u] = @ \o t]
           New(v, i) == v = u /\ i \notin DOMAIN ib[u]
           k == Len(ib[u])
<1>1. \A v \in Users : \A i \in DOMAIN ib2[v] :
          IF New(v, i) THEN i - k \in DOMAIN t /\ ib2[v][i] = t[i - k]
          ELSE i \in DOMAIN ib[v] /\ ib2[v][i] = ib[v][i]
  BY Received
<1>2. \A i, j \in DOMAIN ib2[u] : New(u, i) /\ i < j => New(u, j) /\ i - k < j - k
  BY Received
<1> HIDE DEF ib2, k
<1>3. AllFounded(q, ask, rn, ib2)
  <2>1. \A v \in Users : \A j \in DOMAIN ib2[v] : Founded(ask, rn, ib2[v][j])
    BY <1>1 DEF AnswersFollow, AllFounded, MayBeReceived
  <2> QED BY <2>1 DEF AnswersFollow, AllFounded
<1>4. Ahead(q, ask, ib2)
  <2> SUFFICES ASSUME NEW l \in Links, NEW i \in DOMAIN q[l], IsCopy(q[l][i])
               PROVE  IF l[1] \in Users THEN Unanswered(q, ib2, q[l][i].req)
                      ELSE /\ OnlyFirst(q, ask, ib2, q[l][i].req)
                           /\ \A j \in DOMAIN q[l] : AnswerOf(q[l][j], q[l][i].req) => j < i
    BY DEF Ahead
  <2> DEFINE r == q[l][i].req
  <2>1. IF l[1] \in Users THEN Unanswered(q, ib, r)
        ELSE /\ OnlyFirst(q, ask, ib, r)
             /\ \A j \in DOMAIN q[l] : AnswerOf(q[l][j], r) => j < i
    BY DEF AnswersFollow, Ahead
  <2>2. \A j \in DOMAIN t : t[j].req = r => l[1] \notin Users /\ FirstAck(ask, t[j])
    BY DEF MayBeReceived
  <2> HIDE DEF r
  <2>3. CASE l[1] \in Users
    BY <1>1, <2>1, <2>2, <2>3 DEF Unanswered, r
  <2>4. CASE l[1] \notin Users
    BY <1>1, <2>1, <2>2, <2>4 DEF OnlyFirst, r
  <2> QED BY <2>3, <2>4
<1>5. ASSUME NEW r \in S, Plain(ask, r) PROVE InOrder(q, ask, ib2, r)
  <2> SUFFICES ASSUME NEW v \in Users
               PROVE  /\ \A i, j \in DOMAIN ib2[v] :
                           i < j /\ ib2[v][i].req = r /\ ib2[v][j].req = r
                              => Rank(ask, ib2[v][i]) < Rank(ask, ib2[v][j])
                      /\ \A i, j \in DOMAIN q[Back(v)] :
                           i < j /\ AnswerFor(q[Back(v)][i], v, r) /\ AnswerFor(q[Back(v)][j], v, r)
                              => Rank(ask, q[Back(v)][i]) < Rank(ask, q[Back(v)][j])
                      /\ \A i \in DOMAIN ib2[v] : \A j \in DOMAIN q[Back(v)] :
                           ib2[v][i].req = r /\ AnswerFor(q[Back(v)][j], v, r)
                              => Rank(ask, ib2[v][i]) < Rank(ask, q[Back(v)][j])
    BY DEF InOrder
  <2> DEFINE b == q[Back(v)]
  <2>1. /\ \A i, j \in DOMAIN ib[v] :
             i < j /\ ib[v][i].req = r /\ ib[v][j].req = r
                => Rank(ask, ib[v][i]) < Rank(ask, ib[v][j])
        /\ \A i, j \in DOMAIN b :
             i < j /\ AnswerFor(b[i], v, r) /\ AnswerFor(b[j], v, r)
                => Rank(ask, b[i]) < Rank(ask, b[j])
        /\ \A i \in DOMAIN ib[v] : \A j \in DOMAIN b :
             ib[v][i].req = r /\ AnswerFor(b[j], v, r)
                => Rank(ask, ib[v][i]) < Rank(ask, b[j])
    BY <1>5, Zenon DEF AnswersFollow, Ordered, InOrder
  <2>2. /\ \A i, j \in DOMAIN t :
              i < j /\ t[i].req = r /\ t[j].req = r => Rank(ask, t[i]) < Rank(ask, t[j])
        /\ \A j \in DOMAIN t : t[j].req = r =>
              /\ \A i \in DOMAIN ib[u] : ib[u][i].req = r => Rank(ask, ib[u][i]) < Rank(ask, t[j])
              /\ v = u => \A i \in DOMAIN b :
                    AnswerFor(b[i], v, r) => Rank(ask, t[j]) < Rank(ask, b[i])
    BY <1>5 DEF MayBeReceived
  <2> HIDE DEF b
  <2>3. ASSUME NEW i \in DOMAIN ib2[v], NEW j \in DOMAIN ib2[v], i < j,
               ib2[v][i].req = r, ib2[v][j].req = r
        PROVE  Rank(ask, ib2[v][i]) < Rank(ask, ib2[v][j])
    <3>1. CASE New(v, i)
      <4>1. New(v, j) /\ i - k < j - k
        BY <1>2, <2>3, <3>1
      <4> QED BY <1>1, <2>2, <2>3, <3>1, <4>1
    <3>2. CASE ~New(v, i) /\ New(v, j)
      BY <1>1, <2>2, <2>3, <3>2
    <3>3. CASE ~New(v, i) /\ ~New(v, j)
      BY <1>1, <2>1, <2>3, <3>3
    <3> QED BY <3>1, <3>2, <3>3
  <2>4. \A i \in DOMAIN ib2[v] : \A j \in DOMAIN b :
             ib2[v][i].req = r /\ AnswerFor(b[j], v, r)
                => Rank(ask, ib2[v][i]) < Rank(ask, b[j])
    BY <1>1, <2>1, <2>2
  <2> QED BY <2>1, <2>3, <2>4 DEF b
<1> QED BY <1>3, <1>4, <1>5 DEF AnswersFollow, Ordered, ib2

(* More was run.                                                           *)
LEMMA RunAnswered ==
  ASSUME NEW q, NEW ask, NEW rn \in RanType, NEW x \in RanType, NEW ib, NEW S,
         AnswersFollow(q, ask, rn, ib, S)
  PROVE  AnswersFollow(q, ask, rn \o x, ib, S)
<1>1. \A k \in DOMAIN rn : k \in DOMAIN (rn \o x) /\ (rn \o x)[k] = rn[k]
  BY DEF RanType
<1> DEFINE r2 == rn \o x
<1> HIDE DEF r2
<1>2. \A a : Founded(ask, rn, a) => Founded(ask, r2, a)
  BY <1>1 DEF Founded, Backed, r2
<1>3. AllFounded(q, ask, r2, ib)
  BY <1>2 DEF AnswersFollow, AllFounded
<1> QED BY <1>3 DEF AnswersFollow, r2

(* More was asked: what is known of the requests before stays.             *)
LEMMA AskedAnswered ==
  ASSUME NEW q, NEW ask \in Seq(Shapes), NEW s \in Shapes, NEW rn, NEW ib,
         NEW S \in SUBSET (1 .. Len(ask)),
         Requested(q, ask, rn), AnswersFollow(q, ask, rn, ib, S)
  PROVE  AnswersFollow(q, Append(ask, s), rn, ib, S)
<1> DEFINE a2 == Append(ask, s)
<1>1. Len(ask) \in Nat /\ Len(a2) = Len(ask) + 1 /\ \A r \in 1 .. Len(ask) : a2[r] = ask[r]
  OBVIOUS
<1> HIDE DEF a2
<1>2. AllFounded(q, a2, rn, ib)
  <2>1. \A a : Founded(ask, rn, a) => Founded(a2, rn, a)
    BY <1>1 DEF Founded
  <2> QED BY <2>1 DEF AnswersFollow, AllFounded
<1>3. \A r \in 1 .. Len(ask) : First(a2, r) = First(ask, r)
  BY <1>1 DEF First
<1>4. Ahead(q, a2, ib)
  <2>1. \A l \in Links : \A i \in DOMAIN q[l] : IsCopy(q[l][i]) => q[l][i].req \in 1 .. Len(ask)
    BY DEF Requested, AllGenuine, Genuine, IsCopy
  <2>2. \A r \in 1 .. Len(ask) : OnlyFirst(q, ask, ib, r) => OnlyFirst(q, a2, ib, r)
    BY <1>3 DEF OnlyFirst, FirstAck, AnswerOf
  <2> QED BY <2>1, <2>2 DEF AnswersFollow, Ahead
<1>5. ASSUME NEW r \in S, Plain(a2, r) PROVE InOrder(q, a2, ib, r)
  <2>1. r \in 1 .. Len(ask) /\ Plain(ask, r)
    BY <1>1, <1>5 DEF Plain
  <2>2. \A a : a.req = r => Rank(a2, a) = Rank(ask, a)
    BY <1>3, <2>1 DEF Rank
  <2>3. InOrder(q, ask, ib, r)
    BY <2>1 DEF AnswersFollow, Ordered
  <2> QED BY <2>2, <2>3 DEF InOrder, AnswerFor, AnswerOf
<1> QED BY <1>2, <1>4, <1>5 DEF AnswersFollow, Ordered, a2

(* The requests whose fate is known: run, or on their way and intact.      *)
SoundIn(q, rn) ==
  {r \in Nat : \/ \E k \in DOMAIN rn : rn[k].req = r
               \/ \E l \in Links : \E i \in DOMAIN q[l] : IsCopy(q[l][i]) /\ q[l][i].req = r}

(* The invariant of fewer requests.                                        *)
LEMMA FewerAnswered ==
  ASSUME NEW q, NEW ask, NEW rn, NEW ib, NEW S, NEW S2 \in SUBSET S,
         AnswersFollow(q, ask, rn, ib, S)
  PROVE  AnswersFollow(q, ask, rn, ib, S2)
BY DEF AnswersFollow, Ordered

(* They were all asked for,                                                *)
LEMMA SoundKnown ==
  ASSUME NEW q, NEW ask, NEW rn, Requested(q, ask, rn)
  PROVE  SoundIn(q, rn) \in SUBSET (1 .. Len(ask))
BY DEF Requested, RanRight, AllGenuine, Genuine, SoundIn, IsCopy

(* losses and damage add none,                                             *)
LEMMA SoundShortened ==
  ASSUME NEW q, NEW q2, NEW sh, NEW rn, Shortened(q, q2, sh)
  PROVE  SoundIn(q2, rn) \subseteq SoundIn(q, rn)
BY DEF Shortened, Weaker, SoundIn, IsCopy, IsRequest

(* and sending adds those that are sent.                                   *)
CopyRequests(t) == {t[i].req : i \in {j \in DOMAIN t : IsCopy(t[j])}}
(* No other request becomes known by it.                                   *)
LEMMA SoundAppended ==
  ASSUME NEW q \in QueueType, NEW m \in Links, NEW t \in Seq(Packets), NEW rn
  PROVE  SoundIn([q EXCEPT ![m] = @ \o t], rn) \subseteq SoundIn(q, rn) \cup CopyRequests(t)
<1> DEFINE q2 == [q EXCEPT ![m] = @ \o t]
<1> SUFFICES ASSUME NEW r \in SoundIn(q2, rn)
             PROVE  r \in SoundIn(q, rn) \/ \E i \in DOMAIN t : IsCopy(t[i]) /\ t[i].req = r
  BY DEF CopyRequests
<1>1. \A l \in Links : \A i \in DOMAIN q2[l] :
          \/ i \in DOMAIN q[l] /\ q2[l][i] = q[l][i]
          \/ i - Len(q[m]) \in DOMAIN t /\ q2[l][i] = t[i - Len(q[m])]
  BY Appended
<1>2. r \in SoundIn(q2, rn)
  OBVIOUS
<1> HIDE DEF q2
<1>3. CASE \E k \in DOMAIN rn : rn[k].req = r
  BY <1>2, <1>3 DEF SoundIn
<1>4. CASE \E l \in Links : \E i \in DOMAIN q2[l] : IsCopy(q2[l][i]) /\ q2[l][i].req = r
  <2>1. PICK l \in Links : \E i \in DOMAIN q2[l] : IsCopy(q2[l][i]) /\ q2[l][i].req = r
    BY <1>4
  <2>2. PICK i \in DOMAIN q2[l] : IsCopy(q2[l][i]) /\ q2[l][i].req = r
    BY <2>1
  <2> QED BY <1>1, <1>2, <2>2 DEF SoundIn
<1> QED BY <1>2, <1>3, <1>4 DEF SoundIn

-----------------------------------------------------------------------------
(***************************************************************************)
(* The actions, and what they do to the answers.                           *)
(***************************************************************************)

(* The invariant behind AnswersInOrder.                                    *)
AnswersSafe ==
  RequestsSafe /\ AnswersFollow(queue, asked, ran, inbox, SoundIn(queue, ran))

(* It holds at the start.                                                  *)
LEMMA AnswersSafeInit == Init => AnswersSafe
<1> SUFFICES ASSUME Init PROVE AnswersSafe
  OBVIOUS
<1>1. RequestsSafe
  BY RequestsSafeInit
<1>2. /\ \A l \in Links : DOMAIN queue[l] = {}
      /\ \A u \in Users : DOMAIN inbox[u] = {}
      /\ DOMAIN ran = {}
  BY DEF Init
<1>3. SoundIn(queue, ran) = {}
  BY <1>2 DEF SoundIn
<1>4. AllFounded(queue, asked, ran, inbox) /\ Ahead(queue, asked, inbox)
  BY <1>2 DEF AllFounded, Ahead
<1> QED BY <1>1, <1>3, <1>4 DEF AnswersSafe, AnswersFollow, Ordered

(* Losses, damage, resets and Sync keep it.                                *)
LEMMA AnswersSafeQuiet ==
  ASSUME AnswersSafe, RequestsSafe', Quieted(queue, queue'), UNCHANGED <<asked, ran, inbox>>
  PROVE  AnswersSafe'
<1>1. PICK q1 \in QueueType, m \in Links, t \in Seq(Packets) :
         /\ \E sh : Shortened(queue, q1, sh)
         /\ queue' = [q1 EXCEPT ![m] = @ \o t]
         /\ \A i \in DOMAIN t : Quiet(t[i])
  BY DEF Quieted
<1>2. PICK sh : Shortened(queue, q1, sh)
  BY <1>1
<1>3. queue \in QueueType
  BY TypesUsed DEF AnswersSafe, RequestsSafe
<1> DEFINE S == SoundIn(queue, ran)
<1>4. AnswersFollow(q1, asked, ran, inbox, S)
  <2> HIDE DEF S
  <2>1. AnswersFollow(queue, asked, ran, inbox, S)
    BY DEF AnswersSafe, S
  <2> QED BY <1>2, <1>3, <2>1, ShortenedAnswered
<1>5. MayBeSent(q1, asked, ran, inbox, S, m, t)
  <2>1. \A i \in DOMAIN t : ~IsAnswer(t[i]) /\ ~IsCopy(t[i])
    BY <1>1 DEF Quiet, IsCopy
  <2> HIDE DEF S
  <2> QED BY <2>1 DEF MayBeSent, AnswerFor, AnswerOf
<1>6. AnswersFollow(queue', asked, ran, inbox, S)
  <2> HIDE DEF S
  <2> QED BY <1>1, <1>4, <1>5, SentAnswered
<1>7. SoundIn(queue', ran) \in SUBSET S
  <2> SUFFICES ASSUME NEW r \in SoundIn(queue', ran) PROVE r \in S
    OBVIOUS
  <2>1. r \in SoundIn(q1, ran) \/ \E i \in DOMAIN t : IsCopy(t[i]) /\ t[i].req = r
    <3>1. r \in SoundIn(q1, ran) \cup CopyRequests(t)
      BY <1>1, SoundAppended
    <3> QED BY <3>1 DEF CopyRequests
  <2>2. r \in SoundIn(q1, ran)
    BY <1>1, <2>1 DEF Quiet, IsCopy
  <2> QED BY <1>2, <2>2, SoundShortened
<1> HIDE DEF S
<1>8. AnswersFollow(queue', asked, ran, inbox, SoundIn(queue', ran))
  BY <1>6, <1>7, FewerAnswered
<1> QED BY <1>8 DEF AnswersSafe

(* A new request keeps it: nothing was answered in its name.               *)
LEMMA AnswersSafeAsk ==
  ASSUME AnswersSafe, RequestsSafe', NEW s \in Shapes, Ask(s)
  PROVE  AnswersSafe'
<1> DEFINE r == Len(asked) + 1
           p == Packet(s.user, s.dest, s.echo, "CMD", s.id, r, r)
           m == <<s.user, Home(s.user)>>
           t == <<p>>
           S == SoundIn(queue, ran)
           S2 == S \cup {r}
<1>1. /\ m \in Links /\ p \in Packets /\ r \in 1 .. MaxRequests /\ r \notin 1 .. Len(asked)
      /\ s.user \in Users
      /\ t \in Seq(Packets) /\ \A i \in DOMAIN t : t[i] = p
      /\ asked' = Append(asked, s) /\ IsRequest(p) /\ p.req = r
      /\ queue' = [queue EXCEPT ![m] = @ \o t]
  BY AskAppends DEF AnswersSafe
<1>2. queue \in QueueType /\ asked \in Seq(Shapes) /\ Len(asked) \in Nat
  BY TypesUsed DEF AnswersSafe, RequestsSafe
<1>3. m[1] \in Users
  BY <1>1
<1> HIDE DEF p, t, m
<1>4. Requested(queue, asked, ran) /\ AnswersFollow(queue, asked, ran, inbox, S)
  BY DEF AnswersSafe, RequestsSafe
<1>5. S \in SUBSET (1 .. Len(asked))
  BY <1>4, SoundKnown
<1> HIDE DEF S
<1>6. Unanswered(queue, inbox, r)
  <2>1. r \notin 0 .. Len(asked)
    BY <1>2
  <2> QED BY <1>4, <2>1 DEF AnswersFollow, AllFounded, Founded, Unanswered, AnswerOf
<1>7. AnswersFollow(queue, asked', ran, inbox, S2)
  <2>1. AnswersFollow(queue, asked', ran, inbox, S)
    BY <1>1, <1>2, <1>4, <1>5, AskedAnswered
  <2>2. InOrder(queue, asked', inbox, r)
    <3>1. \A u \in Users : Back(u) \in Links
      BY BackLink
    <3> HIDE DEF r
    <3> QED BY <1>6, <3>1 DEF InOrder, Unanswered, AnswerFor
  <2> QED BY <2>1, <2>2 DEF AnswersFollow, Ordered
<1>8. MayBeSent(queue, asked', ran, inbox, S2, m, t)
  <2>1. \A i \in DOMAIN t : ~IsAnswer(t[i]) /\ t[i].req = r
    BY <1>1 DEF IsAnswer, IsRequest
  <2> HIDE DEF r, S2
  <2> QED BY <1>3, <1>6, <2>1 DEF MayBeSent, AnswerFor, AnswerOf
<1> HIDE DEF S2
<1>9. AnswersFollow(queue', asked', ran, inbox, S2)
  BY <1>1, <1>2, <1>7, <1>8, SentAnswered
<1>10. SoundIn(queue', ran) \in SUBSET S2
  <2> SUFFICES ASSUME NEW h \in SoundIn(queue', ran) PROVE h \in S2
    OBVIOUS
  <2>1. h \in SoundIn(queue, ran) \/ \E i \in DOMAIN t : IsCopy(t[i]) /\ t[i].req = h
    <3>1. h \in SoundIn(queue, ran) \cup CopyRequests(t)
      BY <1>1, <1>2, SoundAppended
    <3> QED BY <3>1 DEF CopyRequests
  <2> QED BY <1>1, <2>1 DEF S, S2
<1>11. ran' = ran /\ inbox' = inbox
  BY DEF Ask
<1>12. AnswersFollow(queue', asked', ran', inbox', SoundIn(queue', ran'))
  BY <1>9, <1>10, <1>11, FewerAnswered
<1> QED BY <1>12 DEF AnswersSafe

(* All that a Process step does: n takes p from l, which leaves q1, makes  *)
(* out of it, sends t on to the other PPM and shows the rest to its user.  *)
Handled(l, n, p, out, q1, t) ==
  /\ queue[l] # <<>> /\ n = l[2] /\ n \in Ppms /\ p \in Packets
  /\ p = queue[l][1] /\ 1 \in DOMAIN queue[l] /\ p = Head(queue[l])
  /\ q1 \in QueueType /\ q1 = TailOf(queue, l)
  /\ Shortened(queue, q1, [k \in Links |-> IF k = l THEN 1 ELSE 0])
  /\ Outgoing(n, p, out) /\ out \in Seq(Packets)
  /\ Outgoing(n, p, t) /\ t \in Seq(Packets)
  /\ \A i \in DOMAIN t : Port(n, t[i].dest) = Other(n)
  /\ queue' = [q1 EXCEPT ![<<n, Other(n)>>] = @ \o t]
  /\ inbox' = [inbox EXCEPT ![UserOf(n)] = @ \o SeenBy(n, out)]
  /\ SeenBy(n, out) \in Seq(Entries)
  /\ ran' = ran \o RunAt(n, p) /\ asked' = asked

(* Every Process step is one of this kind.                                 *)
LEMMA ProcessHandled ==
  ASSUME RequestsSafe, NEW l \in Links, Process(l)
  PROVE  \E n, p, out, q1, t : Handled(l, n, p, out, q1, t)
<1> DEFINE n == l[2]
           p == Head(queue[l])
           out == Output(n, p)
           q1 == TailOf(queue, l)
           t == Selected(out, Through(n, Other(n), out))
<1>1. Handled(l, n, p, out, q1, t)
  BY ProcessParts, Zenon DEF Handled
<1> QED BY <1>1, Zenon

(* What the invariants say of it.                                          *)
LEMMA HandledFacts ==
  ASSUME AnswersSafe, NEW l \in Links, NEW n, NEW p, NEW out, NEW q1, NEW t,
         Handled(l, n, p, out, q1, t)
  PROVE  /\ IsRequest(p) => /\ Absent(q1, p.req) /\ NotRun(ran, p.req) /\ Genuine(asked, l, p)
                            /\ p.req \in SoundIn(queue, ran) => p.intact
         /\ RunAt(n, p) \in RanType /\ ran' \in RanType
         /\ RunAt(n, p) # <<>> => IsCopy(p)
         /\ SoundIn(queue', ran') \in SUBSET SoundIn(queue, ran)
         /\ AnswersFollow(q1, asked, ran', inbox, SoundIn(queue, ran))
<1> DEFINE S == SoundIn(queue, ran)
<1>1. /\ queue \in QueueType /\ asked \in Seq(Shapes) /\ ran \in RanType /\ Len(asked) <= MaxRequests
      /\ Requested(queue, asked, ran) /\ AnswersFollow(queue, asked, ran, inbox, S)
  BY TypesUsed DEF AnswersSafe, RequestsSafe
<1>2. ASSUME IsRequest(p)
      PROVE  /\ Absent(q1, p.req) /\ NotRun(ran, p.req) /\ Genuine(asked, l, p)
             /\ p.req \in S => p.intact
  <2>1. Absent(q1, p.req) /\ NotRun(ran, p.req) /\ Genuine(asked, l, p)
    BY <1>1, <1>2, TakenAbsent DEF Handled
  <2>2. ASSUME p.req \in S PROVE p.intact
    <3>1. PICK k \in Links : \E i \in DOMAIN queue[k] : IsCopy(queue[k][i]) /\ queue[k][i].req = p.req
      BY <2>1, <2>2 DEF SoundIn, NotRun
    <3>2. PICK i \in DOMAIN queue[k] : IsCopy(queue[k][i]) /\ queue[k][i].req = p.req
      BY <3>1
    <3>3. k = l /\ i = 1
      BY <1>1, <1>2, <3>2 DEF Requested, Single, Handled, IsCopy
    <3> QED BY <3>2, <3>3 DEF Handled, IsCopy
  <2> QED BY <2>1, <2>2
<1>3. RunAt(n, p) # <<>> => \E e \in [req : Requests, node : Nodes, arg : Times] :
         RunAt(n, p) = <<e>> /\ e.req = p.req /\ IsCopy(p)
  <2>1. n \in Ppms /\ p \in Packets
    BY DEF Handled
  <2> SUFFICES ASSUME RunAt(n, p) # <<>>
               PROVE  \E e \in [req : Requests, node : Nodes, arg : Times] :
                         RunAt(n, p) = <<e>> /\ e.req = p.req /\ IsCopy(p)
    OBVIOUS
  <2>2. PICK e \in [req : Requests, node : Nodes, arg : Times] :
            /\ RunAt(n, p) = <<e>> /\ e.req = p.req /\ e.node = p.dest /\ e.arg = p.req
            /\ IsRequest(p) /\ p.intact
    BY <1>1, <1>2, <2>1, RunsRequest
  <2> QED BY <2>2 DEF IsCopy
<1>4. RunAt(n, p) \in RanType
  <2>1. CASE RunAt(n, p) = <<>>
    BY <2>1 DEF RanType
  <2>2. CASE RunAt(n, p) # <<>>
    <3>1. PICK e \in [req : Requests, node : Nodes, arg : Times] : RunAt(n, p) = <<e>>
      BY <1>3, <2>2
    <3> QED BY <3>1 DEF RanType
  <2> QED BY <2>1, <2>2
<1>5. ran' = ran \o RunAt(n, p) /\ ran' \in RanType
  BY <1>1, <1>4 DEF Handled, RanType
<1>6. IsCopy(p) => p.req \in S
  <2>1. p.req \in Nat
    BY McpNatural DEF Handled, Packets
  <2> QED BY <2>1 DEF Handled, SoundIn
<1>7. \A k \in DOMAIN ran' : \/ k \in DOMAIN ran /\ ran'[k] = ran[k]
                             \/ IsCopy(p) /\ ran'[k].req = p.req
  <2>1. CASE RunAt(n, p) = <<>>
    BY <1>1, <1>5, <2>1 DEF RanType
  <2>2. CASE RunAt(n, p) # <<>>
    <3>1. PICK e \in [req : Requests, node : Nodes, arg : Times] :
            RunAt(n, p) = <<e>> /\ e.req = p.req /\ IsCopy(p)
      BY <1>3, <2>2
    <3>2. ran' = ran \o <<e>>
      BY <1>5, <3>1
    <3>3. \A k \in DOMAIN ran' : \/ k \in DOMAIN ran /\ ran'[k] = ran[k]
                                 \/ ran'[k] = e
      BY <1>1, <3>2 DEF RanType
    <3> QED BY <3>1, <3>3
  <2> QED BY <2>1, <2>2
<1>8. SoundIn(q1, ran') \subseteq S
  <2>1. SoundIn(q1, ran) \subseteq S
    BY SoundShortened DEF Handled
  <2>2. \A r \in SoundIn(q1, ran') : r \in SoundIn(q1, ran) \/ (IsCopy(p) /\ r = p.req)
    BY <1>7 DEF SoundIn
  <2> HIDE DEF S
  <2> QED BY <1>6, <2>1, <2>2
<1>9. SoundIn(queue', ran') \in SUBSET S
  <2> SUFFICES ASSUME NEW r \in SoundIn(queue', ran') PROVE r \in S
    OBVIOUS
  <2>1. <<n, Other(n)>> \in Links
    BY PpmsAndLinks DEF Handled
  <2>2. r \in SoundIn(q1, ran') \/ \E i \in DOMAIN t : IsCopy(t[i]) /\ t[i].req = r
    <3>1. r \in SoundIn(q1, ran') \cup CopyRequests(t)
      BY <2>1, SoundAppended DEF Handled
    <3> QED BY <3>1 DEF CopyRequests
  <2>3. \A i \in DOMAIN t : IsCopy(t[i]) => t[i] = p
    BY DEF Handled, Outgoing, OfItsOwn, IsCopy, IsRequest
  <2> HIDE DEF S
  <2> QED BY <1>6, <1>8, <2>2, <2>3
<1> HIDE DEF S
<1>10. AnswersFollow(q1, asked, ran, inbox, S)
  BY <1>1, ShortenedAnswered DEF Handled
<1>11. AnswersFollow(q1, asked, ran', inbox, S)
  BY <1>1, <1>4, <1>5, <1>10, RunAnswered
<1> QED BY <1>2, <1>3, <1>4, <1>5, <1>9, <1>11 DEF S

(* The whole step, from what is received and then sent.                    *)
LEMMA HandledAnswered ==
  ASSUME AnswersSafe, RequestsSafe', NEW l \in Links, NEW n, NEW p, NEW out, NEW q1, NEW t,
         Handled(l, n, p, out, q1, t),
         MayBeReceived(q1, asked, ran', inbox, SoundIn(queue, ran), UserOf(n), SeenBy(n, out)),
         MayBeSent(q1, asked, ran', inbox', SoundIn(queue, ran), <<n, Other(n)>>, t)
  PROVE  AnswersSafe'
<1> DEFINE S == SoundIn(queue, ran)
           m == <<n, Other(n)>>
           v == UserOf(n)
           seen == SeenBy(n, out)
<1>1. AnswersFollow(q1, asked, ran', inbox, S) /\ SoundIn(queue', ran') \in SUBSET S
  BY HandledFacts
<1>2. /\ q1 \in QueueType /\ t \in Seq(Packets) /\ seen \in Seq(Entries)
      /\ queue' = [q1 EXCEPT ![m] = @ \o t] /\ inbox' = [inbox EXCEPT ![v] = @ \o seen]
      /\ asked' = asked /\ m \in Links /\ v \in Users /\ inbox \in InboxType
  BY PpmsAndLinks, UserOfHome, TypesUsed DEF Handled, AnswersSafe, RequestsSafe
<1> HIDE DEF S, m, v, seen
<1>3. AnswersFollow(q1, asked, ran', inbox', S)
  BY <1>1, <1>2, ReceivedAnswered DEF S, v, seen
<1>4. AnswersFollow(queue', asked, ran', inbox', S)
  BY <1>2, <1>3, SentAnswered DEF S, m
<1>5. AnswersFollow(queue', asked', ran', inbox', SoundIn(queue', ran'))
  BY <1>1, <1>2, <1>4, FewerAnswered
<1> QED BY <1>5 DEF AnswersSafe

-----------------------------------------------------------------------------
(***************************************************************************)
(* Process takes an answer; or neither an answer nor an intact request.    *)
(***************************************************************************)

(* Where a PPM sends the answers for a user.                               *)
LEMMA PortBack ==
  ASSUME NEW n \in Ppms, NEW d \in Users
  PROVE  /\ Port(n, d) = Other(n) => <<n, Other(n)>> = Back(d) /\ d # UserOf(n)
         /\ Back(d)[2] = Home(d) /\ Back(d) = <<Other(Home(d)), Home(d)>>
BY DEF Port, Ppms, Users, UserOf, Back, Home, Other

(* What the user is told of an answer has its rank and its grounds.        *)
LEMMA ToldSame ==
  ASSUME NEW ask, NEW rn, NEW x
  PROVE  /\ Told(x).req = x.req /\ Told(x).orgn = x.orgn
         /\ Founded(ask, rn, x) => Founded(ask, rn, Told(x))
         /\ Rank(ask, Told(x)) = Rank(ask, x)
         /\ FirstAck(ask, x) => FirstAck(ask, Told(x))
BY DEF Told, Founded, Backed, Rank, FirstAck

(* What the user sees of the output.                                       *)
LEMMA SeenOfOut ==
  ASSUME NEW l, NEW n, NEW p, NEW out, NEW q1, NEW t, Handled(l, n, p, out, q1, t)
  PROVE  LET seen == SeenBy(n, out)
         IN  \E src :
               /\ \A k \in DOMAIN seen :
                     /\ src[k] \in DOMAIN out /\ seen[k] = Told(out[src[k]])
                     /\ IsAnswer(out[src[k]]) /\ out[src[k]].dest = UserOf(n)
               /\ \A j, k \in DOMAIN seen : j < k => src[j] < src[k]
<1> DEFINE seen == SeenBy(n, out)
<1>1. n \in Ppms /\ out \in Seq(Packets)
  BY DEF Handled
<1>2. PICK src : ToldOf(n, seen, out, src)
  BY <1>1, TellsValid
<1>3. UserOf(n) \in Users
  BY <1>1, UserOfHome
<1> HIDE DEF seen
<1>4. /\ \A k \in DOMAIN seen :
                     /\ src[k] \in DOMAIN out /\ seen[k] = Told(out[src[k]])
                     /\ IsAnswer(out[src[k]]) /\ out[src[k]].dest = UserOf(n)
      /\ \A j, k \in DOMAIN seen : j < k => src[j] < src[k]
  BY <1>2, <1>3 DEF ToldOf, IsAnswer
<1> QED BY <1>4 DEF seen

(* An answer on its way: it is shown to its user.                          *)
LEMMA AnswersSafeAnswer ==
  ASSUME AnswersSafe, RequestsSafe', NEW l \in Links, NEW n, NEW p, NEW out, NEW q1, NEW t,
         Handled(l, n, p, out, q1, t), IsAnswer(p)
  PROVE  AnswersSafe'
<1> DEFINE S == SoundIn(queue, ran)
           seen == SeenBy(n, out)
           u == p.dest
<1>1. AnswersFollow(queue, asked, ran, inbox, S)
  BY DEF AnswersSafe
<1> HIDE DEF S
<1>2. u \in Users /\ l = Back(u) /\ Founded(asked, ran, p)
  BY <1>1 DEF AnswersFollow, AllFounded, Handled, IsAnswer
<1>3. n \in Ppms /\ n = Home(u) /\ UserOf(n) = u /\ u # n
  BY <1>2, PortBack, UserOfHome, PpmsAndLinks DEF Handled
<1>4. p.ptype # "CMD"
  BY DEF IsAnswer
<1>5. ran' = ran
  <2>1. RunAt(n, p) = <<>>
    BY <1>4 DEF RunAt
  <2>2. ran \in RanType
    BY TypesUsed DEF AnswersSafe, RequestsSafe
  <2> QED BY <2>1, <2>2 DEF Handled, RanType
<1>6. \A k \in DOMAIN out : k = Len(out) /\ out[k] = p
  BY <1>4 DEF Handled, Outgoing, OfItsOwn
<1>7. \A i \in DOMAIN t : FALSE
  <2> SUFFICES ASSUME NEW i \in DOMAIN t PROVE FALSE
    OBVIOUS
  <2>1. t[i] = p /\ Port(n, t[i].dest) = Other(n)
    BY <1>4 DEF Handled, Outgoing, OfItsOwn
  <2> QED BY <1>2, <1>3, <2>1, PortBack
<1>8. \A k \in DOMAIN seen : seen[k] = Told(p)
  <2>1. PICK src : \A k \in DOMAIN seen : src[k] \in DOMAIN out /\ seen[k] = Told(out[src[k]])
    BY SeenOfOut
  <2> HIDE DEF seen
  <2> QED BY <1>6, <2>1
<1>9. \A j, k \in DOMAIN seen : ~(j < k)
  <2>1. PICK src :
          /\ \A k \in DOMAIN seen : src[k] \in DOMAIN out
          /\ \A j, k \in DOMAIN seen : j < k => src[j] < src[k]
    BY SeenOfOut
  <2>2. Len(out) \in Nat
    BY DEF Handled
  <2> HIDE DEF seen
  <2> QED BY <1>6, <2>1, <2>2
<1>10. ASSUME NEW k \in Links, NEW j \in DOMAIN q1[k], IsAnswer(q1[k][j]) \/ IsCopy(q1[k][j])
       PROVE  \E i \in DOMAIN queue[k] : q1[k][j] = queue[k][i] /\ (k = l => 1 < i)
  <2>1. j \in Nat /\ j # 0
    BY DEF Handled, QueueType
  <2>2. LET i == j + (IF k = l THEN 1 ELSE 0)
        IN  i \in DOMAIN queue[k] /\ Weaker(q1[k][j], queue[k][i])
    BY DEF Handled, Shortened
  <2>3. q1[k][j].intact
    BY <1>10 DEF IsAnswer, IsCopy
  <2> QED BY <2>1, <2>2, <2>3 DEF Weaker
<1>11. ASSUME NEW k \in Links, NEW j \in DOMAIN q1[k], IsCopy(q1[k][j]), q1[k][j].req = p.req
       PROVE  k[1] \notin Users /\ FirstAck(asked, p)
  <2>1. PICK i \in DOMAIN queue[k] : q1[k][j] = queue[k][i]
    BY <1>10, <1>11
  <2>2. IF k[1] \in Users THEN Unanswered(queue, inbox, p.req)
        ELSE OnlyFirst(queue, asked, inbox, p.req)
    BY <1>1, <1>11, <2>1 DEF AnswersFollow, Ahead
  <2>3. 1 \in DOMAIN queue[l] /\ AnswerOf(queue[l][1], p.req) /\ queue[l][1] = p
    BY DEF Handled, AnswerOf
  <2> QED BY <2>2, <2>3 DEF Unanswered, OnlyFirst
<1>12. ASSUME NEW r \in S, Plain(asked, r), p.req = r
       PROVE  /\ \A i \in DOMAIN inbox[u] :
                    inbox[u][i].req = r => Rank(asked, inbox[u][i]) < Rank(asked, p)
              /\ \A i \in DOMAIN q1[Back(u)] :
                    AnswerFor(q1[Back(u)][i], u, r) => Rank(asked, p) < Rank(asked, q1[Back(u)][i])
  <2>1. InOrder(queue, asked, inbox, r)
    BY <1>1, <1>12 DEF AnswersFollow, Ordered
  <2>2. 1 \in DOMAIN queue[l] /\ queue[l][1] = p /\ AnswerFor(queue[l][1], u, r)
    BY <1>12 DEF Handled, AnswerFor, AnswerOf
  <2>3. /\ \A i, j \in DOMAIN queue[l] :
             i < j /\ AnswerFor(queue[l][i], u, r) /\ AnswerFor(queue[l][j], u, r)
                => Rank(asked, queue[l][i]) < Rank(asked, queue[l][j])
        /\ \A i \in DOMAIN inbox[u] : \A j \in DOMAIN queue[l] :
             inbox[u][i].req = r /\ AnswerFor(queue[l][j], u, r)
                => Rank(asked, inbox[u][i]) < Rank(asked, queue[l][j])
    BY <1>2, <2>1 DEF InOrder
  <2>4. ASSUME NEW i \in DOMAIN q1[l], AnswerFor(q1[l][i], u, r)
        PROVE  Rank(asked, p) < Rank(asked, q1[l][i])
    <3>1. PICK j \in DOMAIN queue[l] : q1[l][i] = queue[l][j] /\ 1 < j
      BY <1>10, <2>4 DEF AnswerFor, AnswerOf
    <3> QED BY <2>2, <2>3, <2>4, <3>1
  <2> QED BY <1>2, <2>2, <2>3, <2>4
<1>13. MayBeReceived(q1, asked, ran', inbox, S, UserOf(n), seen)
  <2> HIDE DEF u, seen
  <2>1. ASSUME NEW i \in DOMAIN seen
        PROVE  /\ Founded(asked, ran', seen[i])
               /\ \A k \in Links : \A j \in DOMAIN q1[k] :
                    IsCopy(q1[k][j]) /\ q1[k][j].req = seen[i].req
                       => k[1] \notin Users /\ FirstAck(asked, seen[i])
    <3>1. seen[i] = Told(p) /\ seen[i].req = p.req
      BY <1>8, ToldSame
    <3> QED BY <1>2, <1>5, <1>11, <3>1, ToldSame
  <2>2. ASSUME NEW r \in S, Plain(asked, r)
        PROVE  /\ \A i, j \in DOMAIN seen : i < j /\ seen[i].req = r /\ seen[j].req = r
                     => Rank(asked, seen[i]) < Rank(asked, seen[j])
               /\ \A j \in DOMAIN seen : seen[j].req = r =>
                    /\ \A i \in DOMAIN inbox[u] :
                          inbox[u][i].req = r => Rank(asked, inbox[u][i]) < Rank(asked, seen[j])
                    /\ \A i \in DOMAIN q1[Back(u)] : AnswerFor(q1[Back(u)][i], u, r)
                          => Rank(asked, seen[j]) < Rank(asked, q1[Back(u)][i])
    <3>1. \A j \in DOMAIN seen : seen[j].req = p.req /\ Rank(asked, seen[j]) = Rank(asked, p)
      BY <1>8, ToldSame
    <3> QED BY <1>9, <1>12, <2>2, <3>1
  <2> QED BY <1>3, <2>1, <2>2 DEF MayBeReceived
<1>14. MayBeSent(q1, asked, ran', inbox', S, <<n, Other(n)>>, t)
  BY <1>7 DEF MayBeSent
<1> QED BY <1>13, <1>14, HandledAnswered DEF S, seen

(* The answers a PPM makes for a command it has taken.                     *)
LEMMA OwnAnswer ==
  ASSUME NEW n, NEW p, NEW t, Outgoing(n, p, t), ~IsAnswer(p)
  PROVE  \A i \in DOMAIN t : IsAnswer(t[i]) =>
            OfItsOwn(n, p, t[i]) /\ t[i].req = p.req /\ p.ptype = "CMD"
BY DEF Outgoing, OfItsOwn, IsAnswer

(* Anything else than an answer or an intact request is not answered in    *)
(* the name of a request that is on its way or was run.                    *)
LEMMA AnswersSafeNoise ==
  ASSUME AnswersSafe, RequestsSafe', NEW l \in Links, NEW n, NEW p, NEW out, NEW q1, NEW t,
         Handled(l, n, p, out, q1, t), ~IsAnswer(p), ~IsCopy(p)
  PROVE  AnswersSafe'
<1> DEFINE S == SoundIn(queue, ran)
           seen == SeenBy(n, out)
<1>1. /\ IsRequest(p) => /\ Absent(q1, p.req) /\ p.req \in 1 .. Len(asked) /\ p.req \notin S
  BY HandledFacts DEF Genuine, IsCopy
<1>2. S \in SUBSET (1 .. Len(asked))
  BY SoundKnown DEF AnswersSafe, RequestsSafe
<1>3. Len(asked) \in Nat /\ n \in Ppms
  BY TypesUsed DEF AnswersSafe, RequestsSafe, Handled
<1> HIDE DEF S
<1>4. ASSUME NEW x, OfItsOwn(n, p, x), IsAnswer(x)
      PROVE  /\ Founded(asked, ran', x) /\ x.req \notin S
             /\ \A k \in Links : \A j \in DOMAIN q1[k] : IsCopy(q1[k][j]) => q1[k][j].req # x.req
  <2>1. x.req = p.req /\ p.ptype = "CMD" /\ x.orgn = n
    BY <1>4 DEF OfItsOwn, IsAnswer
  <2>2. CASE p.req = 0
    BY <1>2, <1>3, <2>1, <2>2 DEF Founded, Backed, IsCopy, IsRequest
  <2>3. CASE p.req # 0
    <3>1. IsRequest(p) /\ ~p.intact
      BY <2>1, <2>3 DEF IsRequest, IsCopy
    <3>2. x.ptype # "RES"
      BY <1>4, <3>1 DEF OfItsOwn, Executes
    <3> QED BY <1>1, <1>3, <2>1, <3>1, <3>2 DEF Founded, Backed, Absent, IsCopy
  <2> QED BY <2>2, <2>3
<1>5. \A i \in DOMAIN out : IsAnswer(out[i]) => OfItsOwn(n, p, out[i])
  BY OwnAnswer DEF Handled
<1>6. \A i \in DOMAIN t : IsAnswer(t[i]) => OfItsOwn(n, p, t[i])
  BY OwnAnswer DEF Handled
<1>7. PICK src : \A k \in DOMAIN seen :
          /\ src[k] \in DOMAIN out /\ seen[k] = Told(out[src[k]])
          /\ IsAnswer(out[src[k]])
  BY SeenOfOut
<1> HIDE DEF seen
<1>8. MayBeReceived(q1, asked, ran', inbox, S, UserOf(n), seen)
  <2>1. \A k \in DOMAIN seen : /\ Founded(asked, ran', seen[k]) /\ seen[k].req \notin S
             /\ \A h \in Links : \A j \in DOMAIN q1[h] : IsCopy(q1[h][j]) => q1[h][j].req # seen[k].req
    BY <1>4, <1>5, <1>7, ToldSame
  <2> QED BY <2>1 DEF MayBeReceived
<1>9. MayBeSent(q1, asked, ran', inbox', S, <<n, Other(n)>>, t)
  <2>1. \A i \in DOMAIN t : IsAnswer(t[i]) =>
             /\ Founded(asked, ran', t[i]) /\ t[i].req \notin S
             /\ \A h \in Links : \A j \in DOMAIN q1[h] : IsCopy(q1[h][j]) => q1[h][j].req # t[i].req
    BY <1>4, <1>6
  <2>2. \A i \in DOMAIN t : IsAnswer(t[i]) => <<n, Other(n)>> = Back(t[i].dest)
    BY <1>3, PortBack DEF Handled, IsAnswer
  <2>3. \A i \in DOMAIN t : ~IsCopy(t[i])
    BY DEF Handled, Outgoing, OfItsOwn, IsCopy, IsRequest
  <2> QED BY <2>1, <2>2, <2>3 DEF MayBeSent, AnswerFor, AnswerOf
<1> QED BY <1>8, <1>9, HandledAnswered DEF S, seen

-----------------------------------------------------------------------------
(***************************************************************************)
(* Process takes an intact request.                                        *)
(***************************************************************************)

(* An intact request has come from its user, unanswered; or from the first *)
(* PPM, whose acknowledgements to this side came before it.                *)
LEMMA RequestTaken ==
  ASSUME AnswersSafe, NEW l \in Links, NEW n, NEW p, NEW out, NEW q1, NEW t,
         Handled(l, n, p, out, q1, t), IsCopy(p)
  PROVE  /\ p.req \in 1 .. Len(asked) /\ p = Original(asked, p.req)
         /\ \/ n = First(asked, p.req) /\ Unanswered(q1, inbox, p.req)
            \/ /\ n # First(asked, p.req) /\ OnlyFirst(q1, asked, inbox, p.req)
               /\ ~(p.dest # n /\ Port(n, p.dest) = Other(n))
               /\ \A j \in DOMAIN q1[Back(UserOf(n))] :
                     ~AnswerOf(q1[Back(UserOf(n))][j], p.req)
<1> DEFINE r == p.req
<1>1. IsRequest(p) /\ Genuine(asked, l, p) /\ n \in Ppms /\ n = l[2]
  BY HandledFacts DEF IsCopy, Handled
<1>2. r \in 1 .. Len(asked) /\ p = Original(asked, r) /\ OnItsWay(asked, l, p)
  BY <1>1 DEF Genuine, IsCopy
<1>3. IF l[1] \in Users THEN Unanswered(queue, inbox, r)
      ELSE /\ OnlyFirst(queue, asked, inbox, r)
           /\ \A j \in DOMAIN queue[l] : AnswerOf(queue[l][j], r) => j < 1
  BY DEF AnswersSafe, AnswersFollow, Ahead, Handled
<1>4. ASSUME NEW k \in Links, NEW j \in DOMAIN q1[k], AnswerOf(q1[k][j], r)
      PROVE  \E i \in DOMAIN queue[k] : q1[k][j] = queue[k][i] /\ (k = l => 1 < i)
  <2>1. j \in Nat /\ j # 0
    BY DEF Handled, QueueType
  <2>2. LET i == j + (IF k = l THEN 1 ELSE 0)
        IN  i \in DOMAIN queue[k] /\ Weaker(q1[k][j], queue[k][i])
    BY DEF Handled, Shortened
  <2>3. q1[k][j].intact
    BY <1>4 DEF IsAnswer, AnswerOf
  <2> QED BY <2>1, <2>2, <2>3 DEF Weaker
<1> DEFINE f == First(asked, r)
<1>5. p.orgn \in Users /\ f = Home(p.orgn) /\ f \in Ppms
  <2>1. p.orgn = asked[r].user
    BY <1>2 DEF Original, Packet
  <2>2. asked[r] \in Shapes
    BY <1>2, TypesUsed DEF AnswersSafe, RequestsSafe
  <2> QED BY <2>1, <2>2, McpAssumption, PpmsAndLinks DEF First
<1> HIDE DEF f
<1>6. CASE l = <<p.orgn, f>>
  <2>1. n = f /\ l[1] \in Users
    BY <1>1, <1>5, <1>6
  <2>2. Unanswered(queue, inbox, r)
    BY <1>3, <2>1
  <2>3. Unanswered(q1, inbox, r)
    <3> HIDE DEF r
    <3> QED BY <1>4, <2>2 DEF Unanswered
  <2> QED BY <1>2, <2>1, <2>3 DEF f
<1>7. CASE l = <<f, Other(f)>> /\ p.dest # f /\ Port(f, p.dest) = Other(f)
  <2>1. n = Other(f) /\ n # f /\ Other(n) = f /\ l[1] \notin Users /\ l[1] = f
    BY <1>1, <1>5, <1>7, PpmsAndLinks
  <2>2. OnlyFirst(queue, asked, inbox, r) /\ \A j \in DOMAIN queue[l] : AnswerOf(queue[l][j], r) => j < 1
    BY <1>3, <2>1
  <2>3. OnlyFirst(q1, asked, inbox, r)
    <3> HIDE DEF r
    <3> QED BY <1>4, <2>2 DEF OnlyFirst
  <2>4. Back(UserOf(n)) = l
    BY <1>1, <1>7, <2>1, UserOfHome DEF Back
  <2>5. \A j \in DOMAIN q1[l] : ~AnswerOf(q1[l][j], r)
    <3> SUFFICES ASSUME NEW j \in DOMAIN q1[l], AnswerOf(q1[l][j], r) PROVE FALSE
      OBVIOUS
    <3>1. PICK i \in DOMAIN queue[l] : q1[l][j] = queue[l][i] /\ 1 < i
      BY <1>4
    <3>2. i < 1 /\ i \in Nat
      <4>1. queue[l] \in Seq(Packets)
        BY TypesUsed DEF AnswersSafe, RequestsSafe, QueueType
      <4> QED BY <2>2, <3>1, <4>1
    <3> QED BY <3>1, <3>2
  <2>6. ~(p.dest # n /\ Port(n, p.dest) = Other(n))
    <3>1. (f = "LPPM" /\ n = "UPPM") \/ (f = "UPPM" /\ n = "LPPM")
      BY <1>5, <2>1 DEF Ppms, Other
    <3> QED BY <1>7, <2>1, <3>1, PortsCross
  <2> QED BY <1>2, <2>1, <2>3, <2>4, <2>5, <2>6 DEF f
<1> QED BY <1>2, <1>6, <1>7 DEF OnItsWay, f

(* Process of an intact request keeps the invariant.                       *)
LEMMA AnswersSafeRequest ==
  ASSUME AnswersSafe, RequestsSafe', NEW l \in Links, NEW n, NEW p, NEW out, NEW q1, NEW t,
         Handled(l, n, p, out, q1, t), IsCopy(p)
  PROVE  AnswersSafe'
<1> DEFINE S == SoundIn(queue, ran)
           seen == SeenBy(n, out)
           r == p.req
           u == UserOf(n)
           m == <<n, Other(n)>>
<1>1. /\ n \in Ppms /\ u \in Users /\ Home(u) = n /\ q1 \in QueueType
      /\ Outgoing(n, p, out) /\ Outgoing(n, p, t) /\ m \in Links /\ m[1] \notin Users
  BY UserOfHome, PpmsAndLinks DEF Handled
<1>2. /\ r \in 1 .. Len(asked) /\ p = Original(asked, r)
      /\ \/ n = First(asked, r) /\ Unanswered(q1, inbox, r)
         \/ /\ n # First(asked, r) /\ OnlyFirst(q1, asked, inbox, r)
            /\ ~(p.dest # n /\ Port(n, p.dest) = Other(n))
            /\ \A j \in DOMAIN q1[Back(u)] : ~AnswerOf(q1[Back(u)][j], r)
  BY RequestTaken
<1>3. Absent(q1, r) /\ IsRequest(p) /\ p.ptype = "CMD" /\ p.intact /\ r # 0 /\ ~IsAnswer(p)
  BY HandledFacts DEF IsCopy, IsRequest, IsAnswer
<1>4. Back(u) \in Links
  BY <1>1, BackLink
<1>5. Len(asked) \in Nat
  BY TypesUsed DEF AnswersSafe, RequestsSafe
<1> DEFINE Own(x) == OfItsOwn(n, p, x) /\ IsAnswer(x) /\ x.req = r
           Rk(x) == Rank(asked, x)
<1>6. \A i \in DOMAIN out : IsAnswer(out[i]) => Own(out[i])
  BY <1>1, <1>3, OwnAnswer
<1>7. \A i \in DOMAIN t : IsAnswer(t[i]) => Own(t[i])
  BY <1>1, <1>3, OwnAnswer
(* What is already there is older than what is made now.                   *)
<1>8. ASSUME NEW x, Own(x)
      PROVE  /\ \A k \in Links : \A j \in DOMAIN q1[k] :
                   AnswerOf(q1[k][j], r) => Rk(q1[k][j]) < Rk(x)
             /\ \A v \in Users : \A j \in DOMAIN inbox[v] :
                   inbox[v][j].req = r => Rk(inbox[v][j]) < Rk(x)
  <2>1. CASE Unanswered(q1, inbox, r)
    BY <2>1 DEF Unanswered
  <2>2. CASE n # First(asked, r) /\ OnlyFirst(q1, asked, inbox, r)
    <3>1. Rk(x) > 1 /\ Rk(x) \in Nat
      BY <1>8, <2>2 DEF OfItsOwn, Rank
    <3>2. \A y : y.req = r /\ FirstAck(asked, y) => Rk(y) = 1
      BY DEF FirstAck, Rank
    <3> HIDE DEF r, Rk
    <3> QED BY <2>2, <3>1, <3>2 DEF OnlyFirst, AnswerOf
  <2> QED BY <1>2, <2>1, <2>2
<1>9. \A j \in DOMAIN q1[Back(u)] : ~AnswerOf(q1[Back(u)][j], r)
  BY <1>2, <1>4 DEF Unanswered
(* Two answers made now for the same user: acknowledgement, then result.   *)
<1>10. ASSUME Plain(asked, r), NEW x, NEW y, Own(x), Own(y), x.dest = y.dest, Apart(p, x, y)
       PROVE  Rk(x) < Rk(y)
  <2>1. p.echo # p.orgn
    BY <1>2, <1>10 DEF Plain, Original, Packet
  <2>2. x.ptype = "ACK" /\ y.ptype = "RES"
    BY <1>3, <1>10, <2>1 DEF Apart, IsAnswer
  <2> QED BY <2>2 DEF Rank
<1>11. ASSUME NEW x, Own(x)
       PROVE  Founded(asked, ran', x)
  <2>1. x.orgn = n /\ x.req = r /\ x.req \in 0 .. Len(asked)
    BY <1>2, <1>5, <1>11 DEF OfItsOwn
  <2>2. ASSUME x.ptype = "RES" PROVE \E k \in DOMAIN ran' : ran'[k].req = r /\ ran'[k].node = n
    <3>1. Executes(n, p)
      BY <1>11, <2>2 DEF OfItsOwn
    <3> DEFINE e == [req |-> r, node |-> n, arg |-> p.arg]
    <3>2. RunAt(n, p) = <<e>>
      BY <1>3, <3>1 DEF RunAt, Executes
    <3>3. e.req = r /\ e.node = n
      OBVIOUS
    <3>4. ran \in RanType
      BY TypesUsed DEF AnswersSafe, RequestsSafe
    <3>5. ran' = ran \o <<e>>
      BY <3>2 DEF Handled
    <3> HIDE DEF e
    <3>6. Len(ran) + 1 \in DOMAIN ran' /\ ran'[Len(ran) + 1] = e
      BY <3>4, <3>5 DEF RanType
    <3> QED BY <3>3, <3>6
  <2> QED BY <1>1, <2>1, <2>2 DEF Founded, Backed
<1>12. \A k \in Links : \A j \in DOMAIN q1[k] : IsCopy(q1[k][j]) => q1[k][j].req # r
  BY <1>3 DEF Absent, IsCopy
<1>13. PICK src :
          /\ \A k \in DOMAIN seen :
                /\ src[k] \in DOMAIN out /\ seen[k] = Told(out[src[k]])
                /\ IsAnswer(out[src[k]]) /\ out[src[k]].dest = u
          /\ \A j, k \in DOMAIN seen : j < k => src[j] < src[k]
  BY SeenOfOut
<1>14. \A k \in DOMAIN seen : /\ Own(out[src[k]]) /\ seen[k].req = r
                              /\ Rk(seen[k]) = Rk(out[src[k]])
  <2> HIDE DEF seen, Own
  <2>1. \A k \in DOMAIN seen : Own(out[src[k]])
    BY <1>6, <1>13
  <2> QED BY <1>13, <2>1, ToldSame DEF Own
<1> HIDE DEF S, seen, r, u, m, Own, Rk
<1>15. MayBeReceived(q1, asked, ran', inbox, S, u, seen)
  <2>1. \A k \in DOMAIN seen :
          /\ Founded(asked, ran', seen[k])
          /\ \A h \in Links : \A j \in DOMAIN q1[h] :
               IsCopy(q1[h][j]) /\ q1[h][j].req = seen[k].req
                  => h[1] \notin Users /\ FirstAck(asked, seen[k])
    BY <1>11, <1>12, <1>13, <1>14, ToldSame
  <2>2. ASSUME NEW h \in S, Plain(asked, h)
        PROVE  /\ \A i, j \in DOMAIN seen : i < j /\ seen[i].req = h /\ seen[j].req = h
                     => Rk(seen[i]) < Rk(seen[j])
               /\ \A j \in DOMAIN seen : seen[j].req = h =>
                    /\ \A i \in DOMAIN inbox[u] : inbox[u][i].req = h => Rk(inbox[u][i]) < Rk(seen[j])
                    /\ \A i \in DOMAIN q1[Back(u)] : AnswerFor(q1[Back(u)][i], u, h)
                          => Rk(seen[j]) < Rk(q1[Back(u)][i])
    <3>1. ASSUME NEW i \in DOMAIN seen, NEW j \in DOMAIN seen, i < j, seen[i].req = h
          PROVE  Rk(seen[i]) < Rk(seen[j])
      <4>1. h = r /\ src[i] < src[j] /\ Own(out[src[i]]) /\ Own(out[src[j]])
            /\ out[src[i]].dest = out[src[j]].dest
        BY <1>13, <1>14, <3>1
      <4>2. Apart(p, out[src[i]], out[src[j]])
        BY <1>1, <1>13, <4>1 DEF Outgoing
      <4> QED BY <1>10, <1>14, <2>2, <4>1, <4>2
    <3>2. ASSUME NEW j \in DOMAIN seen, seen[j].req = h, NEW i \in DOMAIN inbox[u], inbox[u][i].req = h
          PROVE  Rk(inbox[u][i]) < Rk(seen[j])
      BY <1>1, <1>8, <1>14, <3>2
    <3>3. ASSUME NEW j \in DOMAIN seen, seen[j].req = h, NEW i \in DOMAIN q1[Back(u)]
          PROVE  ~AnswerFor(q1[Back(u)][i], u, h)
      BY <1>9, <1>14, <3>3 DEF AnswerFor
    <3> QED BY <3>1, <3>2, <3>3
  <2> QED BY <2>1, <2>2, Zenon DEF MayBeReceived, Rk
<1>16. \A v \in Users : v # u => inbox'[v] = inbox[v]
  BY UserOfHome, TypesUsed DEF Handled, u, AnswersSafe, RequestsSafe, InboxType
<1>17. \A i \in DOMAIN t : IsAnswer(t[i]) => m = Back(t[i].dest) /\ t[i].dest # u /\ t[i].dest \in Users
  BY <1>1, PortBack DEF Handled, IsAnswer, m, u
<1>18. MayBeSent(q1, asked, ran', inbox', S, m, t)
  <2>1. ASSUME NEW i \in DOMAIN t, IsAnswer(t[i])
        PROVE  /\ m = Back(t[i].dest) /\ Founded(asked, ran', t[i])
               /\ \A h \in Links : \A j \in DOMAIN q1[h] : IsCopy(q1[h][j]) => q1[h][j].req # t[i].req
    <3>1. Own(t[i]) /\ t[i].req = r
      BY <1>7, <2>1 DEF Own
    <3> QED BY <1>11, <1>12, <1>17, <2>1, <3>1
  <2>2. ASSUME NEW i \in DOMAIN t, IsCopy(t[i])
        PROVE  /\ OnlyFirst(q1, asked, inbox', t[i].req)
               /\ \A j \in DOMAIN t : AnswerOf(t[j], t[i].req) => FirstAck(asked, t[j]) /\ j < i
    <3>1. i = Len(t) /\ t[i] = p /\ p.dest # n /\ Port(n, p.dest) = Other(n)
      BY <2>2 DEF Handled, Outgoing, OfItsOwn, IsCopy, IsRequest
    <3>2. n = First(asked, r) /\ Unanswered(q1, inbox, r)
      BY <1>2, <3>1
    <3>3. \A x : Own(x) => FirstAck(asked, x)
      BY <3>1, <3>2 DEF Own, OfItsOwn, Executes, FirstAck, IsAnswer
    <3>4. \A v \in Users : \A j \in DOMAIN inbox'[v] : inbox'[v][j].req = r => FirstAck(asked, inbox'[v][j])
      <4>1. \A k \in DOMAIN seen : FirstAck(asked, seen[k])
        BY <1>13, <1>14, <3>3, ToldSame
      <4>2. inbox \in InboxType /\ u \in Users /\ seen \in Seq(Entries)
            /\ inbox' = [inbox EXCEPT ![u] = @ \o seen]
        BY <1>1, TypesUsed DEF Handled, u, seen, AnswersSafe, RequestsSafe
      <4>3. \A v \in Users : \A j \in DOMAIN inbox'[v] :
               \/ j \in DOMAIN inbox[v] /\ inbox'[v][j] = inbox[v][j]
               \/ \E k \in DOMAIN seen : inbox'[v][j] = seen[k]
        BY <4>2, Received
      <4> QED BY <3>2, <4>1, <4>3 DEF Unanswered
    <3>5. OnlyFirst(q1, asked, inbox', r)
      BY <3>2, <3>4 DEF OnlyFirst, Unanswered
    <3>6. ASSUME NEW j \in DOMAIN t, AnswerOf(t[j], r) PROVE FirstAck(asked, t[j]) /\ j < i
      <4>1. FirstAck(asked, t[j])
        BY <1>7, <3>3, <3>6 DEF AnswerOf
      <4>2. t[j] # p
        BY <1>3, <3>6 DEF AnswerOf
      <4>3. t \in Seq(Packets)
        BY DEF Handled
      <4>4. j \in Nat /\ j <= Len(t) /\ Len(t) \in Nat
        BY <4>3
      <4> QED BY <3>1, <4>1, <4>2, <4>4
    <3> QED BY <3>1, <3>5, <3>6 DEF r
  <2>3. ASSUME NEW h \in S, Plain(asked, h), NEW v \in Users
        PROVE  /\ \A i, j \in DOMAIN t :
                     i < j /\ AnswerFor(t[i], v, h) /\ AnswerFor(t[j], v, h) => Rk(t[i]) < Rk(t[j])
               /\ \A j \in DOMAIN t : AnswerFor(t[j], v, h) =>
                    /\ \A i \in DOMAIN inbox'[v] : inbox'[v][i].req = h => Rk(inbox'[v][i]) < Rk(t[j])
                    /\ \A i \in DOMAIN q1[m] : AnswerFor(q1[m][i], v, h) => Rk(q1[m][i]) < Rk(t[j])
    <3>1. \A j \in DOMAIN t : AnswerFor(t[j], v, h) => Own(t[j]) /\ h = r /\ v # u /\ t[j].dest = v
      BY <1>7, <1>17 DEF AnswerFor, AnswerOf, Own
    <3>2. ASSUME NEW i \in DOMAIN t, NEW j \in DOMAIN t, i < j, AnswerFor(t[i], v, h), AnswerFor(t[j], v, h)
          PROVE  Rk(t[i]) < Rk(t[j])
      <4>1. Apart(p, t[i], t[j])
        BY <1>1, <3>2 DEF Outgoing
      <4> QED BY <1>10, <2>3, <3>1, <3>2, <4>1
    <3>3. ASSUME NEW j \in DOMAIN t, AnswerFor(t[j], v, h)
          PROVE  /\ \A i \in DOMAIN inbox'[v] : inbox'[v][i].req = h => Rk(inbox'[v][i]) < Rk(t[j])
                 /\ \A i \in DOMAIN q1[m] : AnswerFor(q1[m][i], v, h) => Rk(q1[m][i]) < Rk(t[j])
      BY <1>1, <1>8, <1>16, <3>1, <3>3 DEF AnswerFor
    <3> QED BY <3>2, <3>3
  <2> QED BY <1>1, <2>1, <2>2, <2>3, Zenon DEF MayBeSent, Rk
<1> QED BY <1>15, <1>18, HandledAnswered DEF S, seen, u, m

-----------------------------------------------------------------------------
(***************************************************************************)
(* AnswersInOrder.                                                         *)
(***************************************************************************)

(* The invariant is inductive.                                             *)
LEMMA AnswersSafeNext == AnswersSafe /\ [Next]_vars => AnswersSafe'
<1> SUFFICES ASSUME AnswersSafe, [Next]_vars PROVE AnswersSafe'
  OBVIOUS
<1>1. RequestsSafe'
  BY RequestsSafeNext DEF AnswersSafe
<1>2. CASE \E s \in Shapes : Ask(s)
  BY <1>1, <1>2, AnswersSafeAsk
<1>3. ASSUME NEW l \in Links, Process(l) PROVE AnswersSafe'
  <2>1. PICK n, p, out, q1, t : Handled(l, n, p, out, q1, t)
    BY <1>3, ProcessHandled DEF AnswersSafe
  <2>2. CASE IsAnswer(p)
    BY <1>1, <2>1, <2>2, AnswersSafeAnswer
  <2>3. CASE IsCopy(p)
    BY <1>1, <2>1, <2>3, AnswersSafeRequest
  <2>4. CASE ~IsAnswer(p) /\ ~IsCopy(p)
    BY <1>1, <2>1, <2>4, AnswersSafeNoise
  <2> QED BY <2>2, <2>3, <2>4
<1>4. CASE Sync \/ Harm
  <2>1. Quieted(queue, queue') /\ UNCHANGED <<asked, ran, inbox>>
    BY <1>4, HarmStep DEF AnswersSafe, RequestsSafe
  <2> QED BY <1>1, <2>1, AnswersSafeQuiet
<1>5. CASE UNCHANGED vars
  <2>1. queue' = queue /\ asked' = asked /\ ran' = ran /\ inbox' = inbox
    BY <1>5 DEF vars
  <2> QED BY <1>1, <2>1 DEF AnswersSafe
<1> QED BY <1>2, <1>3, <1>4, <1>5 DEF Next

(* The place on the way, as the model counts it, is the rank of an answer. *)
LEMMA StepIsRank ==
  ASSUME NEW a, a.orgn \in Ppms, asked[a.req].user \in Users
  PROVE  Step(a) = Rank(asked, a)
<1> DEFINE f == First(asked, a.req)
           w == <<f, Other(f)>>
<1>1. f \in Ppms /\ Other(f) # f /\ Way(a.req) = w
  BY PpmsAndLinks DEF First, Way
<1>2. a.orgn = f \/ a.orgn = Other(f)
  BY <1>1 DEF Ppms, Other
<1> HIDE DEF f
<1>3. CASE a.ptype = "RES"
  BY <1>3 DEF Step, Rank
<1>4. CASE a.ptype # "RES"
  <2>1. w[1] = f /\ w[2] = Other(f)
    OBVIOUS
  <2>2. \A i \in 1 .. 2 : w[i] = a.orgn <=> i = IF a.orgn = f THEN 1 ELSE 2
    BY <1>1, <1>2, <2>1
  <2> HIDE DEF w
  <2>3. (CHOOSE i \in 1 .. 2 : w[i] = a.orgn) = IF a.orgn = f THEN 1 ELSE 2
    BY <2>2
  <2>4. Step(a) = CHOOSE i \in 1 .. 2 : Way(a.req)[i] = a.orgn
    BY <1>4 DEF Step
  <2> QED BY <1>1, <1>4, <2>3, <2>4 DEF Rank, f
<1> QED BY <1>3, <1>4

(* And it implies AnswersInOrder.                                          *)
LEMMA AnswersSafeInOrder == AnswersSafe => AnswersInOrder
<1> SUFFICES ASSUME AnswersSafe, NEW u \in Users, NEW j \in DOMAIN inbox[u]
             PROVE  LET a == inbox[u][j]
                    IN  /\ a.ptype = "RES" /\ a.req # 0 => a.orgn \in RanAt(a.req)
                        /\ RanAt(a.req) # {} /\ asked[a.req].echo # asked[a.req].user =>
                              \A i \in 1 .. j - 1 :
                                 inbox[u][i].req = a.req => Step(inbox[u][i]) < Step(a)
  BY DEF AnswersInOrder
<1> DEFINE a == inbox[u][j]
<1>1. \A k \in DOMAIN inbox[u] : Founded(asked, ran, inbox[u][k])
  BY DEF AnswersSafe, AnswersFollow, AllFounded
<1>2. a.ptype = "RES" /\ a.req # 0 => a.orgn \in RanAt(a.req)
  BY <1>1 DEF Founded, Backed, RanAt
<1>3. ASSUME RanAt(a.req) # {}, asked[a.req].echo # asked[a.req].user,
             NEW i \in 1 .. j - 1, inbox[u][i].req = a.req
      PROVE  Step(inbox[u][i]) < Step(a)
  <2> DEFINE r == a.req
  <2>1. \E k \in DOMAIN ran : ran[k].req = r
    BY <1>3 DEF RanAt
  <2>2. r \in 1 .. Len(asked)
    BY <2>1 DEF AnswersSafe, RequestsSafe, Requested, RanRight
  <2>3. r \in SoundIn(queue, ran) /\ asked[r].user \in Users
    <3>1. r \in Nat
      BY <2>2
    <3>2. asked[r] \in Shapes
      BY <2>2, TypesUsed DEF AnswersSafe, RequestsSafe
    <3> QED BY <2>1, <3>1, <3>2, McpAssumption DEF SoundIn
  <2>4. InOrder(queue, asked, inbox, r)
    BY <1>3, <2>3 DEF AnswersSafe, AnswersFollow, Ordered, Plain
  <2>5. i \in DOMAIN inbox[u] /\ i < j
    <3>1. inbox[u] \in Seq(Entries)
      BY TypesUsed DEF AnswersSafe, RequestsSafe, InboxType
    <3> QED BY <3>1
  <2>6. Rank(asked, inbox[u][i]) < Rank(asked, a)
    BY <1>3, <2>4, <2>5 DEF InOrder
  <2> QED BY <1>1, <1>3, <2>3, <2>5, <2>6, StepIsRank DEF Founded
<1> QED BY <1>2, <1>3

(* A user sees a result only of a request that was executed, from the node *)
(* that executed it, and the answers to it in the order of its way, each   *)
(* once and the result last (mcpmgr_process_pkt, mcp_respond).             *)
THEOREM AlwaysAnswersInOrder == Spec => []AnswersInOrder
<1>1. Init => AnswersSafe
  BY AnswersSafeInit
<1>2. AnswersSafe /\ [Next]_vars => AnswersSafe'
  BY AnswersSafeNext
<1>3. AnswersSafe => AnswersInOrder
  BY AnswersSafeInOrder
<1> QED BY <1>1, <1>2, <1>3, PTL DEF Spec
=============================================================================
