---------------------------- MODULE McpNetwork ----------------------------
(***************************************************************************)
(* The packet managers of the two PPMs at work on each other's packets     *)
(* (mcpmgr.c, mcppkt.c, the time commands of both cmdimpl.c).  The ground  *)
(* station talks to the Upper PPM, the FTDI terminal to the Lower one, and *)
(* a PPM forwards what is not for it.  A packet is here one whole frame: a *)
(* byte fault either loses it or leaves it with a CRC that is wrong.       *)
(*                                                                         *)
(* A handler is one action although its frames leave one by one: interrupts*)
(* only append to the queues, so the order in which two PPMs take steps    *)
(* that touch different queues changes nothing.                            *)
(***************************************************************************)
EXTENDS Naturals, Sequences, SequencesExt, FiniteSets

CONSTANTS Shapes,       \* the requests a user may make: [user, dest, echo, id]
          MaxRequests,  \* bound: requests of the users
          MaxHarm,      \* bound: frames harmed by the lines, and resets
          MaxQueue      \* bound: frames between the PPMs when a time update starts

Ppms  == {"LPPM", "UPPM"}
Users == {"GS", "FTDI"}
Nodes == Ppms \cup Users \cup {"EPS"}
None  == "none"         \* 0 in the echo field; and the port of a packet no case routes
Links == {<<"GS", "UPPM">>, <<"FTDI", "LPPM">>, <<"LPPM", "UPPM">>, <<"UPPM", "LPPM">>}
TimeCmds == {"ppm_get_time", "ppm_set_time"}
Ids      == TimeCmds \cup {"unknown"}

ASSUME McpAssumption ==
    /\ Shapes \subseteq [user : Users, dest : Nodes, echo : Nodes \cup {None}, id : Ids]
    /\ MaxRequests \in Nat /\ MaxHarm \in Nat /\ MaxQueue \in Nat \ {0}

Requests == 1 .. MaxRequests
Times    == 0 .. MaxRequests     \* 0, or the time that request r carries
Garbled  == MaxRequests + 1      \* an argument no request carries

Packets == [orgn : Nodes, dest : Nodes \cup {None}, echo : Nodes \cup {None},
            ptype : {"CMD", "RES", "ACK"}, id : Ids, arg : Times \cup {Garbled},
            req : 0 .. MaxRequests, intact : BOOLEAN]

VARIABLES queue,   \* [Links -> Seq(Packets)], frames on the line or in the ring buffer
          time,    \* [Ppms -> Times], the time base each PPM was last given
          asked,   \* Seq(Shapes): the requests made so far
          ran,     \* ghost: Seq of [req, node, arg], the requests that were executed
          inbox,   \* ghost: [Users -> Seq of [req, orgn, ptype]], the valid answers seen
          harm     \* faults and resets so far

vars == <<queue, time, asked, ran, inbox, harm>>

Packet(orgn, dest, echo, ptype, id, arg, req) ==
    [orgn |-> orgn, dest |-> dest, echo |-> echo, ptype |-> ptype,
     id |-> id, arg |-> arg, req |-> req, intact |-> TRUE]

\* Mutant: the LPPM sends what is for the ground station to its terminal.
PortGsToFtdi(n, dest) ==
    CASE n = "LPPM" /\ dest \in {"EPS", "UPPM"}  -> "UPPM"
      [] n = "UPPM" /\ dest \in {"FTDI", "LPPM"} -> "LPPM"
      [] n = "LPPM" /\ dest \in {"FTDI", "GS"}   -> "FTDI"
      [] n = "UPPM" /\ dest \in {"EPS", "GS"}    -> dest
      [] OTHER                                   -> None

\* mcppkt_dispatch: the port on which node n sends a packet for dest.
Port(n, dest) ==
    CASE n = "LPPM" /\ dest \in {"EPS", "UPPM", "GS"} -> "UPPM"
      [] n = "UPPM" /\ dest \in {"FTDI", "LPPM"}      -> "LPPM"
      [] n = "LPPM" /\ dest = "FTDI"                  -> "FTDI"
      [] n = "UPPM" /\ dest \in {"EPS", "GS"}         -> dest
      [] OTHER                                        -> None

\* mcp_respond: the answers of n to p, to its origin and to its echo.
Respond(n, p, ptype, arg) ==
    LET to(d) == Packet(n, d, None, ptype, p.id, arg, p.req)
    IN  IF p.echo = None THEN <<to(p.orgn)>> ELSE <<to(p.orgn), to(p.echo)>>

\* mcpmgr_process_pkt: the frames n sends for p, in their order.
Acks(n, p) ==
    IF p.ptype = "CMD" /\ p.orgn \in Users THEN Respond(n, p, "ACK", p.arg) ELSE <<>>

\* Mutant: the CRC is not checked.
ExecutesUnchecked(n, p) == p.dest = n /\ p.id \in TimeCmds

Executes(n, p) == p.dest = n /\ p.intact /\ p.id \in TimeCmds

\* ppm_set_time and ppm_get_time in either PPM's cmdimpl.c.
Answers(n, p) ==
    CASE p.ptype # "CMD" -> <<>>
      [] p.ptype = "CMD" /\ p.id = "ppm_get_time" -> Respond(n, p, "RES", time[n])
      [] OTHER -> (IF n = "LPPM"
                   THEN <<Packet(n, "UPPM", None, "CMD", "ppm_set_time", p.arg, 0)>>
                   ELSE <<>>) \o Respond(n, p, "RES", 0)

\* Mutant: the UPPM does not take the time from a command.
SetsTimeOnlyAsked(n, p) ==
    \/ p.id = "ppm_set_time" /\ p.ptype = "CMD" /\ n = "LPPM"
    \/ p.id = "ppm_get_time" /\ p.ptype = "RES" /\ n = "UPPM"

SetsTime(n, p) ==
    \/ p.id = "ppm_set_time" /\ p.ptype = "CMD"
    \/ p.id = "ppm_get_time" /\ p.ptype = "RES" /\ n = "UPPM"

\* Mutant: the forwarding PPM builds the packet anew, with a CRC of its own.
OutputResealed(n, p) ==
    Acks(n, p) \o (IF p.dest # n THEN <<[p EXCEPT !.intact = TRUE]>>
                   ELSE IF Executes(n, p) THEN Answers(n, p) ELSE <<>>)

\* Mutant: the acknowledgement is sent after the command was executed.
OutputAckLast(n, p) ==
    (IF p.dest # n THEN <<p>>
     ELSE IF Executes(n, p) THEN Answers(n, p) ELSE <<>>) \o Acks(n, p)

Output(n, p) ==
    Acks(n, p) \o (IF p.dest # n THEN <<p>>
                   ELSE IF Executes(n, p) THEN Answers(n, p) ELSE <<>>)

\* The frames of out at the places in I, in their order.
Selected(out, I) ==
    LET f[i \in 0 .. Len(out)] ==
            IF i = 0 THEN <<>>
            ELSE IF i \in I THEN Append(f[i - 1], out[i]) ELSE f[i - 1]
    IN  f[Len(out)]

\* What frames out of n do: to the other PPM, or to the nodes at the end of a line.
Through(n, port, out) == {i \in DOMAIN out : Port(n, out[i].dest) = port}
Valid(out) == {i \in DOMAIN out : out[i].intact /\ out[i].ptype # "CMD"}
Queued(q, n, out) ==
    [l \in Links |->
        IF l[1] = n THEN q[l] \o Selected(out, Through(n, l[2], out)) ELSE q[l]]
Told(p) == [req |-> p.req, orgn |-> p.orgn, ptype |-> p.ptype]
Seen(n, out) ==
    [u \in Users |->
        inbox[u] \o Selected([i \in DOMAIN out |-> Told(out[i])],
                             Through(n, u, out) \cap Valid(out))]

\* The node on which p is executed when n has it: n itself, or the EPS if its line leads there.
RunAt(n, p) ==
    LET node == IF p.dest = n THEN n ELSE "EPS"
    IN  IF /\ p.intact /\ p.ptype = "CMD" /\ p.req # 0
           /\ IF p.dest = n THEN Executes(n, p) ELSE Port(n, p.dest) = "EPS"
        THEN <<[req |-> p.req, node |-> node, arg |-> p.arg]>>
        ELSE <<>>

\* The PPM a user is connected to, and the other one.
Home(u) == IF u = "GS" THEN "UPPM" ELSE "LPPM"
Other(n) == IF n = "UPPM" THEN "LPPM" ELSE "UPPM"

Init ==
    /\ queue = [l \in Links |-> <<>>]
    /\ time = [n \in Ppms |-> 0]
    /\ asked = <<>> /\ ran = <<>> /\ inbox = [u \in Users |-> <<>>] /\ harm = 0

\* A user makes request r; a new time is told from the others by r.
Ask(s) ==
    LET r == Len(asked) + 1
    IN  /\ r <= MaxRequests
        /\ asked' = Append(asked, s)
        /\ queue' = [queue EXCEPT ![<<s.user, Home(s.user)>>] =
                        Append(@, Packet(s.user, s.dest, s.echo, "CMD", s.id, r, r))]
        /\ UNCHANGED <<time, ran, inbox, harm>>

\* mcpmgr_process_pkt on the next frame of a port, mcppkt_clear included.
Process(l) ==
    LET n == l[2]
        p == Head(queue[l])
    IN  /\ queue[l] # <<>>
        /\ \E out \in {Output(n, p)} :
              /\ queue' = Queued([queue EXCEPT ![l] = Tail(@)], n, out)
              /\ inbox' = Seen(n, out)
        /\ time' = IF Executes(n, p) /\ SetsTime(n, p) THEN [time EXCEPT ![n] = p.arg] ELSE time
        /\ ran' = ran \o RunAt(n, p)
        /\ UNCHANGED <<asked, harm>>

\* hk_systime_sync on the LPPM.
Sync ==
    /\ Len(queue[<<"LPPM", "UPPM">>]) + Len(queue[<<"UPPM", "LPPM">>]) < MaxQueue
    /\ queue' = [queue EXCEPT ![<<"LPPM", "UPPM">>] =
                    Append(@, Packet("LPPM", "UPPM", None, "CMD", "ppm_set_time", time["LPPM"], 0))]
    /\ UNCHANGED <<time, asked, ran, inbox, harm>>

Lose(l) ==
    /\ harm < MaxHarm /\ queue[l] # <<>>
    /\ queue' = [queue EXCEPT ![l] = Tail(@)]
    /\ harm' = harm + 1
    /\ UNCHANGED <<time, asked, ran, inbox>>

\* Bytes of a frame change on the line, in the arguments or in the header.
Damaged(p) ==
    {[p EXCEPT !.intact = FALSE, !.arg = Garbled]} \cup
    {[p EXCEPT !.intact = FALSE, !.dest = d] : d \in Nodes \cup {None}} \cup
    {[p EXCEPT !.intact = FALSE, !.orgn = o] : o \in Nodes}
Garble(l) ==
    /\ harm < MaxHarm /\ queue[l] # <<>>
    /\ \E p \in Damaged(Head(queue[l])) : queue' = [queue EXCEPT ![l] = <<p>> \o Tail(@)]
    /\ harm' = harm + 1
    /\ UNCHANGED <<time, asked, ran, inbox>>

\* A PPM restarts: its buffers are lost, the LPPM keeps the time of its clock
\* chip, and system_init asks for the time (UPPM) or pushes it (LPPM).
Reset(n) ==
    LET boot == IF n = "UPPM"
                THEN Packet("UPPM", "LPPM", None, "CMD", "ppm_get_time", 0, 0)
                ELSE Packet("LPPM", "UPPM", None, "CMD", "ppm_set_time", time["LPPM"], 0)
    IN  /\ harm < MaxHarm
        /\ queue' = Queued([l \in Links |-> IF l[2] = n THEN <<>> ELSE queue[l]], n, <<boot>>)
        /\ time' = IF n = "UPPM" THEN [time EXCEPT !["UPPM"] = 0] ELSE time
        /\ harm' = harm + 1
        /\ UNCHANGED <<asked, ran, inbox>>

Harm == \/ \E l \in Links : Lose(l) \/ Garble(l)
        \/ \E n \in Ppms : Reset(n)

Next == \/ \E s \in Shapes : Ask(s)
        \/ \E l \in Links : Process(l)
        \/ Sync
        \/ Harm

\* The superloop of a PPM drains every port in turn, and hk_systime_sync is
\* a task with infinite repetitions.
Spec == /\ Init /\ [][Next]_vars
        /\ \A l \in Links : WF_vars(Process(l))
        /\ WF_vars(Sync)

TypeOK ==
    /\ queue \in [Links -> Seq(Packets)]
    /\ time \in [Ppms -> Times]
    /\ asked \in Seq(Shapes) /\ Len(asked) <= MaxRequests
    /\ ran \in Seq([req : Requests, node : Nodes, arg : Times])
    /\ inbox \in [Users -> Seq([req : 0 .. MaxRequests, orgn : Nodes, ptype : {"RES", "ACK"}])]
    /\ harm \in 0 .. MaxHarm

\* Whatever lines and forwarding PPMs do to a frame, a request is executed at
\* most once, where it was sent, and with the arguments it was sent with: the
\* CRC of the origin is checked where a packet is executed, and is still that
\* of the origin after a PPM forwarded it (mcpmgr_process_pkt).
ExecutedAsAsked ==
    \A i \in DOMAIN ran :
        /\ ran[i].node = asked[ran[i].req].dest /\ ran[i].arg = ran[i].req
        /\ \A j \in DOMAIN ran : ran[j].req = ran[i].req => i = j

\* A user sees a result only of a request that was executed, from the node
\* that executed it; and the answers to a request that was executed come in
\* the order of its way through the PPMs, each once, the result last, but for
\* a user that asks for an echo to itself and gets each twice.  (A request
\* with a damaged header may be acknowledged along another way, and twice.)
\* mcpmgr_process_pkt, mcp_respond.
Way(r) == <<Home(asked[r].user), Other(Home(asked[r].user))>>
Step(a) == IF a.ptype = "RES" THEN 3 ELSE CHOOSE i \in 1 .. 2 : Way(a.req)[i] = a.orgn
RanAt(r) == {ran[i].node : i \in {k \in DOMAIN ran : ran[k].req = r}}
AnswersInOrder ==
    \A u \in Users : \A j \in DOMAIN inbox[u] :
        LET a == inbox[u][j]
        IN  /\ a.ptype = "RES" /\ a.req # 0 => a.orgn \in RanAt(a.req)
            /\ RanAt(a.req) # {} /\ asked[a.req].echo # asked[a.req].user =>
                  \A i \in 1 .. j - 1 :
                      inbox[u][i].req = a.req => Step(inbox[u][i]) < Step(a)

\* A command a PPM implements is answered with a result, unless a line or a
\* reset harmed some frame.
HasResult(r) == \E i \in DOMAIN inbox[asked[r].user] :
                    LET a == inbox[asked[r].user][i] IN a.req = r /\ a.ptype = "RES"
Executable(r) == asked[r].id \in TimeCmds /\ asked[r].dest \in Ppms
Answered ==
    \A r \in Requests :
        (Len(asked) >= r /\ Executable(r))
            ~> (harm > 0 \/ (Len(asked) >= r /\ HasResult(r)))

\* "Since Lower PPM is source of truth for timing": in the end the UPPM has
\* the time of the LPPM, whatever was lost, and whoever set the time of the
\* UPPM (UPPM ppm_set_time_from_str, LPPM hk_systime_sync).
TimesAgree == <>[](time["UPPM"] = time["LPPM"])
============================================================================
