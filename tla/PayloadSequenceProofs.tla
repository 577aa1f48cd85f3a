----------------------- MODULE PayloadSequenceProofs ------------------------
(***************************************************************************)
(* Proofs about the payload sequence, for buffers of every length and any  *)
(* number of orders, pings and harms.  Four things are kept, each with its *)
(* own part of the invariant: what the argument buffers and the messages   *)
(* made of them hold (BufferKept, LinesKept), what the payload will have   *)
(* been asked to display by the time it comes to a capture on its line     *)
(* (ShownBy, Fresh), what it displays even if displays fail (PictureInv),  *)
(* and where it is when its power is due to be cut (Clean).                *)
(***************************************************************************)
EXTENDS PayloadSequence, WellFoundedInduction, TLAPS

Answered == {"com_ping", "lcd_display", "cam_capture", "lcd_off", "cam_off"}
Command  == [cmd : Answered \cup {"rpi_shutdown"}, args : Seq(Nat)]
Answer   == [cmd : Answered, ok : BOOLEAN]

Tasks == {NoTask, Off} \cup {Ping(n) : n \in 1 .. Reps}

Typed ==
  /\ TypeOK
  /\ sizes \in Seq(1 .. Cells) /\ Len(sizes) <= MaxOrders
  /\ toPld \in Seq(Command) /\ toUppm \in Seq(Answer)
  /\ lost \in BOOLEAN /\ raced \in BOOLEAN /\ emptied \in BOOLEAN

-----------------------------------------------------------------------------
(* The text of a buffer ends at its first zero, or with the buffer.        *)
LEMMA TextEnd ==
  ASSUME NEW cells \in [1 .. Cells -> Nat]
  PROVE  \E n \in 0 .. Cells :
           /\ \A c \in 1 .. n : cells[c] # 0
           /\ n < Cells => cells[n + 1] = 0
<1> DEFINE S == {n \in 0 .. Cells : n < Cells => cells[n + 1] = 0}
<1>1. S \subseteq Nat /\ Cells \in S
  BY PayloadAssumption
<1>2. PICK n \in S : \A m \in S : <<m, n>> \notin OpToRel(<, Nat)
  BY <1>1, WFMin, NatLessThanWellFounded
<1>3. \A m \in S : ~(m < n)
  BY <1>1, <1>2 DEF OpToRel
<1>4. ASSUME NEW c \in 1 .. n PROVE cells[c] # 0
  <2>1. c - 1 \in 0 .. Cells /\ c - 1 < n /\ c - 1 < Cells /\ c \in 1 .. Cells
    BY <1>4, PayloadAssumption
  <2>2. c - 1 \notin S
    BY <1>3, <2>1
  <2>3. cells[(c - 1) + 1] = 0 => c - 1 \in S
    BY <2>1
  <2> QED BY <2>1, <2>2, <2>3
<1> QED BY <1>4

LEMMA TextFacts ==
  ASSUME NEW cells \in [1 .. Cells -> Nat]
  PROVE  /\ Text(cells) \in Seq(Nat)
         /\ Len(Text(cells)) \in 0 .. Cells
         /\ \A c \in 1 .. Len(Text(cells)) : Text(cells)[c] = cells[c] /\ cells[c] # 0
         /\ Len(Text(cells)) < Cells => cells[Len(Text(cells)) + 1] = 0
<1> DEFINE Ends(n) == /\ \A c \in 1 .. n : cells[c] # 0
                      /\ n < Cells => cells[n + 1] = 0
           end == CHOOSE n \in 0 .. Cells : Ends(n)
<1>1. end \in 0 .. Cells /\ Ends(end)
  BY TextEnd
<1>2. Text(cells) = [c \in 1 .. end |-> cells[c]]
  BY DEF Text
<1> HIDE DEF end
<1>3. /\ Text(cells) \in Seq(Nat) /\ Len(Text(cells)) = end
      /\ \A c \in 1 .. end : Text(cells)[c] = cells[c]
  BY <1>1, <1>2, PayloadAssumption
<1> QED BY <1>1, <1>3

-----------------------------------------------------------------------------
(* Types.                                                                  *)
LEMMA TaskTypes ==
  /\ NoTask \in Tasks /\ Off \in Tasks /\ Ping(Reps) \in Tasks
  /\ \A t \in Tasks :
       /\ t.kind = "ping" => t.reps \in 1 .. Reps
       /\ t.kind = "off" <=> t = Off
       /\ t.kind = "ping" /\ t.reps # 1 => Ping(t.reps - 1) \in Tasks
BY PayloadAssumption DEF Tasks, NoTask, Off, Ping

LEMMA TailFacts ==
  ASSUME NEW S, NEW s \in Seq(S), s # <<>>
  PROVE  /\ Head(s) \in S /\ Head(s) = s[1] /\ Len(s) \in Nat \ {0}
         /\ Tail(s) \in Seq(S) /\ Len(Tail(s)) = Len(s) - 1
         /\ \A i \in 1 .. Len(s) - 1 : Tail(s)[i] = s[i + 1]
OBVIOUS

LEMMA AppendFacts ==
  ASSUME NEW S, NEW s \in Seq(S), NEW e \in S
  PROVE  /\ Append(s, e) \in Seq(S) /\ Len(Append(s, e)) = Len(s) + 1
         /\ Append(s, e)[Len(s) + 1] = e
         /\ \A i \in 1 .. Len(s) : Append(s, e)[i] = s[i]
OBVIOUS

(* What the UPPM does with an answer.                                      *)
Starts ==
  /\ plds = "OFF" /\ plds' = "STARTED" /\ args' = args
  /\ ClearTask
  /\ ToPayload("lcd_display", Text(args))

Ends ==
  /\ ~Head(toUppm).ok
  /\ ClearNode
  /\ UNCHANGED <<task, saved, toPld>>

Captures ==
  /\ Head(toUppm).cmd = "lcd_display" /\ Head(toUppm).ok
  /\ plds = "STARTED" /\ plds' = "DISPLAYED" /\ args' = args
  /\ ToPayload("cam_capture", Text(args))
  /\ UNCHANGED <<task, saved>>

TurnsOff ==
  /\ \/ plds = "DISPLAYED" /\ plds' = "CAPTURED" /\ ToPayload("lcd_off", <<>>)
     \/ plds' = plds /\ ToPayload("cam_off", <<>>)
  /\ args' = args
  /\ UNCHANGED <<task, saved>>

ShutsDown ==
  /\ plds = "CAPTURED" /\ plds' = "OFF" /\ args' = args
  /\ ToPayload("rpi_shutdown", <<>>)
  /\ IF task = NoTask THEN SetTask(Off) ELSE UNCHANGED <<task, saved>>

LEMMA ReceiveCases ==
  Typed /\ Receive =>
    /\ toUppm # <<>> /\ toUppm' = Tail(toUppm)
    /\ UNCHANGED <<loaded, rpi, sizes, captured, lost, harms>> /\ Note
    /\ Ignore \/ Starts \/ Ends \/ Captures \/ TurnsOff \/ ShutsDown
<1> SUFFICES ASSUME Typed, Receive
             PROVE  Ignore \/ Starts \/ Ends \/ Captures \/ TurnsOff \/ ShutsDown
  BY DEF Receive
<1>1. Head(toUppm) \in Answer
  BY TailFacts DEF Typed, Receive
<1>2. CASE Head(toUppm).cmd = "com_ping"
  BY <1>2 DEF Receive, ComPing, Starts
<1>3. CASE Head(toUppm).cmd = "lcd_display"
  BY <1>3 DEF Receive, LcdDisplay, Advance, Ends, Captures
<1>4. CASE Head(toUppm).cmd = "cam_capture"
  BY <1>4 DEF Receive, CamCapture, Advance, Ends, TurnsOff
<1>5. CASE Head(toUppm).cmd = "lcd_off"
  BY <1>5 DEF Receive, LcdOff, Advance, Ends, TurnsOff
<1>6. CASE Head(toUppm).cmd = "cam_off"
  BY <1>6 DEF Receive, CamOff, Ends, ShutsDown
<1> QED BY <1>1, <1>2, <1>3, <1>4, <1>5, <1>6 DEF Answer, Answered

-----------------------------------------------------------------------------
(* Arguments are either of the order they begin with, followed at most by  *)
(* the tail of a longer order before it, or missing.                       *)
AsOrdered(a) ==
  a # <<>> =>
    /\ a[1] \in 1 .. Len(sizes) /\ sizes[a[1]] <= Len(a)
    /\ \A c \in 1 .. sizes[a[1]] : a[c] = a[1]
    /\ Len(a) > sizes[a[1]] => \E j \in 1 .. a[1] - 1 : sizes[j] >= Len(a)

(* The buffer begins with the last order unless it was cleared, and every  *)
(* cell was written by an order of that length.                            *)
BufferKept ==
  /\ args[1] \in {0, Len(sizes)}
  /\ args[1] # 0 => \A c \in 1 .. sizes[Len(sizes)] : args[c] = Len(sizes)
  /\ \A c \in 1 .. Cells : args[c] # 0 => args[c] <= Len(sizes) /\ sizes[args[c]] >= c

(* Unless it was cleared or reset, the buffer is empty only until the      *)
(* first order.                                                            *)
Quiet == task = NoTask /\ saved = NoTask /\ toPld = <<>> /\ toUppm = <<>>

Unspoilt == ~emptied /\ args[1] = 0 => sizes = <<>> /\ Quiet

LinesKept ==
  \A i \in 1 .. Len(toPld) :
    toPld[i].cmd \in {"lcd_display", "cam_capture"} =>
      AsOrdered(toPld[i].args) /\ (toPld[i].args = <<>> => emptied)

ArgsInv == Typed /\ BufferKept /\ Unspoilt /\ LinesKept

LEMMA ArgsTyped == Typed => args \in [1 .. Cells -> Nat] /\ Len(sizes) \in Nat
BY PayloadAssumption DEF Typed, TypeOK

LEMMA TextAsOrdered ==
  ASSUME Typed, BufferKept
  PROVE  /\ Text(args) \in Seq(Nat)
         /\ AsOrdered(Text(args))
         /\ IF args[1] = 0 THEN Text(args) = <<>>
                           ELSE Text(args) # <<>> /\ Text(args)[1] = args[1]
<1> DEFINE t == Text(args)
           n == Len(sizes)
<1>1. args \in [1 .. Cells -> Nat] /\ n \in Nat /\ Cells \in Nat \ {0}
  BY ArgsTyped, PayloadAssumption
<1>2. /\ t \in Seq(Nat) /\ Len(t) \in 0 .. Cells
      /\ \A c \in 1 .. Len(t) : t[c] = args[c] /\ args[c] # 0
      /\ Len(t) < Cells => args[Len(t) + 1] = 0
  BY <1>1, TextFacts
<1> HIDE DEF t
<1>3. IF args[1] = 0 THEN t = <<>> ELSE t # <<>> /\ t[1] = args[1]
  BY <1>1, <1>2
<1>4. ASSUME t # <<>> PROVE AsOrdered(t)
  <2>1. t[1] = n /\ n # 0 /\ args[1] = n
    BY <1>2, <1>3, <1>4 DEF BufferKept
  <2>2. sizes[n] \in 1 .. Cells /\ \A c \in 1 .. sizes[n] : args[c] = n
    BY <1>1, <2>1 DEF BufferKept, Typed
  <2>3. sizes[n] <= Len(t)
    BY <1>1, <1>2, <2>1, <2>2
  <2>4. \A c \in 1 .. sizes[n] : t[c] = n
    BY <1>2, <2>2, <2>3
  <2>5. ASSUME Len(t) > sizes[n]
        PROVE  \E j \in 1 .. n - 1 : sizes[j] >= Len(t)
    <3>1. args[Len(t)] # 0 /\ Len(t) \in 1 .. Cells
      BY <1>2, <2>5, <2>2
    <3>2. args[Len(t)] \in 1 .. n /\ sizes[args[Len(t)]] >= Len(t)
      BY <1>1, <3>1 DEF BufferKept
    <3>3. args[Len(t)] # n
      BY <3>2, <2>2, <2>5, <1>2
    <3> QED BY <1>1, <3>2, <3>3
  <2> QED BY <1>1, <2>1, <2>3, <2>4, <2>5 DEF AsOrdered
<1> QED BY <1>2, <1>3, <1>4 DEF AsOrdered, t

-----------------------------------------------------------------------------
LEMMA ArgsInvInit == Init => ArgsInv
<1> SUFFICES ASSUME Init PROVE ArgsInv
  OBVIOUS
<1>1. Typed
  <2>1. args \in [1 .. Cells -> 0 .. MaxOrders] /\ harms \in 0 .. MaxHarms
    BY PayloadAssumption DEF Init, Zeros
  <2>2. {task, saved} \subseteq Tasks
    BY TaskTypes DEF Init
  <2>3. /\ sizes \in Seq(1 .. Cells) /\ Len(sizes) <= MaxOrders /\ captured \subseteq 1 .. Len(sizes)
        /\ toPld \in Seq(Command) /\ toUppm \in Seq(Answer)
    BY PayloadAssumption DEF Init
  <2> QED BY <2>1, <2>2, <2>3 DEF Init, Typed, TypeOK, Tasks
<1>2. BufferKept /\ Unspoilt /\ LinesKept
  BY PayloadAssumption DEF Init, BufferKept, Unspoilt, Quiet, LinesKept, Zeros
<1> QED BY <1>1, <1>2 DEF ArgsInv

(* What was ordered once stays what was ordered.                           *)
LEMMA AsOrderedKept ==
  ASSUME Typed, NEW a \in Seq(Nat), AsOrdered(a),
         \/ sizes' = sizes
         \/ \E size \in 1 .. Cells : sizes' = Append(sizes, size)
  PROVE  AsOrdered(a)'
<1>1. CASE sizes' = sizes
  BY <1>1 DEF AsOrdered
<1>2. CASE \E size \in 1 .. Cells : sizes' = Append(sizes, size)
  <2>1. PICK size \in 1 .. Cells : sizes' = Append(sizes, size)
    BY <1>2
  <2>2. /\ Len(sizes') = Len(sizes) + 1 /\ Len(sizes) \in Nat
        /\ \A k \in 1 .. Len(sizes) : sizes'[k] = sizes[k]
    BY <2>1, AppendFacts DEF Typed
  <2> QED BY <2>2 DEF AsOrdered
<1> QED BY <1>1, <1>2

(* A step that leaves the buffer and the orders alone.                     *)
LEMMA BufferUnchanged ==
  ASSUME BufferKept, UNCHANGED <<args, sizes>>
  PROVE  BufferKept'
BY DEF BufferKept

LEMMA BufferCleared ==
  ASSUME Typed, BufferKept, args' = ClearedArgs, UNCHANGED sizes
  PROVE  BufferKept' /\ args' \in [1 .. Cells -> 0 .. MaxOrders] /\ args'[1] = 0
<1>1. /\ args' \in [1 .. Cells -> 0 .. MaxOrders] /\ args'[1] = 0
      /\ \A c \in 2 .. Cells : args'[c] = args[c]
  BY PayloadAssumption DEF ClearedArgs, Typed, TypeOK
<1> QED BY <1>1, PayloadAssumption DEF BufferKept

LEMMA BufferOrdered ==
  ASSUME Typed, BufferKept, NEW size \in 1 .. Cells, Order(size)
  PROVE  /\ BufferKept' /\ args' \in [1 .. Cells -> 0 .. MaxOrders]
         /\ args'[1] = Len(sizes) + 1
         /\ sizes' \in Seq(1 .. Cells) /\ Len(sizes') = Len(sizes) + 1
         /\ Len(sizes') <= MaxOrders
<1> DEFINE n == Len(sizes)
<1>1. /\ sizes' = Append(sizes, size) /\ Len(sizes) < MaxOrders
      /\ args' = Filled(Len(sizes'), size)
  BY DEF Order, FsmInit
<1>2. /\ n \in Nat /\ Cells \in Nat \ {0} /\ MaxOrders \in Nat
      /\ args \in [1 .. Cells -> 0 .. MaxOrders]
  BY PayloadAssumption DEF Typed, TypeOK
<1>3. /\ sizes' \in Seq(1 .. Cells) /\ Len(sizes') = n + 1
      /\ sizes'[n + 1] = size
      /\ \A k \in 1 .. n : sizes'[k] = sizes[k]
  BY <1>1, AppendFacts DEF Typed
<1>4. /\ args' \in [1 .. Cells -> 0 .. MaxOrders]
      /\ \A c \in 1 .. size : args'[c] = n + 1
      /\ \A c \in size + 1 .. Cells : args'[c] = args[c]
  BY <1>1, <1>2, <1>3 DEF Filled, ClearedArgs
<1>5. \A c \in 1 .. Cells :
        args'[c] # 0 => args'[c] <= n + 1 /\ sizes'[args'[c]] >= c
  <2> SUFFICES ASSUME NEW c \in 1 .. Cells, args'[c] # 0
               PROVE  args'[c] <= n + 1 /\ sizes'[args'[c]] >= c
    OBVIOUS
  <2>1. CASE c <= size
    BY <2>1, <1>2, <1>3, <1>4
  <2>2. CASE c > size
    <3>1. args'[c] = args[c] /\ args[c] \in 1 .. n /\ sizes[args[c]] >= c
      BY <2>2, <1>2, <1>4 DEF BufferKept
    <3> QED BY <3>1, <1>2, <1>3
  <2> QED BY <1>2, <2>1, <2>2
<1>6. BufferKept'
  BY <1>2, <1>3, <1>4, <1>5 DEF BufferKept
<1> QED BY <1>1, <1>2, <1>3, <1>4, <1>6

-----------------------------------------------------------------------------
(* The lines: what a step does to them keeps what they carry.              *)
Good(msg) ==
  msg.cmd \in {"lcd_display", "cam_capture"} =>
    AsOrdered(msg.args) /\ (msg.args = <<>> => emptied)

LEMMA LineSame ==
  ASSUME Typed, LinesKept, UNCHANGED <<toPld, sizes>>, emptied => emptied'
  PROVE  toPld' \in Seq(Command) /\ LinesKept'
BY DEF Typed, LinesKept, AsOrdered

LEMMA LineTaken ==
  ASSUME Typed, LinesKept, toPld # <<>>, toPld' = Tail(toPld), UNCHANGED sizes,
         emptied => emptied'
  PROVE  toPld' \in Seq(Command) /\ LinesKept'
<1>1. /\ toPld' \in Seq(Command) /\ Len(toPld') = Len(toPld) - 1 /\ Len(toPld) \in Nat \ {0}
      /\ \A i \in 1 .. Len(toPld) - 1 : toPld'[i] = toPld[i + 1]
  BY TailFacts DEF Typed
<1> QED BY <1>1 DEF LinesKept, AsOrdered

LEMMA LineGrown ==
  ASSUME Typed, LinesKept, NEW msg \in Command, toPld' = Append(toPld, msg), Good(msg),
         UNCHANGED sizes, emptied => emptied'
  PROVE  toPld' \in Seq(Command) /\ LinesKept'
<1>1. /\ toPld' \in Seq(Command) /\ Len(toPld') = Len(toPld) + 1 /\ Len(toPld) \in Nat
      /\ toPld'[Len(toPld) + 1] = msg
      /\ \A i \in 1 .. Len(toPld) : toPld'[i] = toPld[i]
  BY AppendFacts DEF Typed
<1> QED BY <1>1 DEF LinesKept, Good, AsOrdered

LEMMA HarmTyped ==
  ASSUME Typed, Harm \/ Unharmed
  PROVE  /\ harms' \in 0 .. MaxHarms /\ (harms' = harms \/ harms' = harms + 1)
         /\ Harm => harms' > 0
         /\ harms' = 0 => harms = 0
BY PayloadAssumption DEF Typed, TypeOK, Harm, Unharmed

LEMMA ServeFacts ==
  ASSUME Typed, LinesKept, Serve
  PROVE  /\ captured' \subseteq 1 .. Len(sizes)
         /\ Harm \/ Unharmed
         /\ toUppm' \in Seq(Answer)
         /\ \/ toUppm' = toUppm
            \/ \E ok \in BOOLEAN :
                 /\ toUppm' = Append(toUppm, [cmd |-> Head(toPld).cmd, ok |-> ok])
                 /\ ok \/ Harm
         /\ payload' \in {"up", "halted"}
<1> DEFINE msg == Head(toPld)
<1>1. msg \in Command /\ msg = toPld[1] /\ Len(toPld) \in Nat \ {0}
  BY TailFacts DEF Typed, Serve
<1>2. msg.cmd = "cam_capture" /\ msg.args # <<>> => msg.args[1] \in 1 .. Len(sizes)
  BY <1>1 DEF LinesKept, AsOrdered
<1>3. captured' \subseteq 1 .. Len(sizes)
  BY <1>2 DEF Serve, Typed, TypeOK
<1>4. CASE msg.cmd = "rpi_shutdown"
  BY <1>3, <1>4 DEF Serve, Typed
<1>5. CASE msg.cmd # "rpi_shutdown"
  <2>1. PICK ok \in BOOLEAN :
          /\ toUppm' = Append(toUppm, [cmd |-> msg.cmd, ok |-> ok])
          /\ IF ok THEN Unharmed ELSE Harm
    BY <1>5 DEF Serve
  <2>2. [cmd |-> msg.cmd, ok |-> ok] \in Answer
    BY <1>1, <1>5 DEF Command, Answer
  <2>3. toUppm' \in Seq(Answer)
    BY <2>1, <2>2, AppendFacts DEF Typed
  <2> QED BY <1>3, <1>5, <2>1, <2>3 DEF Serve
<1> QED BY <1>4, <1>5

LEMMA ArgsInvNext == ArgsInv /\ [Next]_vars => ArgsInv'
<1> SUFFICES ASSUME ArgsInv, [Next]_vars PROVE ArgsInv'
  OBVIOUS
<1> USE DEF ArgsInv
<1>1. ASSUME NEW size \in 1 .. Cells, Order(size) PROVE ArgsInv'
  <2>1. /\ BufferKept' /\ args' \in [1 .. Cells -> 0 .. MaxOrders]
        /\ args'[1] = Len(sizes) + 1 /\ Len(sizes) \in Nat
        /\ sizes' \in Seq(1 .. Cells) /\ Len(sizes') = Len(sizes) + 1 /\ Len(sizes') <= MaxOrders
    BY <1>1, BufferOrdered, ArgsTyped
  <2>2. /\ harms' \in 0 .. MaxHarms /\ (harms' = harms \/ harms' = harms + 1)
        /\ harms' = 0 => harms = 0
    BY <1>1, HarmTyped DEF Order, SwitchOn
  <2>3. {task', saved'} \subseteq Tasks
    BY <1>1, TaskTypes DEF Order, SetTask, Typed, TypeOK, Tasks
  <2>4. payload' \in {"dark", "boot", "up", "halted"} /\ plds' = "OFF"
    BY <1>1 DEF Order, SwitchOn, FsmInit, Typed, TypeOK
  <2>5. Typed'
    BY <1>1, <2>1, <2>2, <2>3, <2>4 DEF Typed, TypeOK, Order, lines, flags, Tasks
  <2>6. \A i \in 1 .. Len(toPld) : toPld[i].args \in Seq(Nat)
    <3>1. \A i \in 1 .. Len(toPld) : toPld[i] \in Command
      BY DEF Typed
    <3> QED BY <3>1 DEF Command
  <2>7. \A a \in Seq(Nat) : AsOrdered(a) => AsOrdered(a)'
    BY <1>1, AsOrderedKept DEF Order
  <2>8. LinesKept'
    <3>1. toPld' = toPld /\ emptied' = emptied
      BY <1>1 DEF Order, lines, flags
    <3> QED BY <2>6, <2>7, <3>1 DEF LinesKept
  <2>9. Unspoilt'
    BY <2>1 DEF Unspoilt
  <2> QED BY <2>1, <2>5, <2>8, <2>9
<1>2. ASSUME RunPing PROVE ArgsInv'
  <2> DEFINE msg == [cmd |-> "com_ping", args |-> <<>>]
  <2>1. toPld' = Append(toPld, msg) /\ msg \in Command /\ Good(msg)
    BY <1>2 DEF RunPing, ToPayload, Command, Answered, Good
  <2> HIDE DEF msg
  <2>2. toPld' \in Seq(Command) /\ LinesKept'
    BY <1>2, <2>1, LineGrown DEF RunPing, ghost, flags
  <2>3. {task', saved'} \subseteq Tasks
    BY <1>2, TaskTypes DEF RunPing, SetTask, Typed, TypeOK, Tasks
  <2>4. Typed'
    BY <1>2, <2>2, <2>3 DEF RunPing, Typed, TypeOK, Tasks, ghost, flags, rpi
  <2>5. BufferKept'
    BY <1>2, BufferUnchanged DEF RunPing, ghost, flags
  <2>6. task # NoTask
    BY <1>2 DEF RunPing, NoTask
  <2>7. Unspoilt'
    BY <1>2, <2>6 DEF RunPing, Unspoilt, Quiet, ghost, flags
  <2> QED BY <2>2, <2>4, <2>5, <2>7
<1>3. ASSUME RunOff PROVE ArgsInv'
  <2>1. /\ harms' \in 0 .. MaxHarms /\ (harms' = harms \/ harms' = harms + 1)
        /\ harms' = 0 => harms = 0
    BY <1>3, HarmTyped DEF RunOff
  <2>2. toPld' \in Seq(Command) /\ LinesKept'
    BY <1>3, LineSame DEF RunOff, lines, flags
  <2>3. Typed'
    BY <1>3, <2>1, <2>2, TaskTypes DEF RunOff, Dark, SetTask, Typed, TypeOK, Tasks, lines, rpi, flags
  <2>4. BufferKept'
    BY <1>3, BufferUnchanged DEF RunOff
  <2>5. task # NoTask
    BY <1>3 DEF RunOff, NoTask
  <2>6. Unspoilt'
    BY <1>3, <2>5 DEF RunOff, Unspoilt, Quiet, lines, flags
  <2> QED BY <2>2, <2>3, <2>4, <2>6
<1>4. ASSUME Receive PROVE ArgsInv'
  <2>1. /\ toUppm # <<>> /\ toUppm' = Tail(toUppm)
        /\ UNCHANGED <<loaded, rpi, sizes, captured, lost, harms>>
        /\ raced' \in BOOLEAN /\ emptied' = (emptied \/ args' # args)
        /\ Ignore \/ Starts \/ Ends \/ Captures \/ TurnsOff \/ ShutsDown
    BY <1>4, ReceiveCases DEF Note, Typed
  <2>2. toUppm' \in Seq(Answer) /\ Head(toUppm) = toUppm[1] /\ Len(toUppm) \in Nat \ {0}
    BY <2>1, TailFacts DEF Typed
  <2>3. {task', saved'} \subseteq Tasks /\ plds' \in {"OFF", "STARTED", "DISPLAYED", "CAPTURED"}
    BY <2>1, TaskTypes DEF Ignore, Starts, Ends, Captures, TurnsOff, ShutsDown, ClearTask, SetTask,
       ClearNode, Typed, TypeOK, Tasks
  <2>4. CASE Ignore
    <3>1. toPld' \in Seq(Command) /\ LinesKept'
      BY <2>1, <2>4, LineSame DEF Ignore, ghost, flags
    <3>2. Typed'
      BY <2>1, <2>2, <2>3, <2>4, <3>1 DEF Ignore, Typed, TypeOK, Tasks, rpi, ghost, flags
    <3>3. BufferKept'
      BY <2>1, <2>4, BufferUnchanged DEF Ignore, ghost, flags
    <3>4. Unspoilt'
      BY <2>1, <2>4 DEF Ignore, Unspoilt, Quiet
    <3> QED BY <3>1, <3>2, <3>3, <3>4
  <2>5. CASE Ends
    <3>1. args' = ClearedArgs /\ UNCHANGED <<toPld, sizes>>
      BY <2>1, <2>5 DEF Ends, ClearNode
    <3>2. toPld' \in Seq(Command) /\ LinesKept'
      BY <2>1, <3>1, LineSame
    <3>3. BufferKept' /\ args' \in [1 .. Cells -> 0 .. MaxOrders]
      BY <3>1, BufferCleared
    <3>4. Typed'
      BY <2>1, <2>2, <2>3, <3>1, <3>2, <3>3 DEF Typed, TypeOK, Tasks, rpi, ghost, flags
    <3>5. Unspoilt'
      BY <2>1 DEF Unspoilt, Quiet
    <3> QED BY <3>2, <3>3, <3>4, <3>5
  <2>6. CASE Starts \/ Captures \/ TurnsOff \/ ShutsDown
    <3>0. args' = args /\ UNCHANGED sizes
      BY <2>1, <2>6 DEF Starts, Captures, TurnsOff, ShutsDown
    <3>1. args' = args /\ UNCHANGED sizes /\ (emptied <=> emptied')
      BY <2>1, <3>0
    <3>2. toUppm # <<>> /\ (~emptied => args[1] # 0)
      BY <2>1 DEF Unspoilt, Quiet
    <3>3. \A c \in {"lcd_display", "cam_capture"} :
            LET msg == [cmd |-> c, args |-> Text(args)]
            IN  msg \in Command /\ Good(msg)
      <4>1. Text(args) \in Seq(Nat) /\ AsOrdered(Text(args)) /\ (Text(args) = <<>> => args[1] = 0)
        BY TextAsOrdered
      <4> QED BY <3>2, <4>1 DEF Command, Answered, Good
    <3>4. \A c \in {"lcd_off", "cam_off", "rpi_shutdown"} :
            LET msg == [cmd |-> c, args |-> <<>>]
            IN  msg \in Command /\ Good(msg)
      BY DEF Command, Answered, Good
    <3>5. \E msg \in Command : toPld' = Append(toPld, msg) /\ Good(msg)
      BY <2>6, <3>3, <3>4 DEF Starts, Captures, TurnsOff, ShutsDown, ToPayload
    <3>6. toPld' \in Seq(Command) /\ LinesKept'
      BY <3>1, <3>5, LineGrown
    <3>7. Typed'
      BY <2>1, <2>2, <2>3, <3>1, <3>6 DEF Typed, TypeOK, Tasks, rpi, ghost, flags
    <3>8. BufferKept'
      BY <3>1, BufferUnchanged
    <3>9. Unspoilt'
      BY <3>1, <3>2 DEF Unspoilt
    <3> QED BY <3>6, <3>7, <3>8, <3>9
  <2> QED BY <2>1, <2>4, <2>5, <2>6
<1>5. ASSUME Boot PROVE ArgsInv'
  <2>1. UNCHANGED <<toPld, toUppm, args, sizes, emptied, task, saved>>
    BY <1>5 DEF Boot, uppm, lines, ghost, flags
  <2>2. LinesKept' /\ BufferKept' /\ Unspoilt'
    BY <2>1, LineSame, BufferUnchanged DEF Unspoilt, Quiet
  <2>3. Typed'
    BY <1>5 DEF Boot, Typed, TypeOK, uppm, lines, ghost, flags
  <2> QED BY <2>2, <2>3
<1>6. ASSUME Serve PROVE ArgsInv'
  <2>1. /\ captured' \subseteq 1 .. Len(sizes) /\ (Harm \/ Unharmed)
        /\ toUppm' \in Seq(Answer) /\ payload' \in {"up", "halted"}
        /\ \/ toUppm' = toUppm
           \/ \E ok \in BOOLEAN :
                /\ toUppm' = Append(toUppm, [cmd |-> Head(toPld).cmd, ok |-> ok])
                /\ ok \/ Harm
    BY <1>6, ServeFacts
  <2>2. /\ harms' \in 0 .. MaxHarms /\ (harms' = harms \/ harms' = harms + 1)
        /\ (Harm => harms' > 0) /\ (harms' = 0 => harms = 0)
    BY <2>1, HarmTyped
  <2>3. toPld' \in Seq(Command) /\ LinesKept'
    BY <1>6, LineTaken DEF Serve, flags
  <2>4. BufferKept'
    BY <1>6, BufferUnchanged DEF Serve, uppm
  <2>5. Typed'
    BY <1>6, <2>1, <2>2, <2>3 DEF Serve, Typed, TypeOK, uppm, flags
  <2>6. Unspoilt'
    BY <1>6 DEF Serve, Unspoilt, Quiet, uppm, flags
  <2> QED BY <2>3, <2>4, <2>5, <2>6
<1>7. ASSUME Unheard PROVE ArgsInv'
  <2>1. UNCHANGED <<toUppm, args, sizes, emptied, task, saved>> /\ toPld # <<>>
    BY <1>7 DEF Unheard, uppm, ghost, flags
  <2>2. toPld' \in Seq(Command) /\ LinesKept'
    BY <1>7, <2>1, LineTaken DEF Unheard
  <2>3. BufferKept' /\ Unspoilt'
    BY <2>1, BufferUnchanged DEF Unspoilt, Quiet
  <2>4. Typed'
    BY <1>7, <2>2 DEF Unheard, Typed, TypeOK, uppm, rpi, ghost, flags
  <2> QED BY <2>2, <2>3, <2>4
<1>8. ASSUME LoadSchedules PROVE ArgsInv'
  <2>1. UNCHANGED <<toPld, toUppm, args, sizes, emptied, saved>> /\ task' = saved
    BY <1>8 DEF LoadSchedules, lines, ghost, flags
  <2>2. LinesKept' /\ BufferKept' /\ Unspoilt'
    BY <2>1, LineSame, BufferUnchanged DEF Unspoilt, Quiet
  <2>3. Typed'
    BY <1>8 DEF LoadSchedules, Typed, TypeOK, lines, rpi, ghost, flags
  <2> QED BY <2>2, <2>3
<1>9. ASSUME Lose PROVE ArgsInv'
  <2>1. harms' \in 0 .. MaxHarms /\ UNCHANGED <<args, sizes, emptied>>
    BY <1>9, HarmTyped DEF Lose, uppm
  <2>2. toPld' \in Seq(Command) /\ LinesKept'
    BY <1>9, <2>1, LineTaken, LineSame DEF Lose
  <2>3. toUppm' \in Seq(Answer)
    BY <1>9, TailFacts DEF Lose, Typed
  <2>4. Typed'
    BY <1>9, <2>1, <2>2, <2>3 DEF Lose, Typed, TypeOK, uppm, rpi
  <2>5. BufferKept' /\ Unspoilt'
    BY <1>9, <2>1, BufferUnchanged DEF Lose, Unspoilt, Quiet
  <2> QED BY <2>2, <2>4, <2>5
<1>10. ASSUME EpsRestart PROVE ArgsInv'
  <2>1. /\ harms' \in 0 .. MaxHarms
        /\ UNCHANGED <<args, sizes, toPld, toUppm, emptied, task, saved>>
    BY <1>10, HarmTyped DEF EpsRestart, uppm, lines, flags
  <2>2. LinesKept' /\ BufferKept' /\ Unspoilt'
    BY <2>1, LineSame, BufferUnchanged DEF Unspoilt, Quiet
  <2>3. Typed'
    BY <1>10, <2>1 DEF EpsRestart, Dark, flags, Typed, TypeOK, uppm, lines
  <2> QED BY <2>2, <2>3
<1>11. ASSUME UppmReset PROVE ArgsInv'
  <2>1. /\ harms' \in 0 .. MaxHarms /\ emptied' = TRUE
        /\ UNCHANGED <<sizes, toPld>> /\ toUppm' = <<>> /\ args' = Zeros
    BY <1>11, HarmTyped DEF UppmReset
  <2>2. LinesKept' /\ Unspoilt'
    BY <2>1, LineSame DEF Unspoilt
  <2>3. BufferKept' /\ args' \in [1 .. Cells -> 0 .. MaxOrders]
    BY <2>1, PayloadAssumption DEF BufferKept, Zeros
  <2>4. {task', saved'} \subseteq Tasks
    BY <1>11, TaskTypes DEF UppmReset, Typed, TypeOK, Tasks
  <2>5. toPld' \in Seq(Command) /\ toUppm' \in Seq(Answer)
    BY <2>1 DEF Typed
  <2>6. Typed'
    BY <1>11, <2>1, <2>3, <2>4, <2>5 DEF UppmReset, Typed, TypeOK, Tasks, rpi
  <2> QED BY <2>2, <2>3, <2>6
<1>12. ASSUME ClearBufs PROVE ArgsInv'
  <2>1. /\ harms' \in 0 .. MaxHarms /\ emptied' = TRUE
        /\ UNCHANGED <<sizes, toPld, toUppm>> /\ args' = ClearedArgs
    BY <1>12, HarmTyped DEF ClearBufs, ClearNode, lines
  <2>2. LinesKept' /\ Unspoilt'
    BY <2>1, LineSame DEF Unspoilt
  <2>3. BufferKept' /\ args' \in [1 .. Cells -> 0 .. MaxOrders]
    BY <2>1, BufferCleared
  <2>4. Typed'
    BY <1>12, <2>1, <2>3 DEF ClearBufs, ClearNode, Typed, TypeOK, lines, rpi
  <2> QED BY <2>2, <2>3, <2>4
<1>13. CASE UNCHANGED vars
  BY <1>13 DEF vars, uppm, lines, rpi, ghost, flags, Typed, TypeOK, BufferKept, Unspoilt, Quiet, LinesKept,
     AsOrdered
<1> QED BY <1>1, <1>2, <1>3, <1>4, <1>5, <1>6, <1>7, <1>8, <1>9, <1>10, <1>11, <1>12, <1>13
        DEF Next, Sequence, Payload

LEMMA ArgsInvAlways == Spec => []ArgsInv
<1> QED BY ArgsInvInit, ArgsInvNext, PTL DEF Spec

(* The sequence keeps its types.                                           *)
THEOREM PayloadTyped == Spec => []TypeOK
<1>1. ArgsInv => TypeOK
  BY DEF ArgsInv, Typed
<1> QED BY <1>1, ArgsInvAlways, PTL

(* A payload that is asked to display gets the arguments of an order from  *)
(* their first cell on, with at most the tail of a longer, earlier order   *)
(* behind them; and none only after the buffer was cleared or reset.       *)
THEOREM ArgsAlwaysAsOrdered == Spec => ArgsAsOrdered
<1>1. ArgsInv /\ [Next]_vars =>
        [Serves("lcd_display") =>
           LET a == Head(toPld).args
               k == a[1]
           IN  IF a = <<>> THEN emptied
               ELSE /\ \A c \in 1 .. sizes[k] : a[c] = k
                    /\ Len(a) > sizes[k] => \E j \in 1 .. k - 1 : sizes[j] >= Len(a)]_vars
  <2> SUFFICES ASSUME ArgsInv, Serves("lcd_display")
               PROVE  LET a == Head(toPld).args
                          k == a[1]
                      IN  IF a = <<>> THEN emptied
                          ELSE /\ \A c \in 1 .. sizes[k] : a[c] = k
                               /\ Len(a) > sizes[k] => \E j \in 1 .. k - 1 : sizes[j] >= Len(a)
    OBVIOUS
  <2>1. toPld # <<>> /\ Head(toPld).cmd = "lcd_display"
    BY DEF Serves, Serve
  <2>2. Head(toPld) = toPld[1] /\ 1 \in 1 .. Len(toPld)
    BY <2>1, TailFacts DEF ArgsInv, Typed
  <2>3. AsOrdered(Head(toPld).args) /\ (Head(toPld).args = <<>> => emptied)
    BY <2>1, <2>2 DEF ArgsInv, LinesKept
  <2> QED BY <2>3 DEF AsOrdered
<1> QED BY <1>1, ArgsInvAlways, PTL DEF Spec, ArgsAsOrdered

-----------------------------------------------------------------------------
ShutdownSent == \E i \in 1 .. Len(toPld) : toPld[i].cmd = "rpi_shutdown"

(* Before anything goes wrong nothing is under way while the payload is    *)
(* dark, its power is not to be cut while it boots, and once it is up only *)
(* behind a shutdown.                                                      *)
Clean ==
  harms = 0 =>
    /\ saved = task
    /\ payload = "dark" => Quiet
    /\ payload = "boot" => task # Off /\ toUppm = <<>>
    /\ payload = "up" /\ task = Off => ShutdownSent

LEMMA ShutdownKept ==
  ASSUME Typed, ShutdownSent, NEW msg \in Command, toPld' = Append(toPld, msg)
  PROVE  ShutdownSent'
<1>1. /\ Len(toPld') = Len(toPld) + 1 /\ Len(toPld) \in Nat
      /\ \A i \in 1 .. Len(toPld) : toPld'[i] = toPld[i]
  BY AppendFacts DEF Typed
<1> QED BY <1>1 DEF ShutdownSent

LEMMA ShutdownAppended ==
  ASSUME Typed, ToPayload("rpi_shutdown", <<>>)
  PROVE  ShutdownSent'
<1> DEFINE msg == [cmd |-> "rpi_shutdown", args |-> <<>>]
<1>1. msg \in Command /\ toPld' = Append(toPld, msg)
  BY DEF Command, ToPayload
<1>2. /\ Len(toPld') = Len(toPld) + 1 /\ Len(toPld) \in Nat
      /\ toPld'[Len(toPld) + 1] = msg
  BY <1>1, AppendFacts DEF Typed
<1> QED BY <1>2 DEF ShutdownSent

LEMMA ShutdownAhead ==
  ASSUME Typed, ShutdownSent, toPld # <<>>, toPld' = Tail(toPld),
         Head(toPld).cmd # "rpi_shutdown"
  PROVE  ShutdownSent'
<1>1. /\ Head(toPld) = toPld[1] /\ Len(toPld) \in Nat \ {0} /\ Len(toPld') = Len(toPld) - 1
      /\ \A i \in 1 .. Len(toPld) - 1 : toPld'[i] = toPld[i + 1]
  BY TailFacts DEF Typed
<1>2. PICK i \in 1 .. Len(toPld) : toPld[i].cmd = "rpi_shutdown"
  BY DEF ShutdownSent
<1>3. i # 1
  BY <1>1, <1>2
<1>4. i - 1 \in 1 .. Len(toPld') /\ toPld'[i - 1] = toPld[i]
  BY <1>1, <1>3
<1> QED BY <1>2, <1>4 DEF ShutdownSent

LEMMA DistinctTasks ==
  /\ NoTask # Off
  /\ \A n : Ping(n) # NoTask /\ Ping(n) # Off
BY DEF NoTask, Off, Ping

LEMMA CleanNext == ArgsInv /\ Clean /\ [Next]_vars => Clean'
<1> SUFFICES ASSUME ArgsInv, Clean, [Next]_vars, harms' = 0
             PROVE  /\ saved' = task'
                    /\ payload' = "dark" => Quiet'
                    /\ payload' = "boot" => task' # Off /\ toUppm' = <<>>
                    /\ payload' = "up" /\ task' = Off => ShutdownSent'
  BY DEF Clean
<1>0. Typed
  BY DEF ArgsInv
<1>1. ~Harm
  BY <1>0, HarmTyped
<1>2. ASSUME Unharmed
      PROVE  /\ saved = task
             /\ payload = "dark" => Quiet
             /\ payload = "boot" => task # Off /\ toUppm = <<>>
             /\ payload = "up" /\ task = Off => ShutdownSent
  BY <1>2 DEF Clean, Unharmed
<1>3. ASSUME NEW size \in 1 .. Cells, Order(size) PROVE Clean'
  <2>1. Unharmed /\ payload' = IF payload = "dark" THEN "boot" ELSE payload
    BY <1>1, <1>3 DEF Order, SwitchOn
  <2>2. IF task = NoTask THEN task' = Ping(Reps) /\ saved' = task' ELSE UNCHANGED <<task, saved>>
    BY <1>3 DEF Order, SetTask
  <2>3. UNCHANGED <<toPld, toUppm>>
    BY <1>3 DEF Order, lines
  <2>4. ShutdownSent => ShutdownSent'
    BY <2>3 DEF ShutdownSent
  <2> QED BY <1>2, <2>1, <2>2, <2>3, <2>4, DistinctTasks DEF Clean, Quiet
<1>4. ASSUME RunPing PROVE Clean'
  <2>1. Unharmed /\ UNCHANGED <<payload, toUppm>> /\ task # NoTask
    BY <1>4 DEF RunPing, rpi, ghost, flags, Unharmed, NoTask
  <2>2. saved' = task' /\ task' # Off
    BY <1>4, DistinctTasks DEF RunPing, SetTask
  <2> QED BY <1>2, <2>1, <2>2 DEF Clean, Quiet
<1>5. ASSUME RunOff PROVE Clean'
  <2>1. Unharmed /\ payload' = "dark" /\ task' = NoTask /\ saved' = NoTask
    BY <1>1, <1>5 DEF RunOff, Dark, SetTask
  <2>2. harms = 0
    BY <2>1 DEF Unharmed
  <2>3. toPld' = <<>> /\ toUppm' = <<>>
    BY <1>5, <2>2 DEF RunOff, lines
  <2> QED BY <2>1, <2>3 DEF Clean, Quiet
<1>6. ASSUME Receive PROVE Clean'
  <2>1. /\ toUppm # <<>> /\ Unharmed /\ UNCHANGED payload
        /\ Ignore \/ Starts \/ Ends \/ Captures \/ TurnsOff \/ ShutsDown
    BY <1>0, <1>6, ReceiveCases DEF rpi, ghost, flags, Unharmed
  <2>2. saved = task /\ payload # "dark" /\ payload # "boot"
    BY <1>2, <2>1 DEF Quiet
  <2>3. CASE Ignore \/ Ends
    <3>1. UNCHANGED <<task, saved, toPld>>
      BY <2>3 DEF Ignore, Ends
    <3> QED BY <1>2, <2>1, <2>2, <3>1 DEF Clean, ShutdownSent
  <2>4. CASE Starts
    <3>1. task' = NoTask /\ saved' = NoTask
      BY <2>2, <2>4 DEF Starts, ClearTask, SetTask
    <3> QED BY <2>1, <2>2, <3>1, DistinctTasks DEF Clean
  <2>5. CASE Captures \/ TurnsOff
    <3>1. Text(args) \in Seq(Nat)
      BY TextAsOrdered DEF ArgsInv
    <3>2. \A c \in Answered, a \in Seq(Nat) : [cmd |-> c, args |-> a] \in Command
      BY DEF Command
    <3>3. UNCHANGED <<task, saved>>
      BY <2>5 DEF Captures, TurnsOff
    <3>4. \E c \in Answered, a \in Seq(Nat) : toPld' = Append(toPld, [cmd |-> c, args |-> a])
      <4>1. "cam_capture" \in Answered /\ "lcd_off" \in Answered /\ "cam_off" \in Answered
        BY DEF Answered
      <4>2. <<>> \in Seq(Nat)
        OBVIOUS
      <4> QED BY <2>5, <3>1, <4>1, <4>2, Zenon DEF Captures, TurnsOff, ToPayload
    <3> QED BY <1>0, <1>2, <2>1, <2>2, <3>2, <3>3, <3>4, ShutdownKept DEF Clean
  <2>6. CASE ShutsDown
    <3>1. ShutdownSent' /\ saved' = task'
      BY <1>0, <2>2, <2>6, ShutdownAppended DEF ShutsDown, SetTask
    <3> QED BY <2>1, <2>2, <3>1 DEF Clean
  <2> QED BY <2>1, <2>3, <2>4, <2>5, <2>6
<1>7. ASSUME Boot PROVE Clean'
  BY <1>2, <1>7 DEF Boot, Clean, uppm, lines, ghost, flags, Unharmed
<1>8. ASSUME Serve PROVE Clean'
  <2>1. /\ payload = "up" /\ toPld # <<>> /\ toPld' = Tail(toPld) /\ UNCHANGED <<task, saved>>
        /\ IF Head(toPld).cmd = "rpi_shutdown" THEN payload' = "halted" ELSE payload' = "up"
    BY <1>8 DEF Serve, uppm
  <2>2. Unharmed
    BY <1>0, <1>1, <1>8, ServeFacts DEF ArgsInv
  <2> QED BY <1>0, <1>2, <2>1, <2>2, ShutdownAhead DEF Clean
<1>9. ASSUME Unheard PROVE Clean'
  BY <1>2, <1>9 DEF Unheard, Clean, Quiet, uppm, rpi, ghost, flags, Unharmed
<1>10. ASSUME LoadSchedules PROVE Clean'
  BY <1>2, <1>10 DEF LoadSchedules, Clean, Quiet, ShutdownSent, lines, rpi, ghost, flags, Unharmed
<1>11. ASSUME UNCHANGED vars PROVE Clean'
  BY <1>2, <1>11 DEF vars, Clean, Quiet, ShutdownSent, uppm, lines, rpi, ghost, flags, Unharmed
<1>12. ~Lose /\ ~EpsRestart /\ ~UppmReset /\ ~ClearBufs
  BY <1>1 DEF Lose, EpsRestart, UppmReset, ClearBufs
<1>13. Clean'
  BY <1>3, <1>4, <1>5, <1>6, <1>7, <1>8, <1>9, <1>10, <1>11, <1>12 DEF Next, Sequence, Payload
<1> QED BY <1>13 DEF Clean

LEMMA CleanAlways == Spec => []Clean
<1>1. Init => Clean
  BY DEF Init, Clean, Quiet
<1> QED BY <1>1, CleanNext, ArgsInvAlways, PTL DEF Spec

(* The scheduled command cuts the power only of a payload that has shut    *)
(* down, unless something went wrong.                                      *)
THEOREM PowerOffAlwaysClean == Spec => CleanPowerOff
<1>1. ArgsInv /\ Clean /\ [Next]_vars => [RunOff => payload = "halted" \/ harms' > 0]_vars
  <2> SUFFICES ASSUME ArgsInv, Clean, RunOff, ~(harms' > 0) PROVE payload = "halted"
    OBVIOUS
  <2>1. Typed
    BY DEF ArgsInv
  <2>2. harms' = 0 /\ harms = 0
    BY <2>1, HarmTyped DEF RunOff
  <2>3. task = Off /\ toPld = <<>> /\ toUppm = <<>>
    BY <2>1, <2>2, TaskTypes DEF RunOff, Typed, TypeOK, Tasks
  <2>4. ~ShutdownSent /\ payload \in {"dark", "boot", "up", "halted"}
    BY <2>1, <2>3 DEF ShutdownSent, Typed, TypeOK
  <2> QED BY <2>2, <2>3, <2>4, DistinctTasks DEF Clean, Quiet
<1> QED BY <1>1, ArgsInvAlways, CleanAlways, PTL DEF Spec, CleanPowerOff

-----------------------------------------------------------------------------
(* What the payload will find when it comes to place i of its line, if it  *)
(* comes that far: nothing is lost, and no shutdown stands before.         *)
Reached(i) ==
  /\ payload = "up" /\ ~lost
  /\ \A j \in 1 .. i - 1 : toPld[j].cmd # "rpi_shutdown"

Changes(msg) == msg.cmd \in {"lcd_display", "lcd_off", "rpi_shutdown"}

(* It displays a: the last command before i that changes the display asked *)
(* for it.                                                                 *)
ShownBy(i, a) ==
  \/ /\ asked = a
     /\ \A j \in 1 .. i - 1 : ~Changes(toPld[j])
  \/ \E j \in 1 .. i - 1 :
       /\ toPld[j].cmd = "lcd_display" /\ toPld[j].args = a
       /\ \A h \in j + 1 .. i - 1 : ~Changes(toPld[h])

IsCapture(msg, k) == msg.cmd = "cam_capture" /\ msg.args # <<>> /\ msg.args[1] = k

(* It has not captured order k.                                            *)
Fresh(i, k) ==
  /\ k \notin captured
  /\ \A j \in 1 .. i - 1 : ~IsCapture(toPld[j], k)

End == Len(toPld) + 1

CapturesRight ==
  \A i \in 1 .. Len(toPld) :
    Reached(i) /\ toPld[i].cmd = "cam_capture" =>
      /\ ShownBy(i, toPld[i].args)
      /\ toPld[i].args # <<>> => Fresh(i, toPld[i].args[1])

(* The next capture will be right too: a display that is still to be       *)
(* answered is of the arguments in the buffer, and the order they are of   *)
(* has not been captured until the display has been answered.              *)
NextShown ==
  plds = "STARTED" /\ Reached(End) /\ DisplayUnderWay => ShownBy(End, Text(args))

NextFresh ==
  args[1] # 0 =>
    /\ plds \in {"OFF", "STARTED"} /\ Reached(End) => Fresh(End, args[1])
    /\ payload = "boot" => args[1] \notin captured

CaptureInv == CapturesRight /\ NextShown /\ NextFresh

(* A step that leaves the line and the display as they are.                *)
LEMMA PlacesStill ==
  ASSUME UNCHANGED <<toPld, asked, captured, lost>>, payload' = "up" => payload = "up",
         NEW i, NEW a
  PROVE  /\ Reached(i)' => Reached(i)
         /\ ShownBy(i, a)' <=> ShownBy(i, a)
         /\ Fresh(i, a)' <=> Fresh(i, a)
         /\ End' = End
BY DEF Reached, ShownBy, Fresh, Changes, IsCapture, End

(* A command is appended: places up to the end are as before.              *)
LEMMA PlacesGrown ==
  ASSUME Typed, NEW msg \in Command, toPld' = Append(toPld, msg),
         UNCHANGED <<payload, asked, captured, lost>>
  PROVE  /\ End \in Nat /\ End' = End + 1 /\ Len(toPld') = End
         /\ toPld'[End] = msg /\ \A i \in 1 .. Len(toPld) : toPld'[i] = toPld[i]
         /\ \A i \in 1 .. End :
              /\ Reached(i)' => Reached(i)
              /\ \A a : ShownBy(i, a) => ShownBy(i, a)'
              /\ \A k : Fresh(i, k) => Fresh(i, k)'
<1>1. /\ End \in Nat /\ End = Len(toPld) + 1 /\ End' = End + 1 /\ Len(toPld') = End
      /\ toPld'[End] = msg /\ \A i \in 1 .. Len(toPld) : toPld'[i] = toPld[i]
  BY AppendFacts DEF Typed, End
<1>2. ASSUME NEW i \in 1 .. End
      PROVE  /\ Reached(i)' => Reached(i)
             /\ \A a : ShownBy(i, a) => ShownBy(i, a)'
             /\ \A k : Fresh(i, k) => Fresh(i, k)'
  <2>1. \A j \in 1 .. i - 1 : toPld'[j] = toPld[j] /\ j \in 1 .. Len(toPld)
    BY <1>1
  <2>2. Reached(i)' => Reached(i)
    BY <2>1 DEF Reached
  <2>3. ASSUME NEW a, ShownBy(i, a) PROVE ShownBy(i, a)'
    BY <1>1, <2>1, <2>3 DEF ShownBy, Changes
  <2>4. ASSUME NEW k, Fresh(i, k) PROVE Fresh(i, k)'
    BY <2>1, <2>4 DEF Fresh, IsCapture
  <2> QED BY <2>2, <2>3, <2>4
<1> QED BY <1>1, <1>2

(* What comes behind the command that is appended.                         *)
LEMMA PlaceBehind ==
  ASSUME Typed, NEW msg \in Command, toPld' = Append(toPld, msg),
         UNCHANGED <<payload, asked, captured, lost>>
  PROVE  /\ Reached(End)' => Reached(End) /\ msg.cmd # "rpi_shutdown"
         /\ \A a : ShownBy(End, a) /\ ~Changes(msg) => ShownBy(End, a)'
         /\ msg.cmd = "lcd_display" => ShownBy(End, msg.args)'
         /\ \A k : Fresh(End, k) /\ ~IsCapture(msg, k) => Fresh(End, k)'
<1>1. /\ End \in Nat \ {0} /\ End = Len(toPld) + 1 /\ End' = End + 1 /\ Len(toPld') = End
      /\ toPld'[End] = msg /\ \A i \in 1 .. End - 1 : toPld'[i] = toPld[i]
  BY AppendFacts DEF Typed, End
<1>2. Reached(End)' => Reached(End) /\ msg.cmd # "rpi_shutdown"
  BY <1>1 DEF Reached
<1>3. ASSUME NEW a, ShownBy(End, a), ~Changes(msg) PROVE ShownBy(End, a)'
  <2>1. \A h \in 1 .. End : h \in 1 .. End - 1 \/ h = End
    BY <1>1
  <2>2. CASE asked = a /\ \A j \in 1 .. End - 1 : ~Changes(toPld[j])
    BY <1>1, <1>3, <2>1, <2>2 DEF ShownBy, Changes
  <2>3. ASSUME NEW j \in 1 .. End - 1, toPld[j].cmd = "lcd_display", toPld[j].args = a,
               \A h \in j + 1 .. End - 1 : ~Changes(toPld[h])
        PROVE  ShownBy(End, a)'
    <3>1. j \in 1 .. End' - 1 /\ toPld'[j].cmd = "lcd_display" /\ toPld'[j].args = a
      BY <1>1, <2>3
    <3>2. \A h \in j + 1 .. End' - 1 : ~Changes(toPld'[h])
      BY <1>1, <1>3, <2>1, <2>3 DEF Changes
    <3> QED BY <3>1, <3>2 DEF ShownBy, Changes
  <2> QED BY <1>3, <2>2, <2>3 DEF ShownBy
<1>4. ASSUME msg.cmd = "lcd_display" PROVE ShownBy(End, msg.args)'
  <2>1. End \in 1 .. End' - 1 /\ toPld'[End].cmd = "lcd_display" /\ toPld'[End].args = msg.args
    BY <1>1, <1>4
  <2>2. \A h \in End + 1 .. End' - 1 : ~Changes(toPld'[h])
    BY <1>1
  <2> QED BY <2>1, <2>2 DEF ShownBy, Changes
<1>5. ASSUME NEW k, Fresh(End, k), ~IsCapture(msg, k) PROVE Fresh(End, k)'
  BY <1>1, <1>5 DEF Fresh, IsCapture
<1> QED BY <1>2, <1>3, <1>4, <1>5

(* The payload carries out the first command: all others move up.          *)
LEMMA PlacesTaken ==
  ASSUME Typed, Serve
  PROVE  /\ Len(toPld) \in Nat \ {0} /\ Len(toPld') = Len(toPld) - 1 /\ End' = End - 1
         /\ \A i \in 1 .. Len(toPld) - 1 : toPld'[i] = toPld[i + 1]
         /\ \A i \in 1 .. Len(toPld) :
              Reached(i)' =>
                /\ Reached(i + 1)
                /\ \A a : ShownBy(i + 1, a) => ShownBy(i, a)'
                /\ \A k : Fresh(i + 1, k) => Fresh(i, k)'
<1> DEFINE msg == Head(toPld)
<1>1. /\ msg = toPld[1] /\ Len(toPld) \in Nat \ {0} /\ Len(toPld') = Len(toPld) - 1
      /\ End' = End - 1 /\ \A i \in 1 .. Len(toPld) - 1 : toPld'[i] = toPld[i + 1]
  BY TailFacts DEF Serve, Typed, End
<1>2. /\ payload = "up" /\ UNCHANGED lost
      /\ payload' = "up" => msg.cmd # "rpi_shutdown"
      /\ asked' = Shown(msg, asked)
      /\ captured' = IF msg.cmd = "cam_capture" /\ msg.args # <<>>
                       THEN captured \cup {msg.args[1]} ELSE captured
  BY DEF Serve, flags
<1> HIDE DEF msg
<1>3. ASSUME NEW i \in 1 .. Len(toPld), Reached(i)'
      PROVE  /\ Reached(i + 1)
             /\ \A a : ShownBy(i + 1, a) => ShownBy(i, a)'
             /\ \A k : Fresh(i + 1, k) => Fresh(i, k)'
  <2>1. /\ \A j \in 1 .. i - 1 : toPld'[j] = toPld[j + 1] /\ j + 1 \in 1 .. i
        /\ \A j \in 2 .. i : j - 1 \in 1 .. i - 1 /\ toPld'[j - 1] = toPld[j]
        /\ \A j \in 1 .. (i + 1) - 1 : j = 1 \/ j \in 2 .. i
        /\ (i + 1) - 1 = i /\ 1 \in 1 .. i
    BY <1>1
  <2>2. payload' = "up" /\ ~lost /\ msg.cmd # "rpi_shutdown"
    BY <1>2, <1>3 DEF Reached
  <2>3. Reached(i + 1)
    <3>1. \A j \in 2 .. i : toPld[j].cmd # "rpi_shutdown"
      BY <1>3, <2>1 DEF Reached
    <3> QED BY <1>1, <1>2, <2>1, <2>2, <3>1 DEF Reached
  <2>4. ASSUME NEW a, ShownBy(i + 1, a) PROVE ShownBy(i, a)'
    <3>1. CASE asked = a /\ \A j \in 1 .. i : ~Changes(toPld[j])
      <4>1. asked' = a
        BY <1>1, <1>2, <2>1, <3>1 DEF Changes, Shown
      <4>2. \A j \in 1 .. i - 1 : ~Changes(toPld'[j])
        BY <2>1, <3>1
      <4> QED BY <4>1, <4>2 DEF ShownBy, Changes
    <3>2. ASSUME NEW j \in 1 .. i, toPld[j].cmd = "lcd_display", toPld[j].args = a,
                 \A h \in j + 1 .. i : ~Changes(toPld[h])
          PROVE  ShownBy(i, a)'
      <4>1. CASE j = 1
        <5>1. asked' = a
          BY <1>1, <1>2, <3>2, <4>1 DEF Shown
        <5>2. \A h \in 1 .. i - 1 : ~Changes(toPld'[h])
          BY <2>1, <3>2, <4>1
        <5> QED BY <5>1, <5>2 DEF ShownBy, Changes
      <4>2. CASE j # 1
        <5>1. j \in 2 .. i /\ j - 1 \in 1 .. i - 1
          BY <4>2
        <5>2. toPld'[j - 1].cmd = "lcd_display" /\ toPld'[j - 1].args = a
          BY <2>1, <3>2, <5>1
        <5>3. ASSUME NEW h \in (j - 1) + 1 .. i - 1 PROVE ~Changes(toPld'[h])
          <6>1. h \in 1 .. i - 1 /\ h + 1 \in j + 1 .. i
            BY <5>1
          <6> QED BY <2>1, <3>2, <6>1
        <5> QED BY <5>1, <5>2, <5>3 DEF ShownBy, Changes
      <4> QED BY <4>1, <4>2
    <3> QED BY <2>1, <2>4, <3>1, <3>2 DEF ShownBy
  <2>5. ASSUME NEW k, Fresh(i + 1, k) PROVE Fresh(i, k)'
    <3>1. k \notin captured /\ ~IsCapture(msg, k) /\ \A j \in 2 .. i : ~IsCapture(toPld[j], k)
      BY <1>1, <2>1, <2>5 DEF Fresh
    <3>2. k \notin captured'
      BY <1>2, <3>1 DEF IsCapture
    <3>3. \A j \in 1 .. i - 1 : ~IsCapture(toPld'[j], k)
      <4>1. \A j \in 1 .. i - 1 : j + 1 \in 2 .. i
        BY <1>1
      <4> QED BY <2>1, <3>1, <4>1
    <3> QED BY <3>2, <3>3 DEF Fresh, IsCapture
  <2> QED BY <2>3, <2>4, <2>5
<1> QED BY <1>1, <1>3

LEMMA CapturesRightStill ==
  ASSUME CapturesRight, UNCHANGED <<toPld, asked, captured, lost>>, payload' = "up" => payload = "up"
  PROVE  CapturesRight'
<1>1. \A i, a : (Reached(i)' => Reached(i)) /\ (ShownBy(i, a) => ShownBy(i, a)')
                /\ (Fresh(i, a) => Fresh(i, a)')
  BY PlacesStill
<1> QED BY <1>1 DEF CapturesRight

LEMMA CapturesRightGrown ==
  ASSUME Typed, CapturesRight, NEW msg \in Command, toPld' = Append(toPld, msg),
         UNCHANGED <<payload, asked, captured, lost>>,
         msg.cmd = "cam_capture" /\ Reached(End) =>
           ShownBy(End, msg.args) /\ (msg.args # <<>> => Fresh(End, msg.args[1]))
  PROVE  CapturesRight'
<1>1. /\ End \in Nat /\ End' = End + 1 /\ Len(toPld') = End /\ End = Len(toPld) + 1
      /\ toPld'[End] = msg /\ \A i \in 1 .. Len(toPld) : toPld'[i] = toPld[i]
      /\ \A i \in 1 .. End :
           /\ Reached(i)' => Reached(i)
           /\ \A a : ShownBy(i, a) => ShownBy(i, a)'
           /\ \A k : Fresh(i, k) => Fresh(i, k)'
  BY PlacesGrown DEF End
<1> SUFFICES ASSUME NEW i \in 1 .. Len(toPld'), Reached(i)', toPld'[i].cmd = "cam_capture"
             PROVE  /\ ShownBy(i, toPld[i].args)'
                    /\ toPld'[i].args # <<>> => Fresh(i, toPld[i].args[1])'
  BY DEF CapturesRight
<1>2. i \in 1 .. End /\ (i = End \/ i \in 1 .. Len(toPld)) /\ End \in 1 .. End
  BY <1>1
<1>3. \A a, b : a = b => (ShownBy(i, a)' => ShownBy(i, b)') /\ (Fresh(i, a)' => Fresh(i, b)')
  OBVIOUS
<1> QED BY <1>1, <1>2, <1>3 DEF CapturesRight

LEMMA CapturesRightTaken ==
  ASSUME Typed, CapturesRight, Serve
  PROVE  CapturesRight'
<1>1. /\ Len(toPld) \in Nat \ {0} /\ Len(toPld') = Len(toPld) - 1
      /\ \A i \in 1 .. Len(toPld) - 1 : toPld'[i] = toPld[i + 1]
      /\ \A i \in 1 .. Len(toPld) :
           Reached(i)' =>
             /\ Reached(i + 1)
             /\ \A a : ShownBy(i + 1, a) => ShownBy(i, a)'
             /\ \A k : Fresh(i + 1, k) => Fresh(i, k)'
  BY PlacesTaken
<1> SUFFICES ASSUME NEW i \in 1 .. Len(toPld'), Reached(i)', toPld'[i].cmd = "cam_capture"
             PROVE  /\ ShownBy(i, toPld[i].args)'
                    /\ toPld'[i].args # <<>> => Fresh(i, toPld[i].args[1])'
  BY DEF CapturesRight
<1>2. i \in 1 .. Len(toPld) /\ i + 1 \in 1 .. Len(toPld) /\ toPld'[i] = toPld[i + 1]
  BY <1>1
<1> QED BY <1>1, <1>2 DEF CapturesRight

(* The captures on the line are of orders that exist.                      *)
LEMMA CapturesOfOrders ==
  ASSUME Typed, LinesKept
  PROVE  Fresh(End, Len(sizes) + 1) /\ Len(sizes) + 1 \notin captured
<1>1. Len(sizes) \in Nat /\ captured \subseteq 1 .. Len(sizes)
  BY DEF Typed, TypeOK
<1>2. \A i \in 1 .. Len(toPld) : ~IsCapture(toPld[i], Len(sizes) + 1)
  BY <1>1 DEF LinesKept, AsOrdered, IsCapture
<1>3. End - 1 = Len(toPld)
  BY DEF End, Typed
<1> QED BY <1>1, <1>2, <1>3 DEF Fresh

LEMMA CaptureInvNext == ArgsInv /\ CaptureInv /\ [Next]_vars => CaptureInv'
<1> SUFFICES ASSUME ArgsInv, CaptureInv, [Next]_vars PROVE CaptureInv'
  OBVIOUS
<1>0. Typed /\ CapturesRight /\ args \in [1 .. Cells -> 0 .. MaxOrders]
  BY DEF ArgsInv, CaptureInv, Typed, TypeOK
(* Steps that leave the line alone and end the sequence, or go on with it. *)
<1>1. ASSUME UNCHANGED <<toPld, asked, captured, lost>>, payload' = "up" => payload = "up",
             payload' = "boot" => payload = "boot",
             plds' = "OFF" /\ args'[1] = 0
      PROVE  CaptureInv'
  <2>1. CapturesRight'
    BY <1>0, <1>1, CapturesRightStill
  <2> QED BY <1>1, <2>1 DEF CaptureInv, NextShown, NextFresh
<1>2. ASSUME UNCHANGED <<toPld, asked, captured, lost, plds, args>>, payload' = "up" => payload = "up",
             payload' = "boot" => payload = "boot", DisplayUnderWay' => DisplayUnderWay
      PROVE  CaptureInv'
  <2>1. CapturesRight'
    BY <1>0, <1>2, CapturesRightStill
  <2>2. \A a : (Reached(End)' => Reached(End)) /\ (ShownBy(End, a)' <=> ShownBy(End, a))
               /\ (Fresh(End, a)' <=> Fresh(End, a))
    BY <1>2 DEF Reached, ShownBy, Fresh, Changes, IsCapture, End
  <2>3. NextShown'
    BY <1>2, <2>2 DEF CaptureInv, NextShown
  <2>4. NextFresh'
    BY <1>2, <2>2 DEF CaptureInv, NextFresh
  <2> QED BY <2>1, <2>3, <2>4 DEF CaptureInv
<1>3. ASSUME NEW size \in 1 .. Cells, Order(size) PROVE CaptureInv'
  <2>1. UNCHANGED <<toPld, toUppm, asked, captured, lost>> /\ plds' = "OFF"
    BY <1>3 DEF Order, FsmInit, lines, flags
  <2>2. payload' = "up" => payload = "up"
    BY <1>3 DEF Order, SwitchOn
  <2>3. CapturesRight'
    BY <1>0, <2>1, <2>2, CapturesRightStill
  <2>4. NextShown'
    BY <2>1 DEF NextShown
  <2>5. args'[1] = Len(sizes) + 1
    BY <1>0, <1>3, BufferOrdered DEF ArgsInv
  <2>6. Fresh(End, args'[1]) /\ args'[1] \notin captured
    BY <1>0, <2>5, CapturesOfOrders DEF ArgsInv
  <2>7. NextFresh'
    BY <2>1, <2>6 DEF NextFresh, Fresh, IsCapture, End
  <2> QED BY <2>3, <2>4, <2>7 DEF CaptureInv
(* A command is appended that is no capture.                               *)
<1>4. ASSUME NEW msg \in Command, toPld' = Append(toPld, msg), msg.cmd # "cam_capture",
             UNCHANGED <<payload, asked, captured, lost, args>>,
             plds' = "STARTED" =>
               \/ msg.cmd = "lcd_display" /\ msg.args = Text(args)
               \/ plds = "STARTED" /\ (DisplayUnderWay' => DisplayUnderWay) /\ ~Changes(msg),
             plds' \in {"OFF", "STARTED"} =>
               plds \in {"OFF", "STARTED"} \/ msg.cmd = "rpi_shutdown"
      PROVE  CaptureInv'
  <2>1. CapturesRight'
    BY <1>0, <1>4, CapturesRightGrown
  <2>2. /\ Reached(End)' => Reached(End) /\ msg.cmd # "rpi_shutdown"
        /\ \A a : ShownBy(End, a) /\ ~Changes(msg) => ShownBy(End, a)'
        /\ msg.cmd = "lcd_display" => ShownBy(End, msg.args)'
        /\ \A k : Fresh(End, k) /\ ~IsCapture(msg, k) => Fresh(End, k)'
    BY <1>0, <1>4, PlaceBehind
  <2>3. Text(args)' = Text(args)
    BY <1>4 DEF Text
  <2>4. NextShown'
    <3> SUFFICES ASSUME plds' = "STARTED", Reached(End)', DisplayUnderWay'
                 PROVE  ShownBy(End, Text(args))'
      BY DEF NextShown
    <3>1. CASE msg.cmd = "lcd_display" /\ msg.args = Text(args)
      <4>1. ShownBy(End, msg.args)' /\ msg.args = Text(args)'
        BY <2>2, <2>3, <3>1
      <4> QED BY <4>1 DEF ShownBy
    <3>2. CASE plds = "STARTED" /\ DisplayUnderWay /\ ~Changes(msg)
      <4>1. ShownBy(End, Text(args))
        BY <2>2, <3>2 DEF CaptureInv, NextShown
      <4>2. PICK a : a = Text(args)
        OBVIOUS
      <4>3. ShownBy(End, a)' /\ a = Text(args)'
        BY <2>2, <2>3, <3>2, <4>1, <4>2
      <4> QED BY <4>3 DEF ShownBy
    <3> QED BY <1>4, <3>1, <3>2
  <2>5. NextFresh'
    <3>1. \A k : ~IsCapture(msg, k)
      BY <1>4 DEF IsCapture
    <3> QED BY <1>4, <2>2, <3>1 DEF CaptureInv, NextFresh
  <2> QED BY <2>1, <2>4, <2>5 DEF CaptureInv
<1>5. ASSUME RunPing PROVE CaptureInv'
  <2> DEFINE msg == [cmd |-> "com_ping", args |-> <<>>]
  <2>1. msg \in Command /\ toPld' = Append(toPld, msg) /\ msg.cmd = "com_ping"
    BY <1>5 DEF RunPing, ToPayload, Command, Answered
  <2> HIDE DEF msg
  <2>2. UNCHANGED <<payload, asked, captured, lost, args, plds, toUppm>>
    BY <1>5 DEF RunPing, rpi, ghost, flags
  <2>3. DisplayUnderWay' => DisplayUnderWay
    <3>1. \A i \in 1 .. Len(toPld') : toPld'[i] = msg \/ \E j \in 1 .. Len(toPld) : toPld'[i] = toPld[j]
      BY <1>0, <2>1 DEF Typed
    <3> QED BY <2>1, <2>2, <3>1 DEF DisplayUnderWay
  <2> QED BY <1>4, <2>1, <2>2, <2>3 DEF Changes
<1>6. ASSUME RunOff PROVE CaptureInv'
  <2>1. UNCHANGED <<plds, args, toPld, toUppm, captured, lost>>
    BY <1>6 DEF RunOff, lines, flags
  <2>2. CASE UNCHANGED rpi
    BY <1>2, <2>1, <2>2 DEF rpi, DisplayUnderWay
  <2>3. CASE payload' = "dark"
    BY <2>3 DEF CaptureInv, CapturesRight, NextShown, NextFresh, Reached
  <2> QED BY <1>6, <2>2, <2>3 DEF RunOff, Dark
<1>7. ASSUME Receive PROVE CaptureInv'
  <2>1. /\ toUppm # <<>> /\ toUppm' = Tail(toUppm)
        /\ UNCHANGED <<payload, asked, captured, lost>>
        /\ Ignore \/ Starts \/ Ends \/ Captures \/ TurnsOff \/ ShutsDown
    BY <1>0, <1>7, ReceiveCases DEF rpi, ghost, flags
  <2>2. /\ Len(toUppm) \in Nat \ {0} /\ Head(toUppm) = toUppm[1]
        /\ \A i \in 1 .. Len(toUppm') : i + 1 \in 1 .. Len(toUppm) /\ toUppm'[i] = toUppm[i + 1]
    BY <1>0, <2>1, TailFacts DEF Typed
  <2>3. \A c \in Answered \cup {"rpi_shutdown"}, a \in Seq(Nat) :
          LET msg == [cmd |-> c, args |-> a]
          IN  msg \in Command /\ msg.cmd = c /\ msg.args = a
    BY DEF Command
  <2>4. Text(args) \in Seq(Nat) /\ <<>> \in Seq(Nat)
    BY TextAsOrdered DEF ArgsInv
  <2>5. CASE Ignore
    <3>1. DisplayUnderWay' => DisplayUnderWay
      BY <2>2, <2>5 DEF Ignore, DisplayUnderWay
    <3> QED BY <1>2, <2>1, <2>5, <3>1 DEF Ignore
  <2>6. CASE Ends
    <3>1. args'[1] = 0
      BY <1>0, <2>6, PayloadAssumption DEF Ends, ClearNode, ClearedArgs
    <3> QED BY <1>1, <2>1, <2>6, <3>1 DEF Ends, ClearNode
  <2>7. CASE Starts
    <3>1. PICK msg \in Command : msg = [cmd |-> "lcd_display", args |-> Text(args)]
      BY <2>3, <2>4 DEF Answered
    <3> QED BY <1>4, <2>1, <2>7, <3>1 DEF Starts, ToPayload
  <2>8. CASE TurnsOff
    <3>1. PICK c \in {"lcd_off", "cam_off"} :
            /\ ToPayload(c, <<>>)
            /\ plds' = "CAPTURED" \/ (plds' = plds /\ c = "cam_off")
      BY <2>8 DEF TurnsOff
    <3>2. PICK msg \in Command : msg = [cmd |-> c, args |-> <<>>]
      BY <2>3, <2>4, <3>1 DEF Answered
    <3>3. toPld' = Append(toPld, msg) /\ msg.cmd = c
      BY <3>1, <3>2 DEF ToPayload
    <3>4. DisplayUnderWay' => DisplayUnderWay
      <4>1. \A i \in 1 .. Len(toPld') : toPld'[i] = msg \/ \E j \in 1 .. Len(toPld) : toPld'[i] = toPld[j]
        BY <1>0, <3>3 DEF Typed
      <4> QED BY <2>2, <3>1, <3>3, <4>1 DEF DisplayUnderWay
    <3> QED BY <1>4, <2>1, <2>8, <3>1, <3>3, <3>4 DEF TurnsOff, Changes
  <2>9. CASE ShutsDown
    <3>1. PICK msg \in Command : msg = [cmd |-> "rpi_shutdown", args |-> <<>>]
      BY <2>3, <2>4
    <3> QED BY <1>4, <2>1, <2>9, <3>1 DEF ShutsDown, ToPayload
  <2>10. CASE Captures
    <3>1. PICK msg \in Command : msg = [cmd |-> "cam_capture", args |-> Text(args)]
      BY <2>3, <2>4 DEF Answered
    <3>2. toPld' = Append(toPld, msg) /\ msg.cmd = "cam_capture" /\ msg.args = Text(args)
      BY <2>10, <3>1 DEF Captures, ToPayload
    <3>3. DisplayUnderWay /\ plds = "STARTED"
      BY <2>2, <2>10 DEF Captures, DisplayUnderWay
    <3>4. Reached(End) => ShownBy(End, Text(args))
      BY <3>3 DEF CaptureInv, NextShown
    <3>5. Reached(End) /\ Text(args) # <<>> => Fresh(End, Text(args)[1])
      <4>1. Text(args) # <<>> => args[1] # 0 /\ Text(args)[1] = args[1]
        BY TextAsOrdered DEF ArgsInv
      <4> QED BY <3>3, <4>1 DEF CaptureInv, NextFresh
    <3>6. CapturesRight'
      BY <1>0, <2>1, <3>2, <3>4, <3>5, CapturesRightGrown
    <3>7. NextShown' /\ NextFresh'
      BY <2>1, <2>10 DEF Captures, CaptureInv, NextShown, NextFresh
    <3> QED BY <3>6, <3>7 DEF CaptureInv
  <2> QED BY <2>1, <2>5, <2>6, <2>7, <2>8, <2>9, <2>10
<1>8. ASSUME Boot PROVE CaptureInv'
  <2>1. /\ toPld' = <<>> /\ toUppm' = <<>> /\ payload = "boot" /\ payload' = "up"
        /\ UNCHANGED <<args, captured>>
    BY <1>8 DEF Boot, uppm, lines, ghost, flags
  <2>2. CapturesRight' /\ NextShown'
    BY <2>1 DEF CapturesRight, NextShown, DisplayUnderWay
  <2>3. NextFresh'
    BY <2>1 DEF CaptureInv, NextFresh, Fresh, End
  <2> QED BY <2>2, <2>3 DEF CaptureInv
<1>9. ASSUME Serve PROVE CaptureInv'
  <2>1. CapturesRight'
    BY <1>0, <1>9, CapturesRightTaken
  <2>2. /\ Len(toPld) \in Nat \ {0} /\ Len(toPld') = Len(toPld) - 1 /\ End' = End - 1
        /\ \A i \in 1 .. Len(toPld) - 1 : toPld'[i] = toPld[i + 1]
        /\ \A i \in 1 .. Len(toPld) :
             Reached(i)' =>
               /\ Reached(i + 1)
               /\ \A a : ShownBy(i + 1, a) => ShownBy(i, a)'
               /\ \A k : Fresh(i + 1, k) => Fresh(i, k)'
    BY <1>0, <1>9, PlacesTaken
  <2>3. End' \in 1 .. Len(toPld) /\ End' + 1 = End /\ End \in Nat
    BY <2>2 DEF End
  <2>4. Reached(End)' =>
          /\ Reached(End)
          /\ \A a : ShownBy(End, a) => ShownBy(End, a)'
          /\ \A k : Fresh(End, k) => Fresh(End, k)'
    <3>1. PICK e \in 1 .. Len(toPld) : e = End' /\ e + 1 = End
      BY <2>3
    <3>2. Reached(e)' =>
            /\ Reached(End)
            /\ \A a : ShownBy(End, a) => ShownBy(e, a)'
            /\ \A k : Fresh(End, k) => Fresh(e, k)'
      BY <2>2, <3>1
    <3> QED BY <3>1, <3>2 DEF Reached, ShownBy, Fresh
  <2>5. UNCHANGED <<plds, args>> /\ payload' # "boot" /\ Text(args)' = Text(args)
    BY <1>9 DEF Serve, uppm, Text
  <2>6. DisplayUnderWay' => DisplayUnderWay
    <3>1. \/ toUppm' = toUppm
          \/ \E ok \in BOOLEAN : toUppm' = Append(toUppm, [cmd |-> Head(toPld).cmd, ok |-> ok])
      BY <1>0, <1>9, ServeFacts DEF ArgsInv
    <3>2. Head(toPld) = toPld[1] /\ 1 \in 1 .. Len(toPld)
      BY <1>0, <2>2 DEF Typed
    <3>3. \A i \in 1 .. Len(toUppm') :
            \/ \E j \in 1 .. Len(toUppm) : toUppm'[i] = toUppm[j]
            \/ toUppm'[i].cmd = toPld[1].cmd
      <4>1. CASE toUppm' = toUppm
        BY <4>1
      <4>2. ASSUME NEW ok \in BOOLEAN,
                   toUppm' = Append(toUppm, [cmd |-> Head(toPld).cmd, ok |-> ok])
            PROVE  \A i \in 1 .. Len(toUppm') :
                     \/ \E j \in 1 .. Len(toUppm) : toUppm'[i] = toUppm[j]
                     \/ toUppm'[i].cmd = toPld[1].cmd
        BY <1>0, <3>2, <4>2 DEF Typed
      <4> QED BY <3>1, <4>1, <4>2
    <3>4. \A i \in 1 .. Len(toPld') : i + 1 \in 1 .. Len(toPld) /\ toPld'[i] = toPld[i + 1]
      BY <2>2
    <3> QED BY <3>2, <3>3, <3>4 DEF DisplayUnderWay
  <2>7. NextShown'
    <3> SUFFICES ASSUME plds' = "STARTED", Reached(End)', DisplayUnderWay'
                 PROVE  ShownBy(End, Text(args))'
      BY DEF NextShown
    <3>1. PICK a : a = Text(args)
      OBVIOUS
    <3>2. ShownBy(End, a)' /\ a = Text(args)'
      BY <2>4, <2>5, <2>6, <3>1 DEF CaptureInv, NextShown
    <3> QED BY <3>2 DEF ShownBy
  <2>8. NextFresh'
    <3>1. PICK k : k = args[1]
      OBVIOUS
    <3>2. k # 0 /\ plds' \in {"OFF", "STARTED"} /\ Reached(End)' => Fresh(End, k)'
      BY <2>4, <2>5, <3>1 DEF CaptureInv, NextFresh
    <3> QED BY <2>5, <3>1, <3>2 DEF NextFresh, Fresh
  <2> QED BY <2>1, <2>7, <2>8 DEF CaptureInv
<1>10. ASSUME Unheard PROVE CaptureInv'
  BY <1>10 DEF Unheard, CaptureInv, CapturesRight, NextShown, NextFresh, Reached, uppm, rpi, ghost, flags
<1>11. ASSUME LoadSchedules PROVE CaptureInv'
  BY <1>2, <1>11 DEF LoadSchedules, DisplayUnderWay, lines, rpi, ghost, flags
<1>12. ASSUME Lose PROVE CaptureInv'
  BY <1>12 DEF Lose, CaptureInv, CapturesRight, NextShown, NextFresh, Reached, uppm, rpi
<1>13. ASSUME EpsRestart PROVE CaptureInv'
  BY <1>13 DEF EpsRestart, Dark, CaptureInv, CapturesRight, NextShown, NextFresh, Reached
<1>14. ASSUME UppmReset PROVE CaptureInv'
  <2>1. args'[1] = 0
    BY <1>14, PayloadAssumption DEF UppmReset, Zeros
  <2> QED BY <1>1, <1>14, <2>1 DEF UppmReset, rpi
<1>15. ASSUME ClearBufs PROVE CaptureInv'
  <2>1. args'[1] = 0
    BY <1>0, <1>15, PayloadAssumption DEF ClearBufs, ClearNode, ClearedArgs
  <2> QED BY <1>1, <1>15, <2>1 DEF ClearBufs, ClearNode, lines, rpi
<1>16. CASE UNCHANGED vars
  BY <1>2, <1>16 DEF vars, DisplayUnderWay, uppm, lines, rpi, ghost, flags
<1> QED BY <1>3, <1>5, <1>6, <1>7, <1>8, <1>9, <1>10, <1>11, <1>12, <1>13, <1>14, <1>15, <1>16
        DEF Next, Sequence, Payload

LEMMA CaptureInvAlways == Spec => []CaptureInv
<1>1. Init => CaptureInv
  BY PayloadAssumption DEF Init, CaptureInv, CapturesRight, NextShown, NextFresh, Zeros
<1> QED BY <1>1, CaptureInvNext, ArgsInvAlways, PTL DEF Spec

-----------------------------------------------------------------------------
(* The picture.  Unless two displays were under way at once: a display     *)
(* that is to be carried out is of the arguments in the buffer, and        *)
(* nothing behind it changes the display; one that was answered positively *)
(* shows them until a capture has been sent; and so does the payload until *)
(* it comes to the capture.                                                *)
IsDisplay(msg) == msg.cmd = "lcd_display"

OneDisplay ==
  /\ \A i, j \in 1 .. Len(toPld) : IsDisplay(toPld[i]) /\ IsDisplay(toPld[j]) => i = j
  /\ \A i, j \in 1 .. Len(toUppm) : IsDisplay(toUppm[i]) /\ IsDisplay(toUppm[j]) => i = j
  /\ \A i \in 1 .. Len(toPld) : \A j \in 1 .. Len(toUppm) :
       ~(IsDisplay(toPld[i]) /\ IsDisplay(toUppm[j]))

SentRight ==
  plds = "STARTED" =>
    \A i \in 1 .. Len(toPld) :
      IsDisplay(toPld[i]) =>
        /\ toPld[i].args = Text(args)
        /\ \A j \in i + 1 .. Len(toPld) : ~Changes(toPld[j])

AnsweredRight ==
  plds = "STARTED" /\ payload = "up" =>
    \A i \in 1 .. Len(toUppm) :
      IsDisplay(toUppm[i]) /\ toUppm[i].ok =>
        /\ lcd = Text(args)
        /\ \A j \in 1 .. Len(toPld) : ~Changes(toPld[j])

PictureRight ==
  payload = "up" =>
    \A i \in 1 .. Len(toPld) :
      toPld[i].cmd = "cam_capture" =>
        /\ lcd = toPld[i].args
        /\ \A j \in 1 .. i - 1 : ~Changes(toPld[j])

PictureInv == ~raced => OneDisplay /\ SentRight /\ AnsweredRight /\ PictureRight

(* A line that lost some of its first messages.                            *)
Shortened(s, t) ==
  \E d \in Nat : /\ Len(t) \in Nat /\ Len(s) = Len(t) + d
                 /\ \A i \in 1 .. Len(t) : t[i] = s[i + d]

LEMMA TailShortened ==
  ASSUME NEW S, NEW s \in Seq(S), NEW t, t = s \/ t = <<>> \/ (s # <<>> /\ t = Tail(s))
  PROVE  Shortened(s, t)
<1>1. CASE t = s
  <2>1. 0 \in Nat /\ Len(t) \in Nat /\ Len(s) = Len(t) + 0 /\ \A i \in 1 .. Len(t) : t[i] = s[i + 0]
    BY <1>1
  <2> QED BY <2>1 DEF Shortened
<1>2. CASE t = <<>>
  <2>1. Len(s) \in Nat /\ Len(t) = 0
    BY <1>2
  <2> QED BY <2>1 DEF Shortened
<1>3. CASE s # <<>> /\ t = Tail(s)
  <2>1. /\ 1 \in Nat /\ Len(t) \in Nat /\ Len(s) = Len(t) + 1
        /\ \A i \in 1 .. Len(t) : t[i] = s[i + 1]
    BY <1>3, TailFacts
  <2> QED BY <2>1 DEF Shortened
<1> QED BY <1>1, <1>2, <1>3

(* A step that sends nothing.                                              *)
LEMMA PictureShortened ==
  ASSUME PictureInv, Shortened(toPld, toPld'), Shortened(toUppm, toUppm'), raced => raced',
         plds' = "STARTED" => plds = "STARTED" /\ args' = args,
         payload' = "up" => payload = "up" /\ lcd' = lcd
  PROVE  PictureInv'
<1> SUFFICES ASSUME ~raced'
             PROVE  OneDisplay' /\ SentRight' /\ AnsweredRight' /\ PictureRight'
  BY DEF PictureInv
<1>1. OneDisplay /\ SentRight /\ AnsweredRight /\ PictureRight
  BY DEF PictureInv
<1>2. PICK d \in Nat : /\ Len(toPld') \in Nat /\ Len(toPld) = Len(toPld') + d
                       /\ \A i \in 1 .. Len(toPld') : toPld'[i] = toPld[i + d]
  BY DEF Shortened
<1>3. PICK e \in Nat : /\ Len(toUppm') \in Nat /\ Len(toUppm) = Len(toUppm') + e
                       /\ \A i \in 1 .. Len(toUppm') : toUppm'[i] = toUppm[i + e]
  BY DEF Shortened
<1>4. /\ \A i \in 1 .. Len(toPld') : i + d \in 1 .. Len(toPld)
      /\ \A i \in 1 .. Len(toUppm') : i + e \in 1 .. Len(toUppm)
  BY <1>2, <1>3
<1>5. OneDisplay'
  <2>1. ASSUME NEW i \in 1 .. Len(toPld'), NEW j \in 1 .. Len(toPld'),
               IsDisplay(toPld'[i]), IsDisplay(toPld'[j])
        PROVE  i = j
    <3>1. i + d = j + d
      BY <1>1, <1>2, <1>4, <2>1 DEF OneDisplay
    <3> QED BY <3>1
  <2>2. ASSUME NEW i \in 1 .. Len(toUppm'), NEW j \in 1 .. Len(toUppm'),
               IsDisplay(toUppm'[i]), IsDisplay(toUppm'[j])
        PROVE  i = j
    <3>1. i + e = j + e
      BY <1>1, <1>3, <1>4, <2>2 DEF OneDisplay
    <3> QED BY <3>1
  <2>3. \A i \in 1 .. Len(toPld') : \A j \in 1 .. Len(toUppm') :
          ~(IsDisplay(toPld'[i]) /\ IsDisplay(toUppm'[j]))
    BY <1>1, <1>2, <1>3, <1>4 DEF OneDisplay
  <2> QED BY <2>1, <2>2, <2>3 DEF OneDisplay, IsDisplay
<1>6. args' = args => Text(args)' = Text(args)
  BY DEF Text
<1>7. SentRight'
  <2> SUFFICES ASSUME plds' = "STARTED", NEW i \in 1 .. Len(toPld'), IsDisplay(toPld'[i])
               PROVE  /\ toPld'[i].args = Text(args)'
                      /\ \A j \in i + 1 .. Len(toPld') : ~Changes(toPld'[j])
    BY DEF SentRight, IsDisplay, Changes
  <2>1. /\ toPld'[i].args = Text(args)
        /\ \A j \in (i + d) + 1 .. Len(toPld) : ~Changes(toPld[j])
    BY <1>1, <1>2, <1>4 DEF SentRight
  <2>2. \A j \in i + 1 .. Len(toPld') : j + d \in (i + d) + 1 .. Len(toPld) /\ j \in 1 .. Len(toPld')
    BY <1>2
  <2> QED BY <1>2, <1>6, <2>1, <2>2
<1>8. AnsweredRight'
  <2> SUFFICES ASSUME plds' = "STARTED", payload' = "up", NEW i \in 1 .. Len(toUppm'),
                      IsDisplay(toUppm'[i]), toUppm'[i].ok
               PROVE  /\ lcd' = Text(args)'
                      /\ \A j \in 1 .. Len(toPld') : ~Changes(toPld'[j])
    BY DEF AnsweredRight, IsDisplay, Changes
  <2>1. lcd = Text(args) /\ \A j \in 1 .. Len(toPld) : ~Changes(toPld[j])
    BY <1>1, <1>3, <1>4 DEF AnsweredRight
  <2> QED BY <1>2, <1>4, <1>6, <2>1
<1>9. PictureRight'
  <2> SUFFICES ASSUME payload' = "up", NEW i \in 1 .. Len(toPld'), toPld'[i].cmd = "cam_capture"
               PROVE  /\ lcd' = toPld'[i].args
                      /\ \A j \in 1 .. i - 1 : ~Changes(toPld'[j])
    BY DEF PictureRight, Changes
  <2>1. lcd = toPld[i + d].args /\ \A j \in 1 .. (i + d) - 1 : ~Changes(toPld[j])
    BY <1>1, <1>2, <1>4 DEF PictureRight
  <2>2. \A j \in 1 .. i - 1 : j + d \in 1 .. (i + d) - 1 /\ j \in 1 .. Len(toPld')
    BY <1>2
  <2> QED BY <1>2, <2>1, <2>2
<1> QED BY <1>5, <1>7, <1>8, <1>9

(* A step that sends a message, but no display.                            *)
LEMMA PictureGrown ==
  ASSUME Typed, PictureInv, NEW msg \in Command, toPld' = Append(toPld, msg), ~IsDisplay(msg),
         Shortened(toUppm, toUppm'), raced => raced', UNCHANGED <<payload, lcd, args>>,
         plds' = "STARTED" => plds = "STARTED" /\ ~Changes(msg),
         msg.cmd = "cam_capture" /\ payload = "up" /\ ~raced =>
           /\ lcd = msg.args
           /\ \A j \in 1 .. Len(toPld) : ~Changes(toPld[j])
  PROVE  PictureInv'
<1> SUFFICES ASSUME ~raced'
             PROVE  OneDisplay' /\ SentRight' /\ AnsweredRight' /\ PictureRight'
  BY DEF PictureInv
<1>1. OneDisplay /\ SentRight /\ AnsweredRight /\ PictureRight
  BY DEF PictureInv
<1>2. /\ Len(toPld) \in Nat /\ Len(toPld') = Len(toPld) + 1
      /\ toPld'[Len(toPld')] = msg
      /\ \A i \in 1 .. Len(toPld) : toPld'[i] = toPld[i]
  BY AppendFacts DEF Typed
<1>3. PICK e \in Nat : /\ Len(toUppm') \in Nat /\ Len(toUppm) = Len(toUppm') + e
                       /\ \A i \in 1 .. Len(toUppm') : toUppm'[i] = toUppm[i + e]
  BY DEF Shortened
<1>4. \A i \in 1 .. Len(toUppm') : i + e \in 1 .. Len(toUppm)
  BY <1>3
<1>5. \A i \in 1 .. Len(toPld') : i \in 1 .. Len(toPld) \/ i = Len(toPld')
  BY <1>2
<1>6. OneDisplay'
  <2>1. ASSUME NEW i \in 1 .. Len(toPld'), NEW j \in 1 .. Len(toPld'),
               IsDisplay(toPld'[i]), IsDisplay(toPld'[j])
        PROVE  i = j
    BY <1>1, <1>2, <1>5, <2>1 DEF OneDisplay
  <2>2. ASSUME NEW i \in 1 .. Len(toUppm'), NEW j \in 1 .. Len(toUppm'),
               IsDisplay(toUppm'[i]), IsDisplay(toUppm'[j])
        PROVE  i = j
    <3>1. i + e = j + e
      BY <1>1, <1>3, <1>4, <2>2 DEF OneDisplay
    <3> QED BY <3>1
  <2>3. \A i \in 1 .. Len(toPld') : \A j \in 1 .. Len(toUppm') :
          ~(IsDisplay(toPld'[i]) /\ IsDisplay(toUppm'[j]))
    BY <1>1, <1>2, <1>3, <1>4, <1>5 DEF OneDisplay
  <2> QED BY <2>1, <2>2, <2>3 DEF OneDisplay, IsDisplay
<1>7. Text(args)' = Text(args)
  BY DEF Text
<1>8. SentRight'
  <2> SUFFICES ASSUME plds' = "STARTED", NEW i \in 1 .. Len(toPld'), IsDisplay(toPld'[i])
               PROVE  /\ toPld'[i].args = Text(args)'
                      /\ \A j \in i + 1 .. Len(toPld') : ~Changes(toPld'[j])
    BY DEF SentRight, IsDisplay, Changes
  <2>1. i \in 1 .. Len(toPld) /\ IsDisplay(toPld[i])
    BY <1>2, <1>5
  <2>2. /\ toPld[i].args = Text(args)
        /\ \A j \in i + 1 .. Len(toPld) : ~Changes(toPld[j])
    BY <1>1, <2>1 DEF SentRight
  <2>3. \A j \in i + 1 .. Len(toPld') :
          \/ j = Len(toPld')
          \/ j \in i + 1 .. Len(toPld) /\ j \in 1 .. Len(toPld)
    BY <1>2
  <2> QED BY <1>2, <1>7, <2>1, <2>2, <2>3
<1>9. AnsweredRight'
  <2> SUFFICES ASSUME plds' = "STARTED", payload' = "up", NEW i \in 1 .. Len(toUppm'),
                      IsDisplay(toUppm'[i]), toUppm'[i].ok
               PROVE  /\ lcd' = Text(args)'
                      /\ \A j \in 1 .. Len(toPld') : ~Changes(toPld'[j])
    BY DEF AnsweredRight, IsDisplay, Changes
  <2>1. lcd = Text(args) /\ \A j \in 1 .. Len(toPld) : ~Changes(toPld[j])
    BY <1>1, <1>3, <1>4 DEF AnsweredRight
  <2> QED BY <1>2, <1>5, <1>7, <2>1
<1>10. PictureRight'
  <2> SUFFICES ASSUME payload' = "up", NEW i \in 1 .. Len(toPld'), toPld'[i].cmd = "cam_capture"
               PROVE  /\ lcd' = toPld'[i].args
                      /\ \A j \in 1 .. i - 1 : ~Changes(toPld'[j])
    BY DEF PictureRight, Changes
  <2>1. \A j \in 1 .. i - 1 : j \in 1 .. Len(toPld)
    BY <1>2
  <2>2. CASE i \in 1 .. Len(toPld)
    BY <1>1, <1>2, <2>1, <2>2 DEF PictureRight
  <2>3. CASE i = Len(toPld')
    BY <1>2, <2>1, <2>3
  <2> QED BY <1>5, <2>2, <2>3
<1> QED BY <1>6, <1>8, <1>9, <1>10

(* The answer to a ping sends a display.                                   *)
LEMMA PictureStarted ==
  ASSUME Typed, PictureInv, Receive, Starts
  PROVE  PictureInv'
<1> SUFFICES ASSUME ~raced'
             PROVE  OneDisplay' /\ SentRight' /\ AnsweredRight' /\ PictureRight'
  BY DEF PictureInv
<1> DEFINE msg == [cmd |-> "lcd_display", args |-> Text(args)]
<1>1. /\ ~raced /\ ~DisplayUnderWay
      /\ UNCHANGED <<payload, lcd, args>> /\ toUppm # <<>> /\ toUppm' = Tail(toUppm)
      /\ toPld' = Append(toPld, msg)
  BY DEF Receive, Note, Starts, ToPayload, rpi
<1>2. OneDisplay /\ PictureRight
  BY <1>1 DEF PictureInv
<1>3. msg \in Command
  <2>1. Text(args) \in Seq(Nat)
    BY ArgsTyped, TextFacts
  <2> QED BY <2>1 DEF Command, Answered
<1>4. /\ Len(toPld) \in Nat /\ Len(toPld') = Len(toPld) + 1
      /\ toPld'[Len(toPld')] = msg
      /\ \A i \in 1 .. Len(toPld) : toPld'[i] = toPld[i] /\ ~IsDisplay(toPld[i])
      /\ \A i \in 1 .. Len(toPld') : i \in 1 .. Len(toPld) \/ i = Len(toPld')
  BY <1>1, <1>3, AppendFacts DEF Typed, DisplayUnderWay, IsDisplay
<1>5. /\ Len(toUppm') = Len(toUppm) - 1 /\ Len(toUppm) \in Nat
      /\ \A i \in 1 .. Len(toUppm') : toUppm'[i] = toUppm[i + 1]
  BY <1>1, TailFacts DEF Typed
<1>6. \A i \in 1 .. Len(toUppm') : ~IsDisplay(toUppm'[i])
  <2>1. \A i \in 1 .. Len(toUppm') : i + 1 \in 1 .. Len(toUppm)
    BY <1>5
  <2> QED BY <1>1, <1>5, <2>1 DEF DisplayUnderWay, IsDisplay
<1>7. Text(args)' = Text(args) /\ msg.cmd = "lcd_display" /\ msg.args = Text(args)
  BY <1>1 DEF Text
<1> HIDE DEF msg
<1>8. OneDisplay'
  BY <1>4, <1>6 DEF OneDisplay, IsDisplay
<1>9. SentRight'
  BY <1>4, <1>7 DEF SentRight, IsDisplay, Changes
<1>10. AnsweredRight'
  BY <1>6 DEF AnsweredRight, IsDisplay
<1>11. PictureRight'
  <2> SUFFICES ASSUME payload' = "up", NEW i \in 1 .. Len(toPld'), toPld'[i].cmd = "cam_capture"
               PROVE  /\ lcd' = toPld'[i].args
                      /\ \A j \in 1 .. i - 1 : ~Changes(toPld'[j])
    BY DEF PictureRight, Changes
  <2>1. i \in 1 .. Len(toPld)
    BY <1>4, <1>7
  <2>2. \A j \in 1 .. i - 1 : j \in 1 .. Len(toPld)
    BY <1>4
  <2> QED BY <1>1, <1>2, <1>4, <2>1, <2>2 DEF PictureRight
<1> QED BY <1>8, <1>9, <1>10, <1>11

(* The payload carries out a command: a display may fail.                  *)
LEMMA PictureServed ==
  ASSUME Typed, PictureInv, Serve
  PROVE  PictureInv'
<1> SUFFICES ASSUME ~raced'
             PROVE  OneDisplay' /\ SentRight' /\ AnsweredRight' /\ PictureRight'
  BY DEF PictureInv
<1> DEFINE msg == Head(toPld)
<1>1. /\ ~raced /\ payload = "up" /\ UNCHANGED <<plds, args>>
      /\ toPld # <<>> /\ toPld' = Tail(toPld)
  BY DEF Serve, flags, uppm
<1>2. OneDisplay /\ SentRight /\ AnsweredRight /\ PictureRight
  BY <1>1 DEF PictureInv
<1>3. /\ Len(toPld) \in Nat /\ Len(toPld') = Len(toPld) - 1
      /\ \A i \in 1 .. Len(toPld') : toPld'[i] = toPld[i + 1] /\ i + 1 \in 1 .. Len(toPld)
      /\ 1 \in 1 .. Len(toPld) /\ msg = toPld[1]
  BY <1>1, TailFacts DEF Typed
<1>4. Text(args)' = Text(args)
  BY <1>1 DEF Text
<1>5. ~Changes(msg) => lcd' = lcd
  BY DEF Serve, Shown, Changes
<1>6. \/ toUppm' = toUppm /\ ~IsDisplay(msg) /\ payload' # "up"
      \/ \E ok \in BOOLEAN :
           /\ toUppm' = Append(toUppm, [cmd |-> msg.cmd, ok |-> ok])
           /\ ok /\ IsDisplay(msg) => lcd' = msg.args
  BY DEF Serve, Shown, IsDisplay
<1>7. PictureRight'
  <2> SUFFICES ASSUME payload' = "up", NEW i \in 1 .. Len(toPld'), toPld'[i].cmd = "cam_capture"
               PROVE  /\ lcd' = toPld'[i].args
                      /\ \A j \in 1 .. i - 1 : ~Changes(toPld'[j])
    BY DEF PictureRight, Changes
  <2>1. lcd = toPld[i + 1].args /\ \A j \in 1 .. (i + 1) - 1 : ~Changes(toPld[j])
    BY <1>1, <1>2, <1>3 DEF PictureRight
  <2>2. 1 \in 1 .. (i + 1) - 1
    OBVIOUS
  <2>3. lcd' = lcd
    BY <1>3, <1>5, <2>1, <2>2
  <2>4. \A j \in 1 .. i - 1 : j + 1 \in 1 .. (i + 1) - 1 /\ j \in 1 .. Len(toPld')
    BY <1>3
  <2> QED BY <1>3, <2>1, <2>3, <2>4
<1>8. SentRight'
  <2> SUFFICES ASSUME plds' = "STARTED", NEW i \in 1 .. Len(toPld'), IsDisplay(toPld'[i])
               PROVE  /\ toPld'[i].args = Text(args)'
                      /\ \A j \in i + 1 .. Len(toPld') : ~Changes(toPld'[j])
    BY DEF SentRight, IsDisplay, Changes
  <2>1. /\ toPld[i + 1].args = Text(args)
        /\ \A j \in (i + 1) + 1 .. Len(toPld) : ~Changes(toPld[j])
    BY <1>1, <1>2, <1>3 DEF SentRight
  <2>2. \A j \in i + 1 .. Len(toPld') : j + 1 \in (i + 1) + 1 .. Len(toPld) /\ j \in 1 .. Len(toPld')
    BY <1>3
  <2> QED BY <1>3, <1>4, <2>1, <2>2
<1>9. CASE toUppm' = toUppm /\ ~IsDisplay(msg) /\ payload' # "up"
  <2>1. OneDisplay'
    <3>1. ASSUME NEW i \in 1 .. Len(toPld'), NEW j \in 1 .. Len(toPld'),
                 IsDisplay(toPld'[i]), IsDisplay(toPld'[j])
          PROVE  i = j
      <4>1. i + 1 = j + 1
        BY <1>2, <1>3, <3>1 DEF OneDisplay
      <4> QED BY <4>1
    <3> QED BY <1>2, <1>3, <1>9, <3>1 DEF OneDisplay, IsDisplay
  <2>2. AnsweredRight'
    BY <1>9 DEF AnsweredRight
  <2> QED BY <1>7, <1>8, <2>1, <2>2
<1>10. CASE \E ok \in BOOLEAN :
              /\ toUppm' = Append(toUppm, [cmd |-> msg.cmd, ok |-> ok])
              /\ ok /\ IsDisplay(msg) => lcd' = msg.args
  <2>1. PICK ok \in BOOLEAN :
              /\ toUppm' = Append(toUppm, [cmd |-> msg.cmd, ok |-> ok])
              /\ ok /\ IsDisplay(msg) => lcd' = msg.args
    BY <1>10
  <2> DEFINE answer == [cmd |-> msg.cmd, ok |-> ok]
  <2>2. /\ Len(toUppm) \in Nat /\ Len(toUppm') = Len(toUppm) + 1
        /\ toUppm'[Len(toUppm')] = answer
        /\ \A i \in 1 .. Len(toUppm) : toUppm'[i] = toUppm[i]
        /\ \A i \in 1 .. Len(toUppm') : i \in 1 .. Len(toUppm) \/ i = Len(toUppm')
    BY <2>1 DEF Typed
  <2>3. /\ IsDisplay(answer) <=> IsDisplay(msg)
        /\ answer.ok <=> ok
    BY DEF IsDisplay
  <2> HIDE DEF answer
  <2>4. OneDisplay'
    <3>1. ASSUME NEW i \in 1 .. Len(toPld'), NEW j \in 1 .. Len(toPld'),
                 IsDisplay(toPld'[i]), IsDisplay(toPld'[j])
          PROVE  i = j
      <4>1. i + 1 = j + 1
        BY <1>2, <1>3, <3>1 DEF OneDisplay
      <4> QED BY <4>1
    <3>2. ASSUME NEW i \in 1 .. Len(toUppm'), NEW j \in 1 .. Len(toUppm'),
                 IsDisplay(toUppm'[i]), IsDisplay(toUppm'[j])
          PROVE  i = j
      BY <1>2, <1>3, <2>2, <2>3, <3>2 DEF OneDisplay
    <3>3. ASSUME NEW i \in 1 .. Len(toPld'), NEW j \in 1 .. Len(toUppm'),
                 IsDisplay(toPld'[i]), IsDisplay(toUppm'[j])
          PROVE  FALSE
      <4>1. CASE j \in 1 .. Len(toUppm)
        BY <1>2, <1>3, <2>2, <3>3, <4>1 DEF OneDisplay
      <4>2. CASE j = Len(toUppm')
        <5>1. IsDisplay(toPld[1]) /\ IsDisplay(toPld[i + 1])
          BY <1>3, <2>2, <2>3, <3>3, <4>2
        <5>2. i + 1 = 1
          BY <1>2, <1>3, <5>1 DEF OneDisplay
        <5> QED BY <5>2
      <4> QED BY <2>2, <4>1, <4>2
    <3> QED BY <3>1, <3>2, <3>3 DEF OneDisplay, IsDisplay
  <2>5. AnsweredRight'
    <3> SUFFICES ASSUME plds' = "STARTED", payload' = "up", NEW i \in 1 .. Len(toUppm'),
                        IsDisplay(toUppm'[i]), toUppm'[i].ok
                 PROVE  /\ lcd' = Text(args)'
                        /\ \A j \in 1 .. Len(toPld') : ~Changes(toPld'[j])
      BY DEF AnsweredRight, IsDisplay, Changes
    <3>1. CASE i \in 1 .. Len(toUppm)
      <4>1. lcd = Text(args) /\ \A j \in 1 .. Len(toPld) : ~Changes(toPld[j])
        BY <1>1, <1>2, <2>2, <3>1 DEF AnsweredRight
      <4> QED BY <1>3, <1>4, <1>5, <4>1
    <3>2. CASE i = Len(toUppm')
      <4>1. IsDisplay(toPld[1]) /\ lcd' = toPld[1].args
        BY <1>3, <2>1, <2>2, <2>3, <3>2
      <4>2. toPld[1].args = Text(args) /\ \A j \in 1 + 1 .. Len(toPld) : ~Changes(toPld[j])
        BY <1>1, <1>2, <1>3, <4>1 DEF SentRight
      <4>3. \A j \in 1 .. Len(toPld') : j + 1 \in 1 + 1 .. Len(toPld)
        BY <1>3
      <4> QED BY <1>3, <1>4, <4>1, <4>2, <4>3
    <3> QED BY <2>2, <3>1, <3>2
  <2> QED BY <1>7, <1>8, <2>4, <2>5
<1> QED BY <1>6, <1>9, <1>10

LEMMA PictureInvNext == Typed /\ PictureInv /\ [Next]_vars => PictureInv'
<1> SUFFICES ASSUME Typed, PictureInv, [Next]_vars PROVE PictureInv'
  OBVIOUS
<1>0. /\ Shortened(toPld, toPld) /\ Shortened(toUppm, toUppm) /\ Shortened(toUppm, <<>>)
      /\ toPld # <<>> => Shortened(toPld, Tail(toPld))
      /\ toUppm # <<>> => Shortened(toUppm, Tail(toUppm))
  <2>1. toPld \in Seq(Command) /\ toUppm \in Seq(Answer)
    BY DEF Typed
  <2> QED BY <2>1, TailShortened
<1>1. ASSUME NEW size \in 1 .. Cells, Order(size) PROVE PictureInv'
  <2>1. UNCHANGED <<toPld, toUppm, lcd, raced>> /\ plds' = "OFF"
    BY <1>1 DEF Order, FsmInit, lines, flags
  <2>2. payload' = "up" => payload = "up"
    BY <1>1 DEF Order, SwitchOn
  <2> QED BY <1>0, <2>1, <2>2, PictureShortened
<1>2. ASSUME RunPing PROVE PictureInv'
  <2> DEFINE msg == [cmd |-> "com_ping", args |-> <<>>]
  <2>1. /\ toPld' = Append(toPld, msg) /\ toUppm' = toUppm
        /\ UNCHANGED <<payload, lcd, args, plds, raced>>
    BY <1>2 DEF RunPing, ToPayload, rpi, ghost, flags
  <2>2. msg \in Command /\ ~IsDisplay(msg) /\ ~Changes(msg) /\ msg.cmd # "cam_capture"
    BY DEF Command, Answered, IsDisplay, Changes
  <2> HIDE DEF msg
  <2> QED BY <1>0, <2>1, <2>2, PictureGrown
<1>3. ASSUME RunOff PROVE PictureInv'
  <2>1. UNCHANGED <<plds, args, toPld, toUppm, raced>>
    BY <1>3 DEF RunOff, lines, flags
  <2>2. payload' = "up" => payload = "up" /\ lcd' = lcd
    BY <1>3 DEF RunOff, Dark, rpi
  <2> QED BY <1>0, <2>1, <2>2, PictureShortened
<1>4. ASSUME Receive PROVE PictureInv'
  <2>1. /\ toUppm # <<>> /\ toUppm' = Tail(toUppm)
        /\ payload' = payload /\ lcd' = lcd /\ (raced => raced')
    BY <1>4 DEF Receive, rpi, Note
  <2>0. Shortened(toUppm, toUppm')
    BY <1>0, <2>1
  <2>2. CASE Ignore
    <3>1. Shortened(toPld, toPld') /\ plds' = plds /\ args' = args
      BY <1>0, <2>2 DEF Ignore
    <3> QED BY <2>0, <2>1, <3>1, PictureShortened
  <2>3. CASE Starts
    BY <1>4, <2>3, PictureStarted
  <2>4. CASE Ends
    <3>1. Shortened(toPld, toPld') /\ plds' # "STARTED"
      BY <1>0, <2>4 DEF Ends, ClearNode
    <3> QED BY <2>0, <2>1, <3>1, PictureShortened
  <2>5. CASE Captures
    <3> DEFINE msg == [cmd |-> "cam_capture", args |-> Text(args)]
    <3>1. /\ toPld' = Append(toPld, msg) /\ args' = args /\ plds' # "STARTED"
          /\ plds = "STARTED" /\ IsDisplay(Head(toUppm)) /\ Head(toUppm).ok
      BY <2>5 DEF Captures, ToPayload, IsDisplay
    <3>2. Text(args) \in Seq(Nat)
      BY ArgsTyped, TextFacts
    <3>3. msg \in Command /\ ~IsDisplay(msg) /\ msg.args = Text(args)
      BY <3>2 DEF Command, Answered, IsDisplay
    <3>4. Head(toUppm) = toUppm[1] /\ 1 \in 1 .. Len(toUppm)
      BY <2>1, TailFacts DEF Typed
    <3>5. payload = "up" /\ ~raced =>
            lcd = Text(args) /\ \A j \in 1 .. Len(toPld) : ~Changes(toPld[j])
      BY <3>1, <3>4 DEF PictureInv, AnsweredRight
    <3> HIDE DEF msg
    <3> QED BY <2>0, <2>1, <3>1, <3>3, <3>5, PictureGrown
  <2>6. CASE TurnsOff
    <3>1. CASE plds = "DISPLAYED" /\ plds' = "CAPTURED" /\ ToPayload("lcd_off", <<>>)
      <4> DEFINE msg == [cmd |-> "lcd_off", args |-> <<>>]
      <4>1. toPld' = Append(toPld, msg) /\ args' = args /\ plds' # "STARTED"
        BY <2>6, <3>1 DEF TurnsOff, ToPayload
      <4>2. msg \in Command /\ ~IsDisplay(msg) /\ msg.cmd # "cam_capture"
        BY DEF Command, Answered, IsDisplay
      <4> HIDE DEF msg
      <4> QED BY <2>0, <2>1, <4>1, <4>2, PictureGrown
    <3>2. CASE plds' = plds /\ ToPayload("cam_off", <<>>)
      <4> DEFINE msg == [cmd |-> "cam_off", args |-> <<>>]
      <4>1. toPld' = Append(toPld, msg) /\ args' = args /\ plds' = plds
        BY <2>6, <3>2 DEF TurnsOff, ToPayload
      <4>2. msg \in Command /\ ~IsDisplay(msg) /\ ~Changes(msg) /\ msg.cmd # "cam_capture"
        BY DEF Command, Answered, IsDisplay, Changes
      <4> HIDE DEF msg
      <4> QED BY <2>0, <2>1, <4>1, <4>2, PictureGrown
    <3> QED BY <2>6, <3>1, <3>2 DEF TurnsOff
  <2>7. CASE ShutsDown
    <3> DEFINE msg == [cmd |-> "rpi_shutdown", args |-> <<>>]
    <3>1. toPld' = Append(toPld, msg) /\ args' = args /\ plds' # "STARTED"
      BY <2>7 DEF ShutsDown, ToPayload
    <3>2. msg \in Command /\ ~IsDisplay(msg) /\ msg.cmd # "cam_capture"
      BY DEF Command, Answered, IsDisplay
    <3> HIDE DEF msg
    <3> QED BY <2>0, <2>1, <3>1, <3>2, PictureGrown
  <2> QED BY <1>4, <2>2, <2>3, <2>4, <2>5, <2>6, <2>7, ReceiveCases
<1>5. ASSUME Boot PROVE PictureInv'
  <2>1. Len(toPld') = 0 /\ Len(toUppm') = 0
    BY <1>5 DEF Boot, lines
  <2> QED BY <2>1 DEF PictureInv, OneDisplay, SentRight, AnsweredRight, PictureRight
<1>6. ASSUME Serve PROVE PictureInv'
  BY <1>6, PictureServed
<1>7. ASSUME Unheard PROVE PictureInv'
  BY <1>0, <1>7, PictureShortened DEF Unheard, uppm, rpi, ghost, flags
<1>8. ASSUME LoadSchedules PROVE PictureInv'
  BY <1>0, <1>8, PictureShortened DEF LoadSchedules, lines, rpi, ghost, flags
<1>9. ASSUME Lose PROVE PictureInv'
  BY <1>0, <1>9, PictureShortened DEF Lose, uppm, rpi
<1>10. ASSUME EpsRestart PROVE PictureInv'
  BY <1>0, <1>10, PictureShortened DEF EpsRestart, Dark, uppm, lines, flags
<1>11. ASSUME UppmReset PROVE PictureInv'
  BY <1>0, <1>11, PictureShortened DEF UppmReset, rpi
<1>12. ASSUME ClearBufs PROVE PictureInv'
  BY <1>0, <1>12, PictureShortened DEF ClearBufs, ClearNode, lines, rpi
<1>13. CASE UNCHANGED vars
  BY <1>0, <1>13, PictureShortened DEF vars, uppm, lines, rpi, ghost, flags
<1> QED BY <1>1, <1>2, <1>3, <1>4, <1>5, <1>6, <1>7, <1>8, <1>9, <1>10, <1>11, <1>12, <1>13
        DEF Next, Sequence, Payload

LEMMA PictureInvAlways == Spec => []PictureInv
<1>1. Init => PictureInv
  BY DEF Init, PictureInv, OneDisplay, SentRight, AnsweredRight, PictureRight
<1>2. ArgsInv => Typed
  BY DEF ArgsInv
<1> QED BY <1>1, <1>2, PictureInvNext, ArgsInvAlways, PTL DEF Spec

(* The payload is told to capture each order at most once, behind the      *)
(* display of that order, unless a frame was lost; and it shows that       *)
(* picture then, unless two displays were under way at once: however many  *)
(* orders, pings and answers overlap, and whatever restarts, fails, is     *)
(* lost or is cleared.  A display that fails may leave the old picture.    *)
THEOREM AlwaysCapturesDisplayed == Spec => CapturesDisplayed
<1>1. ArgsInv /\ CaptureInv /\ PictureInv /\ [Next]_vars =>
        [Serves("cam_capture") =>
           LET a == Head(toPld).args
           IN  /\ lost \/ (asked = a /\ (a # <<>> => a[1] \notin captured))
               /\ raced \/ lcd = a]_vars
  <2> SUFFICES ASSUME ArgsInv, CaptureInv, PictureInv, Serves("cam_capture")
               PROVE  LET a == Head(toPld).args
                      IN  /\ lost \/ (asked = a /\ (a # <<>> => a[1] \notin captured))
                          /\ raced \/ lcd = a
    OBVIOUS
  <2>1. toPld # <<>> /\ payload = "up" /\ Head(toPld).cmd = "cam_capture"
    BY DEF Serves, Serve
  <2>2. Head(toPld) = toPld[1] /\ 1 \in 1 .. Len(toPld)
    BY <2>1, TailFacts DEF ArgsInv, Typed
  <2>3. ASSUME ~lost
        PROVE  asked = toPld[1].args /\ (toPld[1].args # <<>> => toPld[1].args[1] \notin captured)
    <3>1. Reached(1)
      BY <2>1, <2>3 DEF Reached
    <3>2. ShownBy(1, toPld[1].args) /\ (toPld[1].args # <<>> => Fresh(1, toPld[1].args[1]))
      BY <2>1, <2>2, <3>1 DEF CaptureInv, CapturesRight
    <3> QED BY <3>2 DEF ShownBy, Fresh
  <2>4. ASSUME ~raced PROVE lcd = toPld[1].args
    BY <2>1, <2>2, <2>4 DEF PictureInv, PictureRight
  <2> QED BY <2>2, <2>3, <2>4
<1> QED BY <1>1, ArgsInvAlways, CaptureInvAlways, PictureInvAlways, PTL DEF Spec, CapturesDisplayed
=============================================================================
