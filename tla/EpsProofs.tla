------------------------------ MODULE EpsProofs -----------------------------
(***************************************************************************)
(* Proofs about the link between UPPM and EPS, and about the EPS board.    *)
(*                                                                         *)
(* EpsLink, for frames and buffers of any size and any number of commands  *)
(* and restarts: the UPPM takes answers in order, and the link implements  *)
(* the mailbox of EpsMailbox.  A frame is told by its last cell, which is  *)
(* written and read once: the last cells on their way, from the UPPM       *)
(* through i2cbufs[1] to the parser of the EPS, and from i2c_frame through *)
(* rxbufs[0] to the parser of the UPPM, are always in the order of the     *)
(* commands.                                                               *)
(*                                                                         *)
(* EpsBoard, for every number of outputs, every length of a timed switch,  *)
(* any restart period and any width of the counters that                   *)
(* EpsBoardAssumption admits, and any number of commands.                  *)
(***************************************************************************)
EXTENDS EpsLink, EpsBoard, TLAPS

-----------------------------------------------------------------------------
(* The link                                                                *)

Cell == Nat \X Nat

LinkTyped ==
  /\ mpc \in {"loop", "parse", "write", "delay", "read"}
  /\ epc \in {"idle", "parse", "run", "clear", "zero", "fill"}
  /\ sent \in Nat /\ latest \in 0 .. sent
  /\ pos \in 0 .. Cells /\ i \in 1 .. Cells /\ n_bytes \in Nat
  /\ rx \in Seq(Cell) /\ inbuf \in Seq(Cell) /\ res \in Seq(Cell)
  /\ taken \in Seq(Nat) /\ read \in Seq(Nat)
  /\ i2c_frame \in [1 .. Cells -> Cell]

(* The last cells in a buffer are in order, above or below a command.      *)
Rising(q) ==
  \A j, k \in DOMAIN q :
    j < k /\ q[j][2] = Cells /\ q[k][2] = Cells => q[j][1] < q[k][1]
Above(n, q) == \A j \in DOMAIN q : q[j][2] = Cells => n < q[j][1]
Below(q, n) == \A j \in DOMAIN q : q[j][2] = Cells => q[j][1] < n

(* Neither the parser of the UPPM nor its buffer has got that far.         *)
Newer(n) == (\A j \in DOMAIN taken : taken[j] < n) /\ Below(rx, n)

(* A place of i2c_frame, or of what is read from it.                       *)
InPlace(x, c) == x = Zero \/ (x[2] = c /\ x[1] \in 1 .. latest)

CommandsInOrder ==
  /\ Rising(inbuf) /\ Above(latest, inbuf) /\ Below(inbuf, sent + 1)
  /\ epc = "run" =>
       /\ ein \in Cell /\ ein[2] = Cells /\ ein[1] \in latest + 1 .. sent
       /\ Above(ein[1], inbuf)
  /\ mpc = "write" =>
       /\ pos < Cells /\ latest < sent /\ Below(inbuf, sent)
       /\ epc = "run" => ein[1] < sent

AnswersInOrder ==
  /\ TakenInOrder
  /\ \A j \in DOMAIN taken : Above(taken[j], rx)
  /\ Rising(rx)
  /\ Newer(latest + 1)
  /\ i2c_frame[Cells] = Zero \/ Newer(i2c_frame[Cells][1])

BeingRead == mpc = "read" => pos < Cells /\ Len(res) = pos

AllInPlace ==
  /\ \A c \in 1 .. Cells : InPlace(i2c_frame[c], c)
  /\ mpc = "read" => \A c \in 1 .. pos : InPlace(res[c], c)

BeingAnswered ==
  /\ epc \in {"clear", "zero", "fill"} =>
       /\ latest # 0 /\ ein = <<latest, Cells>> /\ Newer(latest)
       /\ i2c_frame[Cells] = Zero \/ i2c_frame[Cells][1] < latest
  /\ epc = "zero" => \A c \in 1 .. i - 1 : i2c_frame[c] = Zero
  /\ epc = "fill" => \A c \in i .. Cells : i2c_frame[c] = Zero

IInv ==
  /\ LinkTyped /\ CommandsInOrder /\ AnswersInOrder
  /\ BeingRead /\ AllInPlace /\ BeingAnswered

-----------------------------------------------------------------------------
(* Buffers.                                                                *)

LEMMA CellFacts ==
  ASSUME NEW x \in Cell
  PROVE  x[1] \in Nat /\ x[2] \in Nat
BY DEF Cell

LEMMA TailFacts ==
  ASSUME NEW q \in Seq(Cell), q # <<>>
  PROVE  /\ Head(q) = q[1] /\ 1 \in DOMAIN q /\ Tail(q) \in Seq(Cell)
         /\ \A j \in DOMAIN Tail(q) : j + 1 \in DOMAIN q /\ Tail(q)[j] = q[j + 1]
OBVIOUS

LEMMA TailKeeps ==
  ASSUME NEW q \in Seq(Cell), q # <<>>
  PROVE  /\ Rising(q) => Rising(Tail(q))
         /\ \A n \in Nat : /\ Above(n, q) => Above(n, Tail(q))
                           /\ Below(q, n) => Below(Tail(q), n)
BY TailFacts DEF Rising, Above, Below

(* What follows the last cell at the head is above it.                     *)
LEMMA HeadBelowTail ==
  ASSUME NEW q \in Seq(Cell), q # <<>>, Rising(q), Head(q)[2] = Cells
  PROVE  Above(Head(q)[1], Tail(q))
BY TailFacts DEF Rising, Above

LEMMA AppendFacts ==
  ASSUME NEW q \in Seq(Cell), NEW x \in Cell
  PROVE  /\ Append(q, x) \in Seq(Cell)
         /\ DOMAIN q = 1 .. Len(q) /\ DOMAIN Append(q, x) = 1 .. Len(q) + 1
         /\ \A j \in DOMAIN q : Append(q, x)[j] = q[j]
         /\ Append(q, x)[Len(q) + 1] = x
OBVIOUS

LEMMA AppendKeeps ==
  ASSUME NEW q \in Seq(Cell), NEW x \in Cell
  PROVE  /\ Rising(q) /\ (x[2] = Cells => Below(q, x[1])) => Rising(Append(q, x))
         /\ \A n \in Nat :
              /\ Above(n, q) /\ (x[2] = Cells => n < x[1]) => Above(n, Append(q, x))
              /\ Below(q, n) /\ (x[2] = Cells => x[1] < n) => Below(Append(q, x), n)
BY AppendFacts DEF Rising, Above, Below

LEMMA EmptyKeeps ==
  Rising(<<>>) /\ \A n \in Nat : Above(n, <<>>) /\ Below(<<>>, n)
BY DEF Rising, Above, Below

(* What is pushed after a read: no cell but the last one of the read has   *)
(* the place of a last cell.                                               *)
LEMMA RxAfterFacts ==
  ASSUME LinkTyped, NEW cells \in Seq(Cell), Len(cells) = Cells
  PROVE  /\ RxAfter(cells) \in Seq(Cell)
         /\ \A j \in DOMAIN RxAfter(cells) :
              \/ j \in DOMAIN rx /\ RxAfter(cells)[j] = rx[j]
              \/ /\ j > Len(rx) /\ j - Len(rx) \in 1 .. Cells
                 /\ RxAfter(cells)[j] = cells[j - Len(rx)]
<1> DEFINE all == rx \o cells
<1>1. all \in Seq(Cell) /\ Len(all) = Len(rx) + Cells
  BY DEF LinkTyped
<1>2. \A j \in 1 .. Len(all) :
        \/ j \in DOMAIN rx /\ all[j] = rx[j]
        \/ j > Len(rx) /\ j - Len(rx) \in 1 .. Cells /\ all[j] = cells[j - Len(rx)]
  BY EpsLinkAssumption DEF LinkTyped
<1>3. CASE RxRoom
  BY <1>1, <1>2, <1>3 DEF RxAfter
<1>4. CASE ~RxRoom
  <2>1. RxSize < Len(all) /\ RxSize \in Nat
    BY <1>1, <1>4, EpsLinkAssumption DEF RxRoom, LinkTyped
  <2> HIDE DEF all
  <2>2. SubSeq(all, 1, RxSize) \in Seq(Cell) /\ Len(SubSeq(all, 1, RxSize)) = RxSize
    BY <1>1, <2>1
  <2>3. \A j \in 1 .. RxSize : SubSeq(all, 1, RxSize)[j] = all[j]
    BY <1>1, <2>1
  <2> QED BY <1>1, <1>2, <1>4, <2>1, <2>2, <2>3 DEF RxAfter, all
<1> QED BY <1>3, <1>4

LEMMA ParsedFacts ==
  ASSUME NEW held, NEW c \in Cell, Complete(Parsed(held, c))
  PROVE  Parsed(held, c) = c /\ c[2] = Cells
BY DEF Complete, Parsed

-----------------------------------------------------------------------------
LEMMA InitInv == Init => IInv
<1> SUFFICES ASSUME Init PROVE IInv
  OBVIOUS
<1>1. LinkTyped
  BY EpsLinkAssumption DEF Init, LinkTyped, Cell, Blank, Zero
<1>2. CommandsInOrder
  BY EmptyKeeps DEF Init, CommandsInOrder
<1>3. AnswersInOrder
  BY EmptyKeeps, EpsLinkAssumption DEF Init, AnswersInOrder, TakenInOrder, Newer, Blank, Above
<1>4. BeingRead /\ AllInPlace /\ BeingAnswered
  BY DEF Init, BeingRead, AllInPlace, BeingAnswered, InPlace, Blank
<1> QED BY <1>1, <1>2, <1>3, <1>4 DEF IInv

-----------------------------------------------------------------------------
(* The steps of the UPPM.                                                  *)

LEMMA SendKeeps ==
  ASSUME IInv, Send
  PROVE  IInv'
<1> USE DEF Send, eps
<1>1. LinkTyped'
  BY EpsLinkAssumption DEF IInv, LinkTyped
<1>2. CommandsInOrder'
  <2>1. /\ Rising(inbuf') /\ Above(latest', inbuf')
        /\ Below(inbuf', sent') /\ Below(inbuf', sent' + 1)
    BY DEF IInv, LinkTyped, CommandsInOrder, Below, Cell
  <2>2. epc' = "run" =>
          /\ ein' \in Cell /\ ein'[2] = Cells /\ ein'[1] \in latest' + 1 .. sent
          /\ Above(ein'[1], inbuf')
    BY DEF IInv, CommandsInOrder
  <2>3. sent' = sent + 1 /\ sent \in Nat /\ latest \in 0 .. sent /\ pos' = 0
    BY DEF IInv, LinkTyped
  <2> QED BY <2>1, <2>2, <2>3, EpsLinkAssumption DEF CommandsInOrder
<1>3. AnswersInOrder'
  BY DEF IInv, AnswersInOrder, TakenInOrder, Newer
<1>4. BeingRead' /\ AllInPlace' /\ BeingAnswered'
  BY DEF IInv, BeingRead, AllInPlace, BeingAnswered, InPlace, Newer
<1> QED BY <1>1, <1>2, <1>3, <1>4 DEF IInv

LEMMA WriteKeeps ==
  ASSUME IInv, Write
  PROVE  IInv'
<1> USE DEF Write, ghost
<1> DEFINE x == <<sent, pos'>>
<1>0. /\ x \in Cell /\ x[1] = sent /\ x[2] = pos' /\ pos' = pos + 1 /\ pos' \in 1 .. Cells
      /\ inbuf \in Seq(Cell) /\ latest < sent /\ Below(inbuf, sent)
  <2>1. LinkTyped /\ CommandsInOrder
    BY DEF IInv
  <2>2. pos' = pos + 1 /\ pos' \in 1 .. Cells /\ sent \in Nat
    <3>1. pos < Cells /\ pos \in 0 .. Cells /\ sent \in Nat
      BY <2>1 DEF LinkTyped, CommandsInOrder
    <3> QED BY <3>1, EpsLinkAssumption
  <2>3. x \in Cell /\ x[1] = sent /\ x[2] = pos'
    BY <2>2 DEF Cell
  <2>4. inbuf \in Seq(Cell) /\ latest < sent /\ Below(inbuf, sent)
    BY <2>1 DEF LinkTyped, CommandsInOrder
  <2> QED BY <2>2, <2>3, <2>4
<1>1. inbuf' = inbuf \/ inbuf' = Append(inbuf, x)
  BY DEF Pushed
<1> HIDE DEF x
<1>2. LinkTyped'
  <2>1. inbuf' \in Seq(Cell)
    BY <1>0, <1>1
  <2> QED BY <1>0, <2>1 DEF IInv, LinkTyped
<1>3. CommandsInOrder'
  <2>0. /\ mpc = "write" /\ Rising(inbuf) /\ Above(latest, inbuf)
        /\ Below(inbuf, sent + 1)
        /\ sent \in Nat /\ sent + 1 \in Nat /\ latest \in Nat
        /\ epc = "run" => ein[1] \in Nat /\ ein[1] < sent /\ Above(ein[1], inbuf)
    BY DEF IInv, LinkTyped, CommandsInOrder
  <2>1. Rising(inbuf')
    <3>1. Rising(Append(inbuf, x))
      BY <1>0, <2>0, AppendKeeps
    <3> QED BY <1>1, <2>0, <3>1
  <2>2. Above(latest, inbuf') /\ Below(inbuf', sent + 1)
    <3>1. Above(latest, Append(inbuf, x)) /\ Below(Append(inbuf, x), sent + 1)
      BY <1>0, <2>0, AppendKeeps
    <3> QED BY <1>1, <2>0, <3>1
  <2>3. mpc' = "write" => pos' < Cells /\ Below(inbuf', sent)
    <3> SUFFICES ASSUME mpc' = "write" PROVE pos' < Cells /\ Below(inbuf', sent)
      OBVIOUS
    <3>1. pos' # Cells /\ pos' < Cells
      BY <1>0, EpsLinkAssumption
    <3>2. Below(Append(inbuf, x), sent)
      BY <1>0, <2>0, <3>1, AppendKeeps
    <3> QED BY <1>0, <1>1, <3>1, <3>2
  <2>4. epc = "run" => ein[1] < sent /\ Above(ein[1], inbuf')
    <3> SUFFICES ASSUME epc = "run" PROVE ein[1] < sent /\ Above(ein[1], inbuf')
      OBVIOUS
    <3>1. Above(ein[1], Append(inbuf, x))
      BY <1>0, <2>0, AppendKeeps
    <3> QED BY <1>1, <2>0, <3>1
  <2> QED BY <1>0, <2>1, <2>2, <2>3, <2>4 DEF IInv, CommandsInOrder
<1>4. AnswersInOrder'
  BY DEF IInv, AnswersInOrder, TakenInOrder, Newer
<1>5. BeingRead' /\ AllInPlace' /\ BeingAnswered'
  BY DEF IInv, BeingRead, AllInPlace, BeingAnswered, InPlace, Newer
<1> QED BY <1>2, <1>3, <1>4, <1>5 DEF IInv

LEMMA StartReadKeeps ==
  ASSUME IInv, StartRead
  PROVE  IInv'
<1> USE DEF StartRead, eps, ghost
<1>1. LinkTyped'
  BY EpsLinkAssumption DEF IInv, LinkTyped
<1>2. CommandsInOrder'
  BY DEF IInv, CommandsInOrder
<1>3. AnswersInOrder'
  BY DEF IInv, AnswersInOrder, TakenInOrder, Newer
<1>4. BeingRead'
  BY EpsLinkAssumption DEF BeingRead
<1>5. AllInPlace' /\ BeingAnswered'
  BY DEF IInv, AllInPlace, BeingAnswered, InPlace, Newer
<1> QED BY <1>1, <1>2, <1>3, <1>4, <1>5 DEF IInv

(* The cells of a read that has come to its last one.                      *)
LEMMA LastCellFacts ==
  ASSUME IInv, ReadCell, pos' = Cells
  PROVE  LET cells == Append(res, i2c_frame[pos'])
         IN  /\ cells \in Seq(Cell) /\ Len(cells) = Cells
             /\ \A c \in 1 .. Cells - 1 : cells[c] = res[c] /\ cells[c][2] # Cells
             /\ cells[Cells] = i2c_frame[Cells]
<1>1. /\ mpc = "read" /\ Len(res) = pos /\ pos = Cells - 1 /\ res \in Seq(Cell)
      /\ i2c_frame[Cells] \in Cell /\ Cells \in Nat /\ Cells >= 2
  BY EpsLinkAssumption DEF IInv, LinkTyped, BeingRead, ReadCell
<1>2. \A c \in 1 .. Cells - 1 : InPlace(res[c], c)
  BY <1>1 DEF IInv, AllInPlace
<1>3. \A c \in 1 .. Cells - 1 : res[c][2] # Cells
  BY <1>1, <1>2 DEF InPlace, Zero
<1> QED BY <1>1, <1>3

(* Both parts of a read: a cell in the middle, and the last one.           *)
LEMMA ReadCellZeroes ==
  ASSUME IInv, ReadCell
  PROVE  /\ pos' = pos + 1 /\ pos' \in 1 .. Cells
         /\ \A c \in 1 .. Cells : i2c_frame'[c] = IF c = pos' THEN Zero ELSE i2c_frame[c]
         /\ i2c_frame' \in [1 .. Cells -> Cell]
<1>1. pos' = pos + 1 /\ pos' \in 1 .. Cells /\ i2c_frame \in [1 .. Cells -> Cell]
  BY EpsLinkAssumption DEF IInv, LinkTyped, BeingRead, ReadCell
<1>2. i2c_frame' = [i2c_frame EXCEPT ![pos'] = Zero]
  BY DEF ReadCell, Zeroed
<1>3. Zero \in Cell
  BY DEF Zero, Cell
<1> QED BY <1>1, <1>2, <1>3

LEMMA ReadMiddleKeeps ==
  ASSUME IInv, ReadCell, pos' # Cells
  PROVE  IInv'
<1>0. /\ mpc = "read" /\ pos' < Cells /\ res' = Append(res, i2c_frame[pos'])
      /\ Len(res) = pos /\ UNCHANGED <<mpc, rx, read, sure>>
  BY ReadCellZeroes, EpsLinkAssumption DEF IInv, BeingRead, ReadCell
<1>1. UNCHANGED <<sent, acc, taken, inbuf, n_bytes, ein, epc, i, latest>>
  BY DEF ReadCell
<1>2. /\ res' \in Seq(Cell) /\ Len(res') = pos'
      /\ \A c \in 1 .. pos : res'[c] = res[c]
      /\ res'[pos'] = i2c_frame[pos']
  BY <1>0, ReadCellZeroes DEF IInv, LinkTyped
<1>3. LinkTyped'
  BY <1>0, <1>1, <1>2, ReadCellZeroes DEF IInv, LinkTyped
<1>4. CommandsInOrder'
  BY <1>0, <1>1 DEF IInv, CommandsInOrder
<1>5. i2c_frame'[Cells] = i2c_frame[Cells]
  BY <1>0, ReadCellZeroes, EpsLinkAssumption
<1>6. AnswersInOrder'
  BY <1>0, <1>1, <1>5 DEF IInv, AnswersInOrder, TakenInOrder, Newer
<1>7. BeingRead'
  BY <1>0, <1>2 DEF BeingRead
<1>8. AllInPlace'
  <2>1. \A c \in 1 .. Cells : InPlace(i2c_frame'[c], c)
    BY ReadCellZeroes DEF IInv, AllInPlace, InPlace
  <2>2. \A c \in 1 .. pos' : InPlace(res'[c], c)
    <3> TAKE c \in 1 .. pos'
    <3>1. CASE c = pos'
      BY <3>1, <1>2, ReadCellZeroes DEF IInv, AllInPlace
    <3>2. CASE c # pos'
      <4>1. c \in 1 .. pos
        BY <3>2, ReadCellZeroes DEF IInv, LinkTyped
      <4> QED BY <4>1, <1>0, <1>2 DEF IInv, AllInPlace
    <3> QED BY <3>1, <3>2
  <2> QED BY <1>1, <2>1, <2>2 DEF AllInPlace, InPlace
<1>9. BeingAnswered'
  <2>1. \A c \in 1 .. Cells : i2c_frame[c] = Zero => i2c_frame'[c] = Zero
    BY ReadCellZeroes
  <2>2. i \in 1 .. Cells /\ Cells \in Nat
    BY EpsLinkAssumption DEF IInv, LinkTyped
  <2> QED BY <1>0, <1>1, <1>5, <2>1, <2>2 DEF IInv, BeingAnswered, Newer
<1> QED BY <1>3, <1>4, <1>6, <1>7, <1>8, <1>9 DEF IInv

LEMMA ReadLastKeeps ==
  ASSUME IInv, ReadCell, pos' = Cells
  PROVE  IInv'
<1> DEFINE cells == Append(res, i2c_frame[pos'])
           last == i2c_frame[Cells]
<1>0. /\ mpc' = "loop" /\ res' = <<>> /\ rx' = RxAfter(cells)
      /\ read' = IF IsWhole(cells) THEN Append(read, cells[1][1]) ELSE read
      /\ UNCHANGED <<sent, acc, taken, inbuf, n_bytes, ein, epc, i, latest>>
  BY EpsLinkAssumption DEF ReadCell
<1>1. /\ cells \in Seq(Cell) /\ Len(cells) = Cells /\ cells[Cells] = last
      /\ \A c \in 1 .. Cells - 1 : cells[c][2] # Cells
  BY LastCellFacts
<1>2. /\ last \in Cell /\ Cells \in Nat /\ Cells >= 2 /\ latest \in Nat
      /\ last[2] = Cells => last[1] \in 1 .. latest /\ Newer(last[1])
  <2>1. last = Zero \/ (last[1] \in 1 .. latest /\ Newer(last[1]))
    BY EpsLinkAssumption DEF IInv, AllInPlace, InPlace, AnswersInOrder
  <2> QED BY <2>1, EpsLinkAssumption DEF IInv, LinkTyped, Zero
<1> HIDE DEF cells, last
<1>3. /\ rx' \in Seq(Cell) /\ rx \in Seq(Cell)
      /\ \A j \in DOMAIN rx' :
           \/ j \in DOMAIN rx /\ rx'[j] = rx[j]
           \/ rx'[j][2] = Cells => j = Len(rx) + Cells /\ rx'[j] = last
  <2>1. rx \in Seq(Cell)
    BY DEF IInv, LinkTyped
  <2>2. /\ rx' \in Seq(Cell)
        /\ \A j \in DOMAIN rx' :
             \/ j \in DOMAIN rx /\ rx'[j] = rx[j]
             \/ /\ j > Len(rx) /\ j - Len(rx) \in 1 .. Cells
                /\ rx'[j] = cells[j - Len(rx)]
    BY <1>0, <1>1, RxAfterFacts DEF IInv
  <2>3. ASSUME NEW j \in DOMAIN rx', j > Len(rx), j - Len(rx) \in 1 .. Cells,
               rx'[j] = cells[j - Len(rx)], rx'[j][2] = Cells
        PROVE  j = Len(rx) + Cells /\ rx'[j] = last
    <3>1. j - Len(rx) \notin 1 .. Cells - 1
      BY <2>3, <1>1
    <3>2. j \in Nat /\ Len(rx) \in Nat
      BY <2>1, <2>2
    <3> QED BY <2>3, <3>1, <3>2, <1>1, <1>2
  <2>4. \A j \in DOMAIN rx' :
          \/ j \in DOMAIN rx /\ rx'[j] = rx[j]
          \/ rx'[j][2] = Cells => j = Len(rx) + Cells /\ rx'[j] = last
    BY <2>2, <2>3
  <2> QED BY <2>1, <2>2, <2>4
<1>4. LinkTyped'
  <2>1. read' \in Seq(Nat)
    <3>1. cells[1] \in Cell
      BY <1>1, <1>2
    <3> QED BY <1>0, <3>1 DEF IInv, LinkTyped, Cell
  <2> QED BY <1>0, <1>3, <2>1, ReadCellZeroes DEF IInv, LinkTyped
<1>5. CommandsInOrder'
  BY <1>0 DEF IInv, CommandsInOrder
<1>6. \A j \in DOMAIN rx' : rx'[j][2] = Cells =>
        \/ j \in DOMAIN rx /\ rx'[j] = rx[j]
        \/ j = Len(rx) + Cells /\ rx'[j] = last /\ last[2] = Cells
  BY <1>3
<1>7. AnswersInOrder'
  <2>1. TakenInOrder'
    BY <1>0 DEF IInv, AnswersInOrder, TakenInOrder
  <2>2. \A j \in DOMAIN taken : Above(taken[j], rx')
    BY <1>2, <1>6 DEF IInv, AnswersInOrder, Above, Newer
  <2>3. Rising(rx')
    <3> SUFFICES ASSUME NEW j \in DOMAIN rx', NEW k \in DOMAIN rx', j < k,
                        rx'[j][2] = Cells, rx'[k][2] = Cells
                 PROVE  rx'[j][1] < rx'[k][1]
      BY DEF Rising
    <3>1. CASE j \in DOMAIN rx /\ rx'[j] = rx[j] /\ k \in DOMAIN rx /\ rx'[k] = rx[k]
      BY <3>1 DEF IInv, AnswersInOrder, Rising
    <3>2. CASE j \in DOMAIN rx /\ rx'[j] = rx[j] /\ rx'[k] = last /\ last[2] = Cells
      BY <3>2, <1>2 DEF Newer, Below
    <3>3. CASE j = Len(rx) + Cells /\ k \in DOMAIN rx
      <4>1. k \in 1 .. Len(rx) /\ Len(rx) \in Nat
        BY <3>3, <1>3
      <4>2. ~(j < k)
        BY <3>3, <4>1, EpsLinkAssumption
      <4> QED BY <4>2
    <3>4. CASE j = Len(rx) + Cells /\ k = Len(rx) + Cells
      BY <3>4, <1>3, EpsLinkAssumption
    <3> QED BY <1>6, <3>1, <3>2, <3>3, <3>4
  <2>4. Newer(latest + 1)'
    BY <1>0, <1>2, <1>6 DEF IInv, AnswersInOrder, Newer, Below
  <2>5. i2c_frame'[Cells] = Zero
    BY ReadCellZeroes
  <2> QED BY <1>0, <2>1, <2>2, <2>3, <2>4, <2>5 DEF AnswersInOrder
<1>8. BeingRead' /\ AllInPlace'
  BY <1>0, ReadCellZeroes DEF BeingRead, IInv, AllInPlace, InPlace
<1>9. BeingAnswered'
  <2>1. epc \in {"clear", "zero", "fill"} => Newer(latest)'
    <3> SUFFICES ASSUME epc \in {"clear", "zero", "fill"} PROVE Newer(latest)'
      OBVIOUS
    <3>1. Newer(latest) /\ (last = Zero \/ last[1] < latest)
      BY DEF IInv, BeingAnswered, last
    <3> QED BY <1>0, <1>2, <1>6, <3>1 DEF Newer, Below, Zero
  <2> QED BY <1>0, <2>1, ReadCellZeroes DEF IInv, LinkTyped, BeingAnswered
<1> QED BY <1>4, <1>5, <1>7, <1>8, <1>9 DEF IInv

LEMMA ParseRxKeeps ==
  ASSUME IInv, ParseRx
  PROVE  IInv'
<1> USE DEF eps, ghost
<1>0. /\ rx \in Seq(Cell) /\ rx # <<>> /\ Head(rx) \in Cell /\ rx' = Tail(rx)
      /\ rx' \in Seq(Cell) /\ latest \in Nat /\ mpc' \in {"loop", "parse"}
      /\ UNCHANGED <<sent, pos, res, eps, ghost>> /\ taken \in Seq(Nat)
  BY TailFacts DEF IInv, LinkTyped, ParseRx
<1> DEFINE n == Head(rx)[1]
<1>1. \/ taken' = taken
      \/ taken' = Append(taken, n) /\ Head(rx)[2] = Cells
  BY <1>0, ParsedFacts DEF ParseRx
<1>n. n \in Nat
  BY <1>0, CellFacts
<1>h. /\ Head(rx)[2] = Cells => Above(n, rx')
      /\ \A m \in Nat : Below(rx, m) /\ Head(rx)[2] = Cells => n < m
      /\ \A m \in Nat : Above(m, rx) /\ Head(rx)[2] = Cells => m < n
  BY <1>0, TailFacts, HeadBelowTail DEF IInv, AnswersInOrder, Below, Above
<1> HIDE DEF n
<1>a. /\ Append(taken, n) \in Seq(Nat)
      /\ DOMAIN taken = 1 .. Len(taken) /\ Len(taken) \in Nat
      /\ DOMAIN Append(taken, n) = 1 .. Len(taken) + 1
      /\ \A j \in DOMAIN taken : Append(taken, n)[j] = taken[j]
      /\ Append(taken, n)[Len(taken) + 1] = n
  <2>1. taken \in Seq(Nat)
    BY <1>0
  <2> QED BY <2>1, <1>n
<1>2. taken' \in Seq(Nat)
  BY <1>0, <1>1, <1>a
<1>3. LinkTyped' /\ CommandsInOrder' /\ BeingRead' /\ AllInPlace'
  BY <1>0, <1>2 DEF IInv, LinkTyped, CommandsInOrder, BeingRead, AllInPlace, InPlace
<1>4. \A m \in Nat : Newer(m) => Newer(m)'
  <2> SUFFICES ASSUME NEW m \in Nat, Newer(m)
               PROVE  (\A j \in DOMAIN taken' : taken'[j] < m) /\ Below(rx', m)
    BY DEF Newer
  <2>1. Below(rx', m)
    BY <1>0, TailKeeps DEF Newer
  <2>2. Head(rx)[2] = Cells => n < m
    BY <1>h DEF Newer
  <2>3. \A j \in DOMAIN taken : taken[j] < m
    BY DEF Newer
  <2>4. \A j \in DOMAIN taken' : taken'[j] < m
    <3>1. CASE taken' = taken
      BY <3>1, <2>3
    <3>2. CASE taken' = Append(taken, n) /\ Head(rx)[2] = Cells
      BY <3>2, <1>a, <2>2, <2>3
    <3> QED BY <1>1, <3>1, <3>2
  <2> QED BY <2>1, <2>4
<1>5. AnswersInOrder'
  <2>1. \A j \in DOMAIN taken :
          taken[j] \in Nat /\ Above(taken[j], rx') /\ (Head(rx)[2] = Cells => taken[j] < n)
    BY <1>0, <1>h, TailKeeps DEF IInv, AnswersInOrder
  <2>2. Rising(rx')
    BY <1>0, TailKeeps DEF IInv, AnswersInOrder
  <2>3. /\ Newer(latest + 1)'
        /\ i2c_frame'[Cells] = Zero \/ Newer(i2c_frame[Cells][1])'
    <3>1. i2c_frame[Cells] \in Cell /\ latest + 1 \in Nat
      BY <1>0, EpsLinkAssumption DEF IInv, LinkTyped
    <3>2. i2c_frame[Cells][1] \in Nat
      BY <3>1, CellFacts
    <3> QED BY <1>0, <1>4, <3>1, <3>2 DEF IInv, AnswersInOrder, Newer
  <2>4. TakenInOrder' /\ \A j \in DOMAIN taken' : Above(taken'[j], rx')
    <3>1. CASE taken' = taken
      BY <2>1, <3>1 DEF IInv, AnswersInOrder, TakenInOrder
    <3>2. CASE taken' = Append(taken, n) /\ Head(rx)[2] = Cells
      <4>1. /\ DOMAIN taken = 1 .. Len(taken) /\ DOMAIN taken' = 1 .. Len(taken) + 1
            /\ Len(taken) \in Nat /\ taken'[Len(taken) + 1] = n
            /\ \A j \in DOMAIN taken : taken'[j] = taken[j]
        BY <3>2, <1>a
      <4>2. TakenInOrder'
        BY <2>1, <3>2, <4>1 DEF IInv, AnswersInOrder, TakenInOrder
      <4>3. \A j \in DOMAIN taken' : Above(taken'[j], rx')
        BY <2>1, <3>2, <4>1, <1>h
      <4> QED BY <4>2, <4>3
    <3> QED BY <1>1, <3>1, <3>2
  <2> QED BY <1>0, <2>2, <2>3, <2>4 DEF AnswersInOrder, Newer
<1>6. BeingAnswered'
  BY <1>0, <1>4 DEF IInv, BeingAnswered, Newer
<1> QED BY <1>3, <1>5, <1>6 DEF IInv

LEMMA UppmRestartKeeps ==
  ASSUME IInv, UppmRestart
  PROVE  IInv'
<1> USE DEF UppmRestart, eps
<1>1. LinkTyped' /\ CommandsInOrder' /\ BeingRead' /\ AllInPlace'
  BY DEF IInv, LinkTyped, CommandsInOrder, BeingRead, AllInPlace, InPlace
<1>2. \A n \in Nat : Newer(n) => Newer(n)'
  BY EmptyKeeps DEF Newer
<1>3. AnswersInOrder'
  <2>1. Rising(rx') /\ \A j \in DOMAIN taken : Above(taken[j], rx')
    BY DEF Rising, Above
  <2>2. latest + 1 \in Nat /\ i2c_frame[Cells][1] \in Nat
    <3>1. i2c_frame[Cells] \in Cell
      BY EpsLinkAssumption DEF IInv, LinkTyped
    <3> QED BY <3>1, CellFacts DEF IInv, LinkTyped
  <2> QED BY <1>2, <2>1, <2>2 DEF IInv, AnswersInOrder, TakenInOrder, Newer
<1>4. BeingAnswered'
  BY <1>2 DEF IInv, LinkTyped, BeingAnswered, Newer
<1> QED BY <1>1, <1>3, <1>4 DEF IInv

-----------------------------------------------------------------------------
(* The steps of the EPS.                                                   *)

LEMMA StartParseKeeps ==
  ASSUME IInv, StartParse
  PROVE  IInv'
<1> USE DEF StartParse, uppm, ghost
<1>1. LinkTyped' /\ CommandsInOrder' /\ BeingRead' /\ AllInPlace'
  BY DEF IInv, LinkTyped, CommandsInOrder, BeingRead, AllInPlace, InPlace
<1>2. AnswersInOrder' /\ BeingAnswered'
  BY DEF IInv, AnswersInOrder, TakenInOrder, Newer, BeingAnswered
<1> QED BY <1>1, <1>2 DEF IInv

LEMMA PopKeeps ==
  ASSUME IInv, Pop
  PROVE  IInv'
<1> USE DEF uppm, ghost
<1> DEFINE x == Head(inbuf)
<1>0. /\ epc = "parse" /\ epc' \in {"idle", "parse", "run"}
      /\ UNCHANGED <<uppm, i, i2c_frame, ghost>>
  BY DEF Pop
<1>1. \/ inbuf' = inbuf /\ epc' # "run"
      \/ /\ inbuf # <<>> /\ inbuf' = Tail(inbuf)
         /\ epc' = "run" => ein' = x /\ x[2] = Cells
  <2>1. inbuf # <<>> => x \in Cell
    BY TailFacts DEF IInv, LinkTyped
  <2> QED BY <2>1, ParsedFacts DEF Pop
<1>2. /\ inbuf \in Seq(Cell) /\ sent \in Nat /\ latest \in Nat /\ sent + 1 \in Nat
      /\ Rising(inbuf) /\ Above(latest, inbuf) /\ Below(inbuf, sent + 1)
      /\ mpc = "write" => pos < Cells /\ latest < sent /\ Below(inbuf, sent)
  BY DEF IInv, LinkTyped, CommandsInOrder
<1>3. /\ inbuf' \in Seq(Cell) /\ Rising(inbuf') /\ Above(latest, inbuf')
      /\ Below(inbuf', sent + 1) /\ (mpc = "write" => Below(inbuf', sent))
  <2>1. CASE inbuf' = inbuf
    BY <1>2, <2>1
  <2>2. CASE inbuf # <<>> /\ inbuf' = Tail(inbuf)
    BY <1>2, <2>2, TailFacts, TailKeeps
  <2> QED BY <1>1, <2>1, <2>2
<1>4. epc' = "run" =>
        /\ ein' \in Cell /\ ein'[2] = Cells /\ ein'[1] \in latest + 1 .. sent
        /\ Above(ein'[1], inbuf') /\ (mpc = "write" => ein'[1] < sent)
  <2> SUFFICES ASSUME epc' = "run"
               PROVE  /\ x \in Cell /\ x[2] = Cells /\ x[1] \in latest + 1 .. sent
                      /\ Above(x[1], inbuf') /\ (mpc = "write" => x[1] < sent)
    BY <1>1
  <2>1. inbuf # <<>> /\ inbuf' = Tail(inbuf) /\ x[2] = Cells
    BY <1>1
  <2>2. x = inbuf[1] /\ 1 \in DOMAIN inbuf /\ x \in Cell
    BY <1>2, <2>1, TailFacts
  <2>3. latest < x[1] /\ x[1] < sent + 1 /\ (mpc = "write" => x[1] < sent)
    BY <1>2, <2>1, <2>2 DEF Above, Below
  <2>4. x[1] \in Nat
    BY <2>2, CellFacts
  <2>5. Above(x[1], inbuf')
    BY <1>2, <2>1, HeadBelowTail
  <2> HIDE DEF x
  <2> QED BY <1>2, <2>1, <2>2, <2>3, <2>4, <2>5
<1> HIDE DEF x
<1>5. LinkTyped'
  <2>1. n_bytes' \in Nat
    BY DEF Pop, IInv, LinkTyped
  <2> QED BY <1>0, <1>3, <2>1 DEF IInv, LinkTyped
<1>6. CommandsInOrder'
  BY <1>0, <1>2, <1>3, <1>4 DEF CommandsInOrder
<1>7. AnswersInOrder' /\ BeingRead' /\ AllInPlace' /\ BeingAnswered'
  BY <1>0 DEF IInv, AnswersInOrder, TakenInOrder, Newer, BeingRead, AllInPlace, InPlace,
              BeingAnswered
<1> QED BY <1>5, <1>6, <1>7 DEF IInv

(* A command that is carried out is newer than everything there is.        *)
LEMMA RunKeeps ==
  ASSUME IInv, Run
  PROVE  IInv'
<1> USE DEF Run, uppm
<1>0. /\ ein \in Cell /\ ein[2] = Cells /\ latest' = ein[1] /\ Above(ein[1], inbuf)
      /\ ein[1] \in Nat /\ latest \in Nat /\ sent \in Nat
      /\ latest < latest' /\ latest' <= sent /\ (mpc = "write" => latest' < sent)
  BY CellFacts DEF IInv, LinkTyped, CommandsInOrder
<1>1. LinkTyped'
  BY <1>0 DEF IInv, LinkTyped
<1>2. CommandsInOrder'
  BY <1>0 DEF IInv, CommandsInOrder
<1>3. \A n \in Nat : latest < n => Newer(n)
  <2>1. /\ \A j \in DOMAIN taken : taken[j] \in Nat
        /\ \A j \in DOMAIN rx : rx[j][1] \in Nat
    BY CellFacts DEF IInv, LinkTyped
  <2> QED BY <1>0, <2>1 DEF IInv, AnswersInOrder, Newer, Below
<1>4. Newer(latest') /\ Newer(latest' + 1)
  BY <1>0, <1>3
<1>5. AnswersInOrder'
  <2>1. TakenInOrder' /\ Rising(rx') /\ \A j \in DOMAIN taken' : Above(taken'[j], rx')
    BY DEF IInv, AnswersInOrder, TakenInOrder
  <2>2. Newer(latest + 1)'
    BY <1>4 DEF Newer
  <2>3. i2c_frame'[Cells] = Zero \/ Newer(i2c_frame[Cells][1])'
    BY DEF IInv, AnswersInOrder, Newer
  <2> QED BY <2>1, <2>2, <2>3 DEF AnswersInOrder
<1>6. BeingRead' /\ AllInPlace'
  <2>1. BeingRead'
    BY DEF IInv, BeingRead
  <2>2. \A n \in 1 .. latest : n \in 1 .. latest'
    BY <1>0
  <2> QED BY <2>1, <2>2 DEF IInv, AllInPlace, InPlace
<1>7. BeingAnswered'
  <2>1. ein = <<latest', Cells>>
    BY <1>0 DEF Cell
  <2>2. i2c_frame[Cells] = Zero \/ i2c_frame[Cells][1] < latest'
    BY <1>0, EpsLinkAssumption DEF IInv, AllInPlace, InPlace
  <2>3. Newer(latest)'
    BY <1>4 DEF Newer
  <2> QED BY <1>0, <2>1, <2>2, <2>3 DEF BeingAnswered
<1> QED BY <1>1, <1>2, <1>5, <1>6, <1>7 DEF IInv

LEMMA ClearBufKeeps ==
  ASSUME IInv, ClearBuf
  PROVE  IInv'
<1> USE DEF ClearBuf, uppm, ghost
<1>1. LinkTyped'
  BY EpsLinkAssumption DEF IInv, LinkTyped
<1>2. CommandsInOrder'
  <2>1. sent \in Nat /\ latest \in Nat /\ sent + 1 \in Nat
    BY DEF IInv, LinkTyped
  <2> QED BY <2>1, EmptyKeeps DEF IInv, CommandsInOrder
<1>3. AnswersInOrder' /\ BeingRead' /\ AllInPlace' /\ BeingAnswered'
  BY DEF IInv, AnswersInOrder, TakenInOrder, Newer, BeingRead, AllInPlace, InPlace,
         BeingAnswered
<1> QED BY <1>1, <1>2, <1>3 DEF IInv

LEMMA ZeroCellKeeps ==
  ASSUME IInv, ZeroCell
  PROVE  IInv'
<1> USE DEF uppm, ghost
<1>0. /\ epc = "zero" /\ i \in 1 .. Cells /\ Cells \in Nat /\ Cells >= 2
      /\ \A c \in 1 .. Cells : i2c_frame'[c] = IF c = i THEN Zero ELSE i2c_frame[c]
      /\ i2c_frame' \in [1 .. Cells -> Cell]
      /\ UNCHANGED <<uppm, inbuf, n_bytes, ein, ghost>>
  <2>1. Zero \in Cell /\ i2c_frame \in [1 .. Cells -> Cell] /\ i \in 1 .. Cells
    BY DEF Zero, Cell, IInv, LinkTyped
  <2> QED BY <2>1, EpsLinkAssumption DEF ZeroCell
<1>1. \/ i = Cells /\ epc' = "fill" /\ i' = 1
      \/ i # Cells /\ epc' = "zero" /\ i' = i + 1
  BY <1>0 DEF ZeroCell
<1>2. LinkTyped' /\ CommandsInOrder' /\ BeingRead'
  BY <1>0, <1>1 DEF IInv, LinkTyped, CommandsInOrder, BeingRead
<1>3. AnswersInOrder' /\ AllInPlace'
  BY <1>0 DEF IInv, AnswersInOrder, TakenInOrder, Newer, AllInPlace, InPlace
<1>4. BeingAnswered'
  <2>1. /\ latest' # 0 /\ ein' = <<latest', Cells>> /\ Newer(latest)'
        /\ i2c_frame'[Cells] = Zero \/ i2c_frame'[Cells][1] < latest'
    BY <1>0 DEF IInv, BeingAnswered, Newer
  <2>2. \A c \in 1 .. i : i2c_frame'[c] = Zero
    BY <1>0 DEF IInv, BeingAnswered
  <2> QED BY <1>0, <1>1, <2>1, <2>2 DEF BeingAnswered
<1> QED BY <1>2, <1>3, <1>4 DEF IInv

LEMMA FillCellKeeps ==
  ASSUME IInv, FillCell
  PROVE  IInv'
<1> USE DEF uppm, ghost
<1>0. /\ epc = "fill" /\ i \in 1 .. Cells /\ Cells \in Nat /\ Cells >= 2
      /\ latest \in Nat /\ latest \in 0 .. sent /\ ein = <<latest, Cells>> /\ Newer(latest)
      /\ i2c_frame \in [1 .. Cells -> Cell]
      /\ \A c \in i .. Cells : i2c_frame[c] = Zero
      /\ i2c_frame' = [i2c_frame EXCEPT ![i] = <<ein[1], i>>]
      /\ UNCHANGED <<uppm, inbuf, n_bytes, ghost>>
  BY EpsLinkAssumption DEF IInv, LinkTyped, BeingAnswered, FillCell
<1> DEFINE x == <<latest, i>>
<1>1. x \in Cell /\ x[1] = latest /\ x[2] = i /\ <<ein[1], i>> = x
  BY <1>0 DEF Cell
<1> HIDE DEF x
<1>2. /\ \A c \in 1 .. Cells : i2c_frame'[c] = IF c = i THEN x ELSE i2c_frame[c]
      /\ i2c_frame' \in [1 .. Cells -> Cell]
  BY <1>0, <1>1
<1>3. \/ i = Cells /\ epc' = "parse" /\ i' = 1
      \/ i # Cells /\ epc' = "fill" /\ i' = i + 1 /\ ein' = ein
  BY DEF FillCell
<1>4. LinkTyped' /\ CommandsInOrder' /\ BeingRead'
  BY <1>0, <1>2, <1>3 DEF IInv, LinkTyped, CommandsInOrder, BeingRead
<1>5. AnswersInOrder'
  BY <1>0, <1>1, <1>2 DEF IInv, AnswersInOrder, TakenInOrder, Newer
<1>6. latest >= 1
  BY <1>0 DEF IInv, BeingAnswered
<1>7. AllInPlace'
  BY <1>0, <1>1, <1>2, <1>6 DEF IInv, AllInPlace, InPlace
<1>8. BeingAnswered'
  BY <1>0, <1>2, <1>3 DEF IInv, BeingAnswered, Newer
<1> QED BY <1>4, <1>5, <1>7, <1>8 DEF IInv

LEMMA EpsRestartKeeps ==
  ASSUME IInv, EpsRestart
  PROVE  IInv'
<1> USE DEF EpsRestart, uppm
<1>0. /\ i2c_frame' \in [1 .. Cells -> Cell] /\ Cells \in Nat /\ Cells >= 2
      /\ \A c \in 1 .. Cells : i2c_frame'[c] = Zero
  BY EpsLinkAssumption DEF Blank, Zero, Cell
<1>1. LinkTyped'
  BY <1>0 DEF IInv, LinkTyped
<1>2. CommandsInOrder'
  <2>1. sent \in Nat /\ latest \in Nat /\ sent + 1 \in Nat
    BY DEF IInv, LinkTyped
  <2> QED BY <2>1, EmptyKeeps DEF IInv, CommandsInOrder
<1>3. AnswersInOrder' /\ BeingRead' /\ AllInPlace' /\ BeingAnswered'
  BY <1>0 DEF IInv, AnswersInOrder, TakenInOrder, Newer, BeingRead, AllInPlace, InPlace,
              BeingAnswered
<1> QED BY <1>1, <1>2, <1>3 DEF IInv

LEMMA NextKeeps == IInv /\ [Next]_vars => IInv'
<1> SUFFICES ASSUME IInv, [Next]_vars PROVE IInv'
  OBVIOUS
<1>1. CASE Send
  BY <1>1, SendKeeps
<1>2. CASE Write
  BY <1>2, WriteKeeps
<1>3. CASE StartRead
  BY <1>3, StartReadKeeps
<1>4. CASE ReadCell
  BY <1>4, ReadMiddleKeeps, ReadLastKeeps
<1>5. CASE ParseRx
  BY <1>5, ParseRxKeeps
<1>6. CASE StartParse
  BY <1>6, StartParseKeeps
<1>7. CASE Pop
  BY <1>7, PopKeeps
<1>8. CASE Run
  BY <1>8, RunKeeps
<1>9. CASE ClearBuf
  BY <1>9, ClearBufKeeps
<1>10. CASE ZeroCell
  BY <1>10, ZeroCellKeeps
<1>11. CASE FillCell
  BY <1>11, FillCellKeeps
<1>12. CASE EpsRestart
  BY <1>12, EpsRestartKeeps
<1>13. CASE UppmRestart
  BY <1>13, UppmRestartKeeps
<1>14. CASE UNCHANGED vars
  BY <1>14 DEF vars, uppm, eps, ghost, IInv, LinkTyped, CommandsInOrder, AnswersInOrder,
               TakenInOrder, Newer, BeingRead, AllInPlace, InPlace, BeingAnswered
<1> QED
  BY <1>1, <1>2, <1>3, <1>4, <1>5, <1>6, <1>7, <1>8, <1>9, <1>10, <1>11, <1>12, <1>13, <1>14
  DEF Next, Dispatch, Superloop

LEMMA InvAlways == Spec => []IInv
  BY InitInv, NextKeeps, PTL DEF Spec

-----------------------------------------------------------------------------
(* However cells are torn, delayed or lost on the way, the UPPM never takes *)
(* the same telemetry twice, nor older telemetry after newer.              *)
THEOREM AlwaysTakenInOrder == Spec => []TakenInOrder
<1>1. IInv => TakenInOrder
  BY DEF IInv, AnswersInOrder
<1> QED BY <1>1, InvAlways, PTL

(* The variables of the link keep their types; in particular no cell of    *)
(* i2c_frame is from a command that was not sent.                          *)
THEOREM LinkAlwaysTyped == Spec => []TypeOK
<1>1. ASSUME IInv PROVE i2c_frame \in [1 .. Cells -> (0 .. sent) \X (0 .. Cells)]
  <2>1. \A c \in 1 .. Cells : i2c_frame[c] \in (0 .. sent) \X (0 .. Cells)
    <3> TAKE c \in 1 .. Cells
    <3>1. i2c_frame[c] \in Cell /\ InPlace(i2c_frame[c], c)
      BY <1>1 DEF IInv, LinkTyped, AllInPlace
    <3>2. i2c_frame[c][1] \in 0 .. sent /\ i2c_frame[c][2] \in 0 .. Cells
      BY <1>1, <3>1, EpsLinkAssumption DEF InPlace, Zero, IInv, LinkTyped
    <3> QED BY <3>1, <3>2 DEF Cell
  <2> QED BY <1>1, <2>1 DEF IInv, LinkTyped
<1>2. IInv => TypeOK
  BY <1>1 DEF IInv, LinkTyped, TypeOK
<1> QED BY <1>2, InvAlways, PTL

-----------------------------------------------------------------------------
(* The refinement of the mailbox.                                          *)

Owed == epc \in {"clear", "zero", "fill"}
Box  == IF IsWhole(View) THEN View[1][1] ELSE None

LEMMA ViewTyped ==
  ASSUME IInv
  PROVE  \A c \in 1 .. Cells : View[c] \in Cell /\ InPlace(View[c], c)
<1> TAKE c \in 1 .. Cells
<1>1. CASE mpc = "read" /\ c <= pos
  <2>1. c \in 1 .. pos /\ c \in DOMAIN res
    BY <1>1 DEF IInv, LinkTyped, BeingRead
  <2> QED BY <1>1, <2>1 DEF View, IInv, LinkTyped, AllInPlace
<1>2. CASE ~(mpc = "read" /\ c <= pos)
  BY <1>2 DEF View, IInv, LinkTyped, AllInPlace
<1> QED BY <1>1, <1>2

(* An answer is whole if all its cells are there, and of the same command. *)
LEMMA WholeFacts ==
  ASSUME IInv
  PROVE  /\ IsWhole(View) => View[1][1] = View[Cells][1] /\ View[Cells][1] \in 1 .. latest
         /\ \A c \in 1 .. Cells : View[c] = Zero => ~IsWhole(View)
<1>1. Cells \in Nat /\ Cells >= 2
  BY EpsLinkAssumption
<1>2. ASSUME NEW k \in 1 .. sent, View = Frame(k)
      PROVE  /\ \A c \in 1 .. Cells : View[c] = <<k, c>>
             /\ View[1][1] = k /\ View[Cells][1] = k /\ k \in 1 .. latest
             /\ \A c \in 1 .. Cells : View[c] # Zero
  <2>1. \A c \in 1 .. Cells : View[c] = <<k, c>>
    BY <1>2 DEF Frame
  <2>2. View[1] = <<k, 1>> /\ View[Cells] = <<k, Cells>>
    BY <1>1, <2>1
  <2>3. \A c \in 1 .. Cells : View[c] # Zero
    BY <2>1 DEF Zero
  <2>4. InPlace(View[Cells], Cells) /\ View[Cells] # Zero
    BY <1>1, <2>3, ViewTyped
  <2> QED BY <2>1, <2>2, <2>3, <2>4 DEF InPlace
<1> QED BY <1>2 DEF IsWhole

LEMMA BoxEmpty ==
  ASSUME IInv, NEW c \in 1 .. Cells, View[c] = Zero
  PROVE  Box = None
BY WholeFacts DEF Box

(* The same, in the state after a step.                                    *)
ViewFacts ==
  /\ IInv => (IsWhole(View) => View[1][1] = View[Cells][1])
  /\ \A c \in 1 .. Cells : IInv /\ View[c] = Zero => Box = None

LEMMA ViewFactsNow == ViewFacts
BY WholeFacts, BoxEmpty DEF ViewFacts

LEMMA ViewFactsNext == ViewFacts'
BY ViewFactsNow, PTL

LEMMA WholeFactsNext ==
  ASSUME IInv'
  PROVE  IsWhole(View)' => View'[1][1] = View'[Cells][1]
BY ViewFactsNext DEF ViewFacts

LEMMA BoxEmptyNext ==
  ASSUME IInv', NEW c \in 1 .. Cells, View'[c] = Zero
  PROVE  Box' = None
BY ViewFactsNext DEF ViewFacts

(* The box depends on nothing but the view, as long as sent only grows.    *)
LEMMA SameBox ==
  ASSUME IInv, View' = View, sent' \in {sent, sent + 1}
  PROVE  Box' = Box
<1>1. IsWhole(View)' <=> IsWhole(View)
  <2>1. ASSUME NEW k \in 1 .. sent', View = Frame(k)
        PROVE  k \in 1 .. sent
    <3>1. View[Cells] = <<k, Cells>> /\ Cells \in 1 .. Cells /\ k # 0
      BY <2>1, EpsLinkAssumption DEF Frame
    <3>2. InPlace(View[Cells], Cells) /\ View[Cells] # Zero
      BY <3>1, ViewTyped DEF Zero
    <3> QED BY <3>1, <3>2 DEF InPlace, IInv, LinkTyped
  <2>2. \A k \in 1 .. sent : k \in 1 .. sent'
    BY DEF IInv, LinkTyped
  <2> QED BY <2>1, <2>2 DEF IsWhole, Frame
<1> QED BY <1>1 DEF Box

LEMMA SameView ==
  ASSUME \A c \in 1 .. Cells : View'[c] = View[c]
  PROVE  View' = View
BY DEF View

(* The steps that the mailbox does not see.                                *)
LEMMA Unseen ==
  ASSUME IInv, View' = View, Owed' <=> Owed, UNCHANGED <<sent, latest, read>>
  PROVE  UNCHANGED Mailbox!mvars
<1>1. Box' = Box
  BY SameBox
<1>2. Owed' = Owed
  <2>1. CASE Owed
    BY <2>1 DEF Owed
  <2>2. CASE ~Owed
    BY <2>2 DEF Owed
  <2> QED BY <2>1, <2>2
<1> QED BY <1>1, <1>2 DEF Mailbox!mvars, Box, Owed

LEMMA QuietSteps ==
  ASSUME IInv,
         \/ Write \/ StartRead \/ ParseRx \/ StartParse \/ Pop \/ ClearBuf \/ UppmRestart
         \/ UNCHANGED vars
  PROVE  UNCHANGED Mailbox!mvars
<1>1. UNCHANGED <<i2c_frame, sent, latest, read>>
  BY DEF Write, StartRead, ParseRx, StartParse, Pop, ClearBuf, UppmRestart, vars, uppm,
         eps, ghost
<1>2. Owed' <=> Owed
  BY DEF Write, StartRead, ParseRx, StartParse, Pop, ClearBuf, UppmRestart, vars, uppm,
         eps, ghost, Owed
<1>3. \/ UNCHANGED <<mpc, pos, res>>
      \/ mpc # "read" /\ (mpc' # "read" \/ pos' = 0)
  BY DEF Write, StartRead, ParseRx, StartParse, Pop, ClearBuf, UppmRestart, vars, uppm,
         eps, ghost
<1>4. View' = View
  <2>1. CASE UNCHANGED <<mpc, pos, res>>
    BY <1>1, <2>1 DEF View
  <2>2. CASE mpc # "read" /\ (mpc' # "read" \/ pos' = 0)
    BY <1>1, <2>2, EpsLinkAssumption DEF View
  <2> QED BY <1>3, <2>1, <2>2
<1> QED BY <1>1, <1>2, <1>4, Unseen

LEMMA SendAsks ==
  ASSUME IInv, Send
  PROVE  Mailbox!Ask
<1>1. View' = View
  BY DEF Send, eps, View
<1>2. sent' = sent + 1 /\ UNCHANGED <<latest, read, epc>>
  BY DEF Send, eps
<1>3. Box' = Box
  BY <1>1, <1>2, SameBox
<1> QED BY <1>2, <1>3 DEF Mailbox!Ask, Box

LEMMA RunExecutes ==
  ASSUME IInv, Run
  PROVE  Mailbox!Execute
<1>1. View' = View
  BY DEF Run, uppm, View
<1>2. UNCHANGED <<sent, read>> /\ epc = "run" /\ epc' = "clear" /\ latest' = ein[1]
  BY DEF Run, uppm
<1>3. Box' = Box
  BY <1>1, <1>2, SameBox
<1>4. latest' \in latest + 1 .. sent
  BY <1>2 DEF IInv, CommandsInOrder
<1>5. ~(epc \in {"clear", "zero", "fill"})
  BY <1>2
<1>6. (epc \in {"clear", "zero", "fill"})' = TRUE
  BY <1>2
<1> QED BY <1>2, <1>3, <1>4, <1>5, <1>6 DEF Mailbox!Execute, Box

(* A cell in the middle of a read passes from the one part of the view to  *)
(* the other.                                                              *)
LEMMA ReadMiddleUnseen ==
  ASSUME IInv, ReadCell, pos' # Cells
  PROVE  UNCHANGED Mailbox!mvars
<1>1. /\ mpc = "read" /\ mpc' = "read" /\ pos' < Cells /\ Len(res) = pos /\ pos \in Nat
      /\ res \in Seq(Cell) /\ res' = Append(res, i2c_frame[pos'])
      /\ i2c_frame[pos'] \in Cell
      /\ UNCHANGED <<sent, latest, read, epc>>
  BY ReadCellZeroes, EpsLinkAssumption DEF IInv, LinkTyped, BeingRead, ReadCell
<1>2. pos' = pos + 1
  BY ReadCellZeroes
<1>3. /\ \A c \in 1 .. pos : res'[c] = res[c]
      /\ res'[pos'] = i2c_frame[pos']
  BY <1>1, <1>2
<1>4. \A c \in 1 .. Cells : View'[c] = View[c]
  <2> TAKE c \in 1 .. Cells
  <2>1. /\ View'[c] = IF c <= pos' THEN res'[c] ELSE i2c_frame'[c]
        /\ View[c] = IF c <= pos THEN res[c] ELSE i2c_frame[c]
    BY <1>1 DEF View
  <2>2. CASE c <= pos
    BY <2>1, <2>2, <1>1, <1>2, <1>3
  <2>3. CASE c = pos'
    BY <2>1, <2>3, <1>1, <1>2, <1>3
  <2>4. CASE c > pos'
    BY <2>1, <2>4, <1>1, <1>2, ReadCellZeroes
  <2> QED BY <2>2, <2>3, <2>4, <1>1, <1>2
<1>5. Owed' <=> Owed
  BY <1>1 DEF Owed
<1> QED BY <1>1, <1>4, <1>5, SameView, Unseen

LEMMA ReadLastReads ==
  ASSUME IInv, IInv', ReadCell, pos' = Cells
  PROVE  Mailbox!Read
<1> DEFINE cells == Append(res, i2c_frame[pos'])
<1>1. /\ mpc = "read" /\ mpc' = "loop" /\ pos = Cells - 1
      /\ read' = IF IsWhole(cells) THEN Append(read, cells[1][1]) ELSE read
      /\ UNCHANGED <<sent, latest, epc>>
  BY EpsLinkAssumption DEF IInv, LinkTyped, ReadCell
<1>2. /\ cells \in Seq(Cell) /\ Len(cells) = Cells
      /\ \A c \in 1 .. Cells - 1 : cells[c] = res[c]
      /\ cells[Cells] = i2c_frame[Cells]
  BY LastCellFacts
<1> HIDE DEF cells
<1>3. cells = View
  <2>1. cells = [c \in 1 .. Cells |-> cells[c]]
    BY <1>2
  <2>2. \A c \in 1 .. Cells :
          cells[c] = IF mpc = "read" /\ c <= pos THEN res[c] ELSE i2c_frame[c]
    BY <1>1, <1>2, EpsLinkAssumption
  <2> QED BY <2>1, <2>2 DEF View
<1>4. read' = IF Box = None THEN read ELSE Append(read, Box)
  <2>1. IsWhole(View) => View[1][1] # None
    <3>1. View[1] \in Cell
      BY ViewTyped, EpsLinkAssumption
    <3> QED BY <3>1, CellFacts, EpsLinkAssumption
  <2> QED BY <1>1, <1>3, <2>1 DEF Box
<1>5. Box' = None
  <2>1. View'[Cells] = Zero /\ Cells \in 1 .. Cells
    BY <1>1, ReadCellZeroes, EpsLinkAssumption DEF View
  <2> QED BY <2>1, BoxEmptyNext
<1> QED BY <1>1, <1>4, <1>5 DEF Mailbox!Read, Box

LEMMA RestartLoses ==
  ASSUME IInv, IInv', EpsRestart
  PROVE  Mailbox!Lose
<1>1. UNCHANGED <<sent, latest, read, mpc, pos>> /\ epc' = "idle"
  BY DEF EpsRestart, uppm
<1>2. View'[Cells] = Zero /\ Cells \in 1 .. Cells
  BY <1>1, EpsLinkAssumption DEF EpsRestart, Blank, View, IInv, BeingRead, LinkTyped
<1>3. Box' = None
  BY <1>2, BoxEmptyNext
<1>4. (epc \in {"clear", "zero", "fill"})' = FALSE
  BY <1>1
<1> QED BY <1>1, <1>3, <1>4 DEF Mailbox!Lose, Box

(* A cell of i2c_frame that the EPS rewrites.                              *)
LEMMA RewrittenView ==
  ASSUME IInv, NEW x,
         \A c \in 1 .. Cells : i2c_frame'[c] = IF c = i THEN x ELSE i2c_frame[c],
         UNCHANGED <<mpc, pos, res>>
  PROVE  \/ View' = View
         \/ \A c \in 1 .. Cells : View'[c] = IF c = i THEN x ELSE View[c]
<1>1. CASE mpc = "read" /\ i <= pos
  <2>1. \A c \in 1 .. Cells : View'[c] = View[c]
    BY <1>1 DEF View
  <2> QED BY <2>1, SameView
<1>2. CASE ~(mpc = "read" /\ i <= pos)
  BY <1>2 DEF View
<1> QED BY <1>1, <1>2

LEMMA ZeroCellLoses ==
  ASSUME IInv, IInv', ZeroCell
  PROVE  Mailbox!Lose \/ UNCHANGED Mailbox!mvars
<1>1. /\ UNCHANGED <<sent, latest, read, mpc, pos, res>>
      /\ epc = "zero" /\ epc' \in {"zero", "fill"} /\ i \in 1 .. Cells
      /\ \A c \in 1 .. Cells : i2c_frame'[c] = IF c = i THEN Zero ELSE i2c_frame[c]
  BY DEF ZeroCell, uppm, ghost, IInv, LinkTyped
<1>2. (epc \in {"clear", "zero", "fill"})' = (epc \in {"clear", "zero", "fill"})
  BY <1>1
<1>3. CASE View' = View
  <2>1. Owed' <=> Owed
    BY <1>1 DEF Owed
  <2> QED BY <1>1, <1>3, <2>1, Unseen
<1>4. CASE \A c \in 1 .. Cells : View'[c] = IF c = i THEN Zero ELSE View[c]
  <2>1. Box' = None
    BY <1>1, <1>4, BoxEmptyNext
  <2> QED BY <1>1, <1>2, <2>1 DEF Mailbox!Lose, Box
<1> QED BY <1>1, <1>3, <1>4, RewrittenView

(* Only the last cell makes an answer whole.                               *)
LEMMA FillCellAnswers ==
  ASSUME IInv, IInv', FillCell
  PROVE  Mailbox!Answer \/ Mailbox!Lose \/ UNCHANGED Mailbox!mvars
<1> DEFINE x == <<ein[1], i>>
<1>1. /\ UNCHANGED <<sent, latest, read, mpc, pos, res>> /\ epc = "fill"
      /\ i \in 1 .. Cells /\ Cells \in Nat /\ Cells >= 2
      /\ i2c_frame \in [1 .. Cells -> Cell] /\ ein = <<latest, Cells>>
      /\ \A c \in i .. Cells : i2c_frame[c] = Zero
      /\ i2c_frame' = [i2c_frame EXCEPT ![i] = x]
      /\ IF i = Cells THEN epc' = "parse" ELSE epc' = "fill"
  BY EpsLinkAssumption DEF FillCell, uppm, ghost, IInv, LinkTyped, BeingAnswered
<1>2. \A c \in 1 .. Cells : i2c_frame'[c] = IF c = i THEN x ELSE i2c_frame[c]
  BY <1>1
<1>3. View' = View \/ \A c \in 1 .. Cells : View'[c] = IF c = i THEN x ELSE View[c]
  BY <1>1, <1>2, RewrittenView
<1>4. View[Cells] = Zero /\ Cells \in 1 .. Cells
  BY <1>1 DEF View, IInv, BeingRead
<1>5. Box = None
  BY <1>4, BoxEmpty
<1>6. CASE i # Cells
  <2>1. View'[Cells] = Zero
    BY <1>1, <1>3, <1>4, <1>6
  <2>2. Box' = None
    BY <1>4, <2>1, BoxEmptyNext
  <2>3. (epc \in {"clear", "zero", "fill"})' = (epc \in {"clear", "zero", "fill"})
    BY <1>1, <1>6
  <2> QED BY <1>1, <1>5, <2>2, <2>3 DEF Mailbox!mvars, Box
<1>7. CASE i = Cells
  <2>1. (epc \in {"clear", "zero", "fill"})' = FALSE /\ epc \in {"clear", "zero", "fill"}
    BY <1>1, <1>7
  <2>2. CASE Box' = None
    BY <1>1, <2>1, <2>2 DEF Mailbox!Lose, Box
  <2>3. CASE Box' # None
    <3>1. View'[Cells][1] = latest
      <4>1. View'[Cells] # Zero
        BY <1>4, <2>3, BoxEmptyNext
      <4>2. View'[Cells] = x
        BY <1>3, <1>4, <1>7, <4>1
      <4> QED BY <1>1, <4>2
    <3>2. Box' = View'[Cells][1]
      BY <2>3, WholeFactsNext DEF Box
    <3> QED BY <1>1, <2>1, <3>1, <3>2 DEF Mailbox!Answer, Box
  <2> QED BY <2>2, <2>3
<1> QED BY <1>6, <1>7

LEMMA StepSimulates ==
  IInv /\ IInv' /\ [Next]_vars => [Mailbox!Next]_(Mailbox!mvars)
<1> SUFFICES ASSUME IInv, IInv', [Next]_vars
             PROVE  Mailbox!Next \/ UNCHANGED Mailbox!mvars
  OBVIOUS
<1>1. CASE Send
  BY <1>1, SendAsks DEF Mailbox!Next
<1>2. CASE ReadCell
  BY <1>2, ReadMiddleUnseen, ReadLastReads DEF Mailbox!Next
<1>3. CASE Run
  BY <1>3, RunExecutes DEF Mailbox!Next
<1>4. CASE ZeroCell
  BY <1>4, ZeroCellLoses DEF Mailbox!Next
<1>5. CASE FillCell
  BY <1>5, FillCellAnswers DEF Mailbox!Next
<1>6. CASE EpsRestart
  BY <1>6, RestartLoses DEF Mailbox!Next
<1>7. CASE \/ Write \/ StartRead \/ ParseRx \/ StartParse \/ Pop \/ ClearBuf
           \/ UppmRestart \/ UNCHANGED vars
  BY <1>7, QuietSteps
<1> QED BY <1>1, <1>2, <1>3, <1>4, <1>5, <1>6, <1>7 DEF Next, Dispatch, Superloop

(* For frames and buffers of any size, and however writes, reads, the      *)
(* superloop of the EPS and restarts interleave, the UPPM may take the EPS *)
(* for a box that holds at most one answer.                                *)
THEOREM LinkIsMailbox == Spec => ImplementsMailbox
<1>1. Init => Mailbox!Init
  <2> SUFFICES ASSUME Init PROVE Mailbox!Init
    OBVIOUS
  <2>1. View[Cells] = Zero /\ Cells \in 1 .. Cells
    BY EpsLinkAssumption DEF Init, View, Blank
  <2>2. Box = None
    BY <2>1, InitInv, BoxEmpty
  <2>3. (epc \in {"clear", "zero", "fill"}) = FALSE
    BY DEF Init
  <2> QED BY <2>2, <2>3 DEF Init, Mailbox!Init, Box
<1> QED BY <1>1, InvAlways, StepSimulates, PTL DEF Spec, ImplementsMailbox, Mailbox!Spec

-----------------------------------------------------------------------------
(* The board                                                               *)

(* The counter of the outstanding switch has not passed its end.           *)
TimerBelowEnd ==
  sw_flag = 1 => age = sw_counter /\ (sw_end = 0 \/ sw_counter < sw_end)

(* A restart on the next tick is one that the order, or the command on the *)
(* counter, could have foreseen.                                           *)
LateIsKnown == sw_flag = 1 /\ counter_reset = RestartAt - 1 => late

BoardInv == BoardTypeOK /\ TimerBelowEnd /\ OnForAReason /\ LateIsKnown

(* A counter stays in its range, and counts by one but for the wrap.       *)
LEMMA IncTyped ==
  ASSUME NEW n \in 0 .. Wrap - 1
  PROVE  /\ Inc(n) \in 0 .. Wrap - 1
         /\ Inc(n) # 0 => Inc(n) = n + 1
  BY EpsBoardAssumption DEF Inc

LEMMA BoardInitInv == BoardInit => BoardInv
<1> SUFFICES ASSUME BoardInit PROVE BoardInv
  OBVIOUS
<1>1. late \in BOOLEAN
  BY Zenon DEF BoardInit
<1>2. why \in [Channels -> Reasons] /\ \A c \in Channels : why[c] = "off"
  BY DEF BoardInit, NoReason, Reasons
<1>3. BoardTypeOK
  BY <1>1, <1>2, EpsBoardAssumption DEF BoardInit, BoardTypeOK, Outputs
<1>4. TimerBelowEnd /\ LateIsKnown
  BY DEF BoardInit, TimerBelowEnd, LateIsKnown
<1>5. OnForAReason
  BY <1>2 DEF BoardInit, OnForAReason
<1> QED BY <1>3, <1>4, <1>5 DEF BoardInv

-----------------------------------------------------------------------------
LEMMA EpsSwitchKeeps ==
  ASSUME BoardInv, NEW output \in Outputs, NEW state \in {0, 1}, EpsSwitch(output, state)
  PROVE  BoardInv'
<1> USE DEF EpsSwitch, Count, switch
<1>1. BoardTypeOK'
  BY EpsBoardAssumption DEF BoardInv, BoardTypeOK, Reasons
<1>2. TimerBelowEnd' /\ LateIsKnown'
  BY DEF BoardInv, TimerBelowEnd, LateIsKnown
<1>3. OnForAReason'
  <2>1. /\ why \in [Channels -> Reasons] /\ output \in Channels
        /\ why' = [why EXCEPT ![output] = IF state = 1 THEN "order" ELSE "off"]
        /\ sw_flag' = sw_flag /\ sw_number' = sw_number
    BY DEF BoardInv, BoardTypeOK
  <2>2. on' = {c \in Channels : why'[c] # "off"}
    BY <2>1 DEF BoardInv, OnForAReason
  <2>3. \A c \in Channels : why'[c] = "timed" => why[c] = "timed"
    BY <2>1
  <2> QED BY <2>1, <2>2, <2>3 DEF BoardInv, OnForAReason
<1> QED BY <1>1, <1>2, <1>3 DEF BoardInv

LEMMA EpsSwitchTimeKeeps ==
  ASSUME BoardInv, NEW output \in Outputs, NEW time \in 0 .. MaxTime,
         EpsSwitchTime(output, time)
  PROVE  BoardInv'
<1> USE DEF EpsSwitchTime, Count
<1>1. BoardTypeOK'
  <2>1. why' \in [Channels -> Reasons]
    BY DEF BoardInv, BoardTypeOK, Reordered, Reasons
  <2>2. on' \subseteq Channels
    BY DEF BoardInv, BoardTypeOK
  <2>3. late' \in BOOLEAN
    BY Zenon
  <2> QED BY <2>1, <2>2, <2>3, EpsBoardAssumption DEF BoardInv, BoardTypeOK, Outputs
<1>2. TimerBelowEnd' /\ LateIsKnown'
  <2>1. TimerBelowEnd'
    BY EpsBoardAssumption DEF TimerBelowEnd
  <2>2. counter_reset' = RestartAt - 1 => late'
    BY Zenon
  <2> QED BY <2>1, <2>2, Zenon DEF LateIsKnown
<1>3. OnForAReason'
  <2>1. \A c \in Channels : why'[c] = IF c = output THEN "timed"
                              ELSE IF why[c] = "timed" THEN "stranded" ELSE why[c]
    BY DEF Reordered
  <2>2. on' = {c \in Channels : why'[c] # "off"}
    BY <2>1 DEF BoardInv, OnForAReason
  <2> QED BY <2>1, <2>2 DEF OnForAReason
<1> QED BY <1>1, <1>2, <1>3 DEF BoardInv

LEMMA EpsRstKeeps ==
  ASSUME BoardInv, NEW n \in 0 .. Wrap - 1, EpsRst(n)
  PROVE  BoardInv'
<1> USE DEF EpsRst, Count
<1>1. late' \in BOOLEAN
  BY Zenon
<1>2. BoardTypeOK'
  BY <1>1, EpsBoardAssumption DEF BoardInv, BoardTypeOK
<1>3. TimerBelowEnd' /\ LateIsKnown'
  BY DEF BoardInv, TimerBelowEnd, LateIsKnown
<1>4. OnForAReason'
  BY DEF BoardInv, OnForAReason
<1> QED BY <1>2, <1>3, <1>4 DEF BoardInv

LEMMA RebootKeeps ==
  ASSUME Reboot, commands' \in 0 .. MaxBoardCommands
  PROVE  BoardInv'
<1> USE DEF Reboot
<1>1. late' \in BOOLEAN
  BY Zenon
<1>2. why' \in [Channels -> Reasons] /\ \A c \in Channels : why'[c] = "off"
  BY DEF NoReason, Reasons
<1>3. BoardTypeOK'
  BY <1>1, <1>2, EpsBoardAssumption DEF BoardTypeOK, Outputs
<1>4. TimerBelowEnd' /\ LateIsKnown'
  BY DEF TimerBelowEnd, LateIsKnown
<1>5. OnForAReason'
  BY <1>2 DEF OnForAReason
<1> QED BY <1>3, <1>4, <1>5 DEF BoardInv

LEMMA TickKeeps ==
  ASSUME BoardInv, NEW power \in Powers, Tick(power)
  PROVE  BoardInv'
<1>1. /\ Inc(counter_reset) \in 0 .. Wrap - 1
      /\ Inc(sw_counter) \in 0 .. Wrap - 1
      /\ Inc(sw_counter) # 0 => Inc(sw_counter) = sw_counter + 1
  BY IncTyped DEF BoardInv, BoardTypeOK
<1>2. Counted \in 0 .. Wrap - 1
  BY <1>1, EpsBoardAssumption DEF Counted
<1>3. BoardTypeOK'
  <2>1. why' \in [Channels -> Reasons] /\ on' \subseteq Channels
    BY DEF Tick, BoardInv, BoardTypeOK, Reasons
  <2>2. eps_mode' \in 0 .. 3
    BY DEF Tick, Powers, ModeAt
  <2>3. counter_reset' \in 0 .. Wrap - 1 /\ sw_counter' \in 0 .. Wrap - 1
    BY <1>1, <1>2 DEF Tick, BoardInv, BoardTypeOK
  <2>4. sw_flag' \in {0, 1} /\ sw_number' \in Outputs /\ age' \in Nat
    BY DEF Tick, BoardInv, BoardTypeOK, Outputs
  <2>5. late' \in BOOLEAN
    BY Zenon DEF Tick, BoardInv, BoardTypeOK
  <2> QED BY <2>1, <2>2, <2>3, <2>4, <2>5 DEF Tick, BoardInv, BoardTypeOK
<1>4. TimerBelowEnd'
  <2> SUFFICES ASSUME sw_flag' = 1
               PROVE  age' = sw_counter' /\ (sw_end' = 0 \/ sw_counter' < sw_end')
    BY DEF TimerBelowEnd
  <2>1. sw_flag = 1 /\ Inc(sw_counter) # sw_end
    BY DEF Tick, Expires
  <2>2. /\ age' = age + 1 /\ sw_counter' = Inc(sw_counter) /\ sw_end' = sw_end
    BY <2>1 DEF Tick, Expires
  <2>3. age = sw_counter /\ (sw_end = 0 \/ sw_counter < sw_end)
    BY <2>1 DEF BoardInv, TimerBelowEnd
  <2>4. Inc(sw_counter) # 0
    BY <2>1, <2>3, EpsBoardAssumption DEF Inc, BoardInv, BoardTypeOK
  <2> QED BY <1>1, <2>1, <2>2, <2>3, <2>4 DEF BoardInv, BoardTypeOK
<1>5. OnForAReason'
  <2> DEFINE gone == SwitchedOff(power)
  <2>1. /\ on' = on \ gone
        /\ \A c \in Channels : why'[c] = IF c \in gone THEN "off" ELSE why[c]
    BY DEF Tick
  <2> HIDE DEF gone
  <2>2. on' = {c \in Channels : why'[c] # "off"}
    BY <2>1 DEF BoardInv, OnForAReason
  <2>3. ASSUME NEW c \in Channels, why'[c] = "timed"
        PROVE  sw_flag' = 1 /\ sw_number' = c
    <3>1. c \notin gone /\ why[c] = "timed"
      BY <2>1, <2>3
    <3>2. sw_flag = 1 /\ sw_number = c
      BY <3>1 DEF BoardInv, OnForAReason
    <3>3. ~Expires
      BY <3>1, <3>2 DEF gone, SwitchedOff
    <3> QED BY <3>2, <3>3 DEF Tick
  <2> QED BY <2>2, <2>3 DEF OnForAReason
<1>6. LateIsKnown'
  <2> SUFFICES ASSUME sw_flag' = 1, counter_reset' = RestartAt - 1
               PROVE  FALSE
    BY DEF LateIsKnown
  <2>1. sw_flag = 1 /\ ~Expires
    BY DEF Tick, Expires
  <2> QED BY <1>1, <2>1, EpsBoardAssumption DEF Tick, Counted
<1> QED BY <1>3, <1>4, <1>5, <1>6 DEF BoardInv

LEMMA BoardNextKeeps == BoardInv /\ [BoardNext]_boardVars => BoardInv'
<1> SUFFICES ASSUME BoardInv, [BoardNext]_boardVars PROVE BoardInv'
  OBVIOUS
<1>1. ASSUME NEW output \in Outputs, NEW state \in {0, 1}, EpsSwitch(output, state)
      PROVE  BoardInv'
  BY <1>1, EpsSwitchKeeps
<1>2. ASSUME NEW output \in Outputs, NEW time \in 0 .. MaxTime,
             EpsSwitchTime(output, time)
      PROVE  BoardInv'
  BY <1>2, EpsSwitchTimeKeeps
<1>3. ASSUME NEW n \in 0 .. Wrap - 1, EpsRst(n) PROVE BoardInv'
  BY <1>3, EpsRstKeeps
<1>4. ASSUME NEW power \in Powers, Tick(power) PROVE BoardInv'
  BY <1>4, TickKeeps
<1>5. CASE Restart
  BY <1>5, RebootKeeps DEF Restart, BoardInv, BoardTypeOK
<1>6. CASE UnplannedRestart
  <2>1. commands' \in 0 .. MaxBoardCommands
    BY <1>6, EpsBoardAssumption DEF UnplannedRestart, Count, BoardInv, BoardTypeOK
  <2> QED BY <1>6, <2>1, RebootKeeps DEF UnplannedRestart
<1>7. CASE UNCHANGED boardVars
  BY <1>7 DEF boardVars, switch, BoardInv, BoardTypeOK, TimerBelowEnd, OnForAReason, LateIsKnown
<1> QED
  BY <1>1, <1>2, <1>3, <1>4, <1>5, <1>6, <1>7 DEF BoardNext, Command, EpsSuperloop

LEMMA BoardInvAlways == BoardSpec => []BoardInv
  BY BoardInitInv, BoardNextKeeps, PTL DEF BoardSpec

-----------------------------------------------------------------------------
(* The variables of the EPS keep their types, its counters their width.    *)
THEOREM BoardTyped == BoardSpec => []BoardTypeOK
<1>1. BoardInv => BoardTypeOK
  BY DEF BoardInv
<1> QED BY <1>1, BoardInvAlways, PTL

(* A timed switch is never outstanding for longer than was ordered.        *)
THEOREM TimedAlwaysEnds == BoardSpec => []TimedEnds
<1>1. BoardInv => TimedEnds
  BY EpsBoardAssumption DEF BoardInv, BoardTypeOK, TimerBelowEnd, TimedEnds
<1> QED BY <1>1, BoardInvAlways, PTL

(* No output is on without an order that still stands for it.              *)
THEOREM AlwaysForAReason == BoardSpec => []OnForAReason
<1>1. BoardInv => OnForAReason
  BY DEF BoardInv
<1> QED BY <1>1, BoardInvAlways, PTL

(* The periodic restart cuts no timed switch short that it had announced   *)
(* itself to by more than one tick.                                        *)
THEOREM TimedSpared == BoardSpec => SparesTimed
<1>1. BoardInv /\ [BoardNext]_boardVars => [Restart /\ sw_flag = 1 => late]_boardVars
  <2> SUFFICES ASSUME BoardInv, Restart, sw_flag = 1 PROVE late
    OBVIOUS
  <2>1. Inc(counter_reset) = RestartAt
    BY EpsBoardAssumption DEF Restart, Counted
  <2>2. counter_reset = RestartAt - 1
    BY <2>1, EpsBoardAssumption DEF Inc, BoardInv, BoardTypeOK
  <2> QED BY <2>2 DEF BoardInv, LateIsKnown
<1> QED BY <1>1, BoardInvAlways, PTL DEF BoardSpec, SparesTimed
=============================================================================
