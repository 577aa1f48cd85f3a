------------------------------ MODULE EpsLink ------------------------------
(***************************************************************************)
(* The I2C link between the UPPM (master) and the EPS (slave).             *)
(*                                                                         *)
(* mcppkt_dispatch of the UPPM writes the command, waits 50 ms and reads a *)
(* fixed number of bytes, whatever the EPS has to say by then.  On the EPS *)
(* an interrupt puts the bytes of commands into i2cbufs[1], and on a read  *)
(* hands out the cells of i2c_frame and zeroes each.  Its superloop parses *)
(* the buffer, runs the command, clears the buffer, and rewrites i2c_frame *)
(* cell by cell; interrupts come between any two of these.                 *)
(*                                                                         *)
(* Frames consist of Cells cells, the first with the opening and the last  *)
(* with the closing delimiter: <<k, i>> is cell i of the frame of command  *)
(* k, or of its answer.  A frame with a foreign or a missing cell does not *)
(* pass its CRC.                                                           *)
(***************************************************************************)
EXTENDS Naturals, Sequences, Functions

CONSTANTS
  Cells,        \* cells of a frame, and of one read
  InSize,       \* cells that i2cbufs[1] of the EPS holds
  RxSize,       \* cells that rxbufs[0] of the UPPM holds
  MaxCommands,  \* bound on commands
  MaxResets,    \* bound on restarts
  None

ASSUME EpsLinkAssumption ==
  /\ Cells \in Nat /\ Cells >= 2
  /\ InSize \in Nat /\ RxSize \in Nat
  /\ MaxCommands \in Nat /\ MaxResets \in Nat
  /\ None \notin Nat /\ None \notin Seq(Nat)

VARIABLES
  mpc,      \* UPPM: "loop", in mcpmgr_parse_stream "parse", or in
            \*   mcppkt_dispatch "write", "delay", "read"
  sent,     \* UPPM: number of the command sent last
  pos,      \* UPPM: cells of the current write or read that are done
  res,      \* UPPM: the cells read so far
  rx,       \* UPPM: rxbufs[0]
  acc,      \* UPPM: last cell of the frame being parsed, None if it is bad
  taken,    \* UPPM: the answers that reached mcpmgr_process_pkt intact
  inbuf,    \* EPS: i2cbufs[1]
  n_bytes,  \* EPS: cells cmdmgr_parse_stream may still take in this call
  ein,      \* EPS: as acc, of the command being parsed
  epc,      \* EPS: "idle", "parse", "run", "clear", "zero", "fill"
  i,        \* EPS: the loop variable of cmdpkt_dispatch
  i2c_frame,
  latest,   \* ghost: the command carried out last
  read,     \* ghost: the answers that one read returned whole
  prompt,   \* ghost: whether the EPS is done with this command within 50 ms
  sure,     \* ghost: prompt commands that met the EPS at rest
  resets

uppm  == <<mpc, sent, pos, res, rx, acc, taken>>
eps   == <<inbuf, n_bytes, ein, epc, i, i2c_frame>>
ghost == <<latest, read, prompt, sure, resets>>
vars  == <<uppm, eps, ghost>>

Zero == <<0, 0>>
Frame(k) == [c \in 1 .. Cells |-> <<k, c>>]
Blank    == [c \in 1 .. Cells |-> Zero]

Init ==
  /\ mpc = "loop" /\ sent = 0 /\ pos = 0 /\ res = <<>>
  /\ rx = <<>> /\ acc = None /\ taken = <<>>
  /\ inbuf = <<>> /\ n_bytes = 0 /\ ein = None /\ epc = "idle" /\ i = 1
  /\ i2c_frame = Blank
  /\ latest = 0 /\ read = <<>> /\ prompt = FALSE /\ sure = {} /\ resets = 0

(* mutant: an opening delimiter within a frame is taken for a part of it   *)
ParsedNoResync(held, c) ==
  IF IF held = None THEN c[2] = 1 ELSE c[2] > 0 /\ held = <<c[1], c[2] - 1>>
    THEN c ELSE None

(* The parser of either side: what it holds of a frame after cell c.       *)
Parsed(held, c) ==
  IF c[2] = 1 \/ (held # None /\ c[2] > 0 /\ held = <<c[1], c[2] - 1>>)
    THEN c ELSE None

Complete(held) == held # None /\ held[2] = Cells

-----------------------------------------------------------------------------
(* UPPM: mcppkt_dispatch to the EPS.                                       *)
AtRest == epc = "idle" /\ inbuf = <<>>

Send ==
  /\ mpc = "loop" /\ sent < MaxCommands
  /\ mpc' = "write" /\ sent' = sent + 1 /\ pos' = 0
  /\ prompt' \in BOOLEAN
  /\ sure' = IF prompt' /\ AtRest THEN sure \cup {sent'} ELSE sure
  /\ UNCHANGED <<res, rx, acc, taken, eps, latest, read, resets>>

(* i2c_write_buf, and i2c3_isr on the EPS, which pushes the byte.          *)
Pushed == IF Len(inbuf) < InSize THEN Append(inbuf, <<sent, pos'>>) ELSE inbuf

Write ==
  /\ mpc = "write"
  /\ pos' = pos + 1
  /\ inbuf' = Pushed
  /\ mpc' = IF pos' = Cells THEN "delay" ELSE "write"
  /\ UNCHANGED <<sent, res, rx, acc, taken, n_bytes, ein, epc, i, i2c_frame, ghost>>

(* delay_ms(50): whether the EPS is done by then is not up to the UPPM.    *)
StartRead ==
  /\ mpc = "delay"
  /\ prompt => AtRest
  /\ mpc' = "read" /\ pos' = 0 /\ res' = <<>>
  /\ UNCHANGED <<sent, rx, acc, taken, eps, ghost>>

(* mutant: the cell stays                                                  *)
ZeroedNever == i2c_frame

(* i2c3_isr hands out a cell and zeroes it.                                *)
Zeroed == [i2c_frame EXCEPT ![pos'] = Zero]

RxRoom == Len(rx) + Cells <= RxSize

(* rb_push_n: what does not fit is dropped.                                *)
RxAfter(cells) ==
  IF RxRoom THEN rx \o cells ELSE SubSeq(rx \o cells, 1, RxSize)

IsWhole(frame) == \E k \in 1 .. sent : frame = Frame(k)

(* One byte of i2c_read_buf; after the last one the buffer is pushed.      *)
ReadCell ==
  /\ mpc = "read"
  /\ pos' = pos + 1
  /\ i2c_frame' = Zeroed
  /\ LET cells == Append(res, i2c_frame[pos'])
     IN  IF pos' < Cells
           THEN res' = cells /\ UNCHANGED <<mpc, rx, read, sure>>
           ELSE /\ mpc' = "loop" /\ res' = <<>>
                /\ rx' = RxAfter(cells)
                /\ read' = IF IsWhole(cells) THEN Append(read, cells[1][1]) ELSE read
                /\ sure' = IF RxRoom THEN sure ELSE sure \ {sent}
  /\ UNCHANGED <<sent, acc, taken, inbuf, n_bytes, ein, epc, i, latest, prompt, resets>>

(* mcpmgr_parse_stream on rxbufs[0]: it runs until the buffer is empty.    *)
ParseRx ==
  /\ mpc \in {"loop", "parse"} /\ rx # <<>>
  /\ LET held == Parsed(acc, Head(rx))
     IN  IF Complete(held)
           THEN acc' = None /\ taken' = Append(taken, held[1])
           ELSE acc' = held /\ UNCHANGED taken
  /\ rx' = Tail(rx)
  /\ mpc' = IF rx' = <<>> THEN "loop" ELSE "parse"
  /\ UNCHANGED <<sent, pos, res, eps, ghost>>

-----------------------------------------------------------------------------
(* EPS: cmdmgr_parse_stream on i2cbufs[1].                                 *)
StartParse ==
  /\ epc = "idle" /\ inbuf # <<>>
  /\ n_bytes' = Len(inbuf)
  /\ epc' = "parse"
  /\ UNCHANGED <<uppm, inbuf, ein, i, i2c_frame, ghost>>

Pop ==
  /\ epc = "parse"
  /\ IF n_bytes = 0 \/ inbuf = <<>>
       THEN epc' = "idle" /\ UNCHANGED <<inbuf, n_bytes, ein>>
       ELSE /\ inbuf' = Tail(inbuf) /\ n_bytes' = n_bytes - 1
            /\ ein' = Parsed(ein, Head(inbuf))
            /\ epc' = IF Complete(ein') THEN "run" ELSE "parse"
  /\ UNCHANGED <<uppm, i, i2c_frame, ghost>>

(* cmdmgr_process_cmd: the command runs, for as long as it takes.          *)
Run ==
  /\ epc = "run"
  /\ latest' = ein[1]
  /\ epc' = "clear"
  /\ UNCHANGED <<uppm, inbuf, n_bytes, ein, i, i2c_frame, read, prompt, sure, resets>>

(* cmdpkt_dispatch: i2cbufs[1] is cleared, with whatever came meanwhile.   *)
ClearBuf ==
  /\ epc = "clear"
  /\ inbuf' = <<>>
  /\ epc' = "zero" /\ i' = 1
  /\ UNCHANGED <<uppm, n_bytes, ein, i2c_frame, ghost>>

ZeroCell ==
  /\ epc = "zero"
  /\ i2c_frame' = [i2c_frame EXCEPT ![i] = Zero]
  /\ IF i = Cells THEN epc' = "fill" /\ i' = 1 ELSE i' = i + 1 /\ UNCHANGED epc
  /\ UNCHANGED <<uppm, inbuf, n_bytes, ein, ghost>>

(* The cleanup of the packet follows the last cell.                        *)
FillCell ==
  /\ epc = "fill"
  /\ i2c_frame' = [i2c_frame EXCEPT ![i] = <<ein[1], i>>]
  /\ IF i = Cells
       THEN epc' = "parse" /\ ein' = None /\ i' = 1
       ELSE i' = i + 1 /\ UNCHANGED <<epc, ein>>
  /\ UNCHANGED <<uppm, inbuf, n_bytes, ghost>>

-----------------------------------------------------------------------------
(* A restart of the EPS comes at any time.  One of the UPPM ends its       *)
(* superloop, and so never comes within a dispatch.                        *)
EpsRestart ==
  /\ resets < MaxResets /\ resets' = resets + 1
  /\ inbuf' = <<>> /\ n_bytes' = 0 /\ ein' = None /\ epc' = "idle" /\ i' = 1
  /\ i2c_frame' = Blank
  /\ sure' = {}
  /\ UNCHANGED <<uppm, latest, read, prompt>>

UppmRestart ==
  /\ mpc = "loop"
  /\ resets < MaxResets /\ resets' = resets + 1
  /\ rx' = <<>> /\ acc' = None
  /\ sure' = {}
  /\ UNCHANGED <<mpc, sent, pos, res, taken, eps, latest, read, prompt>>

Dispatch == Write \/ StartRead \/ ReadCell
Superloop == StartParse \/ Pop \/ Run \/ ClearBuf \/ ZeroCell \/ FillCell

Next == Send \/ Dispatch \/ ParseRx \/ Superloop \/ EpsRestart \/ UppmRestart

Fairness == WF_vars(Dispatch) /\ WF_vars(ParseRx) /\ WF_vars(Superloop)

Spec == Init /\ [][Next]_vars /\ Fairness

-----------------------------------------------------------------------------
TypeOK ==
  /\ mpc \in {"loop", "parse", "write", "delay", "read"}
  /\ epc \in {"idle", "parse", "run", "clear", "zero", "fill"}
  /\ sent \in Nat /\ latest \in 0 .. sent
  /\ pos \in 0 .. Cells /\ i \in 1 .. Cells /\ n_bytes \in Nat
  /\ i2c_frame \in [1 .. Cells -> (0 .. sent) \X (0 .. Cells)]

(* The telemetry of the EPS is never applied twice, and never after newer  *)
(* telemetry, however answers are delayed, torn or repeated by the reads.  *)
TakenInOrder ==
  \A j, k \in DOMAIN taken : j < k => taken[j] < taken[k]

(* What the next cells would give to a read that is under way, or to one   *)
(* that begins now.                                                        *)
View == [c \in 1 .. Cells |-> IF mpc = "read" /\ c <= pos THEN res[c] ELSE i2c_frame[c]]

Mailbox ==
  INSTANCE EpsMailbox WITH
    asked <- sent,
    owed  <- epc \in {"clear", "zero", "fill"},
    box   <- IF IsWhole(View) THEN View[1][1] ELSE None,
    given <- read

(* For the UPPM the EPS is a box with at most one answer: commands are     *)
(* carried out at most once and in order, a read takes a whole answer or   *)
(* none, and an answer outlives no read.                                   *)
ImplementsMailbox == Mailbox!Spec

(* A command that meets the EPS at rest and is done within the 50 ms gets  *)
(* its own answer, at once, unless a restart comes in between or three     *)
(* answers pile up in one iteration of the superloop.                      *)
PromptIsTaken ==
  \A k \in 1 .. MaxCommands :
    (k \in sure) ~> (k \notin sure \/ k \in Range(taken))
=============================================================================
