---------------------------- MODULE SerialTransfer ----------------------------
(***************************************************************************)
(* Large transfers between two serial devices (SerialDevice.cpp): the      *)
(* sender's sendLarge, which announces a transfer, sends it in chunks,     *)
(* each acknowledged or sent again, and ends it; and the receiver's three  *)
(* handlers.  A line keeps the order of packets and loses some (a bad      *)
(* checksum); an answer may come after the sender has stopped waiting.     *)
(***************************************************************************)
EXTENDS Naturals, Sequences

CONSTANTS
  Capacity,     \* chunks that the receiver's buffer holds
  Retries,      \* LARGE_TRANSFER_SEND_RETRY_AMOUNT
  TimeoutMs,    \* how long the sender waits for an answer
  Wrap,         \* unsigned numbers are taken modulo this one
  MaxStep,      \* how much time may pass between two looks at the clock
  MaxTransfers, \* bound: transfers in a behaviour
  MaxLosses     \* bound: packets lost

ASSUME TransferAssumption ==
  /\ {Capacity, Retries, TimeoutMs, Wrap, MaxStep, MaxTransfers, MaxLosses} \subseteq Nat \ {0}
  /\ TimeoutMs < Wrap

VARIABLES
  pc,        \* the sender: "idle", or the answer it waits for
  n, size,   \* the transfer, and its size in chunks
  i, tries,  \* the chunk being sent, and how often it was sent
  rem,       \* remaining, in waitPacket
  overrun,   \* history: the clock leapt over the end of this wait
  toRx, toTx,\* the line, in both directions
  rxState, expired, expected, buff,  \* largeRxCtx
  handed,    \* what the receiver's user handler was given
  late,      \* history: did a wait end while something was on the line?
  losses     \* packets lost so far

transferVars == <<pc, n, size, i, tries, rem, toRx, toTx, rxState, expired, expected, buff,
                  handed, late, overrun, losses>>
sender == <<pc, n, size, i, tries, rem, overrun>>
receiver == <<rxState, expired, expected, buff, handed>>

Transfers == 1 .. MaxTransfers
Packet(id, t, k) == [id |-> id, t |-> t, k |-> k]

TransferInit ==
  /\ pc = "idle" /\ n = 0 /\ size = 0 /\ i = 0 /\ tries = 0 /\ rem = 0
  /\ toRx = <<>> /\ toTx = <<>>
  /\ rxState = "READY" /\ expired = FALSE /\ expected = 0
  /\ buff = [k \in 1 .. Capacity |-> 0] /\ handed = {}
  /\ late = FALSE /\ overrun = FALSE /\ losses = 0

-----------------------------------------------------------------------------
(* The sender.                                                              *)

(* streamBegin, of a buffer that may be too large for the receiver.         *)
StreamBegin ==
  /\ pc = "idle" /\ n < MaxTransfers
  /\ n' = n + 1 /\ size' \in 1 .. Capacity + 1
  /\ pc' = "BEGIN_RESP" /\ rem' = TimeoutMs /\ overrun' = FALSE
  /\ toRx' = Append(toRx, Packet("BEGIN", n + 1, size'))
  /\ UNCHANGED <<i, tries, toTx, receiver, late, losses>>

(* One turn of the retry loop of streamChunk: chunk k for the t-th time.    *)
SendChunk(k, t) ==
  /\ pc' = "ACK" /\ i' = k /\ tries' = t /\ rem' = TimeoutMs /\ overrun' = FALSE
  /\ toRx' = Append(toRx, Packet("CHUNK", n, k))

(* streamEnd: it is not acknowledged, and its outcome is not looked at.     *)
StreamEnd ==
  /\ pc' = "idle" /\ toRx' = Append(toRx, Packet("END", n, size))
  /\ UNCHANGED <<i, tries, rem, overrun>>

GiveUp == pc' = "idle" /\ UNCHANGED <<i, tries, rem, overrun, toRx>>

(* waitPacketOfId returns with the packet it waited for, whichever chunk an *)
(* ACK was meant for; packets of another kind are thrown away.              *)
Receive ==
  /\ pc # "idle" /\ rem > 0 /\ toTx # <<>>
  /\ LET p == Head(toTx)
     IN IF p.id # pc THEN UNCHANGED <<pc, i, tries, rem, overrun, toRx>>
        ELSE IF p.id = "BEGIN_RESP" THEN IF p.k = 1 THEN SendChunk(1, 1) ELSE GiveUp
        ELSE IF i < size THEN SendChunk(i + 1, 1) ELSE StreamEnd
  /\ toTx' = Tail(toTx)
  /\ UNCHANGED <<n, size, receiver, late, losses>>

(* waitPacket looks at the clock, some time after it last did.  The         *)
(* difference is unsigned: max() with 0 does nothing.                       *)
Tick ==
  /\ pc # "idle" /\ rem > 0
  /\ \E step \in 1 .. MaxStep :
       rem' = (rem + Wrap - step) % Wrap /\ overrun' = (overrun \/ step > rem)
  /\ UNCHANGED <<pc, n, size, i, tries, toRx, toTx, receiver, late, losses>>

(* What happens after a wait in vain.                                       *)
(* Seeded faults: the transfer goes on without the chunk; the retries are   *)
(* not counted.                                                             *)
AfterTimeout_GoOn ==
  IF pc = "BEGIN_RESP" THEN GiveUp
  ELSE IF tries < Retries THEN SendChunk(i, tries + 1)
  ELSE IF i < size THEN SendChunk(i + 1, 1) ELSE StreamEnd
AfterTimeout_ForEver == IF pc = "BEGIN_RESP" THEN GiveUp ELSE SendChunk(i, tries)
AfterTimeout ==
  IF pc = "ACK" /\ tries < Retries THEN SendChunk(i, tries + 1) ELSE GiveUp

(* A packet that comes at the last moment is taken from the line, but the   *)
(* wait is over all the same.                                               *)
TimeOut ==
  /\ pc # "idle" /\ rem = 0
  /\ AfterTimeout
  /\ late' = (late \/ toTx # <<>> \/ toRx # <<>>)
  /\ toTx' = IF toTx = <<>> THEN toTx ELSE Tail(toTx)
  /\ UNCHANGED <<n, size, receiver, losses>>

(* poll() between transfers.  An answer that comes now has no handler, but  *)
(* its slot is in a block that exists: get() returns a pointer to a null    *)
(* handler, which is called.  The board restarts: the sender is idle, as it *)
(* is here, and the packets that have arrived are lost.                     *)
Poll ==
  /\ pc = "idle" /\ toTx # <<>>
  /\ toTx' = Tail(toTx) \/ toTx' = <<>>
  /\ UNCHANGED <<sender, toRx, receiver, late, losses>>

-----------------------------------------------------------------------------
(* The receiver.                                                            *)

(* More than LARGERX_CHUNK_TIMEOUT_MS since the last chunk.                 *)
Expire ==
  /\ rxState = "RECVING" /\ ~expired /\ expired' = TRUE
  /\ UNCHANGED <<sender, toRx, toTx, rxState, expected, buff, handed, late, losses>>

State == IF expired THEN "READY" ELSE rxState
Arrives(id) == toRx # <<>> /\ Head(toRx).id = id /\ toRx' = Tail(toRx)
Ignore == rxState' = State /\ UNCHANGED <<expired, expected, buff, handed, toTx>>

(* A BEGIN that is not expected gets no answer.                             *)
HandleLargeTxBegin ==
  /\ Arrives("BEGIN")
  /\ LET p == Head(toRx) IN
     IF State # "READY" THEN Ignore
     ELSE /\ expected' = p.k
          /\ IF p.k > Capacity
             THEN rxState' = "READY" /\ UNCHANGED expired
             ELSE rxState' = "RECVING" /\ expired' = FALSE
          /\ toTx' = Append(toTx, Packet("BEGIN_RESP", p.t, IF p.k > Capacity THEN 0 ELSE 1))
          /\ UNCHANGED <<buff, handed>>
  /\ UNCHANGED <<sender, late, losses>>

(* A chunk beyond the buffer is cut to nothing, and acknowledged.           *)
HandleLargeTxChunk ==
  /\ Arrives("CHUNK")
  /\ LET p == Head(toRx) IN
     IF State # "RECVING" THEN Ignore
     ELSE /\ buff' = [k \in DOMAIN buff |-> IF k = p.k THEN p.t ELSE buff[k]]
          /\ toTx' = Append(toTx, Packet("ACK", p.t, p.k))
          /\ expired' = FALSE /\ UNCHANGED <<rxState, expected, handed>>
  /\ UNCHANGED <<sender, late, losses>>

(* The handler is called with the size announced, complete or not.          *)
HandleLargeTxEnd ==
  /\ Arrives("END")
  /\ LET p == Head(toRx) IN
     IF State # "RECVING" THEN Ignore
     ELSE /\ handed' = handed \cup {[t |-> p.t, sent |-> p.k, size |-> expected, buff |-> buff]}
          /\ rxState' = "READY" /\ expired' = TRUE
          /\ UNCHANGED <<expected, buff, toTx>>
  /\ UNCHANGED <<sender, late, losses>>

(* A packet with a bad checksum is dropped (external).                      *)
Lose ==
  /\ losses < MaxLosses /\ losses' = losses + 1
  /\ \/ toRx # <<>> /\ toRx' = Tail(toRx) /\ UNCHANGED toTx
     \/ toTx # <<>> /\ toTx' = Tail(toTx) /\ UNCHANGED toRx
  /\ UNCHANGED <<sender, receiver, late>>

Sender == Receive \/ Tick \/ TimeOut
Receiver == HandleLargeTxBegin \/ HandleLargeTxChunk \/ HandleLargeTxEnd
TransferNext == StreamBegin \/ Sender \/ Poll \/ Receiver \/ Expire \/ Lose

(* Both devices poll, and the clock advances while the sender waits.        *)
TransferSpec ==
  /\ TransferInit /\ [][TransferNext]_transferVars
  /\ WF_transferVars(Sender) /\ WF_transferVars(Receiver)

-----------------------------------------------------------------------------
(* Properties.                                                              *)

(* As long as every answer comes while it is awaited, what the receiver's   *)
(* user handler is given is what one transfer sent, whole: lost packets,    *)
(* abandoned transfers and the receiver's own timeout leave no mixture.     *)
(* (A late ACK is taken for the next chunk's: then this does not hold.)     *)
Intact ==
  \A h \in handed : ~late =>
    h.size = h.sent /\ \A k \in 1 .. h.size : h.buff[k] = h.t

(* sendLarge returns, whatever is lost, refused or ignored, unless the      *)
(* clock leaps over the end of a wait, which then ends when the unsigned    *)
(* remainder has gone round, if ever (waitPacket; README.md, findings).     *)
Returns == pc # "idle" ~> (pc = "idle" \/ overrun)
=============================================================================
