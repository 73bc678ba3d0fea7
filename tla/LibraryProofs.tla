---------------------------- MODULE LibraryProofs ----------------------------
(***************************************************************************)
(* The libraries below the nodes.                                          *)
(*                                                                         *)
(*   NothingLost of HeadDriver, for any number of writes and of failures:  *)
(*   the invariant follows a value from the field through neck and buffer  *)
(*   to the line.                                                          *)
(*                                                                         *)
(*   Intact of SerialTransfer, for buffers of any size and any number of   *)
(*   transfers, retries and losses: as long as no answer is late, sender   *)
(*   and receiver go in step.                                              *)
(*                                                                         *)
(*   Stoppable of BehaviorEngine, for any behaviors, priorities and number *)
(*   of plays: executor, engine and registry agree at every moment of a    *)
(*   tick.                                                                 *)
(***************************************************************************)
EXTENDS HeadDriver, SerialTransfer, BehaviorEngine, TLAPS

-----------------------------------------------------------------------------
(* The head's driver.                                                       *)

(* Every variable that matters here has its type. *)
HeadTypes ==
  /\ val \in [Fields -> Nat] /\ neck \in Nat /\ writes \in Nat
  /\ dirty \in [Packets -> BOOLEAN] /\ raced \in [Packets -> BOOLEAN]
  /\ DOMAIN buf = Packets /\ DOMAIN sent = Packets

(* The neck computed at the start of the flush is the neck that is packed.  *)
NeckFresh == at = "pack" /\ ~raced["motion"] => neck = val["neck"]

(* The stages at which a packet's buffer is still to be sent.               *)
Ahead(p) == IF p = "motion" THEN {"motion"} ELSE {"motion", "clear motion", "failed", "leds"}

BufFresh ==
  \A p \in Packets : at \in Ahead(p) /\ dirty[p] /\ ~raced[p] => buf[p] = Current(p)

Clearing(p) == IF p = "motion" THEN "clear motion" ELSE "clear leds"

SentFresh == \A p \in Packets : at = Clearing(p) /\ ~raced[p] => sent[p] = Current(p)

(* NothingLost, at every moment of a flush.                                 *)
CleanIsSent == \A p \in Packets : ~dirty[p] /\ ~raced[p] => sent[p] = Current(p)

HeadInv == HeadTypes /\ NeckFresh /\ BufFresh /\ SentFresh /\ CleanIsSent

(* In the initial state nothing is dirty and nothing is on its way.         *)
LEMMA HeadInit == Init => HeadInv
  BY DEF Init, HeadInv, HeadTypes, NeckFresh, BufFresh, SentFresh, CleanIsSent, Ahead,
         Clearing, Fields, Packets, Current, Content

(* Every step of write, begin, deinit and flush keeps the invariant.        *)
LEMMA HeadStep == HeadInv /\ [Next]_vars => HeadInv'
<1> SUFFICES ASSUME HeadInv, [Next]_vars PROVE HeadInv'
  OBVIOUS
<1> USE DEF HeadInv, HeadTypes, NeckFresh, BufFresh, SentFresh, CleanIsSent, Ahead, Clearing,
            Packets, Current, Content
<1>1. ASSUME NEW f \in Fields, NEW neg \in BOOLEAN, Write(f, neg) PROVE HeadInv'
  <2> DEFINE q == PacketOf(f)
  <2>1. q \in Packets /\ dirty'[q] /\ (raced'[q] <=> at # "idle")
    BY <1>1 DEF Write, Fields, PacketOf
  <2>2. \A p \in Packets \ {q} :
          dirty'[p] = dirty[p] /\ raced'[p] = raced[p] /\ Current(p)' = Current(p)
    BY <1>1 DEF Write, Fields, PacketOf
  <2>3. HeadTypes'
    <3>1. raced' \in [Packets -> BOOLEAN]
      BY <1>1 DEF Write, PacketOf, Fields
    <3>2. dirty' \in [Packets -> BOOLEAN]
      BY <1>1 DEF Write, PacketOf, Fields
    <3>3. val' \in [Fields -> Nat]
      <4> HIDE DEF NeckFresh, BufFresh, SentFresh, CleanIsSent
      <4>1. val \in [Fields -> Nat] /\ writes + 1 \in Nat
        OBVIOUS
      <4>2. val' = [val EXCEPT ![f] = writes + 1]
        BY <1>1 DEF Write
      <4> HIDE DEF HeadInv
      <4> QED BY <4>1, <4>2
    <3> QED BY <1>1, <3>1, <3>2, <3>3 DEF Write
  <2>4. NeckFresh'
    <3>1. CASE q = "motion"
      BY <1>1, <2>1, <3>1 DEF Write
    <3>2. CASE q = "leds"
      BY <1>1, <2>2, <3>2 DEF Write, PacketOf, Fields
    <3> QED BY <2>1, <3>1, <3>2
  <2>5. at' = at /\ buf' = buf /\ sent' = sent
    BY <1>1 DEF Write
  <2> HIDE DEF q, HeadTypes, NeckFresh, Current, Ahead, Clearing
  <2>6. BufFresh' /\ SentFresh' /\ CleanIsSent'
    <3> SUFFICES ASSUME NEW p \in Packets
                 PROVE  /\ at' \in Ahead(p) /\ dirty'[p] /\ ~raced'[p] => buf'[p] = Current(p)'
                        /\ at' = Clearing(p) /\ ~raced'[p] => sent'[p] = Current(p)'
                        /\ ~dirty'[p] /\ ~raced'[p] => sent'[p] = Current(p)'
      OBVIOUS
    <3>1. CASE p = q
      BY <2>1, <2>5, <3>1 DEF Ahead, Clearing
    <3>2. CASE p # q
      BY <2>2, <2>5, <3>2
    <3> QED BY <3>1, <3>2
  <2> QED BY <2>3, <2>4, <2>6
<1>2. CASE BeginFails \/ Begin \/ Deinit
  BY <1>2 DEF BeginFails, Begin, Deinit, Fields
<1>3. CASE FlushStart
  BY <1>3 DEF FlushStart, Fields
<1>4. CASE Pack
  BY <1>4 DEF Pack, Finish
<1>5. ASSUME NEW p \in Packets, Send(p) PROVE HeadInv'
  <2>1. CASE p = "motion"
    BY <1>5, <2>1 DEF Send, Due, After
  <2>2. CASE p = "leds"
    BY <1>5, <2>2 DEF Send, Due, After
  <2> QED BY <2>1, <2>2
<1>6. ASSUME NEW p \in Packets, Clear(p) PROVE HeadInv'
  BY <1>6 DEF Clear, After
<1>7. CASE AfterFailure \/ FlushEnds
  BY <1>7 DEF AfterFailure, FlushEnds, Keep, Finish
<1>8. CASE UNCHANGED vars
  BY <1>8 DEF vars
<1> QED BY <1>1, <1>2, <1>3, <1>4, <1>5, <1>6, <1>7, <1>8 DEF Next, Flush

(* Nothing written to the head's driver is lost, however many transmissions *)
(* fail: a packet that is not dirty was sent with its fields' values, unless *)
(* its last write came during a flush (write, flush).                       *)
THEOREM NothingIsLost == Spec => []NothingLost
<1>1. HeadInv => NothingLost
  BY DEF HeadInv, CleanIsSent, NothingLost
<1> QED BY <1>1, HeadInit, HeadStep, PTL DEF Spec

-----------------------------------------------------------------------------
(* Large transfers.                                                         *)

(* Every variable that matters here has its type.                           *)
TransferTypes ==
  /\ n \in Nat /\ size \in 0 .. Capacity + 1 /\ i \in Nat
  /\ late \in BOOLEAN /\ DOMAIN buff = 1 .. Capacity

(* A receiver that is receiving expects the k chunks of transfer t, which   *)
(* fit, and has its first m.                                                *)
Filled(t, k, m) ==
  State = "RECVING" => expected = k /\ k <= Capacity /\ \A j \in 1 .. m : buff[j] = t

(* The five situations in which the two ends can be while no answer is      *)
(* late: there is never more on the lines than the one packet that is       *)
(* awaited, but for the END of the transfer before.                         *)
Quiet == pc = "idle" /\ toTx = <<>> /\ toRx \in {<<>>, <<Packet("END", n, size)>>}

Asked ==
  /\ pc = "BEGIN_RESP" /\ size >= 1 /\ toTx = <<>>
  /\ \/ toRx \in {<<>>, <<Packet("BEGIN", n, size)>>}
     \/ \E t \in 0 .. n, k \in 0 .. Capacity + 1 :
          toRx = <<Packet("END", t, k), Packet("BEGIN", n, size)>>

Answered ==
  /\ pc = "BEGIN_RESP" /\ size >= 1 /\ toRx = <<>>
  /\ \E k \in {0, 1} : toTx = <<Packet("BEGIN_RESP", n, k)>> /\ (k = 1 => Filled(n, size, 0))

Sending ==
  /\ pc = "ACK" /\ i \in 1 .. size /\ Filled(n, size, i - 1)
  /\ toTx = <<>> /\ toRx \in {<<>>, <<Packet("CHUNK", n, i)>>}

Acknowledged ==
  /\ pc = "ACK" /\ i \in 1 .. size /\ Filled(n, size, i)
  /\ toRx = <<>> /\ toTx = <<Packet("ACK", n, i)>>

InStep == Quiet \/ Asked \/ Answered \/ Sending \/ Acknowledged

(* A receiver that is receiving when an END comes has that transfer whole.  *)
Whole ==
  toRx # <<>> => (Head(toRx).id = "END" => Filled(Head(toRx).t, Head(toRx).k, Head(toRx).k))

TransferInv == TransferTypes /\ Intact /\ (~late => InStep /\ Whole)

(* What Append adds to a sequence.                                          *)
LEMMA Appended ==
  ASSUME NEW S, NEW s \in Seq(S), NEW e \in S
  PROVE  /\ Append(s, e) \in Seq(S) /\ Len(Append(s, e)) = Len(s) + 1
         /\ \A k \in 1 .. Len(s) : Append(s, e)[k] = s[k]
         /\ Append(s, e)[Len(s) + 1] = e
  OBVIOUS

(* The sequences of one and two packets that occur on the lines.            *)
LEMMA Lines ==
  ASSUME NEW a, NEW b
  PROVE  /\ <<a>> # <<>> /\ Head(<<a>>) = a /\ Tail(<<a>>) = <<>> /\ Append(<<>>, a) = <<a>>
         /\ <<a, b>> # <<>> /\ Head(<<a, b>>) = a /\ Tail(<<a, b>>) = <<b>>
         /\ Append(<<a>>, b) = <<a, b>>
<1> DEFINE S == {a, b}
           s == <<a>>
           u == Append(s, b)
           w == <<a, b>>
<1>1. s \in Seq(S) /\ Len(s) = 1 /\ s[1] = a /\ b \in S
  OBVIOUS
<1>2. w \in Seq(S) /\ Len(w) = 2 /\ w[1] = a /\ w[2] = b
  OBVIOUS
<1> HIDE DEF S, s, w
<1>3. /\ u \in Seq(S) /\ Len(u) = Len(s) + 1 /\ u[Len(s) + 1] = b
      /\ \A k \in 1 .. Len(s) : u[k] = s[k]
  BY <1>1, Appended
<1> HIDE DEF u
<1>4. u = w
  BY <1>1, <1>2, <1>3
<1>5. /\ <<a>> # <<>> /\ Head(<<a>>) = a /\ Tail(<<a>>) = <<>> /\ Append(<<>>, a) = <<a>>
      /\ <<a, b>> # <<>> /\ Head(<<a, b>>) = a /\ Tail(<<a, b>>) = <<b>>
  OBVIOUS
<1> QED BY <1>4, <1>5 DEF u, w, s

(* The fields of a packet.                                                  *)
LEMMA PacketFields ==
  ASSUME NEW id, NEW t, NEW k
  PROVE  Packet(id, t, k).id = id /\ Packet(id, t, k).t = t /\ Packet(id, t, k).k = k
  BY DEF Packet

(* At first nothing is on the lines.                                        *)
LEMMA TransferBegins == TransferInit => TransferInv
<1> SUFFICES ASSUME TransferInit PROVE TransferInv
  OBVIOUS
<1>1. TransferTypes
  <2>1. Capacity \in Nat
    BY TransferAssumption
  <2>2. n \in Nat /\ i \in Nat /\ size \in 0 .. Capacity + 1
    BY <2>1 DEF TransferInit
  <2>3. late \in BOOLEAN /\ DOMAIN buff = 1 .. Capacity
    BY DEF TransferInit
  <2> QED BY <2>2, <2>3 DEF TransferTypes
<1>2. Intact
  BY DEF TransferInit, Intact
<1>3. Quiet /\ Whole
  BY DEF TransferInit, Quiet, Whole
<1> QED BY <1>1, <1>2, <1>3 DEF TransferInv, InStep

(* Types do not depend on anything else.                                    *)
LEMMA TransferTyped ==
  ASSUME TransferTypes, [TransferNext]_transferVars PROVE TransferTypes'
<1> USE TransferAssumption DEF TransferTypes
<1>1. CASE StreamBegin
  BY <1>1 DEF StreamBegin, receiver
<1>2. CASE Receive
  BY <1>2 DEF Receive, SendChunk, GiveUp, StreamEnd, receiver
<1>3. CASE TimeOut
  <2>1. i' \in Nat
    BY <1>3 DEF TimeOut, AfterTimeout, SendChunk, GiveUp
  <2>2. late' \in BOOLEAN
    BY <1>3 DEF TimeOut
  <2> QED BY <1>3, <2>1, <2>2 DEF TimeOut, receiver
<1>4. CASE Tick \/ Poll \/ Expire \/ Lose
  BY <1>4 DEF Tick, Poll, Expire, Lose, sender, receiver
<1>5. CASE HandleLargeTxBegin
  BY <1>5 DEF HandleLargeTxBegin, Ignore, sender
<1>6. CASE HandleLargeTxChunk
  BY <1>6 DEF HandleLargeTxChunk, Ignore, sender
<1>7. CASE HandleLargeTxEnd
  BY <1>7 DEF HandleLargeTxEnd, Ignore, sender
<1>8. CASE UNCHANGED transferVars
  BY <1>8 DEF transferVars
<1> QED BY <1>1, <1>2, <1>3, <1>4, <1>5, <1>6, <1>7, <1>8 DEF TransferNext, Sender, Receiver

(* What the sender does keeps the two ends in step.                         *)
LEMMA SenderInStep ==
  ASSUME TransferTypes, InStep, Whole, StreamBegin \/ Receive \/ TimeOut, ~late'
  PROVE  InStep' /\ Whole'
<1> USE TransferAssumption, PacketFields, Lines
<1> USE DEF TransferTypes
<1>1. CASE StreamBegin
  <2> DEFINE b == Packet("BEGIN", n', size')
  <2>1. pc = "idle" /\ n' = n + 1 /\ size' \in 1 .. Capacity + 1 /\ pc' = "BEGIN_RESP"
    BY <1>1 DEF StreamBegin
  <2>2. toRx' = Append(toRx, b) /\ toTx' = toTx
    BY <1>1 DEF StreamBegin
  <2>3. State' = State /\ expected' = expected /\ buff' = buff
    BY <1>1 DEF StreamBegin, receiver, State
  <2>4. Quiet
    BY <2>1 DEF InStep, Quiet, Asked, Answered, Sending, Acknowledged
  <2>5. CASE toRx = <<>>
    <3>1. toRx' = <<b>> /\ Head(toRx') = b /\ b.id = "BEGIN"
      BY <2>2, <2>5
    <3>2. Asked'
      <4>1. size' >= 1 /\ toTx' = <<>>
        BY <2>1, <2>2, <2>4 DEF Quiet
      <4> QED BY <2>1, <3>1, <4>1 DEF Asked
    <3>3. Whole'
      BY <3>1 DEF Whole
    <3> QED BY <3>2, <3>3 DEF InStep
  <2>6. CASE toRx = <<Packet("END", n, size)>>
    <3> DEFINE e == Packet("END", n, size)
    <3> HIDE DEF b
    <3>1. toRx' = <<e, b>> /\ Head(toRx') = Head(toRx) /\ toRx # <<>>
      <4>1. toRx = <<e>>
        BY <2>6
      <4> HIDE DEF e
      <4>2. Append(<<e>>, b) = <<e, b>> /\ Head(<<e, b>>) = Head(<<e>>) /\ <<e>> # <<>>
        BY Lines
      <4> QED BY <2>2, <4>1, <4>2
    <3>2. n \in 0 .. n' /\ size \in 0 .. Capacity + 1
      BY <2>1
    <3>3. Asked'
      <4>1. size' >= 1 /\ toTx' = <<>>
        BY <2>1, <2>2, <2>4 DEF Quiet
      <4> HIDE TransferAssumption, PacketFields, Lines
      <4> QED BY <2>1, <3>1, <3>2, <4>1 DEF Asked, b
    <3>4. Whole'
      BY <2>3, <3>1 DEF Whole, Filled
    <3> QED BY <3>3, <3>4 DEF InStep
  <2> QED BY <2>4, <2>5, <2>6 DEF Quiet
<1>2. CASE Receive
  <2>1. State' = State /\ expected' = expected /\ buff' = buff
    BY <1>2 DEF Receive, receiver, State
  <2>2. n' = n /\ size' = size /\ toTx # <<>> /\ toTx' = Tail(toTx) /\ pc # "idle"
    BY <1>2 DEF Receive
  <2>3. CASE Answered
    <3>1. PICK k \in {0, 1} : /\ toTx = <<Packet("BEGIN_RESP", n, k)>>
                              /\ k = 1 => Filled(n, size, 0)
      BY <2>3 DEF Answered
    <3>2. Head(toTx).id = "BEGIN_RESP" /\ Head(toTx).k = k /\ toTx' = <<>>
      BY <2>2, <3>1
    <3>3. pc = "BEGIN_RESP" /\ toRx = <<>> /\ size >= 1
      BY <2>3 DEF Answered
    <3>4. CASE k = 1
      <4>1. SendChunk(1, 1)
        BY <1>2, <3>2, <3>3, <3>4 DEF Receive
      <4>2. toRx' = <<Packet("CHUNK", n', i')>> /\ i' = 1 /\ pc' = "ACK"
        BY <2>2, <3>3, <4>1 DEF SendChunk
      <4>3. Filled(n, size, 0)'
        BY <2>1, <2>2, <3>1, <3>4 DEF Filled
      <4>4. Sending'
        BY <2>2, <3>2, <3>3, <4>2, <4>3 DEF Sending, Filled
      <4>5. Whole'
        BY <4>2 DEF Whole
      <4> QED BY <4>4, <4>5 DEF InStep
    <3>5. CASE k = 0
      <4>1. GiveUp
        BY <1>2, <3>2, <3>3, <3>5 DEF Receive
      <4>2. Quiet' /\ Whole'
        BY <3>2, <3>3, <4>1 DEF GiveUp, Quiet, Whole
      <4> QED BY <4>2 DEF InStep
    <3> QED BY <3>4, <3>5
  <2>4. CASE Acknowledged
    <3>1. /\ Head(toTx).id = "ACK" /\ toTx' = <<>> /\ pc = "ACK" /\ toRx = <<>>
          /\ i \in 1 .. size /\ Filled(n, size, i)
      BY <2>2, <2>4 DEF Acknowledged
    <3>2. CASE i < size
      <4>1. SendChunk(i + 1, 1)
        BY <1>2, <3>1, <3>2 DEF Receive
      <4>2. toRx' = <<Packet("CHUNK", n', i')>> /\ i' = i + 1 /\ pc' = "ACK"
        BY <2>2, <3>1, <4>1 DEF SendChunk
      <4>3. i' - 1 = i /\ i' \in 1 .. size'
        BY <2>2, <3>1, <3>2, <4>2
      <4>4. Filled(n, size, i - 1)'
        <5> HIDE TransferAssumption, PacketFields, Lines
        <5> QED BY <2>1, <2>2, <3>1, <4>3 DEF Filled
      <4>5. Sending'
        BY <2>2, <3>1, <4>2, <4>3, <4>4 DEF Sending
      <4>6. Whole'
        BY <4>2 DEF Whole
      <4> QED BY <4>5, <4>6 DEF InStep
    <3>3. CASE ~(i < size)
      <4>1. StreamEnd
        BY <1>2, <3>1, <3>3 DEF Receive
      <4>2. i = size
        BY <3>1, <3>3
      <4>3. toRx' = <<Packet("END", n', size')>> /\ pc' = "idle"
        BY <2>2, <3>1, <4>1 DEF StreamEnd
      <4>4. Quiet'
        BY <3>1, <4>3 DEF Quiet
      <4>5. Filled(n, size, size)'
        <5> HIDE TransferAssumption, PacketFields, Lines
        <5> QED BY <2>1, <2>2, <3>1, <4>2 DEF Filled
      <4>6. Head(toRx').t = n' /\ Head(toRx').k = size'
        BY <4>3
      <4>7. Whole'
        BY <4>5, <4>6 DEF Whole, Filled
      <4> QED BY <4>4, <4>7 DEF InStep
    <3> QED BY <3>2, <3>3
  <2> QED BY <2>2, <2>3, <2>4 DEF InStep, Quiet, Asked, Sending
<1>3. CASE TimeOut
  <2>1. toTx = <<>> /\ toRx = <<>> /\ toTx' = <<>> /\ n' = n /\ size' = size /\ pc # "idle"
    BY <1>3 DEF TimeOut
  <2>2. State' = State /\ expected' = expected /\ buff' = buff
    BY <1>3 DEF TimeOut, receiver, State
  <2>3. CASE pc = "ACK" /\ tries < Retries
    <3>1. SendChunk(i, tries + 1)
      BY <1>3, <2>3 DEF TimeOut, AfterTimeout
    <3>2. toRx' = <<Packet("CHUNK", n', i')>> /\ i' = i /\ pc' = "ACK"
      BY <2>1, <3>1 DEF SendChunk
    <3>3. Sending
      BY <2>1, <2>3 DEF InStep, Quiet, Asked, Answered, Acknowledged
    <3>4. Filled(n, size, i - 1)'
      <4> HIDE TransferAssumption, PacketFields, Lines
      <4> QED BY <2>1, <2>2, <3>2, <3>3 DEF Sending, Filled
    <3>5. Sending'
      BY <2>1, <3>2, <3>3, <3>4 DEF Sending
    <3>6. Whole'
      BY <3>2 DEF Whole
    <3> QED BY <3>5, <3>6 DEF InStep
  <2>4. CASE ~(pc = "ACK" /\ tries < Retries)
    <3>1. GiveUp
      BY <1>3, <2>4 DEF TimeOut, AfterTimeout
    <3>2. Quiet' /\ Whole'
      BY <2>1, <3>1 DEF GiveUp, Quiet, Whole
    <3> QED BY <3>2 DEF InStep
  <2> QED BY <2>3, <2>4
<1> QED BY <1>1, <1>2, <1>3

(* What the receiver does keeps them in step, and what it hands over when   *)
(* an END comes is whole.                                                   *)
LEMMA ReceiverInStep ==
  ASSUME TransferTypes, InStep, Whole, Receiver
  PROVE  /\ InStep' /\ Whole'
         /\ \A h \in handed' \ handed :
              h.size = h.sent /\ \A k \in 1 .. h.size : h.buff[k] = h.t
<1> USE PacketFields, Lines
<1>1. HandleLargeTxBegin \/ HandleLargeTxChunk \/ HandleLargeTxEnd
  BY DEF Receiver
<1>2. toRx # <<>> /\ toRx' = Tail(toRx)
  BY <1>1 DEF HandleLargeTxBegin, HandleLargeTxChunk, HandleLargeTxEnd, Arrives
<1>3. pc' = pc /\ n' = n /\ size' = size /\ i' = i
  BY <1>1 DEF HandleLargeTxBegin, HandleLargeTxChunk, HandleLargeTxEnd, sender
<1>4. CASE HandleLargeTxBegin
  <2>1. Head(toRx).id = "BEGIN"
    BY <1>4 DEF HandleLargeTxBegin, Arrives
  <2>2. Asked /\ toRx = <<Packet("BEGIN", n, size)>>
    BY <1>2, <2>1 DEF InStep, Quiet, Asked, Answered, Sending, Acknowledged
  <2>3. toRx' = <<>> /\ Whole' /\ handed' = handed
    BY <1>2, <1>4, <2>2 DEF HandleLargeTxBegin, Ignore, Whole
  <2>4. CASE State # "READY"
    <3>1. toTx' = toTx
      BY <1>4, <2>4 DEF HandleLargeTxBegin, Ignore
    <3>2. Asked'
      BY <1>3, <2>2, <2>3, <3>1 DEF Asked
    <3> QED BY <2>3, <3>2 DEF InStep
  <2>5. CASE State = "READY"
    <3> DEFINE k == IF size > Capacity THEN 0 ELSE 1
    <3>1. toTx' = Append(toTx, Packet("BEGIN_RESP", n, k)) /\ expected' = size
      BY <1>4, <2>2, <2>5 DEF HandleLargeTxBegin
    <3>2. toTx' = <<Packet("BEGIN_RESP", n', k)>> /\ k \in {0, 1}
      BY <1>3, <2>2, <3>1 DEF Asked
    <3>3. k = 1 => Filled(n, size, 0)'
      BY <1>3, <3>1, TransferAssumption DEF Filled, TransferTypes
    <3> HIDE DEF k
    <3>4. Answered'
      BY <1>3, <2>2, <2>3, <3>2, <3>3 DEF Answered, Asked
    <3> QED BY <2>3, <3>4 DEF InStep
  <2> QED BY <2>4, <2>5
<1>5. CASE HandleLargeTxChunk
  <2>1. Head(toRx).id = "CHUNK"
    BY <1>5 DEF HandleLargeTxChunk, Arrives
  <2>2. Sending /\ toRx = <<Packet("CHUNK", n, i)>>
    BY <1>2, <2>1 DEF InStep, Quiet, Asked, Answered, Sending, Acknowledged
  <2>3. toRx' = <<>> /\ Whole' /\ handed' = handed
    BY <1>2, <1>5, <2>2 DEF HandleLargeTxChunk, Ignore, Whole
  <2>4. CASE State # "RECVING"
    <3>1. Ignore
      BY <1>5, <2>4 DEF HandleLargeTxChunk
    <3>2. Filled(n, size, i - 1)'
      <4>1. State' # "RECVING"
        BY <2>4, <3>1 DEF Ignore, State
      <4> QED BY <4>1 DEF Filled
    <3>3. Sending'
      BY <1>3, <2>2, <2>3, <3>1, <3>2 DEF Sending, Ignore
    <3> QED BY <2>3, <3>3 DEF InStep
  <2>5. CASE State = "RECVING"
    <3>1. /\ buff' = [j \in DOMAIN buff |-> IF j = i THEN n ELSE buff[j]]
          /\ toTx' = Append(toTx, Packet("ACK", n, i)) /\ expected' = expected
      BY <1>5, <2>2, <2>5 DEF HandleLargeTxChunk
    <3>2. toTx' = <<Packet("ACK", n', i')>>
      BY <1>3, <2>2, <3>1 DEF Sending
    <3>3. /\ expected = size /\ size <= Capacity /\ \A j \in 1 .. i - 1 : buff[j] = n
          /\ i \in 1 .. size
      BY <2>2, <2>5 DEF Sending, Filled
    <3>4. \A j \in 1 .. i : buff'[j] = n
      <4> HIDE PacketFields, Lines
      <4> SUFFICES ASSUME NEW j \in 1 .. i PROVE buff'[j] = n
        OBVIOUS
      <4>1. j \in DOMAIN buff
        BY <3>3, TransferAssumption DEF TransferTypes
      <4>2. CASE j = i
        BY <3>1, <4>1, <4>2
      <4>3. CASE j # i
        <5>1. j \in 1 .. i - 1
          BY <3>3, <4>3 DEF TransferTypes
        <5> QED BY <3>1, <3>3, <4>1, <4>3, <5>1
      <4> QED BY <4>2, <4>3
    <3>5. Filled(n, size, i)'
      BY <1>3, <3>1, <3>3, <3>4 DEF Filled
    <3>6. Acknowledged'
      BY <1>3, <2>2, <2>3, <3>2, <3>3, <3>5 DEF Acknowledged, Sending
    <3> QED BY <2>3, <3>6 DEF InStep
  <2> QED BY <2>4, <2>5
<1>6. CASE HandleLargeTxEnd
  <2>1. Head(toRx).id = "END"
    BY <1>6 DEF HandleLargeTxEnd, Arrives
  <2>2. toTx' = toTx
    BY <1>6 DEF HandleLargeTxEnd, Ignore
  <2>3. InStep' /\ Whole'
    <3>1. CASE Quiet
      <4>1. toRx' = <<>>
        BY <1>2, <3>1 DEF Quiet
      <4> QED BY <1>3, <2>2, <3>1, <4>1 DEF Quiet, InStep, Whole
    <3>2. CASE Asked
      <4>1. toRx' = <<Packet("BEGIN", n, size)>>
        <5>1. toRx # <<Packet("BEGIN", n, size)>>
          BY <2>1
        <5>2. PICK t \in 0 .. n, k \in 0 .. Capacity + 1 :
                toRx = <<Packet("END", t, k), Packet("BEGIN", n, size)>>
          BY <1>2, <3>2, <5>1 DEF Asked
        <5> QED BY <1>2, <5>2
      <4>2. Asked'
        BY <1>3, <2>2, <3>2, <4>1 DEF Asked
      <4> QED BY <4>1, <4>2 DEF InStep, Whole
    <3> QED BY <1>2, <2>1, <3>1, <3>2 DEF InStep, Answered, Sending, Acknowledged
  <2>4. CASE State # "RECVING"
    BY <1>6, <2>3, <2>4 DEF HandleLargeTxEnd, Ignore
  <2>5. CASE State = "RECVING"
    <3> DEFINE p == Head(toRx)
               g == [t |-> p.t, sent |-> p.k, size |-> expected, buff |-> buff]
    <3>1. handed' = handed \cup {g}
      BY <1>6, <2>5 DEF HandleLargeTxEnd
    <3>2. expected = p.k /\ \A k \in 1 .. p.k : buff[k] = p.t
      BY <1>2, <2>1, <2>5 DEF Whole, Filled
    <3>3. g.size = g.sent /\ \A k \in 1 .. g.size : g.buff[k] = g.t
      BY <3>2
    <3> HIDE DEF g
    <3> QED BY <2>3, <3>1, <3>3
  <2> QED BY <2>4, <2>5
<1> QED BY <1>1, <1>4, <1>5, <1>6

(* So does the loss of a packet: the sender waits for it in vain.           *)
LEMMA LossInStep ==
  ASSUME TransferTypes, InStep, Whole, Lose PROVE InStep' /\ Whole'
<1> USE PacketFields, Lines
<1>1. /\ pc' = pc /\ n' = n /\ size' = size /\ i' = i
      /\ State' = State /\ expected' = expected /\ buff' = buff
  BY DEF Lose, sender, receiver, State
<1>2. CASE toRx # <<>> /\ toRx' = Tail(toRx) /\ toTx' = toTx
  <2>1. CASE Quiet
    <3>1. toRx' = <<>>
      BY <1>2, <2>1 DEF Quiet
    <3> QED BY <1>1, <1>2, <2>1, <3>1 DEF Quiet, InStep, Whole
  <2>2. CASE Asked
    <3>1. toRx' \in {<<>>, <<Packet("BEGIN", n, size)>>}
      BY <1>2, <2>2 DEF Asked
    <3>2. Asked'
      BY <1>1, <1>2, <2>2, <3>1 DEF Asked
    <3> QED BY <3>1, <3>2 DEF InStep, Whole
  <2>3. CASE Sending
    <3>1. toRx' = <<>>
      BY <1>2, <2>3 DEF Sending
    <3>2. Filled(n, size, i - 1)'
      BY <1>1, <2>3 DEF Sending, Filled
    <3> QED BY <1>1, <1>2, <2>3, <3>1, <3>2 DEF Sending, InStep, Whole
  <2> QED BY <1>2, <2>1, <2>2, <2>3 DEF InStep, Answered, Acknowledged
<1>3. CASE toTx # <<>> /\ toTx' = Tail(toTx) /\ toRx' = toRx
  <2>1. CASE Answered
    <3>1. toTx' = <<>>
      BY <1>3, <2>1 DEF Answered
    <3> QED BY <1>1, <1>3, <2>1, <3>1 DEF Answered, Asked, InStep, Whole
  <2>2. CASE Acknowledged
    <3>1. toTx' = <<>>
      BY <1>3, <2>2 DEF Acknowledged
    <3>2. Filled(n, size, i - 1)'
      BY <1>1, <2>2 DEF Acknowledged, Filled, TransferTypes
    <3> QED BY <1>1, <1>3, <2>2, <3>1, <3>2 DEF Acknowledged, Sending, InStep, Whole
  <2> QED BY <1>3, <2>1, <2>2 DEF InStep, Quiet, Asked, Sending
<1> QED BY <1>2, <1>3 DEF Lose

(* Every step of sender, receiver and line keeps the invariant.             *)
LEMMA TransferStep == TransferInv /\ [TransferNext]_transferVars => TransferInv'
<1> SUFFICES ASSUME TransferInv, [TransferNext]_transferVars PROVE TransferInv'
  OBVIOUS
<1>1. TransferTypes'
  BY TransferTyped DEF TransferInv
<1>2. CASE late'
  BY <1>1, <1>2 DEF TransferInv, Intact
<1>3. CASE ~late'
  <2>1. ~late
    BY <1>3 DEF TransferNext, Sender, Receiver, transferVars, StreamBegin, Receive, Tick, TimeOut,
                Poll, Expire, Lose, HandleLargeTxBegin, HandleLargeTxChunk, HandleLargeTxEnd
  <2>2. TransferTypes /\ InStep /\ Whole
    BY <2>1 DEF TransferInv
  <2>3. \A h \in handed : h.size = h.sent /\ \A k \in 1 .. h.size : h.buff[k] = h.t
    BY <2>1 DEF TransferInv, Intact
  <2>4. CASE StreamBegin \/ Receive \/ TimeOut
    <3>1. InStep' /\ Whole'
      BY <1>3, <2>2, <2>4, SenderInStep
    <3>2. handed' = handed
      BY <2>4 DEF StreamBegin, Receive, TimeOut, receiver
    <3> QED BY <1>1, <2>3, <3>1, <3>2 DEF TransferInv, Intact
  <2>5. CASE Receiver
    <3>1. /\ InStep' /\ Whole'
          /\ \A h \in handed' \ handed :
               h.size = h.sent /\ \A k \in 1 .. h.size : h.buff[k] = h.t
      BY <2>2, <2>5, ReceiverInStep
    <3>2. Intact'
      BY <2>3, <3>1 DEF Intact
    <3> QED BY <1>1, <3>1, <3>2 DEF TransferInv
  <2>6. CASE Lose
    <3>1. InStep' /\ Whole'
      BY <2>2, <2>6, LossInStep
    <3>2. handed' = handed
      BY <2>6 DEF Lose, receiver
    <3> QED BY <1>1, <2>3, <3>1, <3>2 DEF TransferInv, Intact
  <2>7. CASE Poll
    BY <2>2, <2>7 DEF Poll, InStep, Quiet, Asked, Answered, Sending, Acknowledged
  <2>8. CASE Expire
    <3>1. /\ pc' = pc /\ n' = n /\ size' = size /\ i' = i /\ toRx' = toRx /\ toTx' = toTx
          /\ handed' = handed /\ State' = "READY"
      BY <2>8 DEF Expire, sender, State
    <3>2. InStep'
      BY <2>2, <3>1 DEF InStep, Quiet, Asked, Answered, Sending, Acknowledged, Filled
    <3>3. Whole'
      BY <3>1 DEF Whole, Filled
    <3> QED BY <1>1, <2>3, <3>1, <3>2, <3>3 DEF TransferInv, Intact
  <2>9. CASE Tick \/ UNCHANGED transferVars
    <3>1. /\ pc' = pc /\ n' = n /\ size' = size /\ i' = i /\ toRx' = toRx /\ toTx' = toTx
          /\ handed' = handed /\ State' = State /\ expected' = expected /\ buff' = buff
      BY <2>9 DEF Tick, transferVars, receiver, State
    <3>2. InStep' /\ Whole'
      BY <2>2, <3>1
      DEF InStep, Quiet, Asked, Answered, Sending, Acknowledged, Filled, Whole
    <3> QED BY <1>1, <2>3, <3>1, <3>2 DEF TransferInv, Intact
  <2> QED BY <2>4, <2>5, <2>6, <2>7, <2>8, <2>9 DEF TransferNext, Sender
<1> QED BY <1>2, <1>3

(* What a receiver's handler is given is what one transfer sent, whole, as  *)
(* long as no answer came late: however many chunks are lost and sent       *)
(* again, transfers given up, refused or expired (sendLarge, streamChunk,   *)
(* _handleLargeTxBegin, _handleLargeTxChunk, _handleLargeTxEnd).            *)
THEOREM TransfersAreIntact == TransferSpec => []Intact
<1>1. TransferInv => Intact
  BY DEF TransferInv
<1> QED BY <1>1, TransferBegins, TransferStep, PTL DEF TransferSpec

-----------------------------------------------------------------------------
(* The behavior engine.                                                     *)

(* Instances are numbered as they are played: a new one is none of those    *)
(* that are scheduled, copied by the tick under way, or done.               *)
Numbered ==
  plays \in Nat /\ \A b \in behaviors \cup pass \cup done : b.no \in Nat /\ b.no < plays

(* The executor's instances are tracked, and leave its list when done.      *)
Tracked == behaviors \subseteq running /\ behaviors \cap done = {}

(* An entry stays lent to the one instance that the engine tracks under it. *)
Lent ==
  \A r \in running : r.name \in borrowed /\ \A q \in running : q.name = r.name => q = r

EngineInv == Numbered /\ Tracked /\ Lent

(* play_behavior, of an entry that nobody has, adds one new instance.       *)
LEMMA PlayTracked ==
  ASSUME EngineInv, NEW nm \in Names, NEW p \in Priorities, Play(nm, p) PROVE EngineInv'
<1> DEFINE new == [name |-> nm, priority |-> p, no |-> plays]
<1>1. new.name = nm /\ new.no = plays
  OBVIOUS
<1>2. /\ nm \notin borrowed /\ borrowed' = borrowed \cup {nm} /\ plays' = plays + 1
      /\ behaviors' = behaviors \cup {new}
      /\ running' = {r \in running : r.name # nm} \cup {new}
      /\ pass' = pass /\ done' = done
  BY DEF Play, Borrow, scheduling
<1> HIDE DEF new
<1>3. Numbered'
  BY <1>1, <1>2 DEF EngineInv, Numbered
<1>4. \A r \in running : r.name # nm
  BY <1>2 DEF EngineInv, Lent
<1>5. new \notin done
  BY <1>1 DEF EngineInv, Numbered
<1>6. Tracked'
  BY <1>2, <1>4, <1>5 DEF EngineInv, Tracked
<1>7. Lent'
  BY <1>1, <1>2, <1>4 DEF EngineInv, Lent
<1> QED BY <1>3, <1>6, <1>7 DEF EngineInv

(* What engine.tick and stop_behavior do to an instance, they do to its     *)
(* entry: those in gone leave the engine, and their entries come back.      *)
LEMMA GivenBack ==
  ASSUME Lent, NEW gone \in SUBSET running,
         running' = running \ gone, borrowed' = borrowed \ {r.name : r \in gone}
  PROVE  Lent'
<1> SUFFICES ASSUME NEW r \in running \ gone
             PROVE  r.name \in borrowed' /\ \A q \in running' : q.name = r.name => q = r
  BY DEF Lent
<1>1. r.name \notin {q.name : q \in gone}
  BY DEF Lent
<1> QED BY <1>1 DEF Lent

(* Every step of the engine and of a tick keeps the invariant.              *)
LEMMA EngineStep == EngineInv /\ [EngineNext]_engineVars => EngineInv'
<1> SUFFICES ASSUME EngineInv, [EngineNext]_engineVars PROVE EngineInv'
  OBVIOUS
<1>1. ASSUME NEW nm \in Names, NEW p \in Priorities, Play(nm, p) PROVE EngineInv'
  BY <1>1, PlayTracked
<1>2. ASSUME NEW nm \in Names, PlayFails(nm) PROVE EngineInv'
  BY <1>2 DEF PlayFails, scheduling, EngineInv, Numbered, Tracked, Lent
<1>3. ASSUME NEW ns, Stop(ns) PROVE EngineInv'
  <2> DEFINE gone == {r \in running : r.name \in ns}
  <2>1. /\ running' = running \ gone /\ behaviors' = behaviors \ gone
        /\ borrowed' = borrowed \ {r.name : r \in gone}
        /\ pass' = pass /\ done' = done /\ plays' = plays
    BY <1>3 DEF Stop, scheduling
  <2>2. gone \in SUBSET running
    OBVIOUS
  <2> HIDE DEF gone
  <2>3. Lent'
    BY <2>1, <2>2, GivenBack DEF EngineInv
  <2>4. Numbered' /\ Tracked'
    BY <2>1 DEF EngineInv, Numbered, Tracked
  <2> QED BY <2>3, <2>4 DEF EngineInv
<1>4. CASE TickEnds
  <2> DEFINE gone == {r \in running : r \in done \/ r \notin behaviors}
  <2>1. /\ running' = running \ gone /\ borrowed' = borrowed \ {r.name : r \in gone}
        /\ behaviors' = behaviors /\ pass' = pass /\ done' = done /\ plays' = plays
    BY <1>4 DEF TickEnds
  <2>2. gone \in SUBSET running /\ behaviors \cap gone = {}
    BY DEF EngineInv, Tracked
  <2> HIDE DEF gone
  <2>3. Lent'
    BY <2>1, <2>2, GivenBack DEF EngineInv
  <2>4. Numbered' /\ Tracked'
    BY <2>1, <2>2 DEF EngineInv, Numbered, Tracked
  <2> QED BY <2>3, <2>4 DEF EngineInv
<1>5. ASSUME NEW b \in pass, StepEnds(b) PROVE EngineInv'
  <2>1. /\ done' = done \cup {b} /\ behaviors' = behaviors \ {b} /\ pass' \subseteq pass
        /\ running' = running /\ borrowed' = borrowed /\ plays' = plays
    BY <1>5 DEF StepEnds, Ends, Abort, registry
  <2>2. Numbered'
    BY <2>1 DEF EngineInv, Numbered
  <2>3. Tracked' /\ Lent'
    BY <2>1 DEF EngineInv, Tracked, Lent
  <2> QED BY <2>2, <2>3 DEF EngineInv
<1>6. ASSUME NEW b \in pass, Skip(b) \/ Yield(b) \/ Raise(b) PROVE EngineInv'
  <2>1. /\ pass' \subseteq pass /\ done' = done /\ behaviors' = behaviors
        /\ running' = running /\ borrowed' = borrowed /\ plays' = plays
    BY <1>6 DEF Skip, Yield, Raise, Abort, registry
  <2> QED BY <2>1 DEF EngineInv, Numbered, Tracked, Lent
<1>7. CASE TickBegins
  BY <1>7 DEF TickBegins, registry, EngineInv, Numbered, Tracked, Lent
<1>8. ASSUME NEW m \in Modules, Load(m) PROVE EngineInv'
  BY <1>8 DEF Load, scheduling, EngineInv, Numbered, Tracked, Lent
<1>9. CASE UNCHANGED engineVars
  BY <1>9 DEF engineVars, registry, scheduling, EngineInv, Numbered, Tracked, Lent
<1> QED BY <1>1, <1>2, <1>3, <1>4, <1>5, <1>6, <1>7, <1>8, <1>9 DEF EngineNext, EngineTick

(* Each instance that the executor schedules is the one running under its   *)
(* name, its entry borrowed, and the only one of that name: after any calls *)
(* of play_behavior, stop_behavior and stop_all, also from inside a tick,   *)
(* and after any exceptions (engine.py, executor.py).                       *)
THEOREM AlwaysStoppable == EngineSpec => []Stoppable
<1>1. EngineInit => EngineInv
  BY DEF EngineInit, EngineInv, Numbered, Tracked, Lent
<1>2. EngineInv => Stoppable
  BY DEF EngineInv, Tracked, Lent, Stoppable
<1> QED BY <1>1, <1>2, EngineStep, PTL DEF EngineSpec
=============================================================================
