------------------------- MODULE SessionProtocolProofs -------------------------
(***************************************************************************)
(* Theorems about SessionProtocol, for any heartbeat period shorter than   *)
(* the timeout and any number of messages.                                 *)
(*                                                                         *)
(* Why a living client is not declared dead: as long as the connection     *)
(* holds, either the next heartbeat is due before the deadline, or one is  *)
(* in the connection, and the session reads it before time goes on.        *)
(***************************************************************************)
EXTENDS SessionProtocol, TLAPS

Message == [seq : Nat, kind : Kinds \cup {"none"}]

(* Every variable has its type.                                             *)
TypeOK ==
  /\ cl \in {"new", "asking", "failed", "open", "gone"}
  /\ call \in {"none", "sent", "made", "refused"}
  /\ beat \in 0 .. Period
  /\ packed \in [Threads -> Message] /\ sendSeq \in Nat
  /\ link \in {"none", "up", "down"} /\ chan \in Seq(Message) /\ lastTcp \in Nat
  /\ udpSeq \in Nat /\ net \subseteq Nat /\ lastUdp \in Nat /\ frames \in Seq(Nat)
  /\ tasks \subseteq AllTasks /\ why \in {"none", "request", "timeout"}
  /\ left \in 0 .. Timeout /\ losses \in Nat

(* What is published is not newer than the last number seen.                *)
LastSeen == \A i \in 1 .. Len(frames) : frames[i] <= lastUdp

(* Before the client has an answer nothing has been sent, and a session     *)
(* that was created has its whole time left.                                *)
Beginning ==
  /\ cl \in {"new", "asking"} => why = "none" /\ left = Timeout /\ chan = <<>>
  /\ cl = "new" => call = "none"
  /\ cl = "open" => call = "made"
  /\ why = "none" => tasks = IF call = "made" THEN AllTasks ELSE {}

(* The heartbeat thread packs heartbeats, when they are due.                *)
Due == packed["heartbeat"] # Nothing => packed["heartbeat"].kind = "heartbeat"

(* The next heartbeat is due before the deadline, or one is in the          *)
(* connection.                                                              *)
OnTheWay == \E i \in 1 .. Len(chan) : chan[i].kind = "heartbeat"
InTime ==
  cl = "open" /\ losses = 0 =>
    /\ link = "up" /\ why # "timeout"
    /\ why = "none" => left > 0 /\ (left > beat \/ OnTheWay)

KeptInv == TypeOK /\ Beginning /\ Due /\ InTime

-----------------------------------------------------------------------------
(* Types.                                                                   *)

LEMMA TypeInit == Init => TypeOK
<1> SUFFICES ASSUME Init PROVE TypeOK
  OBVIOUS
<1>1. packed \in [Threads -> Message]
  BY DEF Init, Nothing, Message
<1> QED BY <1>1, ProtocolAssumption DEF Init, TypeOK

(* Packing and sending keep the messages messages.                          *)
LEMMA MessageTypes ==
  ASSUME TypeOK
  PROVE  /\ Nothing \in Message
         /\ \A kind \in Kinds : [seq |-> 0, kind |-> kind] \in Message
         /\ \A t \in Threads : /\ packed[t] \in Message
                              /\ [packed EXCEPT ![t].seq = sendSeq] \in [Threads -> Message]
         /\ \A t \in Threads, m \in Message : [packed EXCEPT ![t] = m] \in [Threads -> Message]
  BY DEF TypeOK, Nothing, Message

LEMMA SentTypes ==
  ASSUME TypeOK, NEW t \in Threads, Sent(t)
  PROVE  packed' \in [Threads -> Message] /\ beat' \in 0 .. Period
  BY MessageTypes, ProtocolAssumption DEF Sent, TypeOK

(* What the connection looks like when a message is taken from it.          *)
LEMMA FirstOf ==
  ASSUME NEW c \in Seq(Message), c # <<>>
  PROVE  /\ Head(c) \in Message /\ Head(c) = c[1] /\ Tail(c) \in Seq(Message)
         /\ Len(c) \in Nat /\ Len(Tail(c)) = Len(c) - 1
         /\ \A i \in 1 .. Len(Tail(c)) : Tail(c)[i] = c[i + 1]
  OBVIOUS

LEMMA TypeStep == TypeOK /\ [Next]_vars => TypeOK'
<1> SUFFICES ASSUME TypeOK, [Next]_vars PROVE TypeOK'
  OBVIOUS
<1> USE ProtocolAssumption
<1>1. CASE InitiateSession \/ Auth \/ GiveUp
  BY <1>1 DEF InitiateSession, Auth, GiveUp, tcp, udp, session, TypeOK
<1>2. CASE CreateSession
  BY <1>2 DEF CreateSession, tcp, udp, session, TypeOK
<1>3. CASE Answer
  BY <1>3 DEF Answer, tcp, udp, session, TypeOK
<1>4. CASE Crash
  <2>1. packed' \in [Threads -> Message]
    BY <1>4, MessageTypes DEF Crash
  <2> QED BY <1>4, <2>1 DEF Crash, udp, session, TypeOK
<1>5. ASSUME NEW t \in Threads, NEW kind \in Kinds, Pack(t, kind) PROVE TypeOK'
  <2>1. packed' \in [Threads -> Message]
    BY <1>5, MessageTypes DEF Pack
  <2> QED BY <1>5, <2>1 DEF Pack, udp, session, TypeOK
<1>e. ASSUME NEW t \in Threads, Encode(t) PROVE TypeOK'
  <2>1. packed' \in [Threads -> Message]
    BY <1>e, MessageTypes DEF Encode
  <2> QED BY <1>e, <2>1 DEF Encode, udp, session, TypeOK
<1>6. ASSUME NEW t \in Threads, Send(t) \/ SendTimesOut(t) PROVE TypeOK'
  <2>1. packed' \in [Threads -> Message] /\ beat' \in 0 .. Period
    BY <1>6, SentTypes DEF Send, SendTimesOut
  <2>2. chan' \in Seq(Message)
    <3>1. packed[t] \in Message /\ chan \in Seq(Message)
      BY MessageTypes DEF TypeOK
    <3>2. chan' = Append(chan, packed[t]) \/ chan' = chan
      BY <1>6 DEF Send, SendTimesOut
    <3> QED BY <3>1, <3>2
  <2>3. UNCHANGED <<cl, call, sendSeq, link, lastTcp, udp, session, losses>>
    BY <1>6 DEF Send, SendTimesOut
  <2> QED BY <2>1, <2>2, <2>3 DEF udp, session, TypeOK
<1>7. CASE SendFrame
  BY <1>7 DEF SendFrame, UdpSend, tcp, session, TypeOK
<1>8. CASE LinkFails \/ Reconnect
  <2>1. chan' \in Seq(Message)
    <3>1. chan \in Seq(Message) /\ <<>> \in Seq(Message)
      BY DEF TypeOK
    <3> QED BY <1>8, <3>1 DEF LinkFails, Reconnect
  <2>2. losses' \in Nat
    BY <1>8 DEF LinkFails, Reconnect, TypeOK
  <2> QED BY <1>8, <2>1, <2>2 DEF LinkFails, Reconnect, udp, session, TypeOK
<1>9. CASE HandlePacket
  <2>1. Head(chan) \in Message /\ Tail(chan) \in Seq(Message)
    BY <1>9, FirstOf DEF HandlePacket, TypeOK
  <2>2. lastTcp' \in Nat /\ chan' \in Seq(Message)
    BY <1>9, <2>1 DEF HandlePacket, Message
  <2>3. left' \in 0 .. Timeout /\ why' \in {"none", "request", "timeout"} /\ tasks' \subseteq AllTasks
    BY <1>9 DEF HandlePacket, Stop, TaskAfter, TypeOK
  <2> QED BY <1>9, <2>2, <2>3 DEF HandlePacket, udp, TypeOK
<1>10. CASE DropConnection
  BY <1>10 DEF DropConnection, TaskAfter, udp, TypeOK
<1>11. CASE CheckHeartbeat
  BY <1>11 DEF CheckHeartbeat, Stop, tcp, udp, TypeOK
<1>12. ASSUME NEW t \in AllTasks, TaskEnds(t) PROVE TypeOK'
  BY <1>12 DEF TaskEnds, tcp, udp, TypeOK
<1>13. CASE ForwardFrame
  <2>1. lastUdp' \in Nat /\ frames' \in Seq(Nat)
    <3>1. PICK seq \in net : UdpRecv(seq)
      BY <1>13 DEF ForwardFrame
    <3>2. frames \in Seq(Nat) /\ lastUdp \in Nat /\ seq \in Nat
      BY DEF TypeOK
    <3>3. Append(frames, seq) \in Seq(Nat)
      BY <3>2
    <3> QED BY <3>1, <3>2, <3>3 DEF UdpRecv
  <2> QED BY <1>13, <2>1 DEF ForwardFrame, TaskAfter, tcp, TypeOK
<1>14. CASE Tick
  <2>1. beat' \in 0 .. Period
    BY <1>14 DEF Tick, Urgent, TypeOK
  <2>2. left' \in 0 .. Timeout
    BY <1>14 DEF Tick, TypeOK
  <2> QED BY <1>14, <2>1, <2>2 DEF Tick, tcp, udp, TypeOK
<1>15. CASE UNCHANGED vars
  BY <1>15 DEF vars, TypeOK
<1> QED
  BY <1>1, <1>2, <1>3, <1>4, <1>5, <1>e, <1>6, <1>7, <1>8, <1>9, <1>10, <1>11, <1>12, <1>13, <1>14,
     <1>15
     DEF Next, SessionSteps, Threads, Kinds

-----------------------------------------------------------------------------
(* Motion frames.                                                           *)

LEMMA FramesStep ==
  TypeOK /\ FramesOrdered /\ LastSeen /\ [Next]_vars => FramesOrdered' /\ LastSeen'
<1> SUFFICES ASSUME TypeOK, FramesOrdered, LastSeen, [Next]_vars PROVE FramesOrdered' /\ LastSeen'
  OBVIOUS
<1>1. CASE UNCHANGED <<lastUdp, frames>>
  BY <1>1 DEF FramesOrdered, LastSeen
<1>2. ASSUME NEW seq \in net, Fresh(seq, lastUdp), lastUdp' = seq, frames' = Append(frames, seq)
      PROVE  FramesOrdered' /\ LastSeen'
  <2>1. /\ Len(frames) \in Nat /\ Len(frames') = Len(frames) + 1 /\ seq \in Nat /\ lastUdp < seq
        /\ \A i \in 1 .. Len(frames) : frames'[i] = frames[i] /\ frames[i] \in Nat
        /\ frames'[Len(frames) + 1] = seq /\ lastUdp \in Nat
    BY <1>2 DEF TypeOK, Fresh
  <2>2. LastSeen'
    BY <1>2, <2>1 DEF LastSeen
  <2>3. FramesOrdered'
    <3> SUFFICES ASSUME NEW i \in 2 .. Len(frames) + 1 PROVE frames'[i - 1] < frames'[i]
      BY <2>1 DEF FramesOrdered
    <3>1. CASE i = Len(frames) + 1
      <4>1. i - 1 \in 1 .. Len(frames)
        BY <2>1, <3>1
      <4>2. frames[i - 1] <= lastUdp /\ frames'[i - 1] = frames[i - 1] /\ frames[i - 1] \in Nat
        BY <2>1, <4>1 DEF LastSeen
      <4> QED BY <2>1, <3>1, <4>2
    <3>2. CASE i # Len(frames) + 1
      <4>1. i \in 2 .. Len(frames) /\ i \in 1 .. Len(frames) /\ i - 1 \in 1 .. Len(frames)
        BY <2>1, <3>2
      <4> QED BY <2>1, <4>1 DEF FramesOrdered
    <3> QED BY <3>1, <3>2
  <2> QED BY <2>2, <2>3
<1>3. CASE ForwardFrame
  BY <1>1, <1>2, <1>3 DEF ForwardFrame, UdpRecv
<1>4. CASE ~ForwardFrame
  BY <1>1, <1>4 DEF Next, SessionSteps, InitiateSession, Auth, CreateSession, Answer, GiveUp, Crash,
                    Pack, Encode, Send, SendTimesOut, SendFrame, LinkFails, Reconnect, HandlePacket,
                    DropConnection, CheckHeartbeat, TaskEnds, Tick, udp, vars
<1> QED BY <1>3, <1>4

(* Motion frames are published in the order they were sent and none twice,  *)
(* for any number of frames and whatever the network does to the datagrams  *)
(* (authmsg's sequence numbers, _motionframe_forwarder).                    *)
THEOREM FramesAlwaysOrdered == Spec => []FramesOrdered
<1>1. Init => FramesOrdered /\ LastSeen
  BY DEF Init, FramesOrdered, LastSeen
<1>2. TypeOK /\ FramesOrdered /\ LastSeen /\ [Next]_vars => TypeOK' /\ FramesOrdered' /\ LastSeen'
  BY TypeStep, FramesStep
<1> QED BY <1>1, <1>2, TypeInit, PTL DEF Spec

-----------------------------------------------------------------------------
(* Heartbeats.                                                              *)

LEMMA BeginningStep == TypeOK /\ Beginning /\ [Next]_vars => Beginning'
<1> SUFFICES ASSUME TypeOK, Beginning, [Next]_vars PROVE Beginning'
  OBVIOUS
<1>1. CASE UNCHANGED <<cl, call, why, left, tasks>> /\ (chan' = chan \/ chan' = <<>> \/ cl = "open")
  BY <1>1 DEF Beginning
<1>2. CASE InitiateSession \/ Auth \/ GiveUp \/ Answer \/ Crash
  BY <1>2 DEF InitiateSession, Auth, GiveUp, Answer, Crash, tcp, session, Beginning
<1>3. CASE CreateSession
  BY <1>3 DEF CreateSession, tcp, session, Beginning
<1>4. ASSUME NEW t \in Threads, NEW kind \in Kinds, Pack(t, kind) PROVE Beginning'
  BY <1>1, <1>4 DEF Pack, session
<1>5. ASSUME NEW t \in Threads, Encode(t) \/ Send(t) \/ SendTimesOut(t) PROVE Beginning'
  BY <1>1, <1>5 DEF Encode, Send, SendTimesOut, session
<1>6. CASE SendFrame \/ LinkFails \/ Reconnect
  BY <1>1, <1>6 DEF SendFrame, LinkFails, Reconnect, tcp, session
<1>7. CASE HandlePacket
  BY <1>7 DEF HandlePacket, Stop, TaskAfter, Beginning, TypeOK
<1>8. CASE DropConnection \/ ForwardFrame
  BY <1>8 DEF DropConnection, ForwardFrame, TaskAfter, tcp, Beginning
<1>9. CASE CheckHeartbeat
  BY <1>9, ProtocolAssumption DEF CheckHeartbeat, Stop, tcp, Beginning, TypeOK
<1>10. ASSUME NEW t \in AllTasks, TaskEnds(t) PROVE Beginning'
  BY <1>10 DEF TaskEnds, tcp, Beginning
<1>11. CASE Tick
  <2>1. UNCHANGED <<cl, call, why, tasks, chan>> /\ cl # "asking"
    BY <1>11 DEF Tick, Urgent, tcp
  <2>2. cl = "new" => tasks = {}
    BY DEF Beginning
  <2>3. cl = "new" => left' = left
    BY <1>11, <2>2 DEF Tick
  <2> QED BY <2>1, <2>3 DEF Beginning
<1>12. CASE UNCHANGED vars
  BY <1>1, <1>12 DEF vars
<1> QED
  BY <1>2, <1>3, <1>4, <1>5, <1>6, <1>7, <1>8, <1>9, <1>10, <1>11, <1>12
     DEF Next, SessionSteps, Threads, Kinds

LEMMA DueStep == TypeOK /\ Due /\ [Next]_vars => Due'
<1> SUFFICES ASSUME TypeOK, Due, [Next]_vars PROVE Due'
  OBVIOUS
<1>1. CASE packed'["heartbeat"] \in {packed["heartbeat"], Nothing}
  BY <1>1 DEF Due
<1>2. ASSUME NEW t \in Threads, NEW kind \in Kinds, Pack(t, kind), t = "heartbeat" => kind = "heartbeat"
      PROVE  Due'
  BY <1>2 DEF Pack, Due, TypeOK, Threads
<1>3. ASSUME NEW t \in Threads, Send(t) \/ SendTimesOut(t) PROVE Due'
  <2>1. packed' = [packed EXCEPT ![t] = Nothing]
    BY <1>3 DEF Send, SendTimesOut, Sent
  <2> QED BY <1>1, <2>1 DEF TypeOK, Threads
<1>4. CASE Crash
  BY <1>1, <1>4 DEF Crash, Threads
<1>5. CASE packed' = packed
  BY <1>1, <1>5
<1>6. CASE \/ InitiateSession \/ Auth \/ CreateSession \/ Answer \/ GiveUp \/ SendFrame \/ LinkFails
           \/ Reconnect \/ SessionSteps \/ ForwardFrame \/ Tick \/ UNCHANGED vars
  BY <1>5, <1>6 DEF InitiateSession, Auth, CreateSession, Answer, GiveUp, SendFrame, LinkFails,
     Reconnect, SessionSteps, HandlePacket, DropConnection, CheckHeartbeat, TaskEnds, ForwardFrame,
     Tick, tcp, vars
<1>7. ASSUME NEW t \in Threads, Encode(t) PROVE Due'
  <2>1. packed["heartbeat"] = Nothing => packed'["heartbeat"] = Nothing
    BY <1>7 DEF Encode, TypeOK, Threads
  <2>2. packed'["heartbeat"].kind = packed["heartbeat"].kind
    BY <1>7 DEF Encode, TypeOK, Threads, Message
  <2> QED BY <2>1, <2>2 DEF Due
<1> QED BY <1>2, <1>3, <1>4, <1>6, <1>7 DEF Next, Threads, Kinds

(* A message behind the others.                                             *)
LEMMA SentBehind ==
  ASSUME TypeOK, NEW m \in Message, chan' = Append(chan, m)
  PROVE  OnTheWay \/ m.kind = "heartbeat" => OnTheWay'
<1>1. /\ Len(chan) \in Nat /\ Len(chan') = Len(chan) + 1 /\ chan'[Len(chan) + 1] = m
      /\ \A i \in 1 .. Len(chan) : chan'[i] = chan[i]
  BY DEF TypeOK
<1>2. Len(chan) + 1 \in 1 .. Len(chan') /\ 1 .. Len(chan) \subseteq 1 .. Len(chan')
  BY <1>1
<1> QED BY <1>1, <1>2 DEF OnTheWay

LEMMA InTimeStep == KeptInv /\ [Next]_vars => InTime'
<1> SUFFICES ASSUME KeptInv, [Next]_vars, cl' = "open", losses' = 0
             PROVE  /\ link' = "up" /\ why' # "timeout"
                    /\ why' = "none" => left' > 0 /\ (left' > beat' \/ OnTheWay')
  BY DEF InTime
<1>0. TypeOK /\ Beginning /\ Due
  BY DEF KeptInv
<1> DEFINE Goal == /\ link' = "up" /\ why' # "timeout"
                   /\ why' = "none" => left' > 0 /\ (left' > beat' \/ OnTheWay')
<1>1. ASSUME cl = "open", losses = 0
      PROVE  /\ link = "up" /\ why # "timeout"
             /\ why = "none" => tasks = AllTasks /\ left > 0 /\ (left > beat \/ OnTheWay)
  BY <1>1 DEF KeptInv, InTime, Beginning
<1>2. CASE UNCHANGED <<cl, losses, link, why, left, beat, chan>>
  BY <1>1, <1>2 DEF OnTheWay
<1>3. CASE Answer
  <2>1. cl = "asking" /\ link' = "up" /\ beat' = Period /\ UNCHANGED <<why, left>>
    BY <1>3 DEF Answer, session
  <2> QED BY <1>0, <2>1, ProtocolAssumption DEF Beginning, TypeOK
<1>4. ASSUME NEW t \in Threads, NEW kind \in Kinds, Pack(t, kind) PROVE Goal
  BY <1>2, <1>4 DEF Pack, session
<1>5. ASSUME NEW t \in Threads, Send(t) PROVE Goal
  <2>1. /\ cl = "open" /\ losses = 0 /\ UNCHANGED <<link, why, left>> /\ packed[t] \in Message
        /\ chan' = Append(chan, packed[t]) /\ beat' = IF t = "heartbeat" THEN Period ELSE beat
    BY <1>0, <1>5, MessageTypes DEF Send, Sent, session
  <2>2. t = "heartbeat" => OnTheWay'
    BY <1>0, <1>5, <2>1, SentBehind DEF Send, Due, Nothing
  <2>3. OnTheWay => OnTheWay'
    BY <1>0, <2>1, SentBehind
  <2> QED BY <1>1, <2>1, <2>2, <2>3
<1>6. ASSUME NEW t \in Threads, SendTimesOut(t) PROVE Goal
  BY <1>1, <1>6 DEF SendTimesOut
<1>7. CASE CreateSession
  BY <1>0, <1>7 DEF CreateSession, Beginning
<1>8. CASE LinkFails \/ DropConnection
  BY <1>0, <1>8 DEF LinkFails, DropConnection, TypeOK
<1>9. CASE Reconnect
  BY <1>1, <1>9 DEF Reconnect
<1>10. CASE HandlePacket
  <2>1. /\ cl = "open" /\ losses = 0 /\ UNCHANGED <<link, beat>> /\ chan # <<>> /\ chan' = Tail(chan)
        /\ left' = IF Head(chan).kind = "heartbeat" THEN Timeout ELSE left
        /\ why' = IF Head(chan).kind = "end" /\ why = "none" THEN "request" ELSE why
    BY <1>10 DEF HandlePacket, Stop
  <2>2. Head(chan).kind = "heartbeat" => left' > 0 /\ left' > beat'
    BY <1>0, <2>1, ProtocolAssumption DEF TypeOK
  <2>3. OnTheWay /\ Head(chan).kind # "heartbeat" => OnTheWay'
    <3>1. /\ Len(chan) \in Nat /\ Len(chan') = Len(chan) - 1 /\ Head(chan) = chan[1]
          /\ \A i \in 1 .. Len(chan') : chan'[i] = chan[i + 1]
      BY <1>0, <2>1, FirstOf DEF TypeOK
    <3>2. ASSUME NEW i \in 1 .. Len(chan), i # 1
          PROVE  i - 1 \in 1 .. Len(chan') /\ chan'[i - 1] = chan[i]
      BY <3>1, <3>2
    <3> QED BY <3>1, <3>2 DEF OnTheWay
  <2> QED BY <1>1, <2>1, <2>2, <2>3
<1>11. CASE CheckHeartbeat
  <2>1. /\ cl = "open" /\ losses = 0 /\ left = 0 /\ link' = link
        /\ why' = IF why = "none" THEN "timeout" ELSE why
    BY <1>11 DEF CheckHeartbeat, Stop, tcp
  <2> QED BY <1>1, <2>1
<1>12. ASSUME NEW t \in AllTasks, TaskEnds(t) PROVE Goal
  BY <1>2, <1>12 DEF TaskEnds, tcp
<1>13. CASE ForwardFrame \/ SendFrame
  BY <1>2, <1>13 DEF ForwardFrame, SendFrame, tcp, session
<1>14. CASE Tick
  <2>1. /\ cl = "open" /\ losses = 0 /\ ~Urgent /\ UNCHANGED <<link, why>>
        /\ beat' = IF packed["heartbeat"] = Nothing THEN beat - 1 ELSE beat
        /\ left' = IF tasks # {} /\ left > 0 THEN left - 1 ELSE left
    BY <1>14 DEF Tick, tcp
  <2>2. SUFFICES ASSUME why = "none" PROVE left' > 0 /\ left' > beat'
    BY <1>1, <2>1
  <2>3. link = "up" /\ tasks = AllTasks /\ left > 0 /\ (left > beat \/ OnTheWay)
    BY <1>1, <2>1, <2>2
  <2>4. beat # 0 /\ packed["heartbeat"] = Nothing /\ chan = <<>>
    BY <2>1, <2>3 DEF Urgent, Threads, AllTasks
  <2>5. ~OnTheWay
    BY <2>4 DEF OnTheWay
  <2> QED BY <1>0, <2>1, <2>3, <2>4, <2>5 DEF TypeOK, AllTasks
<1>15. CASE InitiateSession \/ Auth \/ GiveUp \/ Crash
  BY <1>2, <1>15 DEF InitiateSession, Auth, GiveUp, Crash, tcp, session
<1>16. CASE UNCHANGED vars
  BY <1>2, <1>16 DEF vars
<1>17. ASSUME NEW t \in Threads, Encode(t) PROVE Goal
  BY <1>2, <1>17 DEF Encode, session
<1> HIDE DEF Goal
<1> QED
  BY <1>3, <1>4, <1>5, <1>6, <1>7, <1>8, <1>9, <1>10, <1>11, <1>12, <1>13, <1>14, <1>15, <1>16,
     <1>17
     DEF Next, SessionSteps, Threads, Kinds, Goal

(* A client that lives and whose connection holds is not declared dead, for *)
(* any period shorter than the timeout and whatever both of its threads     *)
(* send (_main_packet_handler, _brackground_session_controller).            *)
THEOREM AliveAlwaysKept == Spec => []AliveKept
<1>1. Init => KeptInv
  <2> SUFFICES ASSUME Init PROVE Beginning /\ Due /\ InTime
    BY TypeInit DEF KeptInv
  <2> QED BY DEF Init, Beginning, Due, InTime, Threads
<1>2. KeptInv /\ [Next]_vars => KeptInv'
  BY TypeStep, BeginningStep, DueStep, InTimeStep DEF KeptInv
<1>3. KeptInv => AliveKept
  BY DEF KeptInv, InTime, AliveKept, TypeOK
<1> QED BY <1>1, <1>2, <1>3, PTL DEF Spec

(* Type correctness of the session's two ends.                              *)
THEOREM TypeCorrect == Spec => []TypeOK
  BY TypeInit, TypeStep, PTL DEF Spec
=============================================================================
