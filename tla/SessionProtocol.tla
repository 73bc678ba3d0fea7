--------------------------- MODULE SessionProtocol ---------------------------
(***************************************************************************)
(* One session from both ends: the client that asks for it over HTTP       *)
(* (client.py), the listener that relays the request (session_listener),   *)
(* the sequence-numbered messages of the two peers (authmsg) and the three *)
(* asyncio tasks of the session (session_implementations.py).              *)
(*                                                                         *)
(* The client has two threads that share the TCP peer: the heartbeat       *)
(* thread, which holds _tcp_lock, and the user's, which does not take it.  *)
(* Messages that carry a wrong HMAC are not modelled.                      *)
(***************************************************************************)
EXTENDS Naturals, Sequences

CONSTANTS
  Period,    \* the client's heartbeat period
  Timeout,   \* HEARTBEAT_TIMEOUT_SEC
  MaxSeq,    \* bound: messages packed for the TCP peer
  MaxFrames, \* bound: motion frames
  MaxLosses  \* bound: failures of the network

ASSUME ProtocolAssumption ==
  /\ {Period, Timeout, MaxSeq, MaxFrames, MaxLosses} \subseteq Nat
  /\ 0 < Period /\ Period < Timeout

VARIABLES
  cl,        \* the client: "new", "asking", "failed", "open" or "gone"
  call,      \* the listener's service call: "none", "sent", "made", "refused"
  beat,      \* time until the heartbeat thread wakes up
  packed,    \* packed[t]: what thread t has packed and not yet sent
  sendSeq,   \* send_sequence of the client's TCP peer
  link, chan,\* the TCP connection, and what is in it
  lastTcp,   \* last_received_sequence of the server's TCP peer
  udpSeq, net, lastUdp,  \* the same for the datagrams
  frames,    \* motion frames published
  tasks,     \* the session's tasks that run
  why,       \* why stop_event was set, or "none"
  left,      \* time until heartbeat_deadline
  losses     \* connections lost so far

vars == <<cl, call, beat, packed, sendSeq, link, chan, lastTcp, udpSeq, net, lastUdp, frames,
          tasks, why, left, losses>>
tcp == <<packed, sendSeq, link, chan, lastTcp>>
udp == <<udpSeq, net, lastUdp, frames>>
session == <<tasks, why, left>>

Threads == {"heartbeat", "user"}
Kinds == {"heartbeat", "config", "end"}
AllTasks == {"motionframes", "packets", "controller"}
Nothing == [seq |-> 0, kind |-> "none"]

Init ==
  /\ cl = "new" /\ call = "none" /\ beat = Period
  /\ packed = [t \in Threads |-> Nothing] /\ sendSeq = 0
  /\ link = "none" /\ chan = <<>> /\ lastTcp = 0
  /\ udpSeq = 0 /\ net = {} /\ lastUdp = 0 /\ frames = <<>>
  /\ tasks = {} /\ why = "none" /\ left = Timeout /\ losses = 0

-----------------------------------------------------------------------------
(* The session is asked for.                                                *)

InitiateSession ==
  /\ cl = "new" /\ cl' = "asking"
  /\ UNCHANGED <<call, beat, tcp, udp, session, losses>>

(* The HTTP server turns a wrong key away, or relays the request.           *)
Auth ==
  /\ cl = "asking" /\ call = "none"
  /\ \/ call' = "sent" /\ UNCHANGED cl
     \/ cl' = "failed" /\ UNCHANGED call
  /\ UNCHANGED <<beat, tcp, udp, session, losses>>

(* The session manager creates the session, or refuses.                     *)
CreateSession ==
  /\ call = "sent"
  /\ \/ call' = "made" /\ tasks' = AllTasks /\ left' = Timeout /\ UNCHANGED why
     \/ call' = "refused" /\ UNCHANGED session
  /\ UNCHANGED <<cl, beat, tcp, udp, losses>>

(* The answer reaches the client, which dials and starts its heartbeat      *)
(* thread.                                                                  *)
Answer ==
  /\ cl = "asking" /\ call \in {"made", "refused"}
  /\ IF call = "made" THEN cl' = "open" /\ link' = "up" /\ beat' = Period
     ELSE cl' = "failed" /\ UNCHANGED <<link, beat>>
  /\ UNCHANGED <<call, packed, sendSeq, chan, lastTcp, udp, session, losses>>

(* The listener, or the client, waits no longer; the call goes on.          *)
GiveUp ==
  /\ cl = "asking" /\ cl' = "failed"
  /\ UNCHANGED <<call, beat, tcp, udp, session, losses>>

Crash ==
  /\ cl = "open" /\ cl' = "gone"
  /\ packed' = [t \in Threads |-> Nothing] /\ link' = "none"
  /\ UNCHANGED <<call, beat, sendSeq, chan, lastTcp, udp, session, losses>>

-----------------------------------------------------------------------------
(* The client sends.                                                        *)

(* pack() increments the sequence number and reads it again; other threads  *)
(* may run in between, and before the packet is sent.                       *)
Pack(t, kind) ==
  /\ cl = "open" /\ packed[t] = Nothing /\ sendSeq < MaxSeq
  /\ kind = "heartbeat" => beat = 0
  /\ sendSeq' = sendSeq + 1
  /\ packed' = [packed EXCEPT ![t] = [seq |-> 0, kind |-> kind]]
  /\ UNCHANGED <<cl, call, beat, link, chan, lastTcp, udp, session, losses>>

Encode(t) ==
  /\ cl = "open" /\ packed[t] # Nothing /\ packed[t].seq = 0
  /\ packed' = [packed EXCEPT ![t].seq = sendSeq]
  /\ UNCHANGED <<cl, call, beat, sendSeq, link, chan, lastTcp, udp, session, losses>>

Sent(t) ==
  /\ packed' = [packed EXCEPT ![t] = Nothing]
  /\ beat' = IF t = "heartbeat" THEN Period ELSE beat

Send(t) ==
  /\ cl = "open" /\ packed[t].seq # 0 /\ link = "up"
  /\ chan' = Append(chan, packed[t]) /\ Sent(t)
  /\ UNCHANGED <<cl, call, sendSeq, link, lastTcp, udp, session, losses>>

(* There is no connection: the send times out and the packet is lost.       *)
SendTimesOut(t) ==
  /\ cl = "open" /\ packed[t].seq # 0 /\ link = "down"
  /\ Sent(t)
  /\ UNCHANGED <<cl, call, sendSeq, link, chan, lastTcp, udp, session, losses>>

(* A datagram goes to the network, which may keep it for ever.              *)
UdpSend == udpSeq' = udpSeq + 1 /\ net' = net \cup {udpSeq + 1}

SendFrame ==
  /\ cl = "open" /\ udpSeq < MaxFrames
  /\ UdpSend
  /\ UNCHANGED <<cl, call, beat, tcp, lastUdp, frames, session, losses>>

-----------------------------------------------------------------------------
(* The network (external).                                                  *)

LinkFails ==
  /\ link = "up" /\ losses < MaxLosses
  /\ link' = "down" /\ chan' = <<>> /\ losses' = losses + 1
  /\ UNCHANGED <<cl, call, beat, packed, sendSeq, lastTcp, udp, session>>

(* The dialer connects again.                                               *)
Reconnect ==
  /\ link = "down" /\ link' = "up"
  /\ UNCHANGED <<cl, call, beat, packed, sendSeq, chan, lastTcp, udp, session, losses>>

-----------------------------------------------------------------------------
(* The session.                                                             *)

(* decode_packet: sequence numbers must increase.                           *)
(* Seeded fault: the number of the last packet is accepted once more.       *)
Fresh_Repeated(seq, last) == seq >= last
Fresh(seq, last) == seq > last

Stop(reason) == why' = IF why = "none" THEN reason ELSE why

(* A task looks at stop_event when it has handled a message, or when its    *)
(* receive times out.                                                       *)
TaskAfter(t, reason) == tasks' = IF reason = "none" THEN tasks ELSE tasks \ {t}

(* Seeded fault: the packet handler's receive has no timeout.               *)
TaskEnds_Blocking(t) ==
  /\ t \in tasks \ {"packets"} /\ why # "none"
  /\ tasks' = tasks \ {t}
  /\ UNCHANGED <<cl, call, beat, tcp, udp, why, left, losses>>
TaskEnds(t) ==
  /\ t \in tasks /\ why # "none"
  /\ tasks' = tasks \ {t}
  /\ UNCHANGED <<cl, call, beat, tcp, udp, why, left, losses>>

(* A packet with a stale number makes the peer drop the connection, with    *)
(* what is in it.                                                           *)
DropConnection ==
  /\ "packets" \in tasks /\ chan # <<>> /\ ~Fresh(Head(chan).seq, lastTcp)
  /\ chan' = <<>> /\ link' = IF link = "up" THEN "down" ELSE link
  /\ losses' = losses + 1
  /\ TaskAfter("packets", why)
  /\ UNCHANGED <<cl, call, beat, packed, sendSeq, lastTcp, udp, why, left>>

(* _main_packet_handler.                                                    *)
(* Seeded fault: the deadline is moved only by the first heartbeat.         *)
HandlePacket_Once ==
  /\ "packets" \in tasks /\ chan # <<>> /\ Fresh(Head(chan).seq, lastTcp)
  /\ lastTcp' = Head(chan).seq /\ chan' = Tail(chan)
  /\ left' = IF Head(chan).kind = "heartbeat" /\ lastTcp = 0 THEN Timeout ELSE left
  /\ IF Head(chan).kind = "end" THEN Stop("request") ELSE UNCHANGED why
  /\ TaskAfter("packets", why')
  /\ UNCHANGED <<cl, call, beat, packed, sendSeq, link, udp, losses>>
HandlePacket ==
  /\ "packets" \in tasks /\ chan # <<>> /\ Fresh(Head(chan).seq, lastTcp)
  /\ lastTcp' = Head(chan).seq /\ chan' = Tail(chan)
  /\ left' = IF Head(chan).kind = "heartbeat" THEN Timeout ELSE left
  /\ IF Head(chan).kind = "end" THEN Stop("request") ELSE UNCHANGED why
  /\ TaskAfter("packets", why')
  /\ UNCHANGED <<cl, call, beat, packed, sendSeq, link, udp, losses>>

(* Any datagram may come, late and more than once; a stale one reads as     *)
(* nothing.                                                                 *)
UdpRecv(seq) ==
  IF Fresh(seq, lastUdp) THEN lastUdp' = seq /\ frames' = Append(frames, seq)
  ELSE UNCHANGED <<lastUdp, frames>>

(* _motionframe_forwarder.                                                  *)
ForwardFrame ==
  /\ "motionframes" \in tasks
  /\ \E seq \in net : UdpRecv(seq)
  /\ TaskAfter("motionframes", why)
  /\ UNCHANGED <<cl, call, beat, tcp, udpSeq, net, why, left, losses>>

(* _brackground_session_controller.                                         *)
CheckHeartbeat ==
  /\ "controller" \in tasks /\ left = 0
  /\ Stop("timeout") /\ tasks' = tasks \ {"controller"}
  /\ UNCHANGED <<cl, call, beat, tcp, udp, left, losses>>

(* Time passes when nobody has anything to do at once: an established       *)
(* connection delivers, and a call is answered, within the unit of time.    *)
Urgent ==
  \/ cl = "asking"
  \/ cl = "open" /\ (beat = 0 \/ \E t \in Threads : packed[t] # Nothing /\ link = "up")
  \/ chan # <<>> /\ "packets" \in tasks
  \/ left = 0 /\ "controller" \in tasks

Tick ==
  /\ ~Urgent
  /\ beat' = IF cl = "open" /\ packed["heartbeat"] = Nothing THEN beat - 1 ELSE beat
  /\ left' = IF tasks # {} /\ left > 0 THEN left - 1 ELSE left
  /\ UNCHANGED <<cl, call, tcp, udp, tasks, why, losses>>

SessionSteps == \/ HandlePacket \/ DropConnection \/ CheckHeartbeat
                \/ \E t \in AllTasks : TaskEnds(t)
Next ==
  \/ InitiateSession \/ Auth \/ CreateSession \/ Answer \/ GiveUp \/ Crash
  \/ Pack("heartbeat", "heartbeat") \/ \E kind \in Kinds \ {"heartbeat"} : Pack("user", kind)
  \/ \E t \in Threads : Encode(t) \/ Send(t) \/ SendTimesOut(t)
  \/ SendFrame \/ LinkFails \/ Reconnect
  \/ SessionSteps \/ ForwardFrame \/ Tick

(* The session's tasks are scheduled, receives time out, the service call   *)
(* is carried out, and time passes.                                         *)
Spec ==
  /\ Init /\ [][Next]_vars
  /\ WF_vars(SessionSteps) /\ WF_vars(CreateSession) /\ WF_vars(Tick) /\ WF_vars(Answer)

-----------------------------------------------------------------------------
(* Properties.                                                              *)

(* A client that lives is not declared dead while its connection holds: the *)
(* session misses no heartbeat, whatever else both threads send.            *)
AliveKept == why = "timeout" => cl # "open" \/ losses > 0

(* Motion frames are published in the order they were sent and none twice,  *)
(* though datagrams are lost, repeated and reordered.                       *)
FramesOrdered == \A i \in 2 .. Len(frames) : frames[i - 1] < frames[i]

(* A session whose client died, or was told that there is none, comes to an *)
(* end.                                                                     *)
OrphanEnds == (tasks # {} /\ cl \in {"gone", "failed"}) ~> tasks = {}
=============================================================================
