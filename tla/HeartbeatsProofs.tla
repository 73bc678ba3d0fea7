--------------------------- MODULE HeartbeatsProofs ---------------------------
(***************************************************************************)
(* NoFalseAlarm of Heartbeats, for any processes, periods, tolerances and  *)
(* delays.  A process that is not excused has been heard lately enough:    *)
(* its deadline is bounded below by the time since its last beat was sent, *)
(* and while a beat is under way by the time the beat has left.            *)
(***************************************************************************)
EXTENDS Heartbeats, TLAPS

(* How long a process may be silent without an excuse.                      *)
Patience == Period + Tolerance - MaxDelay

(* Every variable that matters here has its type. *)
HbTypes ==
  /\ flight \in [Procs -> {None} \cup 0 .. MaxDelay]
  /\ deadline \in [Procs -> {None} \cup Late .. Window]
  /\ silent \in [Procs -> Nat]
  /\ excuse \in [Procs -> BOOLEAN]
  /\ DOMAIN alarm = Procs

(* What is known of the process p.                                          *)
InTime(p) ==
  /\ flight[p] # None => silent[p] = flight[p]
  /\ ~excuse[p] => silent[p] <= Patience \/ deadline[p] = Window
  /\ ~excuse[p] /\ deadline[p] # None =>
       deadline[p] >= IF flight[p] = None THEN Window - silent[p] ELSE MaxDelay - flight[p]
  /\ alarm[p] # "none" => excuse[p]

HbInv == HbTypes /\ \A p \in Procs : InTime(p)

(* At first nobody has been heard of.                                       *)
LEMMA HbInit == Init => HbInv
<1> SUFFICES ASSUME Init PROVE HbInv
  OBVIOUS
<1>1. HbTypes
  BY HeartbeatAssumption DEF Init, GeneratorInit, ListenerInit, HbTypes, None, Late, Window
<1>2. ASSUME NEW p \in Procs PROVE InTime(p)
  BY HeartbeatAssumption DEF Init, GeneratorInit, ListenerInit, InTime, None, Patience
<1> QED BY <1>1, <1>2 DEF HbInv

(* A deadline that has passed excuses the alarm.                            *)
LEMMA LateIsExcused ==
  ASSUME HbInv, NEW p \in Procs, deadline[p] = Late
  PROVE  excuse[p]
  BY HeartbeatAssumption DEF HbInv, HbTypes, InTime, None, Late, Window, Patience

(* Sending, hearing, losing, checking and waiting keep the invariant.       *)
LEMMA HbStep == HbInv /\ [Next]_vars => HbInv'
<1> SUFFICES ASSUME HbInv, [Next]_vars PROVE HbInv'
  OBVIOUS
<1> USE HeartbeatAssumption DEF HbInv, HbTypes
<1>1. ASSUME NEW q \in Procs, SendHb(q) PROVE HbInv'
  <2>1. HbTypes'
    BY <1>1 DEF SendHb, listener, None
  <2>2. ASSUME NEW p \in Procs PROVE InTime(p)'
    BY <1>1, <2>2 DEF SendHb, listener, InTime, None, Late, Window, Patience
  <2> QED BY <2>1, <2>2
<1>2. ASSUME NEW q \in Procs, HeartbeatReceived(q) PROVE HbInv'
  <2>1. HbTypes'
    BY <1>2 DEF HeartbeatReceived, generator, None, Late, Window
  <2>2. ASSUME NEW p \in Procs PROVE InTime(p)'
    BY <1>2, <2>2 DEF HeartbeatReceived, generator, InTime, None, Late, Window, Patience
  <2> QED BY <2>1, <2>2
<1>3. ASSUME NEW q \in Procs, Lose(q) PROVE HbInv'
  <2>1. HbTypes'
    BY <1>3 DEF Lose, listener, generator, None
  <2>2. ASSUME NEW p \in Procs PROVE InTime(p)'
    BY <1>3, <2>2 DEF Lose, listener, generator, InTime, None, Late, Window, Patience
  <2> QED BY <2>1, <2>2
<1>4. CASE CheckHeartbeats
  <2>1. HbTypes'
    BY <1>4 DEF CheckHeartbeats, generator, ghosts
  <2>2. ASSUME NEW p \in Procs PROVE InTime(p)'
    <3>1. UNCHANGED <<flight, deadline, silent, excuse>>
      BY <1>4 DEF CheckHeartbeats, generator, ghosts
    <3>2. alarm'[p] = alarm[p] \/ deadline[p] = Late
      BY <1>4 DEF CheckHeartbeats
    <3>3. alarm'[p] # "none" => excuse[p]
      BY <3>2, LateIsExcused DEF InTime
    <3> QED BY <3>1, <3>3 DEF InTime
  <2> QED BY <2>1, <2>2
<1>5. CASE Tick
  <2>1. \A p \in Procs :
          /\ flight[p] # MaxDelay
          /\ flight'[p] = Later(flight[p]) /\ deadline'[p] = Down(deadline[p])
          /\ silent'[p] = IF silent[p] < Longest THEN silent[p] + 1 ELSE Longest
          /\ alarm'[p] = alarm[p]
    BY <1>5 DEF Tick, Due
  <2>2. \A p \in Procs : excuse'[p] <=> excuse[p] \/ silent[p] + 1 > Patience
    BY <1>5 DEF Tick, Patience
  <2>3. HbTypes'
    <3>1. flight' \in [Procs -> {None} \cup 0 .. MaxDelay]
      BY <1>5, <2>1 DEF Tick, Later, None
    <3>2. deadline' \in [Procs -> {None} \cup Late .. Window]
      BY <1>5, <2>1 DEF Tick, Down, None, Late, Window
    <3>3. silent' \in [Procs -> Nat]
      BY <1>5 DEF Tick, Longest
    <3>4. excuse' \in [Procs -> BOOLEAN]
      BY <1>5 DEF Tick
    <3> QED BY <1>5, <3>1, <3>2, <3>3, <3>4 DEF Tick
  <2>4. ASSUME NEW p \in Procs PROVE InTime(p)'
    BY <2>1, <2>2, <2>4 DEF InTime, Later, Down, None, Late, Window, Patience, Longest
  <2> QED BY <2>3, <2>4
<1>6. CASE UNCHANGED <<flight, deadline, silent, excuse, alarm>>
  BY <1>6 DEF InTime
<1>7. ASSUME NEW q \in Procs, Crash(q) \/ Restart(q) \/ \E d \in 1 .. MaxStall : Stall(q, d)
      PROVE  HbInv'
  BY <1>6, <1>7 DEF Crash, Restart, Stall, listener, ghosts
<1>8. CASE UNCHANGED vars
  BY <1>6, <1>8 DEF vars
<1> QED BY <1>1, <1>2, <1>3, <1>4, <1>5, <1>7, <1>8 DEF Next

(* on_timeout is never called for a process whose beats were sent in time   *)
(* and not lost, for any periods, delays and numbers of processes           *)
(* (_heartbeat_received, _check_heartbeats).                                *)
THEOREM NoAlarmIsFalse == Spec => []NoFalseAlarm
<1>1. HbInv => NoFalseAlarm
  BY DEF HbInv, InTime, NoFalseAlarm
<1> QED BY <1>1, HbInit, HbStep, PTL DEF Spec
=============================================================================
