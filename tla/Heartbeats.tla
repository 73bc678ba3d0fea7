------------------------------ MODULE Heartbeats ------------------------------
(***************************************************************************)
(* Heartbeats (orchestration/heartbeats): each process's generator sends a *)
(* beat every Period that announces the next one within Period + Tolerance; *)
(* the supervisor's listener keeps a deadline for every name it has heard  *)
(* of, checks the deadlines on a timer, and calls on_timeout once for each *)
(* silence.                                                                *)
(*                                                                         *)
(* Time moves in ticks, and no further than the next thing that is due.    *)
(* The generator's timer is in its host's default callback group, so a     *)
(* callback of the host holds beats up; a beat takes up to MaxDelay, and   *)
(* may be lost; a process may die and be started again.                    *)
(***************************************************************************)
EXTENDS Integers

CONSTANTS
  Procs,      \* the processes that beat
  Core,       \* those of the core domain
  Period, Tolerance, CheckPeriod,
  MaxDelay,   \* the longest a beat is under way
  MaxStall,   \* bound: length of a host's callback
  MaxFaults   \* bound: stalls, losses, crashes and restarts

ASSUME HeartbeatAssumption ==
  /\ Core \subseteq Procs
  /\ {Period, Tolerance, CheckPeriod, MaxDelay, MaxStall, MaxFaults} \subseteq Nat
  /\ 0 < Period /\ 0 < Tolerance /\ 0 < CheckPeriod /\ MaxDelay < Period

VARIABLES
  alive, stall,     \* is the process up; how long its executor is still busy
  phase, owed,      \* the generator's timer: time since it expired; does it wait to be run?
  flight,           \* flight[p]: how long its beat has been under way, or None
  deadline,         \* deadline[p]: time left of the listener's entry, or None
  reported,         \* the entry's flag
  alarm,            \* the level of the alert raised for this silence, or "none"
  check,            \* time since the last check
  silent,           \* ghost: time since p last sent a beat, up to Window + 1
  excuse,           \* ghost: has a beat of p been lost, or late, since the last one heard?
  faults

vars == <<alive, stall, phase, owed, flight, deadline, reported, alarm, check, silent, excuse,
          faults>>
generator == <<alive, stall, phase, owed>>
listener == <<deadline, reported, alarm, check>>
ghosts == <<silent, excuse>>

None == -2
Late == -1  \* a deadline that has passed

(* hb_time_window.                                                          *)
(* Seeded fault: the window does not have the margin.                       *)
Window_Bare == Period
Window == Period + Tolerance

GeneratorInit ==
  /\ alive = [p \in Procs |-> TRUE] /\ stall = [p \in Procs |-> 0]
  /\ phase = [p \in Procs |-> 0] /\ owed = [p \in Procs |-> FALSE]

(* The listener starts with an empty table.                                 *)
ListenerInit ==
  /\ deadline = [p \in Procs |-> None] /\ check = 0
  /\ reported = [p \in Procs |-> FALSE] /\ alarm = [p \in Procs |-> "none"]

Init ==
  /\ GeneratorInit /\ ListenerInit
  /\ flight = [p \in Procs |-> None] /\ faults = 0
  /\ silent = [p \in Procs |-> 0] /\ excuse = [p \in Procs |-> FALSE]

-----------------------------------------------------------------------------
(* The processes.                                                           *)

(* _send_hb.  (A beat still under way is heard before the next goes out.)    *)
SendHb(p) ==
  /\ alive[p] /\ owed[p] /\ stall[p] = 0 /\ flight[p] = None
  /\ owed' = [owed EXCEPT ![p] = FALSE]
  /\ flight' = [flight EXCEPT ![p] = 0]
  /\ silent' = [silent EXCEPT ![p] = 0]
  /\ UNCHANGED <<alive, stall, phase, listener, excuse, faults>>

Fault == faults < MaxFaults /\ faults' = faults + 1

(* A callback of the host node runs for d.                                  *)
Stall(p, d) ==
  /\ alive[p] /\ stall[p] = 0 /\ Fault
  /\ stall' = [stall EXCEPT ![p] = d]
  /\ UNCHANGED <<alive, phase, owed, flight, listener, ghosts>>

Crash(p) ==
  /\ alive[p] /\ Fault
  /\ alive' = [alive EXCEPT ![p] = FALSE]
  /\ UNCHANGED <<stall, phase, owed, flight, listener, ghosts>>

Restart(p) ==
  /\ ~alive[p] /\ Fault
  /\ alive' = [alive EXCEPT ![p] = TRUE] /\ stall' = [stall EXCEPT ![p] = 0]
  /\ phase' = [phase EXCEPT ![p] = 0] /\ owed' = [owed EXCEPT ![p] = FALSE]
  /\ UNCHANGED <<flight, listener, ghosts>>

Lose(p) ==
  /\ flight[p] # None /\ Fault
  /\ flight' = [flight EXCEPT ![p] = None]
  /\ excuse' = [excuse EXCEPT ![p] = TRUE]
  /\ UNCHANGED <<generator, listener, silent>>

-----------------------------------------------------------------------------
(* The listener.  Its two callbacks share a callback group.                 *)

(* The entry is replaced, so that a silence to come is reported again.      *)
(* Seeded fault: the flag of the old entry is kept.                         *)
Rearm_Keep(p) == reported[p]
Rearm(p) == FALSE

HeartbeatReceived(p) ==
  /\ flight[p] # None
  /\ flight' = [flight EXCEPT ![p] = None]
  /\ deadline' = [deadline EXCEPT ![p] = Window]
  /\ reported' = [reported EXCEPT ![p] = Rearm(p)]
  /\ alarm' = [alarm EXCEPT ![p] = "none"]
  /\ excuse' = [excuse EXCEPT ![p] = FALSE]
  /\ UNCHANGED <<generator, check, silent, faults>>

(* on_heartbeat_timeout_cb: a FATAL alert for a process of the core.        *)
Level(p) == IF p \in Core THEN "FATAL" ELSE "WARN"

CheckHeartbeats ==
  LET late == {p \in Procs : ~reported[p] /\ deadline[p] = Late} IN
  /\ check = CheckPeriod /\ check' = 0
  /\ reported' = [p \in Procs |-> reported[p] \/ p \in late]
  /\ alarm' = [p \in Procs |-> IF p \in late THEN Level(p) ELSE alarm[p]]
  /\ UNCHANGED <<generator, flight, deadline, ghosts, faults>>

-----------------------------------------------------------------------------
(* Time.                                                                    *)

Down(t) == IF t = None THEN None ELSE IF t > Late THEN t - 1 ELSE Late
Later(t) == IF t = None THEN None ELSE t + 1
Longest == Period + Tolerance + 1

Due ==
  \/ check = CheckPeriod
  \/ \E p \in Procs : flight[p] = MaxDelay \/ (alive[p] /\ owed[p] /\ stall[p] = 0)

(* A process is excused when it has been silent for so long that even a     *)
(* beat sent now could be heard too late.                                   *)
Tick ==
  /\ ~Due
  /\ check' = check + 1
  /\ phase' = [p \in Procs |-> (phase[p] + 1) % Period]
  /\ owed' = [p \in Procs |-> alive[p] /\ (owed[p] \/ phase[p] + 1 = Period)]
  /\ stall' = [p \in Procs |-> IF stall[p] > 0 THEN stall[p] - 1 ELSE 0]
  /\ flight' = [p \in Procs |-> Later(flight[p])]
  /\ deadline' = [p \in Procs |-> Down(deadline[p])]
  /\ silent' = [p \in Procs |-> IF silent[p] < Longest THEN silent[p] + 1 ELSE Longest]
  /\ excuse' = [p \in Procs |-> excuse[p] \/ silent[p] + 1 > Period + Tolerance - MaxDelay]
  /\ UNCHANGED <<alive, reported, alarm, faults>>

Next ==
  \/ Tick \/ CheckHeartbeats
  \/ \E p \in Procs :
       \/ SendHb(p) \/ HeartbeatReceived(p) \/ Crash(p) \/ Restart(p) \/ Lose(p)
       \/ \E d \in 1..MaxStall : Stall(p, d)

(* Time passes, and what is due is done.                                    *)
Spec ==
  /\ Init /\ [][Next]_vars
  /\ WF_vars(Tick) /\ WF_vars(CheckHeartbeats)
  /\ \A p \in Procs : WF_vars(SendHb(p)) /\ WF_vars(HeartbeatReceived(p))

-----------------------------------------------------------------------------
(* Properties.                                                              *)

(* No false alarm: on_timeout is not called for a process whose beats were  *)
(* all sent within the tolerance, less the delay of the network, and none   *)
(* lost; this with beats delayed, a host's callbacks holding the timer up,  *)
(* and checks at any moment in between.                                     *)
NoFalseAlarm == \A p \in Procs : alarm[p] # "none" => excuse[p]

(* A process once heard of that dies is reported, for every one of its      *)
(* deaths: also when it was reported before, came back, and died again, and *)
(* when a last beat arrives after its death.                                *)
Detects ==
  \A p \in Procs :
    (~alive[p] /\ deadline[p] # None) ~> (alarm[p] = Level(p) \/ alive[p])
=============================================================================
