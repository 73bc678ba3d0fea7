----------------------------- MODULE Supervisor -----------------------------
(***************************************************************************)
(* The supervisor node (supervisor_node.py): the entrypoint coroutine that *)
(* spins the system up, the alert callback that drives the state machine,  *)
(* the coordinated shutdown, and the exception or rclpy.shutdown() that    *)
(* ends the process.                                                       *)
(*                                                                         *)
(* The node runs in a MultiThreadedExecutor.  on_alert_change_cb is called *)
(* by SysAlertsServer._apply_change in the thread of whoever changed the   *)
(* alert table: three callback groups do, and nothing orders them against  *)
(* one another or against the coroutines.                                  *)
(***************************************************************************)
EXTENDS Naturals, SystemFSM

CONSTANT MaxAlerts  \* bound: alert changes delivered in a behaviour

ASSUME MaxAlertsAssumption == MaxAlerts \in Nat

VARIABLES
  proc,      \* the supervisor process: running, exited (code 0) or crashed
  fsm,       \* SystemFSM._state
  boot,      \* where the entrypoint coroutine is
  bootFrom,  \* the state the move of the entrypoint is meant for
  cb,        \* cb[t]: the on_alert_change_cb that thread t is running
  timers,    \* one-shot shutdown timers not fired yet
  sd,        \* sd[s]: where the shutdown_system coroutine started by s is
  calls,     \* calls[s][n]: the call to node n that sd[s] waits for
  draft,     \* draft[s]: state in the status message coroutine s has composed
  status,    \* state in the last message on /system_status
  alerts,    \* alert changes delivered so far
  faultRef,  \* is Supervisor.fault_ref_alert set?
  overtaken, \* history: a move was written although it was chosen in another state
  crossed    \* history: the state had moved on when the last message was sent

vars == <<proc, fsm, boot, bootFrom, cb, timers, sd, calls, draft, status,
          alerts, faultRef, overtaken, crossed>>

-----------------------------------------------------------------------------
(* The callback groups that call on_alert_change_cb: alert requests of the  *)
(* other nodes; process events (with the expiry timer); heartbeats.  The    *)
(* last two only ever raise alerts of the machine with level FATAL.         *)
Threads == {"requests", "default", "heartbeat"}
EventsOf(t) == IF t = "requests" THEN SystemEvent ELSE {"FATAL_FAULT"}

Nodes == {"hwmng", "ssmng"}
Slots == {"boot", "timer"}  \* who may start shutdown_system

Job == [pc : {"idle", "check", "prev", "write", "compose", "publish", "react"},
        op : {"noop", "change", "force"}, to : SystemState, from : SystemState \cup {"any"},
        changed : BOOLEAN, msg : SystemState]
IdleJob == [pc |-> "idle", op |-> "noop", to |-> "BOOTING", from |-> "any",
            changed |-> FALSE, msg |-> "BOOTING"]
(* A callback that has changed nothing goes on to publish the state. *)
NoChange == [IdleJob EXCEPT !.pc = "compose"]

BootPc == {"start", "start_publish", "configure_hw", "configure_ss", "activate_ss",
           "commit_ok", "write_ok", "compose_ok", "publish_ok",
           "commit_fault", "write_fault", "compose_fault", "publish_fault",
           "fault_sleep", "done"}
Down == {"FAULT", "SHUTDOWN"}

(* Nobody is between choosing a move of the machine and publishing it.      *)
BootIdle == boot \in {"start", "configure_hw", "configure_ss", "activate_ss",
                      "commit_ok", "commit_fault", "fault_sleep", "done"}
Quiet ==
  /\ BootIdle
  /\ \A t \in Threads : cb[t].pc = "idle"
  /\ \A s \in Slots : sd[s] \notin {"compose", "publish"}

Init ==
  /\ proc = "running" /\ fsm = "BOOTING" /\ boot = "start" /\ bootFrom = "any"
  /\ cb = [t \in Threads |-> IdleJob]
  /\ timers = 0 /\ sd = [s \in Slots |-> "idle"]
  /\ calls = [s \in Slots |-> [n \in Nodes |-> "get_state"]]
  /\ draft = [s \in Slots |-> "BOOTING"] /\ status = "none"
  /\ alerts = 0 /\ faultRef = FALSE
  /\ overtaken = FALSE /\ crossed = FALSE

(* The state in which a move that is chosen now makes sense: a move into    *)
(* FAULT or SHUTDOWN is right from every state, another only from this one. *)
MeantFor(to) == IF to \in Down THEN "any" ELSE fsm

(* The write of a move chosen earlier. *)
Move(from, to) ==
  /\ fsm' = to
  /\ overtaken' = (overtaken \/ from \notin {"any", fsm})

(* sys_status_pub.publish(msg) of a message composed before. *)
Send(m) ==
  /\ status' = m
  /\ crossed' = (m # fsm)

-----------------------------------------------------------------------------
(* on_alert_change_cb, one step per access to the shared machine: threads   *)
(* switch anywhere, there is no lock.  A field of the job goes back to its  *)
(* idle value once the callback has no more use for it.                     *)

(* An alert change that map_alert_to_system_event maps to e: fault_ref is   *)
(* set, and process_event reads the state to choose what to do.             *)
AlertChange(t, e) ==
  LET r == process_event(fsm, e) IN
  /\ proc = "running" /\ cb[t].pc = "idle" /\ alerts < MaxAlerts
  /\ alerts' = alerts + 1
  /\ faultRef' = (faultRef \/ e = "FATAL_FAULT")
  /\ cb' = [cb EXCEPT ![t] =
        IF r.op = "noop" THEN NoChange
        ELSE [pc |-> "check", op |-> r.op, to |-> r.to, from |-> MeantFor(r.to),
              changed |-> FALSE, msg |-> "BOOTING"]]
  /\ UNCHANGED <<proc, fsm, boot, bootFrom, timers, sd, calls, draft, status, overtaken,
                 crossed>>

(* change_state reads the state again: an illegal transition raises, which  *)
(* force_change_state catches and change_state's caller does not, so that   *)
(* the exception leaves executor.spin().                                    *)
CheckTransition(t) ==
  /\ proc = "running" /\ cb[t].pc = "check"
  /\ IF cb[t].op = "change" /\ ~Legal(fsm, cb[t].to)
     THEN proc' = "crashed" /\ UNCHANGED cb
     ELSE cb' = [cb EXCEPT ![t].pc = "prev", ![t].op = "noop"] /\ UNCHANGED proc
  /\ UNCHANGED <<fsm, boot, bootFrom, timers, sd, calls, draft, status, alerts,
                 faultRef, overtaken, crossed>>

(* prev_state, which tells whether the state has changed, is a read of its  *)
(* own ...                                                                  *)
ReadPrevious(t) ==
  /\ proc = "running" /\ cb[t].pc = "prev"
  /\ cb' = [cb EXCEPT ![t].pc = "write", ![t].changed = (fsm # cb[t].to)]
  /\ UNCHANGED <<proc, fsm, boot, bootFrom, timers, sd, calls, draft, status, alerts,
                 faultRef, overtaken, crossed>>

(* ... and the new state is written over whatever the state is by then.     *)
WriteState(t) ==
  /\ proc = "running" /\ cb[t].pc = "write"
  /\ Move(cb[t].from, cb[t].to)
  /\ cb' = [cb EXCEPT ![t] = IF cb[t].changed
                             THEN [cb[t] EXCEPT !.pc = "compose", !.from = "any"] ELSE NoChange]
  /\ UNCHANGED <<proc, boot, bootFrom, timers, sd, calls, draft, status, alerts,
                 faultRef, crossed>>

(* publish_system_status reads the state into a message, then sends it.     *)
ComposeStatus(t) ==
  /\ proc = "running" /\ cb[t].pc = "compose"
  /\ cb' = [cb EXCEPT ![t].pc = "publish", ![t].msg = fsm]
  /\ UNCHANGED <<proc, fsm, boot, bootFrom, timers, sd, calls, draft, status, alerts,
                 faultRef, overtaken, crossed>>

PublishStatus(t) ==
  /\ proc = "running" /\ cb[t].pc = "publish"
  /\ Send(cb[t].msg)
  /\ cb' = [cb EXCEPT ![t] = IF cb[t].changed
                             THEN [cb[t] EXCEPT !.pc = "react", !.msg = "BOOTING"] ELSE IdleJob]
  /\ UNCHANGED <<proc, fsm, boot, bootFrom, timers, sd, calls, draft, alerts, faultRef,
                 overtaken>>

(* After a change, the state is read once more: FAULT schedules shutdown.   *)
React(t) ==
  /\ proc = "running" /\ cb[t].pc = "react"
  /\ timers' = IF fsm = "FAULT" THEN timers + 1 ELSE timers
  /\ cb' = [cb EXCEPT ![t] = IdleJob]
  /\ UNCHANGED <<proc, fsm, boot, bootFrom, sd, calls, draft, status, alerts, faultRef,
                 overtaken, crossed>>

-----------------------------------------------------------------------------
(* entrypoint and spinup_system.  A lifecycle request that the node refuses *)
(* or leaves unanswered, or whose service is not there, aborts the spin up. *)
StartBoot ==
  /\ proc = "running" /\ boot = "start"
  /\ draft' = [draft EXCEPT !["boot"] = fsm]
  /\ boot' = "start_publish"
  /\ UNCHANGED <<proc, fsm, bootFrom, cb, timers, sd, calls, status, alerts, faultRef,
                 overtaken, crossed>>

SpinupStep(at, next) ==
  /\ proc = "running" /\ boot = at
  /\ boot' \in {next, "commit_fault"}
  /\ UNCHANGED <<proc, fsm, bootFrom, cb, timers, sd, calls, draft, status, alerts,
                 faultRef, overtaken, crossed>>

SpinupSystem ==
  \/ SpinupStep("configure_hw", "configure_ss")
  \/ SpinupStep("configure_ss", "activate_ss")
  \/ SpinupStep("activate_ss", "commit_ok")

(* The change_state calls of the entrypoint: an illegal one raises in the   *)
(* coroutine and ends the process.                                          *)
BootTarget == IF boot \in {"commit_ok", "write_ok"} THEN "STANDBY" ELSE "FAULT"

(* Seeded fault: the entrypoint forces its transition. *)
BootMayCommit_Forced == TRUE
BootMayCommit == Legal(fsm, BootTarget)

BootCheck ==
  /\ proc = "running" /\ boot \in {"commit_ok", "commit_fault"}
  /\ bootFrom' = MeantFor(BootTarget)
  /\ IF BootMayCommit
     THEN /\ boot' = IF boot = "commit_ok" THEN "write_ok" ELSE "write_fault"
          /\ UNCHANGED proc
     ELSE proc' = "crashed" /\ UNCHANGED boot
  /\ UNCHANGED <<fsm, cb, timers, sd, calls, draft, status, alerts, faultRef, overtaken,
                 crossed>>

(* Where the coroutine goes on: to publish what it wrote, then to its end,  *)
(* or to shutdown after a failed spin up.  Seeded faults: it does not       *)
(* publish; it does not shut down.                                          *)
AfterWrite_Silent == IF boot = "write_ok" THEN "done" ELSE "fault_sleep"
AfterWrite == IF boot = "write_ok" THEN "compose_ok" ELSE "compose_fault"
AfterPublish_NoShutdown == IF boot = "start_publish" THEN "configure_hw" ELSE "done"
AfterPublish ==
  CASE boot = "start_publish" -> "configure_hw"
    [] boot = "publish_ok"    -> "done"
    [] OTHER                  -> "fault_sleep"

BootWrite ==
  /\ proc = "running" /\ boot \in {"write_ok", "write_fault"}
  /\ Move(bootFrom, BootTarget)
  /\ boot' = AfterWrite
  /\ UNCHANGED <<proc, bootFrom, cb, timers, sd, calls, draft, status, alerts, faultRef,
                 crossed>>

BootCompose ==
  /\ proc = "running" /\ boot \in {"compose_ok", "compose_fault"}
  /\ draft' = [draft EXCEPT !["boot"] = fsm]
  /\ boot' = IF boot = "compose_ok" THEN "publish_ok" ELSE "publish_fault"
  /\ UNCHANGED <<proc, fsm, bootFrom, cb, timers, sd, calls, status, alerts, faultRef,
                 overtaken, crossed>>

BootPublish ==
  /\ proc = "running" /\ boot \in {"start_publish", "publish_ok", "publish_fault"}
  /\ Send(draft["boot"])
  /\ boot' = AfterPublish
  /\ draft' = [draft EXCEPT !["boot"] = "BOOTING"]
  /\ UNCHANGED <<proc, fsm, bootFrom, cb, timers, sd, calls, alerts, faultRef,
                 overtaken>>

-----------------------------------------------------------------------------
(* shutdown_system.  It is started by the entrypoint after a failed spin    *)
(* up, or by a shutdown timer; the timers' callback group runs one at a     *)
(* time.                                                                    *)
(* Seeded fault: the timer is not there to be created first. *)
ShutdownDue_NoTimer(s) == s = "boot" => boot = "fault_sleep"
ShutdownDue(s) == IF s = "boot" THEN boot = "fault_sleep" ELSE timers > 0

StartShutdown(s) ==
  /\ proc = "running" /\ sd[s] = "idle" /\ ShutdownDue(s)
  /\ boot' = IF s = "boot" THEN "done" ELSE boot
  /\ timers' = IF s = "timer" THEN timers - 1 ELSE timers
  /\ sd' = [sd EXCEPT ![s] = "gather"]
  /\ UNCHANGED <<proc, fsm, bootFrom, cb, calls, draft, status, alerts, faultRef,
                 overtaken, crossed>>

(* LifecycleNodeSupervisor.shutdown_async on each node: get_state, then the *)
(* shutdown transition of the state it read; a node that is finalized       *)
(* already needs none.  The transition may be refused: the node may have    *)
(* moved since.                                                             *)
NodeAnswers(s, n) ==
  /\ proc = "running" /\ sd[s] = "gather" /\ calls[s][n] # "done"
  /\ \E c \in {"change_state", "done"} \ {calls[s][n]} :
        calls' = [calls EXCEPT ![s][n] = c]
  /\ UNCHANGED <<proc, fsm, boot, bootFrom, cb, timers, sd, draft, status, alerts,
                 faultRef, overtaken, crossed>>

(* A call that gets no answer ends after its timeout, at once when the      *)
(* service is not there, and shutdown_async gives up on the node.           *)
(* Seeded fault: the transition is awaited without a timeout.               *)
Bounded_GetState(c) == c = "get_state"
Bounded(c) == c \in {"get_state", "change_state"}

CallTimesOut(s, n) ==
  /\ proc = "running" /\ sd[s] = "gather" /\ Bounded(calls[s][n])
  /\ calls' = [calls EXCEPT ![s][n] = "done"]
  /\ UNCHANGED <<proc, fsm, boot, bootFrom, cb, timers, sd, draft, status, alerts,
                 faultRef, overtaken, crossed>>

(* Whatever the state is by now, SHUTDOWN is written and published.         *)
ForceShutdown(s) ==
  /\ proc = "running" /\ sd[s] = "gather" /\ \A n \in Nodes : calls[s][n] = "done"
  /\ Move("any", "SHUTDOWN")
  /\ sd' = [sd EXCEPT ![s] = "compose"]
  /\ UNCHANGED <<proc, boot, bootFrom, cb, timers, calls, draft, status, alerts,
                 faultRef, crossed>>

ComposeShutdown(s) ==
  /\ proc = "running" /\ sd[s] = "compose"
  /\ draft' = [draft EXCEPT ![s] = fsm]
  /\ sd' = [sd EXCEPT ![s] = "publish"]
  /\ UNCHANGED <<proc, fsm, boot, bootFrom, cb, timers, calls, status, alerts, faultRef,
                 overtaken, crossed>>

PublishShutdown(s) ==
  /\ proc = "running" /\ sd[s] = "publish"
  /\ Send(draft[s])
  /\ draft' = [draft EXCEPT ![s] = "BOOTING"]
  /\ sd' = [sd EXCEPT ![s] = "sleep"]
  /\ UNCHANGED <<proc, fsm, boot, bootFrom, cb, timers, calls, alerts, faultRef,
                 overtaken>>

ExitProcess(s) ==
  /\ proc = "running" /\ sd[s] = "sleep"
  /\ proc' = "exited"
  /\ UNCHANGED <<fsm, boot, bootFrom, cb, timers, sd, calls, draft, status, alerts,
                 faultRef, overtaken, crossed>>

-----------------------------------------------------------------------------
CallbackStep(t) ==
  \/ CheckTransition(t) \/ ReadPrevious(t) \/ WriteState(t)
  \/ ComposeStatus(t) \/ PublishStatus(t) \/ React(t)

BootStep ==
  StartBoot \/ SpinupSystem \/ BootCheck \/ BootWrite \/ BootCompose \/ BootPublish

ShutdownStep(s) ==
  \/ StartShutdown(s) \/ ForceShutdown(s) \/ ComposeShutdown(s) \/ PublishShutdown(s)
  \/ ExitProcess(s)
  \/ \E n \in Nodes : CallTimesOut(s, n)

Next ==
  \/ \E t \in Threads : (\E e \in EventsOf(t) : AlertChange(t, e)) \/ CallbackStep(t)
  \/ BootStep
  \/ \E s \in Slots : ShutdownStep(s) \/ \E n \in Nodes : NodeAnswers(s, n)

(* The executor does not stop while a callback, a coroutine or a timer is   *)
(* ready to run.  Nothing makes an alert happen, and no answer of a node is *)
(* assumed: every call ends without one.                                    *)
ExecutorStep ==
  \/ \E t \in Threads : CallbackStep(t)
  \/ BootStep
  \/ \E s \in Slots : ShutdownStep(s)
Fairness == WF_vars(ExecutorStep)

Spec == Init /\ [][Next]_vars
FairSpec == Spec /\ Fairness

-----------------------------------------------------------------------------
(* Every variable has its type. *)
TypeOK ==
  /\ proc \in {"running", "exited", "crashed"}
  /\ fsm \in SystemState
  /\ boot \in BootPc /\ bootFrom \in SystemState \cup {"any"}
  /\ cb \in [Threads -> Job]
  /\ timers \in Nat
  /\ sd \in [Slots -> {"idle", "gather", "compose", "publish", "sleep"}]
  /\ calls \in [Slots -> [Nodes -> {"get_state", "change_state", "done"}]]
  /\ draft \in [Slots -> SystemState]
  /\ status \in SystemState \cup {"none"}
  /\ alerts \in Nat /\ faultRef \in BOOLEAN
  /\ overtaken \in BOOLEAN /\ crossed \in BOOLEAN

(* Something that leads to the end of the process is already on its way.    *)
WillReact(t) ==
  cb[t].pc \in {"compose", "publish", "react"} /\ cb[t].to = "FAULT" /\ cb[t].changed
ExitUnderWay ==
  \/ timers > 0
  \/ \E s \in Slots : sd[s] # "idle"
  \/ boot \in {"compose_fault", "publish_fault", "fault_sleep"}
  \/ \E t \in Threads : WillReact(t)

(* The machine is never left in FAULT, or in SHUTDOWN, with nothing that    *)
(* will end the process: whoever moved it there (an alert from any of the   *)
(* three callback groups, in any state and any interleaving, or a failed    *)
(* spin up) has shutdown scheduled, running, or as its next step (lines     *)
(* 126-129 and 253-261).  The one exception: a move written over a state    *)
(* it was not chosen in (line 77 of fsm.py) may hide FAULT from the thread  *)
(* that was about to schedule the shutdown.                                 *)
FaultHasExit == proc = "running" /\ fsm \in Down /\ ~overtaken => ExitUnderWay

(* When nobody is moving the machine, a FATAL alert that was ever delivered *)
(* has the system in FAULT or beyond, however the threads interleaved, but  *)
(* for the one case that a move chosen before the FATAL was written after   *)
(* it (on_alert_change_cb with process_event).                              *)
FatalNotLost == proc = "running" /\ Quiet /\ faultRef /\ ~overtaken => fsm \in Down

(* No move goes unpublished: when nobody is moving the machine, the last    *)
(* message on /system_status tells its state, but for a message that was    *)
(* composed before a move and sent after that move's own message            *)
(* (publish_system_status and its callers).                                 *)
StatusFresh == Quiet /\ status # "none" /\ ~crossed => status = fsm

(* No exception ends the process before a FATAL alert: change_state can     *)
(* only raise, in the entrypoint (lines 126 and 132) or in a callback, for  *)
(* a move that a FATAL alert has overtaken.                                 *)
CrashNeedsFatal == proc = "crashed" => faultRef

(* FAULT and SHUTDOWN are never left for a state of the running system by a *)
(* move that was chosen in them: process_event has none, and the            *)
(* entrypoint's change_state is refused.                                    *)
OneWayDown == [][(fsm \in Down) => (fsm' \in Down \/ overtaken')]_vars

(* A system in FAULT comes to an end, with nodes that answer or not: the    *)
(* two second timeouts of shutdown_async bound every call.  The overwritten *)
(* FAULT of FaultHasExit is the exception here too.                         *)
FaultTerminates == fsm = "FAULT" ~> (proc # "running" \/ overtaken)

-----------------------------------------------------------------------------
(* What the tests and documents say of the same behaviour, and the code     *)
(* does not do: TLC refutes it (README.md, findings).                       *)

=============================================================================
