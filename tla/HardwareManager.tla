--------------------------- MODULE HardwareManager ---------------------------
(***************************************************************************)
(* The hardware manager at run time: the node and its lifecycle callbacks  *)
(* (hardware_mng_node.py), the reconciler of controller states             *)
(* (hw_controller_state_reconciler.py), the looper with one thread per     *)
(* controller (looper_util.py) and the controller's job                    *)
(* (abstract_hw_controller.py).                                            *)
(*                                                                         *)
(* The node spins in a single thread: callbacks, the reconcile timer and   *)
(* the frames it dispatches never overlap.  The loop threads run beside    *)
(* it and share the controllers' flags and the loops' events with it.      *)
(***************************************************************************)
EXTENDS Naturals

CONSTANTS
  N,          \* number of controllers, each with its loop
  MaxFaults   \* bound: failures, exceptions and join timeouts in a behaviour

ASSUME HardwareAssumption == N \in Nat \ {0} /\ MaxFaults \in Nat

VARIABLES
  lc,         \* lifecycle state of the node
  isActive,   \* _is_active: frames are accepted
  fatalSeen,  \* _shutdown_requested
  proc,       \* the process: "up", or "exited" by SystemExit
  goal,       \* goal[c]: ManagedController.goal
  init,       \* init[c]: the controller's _initialized
  power,      \* power[c]: the hardware itself is initialised
  thr,        \* thr[c]: where the loop's thread is
  run, wait,  \* run[c], wait[c]: the loop's two events
  pending,    \* pending[c]: commands or configurations wait in c's queues
  main,       \* what the node's thread is doing
  faults      \* faults so far

vars == <<lc, isActive, fatalSeen, proc, goal, init, power, thr, run, wait,
          pending, main, faults>>
loops == <<thr, run, wait>>

Controllers == 1 .. N
States == {"UNINITIALIZED", "INITIALIZED", "RUNNING"}
Lifecycle == {"unconfigured", "inactive", "active", "finalized"}

(* What a pass of the reconciler is part of: a lifecycle callback, named by *)
(* the state it ends in, the timer, or the exit after a FATAL signal.       *)
Passes == Lifecycle \cup {"timer", "exit"}
Idle == [at |-> "idle", c |-> 0, pass |-> "timer"]

TypeOK ==
  /\ lc \in Lifecycle /\ isActive \in BOOLEAN /\ fatalSeen \in BOOLEAN
  /\ proc \in {"up", "exited"}
  /\ goal \in [Controllers -> States]
  /\ init \in [Controllers -> BOOLEAN] /\ power \in [Controllers -> BOOLEAN]
  /\ thr \in [Controllers -> {"dead", "top", "wait", "job", "control", "error", "fatal",
                              "signal", "alarm", "end"}]
  /\ run \in [Controllers -> BOOLEAN] /\ wait \in [Controllers -> BOOLEAN]
  /\ pending \in [Controllers -> BOOLEAN]
  /\ main \in [at : {"idle", "observe", "init", "start", "again", "resume", "pause", "stop",
                     "join", "deinit", "fatal", "joinAll"}, c : 0 .. N + 1, pass : Passes]
  /\ faults \in 0 .. MaxFaults

Init ==
  /\ lc = "unconfigured" /\ isActive = FALSE /\ fatalSeen = FALSE /\ proc = "up"
  /\ goal = [c \in Controllers |-> "UNINITIALIZED"]
  /\ init = [c \in Controllers |-> FALSE] /\ power = [c \in Controllers |-> FALSE]
  /\ thr = [c \in Controllers |-> "dead"]
  /\ run = [c \in Controllers |-> FALSE] /\ wait = [c \in Controllers |-> FALSE]
  /\ pending = [c \in Controllers |-> FALSE]
  /\ main = Idle /\ faults = 0

Fault == faults < MaxFaults /\ faults' = faults + 1

-----------------------------------------------------------------------------
(* The looper.                                                              *)

Alive(c) == thr[c] # "dead"

(* Setting an event wakes the thread that waits for it, even if the event   *)
(* is cleared again before the thread gets to run.                          *)
Woken(cs) == [c \in Controllers |-> IF c \in cs /\ thr[c] = "wait" THEN "job" ELSE thr[c]]

(* _start_loop: a new thread, its loop paused.  Refused if the old one is   *)
(* alive.                                                                   *)
StartLoop(c) ==
  /\ thr' = [thr EXCEPT ![c] = "top"]
  /\ run' = [run EXCEPT ![c] = TRUE] /\ wait' = [wait EXCEPT ![c] = FALSE]

ResumeLoop(c) == /\ wait' = [wait EXCEPT ![c] = TRUE] /\ thr' = Woken({c}) /\ UNCHANGED run
PauseLoop(c) == wait' = [wait EXCEPT ![c] = FALSE] /\ UNCHANGED <<thr, run>>

(* _request_loop_stop, of every loop of cs whose thread is alive.           *)
(* Seeded fault: the pause event of a paused loop is not set.               *)
RequestStop_Asleep(cs) ==
  /\ run' = [c \in Controllers |-> run[c] /\ ~(c \in cs /\ Alive(c))]
  /\ UNCHANGED <<wait, thr>>
RequestStop(cs) ==
  /\ run' = [c \in Controllers |-> run[c] /\ ~(c \in cs /\ Alive(c))]
  /\ wait' = [c \in Controllers |-> wait[c] \/ (c \in cs /\ Alive(c))]
  /\ thr' = Woken(cs)

(* _loop, from one check of _run to the next.                               *)
LoopTop(c) ==
  /\ proc = "up" /\ thr[c] = "top"
  /\ thr' = [thr EXCEPT ![c] = IF ~run[c] THEN "dead" ELSE IF wait[c] THEN "job" ELSE "wait"]
  /\ UNCHANGED <<lc, isActive, fatalSeen, proc, goal, init, power, run, wait, pending, main,
                 faults>>

LoopEnd(c) ==
  /\ proc = "up" /\ thr[c] = "end"
  /\ thr' = [thr EXCEPT ![c] = IF run[c] THEN "top" ELSE "dead"]
  /\ UNCHANGED <<lc, isActive, fatalSeen, proc, goal, init, power, run, wait, pending, main,
                 faults>>

-----------------------------------------------------------------------------
(* The controller's job, _flush.                                            *)

(* The queues are drained, then read() and control() run.                   *)
Flush(c) ==
  /\ proc = "up" /\ thr[c] = "job"
  /\ thr' = [thr EXCEPT ![c] = IF init[c] THEN "control" ELSE "end"]
  /\ pending' = [pending EXCEPT ![c] = @ /\ ~init[c]]
  /\ UNCHANGED <<lc, isActive, fatalSeen, proc, goal, init, power, run, wait, main, faults>>

(* Also with a ControllerWarning, which is only logged.                     *)
ControlEnds(c) ==
  /\ proc = "up" /\ thr[c] = "control"
  /\ thr' = [thr EXCEPT ![c] = "end"]
  /\ UNCHANGED <<lc, isActive, fatalSeen, proc, goal, init, power, run, wait, pending, main,
                 faults>>

(* ControllerError and unexpected exceptions, or ControllerFatal: the       *)
(* controller is marked, the hardware itself is left as it is.              *)
ControlRaises(c, level) ==
  /\ proc = "up" /\ thr[c] = "control" /\ Fault
  /\ init' = [init EXCEPT ![c] = FALSE]
  /\ thr' = [thr EXCEPT ![c] = level]
  /\ UNCHANGED <<lc, isActive, fatalSeen, proc, goal, power, run, wait, pending, main>>

(* The STOP request the job returns.  The signal of an error does nothing.  *)
LoopStop(c) ==
  /\ proc = "up" /\ thr[c] \in {"error", "fatal"}
  /\ run' = [run EXCEPT ![c] = FALSE] /\ wait' = [wait EXCEPT ![c] = TRUE]
  /\ thr' = [thr EXCEPT ![c] = IF @ = "error" THEN "dead" ELSE "signal"]
  /\ UNCHANGED <<lc, isActive, fatalSeen, proc, goal, init, power, pending, main, faults>>

(* handle_loop_signal in the loop's own thread: a FATAL is ignored once one *)
(* was noted, else the alert is raised.                                     *)
FatalInLoop(c) ==
  /\ proc = "up" /\ thr[c] = "signal"
  /\ thr' = [thr EXCEPT ![c] = IF fatalSeen THEN "dead" ELSE "alarm"]
  /\ UNCHANGED <<lc, isActive, fatalSeen, proc, goal, init, power, run, wait, pending, main,
                 faults>>

(* It is noted.  stop_all joins this very thread, which raises; _loop       *)
(* swallows the exception, so that the goals stay, nothing is reconciled    *)
(* and the process goes on.                                                 *)
NoteInLoop(c) ==
  /\ proc = "up" /\ thr[c] = "alarm"
  /\ fatalSeen' = TRUE /\ isActive' = FALSE
  /\ run' = [d \in Controllers |-> run[d] /\ ~Alive(d)]
  /\ wait' = [d \in Controllers |-> wait[d] \/ Alive(d)]
  /\ thr' = [Woken(Controllers) EXCEPT ![c] = "end"]
  /\ UNCHANGED <<lc, proc, goal, init, power, pending, main, faults>>

-----------------------------------------------------------------------------
(* The reconciler, in the node's thread.                                    *)

MainAt(s) == proc = "up" /\ main.at = s
GoTo(s) == main' = [main EXCEPT !.at = s]
NextController == main' = [main EXCEPT !.at = "observe", !.c = @ + 1]
nodeFlags == <<lc, isActive, fatalSeen, proc>>

Actual(c) ==
  IF ~(init[c] /\ Alive(c)) THEN "UNINITIALIZED"
  ELSE IF wait[c] THEN "RUNNING" ELSE "INITIALIZED"

(* The first move of _step_to_running, _to_initialized, _to_uninitialized.  *)
(* Seeded fault: a paused loop is taken to be at rest.                      *)
FirstMove_AtRest(actual, target) ==
  IF actual = target THEN "none"
  ELSE IF target = "UNINITIALIZED" THEN IF actual = "RUNNING" THEN "stop" ELSE "none"
  ELSE IF actual = "UNINITIALIZED" THEN "init"
  ELSE IF target = "RUNNING" THEN "resume" ELSE "pause"
FirstMove(actual, target) ==
  IF actual = target THEN "none"
  ELSE IF target = "UNINITIALIZED" THEN "stop"
  ELSE IF actual = "UNINITIALIZED" THEN "init"
  ELSE IF target = "RUNNING" THEN "resume" ELSE "pause"

Observe ==
  /\ MainAt("observe") /\ main.c \in Controllers
  /\ LET move == FirstMove(Actual(main.c), goal[main.c])
     IN IF move = "none" THEN NextController ELSE GoTo(move)
  /\ UNCHANGED <<nodeFlags, goal, init, power, loops, pending, faults>>

(* A failed initialisation or deinitialisation, be it False, a Warning or   *)
(* an Error, is left to the next pass.                                      *)
CallFails ==
  /\ MainAt(main.at) /\ main.at \in {"init", "deinit"}
  /\ init[main.c] = (main.at = "deinit")
  /\ Fault /\ NextController
  /\ UNCHANGED <<nodeFlags, goal, init, power, loops, pending>>

InitializeHw ==
  /\ MainAt("init") /\ GoTo("start")
  /\ init' = [init EXCEPT ![main.c] = TRUE]
  /\ power' = [power EXCEPT ![main.c] = TRUE]
  /\ UNCHANGED <<nodeFlags, goal, loops, pending, faults>>

Start ==
  /\ MainAt("start")
  /\ IF Alive(main.c) THEN PauseLoop(main.c) ELSE StartLoop(main.c)
  /\ IF goal[main.c] = "RUNNING" THEN GoTo("again") ELSE NextController
  /\ UNCHANGED <<nodeFlags, goal, init, power, pending, faults>>

(* _step_to_running goes on if the controller is INITIALIZED by now.        *)
Again ==
  /\ MainAt("again")
  /\ IF Actual(main.c) = "INITIALIZED" THEN GoTo("resume") ELSE NextController
  /\ UNCHANGED <<nodeFlags, goal, init, power, loops, pending, faults>>

Resume ==
  /\ MainAt("resume") /\ ResumeLoop(main.c) /\ NextController
  /\ UNCHANGED <<nodeFlags, goal, init, power, pending, faults>>

Pause ==
  /\ MainAt("pause") /\ PauseLoop(main.c) /\ NextController
  /\ UNCHANGED <<nodeFlags, goal, init, power, pending, faults>>

Stop ==
  /\ MainAt("stop") /\ RequestStop({main.c})
  /\ IF Alive(main.c) THEN GoTo("join") ELSE GoTo("deinit")
  /\ UNCHANGED <<nodeFlags, goal, init, power, pending, faults>>

(* Seeded fault: the hardware is deinitialised though the join timed out.   *)
Join_Impatient ==
  /\ MainAt("join") /\ GoTo("deinit")
  /\ IF Alive(main.c) THEN Fault ELSE UNCHANGED faults
  /\ UNCHANGED <<nodeFlags, goal, init, power, loops, pending>>
Join ==
  /\ MainAt("join")
  /\ IF Alive(main.c) THEN Fault /\ NextController ELSE UNCHANGED faults /\ GoTo("deinit")
  /\ UNCHANGED <<nodeFlags, goal, init, power, loops, pending>>

DeinitializeHw ==
  /\ MainAt("deinit") /\ NextController
  /\ power' = [power EXCEPT ![main.c] = @ /\ ~init[main.c]]
  /\ init' = [init EXCEPT ![main.c] = FALSE]
  /\ UNCHANGED <<nodeFlags, goal, loops, pending, faults>>

(* handle_loop_signal in the node's thread, for a ControllerFatal or an     *)
(* unexpected exception of a call: likewise ignored, or noted and handled.  *)
CallFatal ==
  /\ MainAt(main.at) /\ main.at \in {"init", "deinit"} /\ Fault
  /\ init[main.c] = (main.at = "deinit")
  /\ IF fatalSeen THEN NextController ELSE GoTo("fatal")
  /\ UNCHANGED <<nodeFlags, goal, init, power, loops, pending>>

NoteFatal ==
  /\ MainAt("fatal") /\ GoTo("joinAll")
  /\ fatalSeen' = TRUE /\ isActive' = FALSE
  /\ RequestStop(Controllers)
  /\ UNCHANGED <<lc, proc, goal, init, power, pending, faults>>

(* Seeded fault: the handler returns instead of leaving the process.        *)
JoinAll_Stay ==
  /\ MainAt("joinAll")
  /\ IF \E c \in Controllers : Alive(c) THEN Fault ELSE UNCHANGED faults
  /\ goal' = [c \in Controllers |-> "UNINITIALIZED"]
  /\ main' = [at |-> "observe", c |-> 1, pass |-> "timer"]
  /\ UNCHANGED <<nodeFlags, init, power, loops, pending>>
JoinAll ==
  /\ MainAt("joinAll")
  /\ IF \E c \in Controllers : Alive(c) THEN Fault ELSE UNCHANGED faults
  /\ goal' = [c \in Controllers |-> "UNINITIALIZED"]
  /\ main' = [at |-> "observe", c |-> 1, pass |-> "exit"]
  /\ UNCHANGED <<nodeFlags, init, power, loops, pending>>

-----------------------------------------------------------------------------
(* The node.                                                                *)

(* The lifecycle callbacks: the transition, and the goal it sets.           *)
Transitions == {
  <<"unconfigured", "inactive", "INITIALIZED">>,      \* on_configure
  <<"inactive", "active", "RUNNING">>,                \* on_activate
  <<"active", "inactive", "INITIALIZED">>,            \* on_deactivate
  <<"inactive", "unconfigured", "UNINITIALIZED">>,    \* on_cleanup
  <<"unconfigured", "finalized", "UNINITIALIZED">>,   \* on_shutdown
  <<"inactive", "finalized", "UNINITIALIZED">>,
  <<"active", "finalized", "UNINITIALIZED">>}

Transition ==
  /\ MainAt("idle")
  /\ \E t \in Transitions :
       /\ t[1] = lc
       /\ goal' = [c \in Controllers |-> t[3]]
       /\ main' = [at |-> "observe", c |-> 1, pass |-> t[2]]
  /\ UNCHANGED <<nodeFlags, init, power, loops, pending, faults>>

ReconcileTimer ==
  /\ MainAt("idle")
  /\ main' = [at |-> "observe", c |-> 1, pass |-> "timer"]
  /\ UNCHANGED <<nodeFlags, goal, init, power, loops, pending, faults>>

(* The end of a pass: the callback returns SUCCESS whatever was achieved.   *)
(* on_cleanup leaves _is_active alone, which is FALSE by then.  The loops'  *)
(* threads are daemons, and end with the process.                           *)
PassEnds ==
  /\ MainAt("observe") /\ main.c = N + 1
  /\ main' = Idle
  /\ proc' = IF main.pass = "exit" THEN "exited" ELSE "up"
  /\ lc' = IF main.pass \in Lifecycle THEN main.pass ELSE lc
  /\ isActive' = IF main.pass \in Lifecycle \ {"unconfigured"} THEN main.pass = "active"
                 ELSE isActive /\ main.pass # "exit"
  /\ thr' = IF main.pass = "exit" THEN [c \in Controllers |-> "dead"] ELSE thr
  /\ UNCHANGED <<fatalSeen, goal, init, power, run, wait, pending, faults>>

(* motionframe_callback and update_config_callback: dispatched to the       *)
(* queues of the controllers concerned, dropped when the node is inactive.  *)
Input ==
  /\ MainAt("idle") /\ isActive
  /\ \E cs \in SUBSET Controllers : pending' = [c \in Controllers |-> pending[c] \/ c \in cs]
  /\ UNCHANGED <<nodeFlags, goal, init, power, loops, main, faults>>

LoopStep(c) ==
  \/ LoopTop(c) \/ LoopEnd(c) \/ Flush(c) \/ ControlEnds(c) \/ LoopStop(c)
  \/ FatalInLoop(c) \/ NoteInLoop(c)
Calls == InitializeHw \/ Start \/ Again \/ Resume \/ Pause \/ Stop \/ Join \/ DeinitializeHw
Reconcile == Observe \/ Calls \/ NoteFatal \/ JoinAll \/ PassEnds
Next ==
  \/ \E c \in Controllers : LoopStep(c) \/ \E l \in {"error", "fatal"} : ControlRaises(c, l)
  \/ Reconcile \/ CallFails \/ CallFatal
  \/ Transition \/ ReconcileTimer \/ Input

(* Threads run; the timer, though other callbacks keep coming, gets its     *)
(* turn: the executor serves every ready entity before it waits again.      *)
Spec ==
  /\ Init /\ [][Next]_vars
  /\ \A c \in Controllers : WF_vars(LoopStep(c))
  /\ WF_vars(Reconcile) /\ SF_vars(ReconcileTimer)

-----------------------------------------------------------------------------
(* Properties.                                                              *)

(* control() runs only on initialised hardware, and never while the node's  *)
(* thread is in initialize_hw or deinitialize_hw of the same controller:    *)
(* the reconciler stops and joins a loop before it touches its hardware.    *)
HardwareExclusive ==
  \A c \in Controllers : thr[c] = "control" =>
    /\ power[c]
    /\ ~(main.c = c /\ main.at \in {"init", "deinit"})

(* When nothing fails, no hardware is left on after cleanup or shutdown,    *)
(* whatever the loops were doing when it was asked for.                     *)
CleanShutdown ==
  lc \in {"finalized", "unconfigured"} /\ main = Idle /\ faults = 0 =>
    \A c \in Controllers : ~power[c] /\ ~Alive(c)

(* If the node stays active the reconcile timer gets every controller       *)
(* running again after the last failure, and its input is consumed; if it   *)
(* stays inactive, every controller is eventually initialised and paused;   *)
(* if it stays down, every loop ends.                                       *)
Heals ==
  \A c \in Controllers :
    /\ <>[](goal[c] = "RUNNING") => <>[](Actual(c) = "RUNNING") /\ []<>(~pending[c])
    /\ <>[](goal[c] = "INITIALIZED") => <>[](Actual(c) = "INITIALIZED")
    /\ <>[](goal[c] = "UNINITIALIZED") => <>[](~Alive(c))

(* A FATAL of a call that the reconciler makes ends the process, though     *)
(* loops may be slow to stop or fail meanwhile, unless handle_loop_signal   *)
(* finds that a FATAL was noted before and ignores it.  A FATAL in a        *)
(* controller's own loop does not (NoteInLoop; README.md, findings).        *)
FatalExits == main.at = "fatal" ~> proc = "exited"
=============================================================================
