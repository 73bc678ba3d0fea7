--------------------------- MODULE SessionManager ---------------------------
(***************************************************************************)
(* The session manager node (sess_manager_node.py), the SessionManager it  *)
(* hosts (session_manager.py), the runner thread of each session           *)
(* (runner.py) and its clean up (session_implementations.py).              *)
(*                                                                         *)
(* The node spins in a single-threaded executor: the create_session        *)
(* handler and the clean-up coroutines interleave at their awaits only.    *)
(* The runner threads run beside them and clear active_session without the *)
(* lock.  Requests are served one at a time: their callback group is       *)
(* mutually exclusive and stays taken across awaits.                       *)
(***************************************************************************)
EXTENDS Naturals, Sequences

CONSTANT MaxRequests  \* bound: session requests in a behaviour

ASSUME SessionAssumption == MaxRequests \in Nat

VARIABLES
  nodeActive,  \* SessManagerNode._is_active
  served,      \* requests so far; request n creates session n
  req,         \* where create_session_srv_cb is
  active,      \* SessionManager.active_session: a session, 0 for None
  thr,         \* thr[s]: the runner thread of session s
  open,        \* the sessions whose sockets are open
  leaked,      \* history: the sessions whose sockets could not be closed
  clean,       \* clean[s]: the cleanup_session coroutine of session s
  hw,          \* lifecycle state of the hardware manager
  calls,       \* lifecycle requests on their way to it, oldest first
  reply,       \* reply[k][s]: the answer to session s's request of kind k
  out          \* alerts raised, on their way to the alert server

smVars == <<nodeActive, served, req, active, thr, open, leaked, clean, hw, calls, reply, out>>

Sessions == 1 .. MaxRequests
Kinds == {"ACTIVATE", "DEACTIVATE"}
Reasons == {"inactive", "busy", "criteria", "resource", "runner"}

(* An alert: its code, and for a failure the reason that is its text. *)
AlertOf(code) == [code |-> code, why |-> "none"]
REQUEST == AlertOf("INF_SESSION_CREATION_REQUEST")
CREATED == AlertOf("INF_SESSION_CREATION_OK")
CLOSED == AlertOf("INF_SESSION_CLOSURE_OK")
FAILED(why) == [code |-> "ERR_SESSION_CREATION_FAILED", why |-> why]
SessionAlerts ==
  {REQUEST, CREATED, CLOSED} \cup [code : {"ERR_SESSION_CREATION_FAILED"}, why : Reasons]

SMInit ==
  /\ nodeActive = TRUE /\ served = 0 /\ req = "idle" /\ active = 0
  /\ thr = [s \in Sessions |-> "none"] /\ open = {} /\ leaked = {}
  /\ clean = [s \in Sessions |-> "none"]
  /\ hw = "inactive" /\ calls = <<>>
  /\ reply = [k \in Kinds |-> [s \in Sessions |-> "none"]]
  /\ out = <<>>

(* start() and join() block the executor. *)
ExecutorFree == req \notin {"joining", "assigning"}

(* change_state_async sends the request, and awaits the answer for 5 s,     *)
(* which may be over before the answer is there.                            *)
Send(k, s) ==
  /\ calls' = Append(calls, [kind |-> k, by |-> s])
  /\ reply' = [reply EXCEPT ![k][s] = "pending"]
(* Seeded faults: the answer is awaited for ever; its success flag is not   *)
(* looked at.                                                               *)
Answered_Patient(k, s, ok) == reply[k][s] = IF ok THEN "ok" ELSE "refused"
Answered_Anyhow(k, s, ok) == ok /\ reply[k][s] \in {"ok", "refused", "pending"}
Answered(k, s, ok) == reply[k][s] \in IF ok THEN {"ok"} ELSE {"refused", "pending"}

-----------------------------------------------------------------------------
(* create_session_srv_cb and new_session.                                   *)

Occupied == active # 0

(* Seeded fault: a request that is refused at once raises no failure. *)
Refusal_Silent(why) == <<REQUEST>>
Refusal(why) == <<REQUEST, FAILED(why)>>
Refuse(why) == out' = out \o Refusal(why) /\ UNCHANGED <<req, calls, reply>>

(* The request is announced and, unless it is refused at once, the hardware *)
(* manager is asked to activate, if its services can be reached.            *)
Request ==
  /\ req = "idle" /\ served < MaxRequests
  /\ served' = served + 1
  /\ IF ~nodeActive THEN Refuse("inactive")
     ELSE IF Occupied THEN Refuse("busy")
     ELSE \/ /\ out' = Append(out, REQUEST) /\ req' = "activating"
             /\ Send("ACTIVATE", served + 1)
          \/ Refuse("criteria")
  /\ UNCHANGED <<nodeActive, active, thr, open, leaked, clean, hw>>

Fail(why) == out' = Append(out, FAILED(why)) /\ req' = "idle"

CriteriaNotMet ==
  /\ req = "activating" /\ Answered("ACTIVATE", served, FALSE)
  /\ Fail("criteria")
  /\ UNCHANGED <<nodeActive, served, active, thr, open, leaked, clean, hw, calls, reply>>

(* create_session: on an exception the sockets already open are closed.     *)
CreateFails ==
  /\ req = "activating" /\ Answered("ACTIVATE", served, TRUE)
  /\ Fail("resource")
  /\ UNCHANGED <<nodeActive, served, active, thr, open, leaked, clean, hw, calls, reply>>

CreateAndStart ==
  /\ req = "activating" /\ Answered("ACTIVATE", served, TRUE)
  /\ IF Occupied
     THEN Fail("busy") /\ UNCHANGED <<thr, open>>
     ELSE /\ req' = "joining" /\ open' = open \cup {served}
          /\ thr' = [thr EXCEPT ![served] = "running"]
          /\ UNCHANGED out
  /\ UNCHANGED <<nodeActive, served, active, leaked, clean, hw, calls, reply>>

(* Seeded fault: join() that times out is taken for the thread's end. *)
Gone_Joined == TRUE
Gone == thr[served] = "dead"

(* Closing one of a session's sockets may raise, and leaves the others open. *)
Close(s) ==
  \/ open' = open \ {s} /\ UNCHANGED leaked
  \/ leaked' = leaked \cup {s} /\ UNCHANGED open

(* After join(0.5): a thread that is gone has cleaned up after itself, and  *)
(* its sockets are closed a second time.                                    *)
RunnerGone ==
  /\ req = "joining" /\ Gone
  /\ Close(served)
  /\ Fail("runner")
  /\ UNCHANGED <<nodeActive, served, active, thr, clean, hw, calls, reply>>

RunnerAlive ==
  /\ req = "joining" /\ ~Gone
  /\ req' = "assigning"
  /\ UNCHANGED <<nodeActive, served, active, thr, open, leaked, clean, hw, calls, reply, out>>

(* The thread may have ended since is_alive() was called.                   *)
Assign ==
  /\ req = "assigning"
  /\ active' = served
  /\ out' = Append(out, CREATED)
  /\ req' = "idle"
  /\ UNCHANGED <<nodeActive, served, thr, open, leaked, clean, hw, calls, reply>>

-----------------------------------------------------------------------------
(* _run_session_wrapper, in the session's thread: run() ends, or crashes;   *)
(* _cleanup_active_session; then _user_cleanup schedules cleanup_session    *)
(* (the runner's own copy of that callback is a coroutine nobody awaits).   *)
RunEnds(s) ==
  /\ thr[s] = "running"
  /\ thr' = [thr EXCEPT ![s] = "ended"]
  /\ UNCHANGED <<nodeActive, served, req, active, open, leaked, clean, hw, calls, reply, out>>

CleanupActiveSession(s) ==
  /\ thr[s] = "ended"
  /\ thr' = [thr EXCEPT ![s] = "destroyed"]
  /\ Close(s)
  /\ active' = IF leaked' = leaked THEN 0 ELSE active
  /\ UNCHANGED <<nodeActive, served, req, clean, hw, calls, reply, out>>

(* Seeded fault: only the coroutine that nobody awaits is left. *)
Scheduled_Never == "none"
Scheduled == "queued"

ScheduleCleanup(s) ==
  /\ thr[s] = "destroyed"
  /\ thr' = [thr EXCEPT ![s] = "dead"]
  /\ clean' = [clean EXCEPT ![s] = Scheduled]
  /\ UNCHANGED <<nodeActive, served, req, active, open, leaked, hw, calls, reply, out>>

(* Seeded fault: the closure is announced only if the hardware was disarmed. *)
Closure_IfDisarmed(s) == IF reply["DEACTIVATE"][s] = "ok" THEN <<CLOSED>> ELSE <<>>
Closure(s) == <<CLOSED>>

(* cleanup_session, in the executor. *)
BeginCleanup(s) ==
  /\ clean[s] = "queued" /\ ExecutorFree
  /\ clean' = [clean EXCEPT ![s] = "deactivating"]
  /\ Send("DEACTIVATE", s)
  /\ UNCHANGED <<nodeActive, served, req, active, thr, open, leaked, hw, out>>

(* The service cannot be reached: the request is never sent, and the clean  *)
(* up goes on as after a refusal.                                           *)
SkipDeactivate(s) ==
  /\ clean[s] = "queued" /\ ExecutorFree
  /\ clean' = [clean EXCEPT ![s] = "done"]
  /\ reply' = [reply EXCEPT !["DEACTIVATE"][s] = "unsent"]
  /\ out' = out \o Closure(s)
  /\ UNCHANGED <<nodeActive, served, req, active, thr, open, leaked, hw, calls>>

EndCleanup(s) ==
  /\ clean[s] = "deactivating" /\ ExecutorFree
  /\ \E ok \in BOOLEAN : Answered("DEACTIVATE", s, ok)
  /\ clean' = [clean EXCEPT ![s] = "done"]
  /\ out' = out \o Closure(s)
  /\ UNCHANGED <<nodeActive, served, req, active, thr, open, leaked, hw, calls, reply>>

(* on_shutdown, at the supervisor's request: sessions go on.                *)
OnShutdown ==
  /\ nodeActive /\ ExecutorFree
  /\ nodeActive' = FALSE
  /\ UNCHANGED <<served, req, active, thr, open, leaked, clean, hw, calls, reply, out>>

(* The hardware manager serves its lifecycle requests in order, those whose *)
(* caller has given up included; a transition that does not start in its    *)
(* state is refused.                                                        *)
HwServes ==
  LET c == Head(calls)
      ok == hw = IF c.kind = "ACTIVATE" THEN "inactive" ELSE "active" IN
  /\ calls # <<>>
  /\ calls' = Tail(calls)
  /\ hw' = IF ~ok THEN hw ELSE IF c.kind = "ACTIVATE" THEN "active" ELSE "inactive"
  /\ reply' = [reply EXCEPT ![c.kind][c.by] = IF ok THEN "ok" ELSE "refused"]
  /\ UNCHANGED <<nodeActive, served, req, active, thr, open, leaked, clean, out>>

-----------------------------------------------------------------------------
Handler ==
  CriteriaNotMet \/ CreateFails \/ CreateAndStart \/ RunnerGone \/ RunnerAlive \/ Assign
Cleanup(s) ==
  \/ CleanupActiveSession(s) \/ ScheduleCleanup(s)
  \/ BeginCleanup(s) \/ SkipDeactivate(s) \/ EndCleanup(s)

SMNext ==
  \/ Request \/ Handler \/ OnShutdown \/ HwServes
  \/ \E s \in Sessions : RunEnds(s) \/ Cleanup(s)

SMSpec == SMInit /\ [][SMNext]_smVars

-----------------------------------------------------------------------------
Live(s) == thr[s] \in {"running", "ended", "destroyed"}

(* Every variable has its type. *)
SMTypeOK ==
  /\ nodeActive \in BOOLEAN /\ served \in 0 .. MaxRequests
  /\ req \in {"idle", "activating", "joining", "assigning"}
  /\ active \in 0 .. MaxRequests
  /\ thr \in [Sessions -> {"none", "running", "ended", "destroyed", "dead"}]
  /\ open \subseteq Sessions /\ leaked \subseteq Sessions
  /\ clean \in [Sessions -> {"none", "queued", "deactivating", "done"}]
  /\ hw \in {"inactive", "active"}
  /\ calls \in Seq([kind : Kinds, by : Sessions])
  /\ reply \in [Kinds -> [Sessions -> {"none", "pending", "ok", "refused", "unsent"}]]
  /\ out \in Seq(SessionAlerts)

(* A running session has the hardware armed: neither the clean up of the    *)
(* session before it nor a lifecycle request that is served late disarms it *)
(* under the session (validate_session_request_criteria, cleanup_session).  *)
ArmedWhileRunning == \A s \in Sessions : thr[s] = "running" => hw = "active"

(* The sockets of a session are not closed under it, and they are all       *)
(* closed once it has ended, unless closing them failed (the context is     *)
(* destroyed by the thread, and again by new_session after a failed start). *)
SocketsFollowThread ==
  LET using == {s \in Sessions : thr[s] \in {"running", "ended"}} IN
  using \subseteq open /\ open \ leaked \subseteq using

(* The end of a session disarms the hardware, whether or not the hardware   *)
(* manager, as long as it serves requests, answers in time, unless its      *)
(* service could not be reached at that moment: cleanup_session asks once.  *)
EndDisarms ==
  WF_smVars(HwServes) =>
    \A s \in Sessions :
      thr[s] = "ended" ~> (hw = "inactive" \/ reply["DEACTIVATE"][s] = "unsent")

(* Every request is answered, so that the next one can be served: the       *)
(* handler never waits for something that does not come, the hardware       *)
(* manager's answer included (change_state_async has a timeout).            *)
RequestEnds == req # "idle" ~> req = "idle"

-----------------------------------------------------------------------------
(* What the code says of itself, and TLC refutes (README.md, findings):     *)
(* "Create and start a new session if no active session is running"         *)
(* (new_session): no session is refused as busy for ever after the last one *)
(* has ended.                                                               *)
NeverStuckBusy == req = "idle" /\ (\A s \in Sessions : ~Live(s)) => active = 0
=============================================================================
