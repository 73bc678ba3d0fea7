---------------------------- MODULE SessionSystem ---------------------------
(***************************************************************************)
(* The session manager with the alert server and the state machine it      *)
(* drives: a session's alerts travel in order to SysAlertsServer, which    *)
(* suppresses one that is already lit, and turn into events of SystemFSM.  *)
(* The system has booted; no FATAL alert occurs here (see Supervisor).     *)
(***************************************************************************)
EXTENDS SessionManager, SystemFSM, Functions

VARIABLES
  fsm,      \* SystemFSM._state
  lit,      \* the active alerts, at most one of a code
  status,   \* last message on /system_status
  muted     \* history: the codes of suppressed raises

sysVars == <<fsm, lit, status, muted>>
vars == <<smVars, sysVars>>

LevelOf(a) == IF a.code = "ERR_SESSION_CREATION_FAILED" THEN "ERR" ELSE "INFO"

Init ==
  /\ SMInit
  /\ fsm = "STANDBY" /\ lit = {} /\ muted = {}
  /\ status = [state |-> "STANDBY", legal |-> TRUE, degraded |-> FALSE]

Suppressed(a) == a \in lit

Relit(a) == {b \in lit : b.code # a.code} \cup {a}

(* The alert server takes the next alert; a change becomes an event of the  *)
(* machine, whose outcome is published.                                     *)
HandleAlert ==
  LET a == Head(out)
      e == map_alert_to_system_event("RAISE", LevelOf(a), a.code)
      r == process_event(fsm, e) IN
  /\ out # <<>>
  /\ out' = Tail(out)
  /\ IF Suppressed(a)
     THEN /\ muted' = muted \cup {a.code}
          /\ UNCHANGED <<fsm, lit, status>>
     ELSE /\ lit' = Relit(a)
          /\ fsm' = r.to
          /\ status' = [state |-> r.to, degraded |-> lit' # {},
                        legal |-> r.op = "noop" \/ Legal(fsm, r.to)]
          /\ UNCHANGED muted
  /\ UNCHANGED <<nodeActive, served, req, active, thr, open, leaked, clean, hw, calls, reply>>

(* Each of these alerts has a ttl, of zero or one second. *)
Expire ==
  /\ \E a \in lit : lit' = lit \ {a}
  /\ UNCHANGED <<smVars, fsm, status, muted>>

(* A step of the session manager.  A join() that times out has lasted half  *)
(* a second: the CREATED of an earlier session, with a ttl of zero, has     *)
(* arrived and expired by then.                                             *)
JoinOutlasts ==
  req = "joining" /\ req' = "assigning" => CREATED \notin lit \cup Range(out)
SMStep == SMNext /\ JoinOutlasts /\ UNCHANGED sysVars

Next == SMStep \/ HandleAlert \/ Expire

(* Alerts arrive and expire; a handler and a clean up that have begun go    *)
(* on.  Neither the hardware manager nor the client, who may stay for ever, *)
(* is assumed to do anything.                                               *)
Fairness ==
  /\ WF_vars(HandleAlert) /\ WF_vars(Expire) /\ WF_vars(SMStep /\ Handler)
  /\ \A s \in Sessions : WF_vars(SMStep /\ Cleanup(s))

Spec == Init /\ [][Next]_vars
FairSpec == Spec /\ Fairness

-----------------------------------------------------------------------------
(* Every variable has its type. *)
TypeOK ==
  /\ SMTypeOK
  /\ fsm \in SystemState
  /\ lit \subseteq SessionAlerts /\ \A a, b \in lit : a.code = b.code => a = b
  /\ status \in [state : SystemState, legal : BOOLEAN, degraded : BOOLEAN]
  /\ muted \subseteq {a.code : a \in SessionAlerts}

(* Nothing is under way: no handler, no clean up, no alert.                 *)
Settled ==
  /\ req = "idle" /\ out = <<>>
  /\ \A s \in Sessions : thr[s] \in {"none", "running", "dead"} /\ clean[s] \in {"none", "done"}
SessionRuns == \E s \in Sessions : thr[s] = "running"

(* A system that has settled is not CONNECTING, unless the alert of a       *)
(* failure was suppressed as a copy of one still lit: every other way out   *)
(* of create_session_srv_cb ends the state it began.                        *)
ConnectingEnds == Settled /\ "ERR_SESSION_CREATION_FAILED" \notin muted => fsm # "CONNECTING"

(* A system that has settled in ACTIVE has a running session, unless the    *)
(* alert of a closure was suppressed: a session's closure is never          *)
(* announced before its creation, however early its thread ends.            *)
ActiveHasSession ==
  Settled /\ fsm = "ACTIVE" /\ "INF_SESSION_CLOSURE_OK" \notin muted => SessionRuns

(* The machine leaves ACTIVE once the session is over, unless another one   *)
(* has begun or an alert was suppressed.                                    *)
ActiveEnds ==
  (fsm = "ACTIVE" /\ ~SessionRuns) ~> (fsm # "ACTIVE" \/ SessionRuns \/ muted # {})

-----------------------------------------------------------------------------
(* What docs/system_status.md says of the same states.  TLC refutes each of *)
(* them, as an invariant of the run above: see the findings of README.md.   *)

(* "Una connessione rifiutata o fallita riporta in STANDBY." *)
ConnectingResolved == Settled => fsm # "CONNECTING"

(* "STANDBY: ... L'hardware è disarmato." *)
StandbyDisarmed == Settled /\ calls = <<>> /\ fsm = "STANDBY" => hw = "inactive"

(* "ACTIVE: sessione attiva con un client": even with no alert suppressed,  *)
(* the closure of one session, announced in the course of the next one's    *)
(* creation, leaves that one running in STANDBY.                            *)
RunsInActive == Settled /\ SessionRuns /\ muted = {} => fsm = "ACTIVE"
=============================================================================
