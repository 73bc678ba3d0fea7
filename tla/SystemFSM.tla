----------------------------- MODULE SystemFSM -----------------------------
(***************************************************************************)
(* The finite state machine of the whole system (state_machine/fsm.py,     *)
(* system_fsm.py) and the translation of alerts into its events            *)
(* (event_mapper.py).  A module of operators: the state itself belongs to  *)
(* whoever hosts the machine, the Supervisor.                              *)
(***************************************************************************)

SystemState == {"BOOTING", "STANDBY", "CONNECTING", "ACTIVE",
                "DISCONNECTING", "FAULT", "SHUTDOWN"}

SystemEvent == {"SESSION_CREATION_REQUESTED", "SESSION_CREATED",
                "SESSION_CREATION_FAILED", "DISCONNECT_REQUESTED",
                "DISCONNECTED", "FATAL_FAULT"}

(* The table that SystemFSM.__init__ builds with add_transitions. *)
Transitions(s) ==
  CASE s = "BOOTING"       -> {"STANDBY", "FAULT"}
    [] s = "STANDBY"       -> {"CONNECTING", "FAULT"}
    [] s = "CONNECTING"    -> {"STANDBY", "ACTIVE", "FAULT"}
    [] s = "ACTIVE"        -> {"DISCONNECTING", "FAULT"}
    [] s = "DISCONNECTING" -> {"STANDBY", "FAULT"}
    [] s = "FAULT"         -> {"SHUTDOWN"}
    [] OTHER               -> {}

(* Seeded fault: the row of CONNECTING lost ACTIVE. *)
Legal_NoActive(from, to) == to \in Transitions(from) \ {"ACTIVE"}
Legal(from, to) == to \in Transitions(from)

(* What an event asks for in state s: nothing, change_state, which raises   *)
(* when the transition is not legal, or force_change_state, which always    *)
(* moves.                                                                   *)
Noop(s)   == [op |-> "noop", to |-> s]
ChangeTo(s) == [op |-> "change", to |-> s]
ForceTo(s)  == [op |-> "force", to |-> s]

(* _handle_booting to _handle_disconnecting: the session events. *)
HandleEvent(s, e) ==
  CASE s = "STANDBY" /\ e = "SESSION_CREATION_REQUESTED" -> ChangeTo("CONNECTING")
    [] s = "CONNECTING" /\ e = "SESSION_CREATED"         -> ChangeTo("ACTIVE")
    [] s = "CONNECTING" /\ e = "SESSION_CREATION_FAILED" -> ChangeTo("STANDBY")
    [] s = "ACTIVE" /\ e = "DISCONNECT_REQUESTED"        -> ChangeTo("DISCONNECTING")
    [] s = "ACTIVE" /\ e = "DISCONNECTED"                -> ForceTo("STANDBY")
    [] s = "DISCONNECTING" /\ e = "DISCONNECTED"         -> ChangeTo("STANDBY")
    [] OTHER                                             -> Noop(s)

(* Seeded fault: BOOTING is dispatched before FATAL_FAULT. *)
process_event_BootFirst(s, e) ==
  IF s # "BOOTING" /\ e = "FATAL_FAULT" /\ s # "FAULT" THEN ForceTo("FAULT") ELSE HandleEvent(s, e)
process_event(s, e) ==
  IF e = "FATAL_FAULT" /\ s # "FAULT" THEN ForceTo("FAULT") ELSE HandleEvent(s, e)

(* The codes that drive the machine (alert_codes.py).  Only a RAISE is an   *)
(* event; a FATAL level wins over the code.                                 *)
SessionEventOf ==
  [INF_SESSION_CREATION_REQUEST |-> "SESSION_CREATION_REQUESTED",
   INF_SESSION_CREATION_OK      |-> "SESSION_CREATED",
   ERR_SESSION_CREATION_FAILED  |-> "SESSION_CREATION_FAILED",
   INF_SESSION_CLOSURE_REQUEST  |-> "DISCONNECT_REQUESTED",
   INF_SESSION_CLOSURE_OK       |-> "DISCONNECTED"]

NoEvent == "none"

map_alert_to_system_event(action, level, code) ==
  CASE action # "RAISE"               -> NoEvent
    [] action = "RAISE" /\ level = "FATAL" -> "FATAL_FAULT"
    [] action = "RAISE" /\ level # "FATAL" /\ code \in DOMAIN SessionEventOf
                                      -> SessionEventOf[code]
    [] OTHER                          -> NoEvent
=============================================================================
