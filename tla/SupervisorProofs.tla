-------------------------- MODULE SupervisorProofs --------------------------
(***************************************************************************)
(* Type correctness and the safety properties of the Supervisor, for every *)
(* interleaving of its threads and coroutines and any number of alerts.    *)
(***************************************************************************)
EXTENDS Supervisor, TLAPS

(* What process_event asks for is a state of the machine, a move it asks    *)
(* for really moves, change_state is only asked for legal moves, and from   *)
(* BOOTING, FAULT and SHUTDOWN the only move is to FAULT; no event asks for  *)
(* SHUTDOWN.                                                                *)
LEMMA ProcessEvent ==
  ASSUME NEW s \in SystemState, NEW e \in SystemEvent
  PROVE  LET r == process_event(s, e) IN
         /\ r.op \in {"noop", "change", "force"} /\ r.to \in SystemState
         /\ r = [op |-> r.op, to |-> r.to]
         /\ r.op = "noop" => r.to = s
         /\ r.op # "noop" => r.to # s /\ r.to # "SHUTDOWN"
         /\ r.op = "change" => Legal(s, r.to)
         /\ r.op # "noop" /\ s \in {"BOOTING", "FAULT", "SHUTDOWN"} => r.to = "FAULT"
         /\ r.op # "noop" /\ r.to = "FAULT" => e = "FATAL_FAULT" /\ r.op = "force"
         /\ e = "FATAL_FAULT" => r.to = "FAULT"
  BY DEF process_event, HandleEvent, Noop, ChangeTo, ForceTo, Legal, Transitions,
         SystemState, SystemEvent

(* Whatever callback group an alert arrives in, its event is one of the     *)
(* machine's.                                                               *)
LEMMA EventsAreSystemEvents == \A t \in Threads : EventsOf(t) \subseteq SystemEvent
  BY DEF EventsOf, SystemEvent

(* The callback that has ended, and the one that has changed nothing.       *)
LEMMA FixedJobs ==
  /\ IdleJob \in Job /\ IdleJob.pc = "idle"
  /\ NoChange \in Job /\ NoChange.pc = "compose" /\ NoChange.changed = FALSE
  BY DEF IdleJob, NoChange, Job, SystemState

-----------------------------------------------------------------------------
(* Type correctness: at the start, and over every step. *)
LEMMA TypeInit == Init => TypeOK
<1> SUFFICES ASSUME Init PROVE TypeOK
  OBVIOUS
<1>1. cb \in [Threads -> Job]
  <2>1. IdleJob \in Job
    BY DEF IdleJob, Job, SystemState
  <2> QED BY <2>1 DEF Init
<1>2. /\ calls \in [Slots -> [Nodes -> {"get_state", "change_state", "done"}]]
      /\ draft \in [Slots -> SystemState]
  BY DEF Init, SystemState
<1> QED BY <1>1, <1>2 DEF Init, TypeOK, Slots, SystemState, BootPc

(* One case per action; the records of the callbacks need their own steps.  *)
LEMMA TypeStep == TypeOK /\ [Next]_vars => TypeOK'
<1> SUFFICES ASSUME TypeOK, [Next]_vars PROVE TypeOK'
  OBVIOUS
<1> USE DEF TypeOK
<1>1. ASSUME NEW t \in Threads, NEW e \in EventsOf(t), AlertChange(t, e) PROVE TypeOK'
  <2> DEFINE r == process_event(fsm, e)
  <2>1. r.op \in {"noop", "change", "force"} /\ r.to \in SystemState
    BY ProcessEvent, EventsAreSystemEvents
  <2> HIDE DEF r
  <2> DEFINE j == IF r.op = "noop" THEN NoChange
                  ELSE [pc |-> "check", op |-> r.op, to |-> r.to, from |-> MeantFor(r.to),
                        changed |-> FALSE, msg |-> "BOOTING"]
  <2>2. j \in Job
    BY <2>1, FixedJobs DEF Job, SystemState, MeantFor
  <2>3. cb' = [cb EXCEPT ![t] = j]
    BY <1>1 DEF AlertChange, r
  <2> HIDE DEF j
  <2>4. cb' \in [Threads -> Job]
    BY <2>2, <2>3
  <2>5. alerts' \in Nat
    BY <1>1 DEF AlertChange
  <2>6. faultRef' \in BOOLEAN
    BY <1>1 DEF AlertChange
  <2> QED BY <1>1, <2>4, <2>5, <2>6 DEF AlertChange
<1>2. ASSUME NEW t \in Threads, CallbackStep(t) PROVE TypeOK'
  <2>0. cb[t] \in Job /\ fsm \in SystemState
    OBVIOUS
  <2>1. CASE CheckTransition(t)
    <3>1. [cb[t] EXCEPT !.pc = "prev", !.op = "noop"] \in Job
      BY ONLY <2>0 DEF Job
    <3>2. cb' \in [Threads -> Job]
      BY <2>1, <3>1 DEF CheckTransition
    <3> QED BY <2>1, <3>2 DEF CheckTransition
  <2>2. CASE ReadPrevious(t)
    <3> DEFINE b == fsm # cb[t].to
    <3> HIDE DEF b
    <3>1. b \in BOOLEAN
      BY DEF b
    <3>2. [cb[t] EXCEPT !.pc = "write", !.changed = b] \in Job
      BY ONLY <2>0, <3>1 DEF Job
    <3>3. cb' \in [Threads -> Job]
      BY <2>2, <3>2 DEF ReadPrevious, b
    <3> QED BY <2>2, <3>3 DEF ReadPrevious
  <2>3. CASE WriteState(t)
    <3>1. [cb[t] EXCEPT !.pc = "compose", !.from = "any"] \in Job
      BY ONLY <2>0 DEF Job
    <3>2. cb' \in [Threads -> Job]
      BY <2>3, <3>1, FixedJobs DEF WriteState
    <3>3. fsm' \in SystemState /\ overtaken' \in BOOLEAN
      BY <2>0, <2>3 DEF WriteState, Move, Job
    <3> QED BY <2>3, <3>2, <3>3 DEF WriteState
  <2>4. CASE ComposeStatus(t)
    <3>1. [cb[t] EXCEPT !.pc = "publish", !.msg = fsm] \in Job
      BY ONLY <2>0 DEF Job
    <3>2. cb' \in [Threads -> Job]
      BY <2>4, <3>1 DEF ComposeStatus
    <3> QED BY <2>4, <3>2 DEF ComposeStatus
  <2>5. CASE PublishStatus(t)
    <3>1. [cb[t] EXCEPT !.pc = "react", !.msg = "BOOTING"] \in Job
      BY ONLY <2>0 DEF Job, SystemState
    <3>2. cb' \in [Threads -> Job]
      BY <2>5, <3>1, FixedJobs DEF PublishStatus
    <3>3. status' \in SystemState \cup {"none"} /\ crossed' \in BOOLEAN
      BY <2>0, <2>5 DEF PublishStatus, Send, Job
    <3> QED BY <2>5, <3>2, <3>3 DEF PublishStatus
  <2>6. CASE React(t)
    <3>1. IdleJob \in Job
      BY DEF IdleJob, Job, SystemState
    <3>2. cb' \in [Threads -> Job]
      BY <2>6, <3>1 DEF React
    <3> QED BY <2>6, <3>2 DEF React
  <2> QED BY <1>2, <2>1, <2>2, <2>3, <2>4, <2>5, <2>6 DEF CallbackStep
<1>3. CASE BootStep
  <2>1. CASE StartBoot
    BY <2>1 DEF StartBoot, BootPc, Slots
  <2>2. CASE SpinupSystem
    BY <2>2 DEF SpinupSystem, SpinupStep, BootPc
  <2>3. CASE BootCheck
    BY <2>3 DEF BootCheck, MeantFor, BootPc
  <2>4. CASE BootWrite
    <3>1. overtaken' \in BOOLEAN
      BY <2>4 DEF BootWrite, Move
    <3> QED BY <2>4, <3>1 DEF BootWrite, Move, AfterWrite, BootTarget, BootPc, SystemState
  <2>5. CASE BootCompose
    BY <2>5 DEF BootCompose, BootPc, Slots
  <2>6. CASE BootPublish
    <3>1. crossed' \in BOOLEAN
      BY <2>6 DEF BootPublish, Send
    <3> QED BY <2>6, <3>1 DEF BootPublish, Send, AfterPublish, BootPc, Slots, SystemState
  <2> QED BY <1>3, <2>1, <2>2, <2>3, <2>4, <2>5, <2>6 DEF BootStep
<1>4. ASSUME NEW s \in Slots, ShutdownStep(s) PROVE TypeOK'
  <2>1. CASE StartShutdown(s)
    BY <2>1 DEF StartShutdown, ShutdownDue, BootPc, Slots
  <2>2. CASE ForceShutdown(s)
    <3>1. overtaken' \in BOOLEAN
      BY <2>2 DEF ForceShutdown, Move
    <3> QED BY <2>2, <3>1 DEF ForceShutdown, Move, SystemState
  <2>3. CASE ComposeShutdown(s)
    BY <2>3 DEF ComposeShutdown
  <2>4. CASE PublishShutdown(s)
    <3>1. crossed' \in BOOLEAN
      BY <2>4 DEF PublishShutdown, Send
    <3> QED BY <2>4, <3>1 DEF PublishShutdown, Send, SystemState
  <2>5. CASE ExitProcess(s)
    BY <2>5 DEF ExitProcess
  <2>6. ASSUME NEW n \in Nodes, CallTimesOut(s, n) PROVE TypeOK'
    BY <2>6 DEF CallTimesOut
  <2> QED BY <1>4, <2>1, <2>2, <2>3, <2>4, <2>5, <2>6 DEF ShutdownStep
<1>5. ASSUME NEW s \in Slots, NEW n \in Nodes, NodeAnswers(s, n) PROVE TypeOK'
  BY <1>5 DEF NodeAnswers
<1>6. CASE UNCHANGED vars
  BY <1>6 DEF vars
<1> QED BY <1>1, <1>2, <1>3, <1>4, <1>5, <1>6 DEF Next

(* Every variable keeps its type, however the callbacks, the coroutines and *)
(* the nodes interleave.                                                    *)
THEOREM TypeCorrect == Spec => []TypeOK
  BY TypeInit, TypeStep, PTL DEF Spec

-----------------------------------------------------------------------------
(* The safety argument.  Threads switch anywhere, so a move that was chosen *)
(* in one state may be written in another.  What saves most properties is   *)
(* that only a move chosen outside FAULT and SHUTDOWN leads out of them:    *)
(* when it is written there, "overtaken" records it.                        *)
Deciding(t) == cb[t].pc \in {"check", "prev", "write"}

(* No event asks for SHUTDOWN, and a move that does not go to FAULT was     *)
(* chosen by a session event in one of the states that have a session.      *)
MovesAreMeant ==
  /\ \A t \in Threads : Deciding(t) =>
       /\ cb[t].to # "SHUTDOWN"
       /\ cb[t].to # "FAULT" => cb[t].from \in SystemState \ (Down \cup {"BOOTING"})
  /\ boot = "write_ok" => bootFrom \in SystemState \ Down

(* A FATAL alert has moved the machine or is about to.                      *)
FatalSticks ==
  faultRef /\ ~overtaken =>
    fsm \in Down \/ \E t \in Threads : Deciding(t) /\ cb[t].to = "FAULT"

(* Who is about to write FAULT and found FAULT there already still has it   *)
(* there, or SHUTDOWN.                                                      *)
FaultStays ==
  \A t \in Threads :
    cb[t].pc = "write" /\ cb[t].to = "FAULT" /\ ~cb[t].changed /\ ~overtaken => fsm \in Down

ShutdownStarted == fsm = "SHUTDOWN" => \E s \in Slots : sd[s] # "idle"

ExitInv == TypeOK /\ MovesAreMeant /\ FatalSticks /\ FaultStays /\ ShutdownStarted /\ FaultHasExit

(* The steps that move the machine, and what they write: the only ones that *)
(* can leave FAULT and SHUTDOWN are recorded as overtaken.                  *)
LEMMA MovesKeepDown ==
  ASSUME ExitInv, Next, fsm \in Down, ~overtaken'
  PROVE  fsm' \in Down
<1>1. ASSUME NEW t \in Threads, WriteState(t) PROVE fsm' \in Down
  <2>1. fsm' = cb[t].to /\ cb[t].from \in {"any", fsm}
    BY <1>1 DEF WriteState, Move
  <2>2. cb[t].to # "FAULT" => cb[t].from \in SystemState \ (Down \cup {"BOOTING"})
    BY <1>1 DEF WriteState, ExitInv, MovesAreMeant, Deciding
  <2> QED BY <2>1, <2>2 DEF Down, SystemState
<1>2. CASE BootWrite
  <2>1. fsm' = BootTarget /\ bootFrom \in {"any", fsm}
    BY <1>2 DEF BootWrite, Move
  <2>2. boot = "write_ok" => bootFrom \in SystemState \ Down
    BY DEF ExitInv, MovesAreMeant
  <2> QED BY <1>2, <2>1, <2>2 DEF BootWrite, BootTarget, Down, SystemState
<1>3. ASSUME NEW s \in Slots, ForceShutdown(s) PROVE fsm' \in Down
  BY <1>3 DEF ForceShutdown, Move, Down
<1> QED
  BY <1>1, <1>2, <1>3 DEF Next, AlertChange, CallbackStep, CheckTransition, ReadPrevious,
     ComposeStatus, PublishStatus, React, BootStep, StartBoot, SpinupSystem, SpinupStep, BootCheck,
     BootCompose, BootPublish, ShutdownStep, StartShutdown, ComposeShutdown, PublishShutdown,
     CallTimesOut, ExitProcess, NodeAnswers

(* History is only ever added to. *)
LEMMA OvertakenStays ==
  ASSUME TypeOK, Next, overtaken
  PROVE  overtaken'
<1>1. ASSUME NEW t \in Threads, WriteState(t) PROVE overtaken'
  BY <1>1 DEF WriteState, Move
<1>2. CASE BootWrite
  BY <1>2 DEF BootWrite, Move
<1>3. ASSUME NEW s \in Slots, ForceShutdown(s) PROVE overtaken'
  BY <1>3 DEF ForceShutdown, Move
<1> QED
  BY <1>1, <1>2, <1>3 DEF Next, AlertChange, CallbackStep, CheckTransition, ReadPrevious,
     ComposeStatus, PublishStatus, React, BootStep, StartBoot, SpinupSystem, SpinupStep, BootCheck,
     BootCompose, BootPublish, ShutdownStep, StartShutdown, ComposeShutdown, PublishShutdown,
     CallTimesOut, ExitProcess, NodeAnswers

(* Init: no callback is running and nothing has been delivered. *)
LEMMA ExitInit == Init => ExitInv
  BY TypeInit DEF Init, ExitInv, MovesAreMeant, FatalSticks, FaultStays, ShutdownStarted,
     FaultHasExit, Deciding, IdleJob, Down, Threads

(* The argument speaks of these variables only. *)
exitVars == <<proc, fsm, boot, bootFrom, cb, timers, sd, faultRef, overtaken>>

(* A step that leaves them alone. *)
LEMMA ExitFrame ==
  ASSUME ExitInv, TypeOK', UNCHANGED exitVars
  PROVE  ExitInv'
  BY DEF ExitInv, exitVars, MovesAreMeant, FatalSticks, FaultStays, ShutdownStarted, FaultHasExit,
     Deciding, ExitUnderWay, WillReact

(* A callback begins: its move is chosen in the present state. *)
LEMMA ExitAlert ==
  ASSUME ExitInv, TypeOK', NEW t \in Threads, NEW e \in EventsOf(t), AlertChange(t, e)
  PROVE  ExitInv'
<1> DEFINE r == process_event(fsm, e)
<1>1. e \in SystemEvent /\ fsm \in SystemState
  BY EventsAreSystemEvents DEF ExitInv, TypeOK
<1>2. /\ r.op # "noop" => r.to # "SHUTDOWN"
      /\ r.op = "noop" => r.to = fsm
      /\ r.op # "noop" /\ r.to # "FAULT" => fsm \notin Down \cup {"BOOTING"}
      /\ e = "FATAL_FAULT" => r.to = "FAULT"
  BY <1>1, ProcessEvent DEF Down
<1> HIDE DEF r
<1>3. /\ cb'[t].pc = IF r.op = "noop" THEN "compose" ELSE "check"
      /\ r.op # "noop" => cb'[t].to = r.to /\ cb'[t].from = MeantFor(r.to)
      /\ cb'[t].changed = FALSE
      /\ \A u \in Threads \ {t} : cb'[u] = cb[u]
      /\ cb[t].pc = "idle"
  BY FixedJobs DEF AlertChange, ExitInv, TypeOK, r
<1>4. /\ UNCHANGED <<proc, fsm, boot, bootFrom, timers, sd, overtaken>>
      /\ proc = "running" /\ (faultRef' => (faultRef \/ e = "FATAL_FAULT"))
  BY DEF AlertChange
<1>5. MovesAreMeant'
  BY <1>1, <1>2, <1>3, <1>4 DEF ExitInv, MovesAreMeant, Deciding, MeantFor, Down
<1>6. FatalSticks'
  BY <1>2, <1>3, <1>4 DEF ExitInv, FatalSticks, Deciding, Down
<1>7. FaultStays' /\ ShutdownStarted'
  BY <1>3, <1>4 DEF ExitInv, FaultStays, ShutdownStarted
<1>8. FaultHasExit'
  BY <1>3, <1>4 DEF ExitInv, FaultHasExit, ExitUnderWay, WillReact
<1> QED BY <1>5, <1>6, <1>7, <1>8 DEF ExitInv

(* The steps of a callback. *)
LEMMA ExitCallback ==
  ASSUME ExitInv, TypeOK', Next, NEW t \in Threads, CallbackStep(t)
  PROVE  ExitInv'
<1>0. /\ cb \in [Threads -> Job] /\ timers \in Nat /\ fsm \in SystemState
      /\ proc = "running" /\ UNCHANGED <<boot, bootFrom, sd, faultRef>>
      /\ \A u \in Threads \ {t} : cb'[u] = cb[u]
  BY DEF ExitInv, TypeOK, CallbackStep, CheckTransition, ReadPrevious, WriteState, ComposeStatus,
     PublishStatus, React
<1>1. CASE CheckTransition(t)
  <2>1. CASE proc' = "crashed"
    <3>1. UNCHANGED <<cb, fsm, timers, overtaken>>
      BY <1>1, <2>1, <1>0 DEF CheckTransition
    <3> QED
      BY <1>0, <2>1, <3>1 DEF ExitInv, MovesAreMeant, FatalSticks, FaultStays, ShutdownStarted,
         FaultHasExit, Deciding
  <2>2. CASE proc' # "crashed"
    <3>1. /\ cb[t].pc = "check" /\ cb'[t].pc = "prev" /\ cb'[t].to = cb[t].to
          /\ cb'[t].from = cb[t].from /\ UNCHANGED <<proc, fsm, timers, overtaken>>
      BY <1>0, <1>1, <2>2 DEF CheckTransition, Job
    <3>2. MovesAreMeant' /\ FatalSticks'
      BY <1>0, <3>1 DEF ExitInv, MovesAreMeant, FatalSticks, Deciding
    <3>3. FaultStays' /\ ShutdownStarted' /\ FaultHasExit'
      BY <1>0, <3>1 DEF ExitInv, FaultStays, ShutdownStarted, FaultHasExit, ExitUnderWay, WillReact
    <3> QED BY <3>2, <3>3 DEF ExitInv
  <2> QED BY <2>1, <2>2
<1>2. CASE ReadPrevious(t)
  <2>1. /\ cb[t].pc = "prev" /\ cb'[t].pc = "write" /\ cb'[t].to = cb[t].to
        /\ cb'[t].from = cb[t].from /\ UNCHANGED <<proc, fsm, timers, overtaken>>
    BY <1>0, <1>2 DEF ReadPrevious, Job
  <2>2. cb'[t].changed = (fsm # cb[t].to)
    BY <1>0, <1>2 DEF ReadPrevious, Job
  <2>3. MovesAreMeant' /\ FatalSticks'
    BY <1>0, <2>1 DEF ExitInv, MovesAreMeant, FatalSticks, Deciding
  <2>4. FaultStays'
    BY <1>0, <2>1, <2>2 DEF ExitInv, FaultStays, Down
  <2>5. ShutdownStarted' /\ FaultHasExit'
    BY <1>0, <2>1 DEF ExitInv, ShutdownStarted, FaultHasExit, ExitUnderWay, WillReact
  <2> QED BY <2>3, <2>4, <2>5 DEF ExitInv
<1>3. CASE WriteState(t)
  <2>1. /\ cb[t].pc = "write" /\ cb'[t].pc = "compose" /\ cb'[t].changed = cb[t].changed
        /\ cb[t].changed => cb'[t].to = cb[t].to
        /\ fsm' = cb[t].to /\ UNCHANGED <<proc, timers>>
    <3>1. cb[t] \in Job
      BY <1>0
    <3>2. CASE cb[t].changed
      BY <1>0, <1>3, <3>1, <3>2 DEF WriteState, Move, Job
    <3>3. CASE ~cb[t].changed
      BY <1>0, <1>3, <3>1, <3>3, FixedJobs DEF WriteState, Move, Job
    <3> QED BY <3>2, <3>3
  <2>2. cb[t].to # "SHUTDOWN"
    BY <2>1 DEF ExitInv, MovesAreMeant, Deciding
  <2>3. ~overtaken' => ~overtaken /\ (fsm \in Down => fsm' \in Down)
    BY OvertakenStays, MovesKeepDown DEF ExitInv
  <2>4. MovesAreMeant'
    BY <1>0, <2>1 DEF ExitInv, MovesAreMeant, Deciding
  <2>5. FatalSticks'
    BY <1>0, <2>1, <2>3 DEF ExitInv, FatalSticks, Deciding, Down
  <2>6. FaultStays' /\ ShutdownStarted'
    BY <1>0, <2>1, <2>2, <2>3 DEF ExitInv, FaultStays, ShutdownStarted
  <2>7. FaultHasExit'
    <3>1. CASE WillReact(t)'
      BY <3>1 DEF FaultHasExit, ExitUnderWay
    <3>2. CASE fsm \in Down /\ ~overtaken
      BY <1>0, <2>1, <3>2 DEF ExitInv, FaultHasExit, ExitUnderWay, WillReact
    <3>3. CASE ~WillReact(t)' /\ ~(fsm \in Down /\ ~overtaken) /\ fsm' \in Down /\ ~overtaken'
      <4>1. cb[t].to = "FAULT" /\ ~cb[t].changed /\ fsm \notin Down /\ ~overtaken
        BY <2>1, <2>2, <2>3, <3>3 DEF WillReact, Down
      <4> QED BY <2>1, <4>1 DEF ExitInv, FaultStays
    <3> QED BY <3>1, <3>2, <3>3 DEF FaultHasExit
  <2> QED BY <2>4, <2>5, <2>6, <2>7 DEF ExitInv
<1>4. CASE ComposeStatus(t) \/ PublishStatus(t)
  <2>1. /\ cb[t].pc \in {"compose", "publish"} /\ cb'[t].pc \in {"publish", "react", "idle"}
        /\ cb[t].changed => /\ cb'[t].pc # "idle" /\ cb'[t].changed
                            /\ cb'[t].to = cb[t].to
        /\ UNCHANGED <<proc, fsm, timers, overtaken>>
    <3>0. cb[t] \in Job
      BY DEF ExitInv, TypeOK
    <3>1. CASE ComposeStatus(t)
      BY <1>0, <3>0, <3>1 DEF ComposeStatus, ExitInv, TypeOK, Job
    <3>2. CASE PublishStatus(t) /\ cb[t].changed
      <4>1. cb'[t] = [cb[t] EXCEPT !.pc = "react", !.msg = "BOOTING"]
        BY <3>2 DEF PublishStatus, ExitInv, TypeOK
      <4> QED BY <3>0, <3>2, <4>1 DEF PublishStatus, Job
    <3>3. CASE PublishStatus(t) /\ ~cb[t].changed
      <4>1. cb'[t] = IdleJob
        BY <3>3 DEF PublishStatus, ExitInv, TypeOK
      <4> QED BY <3>3, <4>1, FixedJobs DEF PublishStatus
    <3> QED BY <1>4, <3>1, <3>2, <3>3
  <2>2. MovesAreMeant' /\ FatalSticks' /\ FaultStays' /\ ShutdownStarted'
    BY <1>0, <2>1 DEF ExitInv, MovesAreMeant, FatalSticks, FaultStays, ShutdownStarted, Deciding
  <2>3. FaultHasExit'
    BY <1>0, <2>1 DEF ExitInv, FaultHasExit, ExitUnderWay, WillReact
  <2> QED BY <2>2, <2>3 DEF ExitInv
<1>5. CASE React(t)
  <2>1. /\ cb[t].pc = "react" /\ cb'[t].pc = "idle" /\ UNCHANGED <<proc, fsm, overtaken>>
        /\ timers' = IF fsm = "FAULT" THEN timers + 1 ELSE timers
    BY <1>0, <1>5 DEF React, IdleJob
  <2>2. MovesAreMeant' /\ FatalSticks' /\ FaultStays' /\ ShutdownStarted'
    BY <1>0, <2>1 DEF ExitInv, MovesAreMeant, FatalSticks, FaultStays, ShutdownStarted, Deciding
  <2>3. FaultHasExit'
    <3>1. CASE fsm = "SHUTDOWN"
      BY <1>0, <2>1, <3>1 DEF ExitInv, ShutdownStarted, FaultHasExit, ExitUnderWay
    <3>2. CASE fsm # "SHUTDOWN" /\ WillReact(t)
      BY <1>0, <2>1, <3>2 DEF FaultHasExit, ExitUnderWay, WillReact, Down
    <3>3. CASE ~WillReact(t)
      BY <1>0, <2>1, <3>3 DEF ExitInv, FaultHasExit, ExitUnderWay, WillReact
    <3> QED BY <3>1, <3>2, <3>3
  <2> QED BY <2>2, <2>3 DEF ExitInv
<1> QED BY <1>1, <1>2, <1>3, <1>4, <1>5 DEF CallbackStep

(* The entrypoint. *)
LEMMA ExitBoot ==
  ASSUME ExitInv, TypeOK', Next, BootStep
  PROVE  ExitInv'
<1>0. /\ boot \in BootPc /\ fsm \in SystemState
      /\ proc = "running" /\ UNCHANGED <<cb, timers, sd, faultRef>>
  BY DEF ExitInv, TypeOK, BootStep, StartBoot, SpinupSystem, SpinupStep, BootCheck, BootWrite,
     BootCompose, BootPublish
<1>1. CASE StartBoot \/ SpinupSystem \/ BootCompose \/ BootPublish
  <2>1. /\ boot' # "write_ok" /\ UNCHANGED <<proc, fsm, bootFrom, overtaken>>
        /\ boot \in {"compose_fault", "publish_fault", "fault_sleep"}
              => boot' \in {"compose_fault", "publish_fault", "fault_sleep"}
    BY <1>0, <1>1 DEF StartBoot, SpinupSystem, SpinupStep, BootCompose, BootPublish, AfterPublish
  <2>2. MovesAreMeant' /\ FatalSticks' /\ FaultStays' /\ ShutdownStarted'
    BY <1>0, <2>1 DEF ExitInv, MovesAreMeant, FatalSticks, FaultStays, ShutdownStarted, Deciding
  <2>3. FaultHasExit'
    BY <1>0, <2>1 DEF ExitInv, FaultHasExit, ExitUnderWay, WillReact
  <2> QED BY <2>2, <2>3 DEF ExitInv
<1>2. CASE BootCheck
  <2>1. /\ boot \in {"commit_ok", "commit_fault"} /\ UNCHANGED <<fsm, overtaken>>
        /\ boot' = "write_ok" => bootFrom' \in SystemState \ Down
        /\ proc' # "crashed" => proc' = proc
    BY <1>0, <1>2 DEF BootCheck, BootMayCommit, BootTarget, MeantFor, Legal, Transitions,
       Down, SystemState
  <2>2. MovesAreMeant' /\ FatalSticks' /\ FaultStays' /\ ShutdownStarted'
    BY <1>0, <2>1 DEF ExitInv, MovesAreMeant, FatalSticks, FaultStays, ShutdownStarted, Deciding
  <2>3. FaultHasExit'
    BY <1>0, <2>1 DEF ExitInv, FaultHasExit, ExitUnderWay, WillReact
  <2> QED BY <2>2, <2>3 DEF ExitInv
<1>3. CASE BootWrite
  <2>1. /\ UNCHANGED <<proc, bootFrom>>
        /\ \/ boot = "write_ok" /\ fsm' = "STANDBY" /\ boot' = "compose_ok"
           \/ boot = "write_fault" /\ fsm' = "FAULT" /\ boot' = "compose_fault"
    BY <1>3 DEF BootWrite, Move, BootTarget, AfterWrite
  <2>2. ~overtaken' => ~overtaken /\ (fsm \in Down => fsm' \in Down)
    BY OvertakenStays, MovesKeepDown DEF ExitInv
  <2>3. MovesAreMeant' /\ FatalSticks' /\ FaultStays' /\ ShutdownStarted'
    BY <1>0, <2>1, <2>2 DEF ExitInv, MovesAreMeant, FatalSticks, FaultStays, ShutdownStarted, Deciding
  <2>4. FaultHasExit'
    BY <1>0, <2>1, <2>2 DEF ExitInv, FaultHasExit, ExitUnderWay, Down
  <2> QED BY <2>3, <2>4 DEF ExitInv
<1> QED BY <1>1, <1>2, <1>3 DEF BootStep

(* The shutdown coroutines. *)
LEMMA ExitShutdown ==
  ASSUME ExitInv, TypeOK', Next, NEW s \in Slots, ShutdownStep(s)
  PROVE  ExitInv'
<1>0. /\ sd \in [Slots -> {"idle", "gather", "compose", "publish", "sleep"}]
      /\ proc = "running" /\ UNCHANGED <<cb, bootFrom, faultRef>>
  BY DEF ExitInv, TypeOK, ShutdownStep, StartShutdown, ForceShutdown, ComposeShutdown,
     PublishShutdown, ExitProcess, CallTimesOut
<1>1. CASE \E n \in Nodes : CallTimesOut(s, n)
  BY <1>1, ExitFrame DEF CallTimesOut, exitVars
<1>2. CASE ExitProcess(s)
  BY <1>0, <1>2 DEF ExitProcess, ExitInv, MovesAreMeant, FatalSticks, FaultStays, ShutdownStarted,
     FaultHasExit, Deciding
<1>3. CASE StartShutdown(s) \/ ForceShutdown(s) \/ ComposeShutdown(s) \/ PublishShutdown(s)
  <2>1. /\ sd'[s] # "idle" /\ (boot' # boot => boot' = "done")
        /\ fsm' = fsm \/ fsm' = "SHUTDOWN"
    BY <1>0, <1>3 DEF StartShutdown, ForceShutdown, Move, ComposeShutdown, PublishShutdown
  <2>2. ~overtaken' => ~overtaken
    BY OvertakenStays DEF ExitInv
  <2>3. MovesAreMeant'
    BY <1>0, <2>1 DEF ExitInv, MovesAreMeant, Deciding
  <2>4. FatalSticks' /\ FaultStays'
    BY <1>0, <2>1, <2>2 DEF ExitInv, FatalSticks, FaultStays, Deciding, Down
  <2>5. ShutdownStarted' /\ FaultHasExit'
    BY <2>1 DEF ShutdownStarted, FaultHasExit, ExitUnderWay
  <2> QED BY <2>3, <2>4, <2>5 DEF ExitInv
<1> QED BY <1>1, <1>2, <1>3 DEF ShutdownStep

(* Every step, one lemma per group of actions. *)
LEMMA ExitStep ==
  ASSUME ExitInv, [Next]_vars
  PROVE  ExitInv'
<1>1. TypeOK'
  BY TypeStep DEF ExitInv
<1>2. CASE UNCHANGED vars
  BY <1>1, <1>2, ExitFrame DEF vars, exitVars
<1>3. ASSUME Next, BootStep PROVE ExitInv'
  BY <1>1, <1>3, ExitBoot
<1>4. ASSUME Next, NEW s \in Slots, ShutdownStep(s) PROVE ExitInv'
  BY <1>1, <1>4, ExitShutdown
<1>5. ASSUME NEW s \in Slots, NEW n \in Nodes, NodeAnswers(s, n) PROVE ExitInv'
  BY <1>1, <1>5, ExitFrame DEF NodeAnswers, exitVars
<1>6. ASSUME NEW t \in Threads, NEW e \in EventsOf(t), AlertChange(t, e) PROVE ExitInv'
  BY <1>1, <1>6, ExitAlert
<1>7. ASSUME Next, NEW t \in Threads, CallbackStep(t) PROVE ExitInv'
  BY <1>1, <1>7, ExitCallback
<1> QED BY <1>2, <1>3, <1>4, <1>5, <1>6, <1>7 DEF Next

(* Hence the invariant holds throughout. *)
LEMMA ExitInvariant == Spec => []ExitInv
<1>1. ExitInv /\ [Next]_vars => ExitInv'
  BY ExitStep
<1> QED BY <1>1, ExitInit, PTL DEF Spec

(* A machine in FAULT or SHUTDOWN always has what ends the process on its   *)
(* way, in every interleaving in which no move was written over a state it  *)
(* was not chosen in (supervisor_node.py, lines 126-129 and 253-261).       *)
THEOREM FaultAlwaysHasExit == Spec => []FaultHasExit
<1>1. ExitInv => FaultHasExit
  BY DEF ExitInv
<1> QED BY <1>1, ExitInvariant, PTL

(* A FATAL alert is never hidden by an event chosen after it, nor by the    *)
(* entrypoint's own change_state, in any interleaving of the three callback *)
(* groups: only a move chosen before it and written after it hides it.      *)
THEOREM FatalIsNeverLost == Spec => []FatalNotLost
<1>1. ExitInv => FatalNotLost
  BY DEF ExitInv, FatalSticks, FatalNotLost, Quiet, Deciding
<1> QED BY <1>1, ExitInvariant, PTL

(* FAULT and SHUTDOWN are only ever left by a move that was chosen in       *)
(* another state (the write at line 77 of fsm.py).                          *)
THEOREM NoWayBack == Spec => OneWayDown
<1>1. ExitInv /\ [Next]_vars => [(fsm \in Down) => (fsm' \in Down \/ overtaken')]_vars
  BY MovesKeepDown
<1> QED BY <1>1, ExitInvariant, PTL DEF Spec, OneWayDown

-----------------------------------------------------------------------------
(* The status topic.  A move that has not been published yet has its        *)
(* publisher under way; who sends a message that is out of date records it. *)
Publishing ==
  \/ \E t \in Threads : cb[t].pc \in {"compose", "publish"}
  \/ boot \in {"compose_ok", "compose_fault", "publish_ok", "publish_fault"}
  \/ \E s \in Slots : sd[s] \in {"compose", "publish"}
MovesArePublished == status = "none" \/ crossed \/ status = fsm \/ Publishing

(* No step leaves a move unpublished without its publisher under way. *)
LEMMA PublishedStep ==
  ASSUME TypeOK, MovesArePublished, [Next]_vars
  PROVE  MovesArePublished'
<1> USE DEF TypeOK
<1>1. ASSUME NEW t \in Threads, NEW e \in EventsOf(t), AlertChange(t, e) PROVE MovesArePublished'
  <2>1. /\ \A u \in Threads \ {t} : cb'[u] = cb[u]
        /\ cb[t].pc = "idle" /\ UNCHANGED <<fsm, boot, sd, status, crossed>>
    BY <1>1 DEF AlertChange
  <2> QED BY <2>1 DEF MovesArePublished, Publishing
<1>2. ASSUME NEW t \in Threads, CallbackStep(t) PROVE MovesArePublished'
  <2>0. UNCHANGED <<boot, sd>> /\ \A u \in Threads \ {t} : cb'[u] = cb[u]
    BY <1>2 DEF CallbackStep, CheckTransition, ReadPrevious, WriteState, ComposeStatus,
       PublishStatus, React
  <2>1. CASE WriteState(t) \/ ComposeStatus(t)
    <3>1. cb'[t].pc \in {"compose", "publish"}
      <4>0. cb[t] \in Job
        OBVIOUS
      <4>1. [cb[t] EXCEPT !.pc = "compose", !.from = "any"].pc = "compose"
        BY ONLY <4>0 DEF Job
      <4>2. CASE WriteState(t)
        BY <4>1, <4>2, FixedJobs DEF WriteState
      <4>3. CASE ComposeStatus(t)
        BY <4>0, <4>3 DEF ComposeStatus, Job
      <4> QED BY <2>1, <4>2, <4>3
    <3> QED BY <3>1 DEF MovesArePublished, Publishing
  <2>2. CASE PublishStatus(t)
    <3>1. status' = cb[t].msg /\ crossed' = (cb[t].msg # fsm) /\ fsm' = fsm
      BY <2>2 DEF PublishStatus, Send
    <3> QED BY <3>1 DEF MovesArePublished
  <2>3. CASE CheckTransition(t) \/ ReadPrevious(t) \/ React(t)
    <3>1. cb[t].pc \notin {"compose", "publish"} /\ UNCHANGED <<fsm, status, crossed>>
      BY <2>3 DEF CheckTransition, ReadPrevious, React
    <3> QED BY <2>0, <3>1 DEF MovesArePublished, Publishing
  <2> QED BY <1>2, <2>1, <2>2, <2>3 DEF CallbackStep
<1>3. CASE BootStep
  <2>1. CASE BootWrite \/ BootCompose
    BY <2>1 DEF BootWrite, AfterWrite, BootCompose, MovesArePublished, Publishing
  <2>2. CASE BootPublish
    BY <2>2 DEF BootPublish, Send, MovesArePublished
  <2>3. CASE StartBoot \/ SpinupSystem \/ BootCheck
    BY <2>3 DEF StartBoot, SpinupSystem, SpinupStep, BootCheck, MovesArePublished, Publishing
  <2> QED BY <1>3, <2>1, <2>2, <2>3 DEF BootStep
<1>4. ASSUME NEW s \in Slots, ShutdownStep(s) PROVE MovesArePublished'
  <2>1. CASE ForceShutdown(s) \/ ComposeShutdown(s)
    <3>1. sd'[s] \in {"compose", "publish"}
      BY <2>1 DEF ForceShutdown, ComposeShutdown
    <3> QED BY <3>1 DEF MovesArePublished, Publishing
  <2>2. CASE PublishShutdown(s)
    BY <2>2 DEF PublishShutdown, Send, MovesArePublished
  <2>3. CASE StartShutdown(s)
    <3>1. /\ sd[s] = "idle" /\ \A u \in Slots \ {s} : sd'[u] = sd[u]
          /\ UNCHANGED <<fsm, cb, status, crossed>>
          /\ boot' = boot \/ boot = "fault_sleep"
      BY <2>3 DEF StartShutdown, ShutdownDue
    <3> QED BY <3>1 DEF MovesArePublished, Publishing
  <2>4. CASE ExitProcess(s) \/ \E n \in Nodes : CallTimesOut(s, n)
    BY <2>4 DEF ExitProcess, CallTimesOut, MovesArePublished, Publishing
  <2> QED BY <1>4, <2>1, <2>2, <2>3, <2>4 DEF ShutdownStep
<1>5. ASSUME NEW s \in Slots, NEW n \in Nodes, NodeAnswers(s, n) PROVE MovesArePublished'
  BY <1>5 DEF NodeAnswers, MovesArePublished, Publishing
<1>6. CASE UNCHANGED vars
  BY <1>6 DEF vars, MovesArePublished, Publishing
<1> QED BY <1>1, <1>2, <1>3, <1>4, <1>5, <1>6 DEF Next

(* Every move is published, in every interleaving: the last message on      *)
(* /system_status tells the state when nobody is moving the machine, unless *)
(* two publishers sent their messages in the opposite order.                *)
THEOREM StatusAlwaysFresh == Spec => []StatusFresh
<1>1. Init => MovesArePublished
  BY DEF Init, MovesArePublished
<1>2. TypeOK /\ MovesArePublished /\ [Next]_vars => MovesArePublished'
  BY PublishedStep
<1>3. MovesArePublished => StatusFresh
  BY DEF MovesArePublished, Publishing, StatusFresh, Quiet, BootIdle
<1> QED BY <1>1, <1>2, <1>3, TypeCorrect, PTL DEF Spec

-----------------------------------------------------------------------------
(* Before the first FATAL alert the threads cannot disturb one another:     *)
(* only the group of the alert requests has a callback, it chooses moves    *)
(* only when the entrypoint has left BOOTING, and the entrypoint moves the  *)
(* machine only in BOOTING.  Nothing can raise.                             *)
PreWrite == {"start", "start_publish", "configure_hw", "configure_ss", "activate_ss",
             "commit_ok", "commit_fault", "write_ok", "write_fault"}
Calm ==
  /\ proc # "crashed"
  /\ timers = 0 /\ sd["timer"] = "idle"
  /\ cb["default"].pc = "idle" /\ cb["heartbeat"].pc = "idle"
  /\ cb["requests"].pc \in {"check", "prev", "write"} =>
       /\ fsm \notin Down \cup {"BOOTING"} /\ cb["requests"].to \notin Down \cup {"BOOTING"}
       /\ cb["requests"].pc = "check" /\ cb["requests"].op = "change" => Legal(fsm, cb["requests"].to)
  /\ (\/ cb["requests"].pc = "react"
      \/ (cb["requests"].changed /\ cb["requests"].pc \in {"compose", "publish"}))
       => fsm \notin Down \cup {"BOOTING"}
  /\ boot \in PreWrite => fsm = "BOOTING"
  /\ (boot \in {"compose_fault", "publish_fault", "fault_sleep"} \/ sd["boot"] # "idle")
       => fsm \in Down
  /\ sd["boot"] # "idle" => boot = "done"
CalmBeforeFatal == ~faultRef => Calm

(* No step disturbs the calm, but the delivery of a FATAL alert. *)
LEMMA CalmStep ==
  ASSUME TypeOK, CalmBeforeFatal, [Next]_vars
  PROVE  CalmBeforeFatal'
<1>0. /\ cb \in [Threads -> Job] /\ boot \in BootPc /\ fsm \in SystemState /\ faultRef \in BOOLEAN
      /\ sd \in [Slots -> {"idle", "gather", "compose", "publish", "sleep"}]
  BY DEF TypeOK
<1>1. ASSUME NEW t \in Threads, NEW e \in EventsOf(t), AlertChange(t, e), ~faultRef' PROVE Calm'
  <2>1. ~faultRef /\ e # "FATAL_FAULT"
    BY <1>0, <1>1 DEF AlertChange
  <2>2. Calm /\ t = "requests" /\ e \in SystemEvent
    BY <2>1, <1>1 DEF CalmBeforeFatal, EventsOf, Threads
  <2> DEFINE r == process_event(fsm, e)
  <2>3. /\ r.op # "noop" => r.to \notin Down \cup {"BOOTING"} /\ fsm \notin Down \cup {"BOOTING"}
        /\ r.op = "change" => Legal(fsm, r.to)
    BY <1>0, <2>1, <2>2 DEF process_event, HandleEvent, Noop, ChangeTo, ForceTo, Legal, Transitions,
       SystemState, SystemEvent, Down
  <2> HIDE DEF r
  <2>4. /\ cb'["requests"].pc = IF r.op = "noop" THEN "compose" ELSE "check"
        /\ r.op # "noop" => cb'["requests"].to = r.to /\ cb'["requests"].op = r.op
        /\ cb'["requests"].changed = FALSE
        /\ cb'["default"] = cb["default"] /\ cb'["heartbeat"] = cb["heartbeat"]
        /\ UNCHANGED <<proc, fsm, boot, timers, sd>>
    BY <1>0, <1>1, <2>2, FixedJobs DEF AlertChange, Threads, r
  <2> QED BY <2>2, <2>3, <2>4 DEF Calm
<1>2. ASSUME NEW t \in Threads, CallbackStep(t), ~faultRef' PROVE Calm'
  <2>1. /\ Calm /\ UNCHANGED <<boot, sd>> /\ cb[t].pc # "idle"
    BY <1>2 DEF CalmBeforeFatal, CallbackStep, CheckTransition, ReadPrevious, WriteState,
       ComposeStatus, PublishStatus, React
  <2>2. t = "requests"
    BY <2>1 DEF Calm, Threads
  <2>3. cb'["default"] = cb["default"] /\ cb'["heartbeat"] = cb["heartbeat"]
    BY <1>0, <1>2, <2>2 DEF Threads, CallbackStep, CheckTransition, ReadPrevious, WriteState,
       ComposeStatus, PublishStatus, React
  <2>4. CASE CheckTransition(t)
    <3>1. /\ cb[t].pc = "check" /\ cb'[t].pc = "prev" /\ cb'[t].to = cb[t].to
          /\ UNCHANGED <<proc, fsm, timers>>
      BY <1>0, <2>1, <2>2, <2>4 DEF CheckTransition, Calm, Job
    <3> QED BY <2>1, <2>2, <2>3, <3>1 DEF Calm
  <2>5. CASE ReadPrevious(t)
    <3>1. /\ cb[t].pc = "prev" /\ cb'[t].pc = "write" /\ cb'[t].to = cb[t].to
          /\ UNCHANGED <<proc, fsm, timers>>
      BY <1>0, <2>5 DEF ReadPrevious, Job
    <3> QED BY <2>1, <2>2, <2>3, <3>1 DEF Calm
  <2>6. CASE WriteState(t)
    <3>1. /\ cb[t].pc = "write" /\ cb'[t].pc = "compose" /\ fsm' = cb[t].to
          /\ UNCHANGED <<proc, timers>>
      BY <1>0, <2>6, FixedJobs DEF WriteState, Move, Job
    <3> QED BY <2>1, <2>2, <2>3, <3>1 DEF Calm, PreWrite
  <2>7. CASE ComposeStatus(t)
    <3>1. /\ cb[t].pc = "compose" /\ cb'[t].pc = "publish" /\ cb'[t].changed = cb[t].changed
          /\ UNCHANGED <<proc, fsm, timers>>
      BY <1>0, <2>7 DEF ComposeStatus, Job
    <3> QED BY <2>1, <2>2, <2>3, <3>1 DEF Calm
  <2>8. CASE PublishStatus(t)
    <3>1. /\ cb[t].pc = "publish" /\ UNCHANGED <<proc, fsm, timers>>
          /\ ~cb[t].changed => cb'[t] = IdleJob
          /\ cb[t].changed => cb'[t] = [cb[t] EXCEPT !.pc = "react", !.msg = "BOOTING"]
      BY <1>0, <2>8 DEF PublishStatus
    <3>2. [cb[t] EXCEPT !.pc = "react", !.msg = "BOOTING"].pc = "react"
      BY <1>0 DEF Job
    <3>3. CASE cb[t].changed
      BY <2>1, <2>2, <2>3, <3>1, <3>2, <3>3 DEF Calm
    <3>4. CASE ~cb[t].changed
      BY <2>1, <2>2, <2>3, <3>1, <3>4, FixedJobs DEF Calm
    <3> QED BY <3>3, <3>4
  <2>9. CASE React(t)
    <3>1. /\ cb[t].pc = "react" /\ cb'[t].pc = "idle" /\ UNCHANGED <<proc, fsm>>
          /\ timers' = IF fsm = "FAULT" THEN timers + 1 ELSE timers
      BY <1>0, <2>9 DEF React, IdleJob
    <3>2. timers' = timers
      BY <2>1, <2>2, <3>1 DEF Calm, Down
    <3> QED BY <2>1, <2>2, <2>3, <3>1, <3>2 DEF Calm
  <2> QED BY <1>2, <2>4, <2>5, <2>6, <2>7, <2>8, <2>9 DEF CallbackStep
<1>3. ASSUME BootStep, ~faultRef' PROVE Calm'
  <2>1. Calm /\ UNCHANGED <<cb, timers, sd>>
    BY <1>3 DEF CalmBeforeFatal, BootStep, StartBoot, SpinupSystem, SpinupStep, BootCheck,
       BootWrite, BootCompose, BootPublish
  <2>2. CASE StartBoot \/ SpinupSystem
    BY <2>1, <2>2 DEF StartBoot, SpinupSystem, SpinupStep, Calm, PreWrite
  <2>3. CASE BootCheck
    BY <2>1, <2>3 DEF BootCheck, BootMayCommit, BootTarget, Legal, Transitions, Calm, PreWrite
  <2>4. CASE BootWrite
    <3>1. fsm = "BOOTING" /\ sd["boot"] = "idle" /\ UNCHANGED proc
      BY <2>1, <2>4 DEF BootWrite, Calm, PreWrite
    <3>2. \/ fsm' = "STANDBY" /\ boot' = "compose_ok"
          \/ fsm' = "FAULT" /\ boot' = "compose_fault"
      BY <2>4 DEF BootWrite, Move, BootTarget, AfterWrite
    <3> QED BY <2>1, <3>1, <3>2 DEF Calm, PreWrite, Down
  <2>5. CASE BootCompose \/ BootPublish
    BY <2>1, <2>5 DEF BootCompose, BootPublish, AfterPublish, Calm, PreWrite
  <2> QED BY <1>3, <2>2, <2>3, <2>4, <2>5 DEF BootStep
<1>4. ASSUME NEW s \in Slots, ShutdownStep(s), ~faultRef' PROVE Calm'
  <2>1. /\ Calm /\ UNCHANGED cb
    BY <1>4 DEF CalmBeforeFatal, ShutdownStep, StartShutdown, ForceShutdown, ComposeShutdown,
       PublishShutdown, ExitProcess, CallTimesOut
  <2>2. CASE StartShutdown(s)
    <3>1. /\ s = "boot" /\ boot = "fault_sleep" /\ boot' = "done" /\ UNCHANGED <<proc, fsm, timers>>
          /\ sd'["timer"] = sd["timer"]
      BY <1>0, <2>1, <2>2 DEF StartShutdown, ShutdownDue, Calm, Slots
    <3> QED BY <2>1, <3>1 DEF Calm, PreWrite
  <2>3. CASE ForceShutdown(s) \/ ComposeShutdown(s) \/ PublishShutdown(s)
    <3>1. /\ s = "boot" /\ sd["boot"] # "idle" /\ sd'["timer"] = sd["timer"]
          /\ UNCHANGED <<proc, boot, timers>>
          /\ fsm' = fsm \/ fsm' = "SHUTDOWN"
      BY <1>0, <2>1, <2>3 DEF ForceShutdown, Move, ComposeShutdown, PublishShutdown, Calm, Slots
    <3> QED BY <2>1, <3>1 DEF Calm, PreWrite, Down
  <2>4. CASE ExitProcess(s) \/ \E n \in Nodes : CallTimesOut(s, n)
    BY <2>1, <2>4 DEF ExitProcess, CallTimesOut, Calm
  <2> QED BY <1>4, <2>2, <2>3, <2>4 DEF ShutdownStep
<1>5. ASSUME NEW s \in Slots, NEW n \in Nodes, NodeAnswers(s, n) PROVE CalmBeforeFatal'
  BY <1>5 DEF NodeAnswers, CalmBeforeFatal, Calm
<1>6. CASE UNCHANGED vars
  BY <1>6 DEF vars, CalmBeforeFatal, Calm
<1> QED BY <1>1, <1>2, <1>3, <1>4, <1>5, <1>6 DEF Next, CalmBeforeFatal

(* No exception ends the process before a FATAL alert has been delivered,   *)
(* in any interleaving: until then no change_state, of a callback or of the *)
(* entrypoint, meets an illegal transition.                                 *)
THEOREM CrashesNeedFatal == Spec => []CrashNeedsFatal
<1>1. Init => CalmBeforeFatal
  BY DEF Init, CalmBeforeFatal, Calm, IdleJob, Threads, Slots
<1>2. TypeOK /\ CalmBeforeFatal /\ [Next]_vars => CalmBeforeFatal'
  BY CalmStep
<1>3. CalmBeforeFatal => CrashNeedsFatal
  BY DEF CalmBeforeFatal, Calm, CrashNeedsFatal
<1> QED BY <1>1, <1>2, <1>3, TypeCorrect, PTL DEF Spec
=============================================================================
