----------------------------- MODULE HardwareProofs -----------------------------
(***************************************************************************)
(* Theorems about the hardware manager's process: HardwareManager, for any *)
(* number of controllers and of faults, and HardwareLoading, for any       *)
(* number of controllers, topics and types.                                *)
(*                                                                         *)
(* Why a process that runs has a sound bus: a topic never changes its      *)
(* type, an owner has published, and as long as every path was loaded only *)
(* owners have.  Why a reader is never stale unawares: whatever it got or  *)
(* has fetched under the topic's present number is the present value.  Why *)
(* commands reach their subscribers: a path is loaded once, and buckets    *)
(* are filled once, from what was loaded.                                  *)
(***************************************************************************)
EXTENDS HardwareManager, HardwareLoading, TLAPS, FiniteSetTheorems

(* The reconciler's moves are about a controller, its passes go through     *)
(* them in order.                                                           *)
Moves == {"init", "start", "again", "resume", "pause", "stop", "join", "deinit"}
InOrder ==
  /\ main.at \in Moves => main.c \in Controllers
  /\ main.at = "observe" => main.c \in 1 .. N + 1

TypeInv == TypeOK /\ InOrder

ThreadPlace == {"dead", "top", "wait", "job", "control", "error", "fatal", "signal", "alarm",
                "end"}
MainPlace == {"idle", "observe", "fatal", "joinAll"} \cup Moves
Main == [at : MainPlace, c : 0 .. N + 1, pass : Passes]

LEMMA WokenType ==
  ASSUME TypeOK, NEW cs
  PROVE  Woken(cs) \in [Controllers -> ThreadPlace]
  BY DEF Woken, TypeOK, ThreadPlace

(* What the reconciler's ways on do to main.                                *)
LEMMA MainRecord ==
  ASSUME NEW m \in Main, NEW s \in MainPlace
  PROVE  /\ [m EXCEPT !.at = s] \in Main
         /\ [m EXCEPT !.at = s].at = s /\ [m EXCEPT !.at = s].c = m.c
         /\ [m EXCEPT !.at = s].pass = m.pass
  BY DEF Main

LEMMA MainTypes ==
  ASSUME TypeInv
  PROVE  /\ main \in Main
         /\ NextController /\ main.c \in Controllers =>
              main' \in Main /\ main'.at = "observe" /\ main'.c = main.c + 1 /\ InOrder'
         /\ \A s \in Moves : GoTo(s) /\ main.c \in Controllers =>
              main' \in Main /\ main'.at = s /\ main'.c = main.c /\ InOrder'
         /\ \A s \in {"fatal", "joinAll"} : GoTo(s) =>
              main' \in Main /\ main'.at = s /\ main'.c = main.c /\ InOrder'
<1>1. main \in Main
  BY DEF TypeInv, TypeOK, Main, MainPlace, Moves
<1>2. ASSUME NextController, main.c \in Controllers
      PROVE  main' \in Main /\ main'.at = "observe" /\ main'.c = main.c + 1 /\ InOrder'
  <2>1. main.c + 1 \in 1 .. N + 1 /\ main.c + 1 \in 0 .. N + 1
    BY <1>2, HardwareAssumption DEF Controllers
  <2>2. PICK k \in 0 .. N + 1 : k = main.c + 1
    BY <2>1
  <2>3. main' = [main EXCEPT !.at = "observe", !.c = k]
    BY <1>2, <2>2 DEF NextController
  <2>4. main' \in Main /\ main'.at = "observe" /\ main'.c = k
    <3>1. "observe" \in MainPlace
      BY DEF MainPlace
    <3> QED BY <1>1, <3>1, <2>3 DEF Main
  <2> QED BY <2>1, <2>2, <2>4 DEF InOrder, Moves
<1>3. ASSUME NEW s \in Moves, GoTo(s), main.c \in Controllers
      PROVE  main' \in Main /\ main'.at = s /\ main'.c = main.c /\ InOrder'
  <2>1. s \in MainPlace /\ main.c \in 0 .. N + 1 /\ main' = [main EXCEPT !.at = s]
    BY <1>1, <1>3 DEF GoTo, MainPlace, Main
  <2>2. main' \in Main /\ main'.at = s /\ main'.c = main.c
    BY <1>1, <2>1, MainRecord
  <2> QED BY <1>3, <2>2 DEF InOrder, Moves, Controllers
<1>4. ASSUME NEW s \in {"fatal", "joinAll"}, GoTo(s)
      PROVE  main' \in Main /\ main'.at = s /\ main'.c = main.c /\ InOrder'
  <2>1. s \in MainPlace /\ main.c \in 0 .. N + 1 /\ main' = [main EXCEPT !.at = s]
    BY <1>1, <1>4 DEF GoTo, MainPlace, Main
  <2>2. main' \in Main /\ main'.at = s /\ main'.c = main.c
    BY <1>1, <2>1, MainRecord
  <2> QED BY <2>2 DEF InOrder, Moves
<1> QED BY <1>1, <1>2, <1>3, <1>4

LEMMA TypeInit == Init => TypeInv
<1> SUFFICES ASSUME Init PROVE TypeInv
  OBVIOUS
<1>1. main \in Main /\ main.at = "idle"
  BY HardwareAssumption DEF Init, Idle, Main, MainPlace, Passes
<1>2. thr \in [Controllers -> ThreadPlace] /\ goal \in [Controllers -> States]
  BY DEF Init, ThreadPlace, States
<1>3. /\ init \in [Controllers -> BOOLEAN] /\ power \in [Controllers -> BOOLEAN]
      /\ run \in [Controllers -> BOOLEAN] /\ wait \in [Controllers -> BOOLEAN]
      /\ pending \in [Controllers -> BOOLEAN]
  BY DEF Init
<1>4. faults \in 0 .. MaxFaults
  BY HardwareAssumption DEF Init
<1>5. lc \in Lifecycle /\ isActive \in BOOLEAN /\ fatalSeen \in BOOLEAN /\ proc = "up"
  BY DEF Init, Lifecycle
<1>6. TypeOK
  BY <1>1, <1>2, <1>3, <1>4, <1>5 DEF TypeOK, Main, MainPlace, Moves, ThreadPlace
<1> QED BY <1>1, <1>6 DEF TypeInv, InOrder, Moves

(* The loops' threads keep the types.                                       *)
LEMMA LoopTypes ==
  ASSUME TypeInv, NEW c \in Controllers,
         LoopStep(c) \/ \E l \in {"error", "fatal"} : ControlRaises(c, l)
  PROVE  TypeInv'
<1> USE HardwareAssumption DEF TypeInv, TypeOK, InOrder
<1>1. CASE LoopTop(c)
  BY <1>1 DEF LoopTop
<1>2. CASE LoopEnd(c)
  BY <1>2 DEF LoopEnd
<1>3. CASE Flush(c)
  <2>1. pending' \in [Controllers -> BOOLEAN]
    BY <1>3 DEF Flush
  <2>2. thr' \in [Controllers -> ThreadPlace]
    BY <1>3 DEF Flush, ThreadPlace
  <2> QED BY <1>3, <2>1, <2>2 DEF Flush, ThreadPlace
<1>4. CASE ControlEnds(c)
  BY <1>4 DEF ControlEnds
<1>5. ASSUME NEW l \in {"error", "fatal"}, ControlRaises(c, l) PROVE TypeInv'
  BY <1>5 DEF ControlRaises, Fault
<1>6. CASE LoopStop(c)
  BY <1>6 DEF LoopStop
<1>7. CASE FatalInLoop(c)
  BY <1>7 DEF FatalInLoop
<1>8. CASE NoteInLoop(c)
  <2>1. thr' \in [Controllers -> ThreadPlace]
    BY <1>8, WokenType DEF NoteInLoop, ThreadPlace
  <2>2. run' \in [Controllers -> BOOLEAN] /\ wait' \in [Controllers -> BOOLEAN]
    <3>1. /\ run' = [d \in Controllers |-> run[d] /\ ~Alive(d)]
          /\ wait' = [d \in Controllers |-> wait[d] \/ Alive(d)]
      BY <1>8 DEF NoteInLoop
    <3> HIDE DEF TypeInv, TypeOK, InOrder
    <3> QED BY <3>1 DEF Alive
  <2> QED BY <1>8, <2>1, <2>2 DEF NoteInLoop, ThreadPlace
<1> QED BY <1>1, <1>2, <1>3, <1>4, <1>5, <1>6, <1>7, <1>8 DEF LoopStep

(* The node's thread keeps the types.                                       *)
LEMMA FaultType == TypeOK /\ (Fault \/ UNCHANGED faults) => faults' \in 0 .. MaxFaults
  BY HardwareAssumption DEF TypeOK, Fault

LEMMA LooperTypes ==
  ASSUME TypeOK
  PROVE  /\ \A c \in Controllers : StartLoop(c) \/ ResumeLoop(c) \/ PauseLoop(c) =>
              /\ thr' \in [Controllers -> ThreadPlace]
              /\ run' \in [Controllers -> BOOLEAN] /\ wait' \in [Controllers -> BOOLEAN]
         /\ \A cs \in SUBSET Controllers : RequestStop(cs) =>
              /\ thr' \in [Controllers -> ThreadPlace]
              /\ run' \in [Controllers -> BOOLEAN] /\ wait' \in [Controllers -> BOOLEAN]
<1>1. ASSUME NEW c \in Controllers, StartLoop(c) \/ ResumeLoop(c) \/ PauseLoop(c)
      PROVE  /\ thr' \in [Controllers -> ThreadPlace]
             /\ run' \in [Controllers -> BOOLEAN] /\ wait' \in [Controllers -> BOOLEAN]
  <2>1. CASE StartLoop(c)
    BY <2>1 DEF StartLoop, TypeOK, ThreadPlace
  <2>2. CASE ResumeLoop(c)
    BY <2>2, WokenType DEF ResumeLoop, TypeOK
  <2>3. CASE PauseLoop(c)
    BY <2>3 DEF PauseLoop, TypeOK, ThreadPlace
  <2> QED BY <1>1, <2>1, <2>2, <2>3
<1>2. ASSUME NEW cs \in SUBSET Controllers, RequestStop(cs)
      PROVE  /\ thr' \in [Controllers -> ThreadPlace]
             /\ run' \in [Controllers -> BOOLEAN] /\ wait' \in [Controllers -> BOOLEAN]
  <2>1. thr' \in [Controllers -> ThreadPlace]
    BY <1>2, WokenType DEF RequestStop
  <2>2. /\ run' = [c \in Controllers |-> run[c] /\ ~(c \in cs /\ Alive(c))]
        /\ wait' = [c \in Controllers |-> wait[c] \/ (c \in cs /\ Alive(c))]
    BY <1>2 DEF RequestStop
  <2>3. run' \in [Controllers -> BOOLEAN] /\ wait' \in [Controllers -> BOOLEAN]
    BY <2>2
  <2> QED BY <2>1, <2>3
<1> QED BY <1>1, <1>2

(* The parts of TypeOK that a step of the node's thread may change.         *)
LEMMA NodeFrame ==
  ASSUME TypeInv, main' \in Main, InOrder',
         lc' \in Lifecycle, isActive' \in BOOLEAN, fatalSeen' \in BOOLEAN,
         proc' \in {"up", "exited"}, goal' \in [Controllers -> States],
         init' \in [Controllers -> BOOLEAN], power' \in [Controllers -> BOOLEAN],
         thr' \in [Controllers -> ThreadPlace], run' \in [Controllers -> BOOLEAN],
         wait' \in [Controllers -> BOOLEAN], pending' \in [Controllers -> BOOLEAN],
         faults' \in 0 .. MaxFaults
  PROVE  TypeInv'
  BY DEF TypeInv, TypeOK, Main, MainPlace, Moves, ThreadPlace

LEMMA ReconcileTypes ==
  ASSUME TypeInv, Reconcile \/ CallFails \/ CallFatal
  PROVE  TypeInv'
<1> DEFINE Kept == /\ lc \in Lifecycle /\ isActive \in BOOLEAN /\ fatalSeen \in BOOLEAN
                   /\ proc \in {"up", "exited"} /\ goal \in [Controllers -> States]
                   /\ init \in [Controllers -> BOOLEAN] /\ power \in [Controllers -> BOOLEAN]
                   /\ thr \in [Controllers -> ThreadPlace] /\ run \in [Controllers -> BOOLEAN]
                   /\ wait \in [Controllers -> BOOLEAN] /\ pending \in [Controllers -> BOOLEAN]
                   /\ faults \in 0 .. MaxFaults
<1>k. Kept
  BY DEF TypeInv, TypeOK, ThreadPlace
<1>t. TypeOK
  BY DEF TypeInv
<1>m. main.at \in Moves => main.c \in Controllers
  BY DEF TypeInv, InOrder
<1>1. CASE Observe
  <2>1. main' \in Main /\ InOrder'
    <3> DEFINE move == FirstMove(Actual(main.c), goal[main.c])
    <3>1. move \in Moves \cup {"none"}
      BY DEF FirstMove, Moves
    <3>2. IF move = "none" THEN NextController ELSE GoTo(move)
      BY <1>1 DEF Observe
    <3>3. main.c \in Controllers
      BY <1>1 DEF Observe
    <3> HIDE DEF move
    <3> QED BY <3>1, <3>2, <3>3, MainTypes
  <2> QED BY <1>1, <1>k, <2>1, NodeFrame DEF Observe, nodeFlags, loops
<1>2. CASE InitializeHw
  <2>1. "init" \in Moves /\ "start" \in Moves
    BY DEF Moves
  <2>2. main' \in Main /\ InOrder'
    BY <1>2, <1>m, <2>1, MainTypes DEF InitializeHw, MainAt
  <2>3. init' \in [Controllers -> BOOLEAN] /\ power' \in [Controllers -> BOOLEAN]
    BY <1>2, <1>k DEF InitializeHw
  <2> QED BY <1>2, <1>k, <2>2, <2>3, NodeFrame DEF InitializeHw, nodeFlags, loops
<1>3. CASE Start
  <2>1. "start" \in Moves /\ "again" \in Moves
    BY DEF Moves
  <2>2. main.c \in Controllers /\ main' \in Main /\ InOrder'
    BY <1>3, <1>m, <2>1, MainTypes DEF Start, MainAt
  <2>3. /\ thr' \in [Controllers -> ThreadPlace]
        /\ run' \in [Controllers -> BOOLEAN] /\ wait' \in [Controllers -> BOOLEAN]
    BY <1>3, <1>t, <2>2, LooperTypes DEF Start
  <2> QED BY <1>3, <1>k, <2>2, <2>3, NodeFrame DEF Start, nodeFlags
<1>4. CASE Again
  <2>1. "again" \in Moves /\ "resume" \in Moves
    BY DEF Moves
  <2>2. main' \in Main /\ InOrder'
    BY <1>4, <1>m, <2>1, MainTypes DEF Again, MainAt
  <2> QED BY <1>4, <1>k, <2>2, NodeFrame DEF Again, nodeFlags, loops
<1>5. CASE Resume \/ Pause
  <2>1. "resume" \in Moves /\ "pause" \in Moves
    BY DEF Moves
  <2>2. main.c \in Controllers /\ main' \in Main /\ InOrder'
    BY <1>5, <1>m, <2>1, MainTypes DEF Resume, Pause, MainAt
  <2>3. /\ thr' \in [Controllers -> ThreadPlace]
        /\ run' \in [Controllers -> BOOLEAN] /\ wait' \in [Controllers -> BOOLEAN]
    BY <1>5, <1>t, <2>2, LooperTypes DEF Resume, Pause
  <2> QED BY <1>5, <1>k, <2>2, <2>3, NodeFrame DEF Resume, Pause, nodeFlags
<1>6. CASE Stop
  <2>1. "stop" \in Moves /\ "join" \in Moves /\ "deinit" \in Moves
    BY DEF Moves
  <2>2. main.c \in Controllers /\ main' \in Main /\ InOrder'
    BY <1>6, <1>m, <2>1, MainTypes DEF Stop, MainAt
  <2>3. /\ thr' \in [Controllers -> ThreadPlace]
        /\ run' \in [Controllers -> BOOLEAN] /\ wait' \in [Controllers -> BOOLEAN]
    <3>1. {main.c} \in SUBSET Controllers
      BY <2>2
    <3> QED BY <1>6, <1>t, <3>1, LooperTypes DEF Stop
  <2> QED BY <1>6, <1>k, <2>2, <2>3, NodeFrame DEF Stop, nodeFlags
<1>7. CASE Join
  <2>1. "join" \in Moves /\ "deinit" \in Moves
    BY DEF Moves
  <2>2. main' \in Main /\ InOrder'
    BY <1>7, <1>m, <2>1, MainTypes DEF Join, MainAt
  <2>3. faults' \in 0 .. MaxFaults
    BY <1>7, <1>t, FaultType DEF Join
  <2> QED BY <1>7, <1>k, <2>2, <2>3, NodeFrame DEF Join, nodeFlags, loops
<1>8. CASE DeinitializeHw
  <2>1. "deinit" \in Moves
    BY DEF Moves
  <2>2. main.c \in Controllers /\ main' \in Main /\ InOrder'
    BY <1>8, <1>m, <2>1, MainTypes DEF DeinitializeHw, MainAt
  <2>3. init' \in [Controllers -> BOOLEAN] /\ power' \in [Controllers -> BOOLEAN]
    BY <1>8, <1>k DEF DeinitializeHw
  <2> QED BY <1>8, <1>k, <2>2, <2>3, NodeFrame DEF DeinitializeHw, nodeFlags, loops
<1>9. CASE JoinAll
  <2>1. main' = [at |-> "observe", c |-> 1, pass |-> "exit"]
    BY <1>9 DEF JoinAll
  <2>2. main' \in Main /\ InOrder'
    BY <2>1, HardwareAssumption DEF Main, MainPlace, Passes, InOrder, Moves
  <2>3. goal' \in [Controllers -> States] /\ faults' \in 0 .. MaxFaults
    BY <1>9, <1>t, FaultType DEF JoinAll, States
  <2> QED BY <1>9, <1>k, <2>2, <2>3, NodeFrame DEF JoinAll, nodeFlags, loops
<1>10. CASE PassEnds
  <2>1. main' \in Main /\ InOrder'
    BY <1>10, HardwareAssumption DEF PassEnds, Idle, Main, MainPlace, Passes, InOrder, Moves
  <2>2. lc' \in Lifecycle /\ proc' \in {"up", "exited"}
    BY <1>10, <1>k DEF PassEnds
  <2>3. isActive' \in BOOLEAN
    BY <1>10, <1>k DEF PassEnds
  <2>4. thr' \in [Controllers -> ThreadPlace]
    BY <1>10, <1>k DEF PassEnds, ThreadPlace
  <2> QED BY <1>10, <1>k, <2>1, <2>2, <2>3, <2>4, NodeFrame DEF PassEnds
<1>11. CASE CallFails
  <2>1. "init" \in Moves /\ "deinit" \in Moves
    BY DEF Moves
  <2>2. main' \in Main /\ InOrder'
    BY <1>11, <1>m, <2>1, MainTypes DEF CallFails
  <2>3. faults' \in 0 .. MaxFaults
    BY <1>11, <1>t, FaultType DEF CallFails
  <2> QED BY <1>11, <1>k, <2>2, <2>3, NodeFrame DEF CallFails, nodeFlags, loops
<1>12. CASE CallFatal
  <2>1. "init" \in Moves /\ "deinit" \in Moves
    BY DEF Moves
  <2>2. main' \in Main /\ InOrder'
    BY <1>12, <1>m, <2>1, MainTypes DEF CallFatal
  <2>3. faults' \in 0 .. MaxFaults
    BY <1>12, <1>t, FaultType DEF CallFatal
  <2> QED BY <1>12, <1>k, <2>2, <2>3, NodeFrame DEF CallFatal, nodeFlags, loops
<1>13. CASE NoteFatal
  <2>1. main' \in Main /\ InOrder'
    BY <1>13, MainTypes DEF NoteFatal
  <2>2. /\ thr' \in [Controllers -> ThreadPlace]
        /\ run' \in [Controllers -> BOOLEAN] /\ wait' \in [Controllers -> BOOLEAN]
    <3>1. Controllers \in SUBSET Controllers
      OBVIOUS
    <3> QED BY <1>13, <1>t, <3>1, LooperTypes DEF NoteFatal
  <2> QED BY <1>13, <1>k, <2>1, <2>2, NodeFrame DEF NoteFatal
<1> QED BY <1>1, <1>2, <1>3, <1>4, <1>5, <1>6, <1>7, <1>8, <1>9, <1>10, <1>11, <1>12, <1>13
        DEF Reconcile, Calls

LEMMA NodeTypes ==
  ASSUME TypeInv, Transition \/ ReconcileTimer \/ Input
  PROVE  TypeInv'
<1>1. CASE Transition
  <2>1. PICK t \in Transitions : /\ goal' = [c \in Controllers |-> t[3]]
                                 /\ main' = [at |-> "observe", c |-> 1, pass |-> t[2]]
    BY <1>1 DEF Transition
  <2>2. t[2] \in Lifecycle /\ t[3] \in States
    BY DEF Transitions, Lifecycle, States
  <2>3. main' \in Main /\ InOrder'
    BY <2>1, <2>2, HardwareAssumption DEF Main, MainPlace, Passes, InOrder, Moves
  <2>4. goal' \in [Controllers -> States]
    BY <2>1, <2>2
  <2> QED BY <1>1, <2>3, <2>4, NodeFrame DEF Transition, nodeFlags, loops, TypeInv, TypeOK, ThreadPlace
<1>2. CASE ReconcileTimer
  <2>1. main' \in Main /\ InOrder'
    BY <1>2, HardwareAssumption DEF ReconcileTimer, Main, MainPlace, Passes, InOrder, Moves
  <2> QED BY <1>2, <2>1, NodeFrame DEF ReconcileTimer, nodeFlags, loops, TypeInv, TypeOK, ThreadPlace
<1>3. CASE Input
  <2>1. PICK cs \in SUBSET Controllers :
          pending' = [c \in Controllers |-> pending[c] \/ c \in cs]
    BY <1>3 DEF Input
  <2>2. pending' \in [Controllers -> BOOLEAN]
    BY <2>1
  <2>3. main' \in Main /\ InOrder'
    BY <1>3, MainTypes DEF Input, TypeInv, InOrder
  <2> QED BY <1>3, <2>2, <2>3, NodeFrame DEF Input, nodeFlags, loops, TypeInv, TypeOK, ThreadPlace
<1> QED BY <1>1, <1>2, <1>3

LEMMA TypeStep == TypeInv /\ [Next]_vars => TypeInv'
<1> SUFFICES ASSUME TypeInv, [Next]_vars PROVE TypeInv'
  OBVIOUS
<1>1. CASE UNCHANGED vars
  BY <1>1 DEF vars, TypeInv, TypeOK, InOrder
<1>2. CASE Next
  BY <1>2, LoopTypes, ReconcileTypes, NodeTypes DEF Next
<1> QED BY <1>1, <1>2

(* Every behaviour of the hardware manager keeps its types: the places of   *)
(* the loops' threads and of the node's thread are the ones of _loop,       *)
(* _flush and the reconciler, whatever fails and however they interleave.   *)
THEOREM TypeCorrect == Spec => []TypeOK
<1>1. TypeInv => TypeOK
  BY DEF TypeInv
<1> QED BY <1>1, TypeInit, TypeStep, PTL DEF Spec

-----------------------------------------------------------------------------
(* Why a loop never drives hardware that is off or being switched: control  *)
(* runs only while the controller is marked initialised, which implies that *)
(* the hardware is on; and the reconciler touches the hardware of a         *)
(* controller only after it found it unmarked or its thread dead.           *)
MarkedIsOn == \A c \in Controllers : init[c] => power[c]
ControlIsMarked == \A c \in Controllers : thr[c] = "control" => init[c]
Untouched ==
  /\ main.at = "init" => ~init[main.c] \/ thr[main.c] = "dead"
  /\ main.at = "deinit" => thr[main.c] = "dead"

ExclusionInv == TypeInv /\ MarkedIsOn /\ ControlIsMarked /\ Untouched

LEMMA ExclusionInit == Init => ExclusionInv
<1> SUFFICES ASSUME Init PROVE ExclusionInv
  OBVIOUS
<1>1. TypeInv
  BY TypeInit
<1>2. MarkedIsOn /\ ControlIsMarked
  BY DEF Init, MarkedIsOn, ControlIsMarked
<1>3. main.at = "idle"
  BY DEF Init, Idle
<1> QED BY <1>1, <1>2, <1>3 DEF ExclusionInv, Untouched

(* A step that marks no controller, starts no control and moves the node's  *)
(* thread neither to init nor to deinit keeps the three facts.              *)
LEMMA Quiet ==
  ASSUME ExclusionInv, UNCHANGED <<init, power>>,
         \A c \in Controllers :
           /\ thr'[c] = "control" => thr[c] = "control" \/ init[c]
           /\ thr[c] = "dead" => thr'[c] = "dead",
         \/ UNCHANGED main
         \/ main'.at \notin {"init", "deinit"}
  PROVE  MarkedIsOn' /\ ControlIsMarked' /\ Untouched'
  BY DEF ExclusionInv, MarkedIsOn, ControlIsMarked, Untouched, TypeInv, InOrder, Moves

LEMMA WokenQuiet ==
  ASSUME NEW cs, TypeOK
  PROVE  \A c \in Controllers : /\ Woken(cs)[c] = "control" => thr[c] = "control"
                                /\ thr[c] = "dead" => Woken(cs)[c] = "dead"
  BY DEF Woken, TypeOK

LEMMA LoopExclusion ==
  ASSUME ExclusionInv, NEW c \in Controllers,
         LoopStep(c) \/ \E l \in {"error", "fatal"} : ControlRaises(c, l)
  PROVE  MarkedIsOn' /\ ControlIsMarked' /\ Untouched'
<1>t. TypeOK /\ thr \in [Controllers -> ThreadPlace] /\ init \in [Controllers -> BOOLEAN]
  BY DEF ExclusionInv, TypeInv, TypeOK, ThreadPlace
<1>1. CASE \/ LoopTop(c) \/ LoopEnd(c) \/ Flush(c) \/ ControlEnds(c) \/ LoopStop(c)
           \/ FatalInLoop(c)
  <2>1. /\ UNCHANGED <<init, power, main>> /\ thr[c] # "dead"
        /\ \A d \in Controllers \ {c} : thr'[d] = thr[d]
        /\ thr'[c] = "control" => init[c]
    BY <1>t, <1>1 DEF LoopTop, LoopEnd, Flush, ControlEnds, LoopStop, FatalInLoop
  <2> QED BY <2>1, Quiet
<1>2. CASE NoteInLoop(c)
  <2>1. /\ UNCHANGED <<init, power, main>> /\ thr[c] = "alarm"
        /\ thr' = [Woken(Controllers) EXCEPT ![c] = "end"]
    BY <1>2 DEF NoteInLoop
  <2>2. Woken(Controllers) \in [Controllers -> ThreadPlace]
    BY <1>t, WokenType
  <2>3. thr'[c] = "end" /\ \A d \in Controllers \ {c} : thr'[d] = Woken(Controllers)[d]
    BY <2>1, <2>2
  <2> QED BY <1>t, <2>1, <2>3, WokenQuiet, Quiet
<1>3. ASSUME NEW l \in {"error", "fatal"}, ControlRaises(c, l)
      PROVE  MarkedIsOn' /\ ControlIsMarked' /\ Untouched'
  <2>1. /\ UNCHANGED <<power, main>> /\ thr[c] = "control"
        /\ init' = [init EXCEPT ![c] = FALSE] /\ thr' = [thr EXCEPT ![c] = l]
    BY <1>3 DEF ControlRaises
  <2>2. MarkedIsOn'
    BY <1>t, <2>1 DEF ExclusionInv, MarkedIsOn
  <2>3. ControlIsMarked'
    BY <1>t, <2>1 DEF ExclusionInv, ControlIsMarked
  <2>4. Untouched'
    BY <1>t, <2>1 DEF ExclusionInv, Untouched, TypeInv, InOrder, Moves
  <2> QED BY <2>2, <2>3, <2>4
<1> QED BY <1>1, <1>2, <1>3 DEF LoopStep

LEMMA NodeExclusion ==
  ASSUME ExclusionInv,
         \/ Reconcile \/ CallFails \/ CallFatal
         \/ Transition \/ ReconcileTimer \/ Input
  PROVE  MarkedIsOn' /\ ControlIsMarked' /\ Untouched'
<1>t. /\ TypeInv /\ TypeOK /\ thr \in [Controllers -> ThreadPlace]
      /\ init \in [Controllers -> BOOLEAN] /\ power \in [Controllers -> BOOLEAN]
      /\ main.at \in Moves => main.c \in Controllers
  BY DEF ExclusionInv, TypeInv, TypeOK, ThreadPlace, InOrder
<1>n. NextController /\ main.c \in Controllers => main'.at \notin {"init", "deinit"}
  BY <1>t, MainTypes
<1>g. \A s \in Moves : GoTo(s) /\ main.c \in Controllers => main'.at = s /\ main'.c = main.c
  BY <1>t, MainTypes
<1>1. CASE Observe
  <2> DEFINE move == FirstMove(Actual(main.c), goal[main.c])
  <2>1. /\ main.c \in Controllers /\ UNCHANGED <<init, power, thr>>
        /\ IF move = "none" THEN NextController ELSE GoTo(move)
    BY <1>1 DEF Observe, loops
  <2>2. move \in (Moves \ {"deinit"}) \cup {"none"}
    BY DEF FirstMove, Moves
  <2>3. move = "init" => ~init[main.c] \/ thr[main.c] = "dead"
    BY DEF FirstMove, Actual, Alive
  <2> HIDE DEF move
  <2>4. CASE move = "none"
    BY <1>n, <2>1, <2>4, Quiet
  <2>5. CASE move # "none"
    <3>1. main'.at = move /\ main'.c = main.c /\ main'.at # "deinit"
      BY <1>g, <2>1, <2>2, <2>5
    <3>2. Untouched'
      BY <2>1, <2>3, <3>1 DEF Untouched
    <3> QED BY <2>1, <3>2 DEF ExclusionInv, MarkedIsOn, ControlIsMarked
  <2> QED BY <2>4, <2>5
<1>2. CASE InitializeHw
  <2>1. /\ main.c \in Controllers /\ main'.at = "start" /\ UNCHANGED thr
        /\ init' = [init EXCEPT ![main.c] = TRUE]
        /\ power' = [power EXCEPT ![main.c] = TRUE]
    BY <1>2, <1>t, <1>g DEF InitializeHw, MainAt, loops, Moves
  <2> QED BY <1>t, <2>1 DEF ExclusionInv, MarkedIsOn, ControlIsMarked, Untouched
<1>3. CASE Start
  <2>1. /\ main.c \in Controllers /\ main'.at \notin {"init", "deinit"}
        /\ UNCHANGED <<init, power>>
    BY <1>3, <1>t, <1>n, <1>g DEF Start, MainAt, Moves
  <2>2. \A c \in Controllers : thr'[c] = "control" => thr[c] = "control"
    BY <1>3, <1>t, <2>1 DEF Start, StartLoop, PauseLoop
  <2> QED BY <2>1, <2>2 DEF ExclusionInv, MarkedIsOn, ControlIsMarked, Untouched
<1>4. CASE Again
  <2>1. /\ main.c \in Controllers /\ main'.at \notin {"init", "deinit"}
        /\ UNCHANGED <<init, power, thr>>
    BY <1>4, <1>t, <1>n, <1>g DEF Again, MainAt, Moves, loops
  <2> QED BY <2>1, Quiet
<1>5. CASE Resume
  <2>1. /\ main'.at \notin {"init", "deinit"} /\ UNCHANGED <<init, power>>
        /\ thr' = Woken({main.c})
    BY <1>5, <1>t, <1>n DEF Resume, ResumeLoop, MainAt, Moves
  <2> QED BY <1>t, <2>1, WokenQuiet, Quiet
<1>6. CASE Pause
  <2>1. main'.at \notin {"init", "deinit"} /\ UNCHANGED <<init, power, thr>>
    BY <1>6, <1>t, <1>n DEF Pause, PauseLoop, MainAt, Moves
  <2> QED BY <2>1, Quiet
<1>7. CASE Stop
  <2>1. /\ main.c \in Controllers /\ UNCHANGED <<init, power>> /\ thr' = Woken({main.c})
        /\ main'.c = main.c /\ main'.at # "init"
        /\ main'.at = "deinit" => thr[main.c] = "dead"
    BY <1>7, <1>t, <1>g DEF Stop, RequestStop, Alive, MainAt, Moves
  <2>2. Untouched'
    BY <1>t, <2>1, WokenQuiet DEF Untouched
  <2>3. MarkedIsOn' /\ ControlIsMarked'
    BY <1>t, <2>1, WokenQuiet DEF ExclusionInv, MarkedIsOn, ControlIsMarked
  <2> QED BY <2>2, <2>3
<1>8. CASE Join
  <2>1. /\ main.c \in Controllers /\ UNCHANGED <<init, power, thr>>
        /\ main'.at # "init"
        /\ main'.at = "deinit" => main'.c = main.c /\ thr[main.c] = "dead"
    BY <1>8, <1>t, <1>n, <1>g DEF Join, Alive, MainAt, Moves, loops
  <2> QED BY <2>1 DEF ExclusionInv, MarkedIsOn, ControlIsMarked, Untouched
<1>9. CASE DeinitializeHw
  <2>1. /\ main.c \in Controllers /\ main'.at \notin {"init", "deinit"} /\ UNCHANGED thr
        /\ power' = [power EXCEPT ![main.c] = @ /\ ~init[main.c]]
        /\ init' = [init EXCEPT ![main.c] = FALSE] /\ main.at = "deinit"
    BY <1>9, <1>t, <1>n DEF DeinitializeHw, MainAt, Moves, loops
  <2>2. MarkedIsOn'
    BY <1>t, <2>1 DEF ExclusionInv, MarkedIsOn
  <2>3. thr[main.c] = "dead"
    BY <2>1 DEF ExclusionInv, Untouched
  <2>4. ControlIsMarked'
    BY <1>t, <2>1, <2>3 DEF ExclusionInv, ControlIsMarked
  <2> QED BY <2>1, <2>2, <2>4 DEF Untouched
<1>10. CASE CallFails
  <2>1. main'.at \notin {"init", "deinit"} /\ UNCHANGED <<init, power, thr>>
    BY <1>10, <1>t, <1>n DEF CallFails, Moves, loops
  <2> QED BY <2>1, Quiet
<1>11. CASE CallFatal \/ NoteFatal
  <2>1. main'.at \notin {"init", "deinit"} /\ UNCHANGED <<init, power>>
    BY <1>11, <1>t, <1>n, MainTypes DEF CallFatal, NoteFatal, Moves
  <2>2. UNCHANGED thr \/ thr' = Woken(Controllers)
    BY <1>11 DEF CallFatal, NoteFatal, RequestStop, loops
  <2> QED BY <1>t, <2>1, <2>2, WokenQuiet, Quiet
<1>12. CASE JoinAll \/ PassEnds \/ Transition \/ ReconcileTimer
  <2>1. main'.at \notin {"init", "deinit"} /\ UNCHANGED <<init, power>>
    BY <1>12 DEF JoinAll, PassEnds, Transition, ReconcileTimer, Idle
  <2>2. UNCHANGED thr \/ thr' = [c \in Controllers |-> "dead"]
    BY <1>12 DEF JoinAll, PassEnds, Transition, ReconcileTimer, loops
  <2> QED BY <2>1, <2>2, Quiet
<1>13. CASE Input
  <2>1. UNCHANGED <<init, power, thr, main>>
    BY <1>13 DEF Input, loops
  <2> QED BY <2>1, Quiet
<1> QED BY <1>1, <1>2, <1>3, <1>4, <1>5, <1>6, <1>7, <1>8, <1>9, <1>10, <1>11, <1>12, <1>13
        DEF Reconcile, Calls

(* The reconciler never initialises or deinitialises hardware that a loop   *)
(* is driving, and no loop drives hardware that is off: control() and       *)
(* initialize_hw or deinitialize_hw exclude each other for any number of    *)
(* controllers and faults, although they share no lock.                     *)
THEOREM HardwareIsExclusive == Spec => []HardwareExclusive
<1>1. ExclusionInv /\ [Next]_vars => ExclusionInv'
  <2> SUFFICES ASSUME ExclusionInv, [Next]_vars PROVE ExclusionInv'
    OBVIOUS
  <2>1. TypeInv'
    BY TypeStep DEF ExclusionInv
  <2>2. CASE UNCHANGED vars
    BY <2>1, <2>2 DEF vars, ExclusionInv, MarkedIsOn, ControlIsMarked, Untouched
  <2>3. CASE Next
    <3>1. MarkedIsOn' /\ ControlIsMarked' /\ Untouched'
      BY <2>3, LoopExclusion, NodeExclusion DEF Next
    <3> QED BY <2>1, <3>1 DEF ExclusionInv
  <2> QED BY <2>2, <2>3
<1>2. ExclusionInv => HardwareExclusive
  BY DEF ExclusionInv, MarkedIsOn, ControlIsMarked, Untouched, HardwareExclusive
<1> QED BY <1>1, <1>2, ExclusionInit, PTL DEF Spec

-----------------------------------------------------------------------------
(* What holds as long as nothing has failed: a controller is marked exactly *)
(* while its hardware is on, and its loop lives exactly as long, except     *)
(* while the reconciler is between its start or stop and the hardware call. *)
(* Only the reconciler's own request ends a loop.                           *)
Healthy(c) ==
  /\ thr[c] \notin {"error", "fatal", "signal", "alarm"} /\ power[c] = init[c]
  /\ Alive(c) => init[c]
  /\ init[c] /\ ~Alive(c) => main.c = c /\ main.at \in {"start", "join", "deinit"}
  /\ Alive(c) /\ ~run[c] => main.c = c /\ main.at = "join"
  /\ main.c = c =>
       /\ main.at \in {"start", "deinit"} => init[c] /\ ~Alive(c)
       /\ main.at = "join" => init[c]
       /\ main.at = "init" => ~init[c]
       /\ main.at = "stop" => Alive(c)

(* A pass on the way down has unmarked every controller it is done with;    *)
(* once the node is down, none is marked.                                   *)
Down == {"unconfigured", "finalized"}
Downward ==
  /\ main.at = "idle" => main.pass = "timer"
  /\ main.pass = "timer" /\ lc \in Down =>
       /\ main.at \in {"idle", "observe"}
       /\ \A c \in Controllers : goal[c] = "UNINITIALIZED" /\ ~init[c]
  /\ main.pass \in Down =>
       /\ main.at \in {"observe", "stop", "join", "deinit"}
       /\ \A c \in Controllers : goal[c] = "UNINITIALIZED" /\ (c < main.c => ~init[c])

Faultless ==
  /\ ~fatalSeen /\ main.at \notin {"fatal", "joinAll"} /\ main.pass # "exit"
  /\ (\A c \in Controllers : Healthy(c)) /\ Downward
ShutdownInv == TypeInv /\ (faults = 0 => Faultless)

LEMMA ShutdownInit == Init => ShutdownInv
<1> SUFFICES ASSUME Init PROVE ShutdownInv
  OBVIOUS
<1>1. main.at = "idle" /\ main.pass = "timer" /\ main.c = 0
  BY DEF Init, Idle
<1>2. \A c \in Controllers : Healthy(c)
  BY <1>1, HardwareAssumption DEF Init, Healthy, Alive, Controllers
<1>3. Downward
  BY <1>1 DEF Init, Downward, Down
<1> QED BY <1>1, <1>2, <1>3, TypeInit DEF Init, ShutdownInv, Faultless

(* A step is a fault or leaves their number alone; so before a state        *)
(* without faults there were none.                                          *)
LEMMA FaultCounts == TypeOK /\ Fault => faults' # 0
  BY HardwareAssumption DEF TypeOK, Fault

LEMMA FaultOrNot == Next => Fault \/ UNCHANGED faults
<1> SUFFICES ASSUME Next PROVE Fault \/ UNCHANGED faults
  OBVIOUS
<1>1. ASSUME NEW c \in Controllers,
             LoopStep(c) \/ \E l \in {"error", "fatal"} : ControlRaises(c, l)
      PROVE  Fault \/ UNCHANGED faults
  BY <1>1 DEF LoopStep, LoopTop, LoopEnd, Flush, ControlEnds, LoopStop, FatalInLoop,
              NoteInLoop, ControlRaises
<1>2. CASE Reconcile \/ CallFails \/ CallFatal
  BY <1>2 DEF Reconcile, Calls, Observe, InitializeHw, Start, Again, Resume, Pause, Stop, Join,
              DeinitializeHw, NoteFatal, JoinAll, PassEnds, CallFails, CallFatal
<1>3. CASE Transition \/ ReconcileTimer \/ Input
  BY <1>3 DEF Transition, ReconcileTimer, Input
<1> QED BY <1>1, <1>2, <1>3 DEF Next

LEMMA LoopFaultless ==
  ASSUME TypeInv, Faultless, faults' = 0, NEW c \in Controllers,
         LoopStep(c) \/ \E l \in {"error", "fatal"} : ControlRaises(c, l)
  PROVE  Faultless'
<1>t. TypeOK /\ thr \in [Controllers -> ThreadPlace] /\ run \in [Controllers -> BOOLEAN]
  BY DEF TypeInv, TypeOK, ThreadPlace
<1>h. \A d \in Controllers : Healthy(d)
  BY DEF Faultless
<1>1. LoopTop(c) \/ LoopEnd(c) \/ Flush(c) \/ ControlEnds(c)
  <2>1. ~LoopStop(c) /\ ~FatalInLoop(c) /\ ~NoteInLoop(c)
    BY <1>h DEF LoopStop, FatalInLoop, NoteInLoop, Healthy
  <2>2. \A l : ~ControlRaises(c, l)
    BY <1>t, FaultCounts DEF ControlRaises
  <2> QED BY <2>1, <2>2 DEF LoopStep
<1>2. PICK x \in ThreadPlace \ {"error", "fatal", "signal", "alarm"} :
        thr' = [thr EXCEPT ![c] = x] /\ (x = "dead" => ~run[c])
  BY <1>1 DEF LoopTop, LoopEnd, Flush, ControlEnds, ThreadPlace
<1>3. thr[c] # "dead" /\ UNCHANGED <<lc, fatalSeen, goal, init, power, run, main>>
  BY <1>1 DEF LoopTop, LoopEnd, Flush, ControlEnds
<1>4. ASSUME NEW d \in Controllers PROVE Healthy(d)'
  <2>1. CASE d = c
    <3>1. thr'[c] = x
      BY <1>t, <1>2
    <3> QED BY <1>h, <1>2, <1>3, <2>1, <3>1 DEF Healthy, Alive
  <2>2. CASE d # c
    <3>1. thr'[d] = thr[d]
      BY <1>t, <1>2, <2>2
    <3> QED BY <1>h, <1>3, <3>1 DEF Healthy, Alive
  <2> QED BY <2>1, <2>2
<1>5. Downward'
  BY <1>3 DEF Faultless, Downward
<1> QED BY <1>3, <1>4, <1>5 DEF Faultless

(* The loops of a step of the node's thread that starts none.               *)
LEMMA WokenAlive ==
  ASSUME TypeOK, NEW cs, thr' = Woken(cs), NEW c \in Controllers, Healthy(c)
  PROVE  Alive(c)' = Alive(c) /\ thr'[c] \notin {"error", "fatal", "signal", "alarm"}
  BY DEF Woken, Alive, TypeOK, Healthy

(* A controller that the reconciler has not taken up is at rest.            *)
LEMMA AtRest ==
  ASSUME NEW c \in Controllers, Healthy(c), TypeOK,
         ~(main.c = c /\ main.at \in {"start", "join", "deinit"})
  PROVE  (init[c] <=> Alive(c)) /\ (Alive(c) => run[c])
  BY DEF Healthy, TypeOK

LEMMA ObserveFaultless ==
  ASSUME TypeInv, Faultless, Observe
  PROVE  Faultless'
<1> DEFINE k == main.c
           move == FirstMove(Actual(k), goal[k])
<1>1. /\ k \in Controllers /\ main.at = "observe"
      /\ UNCHANGED <<lc, fatalSeen, goal, init, power, thr, run>>
      /\ IF move = "none" THEN NextController ELSE GoTo(move)
  BY DEF Observe, MainAt, nodeFlags, loops
<1>2. TypeOK /\ main \in Main /\ goal[k] \in States
  BY <1>1, MainTypes DEF TypeInv, TypeOK
<1>3. \A c \in Controllers : Healthy(c) /\ (init[c] <=> Alive(c)) /\ (Alive(c) => run[c])
  BY <1>1, <1>2, AtRest DEF Faultless
<1>4. /\ move = "none" => Actual(k) = goal[k]
      /\ move = "stop" => goal[k] = "UNINITIALIZED" /\ Actual(k) # "UNINITIALIZED"
      /\ move = "init" => Actual(k) = "UNINITIALIZED"
      /\ goal[k] = "UNINITIALIZED" => move \in {"none", "stop"}
      /\ move \in {"none", "stop", "init", "resume", "pause"}
  BY DEF FirstMove
<1>5. Actual(k) = "UNINITIALIZED" <=> ~init[k]
  BY <1>1, <1>3 DEF Actual
<1>6. CASE move = "none"
  <2>1. main'.at = "observe" /\ main'.c = k + 1 /\ main'.pass = main.pass
    <3>1. NextController
      BY <1>1, <1>6
    <3> QED BY <1>2, <3>1, <1>1, MainTypes DEF NextController, Main
  <2>2. \A c \in Controllers : Healthy(c)'
    BY <1>1, <1>3, <2>1 DEF Healthy, Alive
  <2>3. main.pass \in Down => ~init[k]
    BY <1>1, <1>4, <1>5, <1>6 DEF Faultless, Downward
  <2>4. \A c \in Controllers : c < k + 1 => c < k \/ c = k
    BY <1>1, HardwareAssumption DEF Controllers
  <2>5. Downward'
    BY <1>1, <2>1, <2>3, <2>4 DEF Faultless, Downward, Down
  <2> QED BY <1>1, <2>1, <2>2, <2>5 DEF Faultless
<1>7. CASE move # "none"
  <2>1. main'.at = move /\ main'.c = k /\ main'.pass = main.pass
    <3>1. GoTo(move) /\ move \in MainPlace
      BY <1>1, <1>4, <1>7 DEF MainPlace, Moves
    <3> HIDE DEF move
    <3> QED BY <1>2, <3>1, MainRecord DEF GoTo
  <2> HIDE DEF move
  <2>2. \A c \in Controllers : Healthy(c)'
    BY <1>1, <1>3, <1>4, <1>5, <2>1 DEF Healthy, Alive
  <2>3. goal[k] = "UNINITIALIZED" => move = "stop" /\ init[k]
    BY <1>4, <1>5, <1>7
  <2>4. Downward'
    BY <1>1, <1>4, <2>1, <2>3 DEF Faultless, Downward, Down
  <2> QED BY <1>1, <1>4, <2>1, <2>2, <2>4 DEF Faultless
<1> QED BY <1>6, <1>7

(* main after the ways on, the pass included.                               *)
LEMMA MainPass ==
  ASSUME TypeInv, main.c \in Controllers
  PROVE  /\ NextController =>
              main'.at = "observe" /\ main'.c = main.c + 1 /\ main'.pass = main.pass
         /\ \A s \in Moves : GoTo(s) =>
              main'.at = s /\ main'.c = main.c /\ main'.pass = main.pass
<1>1. main \in Main
  BY MainTypes
<1>2. ASSUME NextController
      PROVE  main'.at = "observe" /\ main'.c = main.c + 1 /\ main'.pass = main.pass
  BY <1>1, <1>2, MainTypes DEF NextController, Main
<1>3. ASSUME NEW s \in Moves, GoTo(s)
      PROVE  main'.at = s /\ main'.c = main.c /\ main'.pass = main.pass
  <2>1. s \in MainPlace
    BY DEF MainPlace
  <2> QED BY <1>1, <1>3, <2>1, MainRecord DEF GoTo
<1> QED BY <1>2, <1>3

LEMMA CallsFaultless ==
  ASSUME TypeInv, Faultless, faults' = 0, Calls
  PROVE  Faultless'
<1> DEFINE k == main.c
<1>t. /\ TypeOK /\ thr \in [Controllers -> ThreadPlace] /\ run \in [Controllers -> BOOLEAN]
      /\ init \in [Controllers -> BOOLEAN] /\ power \in [Controllers -> BOOLEAN]
  BY DEF TypeInv, TypeOK, ThreadPlace
<1>k. k \in Controllers /\ main.at \in Moves
  <2>1. main.at \in Moves
    BY DEF Calls, InitializeHw, Start, Again, Resume, Pause, Stop, Join, DeinitializeHw,
           MainAt, Moves
  <2> QED BY <2>1 DEF TypeInv, InOrder
<1>h. \A c \in Controllers : Healthy(c)
  BY DEF Faultless
<1>u. UNCHANGED <<lc, fatalSeen, goal>>
  BY DEF Calls, InitializeHw, Start, Again, Resume, Pause, Stop, Join, DeinitializeHw, nodeFlags
<1>d. main.at \in Moves \ {"stop", "join", "deinit"} =>
        main.pass \notin Down /\ ~(main.pass = "timer" /\ lc \in Down)
  BY DEF Faultless, Downward, Moves
<1>e. ~(main.pass = "timer" /\ lc \in Down)
  BY <1>k DEF Faultless, Downward, Moves
<1>1. CASE InitializeHw
  <2>1. /\ main.at = "init" /\ UNCHANGED <<thr, run>>
        /\ init' = [init EXCEPT ![k] = TRUE] /\ power' = [power EXCEPT ![k] = TRUE]
        /\ main'.at = "start" /\ main'.c = k /\ main'.pass = main.pass
    BY <1>1, <1>k, MainPass DEF InitializeHw, MainAt, loops, Moves
  <2>2. \A c \in Controllers : Healthy(c)'
    BY <1>t, <1>k, <1>h, <2>1 DEF Healthy, Alive
  <2>3. Downward'
    BY <1>d, <1>u, <2>1 DEF Downward, Moves
  <2> QED BY <1>u, <2>1, <2>2, <2>3 DEF Faultless
<1>2. CASE Start
  <2>1. main.at = "start" /\ ~Alive(k) /\ init[k]
    BY <1>2, <1>k, <1>h DEF Start, MainAt, Healthy
  <2>2. /\ UNCHANGED <<init, power>>
        /\ thr' = [thr EXCEPT ![k] = "top"] /\ run' = [run EXCEPT ![k] = TRUE]
    BY <1>2, <2>1 DEF Start, StartLoop
  <2>3. main'.at \in {"again", "observe"} /\ main'.pass = main.pass
    BY <1>2, <1>k, MainPass DEF Start, Moves
  <2>4. ASSUME NEW c \in Controllers PROVE Healthy(c)'
    <3>1. CASE c = k
      <4>1. thr'[k] = "top" /\ run'[k]
        BY <1>t, <1>k, <2>2
      <4> QED BY <1>h, <2>1, <2>2, <2>3, <3>1, <4>1 DEF Healthy, Alive
    <3>2. CASE c # k
      <4>1. thr'[c] = thr[c] /\ run'[c] = run[c]
        BY <1>t, <1>k, <2>2, <3>2
      <4> QED BY <1>h, <2>1, <2>2, <2>3, <3>2, <4>1 DEF Healthy, Alive
    <3> QED BY <3>1, <3>2
  <2>5. Downward'
    BY <1>d, <1>u, <2>1, <2>3 DEF Downward, Moves
  <2> QED BY <1>u, <2>3, <2>4, <2>5 DEF Faultless
<1>3. CASE Again \/ Resume \/ Pause
  <2>1. /\ main.at \in {"again", "resume", "pause"}
        /\ main'.at \in {"resume", "observe"} /\ main'.pass = main.pass
    BY <1>3, <1>k, MainPass DEF Again, Resume, Pause, MainAt, Moves
  <2>2. UNCHANGED <<init, power, run>> /\ (UNCHANGED thr \/ thr' = Woken({k}))
    BY <1>3 DEF Again, Resume, Pause, ResumeLoop, PauseLoop, loops
  <2>3. ASSUME NEW c \in Controllers PROVE Healthy(c)'
    <3>1. Alive(c)' = Alive(c) /\ thr'[c] \notin {"error", "fatal", "signal", "alarm"}
      BY <1>t, <1>h, <2>2, WokenAlive DEF Alive, Healthy
    <3> QED BY <1>h, <2>1, <2>2, <3>1 DEF Healthy
  <2>4. Downward'
    BY <1>d, <1>u, <2>1 DEF Downward, Moves
  <2> QED BY <1>u, <2>1, <2>3, <2>4 DEF Faultless
<1>4. CASE Stop
  <2>1. /\ main.at = "stop" /\ Alive(k) /\ init[k]
        /\ UNCHANGED <<init, power>> /\ thr' = Woken({k})
        /\ run' = [c \in Controllers |-> run[c] /\ ~(c \in {k} /\ Alive(c))]
    BY <1>4, <1>k, <1>h DEF Stop, MainAt, RequestStop, Healthy
  <2>2. main'.at = "join" /\ main'.c = k /\ main'.pass = main.pass
    BY <1>4, <1>k, <2>1, MainPass DEF Stop, Moves
  <2>3. ASSUME NEW c \in Controllers PROVE Healthy(c)'
    <3>1. Alive(c)' = Alive(c) /\ thr'[c] \notin {"error", "fatal", "signal", "alarm"}
      BY <1>t, <1>h, <2>1, WokenAlive
    <3>2. c # k => run'[c] = run[c]
      BY <1>t, <2>1
    <3> QED BY <1>h, <2>1, <2>2, <3>1, <3>2 DEF Healthy
  <2>4. Downward'
    BY <1>e, <1>u, <2>1, <2>2 DEF Faultless, Downward
  <2> QED BY <1>u, <2>2, <2>3, <2>4 DEF Faultless
<1>5. CASE Join
  <2>1. main.at = "join" /\ ~Alive(k) /\ init[k] /\ UNCHANGED <<init, power, thr, run>>
    BY <1>5, <1>t, <1>k, <1>h, FaultCounts DEF Join, MainAt, Healthy, loops
  <2>2. main'.at = "deinit" /\ main'.c = k /\ main'.pass = main.pass
    BY <1>5, <1>k, <2>1, MainPass DEF Join, Moves
  <2>3. \A c \in Controllers : Healthy(c)'
    BY <1>h, <2>1, <2>2 DEF Healthy, Alive
  <2>4. Downward'
    BY <1>e, <1>u, <2>1, <2>2 DEF Faultless, Downward
  <2> QED BY <1>u, <2>2, <2>3, <2>4 DEF Faultless
<1>6. CASE DeinitializeHw
  <2>1. /\ main.at = "deinit" /\ ~Alive(k) /\ init[k] /\ UNCHANGED <<thr, run>>
        /\ power' = [power EXCEPT ![k] = @ /\ ~init[k]] /\ init' = [init EXCEPT ![k] = FALSE]
    BY <1>6, <1>k, <1>h DEF DeinitializeHw, MainAt, Healthy, loops
  <2>2. main'.at = "observe" /\ main'.c = k + 1 /\ main'.pass = main.pass
    BY <1>6, <1>k, MainPass DEF DeinitializeHw
  <2>3. ASSUME NEW c \in Controllers PROVE Healthy(c)'
    <3>1. CASE c = k
      <4>1. init'[k] = FALSE /\ power'[k] = FALSE
        BY <1>t, <1>k, <2>1
      <4> QED BY <1>h, <2>1, <2>2, <3>1, <4>1 DEF Healthy, Alive
    <3>2. CASE c # k
      <4>1. init'[c] = init[c] /\ power'[c] = power[c]
        BY <1>t, <1>k, <2>1, <3>2
      <4> QED BY <1>h, <2>1, <2>2, <3>2, <4>1 DEF Healthy, Alive
    <3> QED BY <3>1, <3>2
  <2>4. \A c \in Controllers : c < k + 1 => c < k \/ c = k
    BY <1>k, HardwareAssumption DEF Controllers
  <2>5. \A c \in Controllers : (init'[c] => init[c]) /\ ~init'[k]
    BY <1>t, <1>k, <2>1
  <2>6. Downward'
    BY <1>e, <1>u, <2>1, <2>2, <2>4, <2>5 DEF Faultless, Downward
  <2> QED BY <1>u, <2>2, <2>3, <2>6 DEF Faultless
<1> QED BY <1>1, <1>2, <1>3, <1>4, <1>5, <1>6 DEF Calls

LEMMA NodeFaultless ==
  ASSUME TypeInv, Faultless, PassEnds \/ Transition \/ ReconcileTimer \/ Input
  PROVE  Faultless'
<1>t. TypeOK /\ main \in Main
  BY MainTypes DEF TypeInv
<1>1. UNCHANGED <<fatalSeen, init, power, thr, run>> /\ main.at \in {"idle", "observe"}
  <2>1. main.pass # "exit"
    BY DEF Faultless
  <2> QED BY <2>1 DEF PassEnds, Transition, ReconcileTimer, Input, MainAt, nodeFlags, loops
<1>2. \A c \in Controllers : Healthy(c) /\ (init[c] <=> Alive(c)) /\ (Alive(c) => run[c])
  BY <1>1, <1>t, AtRest DEF Faultless
<1>3. main'.at \in {"idle", "observe"}
  BY <1>1 DEF PassEnds, Transition, ReconcileTimer, Input, Idle
<1>4. \A c \in Controllers : Healthy(c)'
  BY <1>1, <1>2, <1>3 DEF Healthy, Alive
<1>5. CASE PassEnds
  <2>1. main' = Idle /\ main.c = N + 1 /\ UNCHANGED goal
        /\ lc' = IF main.pass \in Lifecycle THEN main.pass ELSE lc
    BY <1>5 DEF PassEnds
  <2>2. main'.at = "idle" /\ main'.pass = "timer"
    BY <2>1 DEF Idle
  <2>3. main.pass \in Lifecycle \cup {"timer"}
    BY <1>t DEF Main, Passes, Faultless
  <2>4. \A c \in Controllers : c < N + 1
    BY HardwareAssumption DEF Controllers
  <2>5. lc' \in Down => \A c \in Controllers : goal[c] = "UNINITIALIZED" /\ ~init[c]
    BY <2>1, <2>3, <2>4 DEF Faultless, Downward
  <2>6. Downward'
    BY <1>1, <2>1, <2>2, <2>5 DEF Downward, Down
  <2> QED BY <1>1, <1>4, <2>2, <2>6 DEF Faultless
<1>6. CASE Transition
  <2>1. PICK t \in Transitions : /\ goal' = [c \in Controllers |-> t[3]]
                                 /\ main' = [at |-> "observe", c |-> 1, pass |-> t[2]]
    BY <1>6 DEF Transition
  <2>2. t[2] \in Lifecycle /\ (t[2] \in Down => t[3] = "UNINITIALIZED")
    BY DEF Transitions, Lifecycle, Down
  <2>3. main'.at = "observe" /\ main'.c = 1 /\ main'.pass = t[2]
    BY <2>1
  <2>4. main'.pass # "timer" /\ main'.pass # "exit"
    BY <2>2, <2>3 DEF Lifecycle
  <2>5. \A c \in Controllers : ~(c < 1)
    BY HardwareAssumption DEF Controllers
  <2>6. Downward'
    BY <2>1, <2>2, <2>3, <2>4, <2>5 DEF Downward
  <2> QED BY <1>1, <1>4, <2>3, <2>4, <2>6 DEF Faultless
<1>7. CASE ReconcileTimer
  <2>1. /\ main.at = "idle" /\ UNCHANGED <<lc, goal>>
        /\ main'.at = "observe" /\ main'.pass = "timer"
    BY <1>7 DEF ReconcileTimer, MainAt, nodeFlags
  <2>2. Downward'
    BY <1>1, <2>1 DEF Faultless, Downward, Down
  <2> QED BY <1>1, <1>4, <2>1, <2>2 DEF Faultless
<1>8. CASE Input
  <2>1. UNCHANGED <<lc, goal, main>>
    BY <1>8 DEF Input, nodeFlags
  <2>2. Downward'
    BY <1>1, <2>1 DEF Faultless, Downward
  <2> QED BY <1>1, <1>4, <2>1, <2>2 DEF Faultless
<1> QED BY <1>5, <1>6, <1>7, <1>8

(* As long as no call failed, no control() raised and no join timed out,    *)
(* on_cleanup and on_shutdown leave every hardware off and every loop's     *)
(* thread ended, whatever the loops were doing when they were called.       *)
THEOREM ShutdownIsClean == Spec => []CleanShutdown
<1>1. ShutdownInv /\ [Next]_vars => ShutdownInv'
  <2> SUFFICES ASSUME ShutdownInv, [Next]_vars PROVE ShutdownInv'
    OBVIOUS
  <2>1. TypeInv /\ TypeInv'
    BY TypeStep DEF ShutdownInv
  <2>2. CASE UNCHANGED vars
    <3>1. faults' = 0 => Faultless'
      BY <2>2 DEF vars, ShutdownInv, Faultless, Healthy, Alive, Downward
    <3> QED BY <2>1, <3>1 DEF ShutdownInv
  <2>3. CASE Next
    <3> SUFFICES ASSUME faults' = 0 PROVE Faultless'
      BY <2>1 DEF ShutdownInv
    <3>1. ~Fault /\ Faultless
      BY <2>1, <2>3, FaultCounts, FaultOrNot DEF ShutdownInv, TypeInv
    <3>2. ~CallFails /\ ~CallFatal
      BY <3>1 DEF CallFails, CallFatal
    <3>3. ~NoteFatal /\ ~JoinAll
      BY <3>1 DEF NoteFatal, JoinAll, MainAt, Faultless
    <3> QED BY <2>1, <2>3, <3>1, <3>2, <3>3, LoopFaultless, ObserveFaultless, CallsFaultless,
               NodeFaultless DEF Next, Reconcile
  <2> QED BY <2>2, <2>3
<1>2. ShutdownInv => CleanShutdown
  <2> SUFFICES ASSUME ShutdownInv, lc \in Down, main = Idle, faults = 0, NEW c \in Controllers
               PROVE  ~power[c] /\ ~Alive(c)
    BY DEF CleanShutdown, Down
  <2>1. main.at = "idle" /\ main.pass = "timer"
    BY DEF Idle
  <2>2. Healthy(c) /\ ~init[c]
    BY <2>1 DEF ShutdownInv, Faultless, Downward
  <2> QED BY <2>2 DEF Healthy
<1> QED BY <1>1, <1>2, ShutdownInit, PTL DEF Spec

-----------------------------------------------------------------------------
(* How the process is put together: HardwareLoading.                        *)

Topic == [type : Types \cup {NoType}, owner : Nat, seq : Nat, by : Nat]
Reader == [type : Types, last : Nat, got : Nat \X Nat, fetched : {<<>>} \cup (Nat \X Nat)]
Exits == ConfigErrors \cup {"DATABUS_FIN_ERROR", "FAILED_TO_LOAD_CONTROLLERS"}

(* Types of what the bus and the loader keep.                               *)
LoadTypes ==
  /\ strict \in BOOLEAN /\ total \in Nat /\ path \in Nat \ {0}
  /\ at \in {"config", "import", "construct", "run"} \cup Exits
  /\ topic \in [Topics -> Topic] /\ loaded \in Seq(Nat \ {0})
  /\ DOMAIN reader \subseteq Nat \X Topics /\ reader \in [DOMAIN reader -> Reader]

(* A topic that does not exist has nothing, an owner has published, and     *)
(* what was published has a publisher.                                      *)
TopicSound(tp) ==
  /\ tp.type = NoType => tp = NoTopic
  /\ (tp.owner # 0 => tp.seq > 0) /\ (tp.seq = 0 => tp.by = 0)

(* The reader's view of its topic: of what it got or fetched, the number    *)
(* tells whether it is the present value.                                   *)
View(rd, tp) ==
  /\ rd.type = tp.type
  /\ rd.last <= tp.seq /\ (rd.last = tp.seq => rd.got = <<tp.by, tp.seq>>)
  /\ rd.fetched # <<>> =>
       /\ rd.fetched[2] <= tp.seq
       /\ rd.fetched[2] = tp.seq => rd.fetched = <<tp.by, tp.seq>>

BusSound ==
  /\ \A t \in Topics : TopicSound(topic[t])
  /\ \A r \in DOMAIN reader : View(reader[r], topic[r[2]])

(* Every path so far is loaded: then only owners have published.            *)
Lossless == Len(loaded) = path - 1
Owned ==
  Lossless => \A t \in Topics :
    /\ topic[t].by = topic[t].owner
    /\ topic[t].owner # 0 => topic[t].owner \in Live \/ (at = "construct" /\ topic[t].owner = path)

(* How far the loader is, and what it has checked when the process runs.    *)
Counted ==
  /\ Len(loaded) < path
  /\ at = "construct" => path <= total
  /\ at = "run" =>
       /\ strict => Lossless
       /\ \A t \in Topics : topic[t].type # NoType => topic[t].owner # 0
  /\ path <= total + 1

LoadInv == LoadTypes /\ BusSound /\ Counted /\ Owned

LEMMA LoadInitInv == LoadInit => LoadInv
<1> SUFFICES ASSUME LoadInit PROVE LoadInv
  OBVIOUS
<1>1. /\ path = 1 /\ loaded = <<>> /\ at = "config" /\ DOMAIN reader = {} /\ reader = <<>>
      /\ topic = [t \in Topics |-> NoTopic]
  BY DEF LoadInit
<1>2. total \in Nat
  <2>1. Cardinality(Paths) \in Nat
    BY FS_CardinalityType, LoadingAssumption DEF Paths
  <2> QED BY <2>1 DEF LoadInit
<1>3. NoTopic \in Topic /\ NoTopic.owner = 0 /\ NoTopic.by = 0 /\ NoTopic.seq = 0
      /\ NoTopic.type = NoType
  BY DEF NoTopic, Topic
<1>4. LoadTypes
  <2>1. topic \in [Topics -> Topic]
    BY <1>1, <1>3
  <2>2. reader \in [DOMAIN reader -> Reader]
    BY <1>1
  <2> QED BY <1>1, <1>2, <2>1, <2>2 DEF LoadInit, LoadTypes
<1>5. BusSound
  BY <1>1, <1>3 DEF BusSound, TopicSound
<1>6. Counted /\ Owned
  BY <1>1, <1>2, <1>3 DEF Counted, Owned
<1> QED BY <1>4, <1>5, <1>6 DEF LoadInv

(* What the constructor's operations make of a topic.                       *)
LEMMA TopicWritten ==
  ASSUME NEW tp \in Topic, NEW c \in Nat, NEW w, w = SetVal(tp, c)
  PROVE  w \in Topic /\ w.type = tp.type /\ w.owner = tp.owner /\ w.seq = tp.seq + 1 /\ w.by = c
<1>1. PICK n \in Nat : n = tp.seq + 1
  BY DEF Topic
<1>2. w = [tp EXCEPT !.seq = n, !.by = c]
  BY <1>1 DEF SetVal
<1> QED BY <1>1, <1>2 DEF Topic

LEMMA TopicOwned ==
  ASSUME NEW tp \in Topic, NEW c \in Nat, NEW w, w = [tp EXCEPT !.owner = c]
  PROVE  /\ w \in Topic /\ w.type = tp.type /\ w.owner = c /\ w.seq = tp.seq /\ w.by = tp.by
  BY DEF Topic

LEMMA TopicRequired ==
  ASSUME LoadTypes, BusSound, NEW t \in Topics, NEW ty \in Types, NEW tp, tp = Required(t, ty)
  PROVE  /\ tp \in Topic /\ tp.type \in Types
         /\ tp.type = topic[t].type \/ topic[t].type = NoType
         /\ tp.owner = topic[t].owner /\ tp.seq = topic[t].seq /\ tp.by = topic[t].by
<1>1. topic[t] \in Topic /\ TopicSound(topic[t])
  BY DEF LoadTypes, BusSound
<1>2. CASE topic[t].type = NoType
  <2>1. topic[t] = NoTopic /\ tp = [NoTopic EXCEPT !.type = ty]
    BY <1>1, <1>2 DEF TopicSound, Required
  <2> QED BY <1>2, <2>1 DEF NoTopic, Topic
<1>3. CASE topic[t].type # NoType
  BY <1>1, <1>3 DEF Required, Topic
<1> QED BY <1>2, <1>3

(* A reader's view stands when its topic is left alone or written.          *)
Later(tp, tq) ==
  /\ tq.type = tp.type \/ tp.type = NoType
  /\ tq.seq > tp.seq \/ (tq.seq = tp.seq /\ tq.by = tp.by)

LEMMA ViewKept ==
  ASSUME NEW rd \in Reader, NEW tp \in Topic, NEW tq \in Topic, View(rd, tp), Later(tp, tq)
  PROVE  View(rd, tq)
<1>1. rd.type \in Types /\ rd.last \in Nat /\ rd.fetched \in {<<>>} \cup (Nat \X Nat)
      /\ tp.seq \in Nat /\ tq.seq \in Nat
  BY DEF Reader, Topic
<1>2. tq.type = tp.type
  BY <1>1, LoadingAssumption DEF View, Later
<1>3. CASE tq.seq > tp.seq
  <2>1. rd.fetched # <<>> => rd.fetched[2] \in Nat
    BY <1>1
  <2> QED BY <1>1, <1>2, <1>3, <2>1 DEF View
<1>4. CASE tq.seq = tp.seq /\ tq.by = tp.by
  BY <1>2, <1>4 DEF View
<1> QED BY <1>3, <1>4 DEF Later

LEMMA TopicChanges ==
  ASSUME LoadTypes, BusSound, NEW t \in Topics, NEW tp \in Topic,
         topic' = [topic EXCEPT ![t] = tp], TopicSound(tp), Later(topic[t], tp)
  PROVE  /\ topic' \in [Topics -> Topic] /\ topic'[t] = tp
         /\ \A u \in Topics \ {t} : topic'[u] = topic[u]
         /\ \A u \in Topics : TopicSound(topic'[u])
         /\ \A r \in DOMAIN reader : View(reader[r], topic'[r[2]])
<1>1. /\ topic' \in [Topics -> Topic] /\ topic'[t] = tp
      /\ \A u \in Topics \ {t} : topic'[u] = topic[u]
  BY DEF LoadTypes
<1>2. \A u \in Topics : TopicSound(topic'[u])
  BY <1>1 DEF BusSound
<1>3. ASSUME NEW r \in DOMAIN reader PROVE View(reader[r], topic'[r[2]])
  <2>1. r[2] \in Topics /\ reader[r] \in Reader /\ topic[r[2]] \in Topic /\ View(reader[r], topic[r[2]])
    BY DEF LoadTypes, BusSound
  <2>2. CASE r[2] = t
    BY <1>1, <2>1, <2>2, ViewKept
  <2>3. CASE r[2] # t
    BY <1>1, <2>1, <2>3
  <2> QED BY <2>2, <2>3
<1> QED BY <1>1, <1>2, <1>3

(* A step that leaves the bus alone.                                        *)
LEMMA BusKept ==
  ASSUME LoadTypes, BusSound, UNCHANGED bus
  PROVE  BusSound' /\ topic' \in [Topics -> Topic]
         /\ DOMAIN reader' \subseteq Nat \X Topics /\ reader' \in [DOMAIN reader' -> Reader]
  BY DEF LoadTypes, BusSound, bus

(* Going on to the next path without having loaded this one is a loss.      *)
LEMMA GivenUp ==
  ASSUME LoadTypes, Counted, at = "construct", NextPath, UNCHANGED <<total, loaded, strict>>
  PROVE  ~Lossless' /\ Counted' /\ Owned' /\ path' \in Nat \ {0} /\ at' = "import"
<1>1. path' = path + 1 /\ at' = "import" /\ path \in Nat \ {0} /\ Len(loaded) \in Nat /\ total \in Nat
  BY DEF NextPath, LoadTypes
<1>2. ~Lossless'
  BY <1>1 DEF Lossless, Counted
<1>3. Counted'
  BY <1>1 DEF Counted
<1> QED BY <1>1, <1>2, <1>3 DEF Owned

LEMMA WriterStep ==
  ASSUME LoadInv, NEW t \in Topics, NEW ty \in Types, CreateWriter(t, ty)
  PROVE  LoadInv'
<1>0. LoadTypes /\ BusSound /\ Counted /\ Owned /\ path \in Nat \ {0}
  BY DEF LoadInv, LoadTypes
<1>1. at = "construct" /\ UNCHANGED <<strict, total, reader, loaded>>
  BY DEF CreateWriter, Constructing
<1> DEFINE tp == Required(t, ty)
           w == SetVal(tp, path)
<1>2. /\ tp \in Topic /\ tp.type \in Types
      /\ tp.type = topic[t].type \/ topic[t].type = NoType
      /\ tp.owner = topic[t].owner /\ tp.seq = topic[t].seq /\ tp.by = topic[t].by
  BY <1>0, TopicRequired
<1>3. w \in Topic /\ w.type = tp.type /\ w.owner = tp.owner /\ w.seq = tp.seq + 1 /\ w.by = path
  BY <1>0, <1>2, TopicWritten
<1>4. topic[t].seq \in Nat /\ topic[t].owner \in Nat
  BY <1>0 DEF LoadTypes, Topic
<1>5. \/ NextPath /\ UNCHANGED topic
      \/ NextPath /\ topic' = [topic EXCEPT ![t] = w]
      \/ tp.owner = 0 /\ Proceed /\ topic' = [topic EXCEPT ![t] = [w EXCEPT !.owner = path]]
  BY DEF CreateWriter
<1> HIDE DEF tp, w
<1>6. CASE NextPath /\ UNCHANGED topic
  <2>1. UNCHANGED bus
    BY <1>1, <1>6 DEF bus
  <2> QED BY <1>0, <1>1, <1>6, <2>1, BusKept, GivenUp DEF LoadInv, LoadTypes
<1>7. CASE NextPath /\ topic' = [topic EXCEPT ![t] = w]
  <2>1. TopicSound(w) /\ Later(topic[t], w)
    BY <1>2, <1>3, <1>4, LoadingAssumption DEF TopicSound, Later
  <2>2. BusSound' /\ topic' \in [Topics -> Topic]
    BY <1>0, <1>1, <1>3, <1>7, <2>1, TopicChanges DEF BusSound
  <2> QED BY <1>0, <1>1, <1>7, <2>2, GivenUp DEF LoadInv, LoadTypes
<1>8. CASE tp.owner = 0 /\ Proceed /\ topic' = [topic EXCEPT ![t] = [w EXCEPT !.owner = path]]
  <2> DEFINE v == [w EXCEPT !.owner = path]
  <2>1. v \in Topic /\ v.type = w.type /\ v.owner = path /\ v.seq = w.seq /\ v.by = w.by
    BY <1>0, <1>3, TopicOwned
  <2>2. topic' = [topic EXCEPT ![t] = v]
    BY <1>8
  <2> HIDE DEF v
  <2>3. TopicSound(v) /\ Later(topic[t], v)
    BY <1>0, <1>2, <1>3, <1>4, <2>1, LoadingAssumption DEF TopicSound, Later
  <2>4. /\ topic' \in [Topics -> Topic] /\ topic'[t] = v
        /\ \A u \in Topics \ {t} : topic'[u] = topic[u]
        /\ \A u \in Topics : TopicSound(topic'[u])
        /\ \A r \in DOMAIN reader : View(reader[r], topic'[r[2]])
    BY <1>0, <2>1, <2>2, <2>3, TopicChanges
  <2>5. UNCHANGED <<at, path, Live>>
    BY <1>1, <1>8 DEF Proceed, Live
  <2>6. LoadTypes'
    BY <1>0, <1>1, <2>4, <2>5 DEF LoadTypes
  <2>7. BusSound'
    BY <1>1, <2>4 DEF BusSound
  <2>8. Counted'
    BY <1>0, <1>1, <2>5 DEF Counted
  <2>9. Owned'
    BY <1>0, <1>1, <1>3, <2>1, <2>4, <2>5 DEF Owned, Lossless
  <2> QED BY <2>6, <2>7, <2>8, <2>9 DEF LoadInv
<1> QED BY <1>5, <1>6, <1>7, <1>8

LEMMA ReaderStep ==
  ASSUME LoadInv, NEW t \in Topics, NEW ty \in Types, CreateReader(t, ty)
  PROVE  LoadInv'
<1>0. LoadTypes /\ BusSound /\ Counted /\ Owned /\ path \in Nat \ {0}
  BY DEF LoadInv, LoadTypes
<1>1. at = "construct" /\ UNCHANGED <<strict, total, loaded>>
  BY DEF CreateReader, Constructing
<1> DEFINE tp == Required(t, ty)
           me == <<path, t>>
           rd == NewReader(ty)
<1>2. /\ tp \in Topic /\ tp.type \in Types
      /\ tp.type = topic[t].type \/ topic[t].type = NoType
      /\ tp.owner = topic[t].owner /\ tp.seq = topic[t].seq /\ tp.by = topic[t].by
  BY <1>0, TopicRequired
<1>3. \/ NextPath /\ UNCHANGED bus
      \/ /\ tp.type = ty /\ Proceed /\ topic' = [topic EXCEPT ![t] = tp]
         /\ reader' = [r \in DOMAIN reader \cup {me} |-> IF r = me THEN rd ELSE reader[r]]
  BY DEF CreateReader
<1>4. /\ rd \in Reader /\ rd.type = ty /\ rd.last = 0 /\ rd.got = <<0, 0>> /\ rd.fetched = <<>>
      /\ me \in Nat \X Topics /\ me[2] = t
  BY <1>0 DEF NewReader, Reader
<1>5. topic[t] \in Topic /\ TopicSound(topic[t]) /\ topic[t].seq \in Nat
  BY <1>0 DEF LoadTypes, BusSound, Topic
<1> HIDE DEF tp, me, rd
<1>6. CASE NextPath /\ UNCHANGED bus
  BY <1>0, <1>1, <1>6, BusKept, GivenUp DEF LoadInv, LoadTypes
<1>7. CASE /\ tp.type = ty /\ Proceed /\ topic' = [topic EXCEPT ![t] = tp]
           /\ reader' = [r \in DOMAIN reader \cup {me} |-> IF r = me THEN rd ELSE reader[r]]
  <2>1. TopicSound(tp) /\ Later(topic[t], tp)
    BY <1>2, <1>5, LoadingAssumption DEF TopicSound, Later
  <2>2. /\ topic' \in [Topics -> Topic] /\ topic'[t] = tp
        /\ \A u \in Topics \ {t} : topic'[u] = topic[u]
        /\ \A u \in Topics : TopicSound(topic'[u])
        /\ \A r \in DOMAIN reader : View(reader[r], topic'[r[2]])
    BY <1>0, <1>2, <1>7, <2>1, TopicChanges
  <2>3. /\ DOMAIN reader' = DOMAIN reader \cup {me} /\ reader'[me] = rd
        /\ \A r \in DOMAIN reader \ {me} : reader'[r] = reader[r]
    BY <1>7
  <2>4. DOMAIN reader' \subseteq Nat \X Topics /\ reader' \in [DOMAIN reader' -> Reader]
    BY <1>0, <1>4, <1>7, <2>3 DEF LoadTypes
  <2>5. View(rd, tp)
    BY <1>2, <1>4, <1>5, <1>7, <2>1 DEF View, TopicSound
  <2>6. BusSound'
    BY <1>4, <2>2, <2>3, <2>5 DEF BusSound
  <2>7. UNCHANGED <<at, path, Live>>
    BY <1>1, <1>7 DEF Proceed, Live
  <2>8. LoadTypes'
    BY <1>0, <1>1, <2>2, <2>4, <2>7 DEF LoadTypes
  <2>9. Counted'
    BY <1>0, <1>1, <2>7 DEF Counted
  <2>10. Owned'
    BY <1>0, <1>1, <1>2, <2>2, <2>7 DEF Owned, Lossless
  <2> QED BY <2>6, <2>8, <2>9, <2>10 DEF LoadInv
<1> QED BY <1>3, <1>6, <1>7

(* The controllers' threads on the bus.                                     *)
LEMMA WriteStep ==
  ASSUME LoadInv, NEW c \in Live, NEW t \in Topics, Write(c, t)
  PROVE  LoadInv'
<1>0. LoadTypes /\ BusSound /\ Counted /\ Owned
  BY DEF LoadInv
<1>1. /\ at = "run" /\ topic[t].owner = c /\ topic' = [topic EXCEPT ![t] = SetVal(topic[t], c)]
      /\ UNCHANGED <<strict, total, at, path, reader, loaded, Live>>
  BY DEF Write, Live
<1>2. topic[t] \in Topic /\ c \in Nat \ {0} /\ TopicSound(topic[t]) /\ topic[t].seq \in Nat
  <2>1. c \in Nat \ {0}
    BY <1>0 DEF LoadTypes, Live
  <2> QED BY <1>0, <2>1 DEF LoadTypes, Topic, BusSound
<1>3. PICK w : w = SetVal(topic[t], c)
  OBVIOUS
<1>4. /\ w \in Topic /\ w.type = topic[t].type /\ w.owner = c /\ w.seq = topic[t].seq + 1
      /\ w.by = c
  <2>1. PICK tp \in Topic : tp = topic[t]
    BY <1>2
  <2>2. c \in Nat /\ tp.owner = c /\ w = SetVal(tp, c)
    BY <1>1, <1>2, <1>3, <2>1
  <2>3. w \in Topic /\ w.type = tp.type /\ w.owner = tp.owner /\ w.seq = tp.seq + 1 /\ w.by = c
    BY <2>2, TopicWritten
  <2> QED BY <2>1, <2>2, <2>3
<1>5. TopicSound(w) /\ Later(topic[t], w)
  <2>1. topic[t].type = NoType => c = 0 /\ topic[t].by = 0
    BY <1>1, <1>2 DEF TopicSound, NoTopic
  <2>2. topic[t].type # NoType
    BY <1>2, <2>1
  <2> QED BY <1>2, <1>4, <2>2 DEF TopicSound, Later
<1>6. /\ topic' \in [Topics -> Topic] /\ topic'[t] = w
      /\ \A u \in Topics \ {t} : topic'[u] = topic[u]
      /\ \A u \in Topics : TopicSound(topic'[u])
      /\ \A r \in DOMAIN reader : View(reader[r], topic'[r[2]])
  BY <1>0, <1>1, <1>3, <1>4, <1>5, TopicChanges
<1>7. LoadTypes' /\ BusSound'
  BY <1>0, <1>1, <1>6 DEF LoadTypes, BusSound
<1>8. Counted'
  BY <1>0, <1>1, <1>4, <1>6 DEF Counted, Lossless
<1>9. Owned'
  BY <1>0, <1>1, <1>4, <1>6 DEF Owned, Lossless
<1> QED BY <1>7, <1>8, <1>9 DEF LoadInv

LEMMA ReadStep ==
  ASSUME LoadInv, NEW c \in Live, NEW t \in Topics, Fetch(c, t) \/ Unpack(c, t)
  PROVE  LoadInv'
<1>0. LoadTypes /\ BusSound /\ Counted /\ Owned
  BY DEF LoadInv
<1> DEFINE me == <<c, t>>
<1>1. /\ me \in DOMAIN reader /\ me[2] = t
      /\ UNCHANGED <<strict, total, at, path, topic, loaded, Live>>
  BY DEF Fetch, Unpack, Live
<1>2. \/ /\ reader[me].fetched = <<>>
         /\ reader' = [reader EXCEPT ![me].fetched = <<topic[t].by, topic[t].seq>>]
      \/ /\ reader[me].fetched # <<>>
         /\ reader' = [reader EXCEPT ![me].got = reader[me].fetched,
                                     ![me].last = reader[me].fetched[2], ![me].fetched = <<>>]
  BY DEF Fetch, Unpack
<1> HIDE DEF me
<1>3. PICK rd \in Reader : rd = reader[me] /\ View(rd, topic[t])
  BY <1>0, <1>1 DEF LoadTypes, BusSound
<1>4. topic[t].by \in Nat /\ topic[t].seq \in Nat
  BY <1>0 DEF LoadTypes, Topic
<1>5. PICK rr \in Reader : View(rr, topic[t]) /\ reader' = [reader EXCEPT ![me] = rr]
  <2>1. CASE /\ rd.fetched = <<>>
             /\ reader' = [reader EXCEPT ![me].fetched = <<topic[t].by, topic[t].seq>>]
    <3>1. PICK p \in Nat \X Nat : p = <<topic[t].by, topic[t].seq>>
      BY <1>4
    <3>2. PICK rr : rr = [rd EXCEPT !.fetched = p]
      OBVIOUS
    <3>3. /\ rr \in Reader /\ rr.type = rd.type /\ rr.last = rd.last /\ rr.got = rd.got
          /\ rr.fetched = p
      BY <3>1, <3>2 DEF Reader
    <3>4. View(rr, topic[t])
      BY <1>3, <1>4, <3>1, <3>3 DEF View
    <3>5. reader' = [reader EXCEPT ![me] = rr]
      BY <1>3, <2>1, <3>1, <3>2
    <3> QED BY <3>3, <3>4, <3>5
  <2>2. CASE /\ rd.fetched # <<>>
             /\ reader' = [reader EXCEPT ![me].got = reader[me].fetched,
                                         ![me].last = reader[me].fetched[2], ![me].fetched = <<>>]
    <3>1. PICK p \in Nat \X Nat : p = rd.fetched
      BY <2>2 DEF Reader
    <3>2. PICK n \in Nat : n = p[2]
      BY <3>1
    <3>3. PICK rr : rr = [rd EXCEPT !.got = p, !.last = n, !.fetched = <<>>]
      OBVIOUS
    <3>4. /\ rr \in Reader /\ rr.type = rd.type /\ rr.last = n /\ rr.got = p /\ rr.fetched = <<>>
      BY <3>1, <3>2, <3>3 DEF Reader
    <3>5. View(rr, topic[t])
      BY <1>3, <1>4, <2>2, <3>1, <3>2, <3>4 DEF View
    <3>6. reader' = [reader EXCEPT ![me] = rr]
      BY <1>3, <2>2, <3>1, <3>2, <3>3
    <3> QED BY <3>4, <3>5, <3>6
  <2> QED BY <1>2, <1>3, <2>1, <2>2
<1>6. /\ DOMAIN reader' = DOMAIN reader /\ reader'[me] = rr /\ reader' \in [DOMAIN reader -> Reader]
      /\ \A r \in DOMAIN reader \ {me} : reader'[r] = reader[r]
  BY <1>0, <1>1, <1>5 DEF LoadTypes
<1>7. LoadTypes'
  BY <1>0, <1>1, <1>6 DEF LoadTypes
<1>8. BusSound'
  BY <1>0, <1>1, <1>5, <1>6 DEF BusSound
<1>9. Counted' /\ Owned'
  BY <1>0, <1>1 DEF Counted, Owned, Lossless
<1> QED BY <1>7, <1>8, <1>9 DEF LoadInv

LEMMA LoadStep == LoadInv /\ [LoadNext]_loadVars => LoadInv'
<1> SUFFICES ASSUME LoadInv, [LoadNext]_loadVars PROVE LoadInv'
  OBVIOUS
<1>0. /\ LoadTypes /\ BusSound /\ Counted /\ Owned
      /\ path \in Nat \ {0} /\ total \in Nat /\ loaded \in Seq(Nat \ {0}) /\ Len(loaded) \in Nat
  BY DEF LoadInv, LoadTypes
<1>1. ASSUME UNCHANGED <<bus, strict, total, path, loaded>>,
             at' \in {"config", "import", "construct", "run"} \cup Exits,
             at = "construct" => at' = at,
             at' = "construct" => path <= total,
             at' = "run" => at = "run" \/ (~FinalizeFails /\ (strict => Lossless))
      PROVE  LoadInv'
  <2>1. LoadTypes' /\ BusSound'
    BY <1>0, <1>1, BusKept DEF LoadTypes
  <2>2. UNCHANGED <<topic, Live>> /\ (Lossless' <=> Lossless)
    BY <1>1 DEF bus, Live, Lossless
  <2>3. Counted'
    BY <1>0, <1>1, <2>2 DEF Counted, FinalizeFails
  <2>4. Owned'
    BY <1>0, <1>1, <2>2 DEF Owned
  <2> QED BY <2>1, <2>3, <2>4 DEF LoadInv
<1>2. CASE ReadConfig
  BY <1>1, <1>2 DEF ReadConfig, Exits, ConfigErrors
<1>3. CASE ImportClass
  <2>1. CASE at' = "construct" /\ path' = path
    BY <1>1, <1>3, <2>1 DEF ImportClass
  <2>2. CASE at' = "import" /\ path' = path + 1
    <3>1. UNCHANGED <<bus, strict, total, loaded>> /\ path <= total
      BY <1>3 DEF ImportClass
    <3>2. LoadTypes' /\ BusSound'
      BY <1>0, <2>2, <3>1, BusKept DEF LoadTypes
    <3>3. ~Lossless'
      BY <1>0, <2>2, <3>1 DEF Counted, Lossless
    <3>4. Counted' /\ Owned'
      BY <1>0, <2>2, <3>1, <3>3 DEF Counted, Owned
    <3> QED BY <3>2, <3>4 DEF LoadInv
  <2> QED BY <1>3, <2>1, <2>2 DEF ImportClass
<1>4. CASE ConstructorRaises
  <2>1. at = "construct" /\ NextPath /\ UNCHANGED <<strict, total, bus, loaded>>
    BY <1>4 DEF ConstructorRaises
  <2> QED BY <1>0, <2>1, BusKept, GivenUp DEF LoadInv, LoadTypes
<1>5. CASE ConstructorReturns
  <2>1. /\ at = "construct" /\ at' = "import" /\ path' = path + 1
        /\ loaded' = Append(loaded, path) /\ UNCHANGED <<strict, total, bus, topic>>
    BY <1>5 DEF ConstructorReturns, NextPath, bus
  <2>2. /\ loaded' \in Seq(Nat \ {0}) /\ Len(loaded') = Len(loaded) + 1
        /\ DOMAIN loaded = 1 .. Len(loaded) /\ DOMAIN loaded' = 1 .. Len(loaded) + 1
        /\ (\A i \in DOMAIN loaded : loaded'[i] = loaded[i]) /\ loaded'[Len(loaded) + 1] = path
    BY <1>0, <2>1
  <2>3. Live \cup {path} \subseteq Live'
    <3>1. Len(loaded) + 1 \in DOMAIN loaded' /\ DOMAIN loaded \subseteq DOMAIN loaded'
      BY <1>0, <2>2
    <3> QED BY <2>2, <3>1 DEF Live
  <2>4. LoadTypes' /\ BusSound'
    BY <1>0, <2>1, <2>2, BusKept DEF LoadTypes
  <2>5. Lossless' => Lossless
    BY <1>0, <2>1, <2>2 DEF Lossless
  <2>6. Counted'
    BY <1>0, <2>1, <2>2 DEF Counted
  <2>7. Owned'
    BY <1>0, <2>1, <2>3, <2>5 DEF Owned
  <2> QED BY <2>4, <2>6, <2>7 DEF LoadInv
<1>6. CASE Assemble
  <2>1. /\ at = "import" /\ path > total /\ at' = Verdict
        /\ UNCHANGED <<bus, strict, total, path, loaded>>
    BY <1>6 DEF Assemble
  <2>2. at' \in {"run"} \cup Exits
    BY <2>1 DEF Verdict, Exits
  <2>3. at' = "run" => ~FinalizeFails /\ (strict => Len(loaded) = total)
    BY <2>1 DEF Verdict
  <2>4. path = total + 1
    BY <1>0, <2>1 DEF Counted
  <2>5. Len(loaded) = total => Lossless
    BY <1>0, <2>4 DEF Lossless
  <2>6. at' # "construct"
    BY <2>2 DEF Exits, ConfigErrors
  <2> QED BY <1>1, <2>1, <2>2, <2>3, <2>5, <2>6
<1>7. ASSUME NEW k \in Keys, Dispatch(k) PROVE LoadInv'
  BY <1>0, <1>1, <1>7 DEF Dispatch, LoadTypes
<1>8. CASE UNCHANGED loadVars
  <2>1. UNCHANGED <<bus, strict, total, path, loaded, at>>
    BY <1>8 DEF loadVars, bus
  <2> QED BY <1>0, <1>1, <2>1 DEF LoadTypes, Counted
<1> QED
  BY <1>2, <1>3, <1>4, <1>5, <1>6, <1>7, <1>8, WriterStep, ReaderStep, WriteStep, ReadStep
     DEF LoadNext

(* A process that runs has a sound bus, for any number of controllers and   *)
(* topics and whatever their constructors do before they fail: finalize()   *)
(* and the judgement of losses (entrypoint.main) let nothing else through.  *)
THEOREM TopologyIsSound == LoadSpec => []Topology
<1>1. LoadInv => Topology
  <2> SUFFICES ASSUME LoadInv, at = "run" PROVE Topology
    BY DEF Topology
  <2>1. LoadTypes /\ BusSound /\ Counted /\ Owned
    BY DEF LoadInv
  <2>2. ASSUME NEW t \in Topics, topic[t].type # NoType
        PROVE  topic[t].owner # 0 /\ topic[t].seq > 0
               /\ (strict => topic[t].owner \in Live /\ topic[t].by = topic[t].owner)
    <3>1. topic[t].owner # 0 /\ TopicSound(topic[t])
      BY <2>1, <2>2 DEF Counted, BusSound
    <3>2. strict => Lossless
      BY <2>1 DEF Counted
    <3> QED BY <2>1, <3>1, <3>2 DEF Owned, TopicSound
  <2>3. \A r \in DOMAIN reader : reader[r].type = topic[r[2]].type
    BY <2>1 DEF BusSound, View
  <2> QED BY <2>2, <2>3 DEF Topology
<1> QED BY <1>1, LoadInitInv, LoadStep, PTL DEF LoadSpec

(* A reader that is told there is nothing new has the present value of the  *)
(* topic, for any number of writes between the two steps of a read          *)
(* (DatabusTopic.set_val, DataReader.has_update and read).                  *)
THEOREM ReaderIsCurrent == LoadSpec => []ReaderCurrent
<1>1. LoadInv => ReaderCurrent
  <2> SUFFICES ASSUME LoadInv, NEW r \in DOMAIN reader, ~HasUpdate(r[1], r[2])
               PROVE  reader[r].got = <<topic[r[2]].by, topic[r[2]].seq>>
    BY DEF ReaderCurrent
  <2>1. r = <<r[1], r[2]>> /\ r[2] \in Topics
    BY DEF LoadInv, LoadTypes
  <2>2. ~(topic[r[2]].seq > reader[r].last)
    BY <2>1 DEF HasUpdate
  <2>3. View(reader[r], topic[r[2]]) /\ reader[r].last \in Nat /\ topic[r[2]].seq \in Nat
    BY <2>1 DEF LoadInv, LoadTypes, BusSound, Reader, Topic
  <2> QED BY <2>2, <2>3 DEF View
<1> QED BY <1>1, LoadInitInv, LoadStep, PTL DEF LoadSpec

-----------------------------------------------------------------------------
(* The dispatcher's routes.                                                 *)

(* A path is loaded once: those loaded are behind the loader.               *)
OnceLoaded ==
  /\ \A i \in DOMAIN loaded : loaded[i] < path
  /\ \A i, j \in DOMAIN loaded : loaded[i] = loaded[j] => i = j

(* Nothing is dispatched before the handlers are there, and then they are   *)
(* those of the controllers that were loaded.                               *)
Wired ==
  IF at = "run" THEN handlers = [k \in Keys |-> Bucket(k)]
  ELSE sent = <<>> /\ queue = InputQueues

RouteTypes == sent \in Seq(Keys) /\ queue \in [Paths -> Seq(Nat)]

RouteInv == LoadInv /\ OnceLoaded /\ Wired /\ RouteTypes /\ Routed

LEMMA RouteInitInv == LoadInit => RouteInv
<1> SUFFICES ASSUME LoadInit PROVE RouteInv
  OBVIOUS
<1>1. OnceLoaded /\ Wired /\ RouteTypes /\ Routed
  BY DEF LoadInit, OnceLoaded, Wired, RouteTypes, Routed, InputQueues
<1> QED BY <1>1, LoadInitInv DEF RouteInv

(* What a dispatched command adds to a queue: once, or not at all.          *)
LEMMA Put ==
  ASSUME NEW q \in Seq(Nat), NEW m \in Nat, NEW num \in {0, 1}, NEW w,
         w = q \o [i \in 1 .. num |-> m]
  PROVE  /\ num = 0 => w = q
         /\ num = 1 => /\ w \in Seq(Nat) /\ Len(w) = Len(q) + 1 /\ w[Len(q) + 1] = m
                       /\ \A i \in 1 .. Len(q) : w[i] = q[i]
<1> DEFINE e == [i \in 1 .. num |-> m]
<1>1. e \in Seq(Nat) /\ Len(e) = num /\ \A i \in 1 .. num : e[i] = m
  OBVIOUS
<1>2. w = q \o e
  OBVIOUS
<1> HIDE DEF e
<1>3. /\ w \in Seq(Nat) /\ Len(w) = Len(q) + num
      /\ \A i \in 1 .. Len(q) : w[i] = q[i]
  BY <1>1, <1>2
<1>4. num = 1 => w[Len(q) + 1] = m
  BY <1>1, <1>2
<1>5. num = 0 => w = q
  BY <1>3
<1> QED BY <1>3, <1>4, <1>5

(* A bucket holds each loop that is fed exactly once.                       *)
LEMMA FedOnce ==
  ASSUME OnceLoaded, NEW k, NEW c \in Paths, NEW num,
         num = Cardinality({j \in DOMAIN Bucket(k) : Bucket(k)[j] = c})
  PROVE  num = IF c \in Live /\ k \in Group[c] THEN 1 ELSE 0
<1> DEFINE J == {j \in DOMAIN Bucket(k) : Bucket(k)[j] = c}
<1>1. J = {j \in DOMAIN loaded : k \in Group[c] /\ loaded[j] = c}
  BY DEF Bucket
<1>2. CASE c \in Live /\ k \in Group[c]
  <2>1. PICK j \in DOMAIN loaded : loaded[j] = c
    BY <1>2 DEF Live
  <2>2. J = {j}
    BY <1>1, <1>2, <2>1 DEF OnceLoaded
  <2>3. num = 1
    BY <2>2, FS_Singleton
  <2> QED BY <1>2, <2>3
<1>3. CASE ~(c \in Live /\ k \in Group[c])
  <2>1. J = {}
    BY <1>1, <1>3 DEF Live
  <2>2. num = 0
    BY <2>1, FS_EmptySet
  <2> QED BY <1>3, <2>2
<1> QED BY <1>2, <1>3

(* A dispatched command is put once in the queue of each subscriber, behind *)
(* all that were dispatched before.                                         *)
LEMMA DispatchRouted ==
  ASSUME RouteInv, NEW k \in Keys, Dispatch(k) PROVE RouteTypes' /\ Routed'
<1> DEFINE m == Len(sent) + 1
           num(c) == Cardinality({j \in DOMAIN Bucket(k) : Bucket(k)[j] = c})
           Due(c) == c \in Live /\ k \in Group[c]
<1>1. /\ at = "run" /\ at' = "run" /\ sent' = Append(sent, k) /\ loaded' = loaded
      /\ handlers[k] = Bucket(k) /\ sent \in Seq(Keys) /\ queue \in [Paths -> Seq(Nat)]
  BY DEF Dispatch, RouteInv, RouteTypes, Wired
<1>2. /\ sent' \in Seq(Keys) /\ Len(sent') = m /\ m \in Nat /\ DOMAIN sent = 1 .. m - 1
      /\ DOMAIN sent' = 1 .. m /\ sent'[m] = k /\ \A j \in 1 .. m - 1 : sent'[j] = sent[j]
  BY <1>1
<1>3. queue' = [c \in Paths |-> queue[c] \o [i \in 1 .. num(c) |-> m]]
  BY <1>1, <1>2 DEF Dispatch
<1>4. Live' = Live
  BY <1>1 DEF Live
<1> HIDE DEF m
<1>5. ASSUME NEW c \in Paths
      PROVE  /\ ~Due(c) => queue'[c] = queue[c]
             /\ Due(c) => /\ queue'[c] \in Seq(Nat) /\ Len(queue'[c]) = Len(queue[c]) + 1
                          /\ queue'[c][Len(queue[c]) + 1] = m
                          /\ \A i \in 1 .. Len(queue[c]) : queue'[c][i] = queue[c][i]
  <2>1. num(c) = IF Due(c) THEN 1 ELSE 0
    BY FedOnce DEF RouteInv
  <2>2. queue'[c] = queue[c] \o [i \in 1 .. num(c) |-> m] /\ queue[c] \in Seq(Nat)
    BY <1>1, <1>3
  <2> HIDE DEF num
  <2>3. num(c) \in {0, 1}
    BY <2>1
  <2>4. /\ num(c) = 0 => queue'[c] = queue[c]
        /\ num(c) = 1 => /\ queue'[c] \in Seq(Nat) /\ Len(queue'[c]) = Len(queue[c]) + 1
                         /\ queue'[c][Len(queue[c]) + 1] = m
                         /\ \A i \in 1 .. Len(queue[c]) : queue'[c][i] = queue[c][i]
    BY <1>2, <2>2, <2>3, Put
  <2> QED BY <2>1, <2>4
<1>6. RouteTypes'
  <2>1. ASSUME NEW c \in Paths PROVE queue'[c] \in Seq(Nat)
    BY <1>1, <1>5
  <2>2. queue' \in [Paths -> Seq(Nat)]
    BY <1>3, <2>1
  <2> QED BY <1>2, <2>2 DEF RouteTypes
<1>7. ASSUME NEW c \in Paths
      PROVE  /\ {queue'[c][i] : i \in DOMAIN queue'[c]} =
                  {j \in DOMAIN sent' : c \in Live /\ sent'[j] \in Group[c]}
             /\ \A i, j \in DOMAIN queue'[c] : i < j => queue'[c][i] < queue'[c][j]
  <2> DEFINE q == queue[c]
             w == queue'[c]
  <2>1. /\ {q[i] : i \in DOMAIN q} = {j \in DOMAIN sent : c \in Live /\ sent[j] \in Group[c]}
        /\ \A i, j \in DOMAIN q : i < j => q[i] < q[j]
    BY <1>1 DEF RouteInv, Routed
  <2>2. q \in Seq(Nat) /\ DOMAIN q = 1 .. Len(q) /\ Len(q) \in Nat
    BY <1>1
  <2>3. \A i \in DOMAIN q : q[i] < m
    BY <1>2, <2>1
  <2>4. CASE ~Due(c)
    <3>1. w = q
      BY <1>5, <2>4
    <3>2. {j \in DOMAIN sent' : c \in Live /\ sent'[j] \in Group[c]} =
            {j \in DOMAIN sent : c \in Live /\ sent[j] \in Group[c]}
      BY <1>2, <2>4
    <3> QED BY <2>1, <3>1, <3>2
  <2>5. CASE Due(c)
    <3>1. /\ w \in Seq(Nat) /\ DOMAIN w = 1 .. Len(q) + 1 /\ w[Len(q) + 1] = m
          /\ \A i \in 1 .. Len(q) : w[i] = q[i]
      BY <1>5, <2>5
    <3> HIDE DEF w, q
    <3>2. {w[i] : i \in DOMAIN w} = {q[i] : i \in DOMAIN q} \cup {m}
      BY <2>2, <3>1
    <3>3. {j \in DOMAIN sent' : c \in Live /\ sent'[j] \in Group[c]} =
            {j \in DOMAIN sent : c \in Live /\ sent[j] \in Group[c]} \cup {m}
      <4>1. \A j : j \in DOMAIN sent' <=> j \in DOMAIN sent \/ j = m
        BY <1>1, <1>2 DEF m
      <4>2. \A j \in DOMAIN sent : sent'[j] = sent[j]
        BY <1>2
      <4> QED BY <1>2, <2>5, <4>1, <4>2
    <3>4. \A i, j \in DOMAIN w : i < j => w[i] < w[j]
      <4> SUFFICES ASSUME NEW i \in DOMAIN w, NEW j \in DOMAIN w, i < j PROVE w[i] < w[j]
        OBVIOUS
      <4>1. i \in DOMAIN q
        BY <2>2, <3>1
      <4>2. CASE j = Len(q) + 1
        BY <2>2, <2>3, <3>1, <4>1, <4>2
      <4>3. CASE j # Len(q) + 1
        <5>1. j \in DOMAIN q
          BY <2>2, <3>1, <4>3
        <5> QED BY <2>1, <2>2, <3>1, <4>1, <5>1
      <4> QED BY <4>2, <4>3
    <3> QED BY <2>1, <3>2, <3>3, <3>4 DEF w
  <2> QED BY <2>4, <2>5
<1>8. Routed'
  BY <1>4, <1>7 DEF Routed
<1> QED BY <1>6, <1>8

(* Every step of the loader and of the process keeps the routes.            *)
LEMMA RouteStep == RouteInv /\ [LoadNext]_loadVars => RouteInv'
<1> SUFFICES ASSUME RouteInv, [LoadNext]_loadVars PROVE RouteInv'
  OBVIOUS
<1>1. LoadInv /\ LoadInv' /\ LoadTypes
  BY LoadStep DEF RouteInv, LoadInv
<1>2. path \in Nat \ {0} /\ loaded \in Seq(Nat \ {0})
  BY <1>1 DEF LoadTypes
<1>3. ASSUME at = "run", UNCHANGED <<at, path, loaded, handlers>> PROVE OnceLoaded' /\ Wired'
  <2>1. OnceLoaded'
    BY <1>3 DEF RouteInv, OnceLoaded
  <2>2. handlers = [k \in Keys |-> Bucket(k)]
    BY <1>3 DEF RouteInv, Wired
  <2>3. \A k \in Keys : Bucket(k)' = Bucket(k)
    BY <1>3 DEF Bucket
  <2> QED BY <1>3, <2>1, <2>2, <2>3 DEF Wired
<1>4. ASSUME NEW k \in Keys, Dispatch(k) PROVE RouteInv'
  <2>1. at = "run" /\ UNCHANGED <<at, path, loaded, handlers>>
    BY <1>4 DEF Dispatch
  <2>2. OnceLoaded' /\ Wired'
    BY <2>1, <1>3 DEF RouteInv
  <2> QED BY <1>1, <1>4, <2>2, DispatchRouted DEF RouteInv
<1>5. CASE Assemble
  <2>1. /\ at = "import" /\ UNCHANGED <<path, loaded, sent, queue>>
        /\ at' = "run" => handlers' = [k \in Keys |-> Bucket(k)]
    BY <1>5 DEF Assemble
  <2>2. sent = <<>> /\ queue = InputQueues
    BY <2>1 DEF RouteInv, Wired
  <2>3. OnceLoaded' /\ RouteTypes'
    BY <2>1 DEF RouteInv, OnceLoaded, RouteTypes
  <2>4. Wired'
    BY <2>1, <2>2 DEF Wired, Bucket, InputQueues
  <2>5. Routed'
    BY <2>1, <2>2 DEF Routed, InputQueues
  <2> QED BY <1>1, <2>3, <2>4, <2>5 DEF RouteInv
<1>6. ASSUME UNCHANGED routing, at # "run", at' # "run",
             OnceLoaded'
      PROVE  RouteInv'
  <2>1. Wired' /\ RouteTypes' /\ Routed'
    BY <1>6 DEF RouteInv, Wired, RouteTypes, Routed, routing, InputQueues
  <2> QED BY <1>1, <1>6, <2>1 DEF RouteInv
<1>7. ASSUME UNCHANGED loaded, path' >= path, path' \in Nat PROVE OnceLoaded'
  BY <1>2, <1>7 DEF RouteInv, OnceLoaded
<1>8. CASE ConstructorReturns
  <2>1. /\ at = "construct" /\ at' = "import" /\ path' = path + 1
        /\ loaded' = Append(loaded, path) /\ UNCHANGED routing
    BY <1>8 DEF ConstructorReturns, NextPath
  <2>2. /\ DOMAIN loaded = 1 .. Len(loaded) /\ DOMAIN loaded' = 1 .. Len(loaded) + 1
        /\ (\A i \in DOMAIN loaded : loaded'[i] = loaded[i]) /\ loaded'[Len(loaded) + 1] = path
        /\ Len(loaded) \in Nat /\ \A i \in DOMAIN loaded : loaded[i] \in Nat
    BY <1>2, <2>1
  <2>3. \A i \in DOMAIN loaded' : i \in DOMAIN loaded \/ i = Len(loaded) + 1
    BY <2>2
  <2>4. OnceLoaded'
    BY <1>2, <2>1, <2>2, <2>3 DEF RouteInv, OnceLoaded
  <2> QED BY <1>6, <2>1, <2>4
<1>9. CASE ReadConfig \/ ImportClass \/ ConstructorRaises
           \/ \E t \in Topics, ty \in Types : CreateWriter(t, ty) \/ CreateReader(t, ty)
  <2>1. UNCHANGED loaded /\ UNCHANGED routing /\ at # "run" /\ at' # "run"
    BY <1>9 DEF ReadConfig, ConfigErrors, ImportClass, ConstructorRaises, CreateWriter, CreateReader,
                NextPath, Proceed, Constructing
  <2>2. path' \in {path, path + 1}
    BY <1>9 DEF ReadConfig, ImportClass, ConstructorRaises, CreateWriter, CreateReader,
                NextPath, Proceed
  <2> QED BY <1>2, <1>6, <1>7, <2>1, <2>2
<1>10. CASE \/ \E c \in Live, t \in Topics : Write(c, t) \/ Fetch(c, t) \/ Unpack(c, t)
           \/ UNCHANGED loadVars
  <2>1. UNCHANGED <<at, path, loaded, handlers, sent, queue>>
    BY <1>10 DEF Write, Fetch, Unpack, loadVars, routing
  <2>2. RouteTypes' /\ Routed'
    <3>1. RouteTypes'
      BY <2>1 DEF RouteInv, RouteTypes
    <3>2. Live' = Live
      BY <2>1 DEF Live
    <3>3. Routed'
      BY <2>1, <3>2 DEF RouteInv, Routed
    <3> QED BY <3>1, <3>3
  <2>3. CASE at = "run"
    BY <1>1, <1>3, <2>1, <2>2, <2>3 DEF RouteInv
  <2>4. CASE at # "run"
    <3>1. OnceLoaded'
      BY <2>1 DEF RouteInv, OnceLoaded
    <3>2. Wired'
      BY <2>1, <2>4 DEF RouteInv, Wired, InputQueues
    <3> QED BY <1>1, <2>2, <3>1, <3>2 DEF RouteInv
  <2> QED BY <2>3, <2>4
<1> QED BY <1>4, <1>5, <1>8, <1>9, <1>10 DEF LoadNext

(* Every command reaches the loaded controllers that subscribed to it, once *)
(* and in order, and no other queue, for any controllers, groups and number *)
(* of commands (entrypoint.main, Dispatcher.add_handler, dispatch).         *)
THEOREM CommandsAreRouted == LoadSpec => []Routed
<1>1. RouteInv => Routed
  BY DEF RouteInv
<1> QED BY <1>1, RouteInitInv, RouteStep, PTL DEF LoadSpec
=============================================================================
