----------------------------- MODULE SessionProofs -----------------------------
(***************************************************************************)
(* Theorems about SessionManager and about SessionSystem, which composes   *)
(* it with the alert table and the state machine, for any number of        *)
(* requests.                                                               *)
(*                                                                         *)
(* Why a late or overlapping DEACTIVATE never disarms a running session:   *)
(* a session holds the hardware from the answer to its ACTIVATE until its  *)
(* own DEACTIVATE is served.  An ACTIVATE succeeds only when nobody holds  *)
(* the hardware, so there is one holder at most, and only a holder's       *)
(* DEACTIVATE is ever in the queue.                                        *)
(*                                                                         *)
(* Why the machine does not stay behind: whatever brought it to CONNECTING *)
(* or to ACTIVE has yet to end, or the alert of its end is on the way,     *)
(* behind the one that began it.                                           *)
(***************************************************************************)
EXTENDS SessionSystem, TLAPS

(* The handler is at work on a request.                                     *)
AtWork == req # "idle" => served # 0
TypeInv == SMTypeOK /\ AtWork

Deactivate(s) == [kind |-> "DEACTIVATE", by |-> s]
Queued(s) == \E i \in 1 .. Len(calls) : calls[i] = Deactivate(s)

Holds(s) ==
  \/ Live(s) \/ clean[s] = "queued" \/ Queued(s)
  \/ req = "activating" /\ served = s /\ reply["ACTIVATE"][s] = "ok"

OneHolder == \A s, u \in Sessions : Holds(s) /\ Holds(u) => s = u
HolderArmed == \A s \in Sessions : Holds(s) => hw = "active"

(* Sessions come to life in the order of the requests, and are cleaned up   *)
(* after their thread has ended.                                            *)
InTurn ==
  /\ req = "activating" => thr[served] = "none"
  /\ req \in {"joining", "assigning"} => thr[served] # "none"
  /\ \A s \in Sessions : (thr[s] # "none" => s <= served) /\ (clean[s] # "none" => thr[s] = "dead")

(* A session's DEACTIVATE is sent once, by its clean up.                    *)
SentOnce ==
  /\ \A s \in Sessions : Queued(s) => clean[s] \in {"deactivating", "done"}
  /\ \A s \in Sessions : \A i, j \in 1 .. Len(calls) :
       calls[i] = Deactivate(s) /\ calls[j] = Deactivate(s) => i = j

HolderInv == TypeInv /\ InTurn /\ SentOnce /\ OneHolder /\ HolderArmed

-----------------------------------------------------------------------------
(* Types.                                                                   *)

Call == [kind : Kinds, by : Sessions]

(* The alerts that are raised are alerts of the session manager.            *)
LEMMA AlertTypes ==
  /\ REQUEST \in SessionAlerts /\ CREATED \in SessionAlerts /\ CLOSED \in SessionAlerts
  /\ \A why \in Reasons : FAILED(why) \in SessionAlerts
<1>1. ASSUME NEW why \in Reasons PROVE FAILED(why) \in SessionAlerts
  BY DEF FAILED, SessionAlerts
<1> QED BY <1>1 DEF SessionAlerts

(* What sending a lifecycle request does to the queue and the answers.      *)
LEMMA SendTypes ==
  ASSUME SMTypeOK, NEW k \in Kinds, NEW s \in Sessions, Send(k, s)
  PROVE  /\ calls' \in Seq(Call)
         /\ reply' \in [Kinds -> [Sessions -> {"none", "pending", "ok", "refused", "unsent"}]]
<1>1. [kind |-> k, by |-> s] \in Call
  BY DEF Call
<1>2. calls' \in Seq(Call)
  BY <1>1 DEF Send, SMTypeOK, Call
<1>3. reply' \in [Kinds -> [Sessions -> {"none", "pending", "ok", "refused", "unsent"}]]
  BY DEF Send, SMTypeOK
<1> QED BY <1>2, <1>3

(* A refusal at once only raises alerts.                                    *)
LEMMA RefuseTypes ==
  ASSUME SMTypeOK, NEW why \in Reasons, Refuse(why)
  PROVE  out' \in Seq(SessionAlerts) /\ UNCHANGED <<req, calls, reply>>
<1>1. <<REQUEST, FAILED(why)>> \in Seq(SessionAlerts)
  BY AlertTypes
<1> QED BY <1>1 DEF Refuse, Refusal, SMTypeOK

LEMMA FailTypes ==
  ASSUME SMTypeOK, NEW why \in Reasons, Fail(why)
  PROVE  out' \in Seq(SessionAlerts) /\ req' = "idle"
  BY AlertTypes DEF Fail, SMTypeOK

LEMMA TypeInit == SMInit => TypeInv
<1> SUFFICES ASSUME SMInit PROVE TypeInv
  OBVIOUS
<1>1. reply \in [Kinds -> [Sessions -> {"none", "pending", "ok", "refused", "unsent"}]]
  BY DEF SMInit
<1> QED BY <1>1, SessionAssumption DEF SMInit, TypeInv, SMTypeOK, AtWork

LEMMA AtWorkStep == SMTypeOK /\ AtWork /\ [SMNext]_smVars => AtWork'
<1> SUFFICES ASSUME SMTypeOK, AtWork, [SMNext]_smVars PROVE AtWork'
  OBVIOUS
<1> USE DEF AtWork
<1>1. CASE Request
  BY <1>1 DEF Request, SMTypeOK
<1>2. CASE Handler
  BY <1>2 DEF Handler, CriteriaNotMet, CreateFails, CreateAndStart, RunnerGone, RunnerAlive,
              Assign, Fail
<1>3. CASE OnShutdown \/ HwServes
  BY <1>3 DEF OnShutdown, HwServes
<1>4. ASSUME NEW s \in Sessions, RunEnds(s) \/ Cleanup(s) PROVE AtWork'
  BY <1>4 DEF RunEnds, Cleanup, CleanupActiveSession, ScheduleCleanup, BeginCleanup,
              SkipDeactivate, EndCleanup
<1>5. CASE UNCHANGED smVars
  BY <1>5 DEF smVars
<1> QED BY <1>1, <1>2, <1>3, <1>4, <1>5 DEF SMNext

(* Every step keeps the types.                                              *)
LEMMA TypeStep == TypeInv /\ [SMNext]_smVars => TypeInv'
<1> SUFFICES ASSUME SMTypeOK, AtWork, [SMNext]_smVars PROVE SMTypeOK'
  BY AtWorkStep DEF TypeInv
<1> USE SessionAssumption DEF Reasons
<1>1. CASE Request
  <2>1. /\ UNCHANGED <<nodeActive, active, thr, open, leaked, clean, hw>>
        /\ served' \in 0 .. MaxRequests /\ served + 1 \in Sessions
    BY <1>1 DEF Request, SMTypeOK, Sessions
  <2>2. ASSUME NEW why \in Reasons, Refuse(why) PROVE SMTypeOK'
    BY <2>1, <2>2, RefuseTypes DEF SMTypeOK
  <2>3. CASE /\ out' = Append(out, REQUEST) /\ req' = "activating"
             /\ Send("ACTIVATE", served + 1)
    <3>1. out' \in Seq(SessionAlerts)
      BY <2>3, AlertTypes DEF SMTypeOK
    <3>2. /\ calls' \in Seq(Call)
          /\ reply' \in [Kinds -> [Sessions -> {"none", "pending", "ok", "refused", "unsent"}]]
      BY <2>1, <2>3, SendTypes DEF Kinds
    <3> QED BY <2>1, <2>3, <3>1, <3>2 DEF SMTypeOK, Call
  <2> QED BY <1>1, <2>2, <2>3 DEF Request
<1>2. CASE CriteriaNotMet \/ CreateFails
  BY <1>2, FailTypes DEF CriteriaNotMet, CreateFails, SMTypeOK
<1>3. CASE CreateAndStart
  <2>1. CASE Fail("busy")
    BY <1>3, <2>1, FailTypes DEF CreateAndStart, SMTypeOK
  <2>2. CASE ~Fail("busy")
    <3>1. served \in Sessions
      BY <1>3 DEF CreateAndStart, SMTypeOK, Sessions, AtWork
    <3> QED BY <1>3, <2>2, <3>1 DEF CreateAndStart, SMTypeOK
  <2> QED BY <2>1, <2>2
<1>4. CASE RunnerGone
  <2>1. served \in Sessions
    BY <1>4 DEF RunnerGone, SMTypeOK, Sessions, AtWork
  <2> QED BY <1>4, <2>1, FailTypes DEF RunnerGone, Close, SMTypeOK
<1>5. CASE RunnerAlive
  BY <1>5 DEF RunnerAlive, SMTypeOK
<1>6. CASE Assign
  BY <1>6, AlertTypes DEF Assign, SMTypeOK
<1>7. CASE OnShutdown
  BY <1>7 DEF OnShutdown, SMTypeOK
<1>8. CASE HwServes
  <2>1. Head(calls) \in Call /\ calls' \in Seq(Call)
    <3>1. calls \in Seq(Call) /\ calls # <<>> /\ calls' = Tail(calls)
      BY <1>8 DEF HwServes, SMTypeOK, Call
    <3> QED BY <3>1
  <2>2. reply' \in [Kinds -> [Sessions -> {"none", "pending", "ok", "refused", "unsent"}]]
    BY <1>8, <2>1 DEF HwServes, SMTypeOK, Call
  <2>3. hw' \in {"inactive", "active"}
    BY <1>8 DEF HwServes, SMTypeOK
  <2> QED BY <1>8, <2>1, <2>2, <2>3 DEF HwServes, SMTypeOK, Call
<1>9. ASSUME NEW s \in Sessions, RunEnds(s) \/ CleanupActiveSession(s) \/ ScheduleCleanup(s)
      PROVE  SMTypeOK'
  <2>1. CASE RunEnds(s)
    BY <2>1 DEF RunEnds, SMTypeOK
  <2>2. CASE CleanupActiveSession(s)
    BY <2>2 DEF CleanupActiveSession, Close, SMTypeOK
  <2>3. CASE ScheduleCleanup(s)
    BY <2>3 DEF ScheduleCleanup, Scheduled, SMTypeOK
  <2> QED BY <1>9, <2>1, <2>2, <2>3
<1>10. ASSUME NEW s \in Sessions, BeginCleanup(s) PROVE SMTypeOK'
  <2>1. /\ calls' \in Seq(Call)
        /\ reply' \in [Kinds -> [Sessions -> {"none", "pending", "ok", "refused", "unsent"}]]
    BY <1>10, SendTypes DEF BeginCleanup, Kinds
  <2> QED BY <1>10, <2>1 DEF BeginCleanup, SMTypeOK, Call
<1>11. ASSUME NEW s \in Sessions, EndCleanup(s) PROVE SMTypeOK'
  <2>1. <<CLOSED>> \in Seq(SessionAlerts)
    BY AlertTypes
  <2> QED BY <1>11, <2>1 DEF EndCleanup, Closure, SMTypeOK
<1>12. ASSUME NEW s \in Sessions, SkipDeactivate(s) PROVE SMTypeOK'
  <2>1. <<CLOSED>> \in Seq(SessionAlerts)
    BY AlertTypes
  <2>2. reply' \in [Kinds -> [Sessions -> {"none", "pending", "ok", "refused", "unsent"}]]
    BY <1>12 DEF SkipDeactivate, SMTypeOK, Kinds
  <2> QED BY <1>12, <2>1, <2>2 DEF SkipDeactivate, Closure, SMTypeOK
<1>13. CASE UNCHANGED smVars
  BY <1>13 DEF smVars, SMTypeOK
<1> QED
  BY <1>1, <1>2, <1>3, <1>4, <1>5, <1>6, <1>7, <1>8, <1>9, <1>10, <1>11, <1>12, <1>13
     DEF SMNext, Handler, Cleanup

(* Type correctness of the session manager, for any number of requests.     *)
THEOREM TypeCorrect == SMSpec => []SMTypeOK
<1>1. TypeInv => SMTypeOK
  BY DEF TypeInv
<1> QED BY <1>1, TypeInit, TypeStep, PTL DEF SMSpec

-----------------------------------------------------------------------------
(* Sockets.                                                                 *)

(* Sockets are opened as the thread starts, and closed by it.               *)
LEMMA SocketsStep ==
  TypeInv /\ SocketsFollowThread /\ [SMNext]_smVars => SocketsFollowThread'
<1> SUFFICES ASSUME TypeInv, SocketsFollowThread, [SMNext]_smVars PROVE SocketsFollowThread'
  OBVIOUS
<1> USE SessionAssumption DEF TypeInv, SocketsFollowThread
<1>1. CASE UNCHANGED <<thr, open, leaked>>
  BY <1>1
<1>2. CASE Request \/ CriteriaNotMet \/ CreateFails \/ RunnerAlive \/ Assign \/ OnShutdown \/ HwServes
  BY <1>1, <1>2 DEF Request, CriteriaNotMet, CreateFails, RunnerAlive, Assign, OnShutdown, HwServes
<1>3. CASE CreateAndStart
  <2>1. served \in Sessions
    BY <1>3 DEF CreateAndStart, SMTypeOK, AtWork, Sessions
  <2>2. CASE UNCHANGED <<thr, open>>
    BY <1>1, <1>3, <2>2 DEF CreateAndStart
  <2>3. CASE open' = open \cup {served} /\ thr' = [thr EXCEPT ![served] = "running"]
    <3>1. thr'[served] = "running" /\ \A s \in Sessions \ {served} : thr'[s] = thr[s]
      BY <2>1, <2>3 DEF SMTypeOK
    <3> QED BY <1>3, <2>1, <2>3, <3>1 DEF CreateAndStart
  <2> QED BY <1>3, <2>2, <2>3 DEF CreateAndStart
<1>4. CASE RunnerGone
  <2>1. thr' = thr /\ thr[served] = "dead" /\ Close(served)
    BY <1>4 DEF RunnerGone, Gone
  <2> QED BY <2>1 DEF Close
<1>5. ASSUME NEW s \in Sessions, RunEnds(s) PROVE SocketsFollowThread'
  BY <1>5 DEF RunEnds, SMTypeOK
<1>6. ASSUME NEW s \in Sessions, CleanupActiveSession(s) PROVE SocketsFollowThread'
  <2>1. /\ thr'[s] = "destroyed" /\ (\A u \in Sessions \ {s} : thr'[u] = thr[u]) /\ Close(s)
        /\ thr[s] = "ended"
    BY <1>6 DEF CleanupActiveSession, SMTypeOK
  <2> QED BY <2>1 DEF Close
<1>7. ASSUME NEW s \in Sessions, ScheduleCleanup(s) PROVE SocketsFollowThread'
  BY <1>7 DEF ScheduleCleanup, SMTypeOK
<1>8. ASSUME NEW s \in Sessions, BeginCleanup(s) \/ SkipDeactivate(s) \/ EndCleanup(s)
      PROVE  SocketsFollowThread'
  BY <1>1, <1>8 DEF BeginCleanup, SkipDeactivate, EndCleanup
<1> QED BY <1>1, <1>2, <1>3, <1>4, <1>5, <1>6, <1>7, <1>8 DEF SMNext, Handler, Cleanup, smVars

(* Sockets are open as long as a session's thread uses them, and no longer  *)
(* unless closing them failed, for any number of requests and with clean    *)
(* ups that overlap the next session (_cleanup_active_session, new_session). *)
THEOREM SocketsAlwaysFollow == SMSpec => []SocketsFollowThread
<1>1. SMInit => SocketsFollowThread
  BY DEF SMInit, SocketsFollowThread
<1>2. TypeInv /\ SocketsFollowThread /\ [SMNext]_smVars => TypeInv' /\ SocketsFollowThread'
  BY TypeStep, SocketsStep
<1> QED BY <1>1, <1>2, TypeInit, PTL DEF SMSpec

-----------------------------------------------------------------------------
(* The holder of the hardware.                                              *)

(* A request behind the others: it is a DEACTIVATE of s or it is not.       *)
LEMMA QueueGrows ==
  ASSUME TypeInv, NEW c \in Call, calls' = Append(calls, c), NEW s \in Sessions
  PROVE  /\ Queued(s)' <=> Queued(s) \/ c = Deactivate(s)
         /\ \A i, j \in 1 .. Len(calls') :
              calls'[i] = Deactivate(s) /\ calls'[j] = Deactivate(s) /\ i # j =>
                \/ \E k, l \in 1 .. Len(calls) :
                     k # l /\ calls[k] = Deactivate(s) /\ calls[l] = Deactivate(s)
                \/ Queued(s) /\ c = Deactivate(s)
<1>1. /\ Len(calls) \in Nat /\ Len(calls') = Len(calls) + 1
      /\ \A i \in 1 .. Len(calls) : calls'[i] = calls[i]
      /\ calls'[Len(calls) + 1] = c
  BY DEF TypeInv, SMTypeOK, Call
<1>2. Queued(s)' <=> Queued(s) \/ c = Deactivate(s)
  <2>1. ASSUME NEW i \in 1 .. Len(calls'), calls'[i] = Deactivate(s)
        PROVE  Queued(s) \/ c = Deactivate(s)
    BY <1>1, <2>1 DEF Queued
  <2>2. ASSUME Queued(s) PROVE Queued(s)'
    BY <1>1, <2>2 DEF Queued, Deactivate
  <2>3. ASSUME c = Deactivate(s) PROVE Queued(s)'
    <3>1. Len(calls) + 1 \in 1 .. Len(calls')
      BY <1>1
    <3> QED BY <1>1, <2>3, <3>1 DEF Queued, Deactivate
  <2> QED BY <2>1, <2>2, <2>3 DEF Queued, Deactivate
<1>3. ASSUME NEW i \in 1 .. Len(calls'), NEW j \in 1 .. Len(calls'),
             calls'[i] = Deactivate(s), calls'[j] = Deactivate(s), i # j
      PROVE  \/ \E k, l \in 1 .. Len(calls) :
                  k # l /\ calls[k] = Deactivate(s) /\ calls[l] = Deactivate(s)
             \/ Queued(s) /\ c = Deactivate(s)
  BY <1>1, <1>3 DEF Queued
<1> QED BY <1>2, <1>3

(* What a sequence looks like without its first element.                    *)
LEMMA WithoutHead ==
  ASSUME NEW S, NEW q \in Seq(S), q # <<>>
  PROVE  /\ Len(q) \in Nat \ {0} /\ Len(Tail(q)) = Len(q) - 1
         /\ \A i \in 1 .. Len(q) - 1 : Tail(q)[i] = q[i + 1]
         /\ Head(q) = q[1] /\ Head(q) \in S
  OBVIOUS

(* The oldest request leaves: if no other is the same, nothing but it is    *)
(* missed.                                                                  *)
LEMMA QueueShrinks ==
  ASSUME TypeInv, SentOnce, calls # <<>>, calls' = Tail(calls), NEW s \in Sessions
  PROVE  /\ Head(calls) \in Call /\ Head(calls) = calls[1] /\ Len(calls) \in Nat \ {0}
         /\ Queued(s)' => Queued(s) /\ Head(calls) # Deactivate(s)
         /\ \A i, j \in 1 .. Len(calls') :
              calls'[i] = Deactivate(s) /\ calls'[j] = Deactivate(s) => i = j
<1>1. /\ Len(calls) \in Nat \ {0} /\ Len(calls') = Len(calls) - 1
      /\ \A i \in 1 .. Len(calls') : calls'[i] = calls[i + 1]
      /\ Head(calls) = calls[1] /\ Head(calls) \in Call
  <2>1. calls \in Seq(Call)
    BY DEF TypeInv, SMTypeOK, Call
  <2> QED BY <2>1, WithoutHead
<1>2. \A i \in 1 .. Len(calls') : i + 1 \in 1 .. Len(calls) /\ i + 1 # 1
  BY <1>1
<1>3. \A i, j \in 1 .. Len(calls) : calls[i] = Deactivate(s) /\ calls[j] = Deactivate(s) => i = j
  BY DEF SentOnce
<1>4. ASSUME Queued(s)' PROVE Queued(s) /\ Head(calls) # Deactivate(s)
  <2>1. PICK i \in 1 .. Len(calls') : calls'[i] = Deactivate(s)
    BY <1>4 DEF Queued, Deactivate
  <2>2. calls[i + 1] = Deactivate(s) /\ i + 1 \in 1 .. Len(calls) /\ i + 1 # 1 /\ 1 \in 1 .. Len(calls)
    BY <1>1, <1>2, <2>1
  <2>3. Queued(s)
    BY <2>2 DEF Queued
  <2>4. calls[1] # Deactivate(s)
    BY <1>3, <2>2
  <2> QED BY <1>1, <2>3, <2>4
<1>5. ASSUME NEW i \in 1 .. Len(calls'), NEW j \in 1 .. Len(calls'),
             calls'[i] = Deactivate(s), calls'[j] = Deactivate(s)
      PROVE  i = j
  <2>1. calls[i + 1] = Deactivate(s) /\ calls[j + 1] = Deactivate(s)
    BY <1>1, <1>5
  <2>2. i + 1 = j + 1
    BY <1>2, <1>3, <2>1
  <2> QED BY <1>1, <2>2
<1> QED BY <1>1, <1>4, <1>5

LEMMA InTurnStep == TypeInv /\ InTurn /\ [SMNext]_smVars => InTurn'
<1> SUFFICES ASSUME TypeInv, InTurn, [SMNext]_smVars PROVE InTurn'
  OBVIOUS
<1> USE DEF TypeInv, SMTypeOK, AtWork, InTurn, Sessions
<1>1. CASE Request
  <2>1. served' = served + 1 /\ UNCHANGED <<thr, clean>> /\ req' \in {"idle", "activating"}
    BY <1>1 DEF Request, Refuse
  <2>2. served \in Nat /\ served + 1 \in Sessions
    BY <1>1, SessionAssumption DEF Request
  <2>3. thr[served + 1] = "none"
    BY <2>2
  <2> QED BY <2>1, <2>2, <2>3
<1>2. CASE CriteriaNotMet \/ CreateFails \/ RunnerGone \/ RunnerAlive \/ Assign
  BY <1>2 DEF CriteriaNotMet, CreateFails, RunnerGone, RunnerAlive, Assign, Fail
<1>3. CASE CreateAndStart
  <2>1. served \in Sessions /\ served \in Nat /\ thr[served] = "none" /\ UNCHANGED <<served, clean>>
    BY <1>3, SessionAssumption DEF CreateAndStart
  <2>2. CASE req' = "idle" /\ thr' = thr
    BY <2>1, <2>2
  <2>3. CASE req' = "joining" /\ thr' = [thr EXCEPT ![served] = "running"]
    <3>1. thr'[served] = "running" /\ \A s \in Sessions \ {served} : thr'[s] = thr[s]
      BY <2>1, <2>3
    <3> QED BY <2>1, <2>3, <3>1
  <2> QED BY <1>3, <2>2, <2>3 DEF CreateAndStart, Fail
<1>4. CASE OnShutdown \/ HwServes
  BY <1>4 DEF OnShutdown, HwServes
<1>5. ASSUME NEW s \in Sessions, RunEnds(s) \/ CleanupActiveSession(s) PROVE InTurn'
  <2>1. /\ thr[s] \notin {"none", "dead"} /\ thr'[s] \notin {"none", "dead"}
        /\ \A u \in Sessions \ {s} : thr'[u] = thr[u]
    BY <1>5 DEF RunEnds, CleanupActiveSession
  <2>2. UNCHANGED <<served, req, clean>>
    BY <1>5 DEF RunEnds, CleanupActiveSession
  <2>3. req # "idle" => served \in Sessions
    BY SessionAssumption
  <2> QED BY <2>1, <2>2, <2>3
<1>6. ASSUME NEW s \in Sessions, ScheduleCleanup(s) PROVE InTurn'
  BY <1>6 DEF ScheduleCleanup
<1>7. ASSUME NEW s \in Sessions, BeginCleanup(s) \/ SkipDeactivate(s) \/ EndCleanup(s) PROVE InTurn'
  BY <1>7 DEF BeginCleanup, SkipDeactivate, EndCleanup
<1>8. CASE UNCHANGED smVars
  BY <1>8 DEF smVars
<1> QED BY <1>1, <1>2, <1>3, <1>4, <1>5, <1>6, <1>7, <1>8 DEF SMNext, Handler, Cleanup

LEMMA SentOnceStep == TypeInv /\ InTurn /\ SentOnce /\ [SMNext]_smVars => SentOnce'
<1> SUFFICES ASSUME TypeInv, InTurn, SentOnce, [SMNext]_smVars PROVE SentOnce'
  OBVIOUS
<1>1. CASE UNCHANGED <<calls, clean>>
  BY <1>1 DEF SentOnce, Queued, Deactivate
<1>2. CASE Request
  <2>1. CASE UNCHANGED calls
    BY <1>1, <1>2, <2>1 DEF Request
  <2>2. CASE calls' # calls
    <3> DEFINE c == [kind |-> "ACTIVATE", by |-> served + 1]
    <3>1. calls' = Append(calls, c) /\ UNCHANGED clean
      BY <1>2, <2>2 DEF Request, Refuse, Send
    <3>2. c \in Call
      BY <1>2, SessionAssumption DEF Request, Call, Kinds, Sessions, TypeInv, SMTypeOK
    <3>3. \A s \in Sessions : c # Deactivate(s)
      BY DEF Deactivate
    <3> HIDE DEF c
    <3> QED BY <3>1, <3>2, <3>3, QueueGrows DEF SentOnce
  <2> QED BY <2>1, <2>2
<1>3. CASE Handler \/ OnShutdown
  BY <1>1, <1>3 DEF Handler, CriteriaNotMet, CreateFails, CreateAndStart, RunnerGone, RunnerAlive,
                    Assign, OnShutdown
<1>4. CASE HwServes
  BY <1>4, QueueShrinks DEF HwServes, SentOnce
<1>5. ASSUME NEW s \in Sessions, RunEnds(s) \/ CleanupActiveSession(s) PROVE SentOnce'
  BY <1>1, <1>5 DEF RunEnds, CleanupActiveSession
<1>6. ASSUME NEW s \in Sessions, ScheduleCleanup(s) PROVE SentOnce'
  <2>1. clean[s] = "none" /\ ~Queued(s)
    BY <1>6 DEF ScheduleCleanup, InTurn, SentOnce
  <2>2. \A u \in Sessions \ {s} : clean'[u] = clean[u]
    BY <1>6 DEF ScheduleCleanup, TypeInv, SMTypeOK
  <2>3. calls' = calls
    BY <1>6 DEF ScheduleCleanup
  <2> QED BY <2>1, <2>2, <2>3 DEF SentOnce, Queued, Deactivate
<1>7. ASSUME NEW s \in Sessions, BeginCleanup(s) PROVE SentOnce'
  <2> DEFINE c == Deactivate(s)
  <2>1. calls' = Append(calls, c) /\ c \in Call
    BY <1>7 DEF BeginCleanup, Send, Deactivate, Call, Kinds
  <2>2. ~Queued(s)
    BY <1>7 DEF BeginCleanup, SentOnce
  <2>3. clean'[s] = "deactivating" /\ \A u \in Sessions \ {s} : clean'[u] = clean[u]
    BY <1>7 DEF BeginCleanup, TypeInv, SMTypeOK
  <2>4. \A u \in Sessions \ {s} : c # Deactivate(u)
    BY DEF Deactivate
  <2> HIDE DEF c
  <2> QED BY <2>1, <2>2, <2>3, <2>4, QueueGrows DEF SentOnce
<1>8. ASSUME NEW s \in Sessions, SkipDeactivate(s) \/ EndCleanup(s) PROVE SentOnce'
  <2>1. calls' = calls
    BY <1>8 DEF SkipDeactivate, EndCleanup
  <2>2. clean'[s] = "done" /\ \A u \in Sessions \ {s} : clean'[u] = clean[u]
    BY <1>8 DEF SkipDeactivate, EndCleanup, TypeInv, SMTypeOK
  <2> QED BY <2>1, <2>2 DEF SentOnce, Queued, Deactivate
<1>9. CASE UNCHANGED smVars
  BY <1>1, <1>9 DEF smVars
<1> QED BY <1>2, <1>3, <1>4, <1>5, <1>6, <1>7, <1>8, <1>9 DEF SMNext, Cleanup

(* Nothing happens to the hardware, and nobody takes hold of it.            *)
LEMMA FewerHolders ==
  ASSUME OneHolder, HolderArmed, hw' = hw, \A s \in Sessions : Holds(s)' => Holds(s)
  PROVE  OneHolder' /\ HolderArmed'
  BY DEF OneHolder, HolderArmed

(* The hardware manager serves a request: an ACTIVATE that succeeds makes   *)
(* the first holder, a DEACTIVATE is the holder's own.                      *)
LEMMA ServeStep ==
  ASSUME HolderInv, HwServes
  PROVE  OneHolder' /\ HolderArmed'
<1> DEFINE c == Head(calls)
<1>1. /\ calls # <<>> /\ calls' = Tail(calls) /\ UNCHANGED <<thr, clean, req, served>>
      /\ TypeInv /\ SentOnce /\ InTurn /\ OneHolder /\ HolderArmed
  BY DEF HwServes, HolderInv
<1>2. ASSUME NEW s \in Sessions PROVE Queued(s)' => Queued(s) /\ c # Deactivate(s)
  BY <1>1, QueueShrinks
<1>3. c \in Call /\ c = calls[1] /\ 1 \in 1 .. Len(calls)
  <2>1. calls \in Seq(Call)
    BY <1>1 DEF TypeInv, SMTypeOK, Call
  <2> QED BY <1>1, <2>1, WithoutHead
<1>4. c.by \in Sessions /\ c.kind \in {"ACTIVATE", "DEACTIVATE"}
  BY <1>3 DEF Call, Kinds
<1>5. CASE c.kind = "ACTIVATE"
  <2>1. /\ hw' = "active"
        /\ reply' = [reply EXCEPT !["ACTIVATE"][c.by] = IF hw = "inactive" THEN "ok" ELSE "refused"]
    BY <1>1, <1>5 DEF HwServes, TypeInv, SMTypeOK
  <2>2. ASSUME NEW s \in Sessions, Holds(s)', ~Holds(s) PROVE hw = "inactive" /\ s = c.by
    <3>1. req = "activating" /\ served = s /\ reply'["ACTIVATE"][s] = "ok"
      BY <1>1, <1>2, <2>2 DEF Holds, Live
    <3>2. reply["ACTIVATE"][s] # "ok"
      BY <2>2, <3>1 DEF Holds
    <3> QED BY <1>1, <2>1, <3>1, <3>2 DEF TypeInv, SMTypeOK, Kinds
  <2>3. CASE hw = "inactive"
    <3>1. \A s \in Sessions : ~Holds(s)
      BY <1>1, <2>3 DEF HolderArmed
    <3> QED BY <2>1, <2>2, <3>1 DEF OneHolder, HolderArmed
  <2>4. CASE hw # "inactive"
    <3>1. hw' = hw
      BY <1>1, <2>1, <2>4 DEF TypeInv, SMTypeOK
    <3> QED BY <1>1, <2>2, <2>4, <3>1, FewerHolders
  <2> QED BY <2>3, <2>4
<1>6. CASE c.kind = "DEACTIVATE"
  <2>1. c = Deactivate(c.by)
    BY <1>3, <1>6 DEF Call, Deactivate
  <2>2. Queued(c.by)
    BY <1>3, <2>1 DEF Queued
  <2>3. /\ reply'["ACTIVATE"] = reply["ACTIVATE"]
        /\ clean[c.by] \in {"deactivating", "done"} /\ thr[c.by] = "dead"
    BY <1>1, <1>4, <1>6, <2>2 DEF HwServes, TypeInv, SMTypeOK, Kinds, SentOnce, InTurn
  <2>4. ASSUME NEW s \in Sessions, Holds(s)' PROVE FALSE
    <3>1. Holds(s)
      BY <1>1, <1>2, <2>3, <2>4 DEF Holds, Live
    <3>2. s = c.by
      BY <1>1, <1>4, <2>2, <3>1 DEF OneHolder, Holds
    <3>3. ~Queued(s)'
      BY <1>2, <2>1, <3>2
    <3>4. ~(req = "activating" /\ served = s)
      BY <1>1, <2>3, <3>2 DEF InTurn
    <3> QED BY <1>1, <2>3, <2>4, <3>2, <3>3, <3>4 DEF Holds, Live
  <2> QED BY <2>4 DEF OneHolder, HolderArmed
<1> QED BY <1>4, <1>5, <1>6

(* In every other step a session holds the hardware only if it did before.  *)
LEMMA HolderStep == HolderInv /\ [SMNext]_smVars => HolderInv'
<1> SUFFICES ASSUME HolderInv, [SMNext]_smVars PROVE OneHolder' /\ HolderArmed'
  BY TypeStep, InTurnStep, SentOnceStep DEF HolderInv
<1>0. TypeInv /\ SMTypeOK /\ InTurn /\ SentOnce /\ OneHolder /\ HolderArmed
  BY DEF HolderInv, TypeInv
<1> SUFFICES ASSUME ~HwServes PROVE hw' = hw /\ \A s \in Sessions : Holds(s)' => Holds(s)
  BY <1>0, ServeStep, FewerHolders
<1> DEFINE Kept == hw' = hw /\ \A s \in Sessions : Holds(s)' => Holds(s)
<1>1. CASE UNCHANGED <<calls, thr, clean, hw, served, req>> /\ reply'["ACTIVATE"] = reply["ACTIVATE"]
  BY <1>1 DEF Holds, Live, Queued, Deactivate
<1>2. CASE UNCHANGED <<calls, thr, clean, hw>> /\ req' # "activating"
  BY <1>2 DEF Holds, Live, Queued, Deactivate
<1>3. CASE Request
  <2>1. CASE \E why \in Reasons : Refuse(why)
    <3>1. UNCHANGED <<calls, thr, clean, hw, req>> /\ req = "idle"
      BY <1>3, <2>1 DEF Request, Refuse
    <3> QED BY <1>2, <3>1
  <2>2. CASE req' = "activating" /\ Send("ACTIVATE", served + 1)
    <3> DEFINE c == [kind |-> "ACTIVATE", by |-> served + 1]
    <3>1. calls' = Append(calls, c) /\ UNCHANGED <<thr, clean, hw>> /\ served' = served + 1
      BY <1>3, <2>2 DEF Request, Send
    <3>2. served + 1 \in Sessions /\ reply'["ACTIVATE"][served + 1] = "pending"
      BY <1>0, <1>3, <2>2, SessionAssumption DEF Request, Send, SMTypeOK, Sessions, Kinds
    <3>3. c \in Call /\ \A s \in Sessions : c # Deactivate(s)
      BY <3>2 DEF Call, Kinds, Deactivate
    <3> HIDE DEF c
    <3>4. ASSUME NEW s \in Sessions PROVE Queued(s)' => Queued(s)
      BY <1>0, <3>1, <3>3, QueueGrows
    <3>5. ASSUME NEW s \in Sessions, Holds(s)' PROVE Holds(s)
      BY <3>1, <3>2, <3>4, <3>5 DEF Holds, Live
    <3> QED BY <3>1, <3>5
  <2> QED BY <1>3, <2>1, <2>2 DEF Request, Reasons
<1>4. CASE CriteriaNotMet \/ CreateFails \/ RunnerGone \/ RunnerAlive \/ Assign
  BY <1>2, <1>4 DEF CriteriaNotMet, CreateFails, RunnerGone, RunnerAlive, Assign, Fail
<1>5. CASE CreateAndStart
  <2>1. CASE req' = "idle" /\ thr' = thr
    BY <1>2, <1>5, <2>1 DEF CreateAndStart
  <2>2. CASE req' = "joining" /\ thr' = [thr EXCEPT ![served] = "running"]
    <3>1. served \in Sessions /\ Holds(served)
      <4>1. served \in Sessions
        BY <1>0, <1>5 DEF CreateAndStart, TypeInv, SMTypeOK, AtWork, Sessions
      <4>2. req = "activating" /\ reply["ACTIVATE"][served] = "ok"
        BY <1>5 DEF CreateAndStart, Answered
      <4> QED BY <4>1, <4>2 DEF Holds
    <3>2. UNCHANGED <<calls, clean, hw>> /\ \A s \in Sessions \ {served} : thr'[s] = thr[s]
      BY <1>0, <1>5, <2>2, <3>1 DEF CreateAndStart, SMTypeOK
    <3>3. ASSUME NEW s \in Sessions, Holds(s)', s # served PROVE Holds(s)
      BY <2>2, <3>2, <3>3 DEF Holds, Live, Queued, Deactivate
    <3> QED BY <3>1, <3>2, <3>3
  <2> QED BY <1>5, <2>1, <2>2 DEF CreateAndStart, Fail
<1>6. ASSUME NEW u \in Sessions,
             RunEnds(u) \/ CleanupActiveSession(u) \/ ScheduleCleanup(u)
      PROVE  Kept
  <2>1. /\ UNCHANGED <<calls, hw, req, served, reply>> /\ Live(u)
        /\ \A s \in Sessions \ {u} : thr'[s] = thr[s] /\ clean'[s] = clean[s]
    BY <1>0, <1>6 DEF RunEnds, CleanupActiveSession, ScheduleCleanup, Live, SMTypeOK
  <2>2. ASSUME NEW s \in Sessions, Holds(s)', s # u PROVE Holds(s)
    BY <2>1, <2>2 DEF Holds, Live, Queued, Deactivate
  <2>3. Holds(u)
    BY <2>1 DEF Holds
  <2> QED BY <2>1, <2>2, <2>3
<1>7. ASSUME NEW u \in Sessions, BeginCleanup(u) PROVE Kept
  <2> DEFINE c == Deactivate(u)
  <2>1. /\ UNCHANGED <<thr, hw, req, served>> /\ reply'["ACTIVATE"] = reply["ACTIVATE"]
        /\ clean[u] = "queued" /\ \A s \in Sessions \ {u} : clean'[s] = clean[s]
    BY <1>0, <1>7 DEF BeginCleanup, Send, SMTypeOK, Kinds
  <2>2. calls' = Append(calls, c) /\ c \in Call
    BY <1>7 DEF BeginCleanup, Send, Deactivate, Call, Kinds
  <2>3. \A s \in Sessions \ {u} : c # Deactivate(s)
    BY DEF Deactivate
  <2> HIDE DEF c
  <2>4. ASSUME NEW s \in Sessions, Holds(s)', s # u PROVE Holds(s)
    <3>1. Queued(s)' => Queued(s)
      BY <1>0, <2>2, <2>3, <2>4, QueueGrows
    <3> QED BY <2>1, <2>4, <3>1 DEF Holds, Live
  <2>5. Holds(u)
    BY <2>1 DEF Holds
  <2> QED BY <2>1, <2>4, <2>5
<1>8. ASSUME NEW u \in Sessions, SkipDeactivate(u) \/ EndCleanup(u) PROVE Kept
  <2>1. /\ UNCHANGED <<calls, thr, hw, req, served>> /\ reply'["ACTIVATE"] = reply["ACTIVATE"]
        /\ clean'[u] = "done" /\ \A s \in Sessions \ {u} : clean'[s] = clean[s]
    BY <1>0, <1>8 DEF SkipDeactivate, EndCleanup, SMTypeOK, Kinds
  <2>2. ASSUME NEW s \in Sessions, Holds(s)' PROVE Holds(s)
    BY <2>1, <2>2 DEF Holds, Live, Queued, Deactivate
  <2> QED BY <2>1, <2>2
<1>9. CASE OnShutdown \/ UNCHANGED smVars
  BY <1>1, <1>9 DEF OnShutdown, smVars
<1> QED BY <1>3, <1>4, <1>5, <1>6, <1>7, <1>8, <1>9 DEF SMNext, Handler, Cleanup

LEMMA HolderInit == SMInit => HolderInv
<1> SUFFICES ASSUME SMInit PROVE HolderInv
  OBVIOUS
<1>1. \A s \in Sessions : ~Holds(s)
  BY DEF SMInit, Holds, Live, Queued, Deactivate
<1>2. SentOnce /\ InTurn
  BY DEF SMInit, SentOnce, InTurn, Queued, Deactivate
<1> QED BY <1>1, <1>2, TypeInit DEF HolderInv, OneHolder, HolderArmed

(* A running session has the hardware armed, whatever lifecycle requests of *)
(* other sessions are late, refused or still under way, for any number of   *)
(* requests (validate_session_request_criteria, cleanup_session).           *)
THEOREM AlwaysArmedWhileRunning == SMSpec => []ArmedWhileRunning
<1>1. HolderInv => ArmedWhileRunning
  BY DEF HolderInv, HolderArmed, Holds, Live, ArmedWhileRunning
<1> QED BY <1>1, HolderInit, HolderStep, PTL DEF SMSpec

-----------------------------------------------------------------------------
(* The composed system.                                                     *)

Places == 1 .. Len(out)

(* The alerts that end CONNECTING.                                          *)
Resolves(a) == a = CREATED \/ a.code = "ERR_SESSION_CREATION_FAILED"

(* A request that has been announced is being handled, or its outcome is on *)
(* the way.                                                                 *)
Resolving ==
  "ERR_SESSION_CREATION_FAILED" \notin muted /\ req = "idle" =>
    /\ fsm = "CONNECTING" => \E i \in Places : Resolves(out[i])
    /\ \A i \in Places : out[i] = REQUEST => \E j \in Places : i < j /\ Resolves(out[j])

(* A CREATED is never suppressed: no other is lit or on the way.            *)
OneCreated ==
  /\ \A i, j \in Places : out[i] = CREATED /\ out[j] = CREATED => i = j
  /\ CREATED \in lit \/ req = "assigning" => \A i \in Places : out[i] # CREATED
  /\ req = "assigning" => CREATED \notin lit

(* Some session has yet to announce its closure.                            *)
Ongoing == \E s \in Sessions : Live(s) \/ clean[s] \in {"queued", "deactivating"}
Begun == req \in {"joining", "assigning"} => Live(served) \/ clean[served] = "queued"

(* A session that was announced has yet to announce its closure, or has     *)
(* done so.                                                                 *)
Ending ==
  "INF_SESSION_CLOSURE_OK" \notin muted /\ ~Ongoing =>
    /\ fsm = "ACTIVE" => \E i \in Places : out[i] = CLOSED
    /\ \A i \in Places : out[i] = CREATED => \E j \in Places : i < j /\ out[j] = CLOSED

SysInv == TypeOK /\ AtWork /\ Begun /\ OneCreated /\ Resolving /\ Ending

(* The codes tell the alerts apart.                                         *)
LEMMA Codes ==
  /\ REQUEST.code = "INF_SESSION_CREATION_REQUEST" /\ CREATED.code = "INF_SESSION_CREATION_OK"
  /\ CLOSED.code = "INF_SESSION_CLOSURE_OK"
  /\ \A why : FAILED(why).code = "ERR_SESSION_CREATION_FAILED"
  /\ \A a \in SessionAlerts :
       /\ a.code = "INF_SESSION_CREATION_REQUEST" => a = REQUEST
       /\ a.code = "INF_SESSION_CREATION_OK" => a = CREATED
       /\ a.code = "INF_SESSION_CLOSURE_OK" => a = CLOSED
       /\ a.code \in {"INF_SESSION_CREATION_REQUEST", "INF_SESSION_CREATION_OK",
                      "INF_SESSION_CLOSURE_OK", "ERR_SESSION_CREATION_FAILED"}
  BY DEF REQUEST, CREATED, CLOSED, FAILED, AlertOf, SessionAlerts

(* What an alert does to the machine.                                       *)
EventOf(a) == map_alert_to_system_event("RAISE", LevelOf(a), a.code)

LEMMA Events ==
  ASSUME NEW a \in SessionAlerts
  PROVE  EventOf(a) = CASE a = REQUEST -> "SESSION_CREATION_REQUESTED"
                        [] a = CREATED -> "SESSION_CREATED"
                        [] a = CLOSED  -> "DISCONNECTED"
                        [] OTHER       -> "SESSION_CREATION_FAILED"
<1>1. LevelOf(a) # "FATAL"
  BY DEF LevelOf
<1>2. a.code \in DOMAIN SessionEventOf => EventOf(a) = SessionEventOf[a.code]
  BY <1>1 DEF EventOf, map_alert_to_system_event
<1>3. CASE a = REQUEST
  BY <1>2, <1>3, Codes DEF SessionEventOf
<1>4. CASE a = CREATED
  BY <1>2, <1>4, Codes DEF SessionEventOf
<1>5. CASE a = CLOSED
  BY <1>2, <1>5, Codes DEF SessionEventOf
<1>6. CASE a \notin {REQUEST, CREATED, CLOSED}
  <2>1. a.code = "ERR_SESSION_CREATION_FAILED"
    BY <1>6, Codes
  <2> QED BY <1>2, <1>6, <2>1 DEF SessionEventOf
<1> QED BY <1>3, <1>4, <1>5, <1>6

LEMMA Moves ==
  ASSUME NEW a \in SessionAlerts, NEW s \in SystemState, NEW t, t = process_event(s, EventOf(a)).to
  PROVE  /\ t \in SystemState
         /\ t = "CONNECTING" => a = REQUEST \/ (s = "CONNECTING" /\ ~Resolves(a))
         /\ t = "ACTIVE" => a = CREATED \/ (s = "ACTIVE" /\ a # CLOSED)
<1>1. process_event(s, EventOf(a)) = HandleEvent(s, EventOf(a))
  BY Events, Codes DEF process_event
<1>2. CASE a = REQUEST
  BY <1>1, <1>2, Events, Codes DEF HandleEvent, Noop, ChangeTo, ForceTo, SystemState, Resolves
<1>3. CASE a = CREATED
  BY <1>1, <1>3, Events, Codes DEF HandleEvent, Noop, ChangeTo, ForceTo, SystemState, Resolves
<1>4. CASE a = CLOSED
  BY <1>1, <1>4, Events, Codes DEF HandleEvent, Noop, ChangeTo, ForceTo, SystemState, Resolves
<1>5. CASE a \notin {REQUEST, CREATED, CLOSED}
  BY <1>1, <1>5, Events, Codes DEF HandleEvent, Noop, ChangeTo, ForceTo, SystemState, Resolves
<1> QED BY <1>2, <1>3, <1>4, <1>5

LEMMA SysInit == Init => SysInv
<1> SUFFICES ASSUME Init PROVE SysInv
  OBVIOUS
<1>1. TypeInv
  BY TypeInit DEF Init
<1>2. out = <<>> /\ Places = {} /\ req = "idle" /\ fsm = "STANDBY" /\ lit = {}
  BY DEF Init, SMInit, Places
<1>3. TypeOK
  BY <1>1, <1>2 DEF Init, TypeOK, TypeInv, SystemState
<1> QED
  BY <1>1, <1>2, <1>3 DEF SysInv, TypeInv, Begun, OneCreated, Resolving, Ending

(* Steps of the session manager that raise nothing, one alert, or the two   *)
(* of a request refused at once.                                            *)
Parts == OneCreated /\ Resolving /\ Ending

LEMMA RaisesNothing ==
  ASSUME SysInv, UNCHANGED <<sysVars, out>>, req' = "idle" => req = "idle", Ongoing => Ongoing',
         req' = "assigning" /\ req # "assigning" =>
           CREATED \notin lit /\ \A i \in Places : out[i] # CREATED
  PROVE  Parts'
<1>1. Places' = Places
  BY DEF Places
<1>2. OneCreated'
  BY <1>1 DEF SysInv, OneCreated, sysVars
<1>3. Resolving'
  BY <1>1 DEF SysInv, Resolving, sysVars
<1>4. Ending'
  BY <1>1 DEF SysInv, Ending, sysVars
<1> QED BY <1>2, <1>3, <1>4 DEF Parts

LEMMA Behind ==
  ASSUME out \in Seq(SessionAlerts), NEW a \in SessionAlerts, out' = Append(out, a)
  PROVE  /\ Len(out) \in Nat /\ Places' = Places \cup {Len(out) + 1}
         /\ Len(out) + 1 \notin Places /\ \A i \in Places : i < Len(out) + 1
         /\ (\A i \in Places : out'[i] = out[i]) /\ out'[Len(out) + 1] = a
  BY DEF Places

LEMMA RaisesOne ==
  ASSUME SysInv, NEW a \in SessionAlerts, out' = Append(out, a), UNCHANGED sysVars,
         a = REQUEST => req' # "idle",
         req' = "idle" => req = "idle" \/ Resolves(a),
         Ongoing => Ongoing' \/ a = CLOSED,
         a = CREATED => req = "assigning" /\ Ongoing',
         req' = "assigning" => req = "assigning" /\ a # CREATED
  PROVE  Parts'
<1>0. out \in Seq(SessionAlerts)
  BY DEF SysInv, TypeOK, SMTypeOK
<1> DEFINE n == Len(out) + 1
<1>1. /\ Places' = Places \cup {n} /\ n \notin Places /\ (\A i \in Places : i < n)
      /\ (\A i \in Places : out'[i] = out[i]) /\ out'[n] = a
  BY <1>0, Behind
<1>2. UNCHANGED <<fsm, lit, muted>>
  BY DEF sysVars
<1> HIDE DEF n
<1>3. OneCreated'
  BY <1>1, <1>2 DEF SysInv, OneCreated
<1>4. Resolving'
  <2> SUFFICES ASSUME "ERR_SESSION_CREATION_FAILED" \notin muted, req' = "idle"
               PROVE  /\ fsm = "CONNECTING" => \E i \in Places' : Resolves(out'[i])
                      /\ \A i \in Places' : out'[i] = REQUEST =>
                           \E j \in Places' : i < j /\ Resolves(out'[j])
    BY <1>2 DEF Resolving, Resolves
  <2>1. CASE Resolves(a)
    <3>1. a # REQUEST
      BY <2>1, Codes DEF Resolves
    <3> QED BY <1>1, <2>1, <3>1
  <2>2. CASE ~Resolves(a)
    BY <1>1, <2>2 DEF SysInv, Resolving
  <2> QED BY <2>1, <2>2
<1>5. Ending'
  <2> SUFFICES ASSUME "INF_SESSION_CLOSURE_OK" \notin muted, ~Ongoing'
               PROVE  /\ fsm = "ACTIVE" => \E i \in Places' : out'[i] = CLOSED
                      /\ \A i \in Places' : out'[i] = CREATED =>
                           \E j \in Places' : i < j /\ out'[j] = CLOSED
    BY <1>2 DEF Ending
  <2>1. CASE a = CLOSED
    BY <1>1, <2>1, Codes
  <2>2. CASE a # CLOSED
    BY <1>1, <2>2 DEF SysInv, Ending
  <2> QED BY <2>1, <2>2
<1> QED BY <1>3, <1>4, <1>5 DEF Parts

LEMMA RaisesTwo ==
  ASSUME SysInv, NEW why \in Reasons, out' = out \o <<REQUEST, FAILED(why)>>,
         UNCHANGED sysVars, req' = "idle", Ongoing => Ongoing'
  PROVE  Parts'
<1> DEFINE n == Len(out) + 1
           m == Len(out) + 2
<1>1. /\ Places' = Places \cup {n, m} /\ n \notin Places /\ m \notin Places
      /\ (\A i \in Places : i < n /\ i < m) /\ n < m
      /\ (\A i \in Places : out'[i] = out[i]) /\ out'[n] = REQUEST /\ out'[m] = FAILED(why)
  <2>1. out \in Seq(SessionAlerts) /\ <<REQUEST, FAILED(why)>> \in Seq(SessionAlerts)
    BY AlertTypes DEF SysInv, TypeOK, SMTypeOK
  <2>2. Len(out) \in Nat /\ Len(<<REQUEST, FAILED(why)>>) = 2 /\ Len(out') = Len(out) + 2
    BY <2>1
  <2>3. (\A i \in Places : out'[i] = out[i]) /\ out'[n] = REQUEST /\ out'[m] = FAILED(why)
    BY <2>1, <2>2 DEF Places
  <2> QED BY <2>2, <2>3 DEF Places
<1>2. UNCHANGED <<fsm, lit, muted>>
  BY DEF sysVars
<1>3. REQUEST \notin {CREATED, CLOSED} /\ FAILED(why) \notin {REQUEST, CREATED, CLOSED}
      /\ Resolves(FAILED(why))
  BY Codes DEF Resolves
<1> HIDE DEF n, m
<1>4. OneCreated'
  <2>1. \A i \in Places' : out'[i] = CREATED => i \in Places /\ out[i] = CREATED
    BY <1>1, <1>3
  <2>2. OneCreated
    BY DEF SysInv
  <2> QED BY <1>2, <2>1, <2>2 DEF OneCreated
<1>5. Resolving'
  <2>1. m \in Places' /\ \A i \in Places' : out'[i] = REQUEST => i < m
    BY <1>1, <1>3
  <2> QED BY <1>1, <1>2, <1>3, <2>1 DEF Resolving, Resolves
<1>6. Ending'
  <2>1. \A i \in Places' : out'[i] = CREATED => i \in Places /\ out[i] = CREATED
    BY <1>1, <1>3
  <2>2. Places \subseteq Places' /\ \A i \in Places : out'[i] = out[i]
    BY <1>1
  <2> QED BY <1>2, <2>1, <2>2 DEF SysInv, Ending
<1> QED BY <1>4, <1>5, <1>6 DEF Parts

(* A session that has been started is not cleaned up before its handler     *)
(* ends: the handler keeps the executor.                                    *)
LEMMA BegunStep == TypeInv /\ Begun /\ [SMNext]_smVars => Begun'
<1> SUFFICES ASSUME TypeInv, Begun, [SMNext]_smVars PROVE Begun'
  OBVIOUS
<1>0. SMTypeOK /\ (req # "idle" => served \in Sessions)
  BY SessionAssumption DEF TypeInv, SMTypeOK, AtWork, Sessions
<1>1. CASE req' \in {"idle", "activating"}
  BY <1>1 DEF Begun
<1>2. CASE UNCHANGED <<served, thr, clean>> /\ req \in {"joining", "assigning"}
  BY <1>2 DEF Begun, Live
<1>3. CASE Request \/ CriteriaNotMet \/ CreateFails \/ RunnerGone \/ Assign
  BY <1>1, <1>3 DEF Request, Refuse, CriteriaNotMet, CreateFails, RunnerGone, Assign, Fail
<1>4. CASE CreateAndStart
  <2>1. CASE thr' = [thr EXCEPT ![served] = "running"] /\ served' = served
    BY <1>0, <1>4, <2>1 DEF CreateAndStart, SMTypeOK, Begun, Live
  <2> QED BY <1>1, <1>4, <2>1 DEF CreateAndStart, Fail
<1>5. CASE RunnerAlive
  BY <1>2, <1>5 DEF RunnerAlive
<1>6. CASE UNCHANGED <<req, served, thr, clean>>
  BY <1>6 DEF Begun, Live
<1>7. ASSUME NEW s \in Sessions, RunEnds(s) \/ CleanupActiveSession(s) \/ ScheduleCleanup(s)
      PROVE  Begun'
  <2>1. UNCHANGED <<req, served>> /\ (Live(s)' \/ clean'[s] = "queued")
    BY <1>0, <1>7 DEF RunEnds, CleanupActiveSession, ScheduleCleanup, Scheduled, Live, SMTypeOK
  <2>2. \A u \in Sessions \ {s} : thr'[u] = thr[u] /\ clean'[u] = clean[u]
    BY <1>0, <1>7 DEF RunEnds, CleanupActiveSession, ScheduleCleanup, SMTypeOK
  <2> QED BY <1>0, <2>1, <2>2 DEF Begun, Live
<1>8. ASSUME NEW s \in Sessions, BeginCleanup(s) \/ SkipDeactivate(s) \/ EndCleanup(s) PROVE Begun'
  BY <1>8 DEF BeginCleanup, SkipDeactivate, EndCleanup, ExecutorFree, Begun
<1>9. CASE OnShutdown \/ HwServes \/ UNCHANGED smVars
  BY <1>6, <1>9 DEF OnShutdown, HwServes, smVars
<1> QED BY <1>3, <1>4, <1>5, <1>7, <1>8, <1>9 DEF SMNext, Handler, Cleanup

LEMMA SameSessions == UNCHANGED <<thr, clean>> => (Ongoing' <=> Ongoing)
  BY DEF Ongoing, Live

(* A request that fails is resolved by its alert.                           *)
LEMMA FailStep ==
  ASSUME SysInv, NEW why \in Reasons, Fail(why), UNCHANGED <<sysVars, thr, clean>>
  PROVE  Parts'
<1>1. FAILED(why) \in SessionAlerts /\ Resolves(FAILED(why)) /\ FAILED(why) \notin {REQUEST, CREATED}
  BY AlertTypes, Codes DEF Resolves
<1> QED BY <1>1, RaisesOne, SameSessions DEF Fail

LEMMA SMPartsStep == SysInv /\ SMStep => Parts'
<1> SUFFICES ASSUME SysInv, SMStep PROVE Parts'
  OBVIOUS
<1>0. /\ SMTypeOK /\ (req # "idle" => served \in Sessions)
      /\ UNCHANGED sysVars
  BY SessionAssumption DEF SysInv, TypeOK, SMTypeOK, AtWork, Sessions, SMStep
<1>1. CASE Request
  <2>1. req = "idle" /\ UNCHANGED <<thr, clean>>
    BY <1>1 DEF Request
  <2>2. ASSUME NEW why \in Reasons, Refuse(why) PROVE Parts'
    BY <1>0, <2>1, <2>2, RaisesTwo, SameSessions DEF Refuse, Refusal
  <2>3. CASE out' = Append(out, REQUEST) /\ req' = "activating"
    <3>1. REQUEST \in SessionAlerts /\ REQUEST # CREATED
      BY AlertTypes, Codes
    <3> QED BY <1>0, <2>1, <2>3, <3>1, RaisesOne, SameSessions
  <2> QED BY <1>1, <2>2, <2>3 DEF Request, Reasons
<1>2. CASE CriteriaNotMet \/ CreateFails \/ RunnerGone
  <2>1. UNCHANGED <<thr, clean>> /\ \E why \in Reasons : Fail(why)
    BY <1>2 DEF CriteriaNotMet, CreateFails, RunnerGone, Reasons
  <2> QED BY <1>0, <2>1, FailStep
<1>3. CASE CreateAndStart
  <2>1. CASE Fail("busy") /\ UNCHANGED thr
    BY <1>0, <1>3, <2>1, FailStep DEF CreateAndStart, Reasons
  <2>2. CASE req' = "joining" /\ thr' = [thr EXCEPT ![served] = "running"] /\ UNCHANGED out
    <3>1. Ongoing'
      BY <1>0, <1>3, <2>2 DEF CreateAndStart, SMTypeOK, Ongoing, Live
    <3> QED BY <1>0, <2>2, <3>1, RaisesNothing
  <2> QED BY <1>3, <2>1, <2>2 DEF CreateAndStart
<1>4. CASE RunnerAlive
  <2>1. CREATED \notin lit /\ CREATED \notin Range(out)
    BY <1>4 DEF RunnerAlive, SMStep, JoinOutlasts
  <2>2. \A i \in Places : out[i] # CREATED
    BY <1>0, <2>1 DEF Range, Places, SMTypeOK
  <2> QED BY <1>0, <1>4, <2>1, <2>2, RaisesNothing, SameSessions DEF RunnerAlive
<1>5. CASE Assign
  <2>1. Ongoing'
    <3>1. served \in Sessions /\ (Live(served) \/ clean[served] = "queued")
      BY <1>0, <1>5 DEF Assign, SysInv, Begun
    <3>2. UNCHANGED <<thr, clean>>
      BY <1>5 DEF Assign
    <3> QED BY <3>1, <3>2 DEF Ongoing, Live
  <2>2. CREATED \in SessionAlerts /\ CREATED # REQUEST /\ Resolves(CREATED)
    BY AlertTypes, Codes DEF Resolves
  <2>3. out' = Append(out, CREATED) /\ req = "assigning" /\ req' = "idle"
    BY <1>5 DEF Assign
  <2> QED BY <1>0, <2>1, <2>2, <2>3, RaisesOne
<1>6. CASE OnShutdown \/ HwServes
  BY <1>0, <1>6, RaisesNothing, SameSessions DEF OnShutdown, HwServes
<1>7. ASSUME NEW s \in Sessions,
             RunEnds(s) \/ CleanupActiveSession(s) \/ ScheduleCleanup(s) \/ BeginCleanup(s)
      PROVE  Parts'
  <2>1. UNCHANGED <<req, out>> /\ (Live(s)' \/ clean'[s] \in {"queued", "deactivating"})
    BY <1>0, <1>7 DEF RunEnds, CleanupActiveSession, ScheduleCleanup, BeginCleanup, Scheduled,
                      Live, SMTypeOK
  <2>2. Ongoing'
    BY <2>1 DEF Ongoing
  <2> QED BY <1>0, <2>1, <2>2, RaisesNothing
<1>8. ASSUME NEW s \in Sessions, SkipDeactivate(s) \/ EndCleanup(s) PROVE Parts'
  <2>1. CLOSED \in SessionAlerts /\ CLOSED \notin {REQUEST, CREATED}
    BY AlertTypes, Codes
  <2>2. out' = Append(out, CLOSED) /\ UNCHANGED req
    BY <1>0, <1>8, <2>1 DEF SkipDeactivate, EndCleanup, Closure, SMTypeOK
  <2>3. req # "assigning"
    BY <1>8 DEF SkipDeactivate, EndCleanup, ExecutorFree
  <2> QED BY <1>0, <2>1, <2>2, <2>3, RaisesOne
<1> QED
  BY <1>1, <1>2, <1>3, <1>4, <1>5, <1>6, <1>7, <1>8 DEF SMStep, SMNext, Handler, Cleanup

(* The alert server takes the first alert.                                  *)
LEMMA Taken ==
  ASSUME out \in Seq(SessionAlerts), out # <<>>, out' = Tail(out)
  PROVE  /\ Head(out) \in SessionAlerts /\ out' \in Seq(SessionAlerts)
         /\ 1 \in Places /\ out[1] = Head(out) /\ Places \subseteq Nat
         /\ \A i \in Places' : i + 1 \in Places /\ out'[i] = out[i + 1]
         /\ \A i \in Places : i # 1 => 1 < i /\ i - 1 \in Places' /\ out'[i - 1] = out[i]
<1>1. /\ Len(out) \in Nat \ {0} /\ Len(out') = Len(out) - 1
      /\ \A i \in 1 .. Len(out) - 1 : out'[i] = out[i + 1]
      /\ Head(out) = out[1] /\ Head(out) \in SessionAlerts
  BY WithoutHead
<1>2. out' \in Seq(SessionAlerts)
  OBVIOUS
<1> QED BY <1>1, <1>2 DEF Places

(* The machine follows the alert, and an alert that is suppressed is noted. *)
LEMMA Handled ==
  ASSUME SysInv, HandleAlert
  PROVE  LET a == Head(out) IN
         /\ out # <<>> /\ out' = Tail(out) /\ a \in SessionAlerts /\ muted \subseteq muted'
         /\ UNCHANGED <<nodeActive, served, req, active, thr, open, leaked, clean, hw, calls, reply>>
         /\ fsm' \in SystemState
         /\ status' \in [state : SystemState, legal : BOOLEAN, degraded : BOOLEAN]
         /\ \/ a \in lit /\ a.code \in muted' /\ muted' = muted \cup {a.code} /\ UNCHANGED <<fsm, lit>>
            \/ /\ lit' = Relit(a) /\ muted' = muted
               /\ fsm' = "CONNECTING" => a = REQUEST \/ (fsm = "CONNECTING" /\ ~Resolves(a))
               /\ fsm' = "ACTIVE" => a = CREATED \/ (fsm = "ACTIVE" /\ a # CLOSED)
<1> DEFINE a == Head(out)
           r == process_event(fsm, EventOf(a))
<1>1. /\ out \in Seq(SessionAlerts) /\ fsm \in SystemState
      /\ status \in [state : SystemState, legal : BOOLEAN, degraded : BOOLEAN]
  BY DEF SysInv, TypeOK, SMTypeOK
<1>2. out # <<>> /\ out' = Tail(out)
      /\ UNCHANGED <<nodeActive, served, req, active, thr, open, leaked, clean, hw, calls, reply>>
  BY DEF HandleAlert
<1>3. a \in SessionAlerts
  BY <1>1, <1>2, Taken
<1>4. \/ a \in lit /\ muted' = muted \cup {a.code} /\ UNCHANGED <<fsm, lit, status>>
      \/ /\ lit' = Relit(a) /\ fsm' = r.to /\ muted' = muted
         /\ status' = [state |-> r.to, degraded |-> lit' # {},
                       legal |-> r.op = "noop" \/ Legal(fsm, r.to)]
  BY DEF HandleAlert, Suppressed, EventOf
<1> HIDE DEF a
<1>5. r.to \in SystemState
  BY <1>1, <1>3, Moves
<1>6. CASE a \in lit /\ muted' = muted \cup {a.code} /\ UNCHANGED <<fsm, lit, status>>
  BY <1>1, <1>2, <1>3, <1>6 DEF a
<1>7. CASE /\ lit' = Relit(a) /\ fsm' = r.to /\ muted' = muted
           /\ status' = [state |-> r.to, degraded |-> lit' # {},
                         legal |-> r.op = "noop" \/ Legal(fsm, r.to)]
  <2>1. (r.op = "noop" \/ Legal(fsm, r.to)) \in BOOLEAN /\ (lit' # {}) \in BOOLEAN
    BY DEF Legal
  <2>2. status' \in [state : SystemState, legal : BOOLEAN, degraded : BOOLEAN]
    BY <1>5, <1>7, <2>1
  <2>3. /\ fsm' = "CONNECTING" => a = REQUEST \/ (fsm = "CONNECTING" /\ ~Resolves(a))
        /\ fsm' = "ACTIVE" => a = CREATED \/ (fsm = "ACTIVE" /\ a # CLOSED)
    BY <1>1, <1>3, <1>7, Moves
  <2> QED BY <1>2, <1>3, <1>5, <1>7, <2>2, <2>3 DEF a
<1> QED BY <1>4, <1>6, <1>7

LEMMA AlertTypesStep == SysInv /\ HandleAlert => TypeOK'
<1> SUFFICES ASSUME SysInv, HandleAlert PROVE TypeOK'
  OBVIOUS
<1> DEFINE a == Head(out)
<1>1. /\ out # <<>> /\ out' = Tail(out) /\ a \in SessionAlerts
      /\ UNCHANGED <<nodeActive, served, req, active, thr, open, leaked, clean, hw, calls, reply>>
      /\ fsm' \in SystemState
      /\ status' \in [state : SystemState, legal : BOOLEAN, degraded : BOOLEAN]
      /\ muted' \subseteq muted \cup {a.code} /\ (lit' = lit \/ lit' = Relit(a))
  BY Handled
<1> HIDE DEF a
<1>2. /\ SMTypeOK /\ lit \subseteq SessionAlerts /\ (\A b, c \in lit : b.code = c.code => b = c)
      /\ muted \subseteq {b.code : b \in SessionAlerts}
  BY DEF SysInv, TypeOK
<1>3. SMTypeOK'
  <2>1. out' \in Seq(SessionAlerts)
    BY <1>1, <1>2, Taken DEF SMTypeOK
  <2> QED BY <1>1, <1>2, <2>1 DEF SMTypeOK
<1>4. lit' \subseteq SessionAlerts /\ \A b, c \in lit' : b.code = c.code => b = c
  BY <1>1, <1>2 DEF Relit
<1>5. muted' \subseteq {b.code : b \in SessionAlerts}
  BY <1>1, <1>2
<1> QED BY <1>1, <1>3, <1>4, <1>5 DEF TypeOK

LEMMA AlertPartsStep == SysInv /\ HandleAlert => Parts'
<1> SUFFICES ASSUME SysInv, HandleAlert PROVE Parts'
  OBVIOUS
<1> DEFINE a == Head(out)
<1>1. /\ out # <<>> /\ out' = Tail(out) /\ muted \subseteq muted' /\ UNCHANGED <<req, thr, clean>>
      /\ \/ a \in lit /\ a.code \in muted' /\ UNCHANGED <<fsm, lit>>
         \/ /\ lit' = Relit(a)
            /\ fsm' = "CONNECTING" => a = REQUEST \/ (fsm = "CONNECTING" /\ ~Resolves(a))
            /\ fsm' = "ACTIVE" => a = CREATED \/ (fsm = "ACTIVE" /\ a # CLOSED)
  BY Handled
<1>2. /\ 1 \in Places /\ out[1] = a /\ Places \subseteq Nat
      /\ \A i \in Places' : i + 1 \in Places /\ out'[i] = out[i + 1]
      /\ \A i \in Places : i # 1 => 1 < i /\ i - 1 \in Places' /\ out'[i - 1] = out[i]
  <2>1. out \in Seq(SessionAlerts)
    BY DEF SysInv, TypeOK, SMTypeOK
  <2> QED BY <1>1, <2>1, Taken
<1> HIDE DEF a
<1>3. Places' \subseteq Nat /\ \A i \in Places' : i + 1 # 1
  BY DEF Places
<1>4. OneCreated /\ Resolving /\ Ending
  BY DEF SysInv
<1>5. a \in lit => a # CREATED
  BY <1>2, <1>4 DEF OneCreated
<1>6. OneCreated'
  <2>1. ASSUME NEW i \in Places', NEW j \in Places', out'[i] = CREATED, out'[j] = CREATED
        PROVE  i = j
    <3>1. i + 1 = j + 1
      BY <1>2, <1>4, <2>1 DEF OneCreated
    <3> QED BY <1>3, <3>1
  <2>2. a = CREATED => req # "assigning" /\ \A i \in Places' : out'[i] # CREATED
    BY <1>2, <1>3, <1>4 DEF OneCreated
  <2>3. CREATED \in lit' => a = CREATED \/ CREATED \in lit
    BY <1>1 DEF Relit
  <2>4. CREATED \in lit \/ req = "assigning" => \A i \in Places' : out'[i] # CREATED
    BY <1>2, <1>4 DEF OneCreated
  <2> QED BY <1>1, <1>4, <2>1, <2>2, <2>3, <2>4 DEF OneCreated
<1>7. Resolving'
  <2> SUFFICES ASSUME "ERR_SESSION_CREATION_FAILED" \notin muted', req' = "idle"
               PROVE  /\ fsm' = "CONNECTING" => \E i \in Places' : Resolves(out'[i])
                      /\ \A i \in Places' : out'[i] = REQUEST =>
                           \E j \in Places' : i < j /\ Resolves(out'[j])
    BY DEF Resolving, Resolves
  <2>1. /\ fsm = "CONNECTING" => \E i \in Places : Resolves(out[i])
        /\ \A i \in Places : out[i] = REQUEST => \E j \in Places : i < j /\ Resolves(out[j])
    BY <1>1, <1>4 DEF Resolving
  <2>2. ASSUME fsm' = "CONNECTING" PROVE \E i \in Places' : Resolves(out'[i])
    <3>1. a = REQUEST \/ (fsm = "CONNECTING" /\ ~Resolves(a))
      BY <1>1, <1>5, <2>2 DEF Resolves
    <3>2. \E i \in Places : i # 1 /\ Resolves(out[i])
      BY <1>2, <2>1, <3>1
    <3> QED BY <1>2, <3>2
  <2>3. ASSUME NEW i \in Places', out'[i] = REQUEST
        PROVE  \E j \in Places' : i < j /\ Resolves(out'[j])
    <3>1. PICK j \in Places : i + 1 < j /\ Resolves(out[j])
      BY <1>2, <2>1, <2>3
    <3>2. j # 1 /\ i < j - 1
      BY <1>2, <1>3, <3>1
    <3> QED BY <1>2, <3>1, <3>2
  <2> QED BY <2>2, <2>3
<1>8. Ending'
  <2> SUFFICES ASSUME "INF_SESSION_CLOSURE_OK" \notin muted', ~Ongoing'
               PROVE  /\ fsm' = "ACTIVE" => \E i \in Places' : out'[i] = CLOSED
                      /\ \A i \in Places' : out'[i] = CREATED =>
                           \E j \in Places' : i < j /\ out'[j] = CLOSED
    BY DEF Ending
  <2>1. /\ fsm = "ACTIVE" => \E i \in Places : out[i] = CLOSED
        /\ \A i \in Places : out[i] = CREATED => \E j \in Places : i < j /\ out[j] = CLOSED
    BY <1>1, <1>4, SameSessions DEF Ending
  <2>2. ASSUME fsm' = "ACTIVE" PROVE \E i \in Places' : out'[i] = CLOSED
    <3>1. a = CREATED \/ (fsm = "ACTIVE" /\ a # CLOSED)
      BY <1>1, <2>2, Codes
    <3>2. \E i \in Places : i # 1 /\ out[i] = CLOSED
      BY <1>2, <2>1, <3>1
    <3> QED BY <1>2, <3>2
  <2>3. ASSUME NEW i \in Places', out'[i] = CREATED
        PROVE  \E j \in Places' : i < j /\ out'[j] = CLOSED
    <3>1. PICK j \in Places : i + 1 < j /\ out[j] = CLOSED
      BY <1>2, <2>1, <2>3
    <3>2. j # 1 /\ i < j - 1
      BY <1>2, <1>3, <3>1
    <3> QED BY <1>2, <3>1, <3>2
  <2> QED BY <2>2, <2>3
<1> QED BY <1>6, <1>7, <1>8 DEF Parts

(* Every step of the system keeps the invariant.                            *)
LEMMA SysStep == SysInv /\ [Next]_vars => SysInv'
<1> SUFFICES ASSUME SysInv, [Next]_vars PROVE SysInv'
  OBVIOUS
<1>0. TypeOK /\ TypeInv /\ Begun
  BY DEF SysInv, TypeInv, TypeOK
<1>1. CASE SMStep
  <2>1. TypeInv' /\ Begun' /\ UNCHANGED sysVars
    BY <1>0, <1>1, TypeStep, BegunStep DEF SMStep
  <2>2. TypeOK'
    BY <1>0, <2>1 DEF TypeOK, TypeInv, sysVars
  <2> QED BY <1>1, <2>1, <2>2, SMPartsStep DEF SysInv, Parts, TypeInv
<1>2. CASE HandleAlert
  <2>1. AtWork' /\ Begun'
    BY <1>0, <1>2 DEF HandleAlert, TypeInv, AtWork, Begun, Live
  <2> QED BY <1>2, <2>1, AlertTypesStep, AlertPartsStep DEF SysInv, Parts
<1>3. CASE Expire
  <2>1. lit' \subseteq lit /\ UNCHANGED <<smVars, fsm, status, muted>>
    BY <1>3 DEF Expire
  <2>2. TypeInv' /\ Begun'
    BY <1>0, <2>1, TypeStep, BegunStep
  <2>3. TypeOK'
    BY <1>0, <2>1, <2>2 DEF TypeOK, TypeInv
  <2>4. UNCHANGED <<out, req, thr, clean>> /\ Places' = Places
    BY <2>1 DEF smVars, Places
  <2>5. OneCreated'
    BY <2>1, <2>4 DEF SysInv, OneCreated
  <2>6. Resolving' /\ Ending'
    BY <2>1, <2>4, SameSessions DEF SysInv, Resolving, Ending
  <2> QED BY <2>2, <2>3, <2>5, <2>6 DEF SysInv, TypeInv
<1>4. CASE UNCHANGED vars
  <2>1. UNCHANGED <<smVars, sysVars>>
    BY <1>4 DEF vars
  <2>2. TypeInv' /\ Begun'
    BY <1>0, <2>1, TypeStep, BegunStep
  <2>3. TypeOK'
    BY <1>0, <2>1, <2>2 DEF TypeOK, TypeInv, sysVars
  <2>4. UNCHANGED <<out, req, thr, clean>> /\ UNCHANGED <<fsm, lit, muted>> /\ Places' = Places
    BY <2>1 DEF smVars, sysVars, Places
  <2>5. OneCreated'
    BY <2>4 DEF SysInv, OneCreated
  <2>6. Resolving' /\ Ending'
    BY <2>4, SameSessions DEF SysInv, Resolving, Ending
  <2> QED BY <2>2, <2>3, <2>5, <2>6 DEF SysInv, TypeInv
<1> QED BY <1>1, <1>2, <1>3, <1>4 DEF Next

(* Type correctness of the composed system.                                 *)
THEOREM SystemTypeCorrect == Spec => []TypeOK
<1>1. SysInv => TypeOK
  BY DEF SysInv
<1> QED BY <1>1, SysInit, SysStep, PTL DEF Spec

(* For any number of requests, refused, failed, timed out or overlapping    *)
(* with the clean up of earlier sessions, the machine that has settled is   *)
(* not left in CONNECTING, unless a failure's alert was suppressed          *)
(* (create_session_srv_cb, AlertServer's deduplication, process_event).     *)
THEOREM ConnectingAlwaysEnds == Spec => []ConnectingEnds
<1>1. SysInv => ConnectingEnds
  <2> SUFFICES ASSUME SysInv, Settled, "ERR_SESSION_CREATION_FAILED" \notin muted
               PROVE  fsm # "CONNECTING"
    BY DEF ConnectingEnds
  <2>1. Places = {} /\ req = "idle"
    BY DEF Settled, Places
  <2> QED BY <2>1 DEF SysInv, Resolving
<1> QED BY <1>1, SysInit, SysStep, PTL DEF Spec

(* For any number of requests, the machine that has settled in ACTIVE has a *)
(* session that runs, unless a closure's alert was suppressed: the CLOSED   *)
(* of a session never comes before its own CREATED, even if its thread ends *)
(* while new_session is still starting it (new_session, cleanup_session,    *)
(* process_event).                                                          *)
THEOREM ActiveAlwaysHasSession == Spec => []ActiveHasSession
<1>1. SysInv => ActiveHasSession
  <2> SUFFICES ASSUME SysInv, Settled, fsm = "ACTIVE", "INF_SESSION_CLOSURE_OK" \notin muted
               PROVE  SessionRuns
    BY DEF ActiveHasSession
  <2>1. Places = {}
    BY DEF Settled, Places
  <2>2. Ongoing
    BY <2>1 DEF SysInv, Ending
  <2> QED BY <2>2 DEF Ongoing, Settled, Live, SessionRuns
<1> QED BY <1>1, SysInit, SysStep, PTL DEF Spec

(* The hardware of a running session stays armed in the composed system     *)
(* too: nothing the alert server does reaches the lifecycle calls.          *)
THEOREM SystemArmedWhileRunning == Spec => []ArmedWhileRunning
<1>1. Init => SysInv /\ HolderInv
  BY SysInit, HolderInit DEF Init
<1>2. SysInv /\ HolderInv /\ [Next]_vars => SysInv' /\ HolderInv'
  <2> SUFFICES ASSUME SysInv, SysInv', HolderInv, [Next]_vars PROVE HolderInv'
    BY SysStep
  <2>1. CASE SMStep \/ UNCHANGED vars
    BY <2>1, HolderStep DEF SMStep, vars
  <2>2. CASE HandleAlert \/ Expire
    <3>1. UNCHANGED <<served, req, thr, clean, hw, calls, reply>>
      BY <2>2 DEF HandleAlert, Expire, smVars
    <3>2. TypeInv'
      BY DEF SysInv, TypeOK, TypeInv
    <3>3. \A s \in Sessions : (Holds(s)' <=> Holds(s)) /\ (Queued(s)' <=> Queued(s))
      BY <3>1 DEF Holds, Live, Queued, Deactivate
    <3>4. SentOnce' /\ InTurn'
      BY <3>1, <3>3 DEF HolderInv, SentOnce, InTurn, Deactivate
    <3> QED BY <3>1, <3>2, <3>3, <3>4 DEF HolderInv, OneHolder, HolderArmed
  <2> QED BY <2>1, <2>2 DEF Next
<1>3. HolderInv => ArmedWhileRunning
  BY DEF HolderInv, HolderArmed, Holds, Live, ArmedWhileRunning
<1> QED BY <1>1, <1>2, <1>3, PTL DEF Spec
=============================================================================
