---------------------------- MODULE AlertServer -----------------------------
(***************************************************************************)
(* SysAlertsServer (server.py) and one SysAlertsClient (client.py).  The   *)
(* table and the start times are two dictionaries without a lock.  Three   *)
(* threads of the supervisor's executor change them: the subscription to   *)
(* the request topic, the default group (expiry timer and process events)  *)
(* and the heartbeats.  The comment "prevents race between change and      *)
(* requests" covers the first one only: the threads interleave here at     *)
(* every access to the dictionaries.                                       *)
(***************************************************************************)
EXTENDS Alerts, Sequences

CONSTANTS
  Raisable,    \* the alerts that nodes raise
  Depth,       \* queue depth of the change topic: 10
  MaxRaises    \* bound: raises in a behaviour

ASSUME AlertServerAssumption ==
  /\ Raisable \subseteq Alert
  /\ Depth \in Nat \ {0} /\ MaxRaises \in Nat

VARIABLES
  table,   \* _active_alerts
  age,     \* time since _alert_started_at
  job,     \* job[t]: the callback that thread t is running
  told,    \* the table as the supervisor's on_alert_change callback knows it
  err,     \* the exception that ended the process, if any
  raced,   \* history: codes that two callbacks were at work on at once
  joined,  \* is the client subscribed?
  missed,  \* history: codes whose last change went out when it was not
  feed,    \* the change topic, towards the client
  mirror,  \* SysAlertsClient._active_alerts
  raises   \* raises so far

vars == <<table, age, job, told, err, raced, joined, missed, feed, mirror, raises>>

Threads == {"requests", "default", "heartbeat"}
Entry == Alert \cup {None}
Job == [pc : {"idle", "write", "stamp", "lookup", "pop", "unstamp", "publish", "notify", "scan", "next"},
        code : Codes \cup {None}, alert : Entry, current : Entry,
        todo : SUBSET Codes, seen : Nat]
NewJob(pc, code, alert, current, seen) ==
  [pc |-> pc, code |-> code, alert |-> alert, current |-> current, todo |-> {}, seen |-> seen]
IdleJob == NewJob("idle", None, None, None, 0)

Applying == {"write", "stamp", "lookup", "pop", "unstamp", "publish", "notify"}

(* The codes that a callback is at work on, or is going to clear.           *)
Works(t, c) == (job[t].pc \in Applying /\ job[t].code = c) \/ c \in job[t].todo
Overlaps(t, C) == {c \in C : \E u \in Threads \ {t} : Works(u, c)}

Active == {c \in Codes : table[c] # None}
MayBegin(t) == err = "none" /\ job[t].pc = "idle"
At(t, pc) == err = "none" /\ job[t].pc = pc

Init ==
  /\ table = [c \in Codes |-> None] /\ age = [c \in Codes |-> Unstamped]
  /\ job = [t \in Threads |-> IdleJob]
  /\ told = [c \in Codes |-> None] /\ err = "none" /\ raced = {}
  /\ joined \in BOOLEAN /\ missed = {} /\ feed = <<>> /\ mirror = [c \in Codes |-> None]
  /\ raises = 0

Goto(t, pc) == job' = [job EXCEPT ![t].pc = pc]
(* The end of _apply_change: the next expired alert, or the callback's end. *)
Return(t) ==
  IF job[t].todo = {} THEN job' = [job EXCEPT ![t] = IdleJob] ELSE Goto(t, "next")

-----------------------------------------------------------------------------
(* _apply_change(RAISE): the current entry is read, then the table and the  *)
(* start time are written, in this order.                                   *)
BeginRaise(t, a) ==
  /\ MayBegin(t) /\ raises < MaxRaises
  /\ job' = [job EXCEPT ![t] = NewJob("write", a.code, a, table[a.code], 0)]
  /\ raises' = raises + 1
  /\ raced' = raced \cup Overlaps(t, {a.code})
  /\ UNCHANGED <<table, age, told, err, joined, missed, feed, mirror>>

WriteTable(t) ==
  /\ At(t, "write")
  /\ table' = [table EXCEPT ![job[t].code] = job[t].alert]
  /\ Goto(t, "stamp")
  /\ UNCHANGED <<age, told, err, raced, joined, missed, feed, mirror, raises>>

(* Seeded faults: the ttl is stored for the start time; every raise is      *)
(* suppressed that has the code of an active alert.                         *)
FreshAge_Ttl(t) == job[t].alert.ttl
FreshAge(t) == 0
Unchanged_ByCode(t) == job[t].current # None
Unchanged(t) == job[t].current = job[t].alert

Stamp(t) ==
  /\ At(t, "stamp")
  /\ age' = [age EXCEPT ![job[t].code] = FreshAge(t)]
  /\ IF Unchanged(t) THEN Return(t) ELSE Goto(t, "publish")
  /\ UNCHANGED <<table, told, err, raced, joined, missed, feed, mirror, raises>>

(* _apply_change(CLEAR), by request. *)
BeginClear(c) ==
  /\ MayBegin("requests")
  /\ job' = [job EXCEPT !["requests"] = NewJob("lookup", c, None, None, 0)]
  /\ raced' = raced \cup Overlaps("requests", {c})
  /\ UNCHANGED <<table, age, told, err, joined, missed, feed, mirror, raises>>

(* Seeded fault: an alert that is not active is cleared all the same. *)
IsActive_Always(c) == TRUE
IsActive(c) == table[c] # None

Lookup(t) ==
  /\ At(t, "lookup")
  /\ IF IsActive(job[t].code) THEN Goto(t, "pop") ELSE Return(t)
  /\ UNCHANGED <<table, age, told, err, raced, joined, missed, feed, mirror, raises>>

(* dict.pop without a default: another thread may have been faster.         *)
Pop(t) ==
  /\ At(t, "pop")
  /\ IF table[job[t].code] = None
     THEN err' = "KeyError" /\ UNCHANGED <<table, job>>
     ELSE table' = [table EXCEPT ![job[t].code] = None] /\ Goto(t, "unstamp") /\ UNCHANGED err
  /\ UNCHANGED <<age, told, raced, joined, missed, feed, mirror, raises>>

(* Seeded fault: the start time stays. *)
NoAge_Kept(t) == age[job[t].code]
NoAge(t) == Unstamped

Unstamp(t) ==
  /\ At(t, "unstamp")
  /\ age' = [age EXCEPT ![job[t].code] = NoAge(t)]
  /\ Goto(t, "publish")
  /\ UNCHANGED <<table, told, err, raced, joined, missed, feed, mirror, raises>>

(* The topic keeps its last Depth messages. *)
KeepLast(q) == IF Len(q) > Depth THEN Tail(q) ELSE q

(* Seeded fault: clears are not republished. *)
Published_RaisesOnly(t) ==
  IF job[t].alert = None THEN feed ELSE KeepLast(Append(feed, Change(job[t].code, job[t].alert)))
Published(t) == KeepLast(Append(feed, Change(job[t].code, job[t].alert)))

Publish(t) ==
  /\ At(t, "publish")
  /\ feed' = IF joined THEN Published(t) ELSE feed
  /\ Goto(t, "notify")
  /\ missed' = IF joined THEN missed \ {job[t].code} ELSE missed \cup {job[t].code}
  /\ UNCHANGED <<table, age, told, err, raced, joined, mirror, raises>>

Notify(t) ==
  /\ At(t, "notify")
  /\ told' = [told EXCEPT ![job[t].code] = job[t].alert]
  /\ Return(t)
  /\ UNCHANGED <<table, age, err, raced, joined, missed, feed, mirror, raises>>

-----------------------------------------------------------------------------
(* _expire_alerts: the table is iterated, which raises when its size        *)
(* changes meanwhile, and then each alert found is cleared.                 *)
BeginExpire ==
  /\ MayBegin("default")
  /\ job' = [job EXCEPT !["default"] = NewJob("scan", None, None, None, Cardinality(Active))]
  /\ UNCHANGED <<table, age, told, err, raced, joined, missed, feed, mirror, raises>>

(* Seeded faults: an alert is never old enough; it is one tick too soon.    *)
Ripe_Never(c) == FALSE
Ripe_Early(c) == table[c].ttl # Forever /\ age[c] # Unstamped /\ age[c] + 1 >= table[c].ttl
Ripe(c) == table[c].ttl # Forever /\ age[c] # Unstamped /\ age[c] >= table[c].ttl

Scan ==
  /\ At("default", "scan")
  /\ IF Cardinality(Active) # job["default"].seen
     THEN err' = "RuntimeError" /\ UNCHANGED <<job, raced>>
     ELSE LET ripe == {c \in Active : Ripe(c)} IN
          /\ job' = IF ripe = {} THEN [job EXCEPT !["default"] = IdleJob]
                    ELSE [job EXCEPT !["default"].pc = "next", !["default"].todo = ripe]
          /\ raced' = raced \cup Overlaps("default", ripe)
          /\ UNCHANGED err
  /\ UNCHANGED <<table, age, told, joined, missed, feed, mirror, raises>>

ClearNext(j, c) == [j EXCEPT !.pc = "lookup", !.code = c, !.alert = None, !.todo = j.todo \ {c}]
ClearExpired ==
  /\ At("default", "next")
  /\ \E c \in job["default"].todo :
        job' = [job EXCEPT !["default"] = ClearNext(job["default"], c)]
  /\ UNCHANGED <<table, age, told, err, raced, joined, missed, feed, mirror, raises>>

-----------------------------------------------------------------------------
(* The client: _handle_change.  A late one has missed what went before.     *)
Join ==
  /\ ~joined /\ joined' = TRUE
  /\ UNCHANGED <<table, age, job, told, err, raced, missed, feed, mirror, raises>>

HandleChange ==
  /\ feed # <<>>
  /\ mirror' = [mirror EXCEPT ![Head(feed).code] = Head(feed).alert]
  /\ feed' = Tail(feed)
  /\ UNCHANGED <<table, age, job, told, err, raced, joined, missed, raises>>

Tick ==
  /\ age' = [c \in Codes |-> Older(age[c])]
  /\ UNCHANGED <<table, job, told, err, raced, joined, missed, feed, mirror, raises>>

Step(t) ==
  \/ WriteTable(t) \/ Stamp(t) \/ Lookup(t) \/ Pop(t) \/ Unstamp(t) \/ Publish(t) \/ Notify(t)
  \/ t = "default" /\ (Scan \/ ClearExpired)

Next ==
  \/ \E t \in Threads : (\E a \in Raisable : BeginRaise(t, a)) \/ Step(t)
  \/ \E c \in ClearCodes : BeginClear(c)
  \/ BeginExpire \/ Join \/ HandleChange \/ Tick

(* Callbacks that have begun run on, time passes and messages arrive.  The  *)
(* expiry timer is ready every 0.1 s, and the executor serves every ready   *)
(* entity of a wait set before it waits again: requests do not starve it.   *)
Fairness ==
  /\ \A t \in Threads : WF_vars(Step(t))
  /\ SF_vars(BeginExpire) /\ WF_vars(Tick) /\ WF_vars(HandleChange)

Spec == Init /\ [][Next]_vars
FairSpec == Spec /\ Fairness

-----------------------------------------------------------------------------
(* Every variable has its type. *)
TypeOK ==
  /\ table \in [Codes -> Entry] /\ told \in [Codes -> Entry] /\ mirror \in [Codes -> Entry]
  /\ age \in [Codes -> -1 .. MaxTtl]
  /\ job \in [Threads -> Job]
  /\ err \in {"none", "KeyError", "RuntimeError"}
  /\ joined \in BOOLEAN /\ raced \subseteq Codes /\ missed \subseteq Codes
  /\ feed \in Seq(Changes) /\ Len(feed) <= Depth
  /\ raises \in Nat

(* A raise takes effect when its start time is written (the supervisor     *)
(* still knows the entry from before), a clear when it is popped; the       *)
(* change is then pending until it is published.                            *)
Changing(c, pcs) == \E t \in Threads : job[t].pc \in pcs /\ job[t].code = c
AbsTable == [c \in Codes |-> IF Changing(c, {"stamp"}) THEN told[c] ELSE table[c]]
AbsAge == [c \in Codes |-> IF Changing(c, {"unstamp"}) THEN Unstamped ELSE age[c]]
AbsPending == {c \in Codes : Changing(c, {"unstamp", "publish"})}

Abs == INSTANCE AlertTable WITH table <- AbsTable, age <- AbsAge, pending <- AbsPending, torn <- raced

(* However the threads interleave, _apply_change and _expire_alerts do in   *)
(* several steps what the indivisible operations of AlertTable do, to every *)
(* code but those that two callbacks were at work on at the same time.      *)
ImplementsTable == Abs!TableSpec

(* The client's copy is what the server's table was, some published changes *)
(* ago ("so all clients can mirror it", server.py): for every code whose    *)
(* last change the client was subscribed for and no two callbacks raced on. *)
MirrorFollows == Abs!FeedCompletesMirror

(* A client that subscribed late misses alerts, but not for ever, unless    *)
(* they never expire: the clear is published whether or not the client      *)
(* knows the alert (_handle_change pops with a default).                    *)
Disturbed(c) == c \in raced \/ err # "none"
MirrorHeals ==
  \A c \in Codes :
    []<>(mirror[c] = table[c] \/ (table[c] # None /\ table[c].ttl = Forever) \/ Disturbed(c))

(* When no callback is at work on a code, and no two ever were at the same  *)
(* time, the supervisor has been told of its last change: what it heard is  *)
(* the code's entry (_change_callback, after _publish_change), whatever     *)
(* callbacks do to other codes meanwhile.                                   *)
AtRest(c) == c \notin raced /\ \A t \in Threads : ~Works(t, c)
ToldTheTruth == \A c \in Codes : AtRest(c) => told[c] = table[c]

(* Then, too, the alert is active if and only if it has a start time:       *)
(* without one it would never expire (_expire_alerts skips it).             *)
AgesKept == \A c \in Codes : AtRest(c) => (table[c] # None <=> age[c] # Unstamped)

(* The pop of a clear raises only where two callbacks are at work on one    *)
(* code: nothing else comes between it and the check before it.             *)
KeyErrorNeedsRace == err = "KeyError" => raced # {}

(* An alert with a ttl goes out by itself, once raised for the last time,   *)
(* unless two callbacks raced on it or an exception has ended the server.   *)
HasTtl(c) == table[c] # None /\ table[c].ttl # Forever
TtlEnds == \A c \in Codes : HasTtl(c) ~> (~HasTtl(c) \/ Disturbed(c))

(* "viene spento in automatico allo scadere del suo ttl"                    *)
(* (docs/system_alerts.md), races or not, while the server lives.  It does  *)
(* not hold: a raise between the pop and the removal of the start time in a *)
(* clear leaves the alert active without one, and it stays on for ever.     *)
TtlAlwaysEnds == \A c \in Codes : HasTtl(c) ~> (~HasTtl(c) \/ err # "none")

(* No exception leaves a callback ("prevents race between change and        *)
(* requests", server.py): it does not hold, for the pop of a clear and the  *)
(* iteration of _expire_alerts race with the callbacks of other groups.     *)
NoException == err = "none"
=============================================================================
