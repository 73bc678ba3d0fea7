------------------------- MODULE AlertServerProofs --------------------------
(***************************************************************************)
(* The alert server under every interleaving of its threads, for any       *)
(* alerts and any number of raises.  Of each code that no two callbacks    *)
(* were at work on at once, it keeps the two dictionaries in step and      *)
(* tells the supervisor every change; and it implements AlertTable.        *)
(***************************************************************************)
EXTENDS AlertServer, FiniteSetTheorems, TLAPS

(* A job that deals with one alert has its code. *)
HasCode ==
  \A t \in Threads :
    job[t].pc \in {"write", "stamp", "lookup", "pop", "unstamp", "publish", "notify"}
       => job[t].code \in Codes

(* The jobs that callbacks begin with are jobs, and so is a running one at  *)
(* its next step.                                                           *)
LEMMA Jobs ==
  /\ IdleJob \in Job /\ IdleJob.pc = "idle" /\ IdleJob.todo = {}
  /\ \A a \in Raisable : a \in Alert /\ a.code \in Codes
  /\ TypeOK => \A a \in Raisable : NewJob("write", a.code, a, table[a.code], 0) \in Job
  /\ \A c \in Codes : NewJob("lookup", c, None, None, 0) \in Job
  /\ \A n \in Nat : NewJob("scan", None, None, None, n) \in Job
<1> USE DEF NewJob, IdleJob, Job, Entry
<1>1. \A a \in Raisable : a \in Alert /\ a.code \in Codes
  BY AlertServerAssumption DEF Alert
<1>2. ASSUME TypeOK, NEW a \in Raisable PROVE NewJob("write", a.code, a, table[a.code], 0) \in Job
  BY <1>1, <1>2 DEF TypeOK
<1> QED BY <1>1, <1>2

(* The thread that takes a step changes its own job, and only where it is.  *)
LEMMA GotoFacts ==
  ASSUME job \in [Threads -> Job], NEW t \in Threads,
         NEW pc \in {"stamp", "pop", "unstamp", "publish", "notify", "next"}, Goto(t, pc)
  PROVE  /\ job' \in [Threads -> Job]
         /\ job'[t].pc = pc /\ job'[t].code = job[t].code /\ job'[t].alert = job[t].alert
         /\ job'[t].current = job[t].current /\ job'[t].todo = job[t].todo
         /\ \A u \in Threads \ {t} : job'[u] = job[u]
<1>1. job[t] \in Job
  OBVIOUS
<1>2. job' = [job EXCEPT ![t] = [job[t] EXCEPT !.pc = pc]]
  BY DEF Goto
<1>3. [job[t] EXCEPT !.pc = pc] \in Job
  BY <1>1 DEF Job
<1>4. job' \in [Threads -> Job] /\ job'[t] = [job[t] EXCEPT !.pc = pc]
  BY <1>2, <1>3
<1>5. \A u \in Threads \ {t} : job'[u] = job[u]
  BY <1>2
<1>6. LET j == [job[t] EXCEPT !.pc = pc] IN
      /\ j.pc = pc /\ j.code = job[t].code /\ j.alert = job[t].alert
      /\ j.current = job[t].current /\ j.todo = job[t].todo
  BY <1>1 DEF Job
<1> QED BY <1>4, <1>5, <1>6

(* At the end of _apply_change the job is idle, or about to clear the next. *)
LEMMA ReturnFacts ==
  ASSUME job \in [Threads -> Job], NEW t \in Threads, Return(t)
  PROVE  /\ job' \in [Threads -> Job]
         /\ job'[t].todo = job[t].todo
         /\ job'[t].pc = IF job[t].todo = {} THEN "idle" ELSE "next"
         /\ \A u \in Threads \ {t} : job'[u] = job[u]
<1>1. CASE job[t].todo = {}
  BY <1>1, Jobs DEF Return
<1>2. CASE job[t].todo # {}
  BY <1>2, GotoFacts DEF Return
<1> QED BY <1>1, <1>2

(* The number of active alerts is a number. *)
LEMMA ActiveIsFinite == Cardinality(Active) \in Nat
  BY AlertAssumption, FS_Subset, FS_CardinalityType DEF Active

(* A feed that is cut to Depth is one of at most Depth changes. *)
LEMMA KeepLastFacts ==
  ASSUME NEW q \in Seq(Changes), Len(q) <= Depth, NEW m \in Changes
  PROVE  /\ KeepLast(Append(q, m)) \in Seq(Changes)
         /\ Len(KeepLast(Append(q, m))) <= Depth
         /\ Len(q) < Depth => KeepLast(Append(q, m)) = Append(q, m)
<1>1. Append(q, m) \in Seq(Changes) /\ Len(Append(q, m)) = Len(q) + 1 /\ Len(q) \in Nat
  OBVIOUS
<1>2. Append(q, m) # <<>>
  BY <1>1
<1>3. Tail(Append(q, m)) \in Seq(Changes) /\ Len(Tail(Append(q, m))) = Len(q)
  BY <1>1, <1>2
<1> QED BY <1>1, <1>3, AlertServerAssumption DEF KeepLast

-----------------------------------------------------------------------------
TypeInv == TypeOK /\ HasCode

(* Init: nothing is active and every thread is idle. *)
LEMMA TypeInit == Init => TypeInv
  BY Jobs, AlertAssumption, AlertServerAssumption
     DEF Init, TypeInv, TypeOK, HasCode, Entry, IdleJob, NewJob, Unstamped

(* No step of a callback, the client or the clock leaves the types.         *)
LEMMA TypeStep == TypeInv /\ [Next]_vars => TypeInv'
<1> SUFFICES ASSUME TypeInv, [Next]_vars PROVE TypeInv'
  OBVIOUS
<1> USE AlertAssumption, AlertServerAssumption DEF TypeInv, TypeOK, HasCode
<1>1. ASSUME NEW t \in Threads, NEW a \in Raisable, BeginRaise(t, a) PROVE TypeInv'
  BY <1>1, Jobs DEF BeginRaise, NewJob, Overlaps
<1>2. ASSUME NEW c \in ClearCodes, BeginClear(c) PROVE TypeInv'
  BY <1>2, Jobs DEF BeginClear, NewJob, Threads, Overlaps
<1>3. CASE BeginExpire
  BY <1>3, Jobs, ActiveIsFinite DEF BeginExpire, NewJob, Threads
<1>4. ASSUME NEW t \in Threads, Step(t) PROVE TypeInv'
  <2>0. job[t] \in Job /\ job[t].alert \in Entry /\ job[t].code \in Codes \cup {None}
    BY DEF Job
  <2>r. ASSUME Return(t) PROVE job' \in [Threads -> Job] /\ HasCode'
    BY <2>r, ReturnFacts
  <2>g. ASSUME NEW pc \in {"stamp", "pop", "unstamp", "publish", "notify"}, Goto(t, pc),
               job[t].code \in Codes
        PROVE  job' \in [Threads -> Job] /\ HasCode'
    <3>1. /\ job' \in [Threads -> Job] /\ job'[t].code = job[t].code
          /\ \A u \in Threads \ {t} : job'[u] = job[u]
      BY <2>g, GotoFacts
    <3> QED BY <2>g, <3>1
  <2>1. CASE WriteTable(t)
    BY <2>0, <2>1, <2>g DEF WriteTable, At
  <2>2. CASE Stamp(t)
    BY <2>0, <2>2, <2>r, <2>g DEF Stamp, At, FreshAge
  <2>3. CASE Lookup(t)
    BY <2>0, <2>3, <2>r, <2>g DEF Lookup, At
  <2>4. CASE Pop(t)
    BY <2>0, <2>4, <2>g DEF Pop, At, Entry
  <2>5. CASE Unstamp(t)
    BY <2>0, <2>5, <2>g DEF Unstamp, At, NoAge, Unstamped
  <2>6. CASE Publish(t)
    <3>1. Change(job[t].code, job[t].alert) \in Changes
      BY <2>0, <2>6 DEF Publish, At, Change, Changes, Entry
    <3>2. feed' \in Seq(Changes) /\ Len(feed') <= Depth
      BY <2>6, <3>1, KeepLastFacts DEF Publish, Published
    <3> QED BY <2>0, <2>6, <3>2, <2>g DEF Publish, At
  <2>7. CASE Notify(t)
    BY <2>0, <2>7, <2>r DEF Notify, At
  <2>8. CASE t = "default" /\ Scan
    <3> DEFINE ripe == {c \in Active : Ripe(c)}
               j == [job[t] EXCEPT !.pc = "next", !.todo = ripe]
    <3>1. j \in Job /\ j.pc = "next"
      BY <2>0 DEF Job, Active
    <3>2. job' = job \/ job' = [job EXCEPT ![t] = IdleJob] \/ job' = [job EXCEPT ![t] = j]
      BY <2>8 DEF Scan
    <3> HIDE DEF j
    <3>3. job' \in [Threads -> Job] /\ HasCode'
      BY <3>1, <3>2, Jobs
    <3>4. raced' \subseteq Codes
      BY <2>8 DEF Scan, Overlaps, Active
    <3> QED BY <2>8, <3>3, <3>4 DEF Scan
  <2>9. CASE t = "default" /\ ClearExpired
    <3>1. PICK c \in job[t].todo : job' = [job EXCEPT ![t] = ClearNext(job[t], c)]
      BY <2>9 DEF ClearExpired
    <3>2. ClearNext(job[t], c) \in Job /\ ClearNext(job[t], c).code \in Codes
      BY <2>0 DEF ClearNext, Job, Entry
    <3>3. job' \in [Threads -> Job] /\ HasCode'
      BY <3>1, <3>2
    <3> QED BY <2>9, <3>3 DEF ClearExpired
  <2> QED BY <1>4, <2>1, <2>2, <2>3, <2>4, <2>5, <2>6, <2>7, <2>8, <2>9 DEF Step
<1>5. CASE Join
  BY <1>5 DEF Join
<1>6. CASE HandleChange
  <2>1. Head(feed) \in Changes /\ Tail(feed) \in Seq(Changes) /\ Len(Tail(feed)) <= Depth
    BY <1>6 DEF HandleChange
  <2>2. Head(feed).alert \in Entry
    BY <2>1 DEF Changes, Entry
  <2> QED BY <1>6, <2>1, <2>2 DEF HandleChange
<1>7. CASE Tick
  BY <1>7 DEF Tick, Older, Unstamped
<1>8. CASE UNCHANGED vars
  BY <1>8 DEF vars
<1> QED BY <1>1, <1>2, <1>3, <1>4, <1>5, <1>6, <1>7, <1>8 DEF Next

(* Every variable has its type, however the threads interleave.             *)
THEOREM TypeCorrect == Spec => []TypeOK
<1>1. TypeInv => TypeOK
  BY DEF TypeInv
<1> QED BY <1>1, TypeInit, TypeStep, PTL DEF Spec

-----------------------------------------------------------------------------
(* The safety argument, code by code.  What a callback knows of a code is   *)
(* still so while it is the only one at work on it: the entry it read, the  *)
(* one it wrote, the alerts it found ripe, and that the one it clears may   *)
(* be cleared.                                                              *)
MayRemove(c) == c \in ClearCodes \/ Ripe(c)
Knows(t, c) ==
  LET j == job[t] IN
  /\ j.code = c =>
       /\ j.pc = "write" => j.current = table[c]
       /\ j.pc = "stamp" => told[c] = j.current
       /\ j.pc \in {"stamp", "unstamp", "publish", "notify"} => table[c] = j.alert
       /\ j.pc = "pop" => table[c] # None
       /\ j.pc \in {"lookup", "pop"} /\ table[c] # None => MayRemove(c)
  /\ c \in j.todo => table[c] # None /\ Ripe(c)

(* The dictionaries and the supervisor's knowledge of a code agree, but for *)
(* a callback that is changing it.                                          *)
InStep(c) ==
  /\ ~Changing(c, {"stamp", "unstamp"}) => (table[c] # None <=> age[c] # Unstamped)
  /\ ~Changing(c, {"stamp", "unstamp", "publish", "notify"}) => told[c] = table[c]

Sole(c) == \A t, u \in Threads : Works(t, c) /\ Works(u, c) => t = u
Orderly(c) == Sole(c) /\ (\A t \in Threads : Knows(t, c)) /\ InStep(c)

(* What the position of a job says of its other fields. *)
Shape(j) ==
  /\ j.pc \in {"write", "stamp"} => j.alert \in Alert /\ j.code = j.alert.code
  /\ j.pc \in {"lookup", "pop", "unstamp"} => j.alert = None
  /\ j.pc = "next" => j.todo # {}
  /\ j.pc \in {"idle", "write", "stamp", "scan"} => j.todo = {}
  /\ j.pc \in Applying => j.code \notin j.todo

RaceInv ==
  /\ TypeInv
  /\ \A t \in Threads : Shape(job[t])
  /\ \A c \in Codes \ raced : Orderly(c)
  /\ KeyErrorNeedsRace

(* Init: no callback is running and the dictionaries are empty. *)
LEMMA RaceInit == Init => RaceInv
<1> SUFFICES ASSUME Init PROVE RaceInv
  OBVIOUS
<1>1. TypeInv /\ \A t \in Threads : job[t] = IdleJob
  BY TypeInit DEF Init
<1>2. \A t \in Threads : job[t].pc = "idle" /\ job[t].todo = {}
  BY <1>1, Jobs
<1>3. \A t \in Threads : Shape(job[t])
  BY <1>2 DEF Shape, Applying
<1>4. ASSUME NEW c \in Codes PROVE Orderly(c)
  BY <1>2 DEF Init, Orderly, Sole, Works, Applying, Knows, InStep
<1> QED BY <1>1, <1>3, <1>4 DEF Init, RaceInv, KeyErrorNeedsRace

(* A step of one thread has to be looked at for that thread only, and for   *)
(* the codes it is at work on, where no other thread is.                    *)
OrderlyFor(t, c) ==
  LET j == job[t] IN
  /\ Knows(t, c)
  /\ (table[c] # None <=> age[c] # Unstamped) \/ (j.pc \in {"stamp", "unstamp"} /\ j.code = c)
  /\ told[c] = table[c] \/ (j.pc \in {"stamp", "unstamp", "publish", "notify"} /\ j.code = c)

LEMMA OneThread ==
  ASSUME NEW t \in Threads, NEW c \in Codes, Orderly(c),
         \A u \in Threads \ {t} : job'[u] = job[u],
         Works(t, c) \/ ~Works(t, c)' \/ \A u \in Threads \ {t} : ~Works(u, c),
         OrderlyFor(t, c) /\ (Works(t, c) \/ Works(t, c)') => OrderlyFor(t, c)',
         ~Works(t, c) /\ ~Works(t, c)'
           => table'[c] = table[c] /\ age'[c] = age[c] /\ told'[c] = told[c]
  PROVE  Orderly(c)'
<1>0. \A u \in Threads \ {t} : Works(u, c)' <=> Works(u, c)
  BY DEF Works
<1>1. CASE \A u \in Threads \ {t} : ~Works(u, c)
  <2>1. Sole(c)'
    BY <1>0, <1>1 DEF Sole
  <2>2. \A u \in Threads \ {t} : Knows(u, c)'
    BY <1>0, <1>1 DEF Knows, Works, Applying
  <2>3. ASSUME NEW pcs, pcs \subseteq Applying
        PROVE  /\ Changing(c, pcs) <=> job[t].pc \in pcs /\ job[t].code = c
               /\ Changing(c, pcs)' <=> job'[t].pc \in pcs /\ job'[t].code = c
    BY <1>0, <1>1, <2>3 DEF Changing, Works
  <2>4. {"stamp", "unstamp"} \subseteq Applying /\ {"stamp", "unstamp", "publish", "notify"} \subseteq Applying
    BY DEF Applying
  <2>5. OrderlyFor(t, c)
    BY <2>3, <2>4 DEF Orderly, InStep, OrderlyFor
  <2>6. ASSUME OrderlyFor(t, c)' PROVE Orderly(c)'
    <3>1. InStep(c)'
      BY <2>3, <2>4, <2>6 DEF InStep, OrderlyFor
    <3> QED BY <2>1, <2>2, <2>6, <3>1 DEF Orderly, OrderlyFor
  <2>7. CASE ~Works(t, c) /\ ~Works(t, c)'
    BY <2>5, <2>6, <2>7 DEF OrderlyFor, Knows, Works, Applying
  <2> QED BY <2>5, <2>6, <2>7
<1>2. CASE ~Works(t, c) /\ ~Works(t, c)'
  <2>1. Sole(c)'
    BY <1>0, <1>2 DEF Orderly, Sole
  <2>2. Knows(t, c)'
    BY <1>2 DEF Knows, Works, Applying
  <2>3. \A u \in Threads \ {t} : Knows(u, c)'
    BY <1>2 DEF Orderly, Knows, MayRemove, Ripe
  <2>4. \A pcs : pcs \subseteq Applying => (Changing(c, pcs)' <=> Changing(c, pcs))
    BY <1>2 DEF Changing, Works
  <2>5. {"stamp", "unstamp"} \subseteq Applying /\ {"stamp", "unstamp", "publish", "notify"} \subseteq Applying
    BY DEF Applying
  <2>6. InStep(c)'
    BY <1>2, <2>4, <2>5 DEF Orderly, InStep
  <2> QED BY <2>1, <2>2, <2>3, <2>6 DEF Orderly
<1>3. CASE Works(t, c)
  BY <1>1, <1>3 DEF Orderly, Sole
<1> QED BY <1>1, <1>2, <1>3

(* A callback begins: it knows nothing yet but what it has just read. *)
LEMMA RaceBegin ==
  ASSUME RaceInv, TypeInv', NEW t \in Threads, NEW j, job[t].pc = "idle",
         job' = [job EXCEPT ![t] = j], UNCHANGED <<table, age, told, err>>,
         raced \subseteq raced', Shape(j), j.todo = {}, j.pc \in {"write", "lookup", "scan"},
         j.pc # "scan" => Overlaps(t, {j.code}) \subseteq raced',
         j.pc = "write" => j.current = table[j.code],
         j.pc = "lookup" => j.code \in ClearCodes
  PROVE  RaceInv'
<1>1. job'[t] = j /\ \A u \in Threads \ {t} : job'[u] = job[u]
  BY DEF RaceInv, TypeInv, TypeOK
<1>2. job[t].todo = {}
  BY DEF RaceInv, Shape
<1>3. ASSUME NEW c \in Codes \ raced' PROVE Orderly(c)'
  <2>1. Orderly(c) /\ ~Works(t, c)
    BY <1>2 DEF RaceInv, Works, Applying
  <2>2. ASSUME Works(t, c)' PROVE j.pc \in {"write", "lookup"} /\ j.code = c
    BY <1>1, <2>2 DEF Works, Applying
  <2>3. ASSUME Works(t, c)' PROVE \A u \in Threads \ {t} : ~Works(u, c)
    <3>1. c \notin Overlaps(t, {c})
      BY <2>2, <2>3
    <3> QED BY <3>1 DEF Overlaps
  <2>4. ASSUME OrderlyFor(t, c), Works(t, c)' PROVE OrderlyFor(t, c)'
    BY <1>1, <2>2, <2>4 DEF OrderlyFor, Knows, MayRemove
  <2> QED BY <1>1, <2>1, <2>3, <2>4, OneThread
<1>4. \A u \in Threads : Shape(job'[u])
  BY <1>1 DEF RaceInv
<1> QED BY <1>3, <1>4 DEF RaceInv, KeyErrorNeedsRace

(* The fields of a job that has taken a step of _apply_change.              *)
Moved(t, pcs) ==
  LET j == job[t] k == job'[t] IN
  /\ k.todo = j.todo
  /\ k.pc \in pcs \/ k.pc = IF j.todo = {} THEN "idle" ELSE "next"
  /\ k.pc \in pcs => k.code = j.code /\ k.alert = j.alert /\ k.current = j.current
  /\ \A u \in Threads \ {t} : job'[u] = job[u]

(* A step of _apply_change that touches the code at hand only, and knows    *)
(* what it did there.                                                       *)
LEMMA RaceMove ==
  ASSUME RaceInv, TypeInv', NEW t \in Threads, NEW pcs, pcs \subseteq Applying, Moved(t, pcs),
         job[t].pc \in Applying, UNCHANGED raced, KeyErrorNeedsRace', Shape(job[t]) => Shape(job'[t]),
         \A c \in Codes \ {job[t].code} :
           table'[c] = table[c] /\ age'[c] = age[c] /\ told'[c] = told[c],
         OrderlyFor(t, job[t].code) /\ job[t].code \notin raced
           => \A c \in Codes : c = job[t].code => OrderlyFor(t, c)'
  PROVE  RaceInv'
<1> DEFINE j == job[t]
           k == job'[t]
<1>1. ASSUME NEW c \in Codes \ raced PROVE Orderly(c)'
  <2>0. Orderly(c) /\ Shape(j) /\ \A u \in Threads \ {t} : job'[u] = job[u]
    BY DEF RaceInv, Moved
  <2>1. ASSUME Works(t, c)' PROVE Works(t, c)
    BY <2>1 DEF Works, Moved, Applying
  <2>2. ASSUME ~Works(t, c) PROVE c # j.code
    BY <2>2 DEF Works
  <2>3. ASSUME OrderlyFor(t, c), Works(t, c) PROVE OrderlyFor(t, c)'
    <3>1. CASE c = j.code
      BY <2>3, <3>1
    <3>2. CASE c # j.code
      <4>1. c \in j.todo /\ c \in k.todo /\ (k.pc \in Applying => k.code # c)
        BY <2>3, <3>2 DEF Works, Moved, Applying
      <4>2. Ripe(c)' <=> Ripe(c)
        BY <3>2 DEF Ripe
      <4> QED BY <2>3, <3>2, <4>1, <4>2 DEF OrderlyFor, Knows, Applying
    <3> QED BY <3>1, <3>2
  <2> QED BY <2>0, <2>1, <2>2, <2>3, OneThread
<1>2. \A u \in Threads : Shape(job'[u])
  BY DEF RaceInv, Moved
<1> QED BY <1>1, <1>2 DEF RaceInv

(* Goto and Return move a job on. *)
LEMMA MovedFacts ==
  ASSUME job \in [Threads -> Job], NEW t \in Threads
  PROVE  /\ Return(t) => Moved(t, {})
         /\ \A pc \in Applying : Goto(t, pc) /\ pc \notin {"write", "lookup"}
               => Moved(t, {pc}) /\ job'[t].pc = pc
  BY GotoFacts, ReturnFacts DEF Moved, Applying

(* The steps of _apply_change. *)
LEMMA RaceApply ==
  ASSUME RaceInv, TypeInv', NEW t \in Threads,
         \/ WriteTable(t) \/ Stamp(t) \/ Lookup(t) \/ Pop(t)
         \/ Unstamp(t) \/ Publish(t) \/ Notify(t)
  PROVE  RaceInv'
<1> DEFINE j == job[t]
           k == job'[t]
           c == job[t].code
<1>0. /\ j \in Job /\ c \in Codes /\ job \in [Threads -> Job] /\ j.pc \in Applying
      /\ table \in [Codes -> Entry] /\ age \in [Codes -> -1 .. MaxTtl] /\ told \in [Codes -> Entry]
      /\ UNCHANGED raced /\ Shape(j)
  BY DEF RaceInv, TypeInv, TypeOK, HasCode, At, WriteTable, Stamp, Lookup, Pop, Unstamp,
         Publish, Notify, Applying
<1>1. ASSUME NEW pcs, pcs \subseteq Applying, Moved(t, pcs), KeyErrorNeedsRace', Shape(k),
             \A d \in Codes \ {c} : table'[d] = table[d] /\ age'[d] = age[d] /\ told'[d] = told[d],
             OrderlyFor(t, c) /\ c \notin raced => \A d \in Codes : d = c => OrderlyFor(t, d)'
      PROVE  RaceInv'
  BY <1>0, <1>1, RaceMove
<1>2. CASE WriteTable(t)
  <2>1. /\ j.pc = "write" /\ Goto(t, "stamp") /\ UNCHANGED <<age, told, err>>
        /\ table' = [table EXCEPT ![c] = j.alert]
    BY <1>2 DEF WriteTable, At
  <2>2. Moved(t, {"stamp"}) /\ k.pc = "stamp"
    BY <1>0, <2>1, MovedFacts DEF Applying
  <2>3. k.code = c /\ k.alert = j.alert /\ k.current = j.current /\ k.todo = {}
    BY <1>0, <2>1, <2>2 DEF Moved, Shape
  <2>4. ASSUME OrderlyFor(t, c), NEW d \in Codes, d = c PROVE OrderlyFor(t, d)'
    BY <1>0, <2>1, <2>2, <2>3, <2>4 DEF OrderlyFor, Knows
  <2> QED BY <1>0, <1>1, <2>1, <2>2, <2>3, <2>4
        DEF RaceInv, KeyErrorNeedsRace, Shape, Applying
<1>3. CASE Stamp(t)
  <2>1. /\ j.pc = "stamp" /\ UNCHANGED <<table, told, err>>
        /\ age' = [age EXCEPT ![c] = 0]
    BY <1>3 DEF Stamp, FreshAge, At
  <2>2. j.todo = {} /\ j.alert \in Alert /\ j.alert # None
    BY <1>0, <2>1, AlertAssumption DEF Shape
  <2>3. CASE Unchanged(t)
    <3>1. Moved(t, {}) /\ j.current = j.alert
      BY <1>0, <1>3, <2>3, MovedFacts DEF Stamp, Unchanged
    <3>2. k.pc = "idle" /\ k.todo = {}
      BY <2>2, <3>1 DEF Moved
    <3>3. ASSUME OrderlyFor(t, c), NEW d \in Codes, d = c PROVE OrderlyFor(t, d)'
      BY <1>0, <2>1, <2>2, <3>1, <3>2, <3>3 DEF OrderlyFor, Knows, Unstamped
    <3> QED BY <1>0, <1>1, <2>1, <3>1, <3>2, <3>3
          DEF RaceInv, KeyErrorNeedsRace, Shape, Applying
  <2>4. CASE ~Unchanged(t)
    <3>1. Moved(t, {"publish"}) /\ k.pc = "publish"
      BY <1>0, <1>3, <2>4, MovedFacts DEF Stamp, Applying
    <3>2. k.code = c /\ k.alert = j.alert /\ k.todo = {}
      BY <2>2, <3>1 DEF Moved
    <3>3. ASSUME OrderlyFor(t, c), NEW d \in Codes, d = c PROVE OrderlyFor(t, d)'
      BY <1>0, <2>1, <2>2, <3>1, <3>2, <3>3 DEF OrderlyFor, Knows, Unstamped
    <3> QED BY <1>0, <1>1, <2>1, <3>1, <3>2, <3>3
          DEF RaceInv, KeyErrorNeedsRace, Shape, Applying
  <2> QED BY <2>3, <2>4
<1>4. CASE Lookup(t)
  <2>1. j.pc = "lookup" /\ UNCHANGED <<table, age, told, err>>
    BY <1>4 DEF Lookup, At
  <2>2. CASE IsActive(c)
    <3>1. Moved(t, {"pop"}) /\ k.pc = "pop"
      BY <1>0, <1>4, <2>2, MovedFacts DEF Lookup, Applying
    <3>2. k.code = c /\ k.alert = j.alert /\ k.todo = j.todo
      BY <3>1 DEF Moved
    <3>3. ASSUME OrderlyFor(t, c), NEW d \in Codes, d = c PROVE OrderlyFor(t, d)'
      BY <1>0, <2>1, <2>2, <3>1, <3>2, <3>3 DEF OrderlyFor, Knows, IsActive, MayRemove, Ripe
    <3> QED BY <1>0, <1>1, <2>1, <3>1, <3>2, <3>3
          DEF RaceInv, KeyErrorNeedsRace, Shape, Applying
  <2>3. CASE ~IsActive(c)
    <3>1. Moved(t, {})
      BY <1>0, <1>4, <2>3, MovedFacts DEF Lookup
    <3>2. k.todo = j.todo /\ k.pc = (IF j.todo = {} THEN "idle" ELSE "next") /\ c \notin j.todo
      BY <1>0, <3>1 DEF Moved, Shape
    <3>3. ASSUME OrderlyFor(t, c), NEW d \in Codes, d = c PROVE OrderlyFor(t, d)'
      BY <1>0, <2>1, <2>3, <3>2, <3>3 DEF OrderlyFor, Knows
    <3> QED BY <1>0, <1>1, <2>1, <3>1, <3>2, <3>3
          DEF RaceInv, KeyErrorNeedsRace, Shape, Applying
  <2> QED BY <2>2, <2>3
<1>5. CASE Pop(t) /\ table[c] = None
  <2>1. j.pc = "pop" /\ UNCHANGED <<table, age, told, job>> /\ err' = "KeyError"
    BY <1>5 DEF Pop, At
  <2>2. c \in raced
    BY <1>0, <1>5, <2>1 DEF RaceInv, Orderly, Knows
  <2>3. \A d \in Codes \ raced : Orderly(d)'
    BY <1>0, <2>1 DEF RaceInv, Orderly, Sole, Works, Knows, InStep, Changing, MayRemove, Ripe
  <2> QED BY <1>0, <2>1, <2>2, <2>3 DEF RaceInv, KeyErrorNeedsRace
<1>6. CASE Pop(t) /\ table[c] # None
  <2>1. /\ j.pc = "pop" /\ Goto(t, "unstamp") /\ UNCHANGED <<age, told, err>>
        /\ table' = [table EXCEPT ![c] = None]
    BY <1>6 DEF Pop, At
  <2>2. Moved(t, {"unstamp"}) /\ k.pc = "unstamp"
    BY <1>0, <2>1, MovedFacts DEF Applying
  <2>3. k.code = c /\ k.alert = None /\ k.todo = j.todo /\ c \notin j.todo
    BY <1>0, <2>1, <2>2 DEF Moved, Shape
  <2>4. ASSUME OrderlyFor(t, c), NEW d \in Codes, d = c PROVE OrderlyFor(t, d)'
    BY <1>0, <2>1, <2>2, <2>3, <2>4 DEF OrderlyFor, Knows
  <2> QED BY <1>0, <1>1, <2>1, <2>2, <2>3, <2>4
        DEF RaceInv, KeyErrorNeedsRace, Shape, Applying
<1>7. CASE Unstamp(t)
  <2>1. /\ j.pc = "unstamp" /\ Goto(t, "publish") /\ UNCHANGED <<table, told, err>>
        /\ age' = [age EXCEPT ![c] = Unstamped]
    BY <1>7 DEF Unstamp, At, NoAge
  <2>2. Moved(t, {"publish"}) /\ k.pc = "publish"
    BY <1>0, <2>1, MovedFacts DEF Applying
  <2>3. k.code = c /\ j.alert = None /\ k.alert = None /\ k.todo = j.todo /\ c \notin j.todo
    BY <1>0, <2>1, <2>2 DEF Moved, Shape
  <2>4. ASSUME OrderlyFor(t, c), NEW d \in Codes, d = c PROVE OrderlyFor(t, d)'
    BY <1>0, <2>1, <2>2, <2>3, <2>4 DEF OrderlyFor, Knows
  <2> QED BY <1>0, <1>1, <2>1, <2>2, <2>3, <2>4
        DEF RaceInv, KeyErrorNeedsRace, Shape, Applying
<1>8. CASE Publish(t)
  <2>1. j.pc = "publish" /\ Goto(t, "notify") /\ UNCHANGED <<table, age, told, err>>
    BY <1>8 DEF Publish, At
  <2>2. Moved(t, {"notify"}) /\ k.pc = "notify"
    BY <1>0, <2>1, MovedFacts DEF Applying
  <2>3. k.code = c /\ k.alert = j.alert /\ k.todo = j.todo /\ c \notin j.todo
    BY <1>0, <2>1, <2>2 DEF Moved, Shape
  <2>4. ASSUME OrderlyFor(t, c), NEW d \in Codes, d = c PROVE OrderlyFor(t, d)'
    BY <1>0, <2>1, <2>2, <2>3, <2>4 DEF OrderlyFor, Knows
  <2> QED BY <1>0, <1>1, <2>1, <2>2, <2>3, <2>4
        DEF RaceInv, KeyErrorNeedsRace, Shape, Applying
<1>9. CASE Notify(t)
  <2>1. /\ j.pc = "notify" /\ Return(t) /\ UNCHANGED <<table, age, err>>
        /\ told' = [told EXCEPT ![c] = j.alert]
    BY <1>9 DEF Notify, At
  <2>2. Moved(t, {})
    BY <1>0, <2>1, MovedFacts
  <2>3. k.todo = j.todo /\ k.pc = (IF j.todo = {} THEN "idle" ELSE "next") /\ c \notin j.todo
    BY <1>0, <2>2 DEF Moved, Shape
  <2>4. ASSUME OrderlyFor(t, c), NEW d \in Codes, d = c PROVE OrderlyFor(t, d)'
    BY <1>0, <2>1, <2>3, <2>4 DEF OrderlyFor, Knows
  <2> QED BY <1>0, <1>1, <2>1, <2>2, <2>3, <2>4
        DEF RaceInv, KeyErrorNeedsRace, Shape, Applying
<1> QED BY <1>2, <1>3, <1>4, <1>5, <1>6, <1>7, <1>8, <1>9

(* Steps of the client do not concern the server, nor does the exception    *)
(* of an iteration.                                                         *)
LEMMA RaceFrame ==
  ASSUME RaceInv, TypeInv', UNCHANGED <<table, age, job, told, raced>>,
         err' = err \/ err' = "RuntimeError"
  PROVE  RaceInv'
<1>1. \A c \in Codes \ raced : Orderly(c)'
  BY DEF RaceInv, Orderly, Sole, Works, Knows, InStep, Changing, MayRemove, Ripe
<1> QED BY <1>1 DEF RaceInv, KeyErrorNeedsRace

(* The steps of _expire_alerts. *)
LEMMA RaceExpire ==
  ASSUME RaceInv, TypeInv', Scan \/ ClearExpired
  PROVE  RaceInv'
<1> DEFINE t == "default"
           j == job[t]
           k == job'[t]
<1>0. /\ t \in Threads /\ j \in Job /\ job \in [Threads -> Job] /\ j.todo \subseteq Codes
      /\ Shape(j) /\ UNCHANGED <<table, age, told>>
  BY DEF RaceInv, TypeInv, TypeOK, At, Scan, ClearExpired, Job, Threads
<1>1. CASE Scan /\ Cardinality(Active) # j.seen
  BY <1>0, <1>1, RaceFrame DEF Scan
<1>2. CASE Scan /\ Cardinality(Active) = j.seen
  <2> DEFINE ripe == {c \in Active : Ripe(c)}
  <2>1. /\ j.pc = "scan" /\ raced' = raced \cup Overlaps(t, ripe) /\ UNCHANGED err
        /\ job' = IF ripe = {} THEN [job EXCEPT ![t] = IdleJob]
                  ELSE [job EXCEPT ![t].pc = "next", ![t].todo = ripe]
    BY <1>0, <1>2 DEF Scan, At
  <2>2. /\ k.todo = ripe /\ k.pc = (IF ripe = {} THEN "idle" ELSE "next") /\ j.todo = {}
        /\ \A u \in Threads \ {t} : job'[u] = job[u]
    BY <1>0, <2>1, Jobs DEF Job, Shape
  <2>3. ASSUME NEW c \in Codes \ raced' PROVE Orderly(c)'
    <3>1. Orderly(c) /\ ~Works(t, c)
      BY <2>1, <2>2 DEF RaceInv, Works, Applying
    <3>2. Works(t, c)' => c \in ripe
      BY <2>2 DEF Works, Applying
    <3>3. ASSUME Works(t, c)' PROVE \A u \in Threads \ {t} : ~Works(u, c)
      BY <2>1, <3>2, <3>3 DEF Overlaps
    <3>4. ASSUME OrderlyFor(t, c), Works(t, c)' PROVE OrderlyFor(t, c)'
      BY <1>0, <2>1, <2>2, <3>2, <3>4 DEF OrderlyFor, Knows, Active, Ripe
    <3> QED BY <1>0, <2>2, <3>1, <3>3, <3>4, OneThread
  <2>4. Shape(k)
    BY <2>2 DEF Shape, Applying
  <2>5. \A u \in Threads : Shape(job'[u])
    BY <2>2, <2>4 DEF RaceInv
  <2> QED BY <2>1, <2>3, <2>5 DEF RaceInv, KeyErrorNeedsRace
<1>3. CASE ClearExpired
  <2>1. PICK c \in j.todo : j.pc = "next" /\ job' = [job EXCEPT ![t] = ClearNext(j, c)]
    BY <1>3 DEF ClearExpired, At
  <2>2. /\ k.pc = "lookup" /\ k.code = c /\ k.alert = None /\ k.todo = j.todo \ {c}
        /\ \A u \in Threads \ {t} : job'[u] = job[u]
    BY <1>0, <2>1 DEF ClearNext, Job
  <2>3. UNCHANGED <<err, raced>>
    BY <1>3 DEF ClearExpired
  <2>4. ASSUME NEW d \in Codes \ raced PROVE Orderly(d)'
    <3>1. Orderly(d)
      BY DEF RaceInv
    <3>2. Works(t, d)' <=> Works(t, d)
      BY <2>1, <2>2 DEF Works, Applying
    <3>3. ASSUME OrderlyFor(t, d), Works(t, d) PROVE OrderlyFor(t, d)'
      <4>1. d \in j.todo
        BY <2>1, <3>3 DEF Works, Applying
      <4>2. Ripe(d)' <=> Ripe(d)
        BY <1>0 DEF Ripe
      <4> QED BY <1>0, <2>1, <2>2, <3>3, <4>1, <4>2 DEF OrderlyFor, Knows, MayRemove
    <3> QED BY <1>0, <2>2, <3>1, <3>2, <3>3, OneThread
  <2>5. Shape(k)
    BY <2>2 DEF Shape, Applying
  <2>6. \A u \in Threads : Shape(job'[u])
    BY <2>2, <2>5 DEF RaceInv
  <2> QED BY <2>3, <2>4, <2>6 DEF RaceInv, KeyErrorNeedsRace
<1> QED BY <1>1, <1>2, <1>3

(* Time: an alert that is ripe stays so. *)
LEMMA RaceTick ==
  ASSUME RaceInv, TypeInv', Tick
  PROVE  RaceInv'
<1>1. \A c \in Codes : /\ age[c] \in -1 .. MaxTtl /\ table[c] \in Entry
                       /\ age'[c] = Older(age[c])
  BY DEF RaceInv, TypeInv, TypeOK, Tick
<1>2. \A c \in Codes : age'[c] = Unstamped <=> age[c] = Unstamped
  BY <1>1, AlertAssumption DEF Older, Unstamped
<1>3. ASSUME NEW c \in Codes, table[c] # None, Ripe(c) PROVE Ripe(c)'
  <2>1. table[c] \in Alert /\ table'[c] = table[c]
    BY <1>1, <1>3 DEF Entry, Tick
  <2>2. table[c].ttl \in 0 .. MaxTtl + 1
    BY <2>1 DEF Alert, Forever
  <2> QED BY <1>1, <1>3, <2>1, <2>2, AlertAssumption DEF Ripe, Older, Unstamped, Forever
<1>4. UNCHANGED <<table, job, told, err, raced>>
  BY DEF Tick
<1>5. ASSUME NEW c \in Codes \ raced PROVE Orderly(c)'
  <2>1. Orderly(c)
    BY DEF RaceInv
  <2>2. \A t \in Threads : Knows(t, c)'
    BY <1>3, <1>4, <2>1 DEF Orderly, Knows, MayRemove
  <2>3. InStep(c)' /\ Sole(c)'
    BY <1>2, <1>4, <2>1 DEF Orderly, Sole, Works, InStep, Changing
  <2> QED BY <2>2, <2>3 DEF Orderly
<1> QED BY <1>4, <1>5 DEF RaceInv, KeyErrorNeedsRace

(* Every step. *)
LEMMA RaceStep == RaceInv /\ [Next]_vars => RaceInv'
<1> SUFFICES ASSUME RaceInv, [Next]_vars PROVE RaceInv'
  OBVIOUS
<1>0. TypeInv'
  BY TypeStep DEF RaceInv
<1>1. ASSUME NEW t \in Threads, NEW a \in Raisable, BeginRaise(t, a) PROVE RaceInv'
  <2> DEFINE j == NewJob("write", a.code, a, table[a.code], 0)
  <2>1. Shape(j) /\ j.todo = {} /\ j.pc = "write" /\ j.code = a.code /\ j.current = table[a.code]
    BY Jobs DEF Shape, NewJob, Applying
  <2>2. job' = [job EXCEPT ![t] = j] /\ raced' = raced \cup Overlaps(t, {j.code}) /\ job[t].pc = "idle"
    BY <1>1, <2>1 DEF BeginRaise, MayBegin
  <2> HIDE DEF j
  <2> QED BY <1>0, <1>1, <2>1, <2>2, RaceBegin DEF BeginRaise
<1>2. ASSUME NEW c \in ClearCodes, BeginClear(c) PROVE RaceInv'
  <2> DEFINE j == NewJob("lookup", c, None, None, 0)
             t == "requests"
  <2>1. Shape(j) /\ j.todo = {} /\ j.pc = "lookup" /\ j.code = c
    BY DEF Shape, NewJob, Applying
  <2>2. job' = [job EXCEPT ![t] = j] /\ raced' = raced \cup Overlaps(t, {j.code}) /\ job[t].pc = "idle"
    BY <1>2, <2>1 DEF BeginClear, MayBegin
  <2>3. t \in Threads
    BY DEF Threads
  <2> HIDE DEF j, t
  <2> QED BY <1>0, <1>2, <2>1, <2>2, <2>3, RaceBegin DEF BeginClear
<1>3. CASE BeginExpire
  <2> DEFINE j == NewJob("scan", None, None, None, Cardinality(Active))
             t == "default"
  <2>1. Shape(j) /\ j.todo = {} /\ j.pc = "scan"
    BY DEF Shape, NewJob, Applying
  <2>2. job' = [job EXCEPT ![t] = j] /\ raced' = raced /\ job[t].pc = "idle"
    BY <1>3 DEF BeginExpire, MayBegin
  <2>3. t \in Threads
    BY DEF Threads
  <2> HIDE DEF j, t
  <2> QED BY <1>0, <1>3, <2>1, <2>2, <2>3, RaceBegin DEF BeginExpire
<1>4. ASSUME NEW t \in Threads, Step(t) PROVE RaceInv'
  BY <1>0, <1>4, RaceApply, RaceExpire DEF Step
<1>5. CASE Join \/ HandleChange \/ UNCHANGED vars
  BY <1>0, <1>5, RaceFrame DEF Join, HandleChange, vars
<1>6. CASE Tick
  BY <1>0, <1>6, RaceTick
<1> QED BY <1>1, <1>2, <1>3, <1>4, <1>5, <1>6 DEF Next

(* Hence the invariant holds throughout. *)
LEMMA RaceInvariant == Spec => []RaceInv
  BY RaceInit, RaceStep, PTL DEF Spec

-----------------------------------------------------------------------------
(* _apply_change tells the supervisor every change of a code that callbacks *)
(* do not race on, and the last one it told is the code's entry             *)
(* (_change_callback), whatever the other threads do.                       *)
THEOREM SupervisorIsTold == Spec => []ToldTheTruth
<1>1. ASSUME RaceInv PROVE ToldTheTruth
  BY <1>1 DEF RaceInv, Orderly, InStep, Changing, ToldTheTruth, AtRest, Works, Applying
<1> QED BY <1>1, RaceInvariant, PTL

(* Such a code is a key of _active_alerts and of _alert_started_at, or of   *)
(* neither, whenever no callback is at work on it: it can expire.           *)
THEOREM DictionariesAgree == Spec => []AgesKept
<1>1. ASSUME RaceInv PROVE AgesKept
  BY <1>1 DEF RaceInv, Orderly, InStep, Changing, AgesKept, AtRest, Works, Applying
<1> QED BY <1>1, RaceInvariant, PTL

(* The pop of _apply_change raises only where two callbacks are at work on  *)
(* one code.                                                                *)
THEOREM PopNeedsRace == Spec => []KeyErrorNeedsRace
<1>1. RaceInv => KeyErrorNeedsRace
  BY DEF RaceInv
<1> QED BY <1>1, RaceInvariant, PTL

-----------------------------------------------------------------------------
(* The refinement.  AlertTable speaks of the same alerts and changes.       *)
LEMMA SameAlerts ==
  /\ Abs!Forever = Forever /\ Abs!Alert = Alert /\ Abs!Unstamped = Unstamped
  /\ \A n : Abs!Older(n) = Older(n)
  /\ \A c, a : Abs!Change(c, a) = Change(c, a)
  BY DEF Abs!Forever, Abs!Alert, Abs!Unstamped, Abs!Older, Abs!Change,
         Forever, Alert, Unstamped, Older, Change

(* A step of the table, or none. *)
TableStep == Abs!TableNext \/ UNCHANGED Abs!tableVars

(* What AlertTable sees has its types. *)
AbsTypeOK ==
  /\ AbsTable \in [Codes -> Entry] /\ AbsAge \in [Codes -> -1 .. MaxTtl] /\ AbsPending \subseteq Codes
LEMMA AbsTypes ==
  /\ TypeInv => AbsTypeOK
  /\ TypeInv' => AbsTypeOK'
<1>1. ASSUME TypeInv PROVE AbsTypeOK
  BY <1>1, AlertAssumption DEF TypeInv, TypeOK, AbsTypeOK, AbsTable, AbsAge, AbsPending, Unstamped
<1>2. ASSUME TypeInv' PROVE AbsTypeOK'
  BY <1>2, AlertAssumption DEF TypeInv, TypeOK, AbsTypeOK, AbsTable, AbsAge, AbsPending, Unstamped
<1> QED BY <1>1, <1>2

(* What AlertTable sees of a code does not change when nobody changes the   *)
(* code and the same callbacks are at the same places of changing it.       *)
SeenSame(c) ==
  /\ AbsTable'[c] = AbsTable[c] /\ AbsAge'[c] = AbsAge[c]
  /\ c \in AbsPending' <=> c \in AbsPending
LEMMA Elsewhere ==
  ASSUME NEW c \in Codes, NEW t \in Threads,
         table'[c] = table[c], age'[c] = age[c], told'[c] = told[c],
         \A u \in Threads \ {t} : job'[u] = job[u],
         job[t].pc \in {"stamp", "unstamp", "publish"} => job[t].code # c,
         job'[t].pc \in {"stamp", "unstamp", "publish"} => job'[t].code # c
  PROVE  SeenSame(c)
<1>1. ASSUME NEW pcs, pcs \subseteq {"stamp", "unstamp", "publish"}
      PROVE  Changing(c, pcs)' <=> Changing(c, pcs)
  BY <1>1 DEF Changing
<1>2. /\ Changing(c, {"stamp"})' <=> Changing(c, {"stamp"})
      /\ Changing(c, {"unstamp"})' <=> Changing(c, {"unstamp"})
      /\ Changing(c, {"unstamp", "publish"})' <=> Changing(c, {"unstamp", "publish"})
  BY <1>1
<1> QED BY <1>2 DEF SeenSame, AbsTable, AbsAge, AbsPending

(* Hence a step that changes the view of raced codes only tears them.       *)
LEMMA Tears ==
  ASSUME TypeInv, TypeInv', raced \subseteq raced', \A c \in Codes \ raced' : SeenSame(c),
         \A c \in Codes \ raced' : c \in missed' <=> c \in missed,
         UNCHANGED <<joined, mirror>>,
         feed' = feed \/ \E c \in raced', a \in Entry : feed' = Append(feed, Change(c, a))
  PROVE  TableStep
<1>1. AbsTypeOK' /\ raced' \subseteq Codes /\ missed' \subseteq Codes
  BY AbsTypes DEF TypeInv, TypeOK
<1>2. Abs!Tear
  BY <1>1, SameAlerts DEF Abs!Tear, SeenSame, AbsTypeOK, Entry
<1> QED BY <1>2 DEF TableStep, Abs!TableNext

(* In particular one that changes nothing AlertTable sees. *)
LEMMA Unseen ==
  ASSUME TypeInv, TypeInv', raced \subseteq raced', \A c \in Codes : SeenSame(c),
         UNCHANGED <<missed, joined, feed, mirror>>
  PROVE  TableStep
  BY Tears

(* Where one thread alone is at work on a code, its position is what        *)
(* AlertTable sees.                                                         *)
LEMMA SoleView ==
  ASSUME NEW t \in Threads, NEW c \in Codes, job[t].code = c, job[t].pc \in Applying, Sole(c)
  PROVE  /\ AbsTable[c] = IF job[t].pc = "stamp" THEN told[c] ELSE table[c]
         /\ AbsAge[c] = IF job[t].pc = "unstamp" THEN Unstamped ELSE age[c]
         /\ c \in AbsPending <=> job[t].pc \in {"unstamp", "publish"}
<1>1. \A u \in Threads \ {t} : ~(job[u].pc \in Applying /\ job[u].code = c)
  BY DEF Sole, Works
<1>2. ASSUME NEW pcs, pcs \subseteq Applying PROVE Changing(c, pcs) <=> job[t].pc \in pcs
  BY <1>1, <1>2 DEF Changing
<1>3. {"stamp"} \subseteq Applying /\ {"unstamp"} \subseteq Applying /\ {"unstamp", "publish"} \subseteq Applying
  BY DEF Applying
<1> QED BY <1>2, <1>3 DEF AbsTable, AbsAge, AbsPending

(* The same after its step, whether or not it goes on with the code.        *)
LEMMA SoleViewAfter ==
  ASSUME NEW t \in Threads, NEW c \in Codes, job[t].code = c, job[t].pc \in Applying, Sole(c),
         \A u \in Threads \ {t} : job'[u] = job[u],
         job'[t].pc \in {"idle", "next"} \/ (job'[t].code = c /\ job'[t].pc \in Applying)
  PROVE  /\ AbsTable'[c] = IF job'[t].pc = "stamp" THEN told'[c] ELSE table'[c]
         /\ AbsAge'[c] = IF job'[t].pc = "unstamp" THEN Unstamped ELSE age'[c]
         /\ c \in AbsPending' <=> job'[t].pc \in {"unstamp", "publish"}
<1>1. \A u \in Threads \ {t} : ~(job'[u].pc \in Applying /\ job'[u].code = c)
  BY DEF Sole, Works
<1>2. ASSUME NEW pcs, pcs \subseteq Applying PROVE Changing(c, pcs)' <=> job'[t].pc \in pcs
  BY <1>1, <1>2 DEF Changing, Applying
<1>3. {"stamp"} \subseteq Applying /\ {"unstamp"} \subseteq Applying /\ {"unstamp", "publish"} \subseteq Applying
  BY DEF Applying
<1> QED BY <1>2, <1>3 DEF AbsTable, AbsAge, AbsPending

(* The steps of _apply_change: a raise takes effect when the start time is  *)
(* written, a clear when the alert is popped, and the rest is not seen.     *)
LEMMA ApplyImplements ==
  ASSUME RaceInv, TypeInv', NEW t \in Threads, Len(feed) < Depth,
         \/ WriteTable(t) \/ Stamp(t) \/ Lookup(t) \/ Pop(t)
         \/ Unstamp(t) \/ Publish(t) \/ Notify(t)
  PROVE  TableStep
<1> DEFINE j == job[t]
           k == job'[t]
           c == job[t].code
<1>0. /\ j \in Job /\ c \in Codes /\ job \in [Threads -> Job] /\ j.pc \in Applying
      /\ table \in [Codes -> Entry] /\ age \in [Codes -> -1 .. MaxTtl] /\ told \in [Codes -> Entry]
      /\ feed \in Seq(Changes) /\ Len(feed) <= Depth
      /\ UNCHANGED <<raced, joined, mirror>> /\ Shape(j) /\ TypeInv
  BY DEF RaceInv, TypeInv, TypeOK, HasCode, At, WriteTable, Stamp, Lookup, Pop, Unstamp,
         Publish, Notify, Applying
<1>m. CASE Pop(t) /\ table[c] = None
  <2>1. UNCHANGED <<table, age, told, job, missed, feed>>
    BY <1>m DEF Pop
  <2>2. \A d \in Codes : SeenSame(d)
    BY <2>1 DEF SeenSame, AbsTable, AbsAge, AbsPending, Changing
  <2> QED BY <1>0, <2>1, <2>2, Unseen
<1>1. CASE ~(Pop(t) /\ table[c] = None)
  <2>1. /\ \A u \in Threads \ {t} : job'[u] = job[u]
        /\ k.pc \in {"idle", "next"} \/ (k.code = c /\ k.alert = j.alert /\ k.pc \in Applying)
    <3>1. Return(t) \/ (\E pc \in Applying \ {"write", "lookup"} : Goto(t, pc))
      BY <1>1 DEF WriteTable, Stamp, Lookup, Pop, Unstamp, Publish, Notify, Applying
    <3>2. CASE Return(t)
      BY <1>0, <3>2, MovedFacts DEF Moved
    <3>3. CASE \E pc \in Applying \ {"write", "lookup"} : Goto(t, pc)
      BY <1>0, <3>3, MovedFacts DEF Moved
    <3> QED BY <3>1, <3>2, <3>3
  <2>2. ASSUME NEW d \in Codes \ {c} PROVE SeenSame(d)
    <3>1. table'[d] = table[d] /\ age'[d] = age[d] /\ told'[d] = told[d]
      BY <1>0 DEF WriteTable, Stamp, Lookup, Pop, Unstamp, Publish, Notify
    <3> QED BY <2>1, <3>1, Elsewhere
  <2>3. ASSUME Publish(t) PROVE feed' = IF joined THEN Append(feed, Change(c, j.alert)) ELSE feed
    <3>1. Change(c, j.alert) \in Changes
      BY <1>0 DEF Change, Changes, Job, Entry
    <3> QED BY <1>0, <2>3, <3>1, KeepLastFacts DEF Publish, Published
  <2>4. ASSUME ~Publish(t) PROVE UNCHANGED <<feed, missed>>
    BY <2>4 DEF WriteTable, Stamp, Lookup, Pop, Unstamp, Notify
  <2>5. CASE c \in raced
    <3>1. j.alert \in Entry
      BY <1>0 DEF Job
    <3>2. feed' = feed \/ \E d \in raced', a \in Entry : feed' = Append(feed, Change(d, a))
      BY <1>0, <2>3, <2>4, <2>5, <3>1
    <3>3. \A d \in Codes \ raced' : d \in missed' <=> d \in missed
      <4>1. CASE Publish(t)
        BY <1>0, <2>5, <4>1 DEF Publish
      <4> QED BY <2>4, <4>1
    <3> QED BY <1>0, <2>2, <2>5, <3>2, <3>3, Tears
  <2>6. CASE c \notin raced
    <3>0. Sole(c) /\ Knows(t, c) /\ InStep(c)
      BY <1>0, <2>6 DEF RaceInv, Orderly
    <3>1. /\ AbsTable[c] = IF j.pc = "stamp" THEN told[c] ELSE table[c]
          /\ AbsAge[c] = IF j.pc = "unstamp" THEN Unstamped ELSE age[c]
          /\ c \in AbsPending <=> j.pc \in {"unstamp", "publish"}
      BY <1>0, <3>0, SoleView
    <3>2. /\ AbsTable'[c] = IF k.pc = "stamp" THEN told'[c] ELSE table'[c]
          /\ AbsAge'[c] = IF k.pc = "unstamp" THEN Unstamped ELSE age'[c]
          /\ c \in AbsPending' <=> k.pc \in {"unstamp", "publish"}
      BY <1>0, <2>1, <3>0, SoleViewAfter
    <3>3. AbsTypeOK /\ AbsTypeOK'
      BY <1>0, AbsTypes
    <3>4. ASSUME SeenSame(c), ~Publish(t) PROVE TableStep
      BY <1>0, <2>2, <2>4, <3>4, Unseen
    <3>5. CASE WriteTable(t)
      <4>1. /\ j.pc = "write" /\ k.pc = "stamp" /\ UNCHANGED <<age, told>>
        BY <1>0, <3>5, GotoFacts DEF WriteTable, At
      <4>2. told[c] = table[c]
        <5>1. ~Changing(c, {"stamp", "unstamp", "publish", "notify"})
          BY <1>0, <3>0, <4>1 DEF Sole, Works, Changing, Applying
        <5> QED BY <3>0, <5>1 DEF InStep
      <4>3. SeenSame(c) /\ ~Publish(t)
        BY <3>1, <3>2, <4>1, <4>2 DEF SeenSame, Publish, At
      <4> QED BY <3>4, <4>3
    <3>6. CASE Stamp(t)
      <4>1. /\ j.pc = "stamp" /\ age' = [age EXCEPT ![c] = 0] /\ UNCHANGED <<table, told, missed, feed>>
            /\ j.alert \in Alert /\ j.alert.code = c /\ table[c] = j.alert /\ told[c] = j.current
        BY <1>0, <3>0, <3>6 DEF Stamp, FreshAge, At, Shape, Knows
      <4>2. \/ j.current = j.alert /\ k.pc \in {"idle", "next"}
            \/ j.current # j.alert /\ k.pc = "publish"
        BY <1>0, <3>6, GotoFacts, ReturnFacts DEF Stamp, Unchanged
      <4>3. AbsTable' = [AbsTable EXCEPT ![c] = j.alert]
        BY <1>0, <2>2, <3>2, <3>3, <4>1, <4>2 DEF SeenSame, AbsTypeOK
      <4>4. AbsAge' = [AbsAge EXCEPT ![c] = 0]
        BY <1>0, <2>2, <3>2, <3>3, <4>1, <4>2 DEF SeenSame, AbsTypeOK
      <4>5. AbsPending' = IF j.current = j.alert THEN AbsPending ELSE AbsPending \cup {c}
        <5>1. c \notin AbsPending /\ (c \in AbsPending' <=> j.current # j.alert)
          BY <3>1, <3>2, <4>1, <4>2
        <5>2. \A d \in Codes \ {c} : d \in AbsPending' <=> d \in AbsPending
          BY <2>2 DEF SeenSame
        <5>3. AbsPending \subseteq Codes /\ AbsPending' \subseteq Codes
          BY <3>3 DEF AbsTypeOK
        <5>4. CASE j.current = j.alert
          <6>1. \A d : d \in AbsPending' <=> d \in AbsPending
            BY <1>0, <5>1, <5>2, <5>3, <5>4
          <6>2. AbsPending' = AbsPending
            BY <5>3, <6>1
          <6> QED BY <5>4, <6>2
        <5>5. CASE j.current # j.alert
          <6>1. AbsPending' = AbsPending \cup {c}
            BY <1>0, <5>1, <5>2, <5>3, <5>5
          <6> QED BY <5>5, <6>1
        <5> QED BY <5>4, <5>5
      <4>6. AbsTable[c] = j.current /\ c \notin AbsPending
        BY <3>1, <4>1
      <4>7. Abs!Raise(j.alert)
        BY <1>0, <4>1, <4>3, <4>4, <4>5, <4>6 DEF Abs!Raise
      <4> QED BY <4>1, <4>7, SameAlerts DEF TableStep, Abs!TableNext
    <3>7. CASE Lookup(t)
      <4>1. j.pc = "lookup" /\ k.pc \in {"pop", "idle", "next"} /\ UNCHANGED <<table, age, told>>
        BY <1>0, <3>7, GotoFacts, ReturnFacts DEF Lookup, At
      <4>2. SeenSame(c) /\ ~Publish(t)
        BY <3>1, <3>2, <4>1 DEF SeenSame, Publish, At
      <4> QED BY <3>4, <4>2
    <3>8. CASE Pop(t)
      <4>1. /\ j.pc = "pop" /\ table[c] # None /\ table' = [table EXCEPT ![c] = None]
            /\ Goto(t, "unstamp") /\ UNCHANGED <<age, told, missed, feed>> /\ MayRemove(c)
        BY <1>0, <1>1, <3>0, <3>8 DEF Pop, At, Knows
      <4>2. k.pc = "unstamp"
        BY <1>0, <4>1, GotoFacts
      <4>3. AbsTable' = [AbsTable EXCEPT ![c] = None]
        BY <1>0, <2>2, <3>2, <3>3, <4>1, <4>2 DEF SeenSame, AbsTypeOK
      <4>4. AbsAge' = [AbsAge EXCEPT ![c] = Unstamped]
        BY <1>0, <2>2, <3>2, <3>3, <4>1, <4>2 DEF SeenSame, AbsTypeOK
      <4>5. AbsPending' = AbsPending \cup {c}
        BY <1>0, <2>2, <3>2, <3>3, <4>2 DEF SeenSame, AbsTypeOK
      <4>6. AbsTable[c] = table[c] /\ AbsAge[c] = age[c] /\ c \notin AbsPending
        BY <3>1, <4>1
      <4>7. c \in ClearCodes \/ Abs!Ripe(c)
        BY <4>1, <4>6, SameAlerts DEF MayRemove, Ripe, Abs!Ripe
      <4>8. Abs!Remove(c)
        BY <1>0, <4>1, <4>3, <4>4, <4>5, <4>6, <4>7, SameAlerts DEF Abs!Remove
      <4> QED BY <1>0, <4>8 DEF TableStep, Abs!TableNext
    <3>9. CASE Unstamp(t)
      <4>1. /\ j.pc = "unstamp" /\ k.pc = "publish" /\ UNCHANGED <<table, told>>
            /\ age' = [age EXCEPT ![c] = Unstamped]
        BY <1>0, <3>9, GotoFacts DEF Unstamp, At, NoAge
      <4>2. SeenSame(c) /\ ~Publish(t)
        BY <1>0, <3>1, <3>2, <4>1 DEF SeenSame, Publish, At
      <4> QED BY <3>4, <4>2
    <3>10. CASE Publish(t)
      <4>1. j.pc = "publish" /\ k.pc = "notify" /\ UNCHANGED <<table, age, told>> /\ table[c] = j.alert
        BY <1>0, <3>0, <3>10, GotoFacts DEF Publish, At, Knows
      <4>2. AbsTable' = AbsTable /\ AbsAge' = AbsAge
        BY <2>2, <3>1, <3>2, <3>3, <4>1 DEF SeenSame, AbsTypeOK
      <4>3. AbsPending' = AbsPending \ {c} /\ c \in AbsPending
        BY <2>2, <3>1, <3>2, <3>3, <4>1 DEF SeenSame, AbsTypeOK
      <4>4. missed' = IF joined THEN missed \ {c} ELSE missed \cup {c}
        BY <3>10 DEF Publish
      <4>5. feed' = IF joined THEN Append(feed, Change(c, AbsTable[c])) ELSE feed
        BY <2>3, <3>1, <3>10, <4>1
      <4>6. Abs!Emit(c)
        BY <1>0, <4>2, <4>3, <4>4, <4>5, SameAlerts DEF Abs!Emit
      <4> QED BY <1>0, <4>6 DEF TableStep, Abs!TableNext
    <3>11. CASE Notify(t)
      <4>1. j.pc = "notify" /\ k.pc \in {"idle", "next"} /\ UNCHANGED <<table, age>>
        BY <1>0, <3>11, ReturnFacts DEF Notify, At
      <4>2. SeenSame(c) /\ ~Publish(t)
        BY <3>1, <3>2, <4>1 DEF SeenSame, Publish, At
      <4> QED BY <3>4, <4>2
    <3> QED BY <3>5, <3>6, <3>7, <3>8, <3>9, <3>10, <3>11
  <2> QED BY <2>5, <2>6
<1> QED BY <1>m, <1>1

(* Every step is a step of AlertTable, or changes nothing it sees: so do a  *)
(* callback that begins and the steps that choose what to clear.            *)
LEMMA StepImplements ==
  ASSUME RaceInv, Len(feed) < Depth, [Next]_vars
  PROVE  TableStep
<1>0. TypeInv /\ TypeInv' /\ job \in [Threads -> Job]
  BY TypeStep DEF RaceInv, TypeInv, TypeOK
<1>1. ASSUME NEW t \in Threads, UNCHANGED <<table, age, told, missed, joined, feed, mirror>>,
             raced \subseteq raced', \A u \in Threads \ {t} : job'[u] = job[u],
             job[t].pc \notin {"stamp", "unstamp", "publish"},
             job'[t].pc \notin {"stamp", "unstamp", "publish"}
      PROVE  TableStep
  BY <1>0, <1>1, Elsewhere, Unseen
<1>2. ASSUME NEW t \in Threads, NEW a \in Raisable, BeginRaise(t, a) PROVE TableStep
  BY <1>0, <1>1, <1>2 DEF BeginRaise, MayBegin, NewJob
<1>3. ASSUME NEW c \in ClearCodes, BeginClear(c) PROVE TableStep
  BY <1>0, <1>1, <1>3 DEF BeginClear, MayBegin, NewJob, Threads
<1>4. CASE BeginExpire
  BY <1>0, <1>1, <1>4 DEF BeginExpire, MayBegin, NewJob, Threads
<1>5. CASE Scan \/ ClearExpired
  <2> DEFINE t == "default"
  <2>0. t \in Threads /\ job[t] \in Job
    BY <1>0 DEF Threads
  <2>1. /\ job[t].pc \in {"scan", "next"} /\ raced \subseteq raced'
        /\ UNCHANGED <<table, age, told, missed, joined, feed, mirror>>
    BY <1>5 DEF Scan, ClearExpired, At
  <2>2. job'[t].pc \in {"idle", "scan", "next", "lookup"} /\ \A u \in Threads \ {t} : job'[u] = job[u]
    <3>1. CASE Scan
      BY <1>0, <2>0, <2>1, <3>1, Jobs DEF Scan, Job, At
    <3>2. CASE ClearExpired
      BY <1>0, <2>0, <3>2 DEF ClearExpired, ClearNext, Job
    <3> QED BY <1>5, <3>1, <3>2
  <2> QED BY <1>1, <2>0, <2>1, <2>2
<1>6. ASSUME NEW t \in Threads, Step(t) PROVE TableStep
  BY <1>0, <1>5, <1>6, ApplyImplements DEF Step
<1>7. CASE HandleChange
  <2>1. UNCHANGED <<AbsTable, AbsAge, AbsPending, raced, joined, missed>>
    BY <1>7 DEF HandleChange, AbsTable, AbsAge, AbsPending, Changing
  <2> QED BY <1>7, <2>1 DEF HandleChange, TableStep, Abs!TableNext, Abs!Deliver
<1>8. CASE Tick
  <2>1. UNCHANGED <<AbsTable, AbsPending, raced, joined, missed, feed, mirror>>
    BY <1>8 DEF Tick, AbsTable, AbsPending, Changing
  <2>2. \A c \in Codes : Changing(c, {"unstamp"})' <=> Changing(c, {"unstamp"})
    BY <1>8 DEF Tick, Changing
  <2>3. AbsAge' = [c \in Codes |-> Older(AbsAge[c])]
    BY <1>8, <2>2 DEF Tick, AbsAge, Older
  <2> QED BY <2>1, <2>3, SameAlerts DEF TableStep, Abs!TableNext, Abs!Elapse
<1>9. CASE Join
  <2>1. UNCHANGED <<AbsTable, AbsAge, AbsPending>>
    BY <1>9 DEF Join, AbsTable, AbsAge, AbsPending, Changing
  <2> QED BY <1>9, <2>1 DEF Join, TableStep, Abs!TableNext, Abs!Subscribe
<1>10. CASE UNCHANGED vars
  BY <1>10 DEF vars, TableStep, Abs!tableVars, AbsTable, AbsAge, AbsPending, Changing
<1> QED BY <1>2, <1>3, <1>4, <1>6, <1>7, <1>8, <1>9, <1>10 DEF Next

(* Before the first callback, the server is an empty table. *)
LEMMA InitImplements == Init => Abs!TableInit
<1> SUFFICES ASSUME Init PROVE Abs!TableInit
  OBVIOUS
<1>1. \A t \in Threads : job[t].pc = "idle"
  BY Jobs DEF Init
<1>2. \A c \in Codes : ~Changing(c, {"stamp"}) /\ ~Changing(c, {"unstamp"})
                         /\ ~Changing(c, {"unstamp", "publish"})
  BY <1>1 DEF Changing
<1> QED BY <1>2, SameAlerts DEF Init, Abs!TableInit, AbsTable, AbsAge, AbsPending

(* However the three threads interleave, _apply_change and _expire_alerts   *)
(* implement the operations of AlertTable step by step, for any alerts and  *)
(* any number of raises, as long as the change topic's queue does not       *)
(* overflow.                                                                *)
THEOREM ServerImplementsTable == Spec /\ [](Len(feed) < Depth) => ImplementsTable
<1>1. RaceInv /\ Len(feed) < Depth /\ [Next]_vars => [Abs!TableNext]_(Abs!tableVars)
  BY StepImplements DEF TableStep
<1> QED BY <1>1, RaceInvariant, InitImplements, PTL DEF Spec, ImplementsTable, Abs!TableSpec

(* The theorems of AlertTable, for the table that the server shows. *)
AbsProofs == INSTANCE AlertTableProofs WITH
               table <- AbsTable, age <- AbsAge, pending <- AbsPending, torn <- raced

(* Hence the client's copy of a code that callbacks do not race on is what  *)
(* the server's entry was, some changes that are still under way ago, once  *)
(* a change of the code has found the client subscribed (_publish_change    *)
(* and _handle_change).                                                     *)
THEOREM MirrorAlwaysFollows == Spec /\ [](Len(feed) < Depth) => []MirrorFollows
<1>1. /\ AbsProofs!IsFiniteSet(Codes)
      /\ AbsProofs!Alert = Alert /\ AbsProofs!Forever = Forever /\ AbsProofs!Unstamped = Unstamped
      /\ \A n : AbsProofs!Older(n) = Older(n)
      /\ \A c, a : AbsProofs!Change(c, a) = Change(c, a)
  BY AlertAssumption
     DEF AbsProofs!IsFiniteSet, AbsProofs!Alert, AbsProofs!Forever, AbsProofs!Unstamped,
         AbsProofs!Older, AbsProofs!Change,
         IsFiniteSet, Alert, Forever, Unstamped, Older, Change
<1>2. AbsProofs!TableSpec => []AbsProofs!FeedCompletesMirror
  BY <1>1, AlertAssumption, AbsProofs!FeedAlwaysCompletesMirror
<1>3. Abs!TableInit => AbsProofs!TableInit
  BY <1>1, SameAlerts DEF Abs!TableInit, AbsProofs!TableInit
<1>4. [Abs!TableNext]_(Abs!tableVars) => [AbsProofs!TableNext]_(AbsProofs!tableVars)
  BY <1>1, SameAlerts
     DEF Abs!TableNext, Abs!tableVars, Abs!Raise, Abs!Remove, Abs!Emit, Abs!Tear, Abs!Ripe,
         Abs!Elapse, Abs!Subscribe, Abs!Deliver,
         AbsProofs!TableNext, AbsProofs!tableVars, AbsProofs!Raise, AbsProofs!Remove,
         AbsProofs!Emit, AbsProofs!Tear, AbsProofs!Ripe, AbsProofs!Elapse,
         AbsProofs!Subscribe, AbsProofs!Deliver
<1>5. AbsProofs!FeedCompletesMirror => MirrorFollows
  BY DEF AbsProofs!FeedCompletesMirror, AbsProofs!Sound, Abs!FeedCompletesMirror, Abs!Sound,
         MirrorFollows
<1> QED BY <1>2, <1>3, <1>4, <1>5, ServerImplementsTable, PTL
        DEF ImplementsTable, Abs!TableSpec, AbsProofs!TableSpec
=============================================================================
