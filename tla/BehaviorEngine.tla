---------------------------- MODULE BehaviorEngine ----------------------------
(***************************************************************************)
(* The behavior engine (libs/behavior_engine): a registry that lends each  *)
(* behavior to one player at a time, an executor that steps the running    *)
(* instances by priority, and the engine that keeps the two together.      *)
(*                                                                         *)
(* Everything runs in the caller's thread, but a behavior's own code runs  *)
(* inside a tick and may call the engine, so Load, Play and Stop happen    *)
(* between ticks and also while an instance is being stepped.  What a      *)
(* behavior does is left open: it yields any action, returns, or raises.   *)
(***************************************************************************)
EXTENDS Naturals, Sequences

CONSTANTS
  Names,      \* names of behaviors
  Modules,    \* plugin modules: sequences of names
  Priorities,
  MaxPlays,   \* bound: instances created
  MaxRaises   \* bound: behaviors that raise

ASSUME EngineAssumption ==
  /\ Modules \subseteq Seq(Names) /\ Priorities \subseteq Nat
  /\ MaxPlays \in Nat /\ MaxRaises \in Nat

VARIABLES
  loaded,     \* the registry's entries
  borrowed,   \* the entries marked borrowed
  running,    \* _running: the instances the engine tracks, one for a name
  behaviors,  \* the executor's list of instances, as a set: Before is its order
  done, asleep,
  spent,      \* the instances whose iterator has returned or raised
  ticking,    \* is a tick under way?
  pass,       \* the instances the tick has yet to look at
  plays, raises

registry == <<loaded, borrowed>>
scheduling == <<done, asleep, spent, ticking, pass>>
engineVars == <<registry, running, behaviors, scheduling, plays, raises>>

EngineInit ==
  /\ loaded = {} /\ borrowed = {} /\ running = {} /\ behaviors = {}
  /\ done = {} /\ asleep = {} /\ spent = {} /\ ticking = FALSE /\ pass = {}
  /\ plays = 0 /\ raises = 0

(* The list is sorted by priority each time an instance is appended; the    *)
(* sort is stable, so those of one priority stay in the order they came in. *)
Before(i, j) == i.priority < j.priority \/ (i.priority = j.priority /\ i.no < j.no)

(* The next instance that the tick looks at.                                *)
Turn(i) == ticking /\ i \in pass /\ \A j \in pass \ {i} : Before(i, j)

(* An instance is stepped unless it is done or asleep.                      *)
Awake(i) == i \notin done \cup asleep

(* The code of the instance runs.                                           *)
Stepped(i) == Turn(i) /\ Awake(i) /\ i \notin spent

(* When the engine's operations can be called: between ticks, and by the    *)
(* behavior being stepped.                                                  *)
Callable == ~ticking \/ \E i \in pass : Stepped(i)

-----------------------------------------------------------------------------
(* The registry.                                                            *)

(* register raises if the name is taken.                                    *)
Taken(m, k) == m[k] \in loaded \cup {m[j] : j \in 1 .. k - 1}

(* A module's behaviors are registered in order; the first whose name is    *)
(* taken raises, and those before it stay.                                  *)
Load(m) ==
  /\ Callable
  /\ \E k \in 0 .. Len(m) :
       /\ \A j \in 1 .. k : ~Taken(m, j)
       /\ k < Len(m) => Taken(m, k + 1)
       /\ loaded' = loaded \cup {m[j] : j \in 1 .. k}
  /\ UNCHANGED <<borrowed, running, behaviors, scheduling, plays, raises>>

(* Seeded fault: an entry is lent without a look at its mark.               *)
Borrow_Again(n) == n \in loaded
Borrow(n) == n \in loaded /\ n \notin borrowed

-----------------------------------------------------------------------------
(* The engine.                                                              *)

Play(n, p) ==
  /\ Callable /\ Borrow(n) /\ plays < MaxPlays
  /\ plays' = plays + 1
  /\ borrowed' = borrowed \cup {n}
  /\ LET i == [name |-> n, priority |-> p, no |-> plays] IN
     /\ behaviors' = behaviors \cup {i}
     /\ running' = {r \in running : r.name # n} \cup {i}
  /\ UNCHANGED <<loaded, scheduling, raises>>

(* The behavior's function raises or returns no iterator: the entry has     *)
(* been lent already, and nothing takes it back.                            *)
PlayFails(n) ==
  /\ Callable /\ Borrow(n) /\ plays < MaxPlays
  /\ plays' = plays + 1
  /\ borrowed' = borrowed \cup {n}
  /\ UNCHANGED <<loaded, running, behaviors, scheduling, raises>>

(* stop_behavior of every name in ns that is running.                       *)
Stop(ns) ==
  LET stopped == {r \in running : r.name \in ns} IN
  /\ Callable /\ stopped # {}
  /\ running' = running \ stopped
  /\ behaviors' = behaviors \ stopped
  /\ borrowed' = borrowed \ {r.name : r \in stopped}
  /\ UNCHANGED <<loaded, scheduling, plays, raises>>

-----------------------------------------------------------------------------
(* A tick.                                                                  *)

(* The time is read, which wakes some of the sleepers, and the list copied. *)
TickBegins ==
  /\ ~ticking /\ ticking' = TRUE
  /\ pass' = behaviors
  /\ \E woken \in SUBSET asleep : asleep' = asleep \ woken
  /\ UNCHANGED <<registry, running, behaviors, done, spent, plays, raises>>

Skip(i) ==
  /\ Turn(i) /\ ~Awake(i)
  /\ pass' = pass \ {i}
  /\ UNCHANGED <<registry, running, behaviors, done, asleep, spent, ticking, plays, raises>>

(* The exception leaves the tick: neither the instances behind this one nor *)
(* the cleaning up have their turn.                                         *)
Abort == ticking' = FALSE /\ pass' = {}

(* The instance yields nothing, CONTINUE, TICK (no different here) or SLEEP. *)
Yield(i) ==
  /\ Stepped(i)
  /\ asleep' \in {asleep, asleep \cup {i}}
  /\ pass' = pass \ {i}
  /\ UNCHANGED <<registry, running, behaviors, done, spent, ticking, plays, raises>>

(* It yields STOP or returns, or its iterator was spent already.  If the    *)
(* instance was taken off the list during this tick, removing it raises.    *)
(* Seeded fault: the end of an iterator is taken for a yield.               *)
Ends_Continue(i) == i \notin spent
Ends(i) == TRUE

StepEnds(i) ==
  /\ Turn(i) /\ Awake(i)
  /\ IF Ends(i)
     THEN /\ done' = done \cup {i}
          /\ behaviors' = behaviors \ {i}
          /\ IF i \in behaviors THEN pass' = pass \ {i} /\ UNCHANGED ticking ELSE Abort
     ELSE pass' = pass \ {i} /\ UNCHANGED <<done, behaviors, ticking>>
  /\ UNCHANGED <<registry, running, asleep, spent, plays, raises>>

Raise(i) ==
  /\ Stepped(i)
  /\ raises < MaxRaises /\ raises' = raises + 1
  /\ spent' = spent \cup {i}
  /\ Abort
  /\ UNCHANGED <<registry, running, behaviors, done, asleep, plays>>

(* _cleanup_finished.                                                       *)
TickEnds ==
  LET over == {r \in running : r \in done \/ r \notin behaviors} IN
  /\ ticking /\ pass = {} /\ ticking' = FALSE
  /\ running' = running \ over
  /\ borrowed' = borrowed \ {r.name : r \in over}
  /\ UNCHANGED <<loaded, behaviors, done, asleep, spent, pass, plays, raises>>

EngineTick ==
  \/ TickBegins \/ TickEnds
  \/ \E i \in pass : Skip(i) \/ Yield(i) \/ StepEnds(i) \/ Raise(i)

EngineNext ==
  \/ EngineTick
  \/ \E m \in Modules : Load(m)
  \/ \E n \in Names : PlayFails(n) \/ Stop({n}) \/ \E p \in Priorities : Play(n, p)
  \/ Stop(Names)

(* The caller goes on ticking, after an exception too.                      *)
EngineSpec == EngineInit /\ [][EngineNext]_engineVars /\ WF_engineVars(EngineTick)

-----------------------------------------------------------------------------
(* Properties.                                                              *)

(* The executor runs nothing the engine has lost track of: each scheduled   *)
(* instance is the one running under its name, with its entry borrowed, so  *)
(* stop_behavior() and stop_all() reach it; and two instances of a behavior *)
(* never run at once.  This survives calls made by the behaviors themselves *)
(* in the middle of a tick and ticks cut short by an exception.             *)
Stoppable ==
  \A i \in behaviors :
    /\ i \in running /\ i.name \in borrowed
    /\ \A j \in behaviors : j.name = i.name => j = i

(* A behavior that has finished, or has raised, is given back: its entry    *)
(* can be played again after some later tick, even if the tick in which it  *)
(* ended was aborted by another behavior before the cleaning up.            *)
Released ==
  \A n \in Names :
    (\E r \in running : r.name = n /\ r \in done \cup spent) ~> n \notin borrowed
=============================================================================
