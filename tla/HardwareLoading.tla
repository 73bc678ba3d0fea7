--------------------------- MODULE HardwareLoading ---------------------------
(***************************************************************************)
(* How the hardware manager's process is put together (entrypoint.py): the *)
(* controllers of the chosen configuration are imported and constructed,   *)
(* their constructors create the writers and readers of the shared bus     *)
(* (databus/__init__.py), the bus is frozen, and every controller gets a   *)
(* loop whose queue the dispatcher feeds.  Then the controllers' threads   *)
(* share the bus.  What the loops do is the subject of HardwareManager.    *)
(***************************************************************************)
EXTENDS Naturals, Sequences, FiniteSets

CONSTANTS
  Topics, Types,   \* names of topics, and message types
  NoType,          \* the type of a topic that does not exist
  Keys,            \* identifiers of motion commands
  Group,           \* Group[c]: command_group of the controller at path c
  MaxOps,          \* bound: topology operations in a constructor
  MaxSeq,          \* bound: values published on a topic
  MaxSent          \* bound: commands dispatched

ASSUME LoadingAssumption ==
  /\ NoType \notin Types /\ {MaxOps, MaxSeq, MaxSent} \subseteq Nat
  /\ DOMAIN Group \in SUBSET Nat /\ IsFiniteSet(DOMAIN Group)
  /\ \A c \in DOMAIN Group : c > 0 /\ Group[c] \subseteq Keys

Paths == DOMAIN Group

VARIABLES
  strict,    \* STRICT_MODE
  total,     \* number of paths of the configuration
  at,        \* "config", "import", "construct", "run" or the reason of the exit
  path, ops, \* the path being loaded, and how far its constructor is
  topic,     \* topic[t]: its type, the owner of its writer, and its state:
             \* the sequence number and the controller that published
  reader,    \* reader[<<c, t>>]: type, _last_seq, the value read, and the state
             \* tuple that a read in progress has fetched
  loaded,    \* the controllers, in order
  handlers,  \* handlers[k]: the dispatcher's bucket: the loops it feeds, each
             \* at the place of the controller for which it was added
  sent,      \* the keys of the commands dispatched so far
  queue      \* queue[c]: the numbers of the commands in the loop's input queue

loadVars == <<strict, total, at, path, ops, topic, reader, loaded, handlers, sent, queue>>
bus == <<topic, reader>>
routing == <<handlers, sent, queue>>

NoTopic == [type |-> NoType, owner |-> 0, seq |-> 0, by |-> 0]
Live == {loaded[i] : i \in DOMAIN loaded}

(* add_loop: every loop has an input queue of its own.                      *)
InputQueues == [c \in Paths |-> <<>>]

LoadInit ==
  /\ strict \in BOOLEAN /\ total \in 0 .. Cardinality(Paths)
  /\ at = "config" /\ path = 1 /\ ops = 0
  /\ topic = [t \in Topics |-> NoTopic] /\ reader = <<>>
  /\ loaded = <<>> /\ handlers = [k \in Keys |-> <<>>]
  /\ sent = <<>> /\ queue = InputQueues

-----------------------------------------------------------------------------
(* The configuration.                                                       *)

ConfigErrors == {"NO_CONFIG_FILES_SPECIFIED", "CONFIG_LOAD_FAILED", "NO_CONFIG_SPECIFIED",
                 "UNKNOWN_CONFIG_SPECIFIED", "INVALID_CONFIG_FORMAT"}

ReadConfig ==
  /\ at = "config"
  /\ at' \in ConfigErrors \cup {"import"}
  /\ UNCHANGED <<strict, total, path, ops, bus, loaded, routing>>

(* import_class and the checks of what it returns: a path that cannot be    *)
(* imported, or is no controller class, is passed over.                     *)
ImportClass ==
  /\ at = "import" /\ path <= total
  /\ \/ at' = "construct" /\ path' = path
     \/ at' = "import" /\ path' = path + 1
  /\ ops' = 0
  /\ UNCHANGED <<strict, total, bus, loaded, routing>>

-----------------------------------------------------------------------------
(* The constructor of a controller, one operation on the bus at a time.     *)

(* An exception leaves the constructor, with what it did to the bus; and    *)
(* after a constructor that returns, too, the next path is taken up.        *)
NextPath == at' = "import" /\ path' = path + 1 /\ UNCHANGED ops
Proceed == ops' = ops + 1 /\ UNCHANGED <<at, path>>

Constructing == at = "construct" /\ ops < MaxOps

(* _require_topic creates a topic that does not exist.                      *)
Required(t, ty) == IF topic[t].type = NoType THEN [NoTopic EXCEPT !.type = ty] ELSE topic[t]

(* set_val, by controller c.                                                *)
SetVal(tp, c) == [tp EXCEPT !.seq = @ + 1, !.by = c]

(* The writer publishes its initial value before _register_writer finds     *)
(* that the topic has a writer.                                             *)
(* Seeded fault: a topic may have several writers.                          *)
CreateWriter_Shared(t, ty) ==
  /\ Constructing
  /\ LET tp == Required(t, ty)
     IN IF tp.type # ty THEN NextPath /\ UNCHANGED topic
        ELSE LET owner == IF tp.owner = 0 THEN path ELSE tp.owner
             IN Proceed /\ topic' = [topic EXCEPT ![t] = [SetVal(tp, path) EXCEPT !.owner = owner]]
  /\ UNCHANGED <<strict, total, reader, loaded, routing>>
CreateWriter(t, ty) ==
  /\ Constructing
  /\ LET tp == Required(t, ty)
         written == SetVal(tp, path)
     IN IF tp.type # ty THEN NextPath /\ UNCHANGED topic
        ELSE IF tp.owner # 0 THEN NextPath /\ topic' = [topic EXCEPT ![t] = written]
        ELSE Proceed /\ topic' = [topic EXCEPT ![t] = [written EXCEPT !.owner = path]]
  /\ UNCHANGED <<strict, total, reader, loaded, routing>>

NewReader(ty) == [type |-> ty, last |-> 0, got |-> <<0, 0>>, fetched |-> <<>>]

CreateReader(t, ty) ==
  /\ Constructing
  /\ LET tp == Required(t, ty)
     IN IF tp.type # ty THEN NextPath /\ UNCHANGED bus
        ELSE /\ Proceed /\ topic' = [topic EXCEPT ![t] = tp]
             /\ reader' = [r \in DOMAIN reader \cup {<<path, t>>} |->
                            IF r = <<path, t>> THEN NewReader(ty) ELSE reader[r]]
  /\ UNCHANGED <<strict, total, loaded, routing>>

(* A constructor that raises for reasons of its own, or returns.            *)
ConstructorRaises ==
  /\ at = "construct" /\ NextPath
  /\ UNCHANGED <<strict, total, bus, loaded, routing>>

ConstructorReturns ==
  /\ at = "construct"
  /\ loaded' = Append(loaded, path) /\ NextPath
  /\ UNCHANGED <<strict, total, bus, routing>>

-----------------------------------------------------------------------------
(* All paths are done: the bus is frozen, the losses are judged, and the    *)
(* loops and the dispatcher are set up.                                     *)

(* _assert_topics_have_writers.                                             *)
FinalizeFails == \E t \in Topics : topic[t].type # NoType /\ topic[t].owner = 0

Verdict ==
  IF FinalizeFails THEN "DATABUS_FIN_ERROR"
  ELSE IF Len(loaded) = total THEN "run"
  ELSE IF loaded = <<>> \/ strict THEN "FAILED_TO_LOAD_CONTROLLERS" ELSE "run"

(* A handler feeds the queue that was current when it was made.             *)
(* Seeded fault: the queue is looked up when the handler is called.         *)
Bucket_LateBound(k) ==
  [i \in {j \in DOMAIN loaded : k \in Group[loaded[j]]} |-> loaded[Len(loaded)]]
Bucket(k) == [i \in {j \in DOMAIN loaded : k \in Group[loaded[j]]} |-> loaded[i]]

Assemble ==
  /\ at = "import" /\ path > total
  /\ at' = Verdict
  /\ handlers' = IF at' = "run" THEN [k \in Keys |-> Bucket(k)] ELSE handlers
  /\ UNCHANGED <<strict, total, path, ops, bus, loaded, sent, queue>>

-----------------------------------------------------------------------------
(* The process runs: the node dispatches, the controllers use the bus.      *)

(* Every handler in the bucket puts the command in the queue it holds.      *)
Dispatch(k) ==
  /\ at = "run" /\ Len(sent) < MaxSent
  /\ sent' = Append(sent, k)
  /\ queue' = [c \in Paths |->
                 queue[c] \o [i \in 1 .. Cardinality({j \in DOMAIN handlers[k] :
                                                        handlers[k][j] = c}) |-> Len(sent')]]
  /\ UNCHANGED <<strict, total, at, path, ops, bus, loaded, handlers>>

Write(c, t) ==
  /\ at = "run" /\ topic[t].owner = c /\ topic[t].seq < MaxSeq
  /\ topic' = [topic EXCEPT ![t] = SetVal(@, c)]
  /\ UNCHANGED <<strict, total, at, path, ops, reader, loaded, routing>>

(* read(): the state tuple is fetched in one go, then unpacked.             *)
Fetch(c, t) ==
  /\ at = "run" /\ <<c, t>> \in DOMAIN reader /\ reader[<<c, t>>].fetched = <<>>
  /\ reader' = [reader EXCEPT ![<<c, t>>].fetched = <<topic[t].by, topic[t].seq>>]
  /\ UNCHANGED <<strict, total, at, path, ops, topic, loaded, routing>>

(* Seeded fault: the sequence number is read after the value.               *)
Unpack_Torn(c, t) ==
  /\ at = "run" /\ <<c, t>> \in DOMAIN reader /\ reader[<<c, t>>].fetched # <<>>
  /\ reader' = [reader EXCEPT ![<<c, t>>].got = reader[<<c, t>>].fetched,
                               ![<<c, t>>].last = topic[t].seq, ![<<c, t>>].fetched = <<>>]
  /\ UNCHANGED <<strict, total, at, path, ops, topic, loaded, routing>>
Unpack(c, t) ==
  /\ at = "run" /\ <<c, t>> \in DOMAIN reader /\ reader[<<c, t>>].fetched # <<>>
  /\ reader' = [reader EXCEPT ![<<c, t>>].got = reader[<<c, t>>].fetched,
                               ![<<c, t>>].last = reader[<<c, t>>].fetched[2],
                               ![<<c, t>>].fetched = <<>>]
  /\ UNCHANGED <<strict, total, at, path, ops, topic, loaded, routing>>

HasUpdate(c, t) == topic[t].seq > reader[<<c, t>>].last

LoadNext ==
  \/ ReadConfig \/ ImportClass \/ ConstructorRaises \/ ConstructorReturns \/ Assemble
  \/ \E t \in Topics, ty \in Types : CreateWriter(t, ty) \/ CreateReader(t, ty)
  \/ \E k \in Keys : Dispatch(k)
  \/ \E c \in Live, t \in Topics : Write(c, t) \/ Fetch(c, t) \/ Unpack(c, t)

LoadSpec == LoadInit /\ [][LoadNext]_loadVars

-----------------------------------------------------------------------------
(* Properties.                                                              *)

(* A process that runs has a sound topology: every topic has a writer and   *)
(* holds a value, every reader of a controller agrees with the topic on the *)
(* type, and in strict mode the writer is alive and nobody else ever        *)
(* published.  (In the lenient mode the writer may belong to a controller   *)
(* that was given up.)                                                      *)
Topology ==
  at = "run" =>
    /\ \A t \in Topics : topic[t].type # NoType =>
         topic[t].owner # 0 /\ topic[t].seq > 0
         /\ (strict => topic[t].owner \in Live /\ topic[t].by = topic[t].owner)
    /\ \A r \in DOMAIN reader : r[1] \in Live => reader[r].type = topic[r[2]].type

(* has_update is exact: when it says there is nothing new, the value the    *)
(* reader got last is the value of the topic, though the writer's thread    *)
(* publishes between the steps of a read.                                   *)
ReaderCurrent ==
  \A r \in DOMAIN reader : at = "run" /\ ~HasUpdate(r[1], r[2]) =>
    reader[r].got = <<topic[r[2]].by, topic[r[2]].seq>>

(* Every command reaches exactly the loaded controllers that subscribed to  *)
(* it, once and in order, and no loop that is fed belongs to a controller   *)
(* that failed to load.                                                     *)
Routed ==
  at = "run" => \A c \in Paths :
    /\ {queue[c][i] : i \in DOMAIN queue[c]} =
         {j \in DOMAIN sent : c \in Live /\ sent[j] \in Group[c]}
    /\ \A i, j \in DOMAIN queue[c] : i < j => queue[c][i] < queue[c][j]
=============================================================================
