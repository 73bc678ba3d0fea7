----------------------------- MODULE AlertTable -----------------------------
(***************************************************************************)
(* What the alert system promises (docs/system_alerts.md, and the class    *)
(* comments of server.py and client.py): a table of active alerts in which *)
(* a raise, a clear and an expiry are indivisible, and a client that is    *)
(* fed the change of a code before the code is changed again.  Operations  *)
(* on one code that overlap void the promise, for that code only.          *)
(***************************************************************************)
EXTENDS Alerts, Sequences

VARIABLES
  table,    \* table[c]: the active alert of code c, or None
  age,      \* age[c]: time since it was last raised
  pending,  \* the codes whose change is still to be fed to the client
  torn,     \* the codes of overlapping operations
  joined,   \* has the client subscribed?
  missed,   \* the codes whose last change it was not there for
  feed,     \* changes on their way to the client, oldest first
  mirror    \* the client's copy of the table

tableVars == <<table, age, pending, torn, joined, missed, feed, mirror>>

Ripe(c) == table[c].ttl # Forever /\ age[c] # Unstamped /\ age[c] >= table[c].ttl

TableInit ==
  /\ table = [c \in Codes |-> None]
  /\ age = [c \in Codes |-> Unstamped]
  /\ pending = {} /\ torn = {}
  /\ joined \in BOOLEAN /\ missed = {}
  /\ feed = <<>>
  /\ mirror = [c \in Codes |-> None]

(* A raise always restarts the alert's life; only a new one is a change.    *)
Raise(a) ==
  /\ a.code \notin pending
  /\ table' = [table EXCEPT ![a.code] = a]
  /\ age' = [age EXCEPT ![a.code] = 0]
  /\ pending' = IF table[a.code] = a THEN pending ELSE pending \cup {a.code}
  /\ UNCHANGED <<torn, joined, missed, feed, mirror>>

(* An alert goes out by request or at the end of its life, never before.    *)
Remove(c) ==
  /\ c \notin pending
  /\ table[c] # None
  /\ c \in ClearCodes \/ Ripe(c)
  /\ table' = [table EXCEPT ![c] = None]
  /\ age' = [age EXCEPT ![c] = Unstamped]
  /\ pending' = pending \cup {c}
  /\ UNCHANGED <<torn, joined, missed, feed, mirror>>

(* The change goes to the client, if there is one. *)
Emit(c) ==
  /\ c \in pending
  /\ pending' = pending \ {c}
  /\ feed' = IF joined THEN Append(feed, Change(c, table[c])) ELSE feed
  /\ missed' = IF joined THEN missed \ {c} ELSE missed \cup {c}
  /\ UNCHANGED <<table, age, torn, joined, mirror>>

(* Whatever overlapping operations do to their codes, others keep theirs.   *)
Tear ==
  /\ torn \subseteq torn' /\ torn' \subseteq Codes
  /\ table' \in [Codes -> Alert \cup {None}] /\ age' \in [Codes -> -1 .. MaxTtl]
  /\ pending' \subseteq Codes /\ missed' \subseteq Codes
  /\ \A c \in Codes \ torn' :
        /\ table'[c] = table[c] /\ age'[c] = age[c]
        /\ c \in pending' <=> c \in pending
        /\ c \in missed' <=> c \in missed
  /\ feed' = feed \/ \E c \in torn', a \in Alert \cup {None} : feed' = Append(feed, Change(c, a))
  /\ UNCHANGED <<joined, mirror>>

Elapse ==
  /\ age' = [c \in Codes |-> Older(age[c])]
  /\ UNCHANGED <<table, pending, torn, joined, missed, feed, mirror>>

Subscribe ==
  /\ joined' = TRUE
  /\ UNCHANGED <<table, age, pending, torn, missed, feed, mirror>>

Deliver ==
  /\ feed # <<>>
  /\ mirror' = [mirror EXCEPT ![Head(feed).code] = Head(feed).alert]
  /\ feed' = Tail(feed)
  /\ UNCHANGED <<table, age, pending, torn, joined, missed>>

TableNext ==
  \/ Elapse \/ Subscribe \/ Deliver
  \/ \E c \in Codes : Remove(c) \/ Emit(c)
  \/ \E a \in Alert : Raise(a)
  \/ Tear

TableSpec == TableInit /\ [][TableNext]_tableVars

-----------------------------------------------------------------------------
TableTypeOK ==
  /\ table \in [Codes -> Alert \cup {None}]
  /\ age \in [Codes -> -1 .. MaxTtl]
  /\ pending \subseteq Codes /\ torn \subseteq Codes /\ missed \subseteq Codes
  /\ joined \in BOOLEAN
  /\ feed \in Seq(Changes)
  /\ mirror \in [Codes -> Alert \cup {None}]

(* The client ends up with the server's table: of each code that nothing    *)
(* is the matter with, the last change under way is the table's entry, or   *)
(* none is and the copy is right.                                           *)
Sound(c) == c \notin pending /\ c \notin torn /\ c \notin missed
FeedCompletesMirror ==
  \A c \in Codes : Sound(c) =>
    /\ \A i \in 1 .. Len(feed) :
          feed[i].code = c /\ (\A j \in i + 1 .. Len(feed) : feed[j].code # c)
             => feed[i].alert = table[c]
    /\ (\A i \in 1 .. Len(feed) : feed[i].code # c) => mirror[c] = table[c]
=============================================================================
