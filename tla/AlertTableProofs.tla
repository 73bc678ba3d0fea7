-------------------------- MODULE AlertTableProofs --------------------------
(***************************************************************************)
(* What AlertTable promises, for any codes, alerts and times to live.      *)
(***************************************************************************)
EXTENDS AlertTable, TLAPS

(* A message at the end of the feed, and one taken from its front. *)
LEMMA AppendFacts ==
  ASSUME NEW S, NEW q \in Seq(S), NEW m \in S
  PROVE  /\ Append(q, m) \in Seq(S) /\ Len(Append(q, m)) = Len(q) + 1
         /\ Len(q) \in Nat
         /\ \A i \in 1 .. Len(q) : Append(q, m)[i] = q[i]
         /\ Append(q, m)[Len(q) + 1] = m
  OBVIOUS

(* The front of a feed, and what is left of it. *)
LEMMA TailFacts ==
  ASSUME NEW S, NEW q \in Seq(S), q # <<>>
  PROVE  /\ Head(q) = q[1] /\ Head(q) \in S
         /\ Tail(q) \in Seq(S) /\ Len(Tail(q)) = Len(q) - 1
         /\ Len(q) \in Nat \ {0}
         /\ \A i \in 1 .. Len(q) - 1 : Tail(q)[i] = q[i + 1]
  OBVIOUS

Inv == TableTypeOK /\ FeedCompletesMirror

(* A step that feeds nothing keeps the feed complete when the codes that    *)
(* are sound after it were so before, with the same entry.                  *)
LEMMA QuietStep ==
  ASSUME Inv, UNCHANGED <<feed, mirror>>,
         \A d \in Codes : Sound(d)' => Sound(d) /\ table'[d] = table[d]
  PROVE  FeedCompletesMirror'
  BY DEF Inv, FeedCompletesMirror

(* One that feeds a change does when the change is its code's entry, unless *)
(* the code is not sound.                                                   *)
LEMMA FeedStep ==
  ASSUME Inv, NEW c \in Codes, NEW a \in Alert \cup {None},
         feed' = Append(feed, Change(c, a)), UNCHANGED mirror,
         Sound(c)' => a = table'[c],
         \A d \in Codes \ {c} : Sound(d)' => Sound(d) /\ table'[d] = table[d]
  PROVE  feed' \in Seq(Changes) /\ FeedCompletesMirror'
<1>1. Change(c, a) \in Changes /\ feed \in Seq(Changes)
  BY DEF Inv, TableTypeOK, Change, Changes
<1>2. /\ Len(feed) \in Nat /\ Len(feed') = Len(feed) + 1
      /\ \A i \in 1 .. Len(feed) : feed'[i] = feed[i]
      /\ feed'[Len(feed) + 1] = Change(c, a)
      /\ feed' \in Seq(Changes)
  BY <1>1, AppendFacts
<1>4. feed'[Len(feed) + 1].code = c /\ feed'[Len(feed) + 1].alert = a
  BY <1>2 DEF Change
<1>5. ASSUME NEW d \in Codes, Sound(d)', NEW i \in 1 .. Len(feed'), feed'[i].code = d,
             \A j \in i + 1 .. Len(feed') : feed'[j].code # d
      PROVE  feed'[i].alert = table'[d]
  <2>1. CASE i = Len(feed) + 1
    BY <1>4, <1>5, <2>1
  <2>2. CASE i \in 1 .. Len(feed)
    <3>1. Len(feed) + 1 \in i + 1 .. Len(feed') /\ feed'[i] = feed[i]
      BY <1>2, <2>2
    <3>2. d # c
      BY <1>4, <1>5, <3>1
    <3>3. \A j \in i + 1 .. Len(feed) : feed[j].code # d
      BY <1>2, <1>5, <2>2
    <3> QED BY <1>5, <2>2, <3>1, <3>2, <3>3 DEF Inv, FeedCompletesMirror
  <2> QED BY <1>2, <2>1, <2>2
<1>6. ASSUME NEW d \in Codes, Sound(d)', \A i \in 1 .. Len(feed') : feed'[i].code # d
      PROVE  mirror'[d] = table'[d]
  <2>1. d # c
    BY <1>2, <1>4, <1>6
  <2>2. \A i \in 1 .. Len(feed) : feed[i].code # d
    BY <1>2, <1>6
  <2> QED BY <1>6, <2>1, <2>2 DEF Inv, FeedCompletesMirror
<1> QED BY <1>2, <1>5, <1>6 DEF FeedCompletesMirror

(* So does a delivery. *)
LEMMA DeliverStep ==
  ASSUME Inv, Deliver
  PROVE  Inv'
<1> DEFINE m == Head(feed)
<1>1. /\ m = feed[1] /\ m \in Changes /\ Len(feed) \in Nat \ {0}
      /\ feed' \in Seq(Changes) /\ Len(feed') = Len(feed) - 1
      /\ \A i \in 1 .. Len(feed) - 1 : feed'[i] = feed[i + 1]
  BY TailFacts DEF Inv, TableTypeOK, Deliver
<1>2. m.code \in Codes /\ m.alert \in Alert \cup {None}
  BY <1>1 DEF Changes
<1> HIDE DEF m
<1>3. mirror' = [mirror EXCEPT ![m.code] = m.alert] /\ UNCHANGED <<table, age, pending, torn, joined, missed>>
  BY DEF Deliver, m
<1>0. \A d : Sound(d)' <=> Sound(d)
  BY <1>3 DEF Sound
<1>4. TableTypeOK'
  BY <1>1, <1>2, <1>3 DEF Inv, TableTypeOK
<1>5. ASSUME NEW d \in Codes, Sound(d)', NEW i \in 1 .. Len(feed'), feed'[i].code = d,
             \A j \in i + 1 .. Len(feed') : feed'[j].code # d
      PROVE  feed'[i].alert = table'[d]
  <2>1. i + 1 \in 1 .. Len(feed) /\ feed'[i] = feed[i + 1] /\ Sound(d)
    BY <1>0, <1>1, <1>5
  <2>2. ASSUME NEW j \in i + 2 .. Len(feed) PROVE feed[j].code # d
    <3>1. j - 1 \in i + 1 .. Len(feed') /\ feed'[j - 1] = feed[j]
      BY <1>1
    <3> QED BY <1>5, <3>1
  <2>3. feed[i + 1].alert = table[d]
    BY <1>5, <2>1, <2>2 DEF Inv, FeedCompletesMirror
  <2> QED BY <1>3, <2>1, <2>3
<1>6. ASSUME NEW d \in Codes, Sound(d)', \A i \in 1 .. Len(feed') : feed'[i].code # d
      PROVE  mirror'[d] = table'[d]
  <2>0. Sound(d)
    BY <1>0, <1>6
  <2>1. ASSUME NEW i \in 2 .. Len(feed) PROVE feed[i].code # d
    <3>1. i - 1 \in 1 .. Len(feed') /\ feed'[i - 1] = feed[i]
      BY <1>1
    <3> QED BY <1>6, <3>1
  <2>2. CASE m.code = d
    <3>1. \A j \in 1 + 1 .. Len(feed) : feed[j].code # feed[1].code
      BY <1>1, <2>1, <2>2
    <3>2. m.alert = table[d]
      BY <1>1, <2>0, <2>2, <3>1 DEF Inv, FeedCompletesMirror
    <3>3. mirror'[d] = m.alert
      BY <1>3, <2>2 DEF Inv, TableTypeOK
    <3> QED BY <1>3, <3>2, <3>3
  <2>3. CASE m.code # d
    <3>1. \A i \in 1 .. Len(feed) : feed[i].code # d
      BY <1>1, <2>1, <2>3
    <3>2. mirror'[d] = mirror[d]
      BY <1>3, <2>3 DEF Inv, TableTypeOK
    <3> QED BY <1>3, <2>0, <3>1, <3>2 DEF Inv, FeedCompletesMirror
  <2> QED BY <2>2, <2>3
<1> QED BY <1>4, <1>5, <1>6 DEF Inv, FeedCompletesMirror

(* At the start the table, the copy and the feed are empty. *)
LEMMA TableInitInv == TableInit => Inv
  BY AlertAssumption DEF TableInit, Inv, TableTypeOK, FeedCompletesMirror, Unstamped

(* Each operation keeps the copy completed by the feed. *)
LEMMA TableStepInv == Inv /\ [TableNext]_tableVars => Inv'
<1> SUFFICES ASSUME Inv, [TableNext]_tableVars PROVE Inv'
  OBVIOUS
<1> USE AlertAssumption
<1>1. ASSUME NEW a \in Alert, Raise(a) PROVE Inv'
  <2>1. a.code \in Codes
    BY DEF Alert
  <2>2. TableTypeOK'
    BY <1>1, <2>1 DEF Raise, Inv, TableTypeOK
  <2>3. ASSUME NEW d \in Codes, Sound(d)' PROVE Sound(d) /\ table'[d] = table[d]
    BY <1>1, <2>1, <2>3 DEF Raise, Sound, Inv, TableTypeOK
  <2> QED BY <1>1, <2>2, <2>3, QuietStep DEF Raise, Inv
<1>2. ASSUME NEW c \in Codes, Remove(c) PROVE Inv'
  <2>1. TableTypeOK'
    BY <1>2 DEF Remove, Inv, TableTypeOK, Unstamped
  <2>2. ASSUME NEW d \in Codes, Sound(d)' PROVE Sound(d) /\ table'[d] = table[d]
    BY <1>2, <2>2 DEF Remove, Sound, Inv, TableTypeOK
  <2> QED BY <1>2, <2>1, <2>2, QuietStep DEF Remove, Inv
<1>3. ASSUME NEW c \in Codes, Emit(c) PROVE Inv'
  <2>1. /\ feed' = (IF joined THEN Append(feed, Change(c, table[c])) ELSE feed)
        /\ table[c] \in Alert \cup {None} /\ UNCHANGED <<table, age, torn, joined, mirror>>
    BY <1>3 DEF Emit, Inv, TableTypeOK
  <2>2. \A d \in Codes \ {c} : Sound(d)' => Sound(d)
    BY <1>3 DEF Emit, Sound
  <2>3. ~joined => ~Sound(c)'
    BY <1>3 DEF Emit, Sound
  <2>4. feed' \in Seq(Changes) /\ FeedCompletesMirror'
    <3>1. CASE joined
      BY <2>1, <2>2, <3>1, FeedStep
    <3>2. CASE ~joined
      BY <2>1, <2>2, <2>3, <3>2, QuietStep DEF Inv, TableTypeOK
    <3> QED BY <3>1, <3>2
  <2>5. pending' \subseteq Codes /\ missed' \subseteq Codes
    BY <1>3 DEF Emit, Inv, TableTypeOK
  <2> QED BY <2>1, <2>4, <2>5 DEF Inv, TableTypeOK
<1>4. CASE Tear
  <2>1. ASSUME NEW d \in Codes, Sound(d)' PROVE Sound(d) /\ table'[d] = table[d]
    BY <1>4, <2>1 DEF Tear, Sound
  <2>2. \A d \in torn' : ~Sound(d)' /\ d \in Codes
    BY <1>4 DEF Tear, Sound
  <2>3. feed' \in Seq(Changes) /\ FeedCompletesMirror'
    <3>1. CASE feed' = feed
      BY <1>4, <2>1, <3>1, QuietStep DEF Tear, Inv, TableTypeOK
    <3>2. CASE \E c \in torn', a \in Alert \cup {None} : feed' = Append(feed, Change(c, a))
      <4>1. PICK c \in torn', a \in Alert \cup {None} : feed' = Append(feed, Change(c, a))
        BY <3>2
      <4> QED BY <1>4, <2>1, <2>2, <4>1, FeedStep DEF Tear
    <3> QED BY <1>4, <3>1, <3>2 DEF Tear
  <2> QED BY <1>4, <2>3 DEF Tear, Inv, TableTypeOK
<1>5. CASE Elapse
  <2>1. age' \in [Codes -> -1 .. MaxTtl]
    BY <1>5 DEF Elapse, Older, Unstamped, Inv, TableTypeOK
  <2> QED BY <1>5, <2>1 DEF Elapse, Inv, TableTypeOK, FeedCompletesMirror, Sound
<1>6. CASE Subscribe
  BY <1>6 DEF Subscribe, Inv, TableTypeOK, FeedCompletesMirror, Sound
<1>7. CASE Deliver
  BY <1>7, DeliverStep
<1>8. CASE UNCHANGED tableVars
  BY <1>8 DEF tableVars, Inv, TableTypeOK, FeedCompletesMirror, Sound
<1> QED BY <1>1, <1>2, <1>3, <1>4, <1>5, <1>6, <1>7, <1>8 DEF TableNext

(* The changes fed to a client complete its copy to the server's table, for *)
(* every code whose last change the client was subscribed for and that      *)
(* operations did not overlap on, with any codes and alerts and any number  *)
(* of changes under way (_apply_change, _publish_change, _handle_change).   *)
THEOREM FeedAlwaysCompletesMirror == TableSpec => []FeedCompletesMirror
<1>1. Inv => FeedCompletesMirror
  BY DEF Inv
<1> QED BY <1>1, TableInitInv, TableStepInv, PTL DEF TableSpec
=============================================================================
