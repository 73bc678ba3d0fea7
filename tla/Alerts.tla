------------------------------- MODULE Alerts -------------------------------
(***************************************************************************)
(* The alert (alert.py) and the change message (transport.py).             *)
(***************************************************************************)
EXTENDS Integers, FiniteSets

CONSTANTS
  Codes,       \* alert codes, the keys of the table
  ClearCodes,  \* the codes some node clears by request; the others only expire
  Bodies,      \* what else distinguishes two alerts of one code
  MaxTtl,      \* longest finite time to live, in ticks of the clock
  None         \* no alert

Forever == MaxTtl + 1  \* a ttl of math.inf
Alert == [code : Codes, body : Bodies, ttl : 0 .. Forever]

ASSUME AlertAssumption ==
  /\ IsFiniteSet(Codes) /\ ClearCodes \subseteq Codes
  /\ MaxTtl \in Nat
  /\ None \notin Alert /\ None \notin Codes

(* A change, as the new entry of its code: None for a clear.                *)
Change(c, a) == [code |-> c, alert |-> a]
Changes == [code : Codes, alert : Alert \cup {None}]

(* The age of an alert, counted up to MaxTtl; Unstamped when its code is    *)
(* not a key of _alert_started_at.                                          *)
Unstamped == -1
Older(n) == IF n = Unstamped \/ n = MaxTtl THEN n ELSE n + 1
=============================================================================
