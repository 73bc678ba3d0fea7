-------------------------- MODULE MCHardwareLoading --------------------------
(* Two controllers that share a command, two topics and two types.          *)
EXTENDS HardwareLoading, TLC

CONSTANTS t1, t2, int, str, k1, k2

MCTopics == {t1, t2}
MCTypes == {int, str}
MCKeys == {k1, k2}
MCGroup == <<{k1, k2}, {k2}>>
Symmetry == Permutations(MCTopics) \cup Permutations(MCTypes)
=============================================================================
