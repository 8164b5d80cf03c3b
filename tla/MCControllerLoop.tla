--------------------------- MODULE MCControllerLoop ---------------------------
(* ControllerLoop for TLC: the command lines the runs consider, and a first desired state *)
(* to which a change can add an object, of which it can remove one, and swap the two.      *)
EXTENDS ControllerLoop

TickArgs == [probe : BOOLEAN, resync : BOOLEAN] \ {[probe |-> TRUE, resync |-> TRUE]}
ProbeOnly == {[probe |-> TRUE, resync |-> FALSE]}

OneWanted == desired = {CHOOSE o \in Objects : TRUE} /\ Init
FairFromOne == OneWanted /\ [][Next]_vars /\ Fairness
=============================================================================
