----------------------------- MODULE MCWakeups -----------------------------
(* Wakeups for TLC: only Ingresses at first, routes and ready endpoints come as events. *)
EXTENDS Wakeups

IngressesInit == Init /\ slices = {} /\ routes = {}
IngressesOnly == IngressesInit /\ [][Next]_vars /\ Scheduling
=============================================================================
