----------------------------- MODULE MCProvisioner -----------------------------
(* Provisioner for TLC. *)
EXTENDS Provisioner, TLC

(* One optional resource, which the second of three templates leaves out *)
OnAndOff == [t \in 1..MaxTemplates |-> IF t = 2 THEN <<>> ELSE <<"Budget">>]
BudgetCleanup == <<{"Budget"}>>

(* A whole instance, whose disruption budget the second template drops; the server respells the *)
(* Deployment and keeps the Service until its load balancer is gone.                            *)
BudgetDropped ==
  [t \in 1..MaxTemplates |-> IF t = 1 THEN <<"Service", "Budget", "Deployment">>
                                      ELSE <<"Service", "Deployment">>]
InstanceCleanup == <<{"Deployment"}, {"Service"}, {"Budget"}>>

(* Two installations under one fair specification: with the resync the world changes once and an *)
(* object is tampered with, without it there are three events and a failing request.             *)
Budgets ==
  \E p \in Procs :
    IF proc[p].resync THEN events = MaxEvents - 2 /\ strays = 0 /\ faults = MaxFaults
                      ELSE events = 0 /\ strays = MaxStrayWrites /\ faults = 0
InstalledWith == Installed /\ Budgets
BothWays == InstalledWith /\ [][Next]_vars /\ Scheduling

Symmetry == Permutations(Procs)
=============================================================================
