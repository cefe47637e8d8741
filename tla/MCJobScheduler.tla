---------------------------- MODULE MCJobScheduler ----------------------------
(* JobScheduler with a job that is due at the first two minutes and not at   *)
(* the third.                                                                *)
EXTENDS JobScheduler
TwoSlots == [j \in Names |-> {Minute, 2 * Minute}]
=============================================================================
