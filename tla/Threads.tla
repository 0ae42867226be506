------------------------------ MODULE Threads -------------------------------
(***************************************************************************)
(* The worker threads that the handlers run on, for the modules that       *)
(* Service puts together.                                                  *)
(***************************************************************************)
EXTENDS Naturals

CONSTANTS Workers, None

ASSUME NoneAssumption == None \notin Workers \cup Nat
=============================================================================
