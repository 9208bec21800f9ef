------------------------- MODULE MCAdmissionControl -------------------------
(***************************************************************************)
(* AdmissionControl on a small instance.                                   *)
(***************************************************************************)
EXTENDS AdmissionControl, TLC

\* Threads are interchangeable.
Symmetry == Permutations(Threads)
=============================================================================
