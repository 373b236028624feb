---------------------------- MODULE MCSupervisor ----------------------------
(* Small instances of Supervisor for TLC.                                  *)
EXTENDS Supervisor, TLC

\* The device records are interchangeable.
Symmetry == Permutations(Devs)

=============================================================================
