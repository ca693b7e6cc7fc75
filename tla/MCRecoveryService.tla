---------------------------- MODULE MCRecoveryService ----------------------------
(* Small instances of RecoveryService. *)
EXTENDS RecoveryService, TLC

\* Agent runs are interchangeable (used only where no liveness is checked).
RunSymmetry == Permutations(Runs)

=============================================================================
