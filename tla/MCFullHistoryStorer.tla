------------------------ MODULE MCFullHistoryStorer ------------------------
(* Small instances of FullHistoryStorer for TLC. *)
EXTENDS FullHistoryStorer, TLC

ProcSymmetry == Permutations(Procs)
============================================================================
