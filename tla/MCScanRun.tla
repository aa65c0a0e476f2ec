----------------------------- MODULE MCScanRun ------------------------------
(***************************************************************************)
(* ScanRun for TLC. Rows are interchangeable: nothing in the run orders or *)
(* names them, so the safety properties may be checked up to a permutation *)
(* of the rows.                                                            *)
(***************************************************************************)
EXTENDS ScanRun, TLC

RowSymmetry == Permutations(Rows)
=============================================================================
