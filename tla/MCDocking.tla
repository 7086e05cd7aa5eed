----------------------------- MODULE MCDocking -----------------------------
(***************************************************************************)
(* Docking with all seven windows of the program, from either of the       *)
(* layouts it can start with.  The constants are given in the .cfg files:  *)
(* MCDocking.cfg uses the left button alone, MCDockingCapture.cfg two.     *)
(***************************************************************************)
EXTENDS Docking, TLC

CONSTANTS small, large  \* two sizes of the application window

\* Nothing compares sizes.
Symmetry == Permutations({small, large})
=============================================================================
