--------------------------- MODULE MCReaderWriter ---------------------------
(***************************************************************************)
(* Instances of ReaderWriter for TLC.                                      *)
(***************************************************************************)
EXTENDS ReaderWriter

\* A request that runs the program to its next stop, a query of two commands
\* with handlers, and a query of one.
MixedRequests == {Request("Continue"), Request("GetStack"), Request("UpdateWatches")}

\* Enough to make gdb busy, to stop and to be queried.
FewRequests == {Request("Continue"), Request("GetStack")}
=============================================================================
