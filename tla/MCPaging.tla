------------------------------- MODULE MCPaging -------------------------------
(* Paging on a small machine: 13 frames, tables of 8 pages, two slots. *)
EXTENDS Paging

\* The bit that is left set is where the boot does not come.
ASSUME StrayIsAbove == StrayAbove
=============================================================================
