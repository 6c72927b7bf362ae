--------------------------- MODULE MCPtyFrontend ---------------------------
(* The module of the runs of PtyFrontend. *)
EXTENDS PtyFrontend

=============================================================================
