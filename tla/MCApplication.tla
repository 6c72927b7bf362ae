--------------------------- MODULE MCApplication ---------------------------
(* The module of the runs of Application. *)
EXTENDS Application

=============================================================================
