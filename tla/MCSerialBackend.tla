-------------------------- MODULE MCSerialBackend --------------------------
(* The module of the runs of SerialBackend. *)
EXTENDS SerialBackend

=============================================================================
