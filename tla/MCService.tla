----------------------------- MODULE MCService -----------------------------
(* Two administrators, patient or not, and up to two gateways. *)
EXTENDS Service

=============================================================================
