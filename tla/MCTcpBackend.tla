---------------------------- MODULE MCTcpBackend ----------------------------
(* Constants of the runs of TcpBackend. *)
EXTENDS TcpBackend, TLC

CONSTANTS t1, t2, t3

MCTasks == {t1, t2, t3}

=============================================================================
