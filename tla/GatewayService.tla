--------------------------- MODULE GatewayService ---------------------------
(***************************************************************************)
(* What the gateway promises a client connection, without bus, tasks or    *)
(* _pending: the requests of a connection are settled one at a time and in *)
(* the order they were made, each by at most one reply, which goes to the  *)
(* connection that asked and under the tid it asked with; a connection     *)
(* that is over gets no more replies.  A request may be settled without a  *)
(* reply: the gateway drops what ends in an error, what a reused tid has   *)
(* superseded and what outlives its connection.                            *)
(***************************************************************************)
EXTENDS Naturals, Sequences

CONSTANTS Clients, Tids

VARIABLES
    open,           \* the connection can be asked and answered on
    asked,          \* all requests made so far
    outstanding,    \* the numbers of each connection's unsettled requests
    replies         \* the replies on each connection

vars == <<open, asked, outstanding, replies>>

Init ==
    /\ open = [c \in Clients |-> TRUE]
    /\ asked = <<>>
    /\ outstanding = [c \in Clients |-> {}]
    /\ replies = [c \in Clients |-> <<>>]

Ask(c, t) ==
    /\ open[c]
    /\ asked' = Append(asked, [client |-> c, tid |-> t])
    /\ outstanding' = [outstanding EXCEPT ![c] = @ \cup {Len(asked) + 1}]
    /\ UNCHANGED <<open, replies>>

\* The oldest unsettled request of a connection is settled.
Settle(c, n) ==
    /\ n \in outstanding[c]
    /\ \A k \in outstanding[c] : n <= k
    /\ outstanding' = [outstanding EXCEPT ![c] = @ \ {n}]
    /\ UNCHANGED <<open, asked>>

Reply(c, n) ==
    /\ open[c]
    /\ Settle(c, n)
    /\ replies' = [replies EXCEPT ![c] =
                      Append(@, [tid |-> asked[n].tid, n |-> n])]

Drop(c, n) ==
    /\ Settle(c, n)
    /\ UNCHANGED replies

Close(c) ==
    /\ open[c]
    /\ open' = [open EXCEPT ![c] = FALSE]
    /\ UNCHANGED <<asked, outstanding, replies>>

Next ==
    \E c \in Clients :
        \/ \E t \in Tids : Ask(c, t)
        \/ \E n \in outstanding[c] : Reply(c, n) \/ Drop(c, n)
        \/ Close(c)

Spec == Init /\ [][Next]_vars

=============================================================================
