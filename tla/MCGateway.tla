------------------------------ MODULE MCGateway ------------------------------
(***************************************************************************)
(* Small instances of Gateway for TLC: the clients and the frontends they  *)
(* connect to, the requests they make and the routing rules.               *)
(***************************************************************************)
EXTENDS Gateway, TLC

CONSTANTS c1, c2, c3    \* clients

\* One client on a TCP and one on a Unix frontend.
OneEach == c1 :> "tcp" @@ c2 :> "unix"

\* Two clients compete for the Unix frontend, one has the TCP frontend.
SharedUnix == c1 :> "tcp" @@ c2 :> "unix" @@ c3 :> "unix"

OneSeat == [f \in {"unix"} |-> 1]

\* Requests: one that is routed with a unit override, one whose rule names a
\* backend that is not configured, one that no rule matches, and one with a
\* function code that has no class of its own (Raw).
Pdu(unit, fc, op, reg) ==
    [unit_id |-> unit, function_code |-> fc, operation |-> op, register |-> reg]

Read    == Pdu(1, 3, "read", 10)
Orphan  == Pdu(2, 3, "read", 10)
Unknown == Pdu(3, 6, "write", 10)
Raw     == Pdu(1, 23, None, Unordered)

AnyPdu == {Read, Orphan, Unknown, Raw}

AllRead == [c \in {c1, c2} |-> {Read}]

OrphanOrRead == c1 :> {Orphan} @@ c2 :> {Read}

\* c3 asks for what no backend gets to see.
Assorted == c1 :> {Read} @@ c2 :> {Read} @@ c3 :> {Unknown, Raw}

ReadOrRaw == [c \in {c1, c2} |-> {Read, Raw}]

Rule(f, be, units, fcs, range, override) ==
    [frontend |-> f, backend |-> be, unit_override |-> override,
     unit_ids |-> units, function_codes |-> fcs, operations |-> None,
     register_range |-> range]

\* Unit 1 of the TCP frontend is unit 9 of the serial bus, and unit 1 of the
\* Unix frontend is passed through.
Override == << Rule("tcp", "serial", {1}, {3}, None, 9),
               Rule("unix", "serial", {1}, {3}, None, None),
               Rule("tcp", "absent", {2}, {Star}, None, None),
               Rule("unix", "absent", {2}, {Star}, None, None) >>

\* Registers 1 to 100 of every unit and with every function code.
RangeRules == << Rule("tcp", "serial", {Star}, {Star}, [start |-> 1, end |-> 100], None),
                 Rule("unix", "serial", {Star}, {Star}, [start |-> 1, end |-> 100], None) >>

\* As Override, with a range of registers for what is left of the Unix frontend.
MixedRules ==
    Override \o << Rule("unix", "serial", {1}, {Star}, [start |-> 1, end |-> 100], 9) >>

=============================================================================
