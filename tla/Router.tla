------------------------------- MODULE Router -------------------------------
(***************************************************************************)
(* The routing rule engine (modbusgw/core/router.py) as operators.         *)
(*                                                                         *)
(* A rule is a record                                                      *)
(*   [frontend, backend, unit_override, unit_ids, function_codes,          *)
(*    operations, register_range]                                          *)
(* whose optional fields are None when the configuration leaves them out,  *)
(* and a request is what Router reads of it,                               *)
(*   [frontend, unit_id, function_code, operation, register].              *)
(* The two lists of a rule may hold the wildcard Star ('*').                *)
(*                                                                         *)
(* register is None for a request without a register, and Unordered for a  *)
(* RawModbusRequest (any function code without a class of its own): there  *)
(* the attribute is the bound classmethod ModbusRequest.register, which    *)
(* hides the property of ModbusPDU, and Python cannot order it against an  *)
(* integer.                                                                *)
(***************************************************************************)
EXTENDS Integers, Sequences

CONSTANTS
    None,       \* an optional value that is absent
    Star,        \* the wildcard '*'
    Unordered   \* a value that comparing with an integer raises TypeError

\* _match_list: an absent pattern matches everything, '*' every value.
MatchList(pattern, value) ==
    \/ pattern = None
    \/ value # None /\ (Star \in pattern \/ value \in pattern)

\* _match_operations: as a list, but without a wildcard.
MatchOperations(pattern, value) ==
    \/ pattern = None
    \/ value # None /\ value \in pattern

\* _match_range evaluates start before end and stops at the first that fails;
\* either comparison raises on an Unordered value.
MatchRange(rng, value) ==
    CASE rng = None            -> "yes"
      [] rng # None /\ value = None -> "no"
      [] rng # None /\ value = Unordered ->
            IF rng.start = None /\ rng.end = None THEN "yes" ELSE "raises"
      [] OTHER ->
            IF /\ rng.start = None \/ value >= rng.start
               /\ rng.end = None \/ value <= rng.end
            THEN "yes" ELSE "no"

\* _matches: a test that fails ends the comparison with this rule, so the
\* range is only looked at when all the others hold.
Matches(rule, q) ==
    IF /\ rule.frontend = q.frontend
       /\ MatchList(rule.unit_ids, q.unit_id)
       /\ MatchList(rule.function_codes, q.function_code)
       /\ MatchOperations(rule.operations, q.operation)
    THEN MatchRange(rule.register_range, q.register)
    ELSE "no"

NoRoute == [kind |-> "none"]
Raised  == [kind |-> "raised"]

\* Mutant: the override is taken even when there is none.
PlanOf_NoFallback(rule, q) ==
    [kind |-> "plan", backend |-> rule.backend, unit_id |-> rule.unit_override]

\* The RoutingPlan of a rule for a request.
PlanOf(rule, q) ==
    [kind    |-> "plan",
     backend |-> rule.backend,
     unit_id |-> IF rule.unit_override # None THEN rule.unit_override
                                              ELSE q.unit_id]

\* The rules the loop of resolve stops at: those that match, or raise.
Stops(rules, q) == {i \in DOMAIN rules : Matches(rules[i], q) # "no"}

\* The index the loop stops at, if it stops at all.
FirstStop(rules, q) ==
    CHOOSE i \in Stops(rules, q) : \A j \in Stops(rules, q) : i <= j

\* Router.resolve: the plan of the first rule that matches, None if there is
\* none, or the exception of a comparison on the way there.
Resolve(rules, q) ==
    IF Stops(rules, q) = {} THEN NoRoute
    ELSE LET first == rules[FirstStop(rules, q)]
         IN  IF Matches(first, q) = "raises" THEN Raised ELSE PlanOf(first, q)

=============================================================================
