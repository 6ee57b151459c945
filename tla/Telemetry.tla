------------------------------ MODULE Telemetry ------------------------------
(***************************************************************************)
(* Telemetry snapshots and the conditions that safety rules and            *)
(* degradation rules put on them (safety_gate.py; degradation.py repeats   *)
(* the same matching code for its own rules).                              *)
(*                                                                         *)
(* A value is a number, a flag, a text or None.  Numbers are counted in    *)
(* hundredths, so the flag TRUE equals the number Unit, as True == 1 does  *)
(* in the code.                                                            *)
(***************************************************************************)
EXTENDS Contracts

Unit == 100

Number(n) == [type |-> "number", v |-> n]
Flag(b)   == [type |-> "flag",   v |-> IF b THEN Unit ELSE 0]
Text(n)   == [type |-> "text",   v |-> n]
None      == [type |-> "none",   v |-> 0]

\* A snapshot maps some keys to values; get() yields None for the others.
Get(telemetry, key) == IF key \in DOMAIN telemetry THEN telemetry[key] ELSE None

Has(telemetry, key) == Get(telemetry, key).type # "none"

IsNumber(value) == value.type = "number"

\* Python's ==: flags compare with numbers, nothing else crosses types.
Equal(a, b) ==
  /\ a.v = b.v
  /\ a.type = b.type \/ {a.type, b.type} = {"number", "flag"}

NumericOperators == {"lt", "lte", "gte", "gt", "between"}
ConditionOperator ==
  NumericOperators \cup {"eq", "in", "not_in", "exists", "missing"}

\* A condition has a telemetry key, an operator, the set of its thresholds (one for
\* a scalar operator) and, for "between", an upper threshold.  A rule whose
\* condition is not well formed cannot be constructed.
WellFormedCondition(c) ==
  /\ c.operator \in {"lt", "lte", "gte", "gt", "eq", "between"} =>
       \E x \in c.threshold : c.threshold = {x} /\ x # None
  /\ c.operator = "between" => \E x \in c.upper : c.upper = {x} /\ x # None
  /\ c.operator \in {"in", "not_in"} => c.threshold # {}

\* _as_number refuses flags, texts and None.
ConditionRaises(c, telemetry) ==
  /\ c.operator \in NumericOperators
  /\ Has(telemetry, c.telemetry_key)
  /\ \/ ~IsNumber(Get(telemetry, c.telemetry_key))
     \/ \E x \in c.threshold : ~IsNumber(x)
     \/ c.operator = "between" /\ \E x \in c.upper : ~IsNumber(x)

NumericMatch(c, n) ==
  \E x \in c.threshold :
    CASE c.operator = "lt"      -> n < x.v
      [] c.operator = "lte"     -> n <= x.v
      [] c.operator = "gte"     -> n >= x.v
      [] c.operator = "gt"      -> n > x.v
      [] c.operator = "between" -> x.v <= n /\ \E u \in c.upper : n <= u.v

\* Only "missing" matches when the key is absent.
ConditionMatches(c, telemetry) ==
  LET observed == Get(telemetry, c.telemetry_key)
      exists   == Has(telemetry, c.telemetry_key)
      listed   == \E x \in c.threshold : Equal(observed, x)
  IN  CASE c.operator = "exists"       -> exists
        [] c.operator = "missing"      -> ~exists
        [] c.operator \in {"eq", "in"} -> exists /\ listed
        [] c.operator = "not_in"       -> exists /\ ~listed
        [] c.operator \in NumericOperators -> exists /\ NumericMatch(c, observed.v)
==============================================================================
