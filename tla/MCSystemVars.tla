---------------------------- MODULE MCSystemVars ----------------------------
(* SystemVars on a small instance.  The rows are of kinds that             *)
(* base_variables has: g is query_cache_size, s optimizer_switch, w        *)
(* default_week_format and r last_insert_id.                               *)
EXTENDS SystemVars

MCVars == {"g", "s", "w", "r"}

Kind(n, t) == [no |-> n, type |-> t, fromGlobal |-> TRUE, readWrite |-> TRUE]

MCRow ==
    [v \in MCVars |-> CASE v = "g" -> Kind(1, 1) [] v = "s" -> Kind(2, 0)
                        [] v = "w" -> Kind(3, 0) [] v = "r" -> Kind(4, 2)]

Set(scope, v) == [do |-> "set", session |-> scope, var |-> v, val |-> 1]
Ask(do, scope, v) == [do |-> do, session |-> scope, var |-> v]

MCStatements ==
    {Set(FALSE, v) : v \in {"g", "s", "r"}} \cup
    {Set(TRUE, "g"), Ask("null", TRUE, "s"), Ask("null", FALSE, "s"),
     Ask("default", TRUE, "s"), Ask("get", TRUE, "g"), Ask("get", FALSE, "g")}

(* Bound: a state in which two sessions have met in the creation of the    *)
(* lock and a third statement has begun has no successor here.  The safety *)
(* properties say nothing of such states; EveryStatementEnds is checked    *)
(* with an overlap for the first two statements only.                      *)
MCBound == "overlapped" \in seen => commands <= 2
=============================================================================
