------------------------------ MODULE StaticRules ------------------------------
(***************************************************************************)
(* Rules on concrete keys: static_rule.go.  A rule is a record:            *)
(*    [kind |-> "literal", keys |-> <<k>>, values |-> V], where V is the   *)
(*        set of values (Nil for a missing key) its comparator accepts;    *)
(*    [kind |-> "equals", keys |-> ks];                                    *)
(*    [kind |-> "and" | "or" | "not", rules |-> rs].                       *)
(* A store is a function from keys to values; reads are lookups in values  *)
(* already fetched (cacheReadAPI), which never fail.                       *)
(***************************************************************************)
EXTENDS Sequences, Functions

CONSTANT Nil        \* the value of a key that is not there

\* cacheReadAPI.get
get(store, key) == IF key \in DOMAIN store THEN store[key] ELSE Nil


\* etcdV3ReadAPI.getCachedAPI reads the keys of some rules in one transaction,
\* which gives back those that are there.
getCachedAPI(store, keys) == Restrict(store, {k \in keys \cap DOMAIN store : store[k] # Nil})

IsLeaf(r) == r.kind \in {"literal", "equals"}

RECURSIVE getKeys(_)
getKeys(r) ==
    IF IsLeaf(r) THEN Range(r.keys) ELSE UNION {getKeys(r.rules[i]) : i \in DOMAIN r.rules}

RECURSIVE keyMatch(_, _)
keyMatch(r, key) ==
    CASE r.kind = "literal" -> key = r.keys[1]
      [] r.kind = "equals" -> r.keys = <<>> \/ key \in Range(r.keys)
      [] OTHER -> \E i \in DOMAIN r.rules : keyMatch(r.rules[i], key)

RECURSIVE satisfiable(_, _)
satisfiable(r, key) ==
    IF r.kind \in {"and", "or"}
    THEN \E i \in DOMAIN r.rules : satisfiable(r.rules[i], key)
    ELSE keyMatch(r, key)

\* What a key and its value tell about a rule, without reading the others.
RECURSIVE qSatisfiable(_, _, _)
qSatisfiable(r, key, value) ==
    LET nested == {qSatisfiable(r.rules[i], key, value) : i \in DOMAIN r.rules}
        First(s) == IF \E i \in DOMAIN s : s[i] \in nested
                    THEN s[CHOOSE i \in DOMAIN s :
                            s[i] \in nested /\ \A j \in 1..(i - 1) : s[j] \notin nested]
                    ELSE "none"
    IN  CASE r.kind = "literal" -> IF key # r.keys[1] THEN "none"
                                   ELSE IF value \in r.values THEN "true" ELSE "false"
          [] r.kind = "equals" -> IF keyMatch(r, key) THEN "maybe" ELSE "none"
          [] r.kind = "and" -> First(<<"false", "true", "maybe">>)
          [] r.kind = "or" -> First(<<"true", "maybe", "false">>)
          [] r.kind = "not" -> CASE "true" \in nested -> "false"
                                 [] "false" \in nested -> "true"
                                 [] OTHER -> First(<<"maybe">>)

RECURSIVE satisfied(_, _)
satisfied(r, store) ==
    CASE r.kind = "literal" -> get(store, r.keys[1]) \in r.values
      [] r.kind = "equals" -> \A i \in DOMAIN r.keys : get(store, r.keys[i]) = get(store, r.keys[1])
      [] r.kind = "and" -> \A i \in DOMAIN r.rules : satisfied(r.rules[i], store)
      [] r.kind = "or" -> \E i \in DOMAIN r.rules : satisfied(r.rules[i], store)
      [] r.kind = "not" -> ~ satisfied(r.rules[1], store)
================================================================================
