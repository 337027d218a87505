------------------------------ MODULE DynamicRules -----------------------------
(***************************************************************************)
(* Rules on key patterns: dynamic_rule.go.  A dynamic rule has the shape   *)
(* of a static one with patterns instead of keys; a leaf also has the      *)
(* attributes that key expansion has already replaced in its patterns      *)
(* (attributeInstance).                                                    *)
(***************************************************************************)
EXTENDS Matcher, StaticRules

\* A comparator is the set of values it accepts.  (The fields of a rule are
\* written in the order in which TLC sorts them: it sorts in place, and its
\* workers share the rules that are constants.)
NewCompareLiteralRule(pattern, comparator) ==
    [kind |-> "literal", patterns |-> <<pattern>>, values |-> comparator, attrs |-> <<>>]
NewEqualsLiteralRule(pattern, value) == NewCompareLiteralRule(pattern, {value})
NewEqualsRule(patterns) == [kind |-> "equals", patterns |-> patterns, attrs |-> <<>>]
NewAndRule(nested) == [rules |-> nested, kind |-> "and"]
NewOrRule(nested) == [rules |-> nested, kind |-> "or"]
NewNotRule(nested) == [rules |-> <<nested>>, kind |-> "not"]

RECURSIVE getPatterns(_)
getPatterns(r) ==
    IF IsLeaf(r) THEN Range(r.patterns) ELSE UNION {getPatterns(r.rules[i]) : i \in DOMAIN r.rules}

\* Every pattern of the rule's leaves is looked at, duplicates included.
getRulePrefixes(r, constraints) ==
    UNION {getPrefixesWithConstraints(p, constraints) : p \in getPatterns(r)}

\* ruleFactory.newRule
newRule(r, keys) ==
    IF r.kind = "literal" THEN [kind |-> "literal", values |-> r.values, keys |-> keys]
                          ELSE [kind |-> "equals", keys |-> keys]

\* The static rule that attributes make of a dynamic one, if they are enough.
RECURSIVE staticRuleFromAttributes(_, _)
staticRuleFromAttributes(r, attr) ==
    LET made == [i \in DOMAIN r.rules |-> staticRuleFromAttributes(r.rules[i], attr)]
    IN  IF IsLeaf(r)
        THEN IF \A p \in Range(r.patterns) : AllFound(p, attr)
             THEN {newRule(r, [i \in DOMAIN r.patterns |-> Format(r.patterns[i], attr)])}
             ELSE {}
        ELSE IF \E i \in DOMAIN made : made[i] = {} THEN {}
             ELSE {[rules |-> [i \in DOMAIN made |-> CHOOSE s \in made[i] : TRUE], kind |-> r.kind]}

\* The static rule of a leaf: the first pattern that matches the key counts.
makeLeafRule(r, key) ==
    LET matching == {i \in DOMAIN r.patterns : match(r.patterns[i], key) # {}}
    IN  IF matching = {} THEN {}
        ELSE {[rule |-> newRule(r, [i \in DOMAIN r.patterns |-> Format(r.patterns[i], m)]),
               attr |-> r.attrs @@ m] : m \in match(r.patterns[Min(matching)], key)}


\* The nested rules that know a key, given what each makes of it.
nestedInScope(nested) == {i \in DOMAIN nested : nested[i] # {}}

\* The static rule of which key is a key, and its attributes: those of the
\* first nested rule that knows the key serve for all of them.
RECURSIVE makeStaticRule(_, _)
makeStaticRule(r, key) ==
    IF IsLeaf(r) THEN makeLeafRule(r, key)
    ELSE IF r.kind = "not"
    THEN {[rule |-> [rules |-> <<s.rule>>, kind |-> "not"], attr |-> s.attr] :
            s \in makeStaticRule(r.rules[1], key)}
    ELSE LET nested == [i \in DOMAIN r.rules |->
                           {s \in makeStaticRule(r.rules[i], key) : satisfiable(s.rule, key)}]
             inScope == nestedInScope(nested)
         IN  IF inScope = {} THEN {}
             ELSE UNION {{[rule |-> t, attr |-> s.attr] : t \in staticRuleFromAttributes(r, s.attr)} :
                            s \in nested[Min(inScope)]}

\* Whether a rule is satisfied by keys and values, triggered by key: for authors
\* who test their rules.
RuleSatisfied(r, key, kvs) == {satisfied(s.rule, kvs) : s \in makeStaticRule(r, key)}

--------------------------------------------------------------------------------
(* Which patterns have to be crawled.  A leaf stands for its representation. *)

RECURSIVE getLeafRepresentations(_)
getLeafRepresentations(r) ==
    IF IsLeaf(r) THEN {r} ELSE UNION {getLeafRepresentations(r.rules[i]) : i \in DOMAIN r.rules}

\* What a rule comes to if the leaves in values are true and the others false.
RECURSIVE evaluate(_, _)
evaluate(r, values) ==
    CASE r.kind = "and" -> \A i \in DOMAIN r.rules : evaluate(r.rules[i], values)
      [] r.kind = "or" -> \E i \in DOMAIN r.rules : evaluate(r.rules[i], values)
      [] r.kind = "not" -> ~ evaluate(r.rules[1], values)
      [] OTHER -> r \in values

\* (Wrong on purpose: a leaf counts if it may be true.)
getEssentialRepresentationsSome(r) ==
    LET reps == getLeafRepresentations(r)
    IN  {rep \in reps : \E values \in SUBSET reps : evaluate(r, values) /\ rep \in values}

\* "the leaf rules that must always be true in order for the overall rule to
\* evaluate to true"
getEssentialRepresentations(r) ==
    LET reps == getLeafRepresentations(r)
    IN  {rep \in reps : \A values \in SUBSET reps : evaluate(r, values) => rep \in values}

\* Patterns of keys that must be missing are not crawled.
getCrawlerPatterns(r) ==
    LET nil == {rep \in getEssentialRepresentations(r) : rep.kind = "literal" /\ rep.values = {Nil}}
    IN  getPatterns(r) \ UNION {Range(rep.patterns) : rep \in nil}

--------------------------------------------------------------------------------
(* Key expansion *)

ParamsOf(r) == UNION {ParamsIn(p) : p \in getPatterns(r)}

RECURSIVE Instantiate(_, _)

\* (Wrong on purpose: only the first leaf keeps the values it was given.)
InstantiateFirst(r, f) ==
    LET own == Restrict(f, DOMAIN f \cap ParamsOf(r))
        Kept(i) == IF i > 1 /\ IsLeaf(r.rules[i]) THEN r.rules[i].attrs ELSE own
    IN  IF own = <<>> THEN r
        ELSE IF IsLeaf(r)
        THEN [r EXCEPT !.patterns = [i \in DOMAIN @ |-> Format(@[i], own)],
                       !.attrs = @ @@ own]
        ELSE [r EXCEPT !.rules = [i \in DOMAIN @ |->
                IF IsLeaf(@[i]) THEN [Instantiate(@[i], own) EXCEPT !.attrs = Kept(i)]
                                ELSE Instantiate(@[i], own)]]

\* A rule with values for some attributes: each leaf replaces those it has.
Instantiate(r, f) ==
    LET own == Restrict(f, DOMAIN f \cap ParamsOf(r))
    IN  IF own = <<>> THEN r
        ELSE IF IsLeaf(r)
        THEN [r EXCEPT !.patterns = [i \in DOMAIN @ |-> Format(@[i], own)],
                       !.attrs = @ @@ own]
        ELSE [r EXCEPT !.rules = [i \in DOMAIN @ |-> Instantiate(@[i], own)]]

\* One rule for every choice of values.  valueMap maps attributes to
\* non-empty sets of values; the order in which Go's map gives them decides
\* only the order of the result.
Expand(r, valueMap) ==
    LET D == DOMAIN valueMap \cap ParamsOf(r)
        V == UNION {valueMap[p] : p \in D}
    IN  {Instantiate(r, f) : f \in {g \in [D -> V] : \A p \in D : g[p] \in valueMap[p]}}
================================================================================
