------------------------------ MODULE RuleManager ------------------------------
(***************************************************************************)
(* From rules to the keys that trigger them: rules are added to an engine  *)
(* (addRuleWithIface, rule_manager.go), the engine runs, and watchers and  *)
(* the crawler hand keys to the key processor, which looks up and          *)
(* evaluates the rules they concern.  Rules are added before Run; the      *)
(* goroutines between a watcher and the key processor are RulesEngine's.   *)
(***************************************************************************)
EXTENDS DynamicRules, PrefixReduction, TLC

CONSTANTS
    Keys,           \* the keys that are written
    Values,
    Filters,        \* the settings of opts.enhancedRuleFilter to look at
    RuleSet,        \* dynamic rules to add
    LockPattern(_), \* the lock pattern each is added with
    PollSet,        \* arguments of AddPolling
    Ttl, Lock, RuleLocks,   \* the texts "ttl", "lock" and "rule_locks"
    KeyExpansion,   \* opts.keyExpansion
    Constraints,    \* opts.constraints
    MaxAdded,       \* bound on the rules added
    AttrValues      \* values of attributes in Keys

VARIABLES
    enhancedRuleFilter,
    rules,              \* rm.rules by index, each with its lock pattern and, for
                        \* the properties, the rule it is an expansion of
    rulesBySlashCount,  \* for every number of slashes, the indices of rules
    prefixes,           \* rm.prefixes
    watched,            \* the prefixes Run has started watchers for
    store,              \* what is in etcd
    dispatched          \* the work of the last event or crawler run

manager == <<enhancedRuleFilter, rules, rulesBySlashCount, prefixes>>
vars == <<manager, watched, store, dispatched>>

\* The namespace of a poll, and its rule: the preconditions hold and the key
\* that is there for the poll's TTL is not.
Namespace(poll) == IF Last(poll.namespace) = Slash THEN poll.namespace ELSE Append(poll.namespace, Slash)

pollingRule(poll) ==
    NewAndRule(<<poll.preconditions, NewEqualsLiteralRule(Append(Namespace(poll), Ttl), Nil)>>)

MaxSlashes ==
    Max({SlashCount(k) : k \in Keys} \cup
        {SlashCount(p) : p \in UNION {getPatterns(r) : r \in RuleSet \cup {pollingRule(l) : l \in PollSet}}})

Init ==
    /\ enhancedRuleFilter \in Filters
    /\ rules = <<>>
    /\ rulesBySlashCount = [n \in 0..MaxSlashes |-> {}]
    /\ prefixes = {}
    /\ watched = {}
    /\ store = [k \in Keys |-> Nil]
    /\ dispatched = {}

--------------------------------------------------------------------------------
(* Adding rules *)

\* ruleManager.addRule for a sequence of rules, one after the other.
RECURSIVE Added(_, _)
Added(rm, todo) ==
    IF todo = <<>> THEN rm
    ELSE LET r == Head(todo).rule
             index == Len(rm.rules) + 1
             counts == {SlashCount(p) : p \in getPatterns(r)}
         IN  Added([rules |-> Append(rm.rules, Head(todo)),
                    bySlash |-> [n \in DOMAIN rm.bySlash |->
                                    rm.bySlash[n] \cup (IF n \in counts THEN {index} ELSE {})],
                    prefixes |-> reducePrefixes(rm.prefixes \cup getRulePrefixes(r, Constraints))],
                   Tail(todo))

\* baseEngine.addRuleWithIface: all expansions of a rule are added.
addRuleWithIface(r, lockPattern) ==
    LET todo == SetToSeq({[rule |-> s, lock |-> lockPattern, of |-> r] : s \in Expand(r, KeyExpansion)})
        rm == Added([rules |-> rules, bySlash |-> rulesBySlashCount, prefixes |-> prefixes], todo)
    IN  /\ watched = {}
        /\ Len(rules) < MaxAdded
        /\ rules' = rm.rules
        /\ rulesBySlashCount' = rm.bySlash
        /\ prefixes' = rm.prefixes
        /\ UNCHANGED <<enhancedRuleFilter, watched, store, dispatched>>

AddRule(r) == addRuleWithIface(r, LockPattern(r))

AddPolling(poll) ==
    addRuleWithIface(pollingRule(poll), <<Slash, RuleLocks>> \o Append(Namespace(poll), Lock))

\* v3Engine.Run: one watcher for every prefix, and a crawler of all of them.
Run ==
    /\ watched = {} /\ rules # <<>>
    /\ watched' = prefixes
    /\ UNCHANGED <<manager, store, dispatched>>

--------------------------------------------------------------------------------
(* Keys trigger rules *)


\* Without the filter a rule is in if the key is one of its keys, and with it
\* if the value does something for the rule.
InScope(s, key, value) ==
    IF enhancedRuleFilter THEN qSatisfiable(s, key, value) \in {"true", "maybe"}
                          ELSE satisfiable(s, key)

getStaticRules(key, value) ==
    UNION {{[index |-> i, rule |-> s.rule, attr |-> s.attr] :
                s \in {t \in makeStaticRule(rules[i].rule, key) : InScope(t.rule, key, value)}} :
            i \in rulesBySlashCount[SlashCount(key)]}

\* The work for a rule, with the lock its worker will take.
dispatchWork(s) ==
    [index |-> s.index, rule |-> s.rule, lock |-> Format(rules[s.index].lock, s.attr)]

\* baseKeyProcessor.processKey: what the rules read is fetched at once.
processKey(key, value, etcd) ==
    LET found == getStaticRules(key, value)
        api == getCachedAPI(etcd, UNION {getKeys(s.rule) : s \in found})
    IN  {dispatchWork(s) : s \in {t \in found : satisfied(t.rule, api)}}

isWork(key, value, api) == \E s \in getStaticRules(key, value) : satisfied(s.rule, api)

Watches(key) == {p \in watched : IsPrefix(p, key)}

\* A key is put or deleted, and the watchers of its prefixes pass it on.
Event(key, value) ==
    /\ watched # {}
    /\ store[key] # value
    /\ store' = [store EXCEPT ![key] = value]
    /\ dispatched' = UNION {processKey(key, value, store') : p \in Watches(key)}
    /\ UNCHANGED <<manager, watched>>

\* A run of the crawler: the keys there are under the prefixes are fetched,
\* and those that mean work by what was fetched are processed.
Crawl ==
    LET fetched == Restrict(store, {k \in Keys : store[k] # Nil /\ Watches(k) # {}})
    IN  /\ watched # {}
        /\ dispatched' = UNION {processKey(k, fetched[k], store) :
                                    k \in {l \in DOMAIN fetched : isWork(l, fetched[l], fetched)}}
        /\ UNCHANGED <<manager, watched, store>>

Next ==
    \/ \E r \in RuleSet : AddRule(r)
    \/ \E l \in PollSet : AddPolling(l)
    \/ Run
    \/ \E k \in Keys, v \in Values \cup {Nil} : Event(k, v)
    \/ Crawl

Spec == Init /\ [][Next]_vars

--------------------------------------------------------------------------------
(* Properties *)

\* The rules that the attributes' values make of rule i.
Instances(i) ==
    UNION {staticRuleFromAttributes(rules[i].rule, f) : f \in [ParamsOf(rules[i].rule) -> AttrValues]}

\* s is the one instance of rule i that key belongs to.
Names(key, i, s) == {t \in Instances(i) : key \in getKeys(t)} = {s}

\* No two leaves of the rule read one key.
RECURSIVE ReadOnce(_)
ReadOnce(s) ==
    \/ IsLeaf(s)
    \/ /\ \A i \in DOMAIN s.rules : ReadOnce(s.rules[i])
       /\ \A i, j \in DOMAIN s.rules : i # j => getKeys(s.rules[i]) \cap getKeys(s.rules[j]) = {}

\* A key whose prefix a constraint rules out is not watched on purpose.
Admitted(key) ==
    \E i \in DOMAIN rules : \E p \in getRulePrefixes(rules[i].rule, Constraints) : IsPrefix(p, key)

\* Whatever rules were added in whatever order, each key of an instance of a
\* rule is watched by exactly one watcher, so that no event is missed and none
\* is processed twice: reducePrefixes in addRule.
WatchedOnce ==
    watched # {} => \A i \in DOMAIN rules : \A s \in Instances(i) : \A k \in getKeys(s) :
        Admitted(k) => Cardinality(Watches(k)) = 1




\* getCrawlerPatterns leaves out no pattern by which a satisfied rule could be
\* found: the keys that are there of a satisfied instance are of patterns
\* that are crawled.
CrawlerPatternsSuffice ==
    watched # {} => \A i \in DOMAIN rules :
        LET r == rules[i].rule IN
        \A f \in [ParamsOf(r) -> AttrValues] : \A s \in staticRuleFromAttributes(r, f) :
            satisfied(s, store) =>
                {k \in getKeys(s) : get(store, k) # Nil} \subseteq {Format(p, f) : p \in getCrawlerPatterns(r)}

\* Every leaf of a rule has the attributes A.
RECURSIVE Uniform(_, _)
Uniform(r, A) ==
    IF IsLeaf(r) THEN A \subseteq ParamsOf(r)
                 ELSE \A i \in DOMAIN r.rules : Uniform(r.rules[i], A)

\* Work for one instance of a rule takes one lock, whichever key triggered it,
\* or its callbacks could overlap, and key expansion does not get in the way:
\* this takes a rule each of whose leaves was written with all attributes of
\* the lock's pattern, as Expand gives a leaf only the attributes it has.
OneLock ==
    \A v, w \in dispatched :
        /\ v.index = w.index /\ v.rule = w.rule
        /\ Uniform(rules[v.index].of, ParamsIn(rules[v.index].lock))
        => v.lock = w.lock

\* The same as EventTriggers for every rule: "The evaluation of the rule
\* should be triggered either when the matching value is passed in for the
\* same key or a different key/value pair is passed in that would cause the
\* second part of the rule to evaluate to qTrue or qMaybe" (staticRule).
FilterTriggers ==
    [][\A i \in DOMAIN rules : \A s \in Instances(i) :
        /\ ~ satisfied(s, store) /\ satisfied(s, store)'
        /\ \E k \in getKeys(s) \cap Keys : store'[k] # store[k] /\ Names(k, i, s) /\ Admitted(k)
        => \E w \in dispatched' : w.index = i /\ w.rule = s]_vars
================================================================================
