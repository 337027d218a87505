----------------------------- MODULE MCRulesEngine ----------------------------
(***************************************************************************)
(* Two keys under two prefixes and two rules that take turns:              *)
(*    start: a = v and no b, whose callback puts b (a polling rule with    *)
(*           its TTL key b);                                               *)
(*    finish: a = v and b = v, whose callback deletes a.                   *)
(* Others put a when it is not there, and b expires when a is not there.   *)
(***************************************************************************)
EXTENDS RulesEngine, TLC

CONSTANTS e1, e2, w1, w2, q1, q2, a, b, v, start, finish, l1, l2, pa, pb

OneEngine == (w1 :> e1) @@ (w2 :> e1) @@ (q1 :> e1)
OneWorker == (w1 :> e1) @@ (q1 :> e1)
TwoEngines == (w1 :> e1) @@ (w2 :> e2) @@ (q1 :> e1) @@ (q2 :> e2)

OnePrefix == (a :> pa) @@ (b :> pa)
TwoPrefixes == (a :> pa) @@ (b :> pb)
MCInitialStore == (a :> Nil) @@ (b :> Nil)
MCExternal(s) == IF s[a] # Nil THEN {} ELSE {<<a, v>>} \cup (IF s[b] # Nil THEN {<<b, Nil>>} ELSE {})
MCRuleKeys(r) == {a, b}
MCSatisfied(r, s) == s[a] = v /\ s[b] = IF r = start THEN Nil ELSE v
MCCallbackPut(r) == IF r = start THEN <<b, v>> ELSE <<a, Nil>>
TwoLockKeys(r) == IF r = start THEN l1 ELSE l2
OneLockKey(r) == l1

\* These rules are the kind CallbackJustified is about.
ASSUME TurnsAssumption == NoInterference
================================================================================
