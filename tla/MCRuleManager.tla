----------------------------- MODULE MCRuleManager -----------------------------
(***************************************************************************)
(* Keys /a/north, /b/north, /ab/north, whose text begins with another's,   *)
(* /g/b/north, which contains /b/north, and /g/b/north/ttl, the TTL key of *)
(* a poll.  ":x" stands for north or south, ":geo" is expanded to g.       *)
(***************************************************************************)
EXTENDS RuleManager

CONSTANTS S, ttl, x, geo, a, b, g, north, south, one, two

KAN == <<S, a, S, north>>
KBN == <<S, b, S, north>>
KABN == <<S, a, b, S, north>>
KGBN == <<S, g, S, b, S, north>>
KTTL == <<S, g, S, b, S, north, S, ttl>>

PA == <<S, a, S, x>>
PB == <<S, b, S, x>>
PAB == <<S, a, b, S, x>>
PG == <<S, geo, S, b, S, x>>
PTTL == <<S, geo, S, b, S, x, S, ttl>>

Is(p, v) == NewEqualsLiteralRule(p, v)
And(r, s) == NewAndRule(<<r, s>>)
Or(r, s) == NewOrRule(<<r, s>>)

\* A rule that reads /a/:x twice.
Twice == And(Or(Is(PA, one), Is(PB, one)), Or(Is(PA, two), Is(PB, Nil)))

MCRuleSet ==
    { Is(<<S, a>>, one),
      Is(KABN, Nil),
      And(Is(PA, one), Is(PB, Nil)),
      Or(NewNotRule(Is(PA, one)), Is(PG, one)),
      And(NewNotRule(NewEqualsRule(<<PB, PA>>)), Is(PG, one)),
      NewNotRule(And(Is(PB, one), NewEqualsRule(<<PA, PAB>>))),
      Or(Is(PG, one), Is(PTTL, Nil)),
      Twice }
MCPollSet == {[namespace |-> PG, preconditions |-> Is(PG, one)]}
NoPolls == {}
MCTwice == {Twice}
MCKeys == {KAN, KBN, KABN, KGBN, KTTL}
TwoKeys == {KAN, KBN}
MCAttrValues == {<<north>>, <<south>>}
MCLockPattern(r) == <<S, geo, S, x>>
MCKeyExpansion == geo :> {<<g>>}
MCConstraints == x :> [prefix |-> <<>>, chars |-> <<{north, south}>>]
NoConstraints == <<>>
================================================================================
