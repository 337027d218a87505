----------------------------- MODULE MCRuleLocker -----------------------------
(* Two engines: w1 and w2 are goroutines of e1, w3 of e2. *)
EXTENDS RuleLocker, TLC

CONSTANTS e1, e2, w1, w2, w3, s1, s2, s3

MCEngineOf == (w1 :> e1) @@ (w2 :> e1) @@ (w3 :> e2)
\* One engine of each kind, or two of one kind.
Mixed == (e1 :> TRUE) @@ (e2 :> FALSE)
AllShared == (e1 :> TRUE) @@ (e2 :> TRUE)
AllPrivate == (e1 :> FALSE) @@ (e2 :> FALSE)
MCHome == (s1 :> e1) @@ (s2 :> e1) @@ (s3 :> e2)
================================================================================
