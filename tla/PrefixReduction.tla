---------------------------- MODULE PrefixReduction ----------------------------
(***************************************************************************)
(* Which prefixes are watched: sortPrefixesByLength and reducePrefixes of  *)
(* rule_manager.go.  A prefix is a sequence of tokens, as in Matcher, and  *)
(* a Go map from prefixes to nothing is a set of them.                     *)
(***************************************************************************)
EXTENDS Naturals, Sequences, FiniteSets, SequencesExt

\* A range over a map gives each key of it once, in an order that the code
\* may not rely on: CHOOSE stands for one of them.
Draw(out, ps) == Append(out, CHOOSE p \in ps \ Range(out) : TRUE)

Drawn(ps) ==
    LET out[i \in 0 .. Cardinality(ps)] == IF i = 0 THEN <<>> ELSE Draw(out[i - 1], ps)
    IN  out

Listed(ps) == Drawn(ps)[Cardinality(ps)]

\* The inner loop of the insertion sort stops at the last of the sorted
\* prefixes that is not longer than x, or before the first, ...
InsertionPoint(out, x) ==
    CHOOSE j \in 0 .. Len(out) :
        /\ j > 0 => Len(out[j]) <= Len(x)
        /\ \A i \in j + 1 .. Len(out) : Len(out[i]) > Len(x)

\* ... and x goes behind it.
Insert(out, x) == InsertAt(out, InsertionPoint(out, x) + 1, x)

\* What is sorted after each round of the outer loop.
Rounds(list) ==
    LET out[i \in 0 .. Len(list)] == IF i = 0 THEN <<>> ELSE Insert(out[i - 1], list[i])
    IN  out

Sorted(list) == Rounds(list)[Len(list)]

sortPrefixesByLength(ps) == Sorted(Listed(ps))

\* (Wrong on purpose: HasPrefix with its arguments swapped.)
KeepSwapped(out, p) == IF \E q \in out : IsPrefix(p, q) THEN out ELSE out \cup {p}

\* A prefix that begins with one that is already there is left out.
Keep(out, p) == IF \E q \in out : IsPrefix(q, p) THEN out ELSE out \cup {p}

\* What is there after each prefix of the sorted list.
KeptOf(list) ==
    LET out[i \in 0 .. Len(list)] == IF i = 0 THEN {} ELSE Keep(out[i - 1], list[i])
    IN  out

Kept(list) == KeptOf(list)[Len(list)]

reducePrefixes(ps) == Kept(sortPrefixesByLength(ps))
================================================================================
