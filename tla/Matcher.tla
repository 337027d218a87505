-------------------------------- MODULE Matcher --------------------------------
(***************************************************************************)
(* Key patterns: matcher.go.  A string is a sequence of tokens: Slash,     *)
(* fragments of text without slashes, and, in patterns, attributes (the    *)
(* token of Params stands for ":name", which is a whole path segment).     *)
(* Text is several fragments where one text is to be a prefix of another.  *)
(*                                                                         *)
(* An attribute map is a function from some of Params to strings.  What Go *)
(* returns with an ok flag is a set here: empty, or with one element.      *)
(***************************************************************************)
EXTENDS Integers, Sequences, SequencesExt

CONSTANTS
    Slash,          \* "/"
    Params          \* attributes, ":name" in patterns

\* The index of the first token of s in T, or one more than its length.
IndexOf(s, T) == Min({i \in 1..Len(s) : s[i] \in T} \cup {Len(s) + 1})

SlashCount(s) == Cardinality({i \in 1..Len(s) : s[i] = Slash})

\* The non-empty segments of a path: Split and Cut at slashes.
RECURSIVE Segments(_)
Segments(path) ==
    LET i == IndexOf(path, {Slash})
    IN  IF path = <<>> THEN <<>>
        ELSE (IF i = 1 THEN <<>> ELSE <<SubSeq(path, 1, i - 1)>>)
                \o Segments(SubSeq(path, i + 1, Len(path)))

Join(segments) == FlattenSeq([i \in DOMAIN segments |-> <<Slash>> \o segments[i]])

\* The regular expression of a pattern: its literals, and a group of one or
\* more characters other than slash for every attribute.
parsePath(pattern) == Join(Segments(pattern))

getPrefix(pattern) == SubSeq(pattern, 1, IndexOf(pattern, Params) - 1)

\* The prefixes a constraint on the pattern's first attribute leaves: one
\* character of each of its sets follows the constraint's own prefix.
buildPrefixesFromConstraint(base, constr) ==
    LET n == Len(constr.chars)
    IN  {base \o constr.prefix \o s :
            s \in {t \in [1..n -> UNION Range(constr.chars)] : \A i \in 1..n : t[i] \in constr.chars[i]}}

getPrefixesWithConstraints(pattern, constraints) ==
    LET i == IndexOf(pattern, Params)
    IN  IF i <= Len(pattern) /\ pattern[i] \in DOMAIN constraints
        THEN buildPrefixesFromConstraint(getPrefix(pattern), constraints[pattern[i]])
        ELSE {getPrefix(pattern)}

\* The regular expression matched at the beginning of key.  Of two groups of
\* one name the later one counts, as in parsePath's field map.
RECURSIVE MatchHere(_, _, _)
MatchHere(regex, key, attr) ==
    LET n == IndexOf(key, {Slash}) - 1
    IN  IF regex = <<>> THEN {attr}
        ELSE IF key = <<>> THEN {}
        ELSE IF Head(regex) \in Params
             THEN IF n = 0 THEN {}
                  ELSE MatchHere(Tail(regex), SubSeq(key, n + 1, Len(key)),
                                 (Head(regex) :> SubSeq(key, 1, n)) @@ attr)
        ELSE IF Head(regex) = Head(key) THEN MatchHere(Tail(regex), Tail(key), attr)
        ELSE {}

\* FindStringSubmatch: the expression is not anchored, so it may match inside
\* a longer key; the leftmost match counts.
match(pattern, key) ==
    LET At(i) == MatchHere(parsePath(pattern), SubSeq(key, i, Len(key)), <<>>)
        starts == {i \in 1..Len(key) : At(i) # {}}
    IN  IF starts = {} THEN {} ELSE At(Min(starts))

ParamsIn(pattern) == Range(pattern) \cap Params

\* formatPath's string: attributes that are not found stay as they are ...
Format(pattern, attr) ==
    LET segments == Segments(pattern)
    IN  Join([i \in DOMAIN segments |->
                IF segments[i][1] \in DOMAIN attr THEN attr[segments[i][1]] ELSE segments[i]])

\* ... and its flag says whether there are any.
AllFound(pattern, attr) == ParamsIn(pattern) \subseteq DOMAIN attr
================================================================================
