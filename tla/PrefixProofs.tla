------------------------------ MODULE PrefixProofs ------------------------------
(***************************************************************************)
(* What sortPrefixesByLength and reducePrefixes compute, for every finite  *)
(* set of prefixes over any alphabet C: the sort is a sort, the reduction  *)
(* keeps exactly the prefixes that begin with no other one, a key is       *)
(* covered once, and adding rules one by one comes to the same.            *)
(*                                                                         *)
(* The loops are recursive functions, and what holds after each round is   *)
(* shown by induction on a set of rounds (CountingUp).  The provers find a *)
(* lemma's instance when its conclusion is one formula: several operators  *)
(* below (Iterates, Inserted, Adds...) only name a conclusion.             *)
(***************************************************************************)
EXTENDS PrefixReduction, FiniteSetTheorems, TLAPS

--------------------------------------------------------------------------------
(* Induction *)

\* A set of naturals has a least element.
LEMMA LeastNatural ==
    ASSUME NEW T \in SUBSET Nat, T # {}
    PROVE  \E m \in T : \A k \in T : m <= k
<1> DEFINE R == OpToRel(<, Nat)
<1>1. IsWellFoundedOn(R, Nat)
  BY NatLessThanWellFounded, Zenon
<1>2. \A x, y \in Nat : y < x => <<y, x>> \in R
  BY DEF OpToRel
<1> HIDE DEF R
<1>3. PICK m \in T : \A y \in T : ~ (<<y, m>> \in R)
  BY <1>1, WFMin, Zenon
<1>4. ASSUME NEW k \in T PROVE m <= k
  <2>1. ~ (<<k, m>> \in R)
    BY <1>3
  <2>2. m \in Nat /\ k \in Nat
    OBVIOUS
  <2>3. ~ (k < m)
    BY <1>2, <2>1, <2>2, Zenon
  <2> QED
    BY <2>2, <2>3
<1> QED
  BY <1>4

\* Induction, for a set instead of a predicate.
LEMMA SetInduction ==
    ASSUME NEW S, 0 \in S, \A n \in Nat : n \in S => n + 1 \in S
    PROVE  Nat \subseteq S
<1> SUFFICES ASSUME Nat \ S # {} PROVE FALSE
  OBVIOUS
<1>1. PICK m \in Nat \ S : \A k \in Nat \ S : m <= k
  BY LeastNatural, Zenon
<1>2. m # 0 /\ m - 1 \in Nat
  BY <1>1
<1>3. m - 1 \in S
  BY <1>1, <1>2
<1> QED
  BY <1>1, <1>2, <1>3

\* Induction over the rounds 1 .. n of a loop.
LEMMA CountingUp ==
    ASSUME NEW n \in Nat, NEW S, 0 \in S, \A i \in 1 .. n : i - 1 \in S => i \in S
    PROVE  n \in S
<1> DEFINE T == {k \in Nat : k <= n => k \in S}
<1>1. 0 \in T
  OBVIOUS
<1>2. ASSUME NEW k \in Nat, k \in T PROVE k + 1 \in T
  <2> SUFFICES ASSUME k + 1 <= n PROVE k + 1 \in S
    OBVIOUS
  <2>1. k + 1 \in 1 .. n /\ (k + 1) - 1 = k /\ k \in S
    BY <1>2
  <2> QED
    BY <2>1
<1> HIDE DEF T
<1>3. n \in T
  BY <1>1, <1>2, SetInduction
<1> QED
  BY <1>3 DEF T

\* f is what the recursive function computes that starts from d0 and takes steps.
Iterates(f, n, D, d0, step) ==
    /\ f \in [0 .. n -> D]
    /\ f = [i \in 0 .. n |-> IF i = 0 THEN d0 ELSE step[<<i, f[i - 1]>>]]

\* Such a function exists, so that a recursive definition means what it says.
LEMMA Iteration ==
    ASSUME NEW n \in Nat, NEW D, NEW d0 \in D, NEW step \in [(1 .. n) \X D -> D]
    PROVE  \E f : Iterates(f, n, D, d0, step)
<1> DEFINE IsRun(f, k) == /\ f \in [0 .. k -> D]
                          /\ f[0] = d0
                          /\ \A i \in 1 .. k : f[i] = step[<<i, f[i - 1]>>]
           S == {k \in Nat : k <= n => \E f \in [0 .. k -> D] : IsRun(f, k)}
<1>1. 0 \in S
  <2> DEFINE f0 == [i \in 0 .. 0 |-> d0]
  <2>1. IsRun(f0, 0)
    OBVIOUS
  <2> QED
    BY <2>1, Zenon
<1>2. ASSUME NEW k \in Nat, k \in S PROVE k + 1 \in S
  <2> SUFFICES ASSUME k + 1 <= n PROVE \E f \in [0 .. k + 1 -> D] : IsRun(f, k + 1)
    OBVIOUS
  <2>1. PICK g \in [0 .. k -> D] : IsRun(g, k)
    BY <1>2
  <2> DEFINE f == [i \in 0 .. k + 1 |-> IF i = k + 1 THEN step[<<k + 1, g[k]>>] ELSE g[i]]
  <2>2. f \in [0 .. k + 1 -> D]
    <3>1. step[<<k + 1, g[k]>>] \in D
      OBVIOUS
    <3> QED
      BY <3>1
  <2>3. f[0] = d0
    BY <2>1
  <2>4. ASSUME NEW i \in 1 .. k + 1 PROVE f[i] = step[<<i, f[i - 1]>>]
    <3>1. CASE i = k + 1
      <4>1. f[k] = g[k]
        OBVIOUS
      <4>2. f[k + 1] = step[<<k + 1, g[k]>>] /\ i - 1 = k
        BY <3>1
      <4> QED
        BY <3>1, <4>1, <4>2, Zenon
    <3>2. CASE i \in 1 .. k
      BY <2>1, <3>2
    <3> QED
      BY <3>1, <3>2
  <2> QED
    BY <2>2, <2>3, <2>4, Zenon
<1> HIDE DEF S
<1>3. n \in S
  BY <1>1, <1>2, SetInduction
<1>4. PICK f \in [0 .. n -> D] : IsRun(f, n)
  BY <1>3 DEF S
<1>5. f = [i \in 0 .. n |-> IF i = 0 THEN d0 ELSE step[<<i, f[i - 1]>>]]
  BY <1>4
<1> QED
  BY <1>4, <1>5, Zenon DEF Iterates

--------------------------------------------------------------------------------
(* Prefixes of keys *)

\* HasPrefix, token by token.
LEMMA PrefixIs ==
    ASSUME NEW C, NEW s \in Seq(C), NEW t \in Seq(C)
    PROVE  IsPrefix(s, t) <=> Len(s) <= Len(t) /\ \A i \in 1 .. Len(s) : s[i] = t[i]
<1>1. ASSUME Len(s) <= Len(t)
      PROVE  /\ SubSeq(s, 1, Len(s)) = [i \in 1 .. Len(s) |-> s[i]]
             /\ SubSeq(t, 1, Len(s)) = [i \in 1 .. Len(s) |-> t[i]]
  BY <1>1
<1>2. ASSUME Len(s) <= Len(t), IsPrefix(s, t), NEW i \in 1 .. Len(s)
      PROVE  s[i] = t[i]
  BY <1>1, <1>2 DEF IsPrefix
<1>3. ASSUME Len(s) <= Len(t), \A i \in 1 .. Len(s) : s[i] = t[i]
      PROVE  IsPrefix(s, t)
  BY <1>1, <1>3 DEF IsPrefix
<1> QED
  BY <1>2, <1>3 DEF IsPrefix

\* A prefix of t is no longer than t.
LEMMA PrefixLength ==
    ASSUME NEW C, NEW s \in Seq(C), NEW t \in Seq(C), IsPrefix(s, t)
    PROVE  Len(s) <= Len(t)
BY PrefixIs

\* Every text begins with itself.
LEMMA PrefixItself ==
    ASSUME NEW C, NEW s \in Seq(C)
    PROVE  IsPrefix(s, s)
BY PrefixIs

\* A prefix of a prefix is a prefix.
LEMMA PrefixTransitive ==
    ASSUME NEW C, NEW s \in Seq(C), NEW t \in Seq(C), NEW u \in Seq(C),
           IsPrefix(s, t), IsPrefix(t, u)
    PROVE  IsPrefix(s, u)
BY PrefixIs

\* A prefix that is as long as the text is the text.
LEMMA PrefixWhole ==
    ASSUME NEW C, NEW s \in Seq(C), NEW t \in Seq(C), IsPrefix(s, t), Len(t) <= Len(s)
    PROVE  s = t
<1>1. Len(s) = Len(t) /\ \A i \in 1 .. Len(s) : s[i] = t[i]
  BY PrefixIs
<1> QED
  BY <1>1

\* Of two prefixes of one key, the shorter begins the longer.
LEMMA PrefixLinear ==
    ASSUME NEW C, NEW s \in Seq(C), NEW t \in Seq(C), NEW k \in Seq(C),
           IsPrefix(s, k), IsPrefix(t, k), Len(s) <= Len(t)
    PROVE  IsPrefix(s, t)
BY PrefixIs

\* The members of S that begin with no other member: "Removes any path
\* prefixes that have other path prefixes as string prefixes" (reducePrefixes).
Shortest(S) == {p \in S : \A q \in S : IsPrefix(q, p) => q = p}

\* What begins with a member of S begins with one that is kept.
LEMMA HasShortest ==
    ASSUME NEW C, NEW S \in SUBSET Seq(C), NEW key \in Seq(C), NEW p \in S, IsPrefix(p, key)
    PROVE  \E m \in Shortest(S) : IsPrefix(m, key)
<1> DEFINE Q == {q \in S : IsPrefix(q, key)}
           T == {Len(q) : q \in Q}
<1>1. T \in SUBSET Nat /\ T # {}
  <2>1. \A q \in Q : Len(q) \in Nat
    OBVIOUS
  <2>2. p \in Q
    OBVIOUS
  <2>3. Len(p) \in T
    BY <2>2
  <2> QED
    BY <2>1, <2>3, Zenon
<1>2. PICK l \in T : \A k \in T : l <= k
  BY <1>1, LeastNatural, Zenon
<1>3. PICK m \in Q : Len(m) = l
  BY <1>2
<1>4. ASSUME NEW q \in S, IsPrefix(q, m) PROVE q = m
  <2>1. q \in Seq(C) /\ m \in Seq(C)
    OBVIOUS
  <2>2. IsPrefix(q, key)
    BY <1>4, <2>1, PrefixTransitive
  <2>3. Len(m) <= Len(q)
    BY <1>2, <1>3, <2>2, Zenon
  <2> QED
    BY <1>4, <2>1, <2>3, PrefixWhole
<1> QED
  BY <1>4 DEF Shortest

--------------------------------------------------------------------------------
(* The sort *)

\* The inner loop of the sort has a place to stop.
LEMMA InsertionPointIs ==
    ASSUME NEW C, NEW out \in Seq(Seq(C)), NEW x \in Seq(C)
    PROVE  /\ InsertionPoint(out, x) \in 0 .. Len(out)
           /\ InsertionPoint(out, x) > 0 => Len(out[InsertionPoint(out, x)]) <= Len(x)
           /\ \A i \in InsertionPoint(out, x) + 1 .. Len(out) : Len(out[i]) > Len(x)
<1> DEFINE T == {j \in 0 .. Len(out) : \A i \in j + 1 .. Len(out) : Len(out[i]) > Len(x)}
<1>1. T \in SUBSET Nat /\ T # {}
  <2>1. Len(out) \in T
    OBVIOUS
  <2>2. \A j \in T : j \in Nat
    OBVIOUS
  <2> HIDE DEF T
  <2> QED
    BY <2>1, <2>2
<1>2. PICK m \in T : \A k \in T : m <= k
  BY <1>1, LeastNatural, Zenon
<1>3. m > 0 => Len(out[m]) <= Len(x)
  <2> SUFFICES ASSUME m > 0, ~ (Len(out[m]) <= Len(x)) PROVE FALSE
    OBVIOUS
  <2>1. out[m] \in Seq(C) /\ Len(out[m]) > Len(x)
    BY <1>2
  <2>2. m - 1 \in T
    BY <1>2, <2>1
  <2>3. m \in Nat
    BY <1>2
  <2>4. m <= m - 1
    BY <1>2, <2>2, Zenon
  <2> QED
    BY <2>3, <2>4
<1>4. \E j \in 0 .. Len(out) :
        /\ j > 0 => Len(out[j]) <= Len(x)
        /\ \A i \in j + 1 .. Len(out) : Len(out[i]) > Len(x)
  BY <1>2, <1>3
<1> QED
  BY <1>4, Zenon DEF InsertionPoint

\* new is the sequence out of members of S with x behind its j-th member.
Inserted(new, out, x, j, S) ==
    /\ new \in Seq(S) /\ out \in Seq(S) /\ x \in S
    /\ j \in 0 .. Len(out)
    /\ Len(new) = Len(out) + 1
    /\ \A i \in 1 .. j : new[i] = out[i]
    /\ new[j + 1] = x
    /\ \A i \in j + 1 .. Len(out) : new[i + 1] = out[i]

\* new is front, then x, then back.
Joined(new, front, x, back, S) ==
    /\ new \in Seq(S)
    /\ Len(new) = Len(front) + 1 + Len(back)
    /\ \A i \in 1 .. Len(front) : new[i] = front[i]
    /\ new[Len(front) + 1] = x
    /\ \A i \in 1 .. Len(back) : new[Len(front) + 1 + i] = back[i]

\* Concatenation gives that.
LEMMA JoinedIs ==
    ASSUME NEW S, NEW front \in Seq(S), NEW x \in S, NEW back \in Seq(S)
    PROVE  Joined((front \o <<x>>) \o back, front, x, back, S)
<1> DEFINE n == Len(front)
<1>1. /\ front \o <<x>> \in Seq(S)
      /\ Len(front \o <<x>>) = n + 1
      /\ \A i \in 1 .. n : (front \o <<x>>)[i] = front[i]
      /\ (front \o <<x>>)[n + 1] = x
  OBVIOUS
<1>2. ASSUME NEW left \in Seq(S), Len(left) = n + 1
      PROVE  /\ left \o back \in Seq(S)
             /\ Len(left \o back) = n + 1 + Len(back)
             /\ \A i \in 1 .. n + 1 : (left \o back)[i] = left[i]
             /\ \A i \in 1 .. Len(back) : (left \o back)[n + 1 + i] = back[i]
  BY <1>2, SMTT(60)
<1>3. /\ (front \o <<x>>) \o back \in Seq(S)
      /\ Len((front \o <<x>>) \o back) = n + 1 + Len(back)
      /\ \A i \in 1 .. n + 1 : ((front \o <<x>>) \o back)[i] = (front \o <<x>>)[i]
      /\ \A i \in 1 .. Len(back) : ((front \o <<x>>) \o back)[n + 1 + i] = back[i]
  BY <1>1, <1>2, Zenon
<1>4. (\A i \in 1 .. n : i \in 1 .. n + 1) /\ n + 1 \in 1 .. n + 1
  OBVIOUS
<1> QED
  BY <1>1, <1>3, <1>4, Zenon DEF Joined

\* InsertAt puts x behind the j-th member.
LEMMA InsertAtIs ==
    ASSUME NEW S, NEW out \in Seq(S), NEW x \in S, NEW j \in 0 .. Len(out)
    PROVE  Inserted(InsertAt(out, j + 1, x), out, x, j, S)
<1> DEFINE front == SubSeq(out, 1, j)
           back == SubSeq(out, j + 1, Len(out))
           new == InsertAt(out, j + 1, x)
<1>1. front \in Seq(S) /\ Len(front) = j /\ \A i \in 1 .. j : front[i] = out[i]
  OBVIOUS
<1>2. back \in Seq(S) /\ Len(back) = Len(out) - j
  OBVIOUS
<1>3. \A i \in 1 .. Len(out) - j : back[i] = out[j + i]
  OBVIOUS
<1>4. new = (front \o <<x>>) \o back
  <2>1. (j + 1) - 1 = j
    OBVIOUS
  <2> QED
    BY <2>1, Zenon DEF InsertAt
<1> HIDE DEF front, back, new
<1>5. Joined(new, front, x, back, S)
  BY <1>1, <1>2, <1>4, JoinedIs, Zenon
<1>6. /\ new \in Seq(S)
      /\ Len(new) = j + 1 + Len(back)
      /\ \A i \in 1 .. j : new[i] = front[i]
      /\ new[j + 1] = x
      /\ \A i \in 1 .. Len(back) : new[j + 1 + i] = back[i]
  BY <1>1, <1>5, Zenon DEF Joined
<1>7. ASSUME NEW i \in j + 1 .. Len(out) PROVE new[i + 1] = out[i]
  <2>1. i - j \in 1 .. Len(out) - j /\ j + 1 + (i - j) = i + 1 /\ j + (i - j) = i
    OBVIOUS
  <2>2. new[j + 1 + (i - j)] = back[i - j]
    BY <1>2, <1>6, <2>1, Zenon
  <2>3. back[i - j] = out[j + (i - j)]
    BY <1>3, <2>1, Zenon
  <2> QED
    BY <2>1, <2>2, <2>3, Zenon
<1>8. j + 1 + (Len(out) - j) = Len(out) + 1
  OBVIOUS
<1>9. Inserted(new, out, x, j, S)
  BY <1>1, <1>2, <1>6, <1>7, <1>8, Zenon DEF Inserted
<1> QED
  BY <1>9 DEF new

\* x goes where the sort wants it.
Placed(out, x, j) ==
    /\ j > 0 => Len(out[j]) <= Len(x)
    /\ \A i \in j + 1 .. Len(out) : Len(out[i]) > Len(x)

\* A round of the sort puts x where it belongs.
LEMMA InsertIs ==
    ASSUME NEW C, NEW out \in Seq(Seq(C)), NEW x \in Seq(C)
    PROVE  \E j \in 0 .. Len(out) :
                Placed(out, x, j) /\ Inserted(Insert(out, x), out, x, j, Seq(C))
<1>1. InsertionPoint(out, x) \in 0 .. Len(out) /\ Placed(out, x, InsertionPoint(out, x))
  BY InsertionPointIs, Zenon DEF Placed
<1> QED
  BY <1>1, InsertAtIs, Zenon DEF Insert

\* The first n numbers of a are in order.
Nondecreasing(a, n) == \A i, k \in 1 .. n : i < k => a[i] <= a[k]

\* Lengths that were in order are so with x's among them.
LEMMA InsertInOrder ==
    ASSUME NEW n \in Nat, NEW a \in [1 .. n -> Nat], NEW b \in [1 .. n + 1 -> Nat],
           NEW l \in Nat, NEW j \in 0 .. n,
           Nondecreasing(a, n),
           j > 0 => a[j] <= l, \A i \in j + 1 .. n : a[i] > l,
           \A i \in 1 .. j : b[i] = a[i], b[j + 1] = l, \A i \in j + 1 .. n : b[i + 1] = a[i]
    PROVE  Nondecreasing(b, n + 1)
<1>1. \A i \in 1 .. j : a[i] <= l
  BY SMTT(60) DEF Nondecreasing
<1>2. ASSUME NEW i \in j + 2 .. n + 1
      PROVE  b[i] = a[i - 1] /\ i - 1 \in j + 1 .. n
  <2>1. i - 1 \in j + 1 .. n /\ (i - 1) + 1 = i
    OBVIOUS
  <2> QED
    BY <2>1
<1>3. ASSUME NEW i \in 1 .. n + 1, NEW k \in 1 .. n + 1, i < k
      PROVE  b[i] <= b[k]
  <2>1. CASE k <= j
    BY <1>3, <2>1 DEF Nondecreasing
  <2>2. CASE k = j + 1
    BY <1>1, <1>3, <2>2
  <2>3. CASE k > j + 1
    <3>1. b[k] = a[k - 1] /\ k - 1 \in j + 1 .. n
      BY <1>2, <2>3
    <3>2. CASE i <= j
      BY <3>1, <3>2 DEF Nondecreasing
    <3>3. CASE i = j + 1
      BY <3>1, <3>3
    <3>4. CASE i > j + 1
      BY <1>2, <1>3, <3>1, <3>4, SMTT(60) DEF Nondecreasing
    <3> QED
      BY <3>2, <3>3, <3>4
  <2> QED
    BY <2>1, <2>2, <2>3
<1> QED
  BY <1>3 DEF Nondecreasing

\* The lengths of the prefixes of a list, ...
Lengths(s) == [i \in 1 .. Len(s) |-> Len(s[i])]

\* ... shortest first.
Ordered(s) == Nondecreasing(Lengths(s), Len(s))

\* The lengths are numbers.
LEMMA LengthsAre ==
    ASSUME NEW C, NEW s \in Seq(Seq(C))
    PROVE  /\ Lengths(s) \in [1 .. Len(s) -> Nat]
           /\ \A i \in 1 .. Len(s) : Lengths(s)[i] = Len(s[i])
BY DEF Lengths

\* A round of the sort keeps the order.
LEMMA InsertOrdered ==
    ASSUME NEW C, NEW out \in Seq(Seq(C)), NEW x \in Seq(C), Ordered(out)
    PROVE  Ordered(Insert(out, x))
<1> DEFINE new == Insert(out, x)
           a == Lengths(out)
           b == Lengths(new)
<1>1. PICK j \in 0 .. Len(out) : Placed(out, x, j) /\ Inserted(new, out, x, j, Seq(C))
  BY InsertIs, Zenon
<1> HIDE DEF new
<1>2. /\ new \in Seq(Seq(C)) /\ Len(new) = Len(out) + 1
      /\ \A i \in 1 .. j : new[i] = out[i]
      /\ new[j + 1] = x
      /\ \A i \in j + 1 .. Len(out) : new[i + 1] = out[i]
  BY <1>1, Zenon DEF Inserted
<1>3. /\ a \in [1 .. Len(out) -> Nat]
      /\ \A i \in 1 .. Len(out) : a[i] = Len(out[i])
  BY LengthsAre, Zenon
<1>4. /\ b \in [1 .. Len(out) + 1 -> Nat]
      /\ \A i \in 1 .. Len(out) + 1 : b[i] = Len(new[i])
  BY <1>2, LengthsAre, Zenon
<1> HIDE DEF a, b
<1>5. Len(out) \in Nat /\ Len(x) \in Nat
  OBVIOUS
<1>6. /\ \A i \in 1 .. j : i \in 1 .. Len(out) /\ i \in 1 .. Len(out) + 1
      /\ \A i \in j + 1 .. Len(out) : i \in 1 .. Len(out) /\ i + 1 \in 1 .. Len(out) + 1
      /\ j + 1 \in 1 .. Len(out) + 1
      /\ j > 0 => j \in 1 .. Len(out)
  BY <1>5
<1>7. /\ j > 0 => a[j] <= Len(x)
      /\ \A i \in j + 1 .. Len(out) : a[i] > Len(x)
  BY <1>1, <1>3, <1>6, Zenon DEF Placed
<1>8. /\ \A i \in 1 .. j : b[i] = a[i]
      /\ b[j + 1] = Len(x)
      /\ \A i \in j + 1 .. Len(out) : b[i + 1] = a[i]
  BY <1>2, <1>3, <1>4, <1>6, Zenon
<1>9. Nondecreasing(a, Len(out))
  BY DEF Ordered, a
<1>10. Nondecreasing(b, Len(out) + 1)
  BY <1>3, <1>4, <1>5, <1>7, <1>8, <1>9, InsertInOrder, Zenon
<1>11. Ordered(new)
  BY <1>2, <1>10, Zenon DEF Ordered, b
<1> QED
  BY <1>11 DEF new

\* new has x besides what out has.
Adds(new, out, x) == Range(new) = Range(out) \cup {x}

\* A round of the sort loses nothing and adds x.
LEMMA InsertRange ==
    ASSUME NEW C, NEW out \in Seq(Seq(C)), NEW x \in Seq(C)
    PROVE  /\ Insert(out, x) \in Seq(Seq(C))
           /\ Len(Insert(out, x)) = Len(out) + 1
           /\ Adds(Insert(out, x), out, x)
<1> DEFINE new == Insert(out, x)
<1>1. PICK j \in 0 .. Len(out) : Inserted(new, out, x, j, Seq(C))
  BY InsertIs, Zenon
<1> HIDE DEF new
<1>2. /\ new \in Seq(Seq(C)) /\ Len(new) = Len(out) + 1
      /\ \A i \in 1 .. j : new[i] = out[i]
      /\ new[j + 1] = x
      /\ \A i \in j + 1 .. Len(out) : new[i + 1] = out[i]
  BY <1>1, Zenon DEF Inserted
<1>3. DOMAIN new = 1 .. Len(out) + 1 /\ DOMAIN out = 1 .. Len(out)
  BY <1>2
<1>4. ASSUME NEW i \in DOMAIN new PROVE new[i] = x \/ \E k \in DOMAIN out : new[i] = out[k]
  <2>1. CASE i \in 1 .. j
    <3>1. i \in DOMAIN out
      BY <1>3, <2>1
    <3> QED
      BY <1>2, <2>1, <3>1, Zenon
  <2>2. CASE i = j + 1
    BY <1>2, <2>2, Zenon
  <2>3. CASE i \in j + 2 .. Len(out) + 1
    <3>1. i - 1 \in j + 1 .. Len(out) /\ (i - 1) + 1 = i /\ i - 1 \in DOMAIN out
      BY <1>3, <2>3
    <3>2. new[(i - 1) + 1] = out[i - 1]
      BY <1>2, <3>1, Zenon
    <3> QED
      BY <3>1, <3>2, Zenon
  <2>4. i \in 1 .. j \/ i = j + 1 \/ i \in j + 2 .. Len(out) + 1
    BY <1>3
  <2> QED
    BY <2>1, <2>2, <2>3, <2>4, Zenon
<1>5. ASSUME NEW i \in DOMAIN out PROVE \E k \in DOMAIN new : new[k] = out[i]
  <2>1. CASE i \in 1 .. j
    <3>1. i \in DOMAIN new
      BY <1>3, <2>1
    <3> QED
      BY <1>2, <2>1, <3>1, Zenon
  <2>2. CASE i \in j + 1 .. Len(out)
    <3>1. i + 1 \in DOMAIN new
      BY <1>3, <2>2
    <3> QED
      BY <1>2, <2>2, <3>1, Zenon
  <2>3. i \in 1 .. j \/ i \in j + 1 .. Len(out)
    BY <1>3
  <2> QED
    BY <2>1, <2>2, <2>3, Zenon
<1>6. j + 1 \in DOMAIN new
  BY <1>3
<1>7. Adds(new, out, x)
  <2>1. Range(new) \subseteq Range(out) \cup {x}
    BY <1>4, Zenon DEF Range
  <2>2. Range(out) \subseteq Range(new)
    BY <1>5, Zenon DEF Range
  <2>3. x \in Range(new)
    BY <1>2, <1>6, Zenon DEF Range
  <2> QED
    BY <2>1, <2>2, <2>3, Zenon DEF Adds
<1> QED
  BY <1>2, <1>7, Zenon DEF new

\* The recursion of Rounds.
LEMMA RoundsAre ==
    ASSUME NEW C, NEW list \in Seq(Seq(C))
    PROVE  /\ Rounds(list)[0] = <<>>
           /\ \A i \in 1 .. Len(list) : Rounds(list)[i] = Insert(Rounds(list)[i - 1], list[i])
<1> DEFINE D == Seq(Seq(C))
           step == [s \in (1 .. Len(list)) \X D |-> Insert(s[2], list[s[1]])]
           IsRun(f) == f = [i \in 0 .. Len(list) |-> IF i = 0 THEN <<>> ELSE Insert(f[i - 1], list[i])]
<1>1. step \in [(1 .. Len(list)) \X D -> D]
  <2>1. ASSUME NEW i \in 1 .. Len(list), NEW s \in D PROVE Insert(s, list[i]) \in D
    <3>1. list[i] \in Seq(C)
      OBVIOUS
    <3> QED
      BY <3>1, InsertRange, Zenon
  <2> QED
    BY <2>1, SMTT(60)
<1>2. <<>> \in D /\ Len(list) \in Nat
  OBVIOUS
<1>3. PICK f : /\ f \in [0 .. Len(list) -> D]
               /\ f = [i \in 0 .. Len(list) |-> IF i = 0 THEN <<>> ELSE step[<<i, f[i - 1]>>]]
  <2> HIDE DEF D, step
  <2>1. \E f : Iterates(f, Len(list), D, <<>>, step)
    BY <1>1, <1>2, Iteration, Zenon
  <2> QED
    BY <2>1, Zenon DEF Iterates
<1>4. IsRun(f)
  <2>1. ASSUME NEW i \in 0 .. Len(list), i # 0
        PROVE  step[<<i, f[i - 1]>>] = Insert(f[i - 1], list[i])
    <3>1. i \in 1 .. Len(list) /\ i - 1 \in 0 .. Len(list)
      BY <2>1
    <3>2. <<i, f[i - 1]>> \in (1 .. Len(list)) \X D
      BY <1>3, <3>1, Zenon
    <3> QED
      BY <3>2
  <2> HIDE DEF step
  <2>2. [i \in 0 .. Len(list) |-> IF i = 0 THEN <<>> ELSE step[<<i, f[i - 1]>>]]
          = [i \in 0 .. Len(list) |-> IF i = 0 THEN <<>> ELSE Insert(f[i - 1], list[i])]
    BY <2>1, Zenon
  <2> QED
    BY <1>3, <2>2, Zenon
<1>5. IsRun(Rounds(list))
  <2>1. Rounds(list) = CHOOSE g : IsRun(g)
    BY DEF Rounds
  <2> HIDE DEF IsRun
  <2> QED
    BY <1>4, <2>1, Zenon
<1>6. ASSUME NEW g, IsRun(g)
      PROVE  g[0] = <<>> /\ \A i \in 1 .. Len(list) : g[i] = Insert(g[i - 1], list[i])
  <2>1. 0 \in 0 .. Len(list) /\ \A i \in 1 .. Len(list) : i \in 0 .. Len(list) /\ i # 0
    BY <1>2
  <2> QED
    BY <1>6, <2>1, Zenon
<1> HIDE DEF IsRun
<1> QED
  BY <1>5, <1>6, Zenon

\* The first i prefixes of a list.
FirstOf(list, i) == {list[k] : k \in 1 .. i}

\* They are one more with each round.
LEMMA FirstOfGrows ==
    ASSUME NEW C, NEW list \in Seq(Seq(C))
    PROVE  /\ FirstOf(list, 0) = {}
           /\ \A i \in 1 .. Len(list) : FirstOf(list, i) = FirstOf(list, i - 1) \cup {list[i]}
           /\ \A i \in 0 .. Len(list) : FirstOf(list, i) \in SUBSET Seq(C)
           /\ FirstOf(list, Len(list)) = Range(list)
<1>1. 1 .. 0 = {} /\ DOMAIN list = 1 .. Len(list)
  OBVIOUS
<1>2. \A i \in 1 .. Len(list) : 1 .. i = (1 .. i - 1) \cup {i}
  OBVIOUS
<1>3. \A i \in 0 .. Len(list) : \A k \in 1 .. i : list[k] \in Seq(C)
  OBVIOUS
<1>4. FirstOf(list, 0) = {}
  BY <1>1, Zenon DEF FirstOf
<1>5. ASSUME NEW i \in 1 .. Len(list)
      PROVE  FirstOf(list, i) = FirstOf(list, i - 1) \cup {list[i]}
  <2>1. \A k : k \in 1 .. i <=> k \in 1 .. i - 1 \/ k = i
    BY <1>2
  <2> QED
    BY <2>1, Zenon DEF FirstOf
<1>6. \A i \in 0 .. Len(list) : FirstOf(list, i) \in SUBSET Seq(C)
  BY <1>3, Zenon DEF FirstOf
<1>7. FirstOf(list, Len(list)) = Range(list)
  BY <1>1, Zenon DEF FirstOf, Range
<1> QED
  BY <1>4, <1>5, <1>6, <1>7, Zenon

\* s has n members, which are those of P, shortest first.
SortedFrom(s, n, P, C) ==
    /\ s \in Seq(Seq(C))
    /\ Len(s) = n
    /\ Ordered(s)
    /\ Range(s) = P

\* The insertion sort of sortPrefixesByLength sorts any list.
LEMMA SortedIs ==
    ASSUME NEW C, NEW list \in Seq(Seq(C))
    PROVE  SortedFrom(Sorted(list), Len(list), Range(list), C)
<1> DEFINE R == Rounds(list)
           S == {i \in Nat : SortedFrom(R[i], i, FirstOf(list, i), C)}
<1>1. R[0] = <<>> /\ \A i \in 1 .. Len(list) : R[i] = Insert(R[i - 1], list[i])
  BY RoundsAre, Zenon
<1> HIDE DEF R
<1>2. 0 \in S
  <2>1. <<>> \in Seq(Seq(C)) /\ Len(<<>>) = 0 /\ 1 .. 0 = {} /\ DOMAIN <<>> = {}
    OBVIOUS
  <2>2. Ordered(<<>>)
    BY <2>1, Zenon DEF Ordered, Nondecreasing
  <2>3. Range(<<>>) = {} /\ FirstOf(list, 0) = {}
    BY <2>1, Zenon DEF Range, FirstOf
  <2>4. SortedFrom(R[0], 0, FirstOf(list, 0), C)
    BY <1>1, <2>1, <2>2, <2>3, Zenon DEF SortedFrom
  <2> QED
    BY <2>4
<1>3. ASSUME NEW i \in 1 .. Len(list), i - 1 \in S PROVE i \in S
  <2>1. SortedFrom(R[i - 1], i - 1, FirstOf(list, i - 1), C)
    BY <1>3
  <2>2. list[i] \in Seq(C) /\ i \in Nat /\ (i - 1) + 1 = i
    OBVIOUS
  <2>3. R[i] = Insert(R[i - 1], list[i])
    BY <1>1, Zenon
  <2>4. R[i - 1] \in Seq(Seq(C)) /\ Len(R[i - 1]) = i - 1 /\ Ordered(R[i - 1])
        /\ Range(R[i - 1]) = FirstOf(list, i - 1)
    BY <2>1, Zenon DEF SortedFrom
  <2>5. R[i] \in Seq(Seq(C)) /\ Len(R[i]) = (i - 1) + 1 /\ Range(R[i]) = FirstOf(list, i - 1) \cup {list[i]}
    <3> R[i - 1] \in Seq(Seq(C)) /\ list[i] \in Seq(C)
      BY <2>2, <2>4, Zenon
    <3>1. Insert(R[i - 1], list[i]) \in Seq(Seq(C))
      BY InsertRange, Zenon
    <3>2. Len(Insert(R[i - 1], list[i])) = Len(R[i - 1]) + 1
      BY InsertRange, Zenon
    <3>3. Adds(Insert(R[i - 1], list[i]), R[i - 1], list[i])
      BY InsertRange, Zenon
    <3> QED
      BY <2>3, <2>4, <3>1, <3>2, <3>3, Zenon DEF Adds
  <2>6. Ordered(R[i])
    BY <2>2, <2>3, <2>4, InsertOrdered, Zenon
  <2>7. FirstOf(list, i) = FirstOf(list, i - 1) \cup {list[i]}
    BY FirstOfGrows, Zenon
  <2>8. SortedFrom(R[i], i, FirstOf(list, i), C)
    BY <2>2, <2>5, <2>6, <2>7, Zenon DEF SortedFrom
  <2> QED
    BY <2>2, <2>8
<1> HIDE DEF S
<1>4. Len(list) \in Nat
  OBVIOUS
<1>5. Len(list) \in S
  BY <1>2, <1>3, <1>4, CountingUp, Zenon
<1>6. SortedFrom(R[Len(list)], Len(list), FirstOf(list, Len(list)), C)
  BY <1>5 DEF S
<1> QED
  BY <1>6, FirstOfGrows, Zenon DEF Sorted, R

--------------------------------------------------------------------------------
(* The reduction *)

\* A round of reducePrefixes: if x is not shorter than those before it, what is
\* kept are again the shortest.
LEMMA KeepShortest ==
    ASSUME NEW C, NEW P \in SUBSET Seq(C), NEW x \in Seq(C), \A q \in P : Len(q) <= Len(x)
    PROVE  Keep(Shortest(P), x) = Shortest(P \cup {x})
<1>1. ASSUME NEW p \in Shortest(P) PROVE p \in Shortest(P \cup {x})
  <2>1. p \in P /\ p \in Seq(C) /\ \A q \in P : IsPrefix(q, p) => q = p
    BY DEF Shortest
  <2>2. IsPrefix(x, p) => x = p
    BY <2>1, PrefixWhole
  <2> QED
    BY <2>1, <2>2, Zenon DEF Shortest
<1>2. ASSUME NEW p \in Shortest(P \cup {x}), p \in P PROVE p \in Shortest(P)
  BY <1>2, Zenon DEF Shortest
<1>3. CASE \E q \in Shortest(P) : IsPrefix(q, x)
  <2>1. PICK q \in Shortest(P) : IsPrefix(q, x)
    BY <1>3
  <2>2. x \in Shortest(P \cup {x}) => x \in P
    <3>1. q \in P
      BY DEF Shortest
    <3> QED
      BY <2>1, <3>1, Zenon DEF Shortest
  <2>3. Shortest(P \cup {x}) = Shortest(P)
    <3>1. \A p \in Shortest(P \cup {x}) : p \in P \/ p = x
      BY DEF Shortest
    <3> QED
      BY <1>1, <1>2, <2>2, <3>1, Zenon
  <2> QED
    BY <1>3, <2>3, Zenon DEF Keep
<1>4. CASE ~ \E q \in Shortest(P) : IsPrefix(q, x)
  <2>1. ASSUME NEW q \in P PROVE ~ IsPrefix(q, x)
    BY <1>4, HasShortest, Zenon
  <2>2. x \in Shortest(P \cup {x})
    BY <2>1, Zenon DEF Shortest
  <2>3. Shortest(P \cup {x}) = Shortest(P) \cup {x}
    <3>1. \A p \in Shortest(P \cup {x}) : p \in P \/ p = x
      BY DEF Shortest
    <3> QED
      BY <1>1, <1>2, <2>2, <3>1, Zenon
  <2> QED
    BY <1>4, <2>3, Zenon DEF Keep
<1> QED
  BY <1>3, <1>4, Zenon

\* The recursion of KeptOf.
LEMMA KeptOfAre ==
    ASSUME NEW C, NEW list \in Seq(Seq(C))
    PROVE  /\ KeptOf(list)[0] = {}
           /\ \A i \in 1 .. Len(list) : KeptOf(list)[i] = Keep(KeptOf(list)[i - 1], list[i])
<1> DEFINE D == SUBSET Seq(C)
           step == [s \in (1 .. Len(list)) \X D |-> Keep(s[2], list[s[1]])]
           IsRun(f) == f = [i \in 0 .. Len(list) |-> IF i = 0 THEN {} ELSE Keep(f[i - 1], list[i])]
<1>1. step \in [(1 .. Len(list)) \X D -> D]
  <2>1. ASSUME NEW i \in 1 .. Len(list), NEW s \in D PROVE Keep(s, list[i]) \in D
    <3>1. list[i] \in Seq(C)
      OBVIOUS
    <3> QED
      BY <3>1 DEF Keep
  <2> QED
    BY <2>1, Zenon
<1>2. {} \in D /\ Len(list) \in Nat
  OBVIOUS
<1>3. PICK f : /\ f \in [0 .. Len(list) -> D]
               /\ f = [i \in 0 .. Len(list) |-> IF i = 0 THEN {} ELSE step[<<i, f[i - 1]>>]]
  <2> HIDE DEF D, step
  <2>1. \E f : Iterates(f, Len(list), D, {}, step)
    BY <1>1, <1>2, Iteration, Zenon
  <2> QED
    BY <2>1, Zenon DEF Iterates
<1>4. IsRun(f)
  <2>1. ASSUME NEW i \in 0 .. Len(list), i # 0
        PROVE  step[<<i, f[i - 1]>>] = Keep(f[i - 1], list[i])
    <3>1. i \in 1 .. Len(list) /\ i - 1 \in 0 .. Len(list)
      BY <2>1
    <3>2. <<i, f[i - 1]>> \in (1 .. Len(list)) \X D
      BY <1>3, <3>1, Zenon
    <3> QED
      BY <3>2
  <2> HIDE DEF step
  <2>2. [i \in 0 .. Len(list) |-> IF i = 0 THEN {} ELSE step[<<i, f[i - 1]>>]]
          = [i \in 0 .. Len(list) |-> IF i = 0 THEN {} ELSE Keep(f[i - 1], list[i])]
    BY <2>1, Zenon
  <2> QED
    BY <1>3, <2>2, Zenon
<1>5. IsRun(KeptOf(list))
  <2>1. KeptOf(list) = CHOOSE g : IsRun(g)
    BY DEF KeptOf
  <2> HIDE DEF IsRun
  <2> QED
    BY <1>4, <2>1, Zenon
<1>6. ASSUME NEW g, IsRun(g)
      PROVE  g[0] = {} /\ \A i \in 1 .. Len(list) : g[i] = Keep(g[i - 1], list[i])
  <2>1. 0 \in 0 .. Len(list) /\ \A i \in 1 .. Len(list) : i \in 0 .. Len(list) /\ i # 0
    BY <1>2
  <2> QED
    BY <1>6, <2>1, Zenon
<1> HIDE DEF IsRun
<1> QED
  BY <1>5, <1>6, Zenon

\* Of a sorted list reducePrefixes keeps the shortest prefixes.
LEMMA KeptIs ==
    ASSUME NEW C, NEW list \in Seq(Seq(C)), Ordered(list)
    PROVE  Kept(list) = Shortest(Range(list))
<1> DEFINE K == KeptOf(list)
           S == {i \in Nat : K[i] = Shortest(FirstOf(list, i))}
<1>1. K[0] = {} /\ \A i \in 1 .. Len(list) : K[i] = Keep(K[i - 1], list[i])
  BY KeptOfAre, Zenon
<1> HIDE DEF K
<1>2. 0 \in S
  <2>1. FirstOf(list, 0) = {}
    BY FirstOfGrows, Zenon
  <2>2. K[0] = Shortest(FirstOf(list, 0))
    BY <1>1, <2>1, Zenon DEF Shortest
  <2> QED
    BY <2>2
<1>3. ASSUME NEW i \in 1 .. Len(list), i - 1 \in S PROVE i \in S
  <2>1. K[i - 1] = Shortest(FirstOf(list, i - 1))
    BY <1>3
  <2>2. list[i] \in Seq(C) /\ i \in Nat /\ i - 1 \in 0 .. Len(list)
    OBVIOUS
  <2>3. ASSUME NEW k \in 1 .. i - 1 PROVE Len(list[k]) <= Len(list[i])
    <3>1. k \in 1 .. Len(list) /\ k < i
      OBVIOUS
    <3>2. Lengths(list)[k] <= Lengths(list)[i]
      BY <3>1, Zenon DEF Ordered, Nondecreasing
    <3> QED
      BY <3>1, <3>2, LengthsAre, Zenon
  <2>4. \A q \in FirstOf(list, i - 1) : Len(q) <= Len(list[i])
    BY <2>3, Zenon DEF FirstOf
  <2>5. FirstOf(list, i - 1) \in SUBSET Seq(C)
    BY <2>2, FirstOfGrows, Zenon
  <2>6. Keep(K[i - 1], list[i]) = Shortest(FirstOf(list, i - 1) \cup {list[i]})
    BY <2>1, <2>2, <2>4, <2>5, KeepShortest, Zenon
  <2>7. FirstOf(list, i) = FirstOf(list, i - 1) \cup {list[i]}
    BY FirstOfGrows, Zenon
  <2>8. K[i] = Shortest(FirstOf(list, i))
    BY <1>1, <2>6, <2>7, Zenon
  <2> QED
    BY <2>2, <2>8
<1> HIDE DEF S
<1>4. Len(list) \in Nat
  OBVIOUS
<1>5. Len(list) \in S
  BY <1>2, <1>3, <1>4, CountingUp, Zenon
<1>6. K[Len(list)] = Shortest(FirstOf(list, Len(list)))
  BY <1>5 DEF S
<1> QED
  BY <1>6, FirstOfGrows, Zenon DEF Kept, K

\* In whatever order Go's range over the map of prefixes gives them, and if some
\* came twice, the same prefixes are kept: the result of reducePrefixes does not
\* depend on the random order.
THEOREM ReducedInAnyOrder ==
    ASSUME NEW C, NEW list \in Seq(Seq(C))
    PROVE  Kept(Sorted(list)) = Shortest(Range(list))
BY SortedIs, KeptIs, Zenon DEF SortedFrom

--------------------------------------------------------------------------------
(* The map *)

\* Append adds what is appended.
LEMMA AppendRange ==
    ASSUME NEW S, NEW s \in Seq(S), NEW x \in S
    PROVE  /\ Append(s, x) \in Seq(S)
           /\ Len(Append(s, x)) = Len(s) + 1
           /\ Adds(Append(s, x), s, x)
<1>1. /\ Append(s, x) \in Seq(S) /\ Len(Append(s, x)) = Len(s) + 1
      /\ DOMAIN s = 1 .. Len(s) /\ DOMAIN Append(s, x) = 1 .. Len(s) + 1
      /\ \A i \in 1 .. Len(s) : Append(s, x)[i] = s[i]
      /\ Append(s, x)[Len(s) + 1] = x
  OBVIOUS
<1>2. \A i : i \in 1 .. Len(s) + 1 <=> i \in 1 .. Len(s) \/ i = Len(s) + 1
  OBVIOUS
<1>3. Range(Append(s, x)) \subseteq Range(s) \cup {x}
  BY <1>1, <1>2, Zenon DEF Range
<1>4. Range(s) \subseteq Range(Append(s, x)) /\ x \in Range(Append(s, x))
  BY <1>1, <1>2, Zenon DEF Range
<1> QED
  BY <1>1, <1>3, <1>4, Zenon DEF Adds

\* The recursion of Drawn.
LEMMA DrawnAre ==
    ASSUME NEW ps, IsFiniteSet(ps)
    PROVE  /\ Drawn(ps)[0] = <<>>
           /\ \A i \in 1 .. Cardinality(ps) : Drawn(ps)[i] = Draw(Drawn(ps)[i - 1], ps)
<1> DEFINE n == Cardinality(ps)
           none == CHOOSE p \in {} : TRUE
           D == Seq(ps \cup {none})
           step == [s \in (1 .. n) \X D |-> Draw(s[2], ps)]
           IsRun(f) == f = [i \in 0 .. n |-> IF i = 0 THEN <<>> ELSE Draw(f[i - 1], ps)]
<1>1. step \in [(1 .. n) \X D -> D]
  <2>1. ASSUME NEW s \in D PROVE Draw(s, ps) \in D
    <3> DEFINE rest == ps \ Range(s)
               p == CHOOSE q \in rest : TRUE
    <3>1. p \in ps \cup {none}
      <4>1. CASE rest = {}
        BY <4>1, Zenon
      <4>2. CASE rest # {}
        <5>1. p \in rest
          BY <4>2, Zenon
        <5> QED
          BY <5>1, Zenon
      <4> QED
        BY <4>1, <4>2
    <3>2. Draw(s, ps) = Append(s, p)
      BY Zenon DEF Draw
    <3> HIDE DEF p, none
    <3> QED
      BY <3>1, <3>2
  <2> QED
    BY <2>1
<1>2. <<>> \in D /\ n \in Nat
  BY FS_CardinalityType
<1>3. PICK f : /\ f \in [0 .. n -> D]
               /\ f = [i \in 0 .. n |-> IF i = 0 THEN <<>> ELSE step[<<i, f[i - 1]>>]]
  <2> HIDE DEF D, step, n
  <2>1. \E f : Iterates(f, n, D, <<>>, step)
    BY <1>1, <1>2, Iteration, Zenon
  <2> QED
    BY <2>1, Zenon DEF Iterates
<1>4. IsRun(f)
  <2> HIDE DEF n, D
  <2>1. ASSUME NEW i \in 0 .. n, i # 0
        PROVE  step[<<i, f[i - 1]>>] = Draw(f[i - 1], ps)
    <3>1. i \in 1 .. n /\ i - 1 \in 0 .. n
      BY <1>2, <2>1
    <3>2. <<i, f[i - 1]>> \in (1 .. n) \X D
      BY <1>3, <3>1, Zenon
    <3> QED
      BY <3>2
  <2> HIDE DEF step
  <2>2. [i \in 0 .. n |-> IF i = 0 THEN <<>> ELSE step[<<i, f[i - 1]>>]]
          = [i \in 0 .. n |-> IF i = 0 THEN <<>> ELSE Draw(f[i - 1], ps)]
    BY <2>1, Zenon
  <2> QED
    BY <1>3, <2>2, Zenon
<1>5. IsRun(Drawn(ps))
  <2>1. Drawn(ps) = CHOOSE g : IsRun(g)
    BY DEF Drawn
  <2> HIDE DEF IsRun
  <2> QED
    BY <1>4, <2>1, Zenon
<1>6. ASSUME NEW g, IsRun(g)
      PROVE  g[0] = <<>> /\ \A i \in 1 .. n : g[i] = Draw(g[i - 1], ps)
  <2> HIDE DEF n
  <2>1. 0 \in 0 .. n /\ \A i \in 1 .. n : i \in 0 .. n /\ i # 0
    BY <1>2
  <2> QED
    BY <1>6, <2>1, Zenon
<1> HIDE DEF IsRun
<1> QED
  BY <1>5, <1>6, Zenon

\* s lists i prefixes of ps, each once.
DrawnFrom(s, i, ps) ==
    /\ s \in Seq(ps)
    /\ Len(s) = i
    /\ Range(s) \in SUBSET ps
    /\ Cardinality(Range(s)) = i

\* A range over the map gives all prefixes, each once.
LEMMA ListedIs ==
    ASSUME NEW ps, IsFiniteSet(ps)
    PROVE  /\ Listed(ps) \in Seq(ps)
           /\ Len(Listed(ps)) = Cardinality(ps)
           /\ Range(Listed(ps)) = ps
<1> DEFINE n == Cardinality(ps)
           L == Drawn(ps)
           S == {i \in Nat : DrawnFrom(L[i], i, ps)}
<1>1. L[0] = <<>> /\ \A i \in 1 .. n : L[i] = Draw(L[i - 1], ps)
  BY DrawnAre, Zenon
<1>2. n \in Nat
  BY FS_CardinalityType, Zenon
<1> HIDE DEF L, n
<1>3. 0 \in S
  <2>1. <<>> \in Seq(ps) /\ Len(<<>>) = 0 /\ DOMAIN <<>> = {}
    OBVIOUS
  <2>2. Range(<<>>) = {}
    BY <2>1, Zenon DEF Range
  <2>3. DrawnFrom(L[0], 0, ps)
    BY <1>1, <2>1, <2>2, FS_EmptySet, Zenon DEF DrawnFrom
  <2> QED
    BY <2>3
<1>4. ASSUME NEW i \in 1 .. n, i - 1 \in S PROVE i \in S
  <2> DEFINE s == L[i - 1]
  <2>1. s \in Seq(ps) /\ Len(s) = i - 1 /\ Range(s) \in SUBSET ps /\ Cardinality(Range(s)) = i - 1
    BY <1>4 DEF DrawnFrom
  <2>2. i \in Nat /\ i - 1 # n /\ (i - 1) + 1 = i
    BY <1>2
  <2>3. L[i] = Draw(s, ps)
    BY <1>1, Zenon
  <2> HIDE DEF s
  <2>4. ps \ Range(s) # {}
    <3>1. Range(s) # ps
      BY <2>1, <2>2, Zenon DEF n
    <3> QED
      BY <2>1, <3>1, Zenon
  <2>5. PICK p \in ps \ Range(s) : L[i] = Append(s, p)
    BY <2>3, <2>4, Zenon DEF Draw
  <2>6. L[i] \in Seq(ps) /\ Len(L[i]) = Len(s) + 1 /\ Adds(L[i], s, p)
    <3>1. s \in Seq(ps) /\ p \in ps
      BY <2>1, Zenon
    <3>2. Append(s, p) \in Seq(ps) /\ Len(Append(s, p)) = Len(s) + 1
      BY <3>1, AppendRange, Zenon
    <3>3. Adds(Append(s, p), s, p)
      BY <3>1, AppendRange, Zenon
    <3> QED
      BY <2>5, <3>2, <3>3, Zenon
  <2>7. Range(L[i]) = Range(s) \cup {p}
    BY <2>6, Zenon DEF Adds
  <2>8. IsFiniteSet(Range(s))
    BY <2>1, FS_Subset, Zenon
  <2>9. Cardinality(Range(s) \cup {p}) = Cardinality(Range(s)) + 1
    BY <2>5, <2>8, FS_AddElement, Zenon
  <2>10. DrawnFrom(L[i], i, ps)
    <3>1. Range(L[i]) \in SUBSET ps
      BY <2>1, <2>5, <2>7, Zenon
    <3>2. Cardinality(Range(L[i])) = i
      BY <2>1, <2>2, <2>7, <2>9, Zenon
    <3>3. Len(L[i]) = i
      BY <2>1, <2>2, <2>6, Zenon
    <3> QED
      BY <2>6, <3>1, <3>2, <3>3, Zenon DEF DrawnFrom
  <2> QED
    BY <2>2, <2>10
<1> HIDE DEF S
<1>5. n \in S
  BY <1>2, <1>3, <1>4, CountingUp, Zenon
<1>6. DrawnFrom(L[n], n, ps)
  BY <1>5 DEF S
<1>7. Range(L[n]) = ps
  BY <1>6, FS_Subset, Zenon DEF DrawnFrom, n
<1> QED
  BY <1>6, <1>7, Zenon DEF DrawnFrom, Listed, L, n

\* sortPrefixesByLength returns every prefix of the map, each once, shortest
\* first.
THEOREM PrefixesSorted ==
    ASSUME NEW C, NEW ps \in SUBSET Seq(C), IsFiniteSet(ps)
    PROVE  SortedFrom(sortPrefixesByLength(ps), Cardinality(ps), ps, C)
<1>1. Listed(ps) \in Seq(ps) /\ Len(Listed(ps)) = Cardinality(ps) /\ Range(Listed(ps)) = ps
  BY ListedIs, Zenon
<1>2. Listed(ps) \in Seq(Seq(C))
  <2>1. ASSUME NEW s \in Seq(ps) PROVE s \in Seq(Seq(C))
    OBVIOUS
  <2> QED
    BY <1>1, <2>1, Zenon
<1>3. SortedFrom(Sorted(Listed(ps)), Len(Listed(ps)), Range(Listed(ps)), C)
  BY <1>2, SortedIs, Zenon
<1>4. SortedFrom(Sorted(Listed(ps)), Cardinality(ps), ps, C)
  BY <1>1, <1>3
<1> QED
  BY <1>4, Zenon DEF sortPrefixesByLength

--------------------------------------------------------------------------------
(* What is watched *)

\* reducePrefixes keeps the prefixes that begin with no other prefix of the map,
\* and only these.
THEOREM ReducedToShortest ==
    ASSUME NEW C, NEW ps \in SUBSET Seq(C), IsFiniteSet(ps)
    PROVE  reducePrefixes(ps) = Shortest(ps)
<1> DEFINE sorted == sortPrefixesByLength(ps)
<1>1. SortedFrom(sorted, Cardinality(ps), ps, C)
  BY PrefixesSorted, Zenon
<1> HIDE DEF sorted
<1>2. sorted \in Seq(Seq(C)) /\ Ordered(sorted) /\ Range(sorted) = ps
  BY <1>1, Zenon DEF SortedFrom
<1>3. Kept(sorted) = Shortest(Range(sorted))
  BY <1>2, KeptIs
<1> QED
  BY <1>2, <1>3, Zenon DEF reducePrefixes, sorted

\* A key that some rule's prefix covers begins with exactly one of the prefixes
\* that reducePrefixes leaves, and any other key with none: of the watchers Run
\* starts, one for each prefix, one passes an event on, so that no event is missed
\* and none is processed twice.
THEOREM CoveredOnce ==
    ASSUME NEW C, NEW ps \in SUBSET Seq(C), IsFiniteSet(ps), NEW key \in Seq(C)
    PROVE  Cardinality({q \in reducePrefixes(ps) : IsPrefix(q, key)})
             = IF \E p \in ps : IsPrefix(p, key) THEN 1 ELSE 0
<1> DEFINE W == {q \in Shortest(ps) : IsPrefix(q, key)}
<1>1. {q \in reducePrefixes(ps) : IsPrefix(q, key)} = W
  BY ReducedToShortest, Zenon
<1>2. ASSUME NEW q \in W, NEW r \in W PROVE q = r
  <2>1. /\ q \in ps /\ q \in Seq(C) /\ IsPrefix(q, key)
        /\ r \in ps /\ r \in Seq(C) /\ IsPrefix(r, key)
        /\ IsPrefix(q, r) => q = r
        /\ IsPrefix(r, q) => r = q
    BY Zenon DEF Shortest
  <2>2. Len(q) <= Len(r) \/ Len(r) <= Len(q)
    BY <2>1
  <2>3. IsPrefix(q, r) \/ IsPrefix(r, q)
    BY <2>1, <2>2, PrefixLinear, Zenon
  <2> QED
    BY <2>1, <2>3, Zenon
<1>3. CASE \E p \in ps : IsPrefix(p, key)
  <2>1. PICK m \in Shortest(ps) : IsPrefix(m, key)
    BY <1>3, HasShortest, Zenon
  <2>2. m \in W
    BY <2>1, Zenon
  <2>3. W = {m}
    BY <1>2, <2>2, Zenon
  <2>4. Cardinality({m}) = 1
    BY FS_Singleton, Zenon
  <2> QED
    BY <1>1, <1>3, <2>3, <2>4, Zenon
<1>4. CASE ~ \E p \in ps : IsPrefix(p, key)
  <2>1. W = {}
    BY <1>4, Zenon DEF Shortest
  <2> QED
    BY <1>1, <1>4, <2>1, FS_EmptySet, Zenon
<1> QED
  BY <1>3, <1>4, Zenon

\* Reducing P before Q is added makes no difference.
InSteps(P, Q) == Shortest(Shortest(P) \cup Q) = Shortest(P \cup Q)

\* It does not: what was left out begins with something that was kept.
LEMMA ShortestInSteps ==
    ASSUME NEW C, NEW P \in SUBSET Seq(C), NEW Q \in SUBSET Seq(C)
    PROVE  InSteps(P, Q)
<1>1. Shortest(P) \subseteq P
  BY Zenon DEF Shortest
<1>2. ASSUME NEW p \in Shortest(Shortest(P) \cup Q) PROVE p \in Shortest(P \cup Q)
  <2>1. /\ p \in Shortest(P) \cup Q
        /\ \A q \in Shortest(P) \cup Q : IsPrefix(q, p) => q = p
    BY Zenon DEF Shortest
  <2>2. p \in Seq(C)
    BY <1>1, <2>1, Zenon
  <2>3. ASSUME NEW q \in P, IsPrefix(q, p) PROVE q = p
    <3>1. q \in Seq(C)
      BY Zenon
    <3>2. PICK m \in Shortest(P) : IsPrefix(m, q)
      BY <3>1, PrefixItself, HasShortest, Zenon
    <3>3. m \in Seq(C)
      BY <1>1, Zenon
    <3>4. IsPrefix(m, p)
      BY <2>2, <2>3, <3>1, <3>2, <3>3, PrefixTransitive, Zenon
    <3>5. m = p
      BY <2>1, <3>4, Zenon
    <3>6. Len(p) <= Len(q)
      BY <3>1, <3>2, <3>3, <3>5, PrefixLength, Zenon
    <3> QED
      BY <2>2, <2>3, <3>1, <3>6, PrefixWhole, Zenon
  <2> QED
    BY <1>1, <2>1, <2>3, Zenon DEF Shortest
<1>3. ASSUME NEW p \in Shortest(P \cup Q) PROVE p \in Shortest(Shortest(P) \cup Q)
  BY <1>1, Zenon DEF Shortest
<1> QED
  BY <1>2, <1>3, Zenon DEF InSteps

\* addRule reduces the prefixes each time it has added those of a rule.  This
\* comes to the same as reducing all of them at the end: what is watched does not
\* depend on the order in which rules were added.
THEOREM ReducedStepByStep ==
    ASSUME NEW C, NEW ps \in SUBSET Seq(C), IsFiniteSet(ps),
           NEW new \in SUBSET Seq(C), IsFiniteSet(new)
    PROVE  reducePrefixes(reducePrefixes(ps) \cup new) = reducePrefixes(ps \cup new)
<1>1. reducePrefixes(ps) = Shortest(ps)
  BY ReducedToShortest, Zenon
<1>2. Shortest(ps) \in SUBSET ps
  BY Zenon DEF Shortest
<1>3. IsFiniteSet(Shortest(ps) \cup new) /\ IsFiniteSet(ps \cup new)
  BY <1>2, FS_Subset, FS_Union, Zenon
<1>4. Shortest(ps) \cup new \in SUBSET Seq(C) /\ ps \cup new \in SUBSET Seq(C)
  BY <1>2, Zenon
<1>5. reducePrefixes(Shortest(ps) \cup new) = Shortest(Shortest(ps) \cup new)
  BY <1>3, <1>4, ReducedToShortest
<1>6. reducePrefixes(ps \cup new) = Shortest(ps \cup new)
  BY <1>3, <1>4, ReducedToShortest
<1>7. InSteps(ps, new)
  BY ShortestInSteps, Zenon
<1>8. reducePrefixes(Shortest(ps) \cup new) = reducePrefixes(ps \cup new)
  BY <1>5, <1>6, <1>7 DEF InSteps
<1> QED
  BY <1>1, <1>8
================================================================================
