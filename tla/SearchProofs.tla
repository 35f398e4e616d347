---------------------------- MODULE SearchProofs ----------------------------
(***************************************************************************)
(* Theorems of PubGrub!Spec about the search: the levels of the trail,     *)
(* conflict resolution and the jumps back, and what is returned.           *)
(***************************************************************************)
EXTENDS PubGrubProofs

----------------------------------------------------------------------------
(* What the trail is made of. *)

DecidedUpTo(u, n) == {j \in 1..n : u[j].is_decision}

\* An entry's level counts the decisions up to it, the current level those of all.
Counted(u, l) ==
  /\ \A i \in DOMAIN u :
        u[i].decision_level = Cardinality(DecidedUpTo(u, i))
  /\ l = u[Len(u)].decision_level

\* A decision leaves its package one version, for good.
Firm(u) ==
  \A k \in DOMAIN u : u[k].is_decision =>
    /\ u[k].cause = NoCause
    /\ \E v \in Version : u[k].cum_positive = {v} /\ Allowed(u[k]) = {v}
    /\ \A j \in DOMAIN u : j > k => u[j].package # u[k].package

\* Only the first entry of a package can leave it nothing.
EmptiedFirst(u) ==
  \A k \in DOMAIN u : Emptied(u[k]) =>
    \A j \in DOMAIN u : j < k => u[j].package # u[k].package

\* What the negation of a term leaves of the version space.
Outside(t) == IF t.positive THEN Version \ t.constraint ELSE t.constraint

\* A derivation denies the term its cause has for its package, beyond what an
\* earlier entry said.
ImpliedAt(u, k) ==
  u[k].is_decision \/
    LET p == u[k].package
        t == u[k].cause.terms[p]
    IN
    /\ p \in DOMAIN u[k].cause.terms
    /\ \/ /\ Allowed(u[k]) = Outside(t)
          /\ u[k].cum_positive # NoRange <=> ~t.positive
       \/ \E m \in DOMAIN u :
            /\ m < k /\ u[m].package = p
            /\ Allowed(u[k]) = Allowed(u[m]) \cap Outside(t)
            /\ u[k].cum_positive # NoRange
                 <=> (~t.positive \/ u[m].cum_positive # NoRange)

Implied(u) == \A k \in DOMAIN u : ImpliedAt(u, k)

Built(u, l) == Counted(u, l) /\ Firm(u) /\ EmptiedFirst(u) /\ Implied(u)

\* The package being decided is not decided yet.
ChoiceOpen == phase = "absorb" => choice.package \in Undecided(trail)

TrailInv == Built(trail, level) /\ ChoiceOpen

\* The decisions up to an entry, one more if the next entry is one.
LEMMA UpToForm ==
  ASSUME NEW u, NEW n \in Nat
  PROVE  /\ Cardinality(DecidedUpTo(u, n)) \in Nat
         /\ u[n + 1].is_decision =>
              Cardinality(DecidedUpTo(u, n + 1)) = Cardinality(DecidedUpTo(u, n)) + 1
         /\ ~u[n + 1].is_decision =>
              Cardinality(DecidedUpTo(u, n + 1)) = Cardinality(DecidedUpTo(u, n))
<1> DEFINE S == DecidedUpTo(u, n)
<1>1. IsFiniteSet(S)
  <2>1. IsFiniteSet(1..n)
    BY FS_Interval
  <2>2. S \subseteq 1..n
    BY DEF DecidedUpTo
  <2>3. QED BY <2>1, <2>2, FS_Subset
<1>2. Cardinality(S) \in Nat
  BY <1>1, FS_CardinalityType
<1>3. ASSUME u[n + 1].is_decision
      PROVE  Cardinality(DecidedUpTo(u, n + 1)) = Cardinality(S) + 1
  <2>1. DecidedUpTo(u, n + 1) = S \cup {n + 1} /\ n + 1 \notin S
    BY <1>3 DEF DecidedUpTo
  <2>2. QED BY <1>1, <2>1, FS_AddElement
<1>4. ASSUME ~u[n + 1].is_decision
      PROVE  DecidedUpTo(u, n + 1) = S
  BY <1>4 DEF DecidedUpTo
<1>5. QED BY <1>2, <1>3, <1>4

\* What is decided up to an entry depends on the entries up to it alone.
LEMMA SameUpTo ==
  ASSUME NEW u, NEW w, NEW n \in Nat, \A j \in 1..n : w[j] = u[j]
  PROVE  DecidedUpTo(w, n) = DecidedUpTo(u, n)
BY DEF DecidedUpTo

\* A well-formed trail, index by index.
LEMMA TrailForm ==
  ASSUME NEW u, WellFormed(u)
  PROVE  /\ u \in Seq(Assignment) /\ Len(u) \in Nat /\ Len(u) >= 1
         /\ DOMAIN u = 1..Len(u) /\ Len(u) \in DOMAIN u /\ 1 \in DOMAIN u
         /\ \A i \in DOMAIN u :
               /\ i \in Nat /\ u[i] \in Assignment
               /\ u[i].decision_level \in Nat /\ 1 <= u[i].decision_level
BY AssignmentForm DEF WellFormed, Rooted, Ordered

\* A trail with one more entry, index by index.
LEMMA LongerForm ==
  ASSUME NEW u, WellFormed(u), NEW a \in Assignment
  PROVE  LET w == Append(u, a)
             n == Len(u)
         IN
         /\ w \in Seq(Assignment) /\ Len(w) = n + 1 /\ DOMAIN w = 1..(n + 1)
         /\ w[n + 1] = a /\ n + 1 \notin DOMAIN u
         /\ \A i \in DOMAIN u : i \in DOMAIN w /\ w[i] = u[i] /\ i < n + 1
         /\ \A i \in DOMAIN w : i \in DOMAIN u \/ i = n + 1
BY TrailForm, AppendEntries

\* Levels still count the decisions when an entry is added.
LEMMA CountedAppend ==
  ASSUME NEW u, WellFormed(u), NEW l, Counted(u, l), NEW a \in Assignment,
         a.is_decision => a.decision_level = l + 1,
         ~a.is_decision => a.decision_level = l
  PROVE  Counted(Append(u, a), a.decision_level)
<1> DEFINE w == Append(u, a)
           n == Len(u)
<1>1. /\ n \in Nat /\ n \in DOMAIN u /\ DOMAIN u = 1..n
      /\ Len(w) = n + 1 /\ DOMAIN w = 1..(n + 1) /\ w[n + 1] = a
      /\ \A i \in DOMAIN u : i \in Nat /\ w[i] = u[i]
      /\ \A i \in DOMAIN w : i \in DOMAIN u \/ i = n + 1
  BY TrailForm, LongerForm
<1> HIDE DEF w
<1>2. ASSUME NEW i \in DOMAIN u
      PROVE  DecidedUpTo(w, i) = DecidedUpTo(u, i)
  BY <1>1, SameUpTo
<1>3. l = Cardinality(DecidedUpTo(w, n))
  BY <1>1, <1>2 DEF Counted
<1>4. a.decision_level = Cardinality(DecidedUpTo(w, n + 1))
  BY <1>1, <1>3, UpToForm
<1>5. QED BY <1>1, <1>2, <1>4 DEF Counted, w

\* Backtracking keeps the entries up to the target level, and no others.
LEMMA CutForm ==
  ASSUME NEW u, WellFormed(u), NEW target \in Nat, target >= 1
  PROVE  LET w == Backtrack(u, target) IN
         /\ WellFormed(w) /\ Len(w) \in 1..Len(u) /\ DOMAIN w = 1..Len(w)
         /\ \A i \in DOMAIN w : i \in DOMAIN u /\ w[i] = u[i]
         /\ \A i \in DOMAIN u : i \in DOMAIN w <=> u[i].decision_level <= target
<1> DEFINE low == {i \in DOMAIN u : u[i].decision_level <= target}
           n == Max({0} \cup low)
           w == Backtrack(u, target)
<1>1. /\ u \in Seq(Assignment) /\ DOMAIN u = 1..Len(u) /\ Len(u) \in Nat
      /\ \A i \in DOMAIN u : i \in Nat /\ u[i].decision_level \in Nat
  BY TrailForm
<1>2. 1 \in low
  BY TrailForm DEF WellFormed, Rooted
<1>3. n \in low /\ \A i \in low : i <= n
  <2>1. {0} \cup low \in SUBSET Nat /\ \A x \in {0} \cup low : x <= Len(u)
    BY <1>1
  <2>2. n \in {0} \cup low /\ \A x \in {0} \cup low : x <= n
    BY <1>1, <2>1, MaxExists, Zenon
  <2>3. n \in Nat
    BY <1>1, <2>2
  <2> HIDE DEF n, low
  <2>4. n # 0
    BY <1>2, <2>2, <2>3
  <2>5. QED BY <2>2, <2>4
<1>4. w = SubSeq(u, 1, n)
  BY DEF Backtrack
<1> HIDE DEF n, w
<1>5. n \in 1..Len(u) /\ n \in 0..Len(u)
  BY <1>1, <1>3
<1>6. WellFormed(w) /\ Len(w) = n /\ w \in Seq(Assignment) /\ \A i \in 1..n : w[i] = u[i]
  BY <1>1, <1>4, <1>5, PrefixWellFormed, PrefixEntries
<1>7. DOMAIN w = 1..n
  BY <1>6
<1>8. ASSUME NEW i \in DOMAIN u
      PROVE  i \in DOMAIN w <=> u[i].decision_level <= target
  <2>1. CASE i \in 1..n
    <3>1. u[i].decision_level <= u[n].decision_level
      BY <1>1, <1>5, <2>1 DEF WellFormed, Ordered
    <3>2. u[n].decision_level <= target
      BY <1>3
    <3>3. QED BY <1>1, <1>3, <1>7, <2>1, <3>1, <3>2
  <2>2. CASE i \notin 1..n
    BY <1>1, <1>3, <1>7, <2>2
  <2>3. QED BY <2>1, <2>2
<1>9. QED BY <1>1, <1>5, <1>6, <1>7, <1>8 DEF w

\* Levels still count the decisions after a backtrack, the target level included.
LEMMA CountedCut ==
  ASSUME NEW u, WellFormed(u), NEW l \in Nat, Counted(u, l),
         NEW target \in Nat, target >= 1, target <= l
  PROVE  Counted(Backtrack(u, target), target)
<1> DEFINE w == Backtrack(u, target)
           n == Len(w)
<1>1. /\ WellFormed(w) /\ n \in 1..Len(u) /\ DOMAIN w = 1..n
      /\ \A i \in DOMAIN w : i \in DOMAIN u /\ w[i] = u[i]
      /\ \A i \in DOMAIN u : i \in DOMAIN w <=> u[i].decision_level <= target
  BY CutForm
<1> HIDE DEF w, n
<1>2. /\ Len(u) \in Nat /\ DOMAIN u = 1..Len(u)
      /\ \A i \in DOMAIN u : i \in Nat /\ u[i].decision_level \in Nat
      /\ n \in DOMAIN w /\ n \in DOMAIN u /\ n \in Nat
  BY <1>1, TrailForm
<1>3. \A i \in DOMAIN w : w[i].decision_level = Cardinality(DecidedUpTo(w, i))
  <2>1. SUFFICES ASSUME NEW i \in DOMAIN w
                 PROVE  w[i].decision_level = Cardinality(DecidedUpTo(w, i))
    OBVIOUS
  <2>2. i \in Nat /\ \A j \in 1..i : w[j] = u[j]
    BY <1>1, <1>2
  <2>3. DecidedUpTo(w, i) = DecidedUpTo(u, i)
    BY <2>2, SameUpTo
  <2>4. QED BY <1>1, <2>3 DEF Counted
<1>4. u[n].decision_level = target
  <2>1. u[n].decision_level <= target
    BY <1>1, <1>2
  <2>2. CASE n = Len(u)
    BY <1>2, <2>1, <2>2 DEF Counted
  <2>3. CASE n # Len(u)
    <3>1. n + 1 \in DOMAIN u /\ n + 1 \notin DOMAIN w
      BY <1>1, <1>2, <2>3
    <3>2. ~(u[n + 1].decision_level <= target)
      BY <1>1, <3>1
    <3>3. /\ u[n].decision_level = Cardinality(DecidedUpTo(u, n))
          /\ u[n + 1].decision_level = Cardinality(DecidedUpTo(u, n + 1))
      BY <1>2, <3>1 DEF Counted
    <3>4. u[n + 1].decision_level <= u[n].decision_level + 1
      BY <1>2, <3>3, UpToForm
    <3>5. u[n + 1].decision_level \in Nat /\ u[n].decision_level \in Nat
      BY <1>2, <3>1
    <3>6. QED BY <2>1, <3>2, <3>4, <3>5
  <2>4. QED BY <2>2, <2>3
<1>5. QED BY <1>1, <1>2, <1>3, <1>4 DEF Counted, w, n

\* What a decision leaves of its package is what the trail says of it.
LEMMA DecidedForm ==
  ASSUME NEW u, WellFormed(u), Firm(u), NEW k \in DOMAIN u, u[k].is_decision
  PROVE  LET p == u[k].package IN
         /\ Decided(u, p) /\ Assigned(u, p) /\ Max(Entries(u, p)) = k
         /\ Effective(u, p) = Allowed(u[k]) /\ Positive(u, p) = u[k].cum_positive
         /\ \E v \in Version : /\ u[k].cum_positive = {v} /\ Allowed(u[k]) = {v}
                               /\ {v} # NoRange
<1> DEFINE p == u[k].package
           m == Max(Entries(u, p))
<1>1. u \in Seq(Assignment) /\ \A i \in DOMAIN u : i \in Nat
  BY TrailForm
<1>2. k \in Entries(u, p)
  BY DEF Entries
<1>3. Assigned(u, p) /\ Decided(u, p)
  BY <1>2 DEF Assigned, Decided
<1>4. /\ m \in Entries(u, p) /\ LastOf(u, p) = u[m] /\ k <= m
      /\ m \in DOMAIN u /\ m \in Nat
  BY <1>1, <1>2, <1>3, LastEntry, EntriesForm
<1>5. m = k
  <2>1. ~(m > k)
    BY <1>1, <1>4, EntriesForm DEF Firm
  <2>2. QED BY <1>1, <1>4, <2>1
<1>6. \E v \in Version : /\ u[k].cum_positive = {v} /\ Allowed(u[k]) = {v}
                         /\ {v} # NoRange
  <2>1. PICK v \in Version : u[k].cum_positive = {v} /\ Allowed(u[k]) = {v}
    BY DEF Firm
  <2>2. {v} # NoRange
    BY NoRangeAssumption
  <2>3. QED BY <2>1, <2>2
<1> HIDE DEF m
<1>7. QED BY <1>3, <1>4, <1>5, <1>6 DEF Effective, Positive, m

\* A decided package has no open term.
LEMMA DecidedSettled ==
  ASSUME NEW u, WellFormed(u), Firm(u), NEW p, Decided(u, p), NEW t \in Term
  PROVE  Satisfied(u, p, t) \/ Contradicted(u, p, t)
<1>1. PICK k \in Entries(u, p) : u[k].is_decision
  BY DEF Decided
<1>2. k \in DOMAIN u /\ u[k].package = p
  BY <1>1 DEF Entries
<1>3. PICK v \in Version :
        /\ Effective(u, p) = {v} /\ Assigned(u, p) /\ Positive(u, p) # NoRange
  BY <1>1, <1>2, DecidedForm
<1>4. Negate(t).constraint = t.constraint /\ (Negate(t).positive <=> ~t.positive)
  BY NegateForm
<1>5. QED BY <1>3, <1>4 DEF Satisfied, Contradicted, Contradicts, Satisfies

\* A trail cut back keeps what decisions, emptied entries and derivations are.
LEMMA CutBuilt ==
  ASSUME NEW u, WellFormed(u), NEW l \in Nat, Built(u, l),
         NEW target \in Nat, target >= 1, target <= l
  PROVE  Built(Backtrack(u, target), target)
<1> DEFINE w == Backtrack(u, target)
<1>1. /\ \A i \in DOMAIN w : i \in DOMAIN u /\ w[i] = u[i] /\ i \in Nat
      /\ DOMAIN w = 1..Len(w) /\ Len(w) \in Nat
  BY CutForm, TrailForm
<1>2. Counted(w, target)
  BY CountedCut DEF Built
<1> HIDE DEF w
<1>3. Firm(w) /\ EmptiedFirst(w)
  BY <1>1 DEF Built, Firm, EmptiedFirst
<1>4. Implied(w)
  <2>1. SUFFICES ASSUME NEW k \in DOMAIN w PROVE ImpliedAt(w, k)
    BY DEF Implied
  <2>2. k \in DOMAIN u /\ w[k] = u[k] /\ ImpliedAt(u, k)
    BY <1>1 DEF Built, Implied
  <2>3. \A m \in DOMAIN u : m < k => m \in DOMAIN w /\ w[m] = u[m]
    BY <1>1, <2>2, TrailForm
  <2>4. QED BY <2>2, <2>3 DEF ImpliedAt
<1>5. QED BY <1>2, <1>3, <1>4 DEF Built, w

\* What holds of an entry as derived holds of it however far the trail goes on.
LEMMA ImpliedLonger ==
  ASSUME NEW u, WellFormed(u), NEW a \in Assignment, NEW k \in DOMAIN u, ImpliedAt(u, k)
  PROVE  ImpliedAt(Append(u, a), k)
<1>1. \A m \in DOMAIN u : m \in DOMAIN Append(u, a) /\ Append(u, a)[m] = u[m]
  BY LongerForm
<1>2. QED BY <1>1 DEF ImpliedAt

\* A derivation adds an entry that its cause implies, about an undecided package.
LEMMA DerivationBuilt ==
  ASSUME IInv, Built(trail, level), NEW c \in Clause, Refuted(c) = {},
         NEW p \in Open(c), Open(c) = {p}
  PROVE  Built(Append(trail, Derivation(trail, level, p, Negate(c.terms[p]), c)), level)
<1> DEFINE t == c.terms[p]
           a == Derivation(trail, level, p, Negate(t), c)
           w == Append(trail, a)
           n == Len(trail)
<1>1. /\ p \in Package /\ p \in DOMAIN c.terms
      /\ a \in Assignment /\ a.package = p
      /\ a.decision_level = level /\ a.cause = c /\ ~a.is_decision
      /\ Emptied(a) => ~Assigned(trail, p)
  BY DeriveForm
<1>2. /\ WellFormed(trail) /\ trail \in Seq(Assignment) /\ level \in Nat
      /\ p \in Node /\ t \in Term /\ Negate(t) \in Term
      /\ Negate(t).constraint = t.constraint /\ (Negate(t).positive <=> ~t.positive)
  BY <1>1, ClauseTerms, NegateForm DEF IInv, TypeOK, TrailOK
<1>3. /\ a.cum_positive # NoRange <=> (~t.positive \/ Positive(trail, p) # NoRange)
      /\ Allowed(a) = IF Assigned(trail, p) THEN Effective(trail, p) \cap Outside(t)
                                            ELSE Outside(t)
  <2> DEFINE s == Negate(t)
  <2>1. s \in Term /\ a = Derivation(trail, level, p, s, c)
    BY <1>2
  <2> HIDE DEF a, s
  <2>2. /\ a.cum_positive # NoRange <=> (s.positive \/ Positive(trail, p) # NoRange)
        /\ Allowed(a) = IF Assigned(trail, p)
                        THEN IF s.positive THEN Effective(trail, p) \cap s.constraint
                                           ELSE Effective(trail, p) \ s.constraint
                        ELSE IF s.positive THEN s.constraint
                                           ELSE Version \ s.constraint
    BY <1>2, <2>1, DerivationForm
  <2>3. Assigned(trail, p) => Effective(trail, p) \subseteq Version
    BY <1>2, LastForm DEF Ranges
  <2>4. s.constraint = t.constraint /\ (s.positive <=> ~t.positive)
    BY <1>2 DEF s
  <2>5. QED BY <2>2, <2>3, <2>4 DEF Outside
<1> HIDE DEF a, w, t, n
<1>4. /\ DOMAIN w = 1..(n + 1) /\ n \in Nat /\ w[n + 1] = a
      /\ \A i \in DOMAIN trail : i \in DOMAIN w /\ w[i] = trail[i] /\ i < n + 1 /\ i \in Nat
      /\ \A i \in DOMAIN w : i \in DOMAIN trail \/ i = n + 1
      /\ n + 1 \notin DOMAIN trail
  BY <1>1, <1>2, TrailForm, LongerForm DEF w, n
<1>5. Counted(w, level)
  BY <1>1, <1>2, CountedAppend DEF Built, w
<1>6. Firm(w)
  <2>1. ASSUME NEW k \in DOMAIN trail, trail[k].is_decision
        PROVE  trail[k].package # p
    <3>1. ~Satisfied(trail, p, t) /\ ~Contradicted(trail, p, t)
      BY DEF Open, t
    <3>2. ~Decided(trail, p)
      BY <1>2, <3>1, DecidedSettled DEF Built
    <3>3. QED BY <2>1, <3>2 DEF Decided, Entries
  <2>2. QED BY <1>1, <1>4, <2>1 DEF Built, Firm
<1>7. EmptiedFirst(w)
  <2>1. ~Assigned(trail, p) => \A j \in DOMAIN trail : trail[j].package # p
    BY DEF Assigned, Entries
  <2>2. QED BY <1>1, <1>4, <2>1 DEF Built, EmptiedFirst
<1>8. Implied(w)
  <2>1. \A k \in DOMAIN trail : ImpliedAt(w, k)
    BY <1>1, <1>2, ImpliedLonger DEF Built, Implied, w
  <2>2. ImpliedAt(w, n + 1)
    <3>1. CASE ~Assigned(trail, p)
      <4>1. Positive(trail, p) = NoRange
        BY <3>1 DEF Positive
      <4>2. QED BY <1>1, <1>3, <1>4, <3>1, <4>1 DEF ImpliedAt, t
    <3>2. CASE Assigned(trail, p)
      <4> DEFINE m == Max(Entries(trail, p))
      <4>1. /\ m \in DOMAIN trail /\ trail[m].package = p
            /\ Effective(trail, p) = Allowed(trail[m])
            /\ Positive(trail, p) = trail[m].cum_positive
        BY <1>2, <3>2, LastEntry, EntriesForm DEF Effective, Positive
      <4> HIDE DEF m
      <4>2. m \in DOMAIN w /\ m < n + 1 /\ w[m] = trail[m]
        BY <1>4, <4>1
      <4>3. QED BY <1>1, <1>3, <1>4, <3>2, <4>1, <4>2 DEF ImpliedAt, t
    <3>3. QED BY <3>1, <3>2
  <2>3. QED BY <1>4, <2>1, <2>2 DEF Implied
<1>9. QED BY <1>5, <1>6, <1>7, <1>8 DEF Built, w, a, t

\* A decision adds an entry that leaves one version of an undecided package.
LEMMA DecisionBuilt ==
  ASSUME IInv, TrailInv, Decide
  PROVE  Built(Append(trail, Decision(trail, level + 1, choice.package, choice.version)),
               level + 1)
<1> DEFINE p == choice.package
           v == choice.version
           a == Decision(trail, level + 1, p, v)
           w == Append(trail, a)
           n == Len(trail)
<1>1. /\ p \in Package /\ v \in Version
      /\ a \in Assignment /\ a.package = p /\ a.decision_level = level + 1
      /\ a.is_decision /\ a.cause = NoCause
      /\ a.cum_positive = {v} /\ Allowed(a) = {v} /\ ~Emptied(a)
  BY DecideForm
<1>2. WellFormed(trail) /\ Built(trail, level) /\ p \in Undecided(trail)
  BY DEF IInv, TrailOK, TrailInv, ChoiceOpen, Decide
<1> HIDE DEF a, w, n, p, v
<1>3. /\ DOMAIN w = 1..(n + 1) /\ n \in Nat /\ w[n + 1] = a
      /\ \A i \in DOMAIN trail : i \in DOMAIN w /\ w[i] = trail[i] /\ i < n + 1 /\ i \in Nat
      /\ \A i \in DOMAIN w : i \in DOMAIN trail \/ i = n + 1
      /\ n + 1 \notin DOMAIN trail
  BY <1>1, <1>2, TrailForm, LongerForm DEF w, n
<1>4. Counted(w, level + 1)
  BY <1>1, <1>2, CountedAppend DEF Built, w
<1>5. Firm(w)
  <2>1. ASSUME NEW k \in DOMAIN trail, trail[k].is_decision
        PROVE  trail[k].package # p
    BY <1>2, <2>1 DEF Undecided, Decided, Entries
  <2>2. QED BY <1>1, <1>2, <1>3, <2>1 DEF Built, Firm
<1>6. EmptiedFirst(w)
  BY <1>1, <1>2, <1>3 DEF Built, EmptiedFirst
<1>7. Implied(w)
  <2>1. \A k \in DOMAIN trail : ImpliedAt(w, k)
    BY <1>1, <1>2, ImpliedLonger DEF Built, Implied, w
  <2>2. ImpliedAt(w, n + 1)
    BY <1>1, <1>3 DEF ImpliedAt
  <2>3. QED BY <1>3, <2>1, <2>2 DEF Implied
<1>8. QED BY <1>4, <1>5, <1>6, <1>7 DEF Built, w, a, p, v

\* The trail of a resolution that begins, or begins again.
LEMMA FreshBuilt == Built(<<RootDecision>>, 1)
<1> DEFINE u == <<RootDecision>>
<1>1. /\ Len(u) = 1 /\ DOMAIN u = {1} /\ u[1] = RootDecision
      /\ RootDecision.decision_level = 1 /\ RootDecision.is_decision
      /\ ~Emptied(RootDecision)
  BY RootDecisionForm DEF Emptied
<1>2. /\ RootDecision.cause = NoCause
      /\ RootDecision.cum_positive = {RootVersion}
  BY DEF RootDecision, Decision
<1> HIDE DEF u
<1>3. Counted(u, 1)
  <2>1. DecidedUpTo(u, 1) = {1}
    BY <1>1 DEF DecidedUpTo
  <2>2. QED BY <1>1, <2>1, FS_Singleton DEF Counted
<1>4. Firm(u)
  BY <1>1, <1>2, RootDecisionForm, RootVersionAssumption DEF Firm
<1>5. EmptiedFirst(u) /\ Implied(u)
  BY <1>1 DEF EmptiedFirst, Implied, ImpliedAt
<1>6. QED BY <1>3, <1>4, <1>5 DEF Built, u

----------------------------------------------------------------------------
(* What a step does to the trail. *)

Derives(c, p) ==
  /\ phase = "propagate" /\ c \in Clause
  /\ Refuted(c) = {} /\ p \in Open(c) /\ Open(c) = {p} /\ level' = level
  /\ trail' = Append(trail, Derivation(trail, level, p, Negate(c.terms[p]), c))

CutsTo(target) ==
  /\ phase \in {"conflict", "backtrack", "absorb"}
  /\ phase' \in {"backtrack", "restart", "round"}
  /\ target \in Nat /\ 1 <= target /\ target < level
  /\ trail' = Backtrack(trail, target) /\ level' = target

\* A jump back goes below the current level.
LEMMA BackjumpCuts ==
  ASSUME IInv, Backjump
  PROVE  /\ CutsTo(BackjumpTarget(Learned.terms))
         /\ Good(problem, Learned) /\ Learned.terms \in TermMap
         /\ Reached(trail, Learned.terms)
         /\ ~Terminal(Learned.terms) /\ CanBackjump(Learned.terms)
<1>1. /\ phase = "conflict" /\ phase' = "backtrack"
      /\ ~Terminal(conflict.clause.terms) /\ CanBackjump(conflict.clause.terms)
      /\ trail' = Backtrack(trail, BackjumpTarget(Learned.terms))
      /\ level' = BackjumpTarget(Learned.terms)
  BY DEF Backjump
<1>2. /\ WellFormed(trail) /\ level \in Nat
      /\ \A i \in DOMAIN trail : trail[i].decision_level <= level
      /\ Good(problem, conflict.clause) /\ Reached(trail, conflict.clause.terms)
      /\ \A i \in DOMAIN trail :
            trail[i].is_decision \/ Good(problem, trail[i].cause)
  BY <1>1 DEF IInv, TypeOK, TrailOK, ClausesGood, ConflictOK
<1>3. /\ Good(problem, Learned) /\ Learned.terms \in TermMap
      /\ Reached(trail, Learned.terms)
      /\ ~Terminal(Learned.terms) /\ CanBackjump(Learned.terms)
  BY <1>1, <1>2, LearnedOK
<1>4. /\ BackjumpTarget(Learned.terms) \in Nat
      /\ 1 <= BackjumpTarget(Learned.terms) /\ BackjumpTarget(Learned.terms) < level
  BY <1>2, <1>3, TargetForm
<1>5. QED BY <1>1, <1>3, <1>4 DEF CutsTo

\* A targeted backtrack goes below the current level.
LEMMA TargetedCuts ==
  ASSUME IInv, NEW pending, TargetedBacktrack(pending),
         phase \in {"backtrack", "absorb"}, phase' \in {"restart", "round"}
  PROVE  CutsTo(Min(TargetLevels(pending)))
<1> DEFINE S == TargetLevels(pending)
<1>1. trail' = Backtrack(trail, Min(S)) /\ level' = Min(S) /\ S # {}
  BY DEF TargetedBacktrack, CanTarget
<1>2. level \in Nat /\ \A i \in DOMAIN trail : /\ trail[i].decision_level \in Nat
                                              /\ trail[i].decision_level <= level
  BY TrailForm DEF IInv, TypeOK, TrailOK
<1>3. \A x \in S : x \in Nat /\ 1 <= x /\ x < level
  BY <1>2 DEF TargetLevels
<1> HIDE DEF S
<1>4. Min(S) \in S
  BY <1>1, <1>3, MinExists
<1>5. QED BY <1>1, <1>3, <1>4 DEF CutsTo, S

\* A step leaves the trail alone, adds a derivation or a decision, cuts it back,
\* or begins it anew.
LEMMA TrailMoves ==
  ASSUME IInv, [Next]_vars
  PROVE  \/ UNCHANGED <<trail, level>>
         \/ \E c, p : Derives(c, p)
         \/ Decide
         \/ \E target : CutsTo(target)
         \/ Restart
<1>1. CASE StartRound \/ ReachLimit
  BY <1>1 DEF StartRound, ReachLimit, solution
<1>2. CASE Propagate
  <2>1. CASE \E i \in DOMAIN formula : Settle(i) \/ PassOver(i) \/ FindConflict(i)
    BY <2>1 DEF Settle, PassOver, FindConflict, solution
  <2>2. CASE \E i \in DOMAIN formula : Derive(i)
    <3>1. PICK i \in DOMAIN formula : Derive(i)
      BY <2>2
    <3>2. formula[i].clause \in Clause /\ phase = "propagate"
      BY <3>1, LookAtForm DEF Derive
    <3>3. QED BY <3>1, <3>2 DEF Derive, Derives
  <2>3. CASE NextPackage \/ FinishPropagation
    BY <2>3 DEF NextPackage, FinishPropagation, solution
  <2>4. QED BY <1>2, <2>1, <2>2, <2>3 DEF Propagate
<1>3. CASE HandleConflict
  <2>1. CASE GiveUp \/ ResolveStep \/ SkipPruning \/ CarryOn
    BY <2>1 DEF GiveUp, ResolveStep, SkipPruning, CarryOn, solution
  <2>2. CASE Backjump
    BY <2>2, BackjumpCuts
  <2>3. CASE PruneCulprits
    BY <2>3, TargetedCuts DEF PruneCulprits
  <2>4. QED BY <1>3, <2>1, <2>2, <2>3 DEF HandleConflict
<1>4. CASE DecideNext
  <2>1. CASE Solve \/ RecordNoVersions \/ \E p \in Package : Choose(p)
    BY <2>1 DEF Solve, RecordNoVersions, Choose, solution
  <2>2. CASE \E c \in backlog : Absorb(c) \/ Record(c)
    BY <2>2 DEF Absorb, Record, solution
  <2>3. CASE ForceBacktrack
    BY <2>3, TargetedCuts DEF ForceBacktrack
  <2>4. QED BY <1>4, <2>1, <2>2, <2>3 DEF DecideNext
<1>5. CASE Terminated \/ UNCHANGED vars
  BY <1>5 DEF Terminated, vars, solution
<1>6. QED BY <1>1, <1>2, <1>3, <1>4, <1>5 DEF Next

\* A decision is prepared only about a package that is not decided.
LEMMA ChoiceStaysOpen ==
  ASSUME IInv, ChoiceOpen, [Next]_vars, phase' = "absorb"
  PROVE  choice'.package \in Undecided(trail')
<1>1. CASE StartRound \/ ReachLimit \/ Propagate \/ HandleConflict
  BY <1>1 DEF StartRound, ReachLimit, Propagate, Settle, PassOver, Derive,
     FindConflict, NextPackage, FinishPropagation, LookAt, HandleConflict, GiveUp,
     ResolveStep, Backjump, PruneCulprits, SkipPruning, Restart, CarryOn
<1>2. CASE \E p \in Package : Choose(p)
  BY <1>2 DEF Choose, solution
<1>3. CASE \E c \in backlog : Absorb(c)
  BY <1>3 DEF Absorb, solution, ChoiceOpen
<1>4. CASE \/ \E c \in backlog : Record(c)
           \/ Solve \/ ForceBacktrack \/ RecordNoVersions \/ Decide
  BY <1>4 DEF Record, Solve, ForceBacktrack, RecordNoVersions, Decide
<1>5. CASE Terminated \/ UNCHANGED vars
  BY <1>5 DEF Terminated, vars, solution, decision, ChoiceOpen
<1>6. QED BY <1>1, <1>2, <1>3, <1>4, <1>5 DEF Next, DecideNext

\* The trail is built of decisions and derivations in every reachable state.
LEMMA InitTrailInv == Init => TrailInv
BY FreshBuilt DEF Init, TrailInv, ChoiceOpen

\* Every step keeps what the trail is built of.
LEMMA NextTrailInv ==
  ASSUME IInv, TrailInv, [Next]_vars
  PROVE  TrailInv'
<1>1. WellFormed(trail) /\ level \in Nat /\ Built(trail, level)
  BY DEF IInv, TypeOK, TrailOK, TrailInv
<1>2. Built(trail', level')
  <2>1. CASE UNCHANGED <<trail, level>>
    BY <1>1, <2>1
  <2>2. CASE \E c, p : Derives(c, p)
    BY <1>1, <2>2, DerivationBuilt DEF Derives
  <2>3. CASE Decide
    BY <2>3, DecisionBuilt DEF Decide
  <2>4. CASE \E target : CutsTo(target)
    BY <1>1, <2>4, CutBuilt DEF CutsTo
  <2>5. CASE Restart
    BY <2>5, FreshBuilt DEF Restart
  <2>6. QED BY <2>1, <2>2, <2>3, <2>4, <2>5, TrailMoves
<1>3. ChoiceOpen'
  BY ChoiceStaysOpen DEF TrailInv, ChoiceOpen
<1>4. QED BY <1>2, <1>3 DEF TrailInv

\* What is proved of the trail holds in every reachable state, beside the invariant
\* of PubGrubProofs.
THEOREM TrailInvariance == Spec => [](IInv /\ TrailInv)
<1>1. Init => IInv /\ TrailInv
  BY InitIInv, InitTrailInv
<1>2. IInv /\ TrailInv /\ [Next]_vars => (IInv /\ TrailInv)'
  BY NextIInv, NextTrailInv
<1>3. QED BY <1>1, <1>2, PTL DEF Spec

\* Levels count the decisions of the trail, no package is decided twice, and the
\* current level is that of the last decision, through backjumps, targeted
\* backtracks and restarts (partial_solution.py, backtrack).
THEOREM LevelsCountDecisions == Spec => []TrailShape
<1>1. ASSUME IInv, TrailInv PROVE TrailShape
  <2>1. /\ \A i \in DOMAIN trail : i \in Nat
        /\ Len(trail) \in DOMAIN trail /\ DOMAIN trail = 1..Len(trail)
        /\ Counted(trail, level) /\ Firm(trail)
    BY <1>1, TrailForm DEF IInv, TrailOK, TrailInv, Built
  <2>2. \A i \in DOMAIN trail :
          trail[i].decision_level = Cardinality({j \in 1..i : trail[j].is_decision})
    BY <2>1 DEF Counted, DecidedUpTo
  <2>3. level = Cardinality({j \in DOMAIN trail : trail[j].is_decision})
    BY <2>1, <2>2 DEF Counted
  <2>4. ASSUME NEW i \in DOMAIN trail, NEW j \in DOMAIN trail,
               trail[i].is_decision, trail[j].is_decision,
               trail[i].package = trail[j].package
        PROVE  i = j
    <3>1. ~(j > i) /\ ~(i > j)
      BY <2>1, <2>4 DEF Firm
    <3>2. QED BY <2>1, <3>1
  <2>5. QED BY <2>2, <2>3, <2>4 DEF TrailShape
<1>2. QED BY <1>1, TrailInvariance, PTL

----------------------------------------------------------------------------
(* Jumps back. *)

\* A decision opens a level: the entries before it are on lower ones.
LEMMA DecisionRaises ==
  ASSUME NEW u, WellFormed(u), NEW l, Counted(u, l),
         NEW k \in DOMAIN u, u[k].is_decision, NEW j \in DOMAIN u, j < k
  PROVE  u[j].decision_level < u[k].decision_level
<1>1. /\ DOMAIN u = 1..Len(u) /\ Len(u) \in Nat
      /\ \A i \in DOMAIN u : i \in Nat /\ u[i].decision_level \in Nat
  BY TrailForm
<1> DEFINE i == k - 1
<1>2. i \in DOMAIN u /\ i \in Nat /\ i + 1 = k /\ j <= i
  BY <1>1
<1> HIDE DEF i
<1>3. u[k].decision_level = u[i].decision_level + 1
  BY <1>1, <1>2, UpToForm DEF Counted
<1>4. u[j].decision_level <= u[i].decision_level
  BY <1>2 DEF WellFormed, Ordered
<1>5. QED BY <1>1, <1>2, <1>3, <1>4

\* Where a clause can be jumped back on, its latest satisfier is above the target
\* and the others are not.
LEMMA JumpParts ==
  ASSUME IInv, TrailInv, NEW terms \in TermMap, Reached(trail, terms),
         ~Terminal(terms), CanBackjump(terms)
  PROVE  /\ BackjumpTarget(terms) < SatisfierEntry(terms).decision_level
         /\ \A q \in DOMAIN terms \ {SatisfiedLast(terms)} :
               trail[SatisfierIn(terms, q)].decision_level <= BackjumpTarget(terms)
<1> DEFINE a == SatisfierEntry(terms)
           k == MostRecent(terms)
           p == SatisfiedLast(terms)
           others == {trail[SatisfierIn(terms, q)].decision_level
                        : q \in DOMAIN terms \ {p}}
           partial == PartialLevels(a, terms[p])
           S == {1} \cup others \cup partial
           prev == PreviousLevel(terms)
<1>1. /\ WellFormed(trail) /\ trail \in Seq(Assignment) /\ level \in Nat
      /\ \A i \in DOMAIN trail : trail[i].decision_level <= level
      /\ Counted(trail, level) /\ Firm(trail)
  BY DEF IInv, TypeOK, TrailOK, TrailInv, Built
<1>2. k > 1 /\ DOMAIN terms # {}
  BY <1>1, NotTerminal
<1>3. /\ k \in DOMAIN trail /\ k \in Nat /\ a = trail[k] /\ a \in Assignment
      /\ p \in DOMAIN terms /\ a.package = p /\ SatisfiedAt(a, terms[p])
      /\ \A q \in DOMAIN terms : SatisfierIn(terms, q) <= k
  BY <1>1, <1>2, MostRecentForm DEF SatisfiedLast
<1>4. a.decision_level \in Nat /\ a.decision_level >= 1 /\ a.decision_level <= level
  BY <1>1, <1>3, TrailForm
<1>5. ASSUME NEW q \in DOMAIN terms
      PROVE  LET j == SatisfierIn(terms, q) IN
             /\ j \in DOMAIN trail /\ j \in Nat /\ trail[j].package = q
             /\ trail[j].decision_level \in Nat
             /\ trail[j].decision_level <= a.decision_level
  <2>1. /\ SatisfierIn(terms, q) \in DOMAIN trail /\ SatisfierIn(terms, q) \in Nat
        /\ trail[SatisfierIn(terms, q)].package = q
    BY <1>1, SatisfierForm
  <2>2. QED BY <1>1, <1>3, <2>1, TrailForm DEF WellFormed, Ordered
<1>6. ASSUME NEW m \in partial
      PROVE  m \in Nat /\ m <= a.decision_level
  <2>1. terms[p] \in Term
    BY <1>3, TermMapForm
  <2>2. QED BY <1>1, <1>3, <1>6, <2>1, PartialLevelsForm
<1>7. S \in SUBSET Nat /\ S # {} /\ \A m \in S : m <= a.decision_level
  BY <1>4, <1>5, <1>6
<1>8. prev \in S /\ \A m \in S : m <= prev
  <2>1. prev = Max(S)
    BY DEF PreviousLevel
  <2> HIDE DEF S, prev
  <2>2. QED BY <1>4, <1>7, <2>1, MaxExists
<1>9. ASSUME a.is_decision PROVE prev < a.decision_level
  <2>1. a.decision_level >= 2
    BY <1>1, <1>2, <1>3, <1>9 DEF WellFormed, Rooted
  <2>2. ASSUME NEW q \in DOMAIN terms \ {p}
        PROVE  trail[SatisfierIn(terms, q)].decision_level < a.decision_level
    <3>1. SatisfierIn(terms, q) < k
      BY <1>3, <1>5
    <3>2. QED BY <1>1, <1>3, <1>5, <1>9, <3>1, DecisionRaises
  <2>3. partial = {}
    BY <1>1, <1>3, <1>9 DEF Firm, NoCause, PartialLevels
  <2>4. \A m \in others : m < a.decision_level
    BY <2>2
  <2>5. \A m \in S : m = 1 \/ m \in others
    BY <2>3
  <2> HIDE DEF S, others
  <2>6. QED BY <1>4, <1>8, <2>1, <2>4, <2>5
<1>10. prev < a.decision_level
  <2>1. CASE a.is_decision
    BY <1>9, <2>1
  <2>2. CASE ~a.is_decision
    <3>1. prev # a.decision_level
      BY <2>2 DEF CanBackjump
    <3>2. QED BY <1>4, <1>7, <1>8, <3>1
  <2>3. QED BY <2>1, <2>2
<1>11. BackjumpTarget(terms) = prev
  <2>1. prev \in Nat
    BY <1>7, <1>8
  <2>2. prev < level /\ ~(prev >= a.decision_level)
    BY <1>1, <1>4, <1>10, <2>1
  <2>3. QED BY <2>2 DEF BackjumpTarget
<1>12. \A q \in DOMAIN terms \ {p} :
         trail[SatisfierIn(terms, q)].decision_level <= prev
  BY <1>8
<1>13. QED BY <1>10, <1>11, <1>12

\* A term whose satisfiers are all cut away is neither satisfied nor contradicted
\* by what is left.
LEMMA CutOpens ==
  ASSUME NEW u, WellFormed(u), EmptiedFirst(u), NEW target \in Nat, target >= 1,
         NEW k \in DOMAIN u, u[k].decision_level > target, NEW t \in Term,
         SatisfiedAt(u[k], t),
         \A i \in Satisfiers(u, u[k].package, t) : k <= i
  PROVE  /\ ~Satisfied(Backtrack(u, target), u[k].package, t)
         /\ ~Contradicted(Backtrack(u, target), u[k].package, t)
<1> DEFINE w == Backtrack(u, target)
           p == u[k].package
<1>1. /\ WellFormed(w) /\ w \in Seq(Assignment)
      /\ \A i \in DOMAIN w : i \in DOMAIN u /\ w[i] = u[i] /\ i \in Nat
      /\ \A i \in DOMAIN u : i \in DOMAIN w <=> u[i].decision_level <= target
      /\ u[k].decision_level \in Nat /\ k \in Nat
  BY CutForm, TrailForm
<1>2. ASSUME NEW i \in DOMAIN w PROVE i < k
  <2>1. ~(k <= i)
    <3>1. k <= i => u[k].decision_level <= u[i].decision_level
      BY <1>1 DEF WellFormed, Ordered
    <3>2. u[i].decision_level <= target /\ u[i].decision_level \in Nat
      BY <1>1, TrailForm
    <3>3. QED BY <1>1, <3>1, <3>2
  <2>2. QED BY <1>1, <2>1
<1> HIDE DEF w
<1>3. ~Satisfied(w, p, t)
  <2>1. SUFFICES ASSUME Satisfied(w, p, t) PROVE FALSE
    OBVIOUS
  <2>2. PICK i \in Satisfiers(w, p, t) : TRUE
    BY <1>1, <2>1, SatisfiedEntry
  <2>3. i \in DOMAIN w /\ i \in Satisfiers(u, p, t)
    BY <1>1, <2>2 DEF Satisfiers, Entries
  <2>4. QED BY <1>1, <1>2, <2>3
<1>4. ~Contradicted(w, p, t)
  <2>1. SUFFICES ASSUME Contradicted(w, p, t) PROVE FALSE
    OBVIOUS
  <2> DEFINE m == Max(Entries(w, p))
  <2>2. /\ m \in DOMAIN w /\ w[m].package = p
        /\ Effective(w, p) = Allowed(w[m]) /\ Positive(w, p) = w[m].cum_positive
    BY <1>1, <2>1, LastEntry, EntriesForm DEF Contradicted, Effective, Positive
  <2> HIDE DEF m
  <2>3. /\ Satisfies(Allowed(u[m]), Negate(t))
        /\ ~t.positive => u[m].cum_positive # NoRange
        /\ m \in DOMAIN u /\ u[m].package = p /\ m < k
    BY <1>1, <1>2, <2>1, <2>2 DEF Contradicted, Contradicts
  <2>4. /\ Allowed(u[k]) \subseteq Allowed(u[m])
        /\ u[m].cum_positive # NoRange => u[k].cum_positive # NoRange
    BY <2>3 DEF WellFormed, Narrow
  <2>5. Negate(t).constraint = t.constraint /\ (Negate(t).positive <=> ~t.positive)
    BY NegateForm
  <2>6. Emptied(u[k])
    BY <2>3, <2>4, <2>5 DEF Emptied, SatisfiedAt, Satisfies
  <2>7. QED BY <2>3, <2>6 DEF EmptiedFirst
<1>5. QED BY <1>3, <1>4 DEF w

\* An entry that satisfies a term settles it for good.
LEMMA EntrySatisfies ==
  ASSUME NEW u, WellFormed(u), NEW p, NEW t \in Term, NEW i \in Satisfiers(u, p, t)
  PROVE  Satisfied(u, p, t)
<1>1. i \in Entries(u, p) /\ SatisfiedAt(u[i], t)
  BY DEF Satisfiers
<1>2. /\ Assigned(u, p) /\ Effective(u, p) \subseteq Allowed(u[i])
      /\ u[i].cum_positive # NoRange => Positive(u, p) # NoRange
  BY <1>1, LastNarrowest
<1>3. Satisfies(Effective(u, p), t)
  BY <1>1, <1>2 DEF SatisfiedAt, Satisfies
<1>4. QED BY <1>1, <1>2, <1>3 DEF SatisfiedAt, Satisfied

\* After a jump back on a clause, its latest term is open and the others hold.
LEMMA JumpAsserts ==
  ASSUME IInv, TrailInv, NEW terms \in TermMap, Reached(trail, terms),
         ~Terminal(terms), CanBackjump(terms)
  PROVE  LET u == Backtrack(trail, BackjumpTarget(terms))
             p == SatisfiedLast(terms)
         IN
         /\ p \in DOMAIN terms
         /\ ~Satisfied(u, p, terms[p]) /\ ~Contradicted(u, p, terms[p])
         /\ \A q \in DOMAIN terms \ {p} : Satisfied(u, q, terms[q])
<1> DEFINE target == BackjumpTarget(terms)
           u == Backtrack(trail, target)
           p == SatisfiedLast(terms)
           k == MostRecent(terms)
<1>1. /\ WellFormed(trail) /\ trail \in Seq(Assignment) /\ level \in Nat
      /\ \A i \in DOMAIN trail : trail[i].decision_level <= level
      /\ EmptiedFirst(trail)
  BY DEF IInv, TypeOK, TrailOK, TrailInv, Built
<1>2. DOMAIN terms # {}
  BY <1>1, NotTerminal
<1>3. target \in Nat /\ target >= 1
  BY <1>1, TargetForm
<1>4. /\ target < trail[k].decision_level
      /\ \A q \in DOMAIN terms \ {p} :
            trail[SatisfierIn(terms, q)].decision_level <= target
  BY JumpParts DEF SatisfierEntry
<1>5. /\ k \in DOMAIN trail /\ p \in DOMAIN terms /\ k = SatisfierIn(terms, p)
      /\ trail[k].package = p /\ SatisfiedAt(trail[k], terms[p])
      /\ trail[k].decision_level \in Nat
  BY <1>1, <1>2, MostRecentForm, TrailForm DEF SatisfiedLast, SatisfierEntry
<1>6. \A q \in DOMAIN terms : terms[q] \in Term
  BY TermMapForm
<1>7. \A i \in Satisfiers(trail, p, terms[p]) : k <= i
  BY <1>1, <1>5, SatisfierForm
<1>8. WellFormed(u) /\ \A i \in DOMAIN trail :
                          i \in DOMAIN u <=> trail[i].decision_level <= target
  BY <1>1, <1>3, CutForm
<1>9. \A i \in DOMAIN u : u[i] = trail[i]
  BY <1>1, <1>3, CutForm
<1> HIDE DEF target, k, p, u
<1>10. trail[k].decision_level > target
  BY <1>3, <1>4, <1>5
<1>11. /\ ~Satisfied(Backtrack(trail, target), p, terms[p])
       /\ ~Contradicted(Backtrack(trail, target), p, terms[p])
  BY <1>1, <1>3, <1>5, <1>6, <1>7, <1>10, CutOpens
<1>12. ASSUME NEW q \in DOMAIN terms \ {p} PROVE Satisfied(u, q, terms[q])
  <2> DEFINE j == SatisfierIn(terms, q)
  <2>1. j \in DOMAIN trail /\ trail[j].package = q /\ SatisfiedAt(trail[j], terms[q])
    BY <1>1, SatisfierForm
  <2>2. j \in DOMAIN u /\ u[j] = trail[j]
    BY <1>4, <1>8, <1>9, <2>1
  <2> HIDE DEF j
  <2>3. j \in Satisfiers(u, q, terms[q])
    BY <2>1, <2>2 DEF Satisfiers, Entries
  <2>4. QED BY <1>6, <1>8, <2>3, EntrySatisfies
<1>13. QED BY <1>5, <1>11, <1>12 DEF u, p, target

\* Conflict resolution is left for a jump back by Backjump alone.
LEMMA JumpsBack ==
  ASSUME [Next]_vars, phase = "conflict", phase' = "backtrack"
  PROVE  Backjump
<1>1. CASE StartRound \/ ReachLimit \/ Propagate
  BY <1>1 DEF StartRound, ReachLimit, Propagate, Settle, PassOver, Derive,
     FindConflict, NextPackage, FinishPropagation, LookAt
<1>2. CASE GiveUp \/ ResolveStep \/ PruneCulprits \/ SkipPruning \/ Restart \/ CarryOn
  BY <1>2 DEF GiveUp, ResolveStep, PruneCulprits, SkipPruning, Restart, CarryOn
<1>3. CASE DecideNext
  BY <1>3 DEF DecideNext, Solve, Choose, Absorb, Record, ForceBacktrack,
     RecordNoVersions, Decide
<1>4. CASE Terminated \/ UNCHANGED vars
  BY <1>4 DEF Terminated, vars
<1>5. QED BY <1>1, <1>2, <1>3, <1>4 DEF Next, HandleConflict

\* Every jump back lands on a level from 1 up where the learned clause has one open
\* term and none contradicted: the next round derives something new from it
\* (Resolver.solve, compute_backjump_target).
THEOREM JumpsAssert == Spec => BackjumpAsserts
<1>1. ASSUME IInv, TrailInv, [Next]_vars
      PROVE  phase = "conflict" /\ phase' = "backtrack" =>
               /\ level' >= 1
               /\ (Refuted(conflict.clause) = {} /\ Cardinality(Open(conflict.clause)) = 1)'
  <2>1. SUFFICES ASSUME phase = "conflict", phase' = "backtrack"
                 PROVE  /\ level' >= 1
                        /\ Refuted(conflict.clause)' = {}
                        /\ Cardinality(Open(conflict.clause)') = 1
    OBVIOUS
  <2>2. Backjump
    BY <1>1, <2>1, JumpsBack
  <2> DEFINE terms == Learned.terms
             u == Backtrack(trail, BackjumpTarget(terms))
             p == SatisfiedLast(terms)
  <2>3. /\ CutsTo(BackjumpTarget(terms)) /\ terms \in TermMap
        /\ Reached(trail, terms) /\ ~Terminal(terms) /\ CanBackjump(terms)
    BY <1>1, <2>2, BackjumpCuts
  <2>4. trail' = u /\ level' >= 1
    BY <2>3 DEF CutsTo
  <2>5. conflict'.clause = Learned
    <3>1. conflict' = [conflict EXCEPT !.clause = Learned]
      BY <2>2 DEF Backjump
    <3>2. conflict \in [clause : Clause, derived : BOOLEAN]
      BY <1>1 DEF IInv, TypeOK
    <3>3. QED BY <3>1, <3>2
  <2>6. /\ p \in DOMAIN terms
        /\ ~Satisfied(u, p, terms[p]) /\ ~Contradicted(u, p, terms[p])
        /\ \A q \in DOMAIN terms \ {p} : Satisfied(u, q, terms[q])
    BY <1>1, <2>3, JumpAsserts
  <2> HIDE DEF u, p
  <2>7. /\ Refuted(conflict.clause)' = {q \in DOMAIN terms : Contradicted(u, q, terms[q])}
        /\ Open(conflict.clause)' = {q \in DOMAIN terms : /\ ~Satisfied(u, q, terms[q])
                                                          /\ ~Contradicted(u, q, terms[q])}
    BY <2>4, <2>5 DEF Refuted, Open
  <2> HIDE DEF terms
  <2>8. \A q \in DOMAIN terms \ {p} : ~Contradicted(u, q, terms[q])
    BY <2>6 DEF Satisfied, Contradicted
  <2>9. Refuted(conflict.clause)' = {} /\ Open(conflict.clause)' = {p}
    BY <2>6, <2>7, <2>8
  <2>10. QED BY <2>4, <2>9, FS_Singleton
<1>2. QED BY <1>1, TrailInvariance, PTL DEF Spec, BackjumpAsserts

----------------------------------------------------------------------------
(* Resolution. *)

\* What a derivation alone leaves a package tells the disjunction of the term it
\* satisfies and the term it denies apart from nothing: union_terms answers None.
LEMMA DisjoinVoid ==
  ASSUME NEW a \in Assignment, NEW s \in Term, NEW t \in Term, SatisfiedAt(a, s),
         Allowed(a) = Outside(t), a.cum_positive # NoRange <=> ~t.positive
  PROVE  Tautology(Disjoin(s, t))
<1>1. s.constraint \subseteq Version /\ t.constraint \subseteq Version
  BY DEF Term, Ranges
<1>2. Satisfies(Outside(t), s) /\ (s.positive => ~t.positive)
  BY DEF SatisfiedAt
<1>3. CASE s.positive
  BY <1>2, <1>3 DEF Satisfies, Outside, Disjoin, Tautology, NotIn
<1>4. CASE ~s.positive /\ t.positive
  BY <1>1, <1>2, <1>4 DEF Satisfies, Outside, Disjoin, Tautology, NotIn
<1>5. CASE ~s.positive /\ ~t.positive
  BY <1>2, <1>5 DEF Satisfies, Outside, Disjoin, Tautology, NotIn
<1>6. QED BY <1>3, <1>4, <1>5

\* Where a derivation narrows an earlier entry, that entry satisfies the disjunction
\* of the term the derivation satisfies and the term it denies.
LEMMA DisjoinEarlier ==
  ASSUME NEW a \in Assignment, NEW b \in Assignment, NEW s \in Term, NEW t \in Term,
         SatisfiedAt(a, s), Allowed(a) = Allowed(b) \cap Outside(t),
         a.cum_positive # NoRange <=> (~t.positive \/ b.cum_positive # NoRange)
  PROVE  SatisfiedAt(b, Disjoin(s, t))
<1>1. s.constraint \subseteq Version /\ t.constraint \subseteq Version
      /\ Allowed(b) \subseteq Version
  BY AssignmentForm DEF Term, Ranges
<1>2. Satisfies(Allowed(b) \cap Outside(t), s)
      /\ (s.positive => ~t.positive \/ b.cum_positive # NoRange)
  BY DEF SatisfiedAt
<1> DEFINE left == Allowed(b)
<1>3. Satisfies(left \cap Outside(t), s) /\ left \subseteq Version
  BY <1>1, <1>2
<1> HIDE DEF left
<1>4. /\ Disjoin(s, t).positive => b.cum_positive # NoRange
      /\ Satisfies(left, Disjoin(s, t))
  <2>1. CASE s.positive /\ t.positive
    <3>1. left \subseteq s.constraint \cup t.constraint
      BY <1>3, <2>1 DEF Satisfies, Outside
    <3>2. QED BY <1>2, <2>1, <3>1 DEF Satisfies, Disjoin, In
  <2>2. CASE s.positive /\ ~t.positive
    <3>1. left \cap (t.constraint \ s.constraint) = {}
      BY <1>3, <2>2 DEF Satisfies, Outside
    <3>2. QED BY <2>2, <3>1 DEF Satisfies, Disjoin, NotIn
  <2>3. CASE ~s.positive /\ t.positive
    <3>1. left \cap (s.constraint \ t.constraint) = {}
      BY <1>3, <2>3 DEF Satisfies, Outside
    <3>2. QED BY <2>3, <3>1 DEF Satisfies, Disjoin, NotIn
  <2>4. CASE ~s.positive /\ ~t.positive
    <3>1. left \cap (s.constraint \cap t.constraint) = {}
      BY <1>3, <2>4 DEF Satisfies, Outside
    <3>2. QED BY <2>4, <3>1 DEF Satisfies, Disjoin, NotIn
  <2>5. QED BY <2>1, <2>2, <2>3, <2>4
<1>5. QED BY <1>4 DEF SatisfiedAt, left

\* Every term of a resolvent has a satisfier before the latest one of its parent.
LEMMA ResolventEarlier ==
  ASSUME WellFormed(trail), Implied(trail), NEW terms \in TermMap,
         Reached(trail, terms), DOMAIN terms # {},
         ~SatisfierEntry(terms).is_decision,
         NEW q \in DOMAIN ResolveWithCause(terms)
  PROVE  \E i \in Satisfiers(trail, q, ResolveWithCause(terms)[q]) :
           i < MostRecent(terms)
<1> DEFINE a == SatisfierEntry(terms)
           right == a.cause.terms
           shared == SatisfiedLast(terms)
           k == MostRecent(terms)
           r == ResolveWithCause(terms)
<1>1. /\ trail \in Seq(Assignment) /\ Narrow(trail) /\ Justified(trail)
      /\ \A i \in DOMAIN trail : i \in Nat /\ trail[i] \in Assignment
  BY TrailForm DEF WellFormed
<1>2. /\ k \in DOMAIN trail /\ k \in Nat /\ a = trail[k] /\ a \in Assignment
      /\ shared \in DOMAIN terms /\ a.package = shared /\ SatisfiedAt(a, terms[shared])
      /\ \A p \in DOMAIN terms : SatisfierIn(terms, p) <= k
  BY <1>1, MostRecentForm DEF SatisfiedLast
<1>3. /\ right \in TermMap
      /\ \A p \in DOMAIN terms : terms[p] \in Term
      /\ \A p \in DOMAIN right : right[p] \in Term
  BY <1>2, AssignmentForm, ClauseTerms, TermMapForm
<1>4. /\ r = PriorCause(terms, right, shared) /\ q \in SharedTerms(terms, right, shared)
      /\ q \in DOMAIN terms \cup DOMAIN right
  BY DEF ResolveWithCause, PriorCause, SharedTerms
<1>5. r[q] = IF q \notin DOMAIN right THEN terms[q]
             ELSE IF q \notin DOMAIN terms THEN right[q]
             ELSE IF q = shared THEN Disjoin(terms[q], right[q])
             ELSE Conjoin(terms[q], right[q])
  BY <1>4 DEF PriorCause
<1>6. ASSUME q # shared, q \in DOMAIN terms
      PROVE  \E i \in Satisfiers(trail, q, terms[q]) : i < k
  <2>1. /\ SatisfierIn(terms, q) \in Satisfiers(trail, q, terms[q])
        /\ SatisfierIn(terms, q) \in Nat /\ SatisfierIn(terms, q) <= k
        /\ trail[SatisfierIn(terms, q)].package = q
    BY <1>1, <1>2, <1>6, SatisfierForm DEF Satisfiers, Entries
  <2>2. SatisfierIn(terms, q) # k
    BY <1>2, <1>6, <2>1
  <2>3. QED BY <1>2, <2>1, <2>2
<1>7. ASSUME q # shared, q \in DOMAIN right
      PROVE  \E i \in Satisfiers(trail, q, right[q]) : i < k
  BY <1>1, <1>2, <1>7 DEF Justified, JustifiedAt
<1> HIDE DEF a, right, shared, k, r
<1>8. ASSUME q # shared, q \in DOMAIN terms, q \in DOMAIN right
      PROVE  \E i \in Satisfiers(trail, q, Conjoin(terms[q], right[q])) : i < k
  <2>1. PICK i \in Satisfiers(trail, q, terms[q]) : i < k
    BY <1>6, <1>8
  <2>2. PICK j \in Satisfiers(trail, q, right[q]) : j < k
    BY <1>7, <1>8
  <2> DEFINE m == IF i < j THEN j ELSE i
  <2>3. /\ i \in DOMAIN trail /\ j \in DOMAIN trail /\ i \in Nat /\ j \in Nat
        /\ trail[i].package = q /\ trail[j].package = q
        /\ SatisfiedAt(trail[i], terms[q]) /\ SatisfiedAt(trail[j], right[q])
    BY <1>1 DEF Satisfiers, Entries
  <2>4. m \in DOMAIN trail /\ trail[m].package = q /\ m < k
    BY <2>1, <2>2, <2>3
  <2>5. CASE i < j
    <3>1. SatisfiedAt(trail[j], terms[q])
      BY <1>1, <1>3, <1>8, <2>3, <2>5, SatisfiedLater DEF Narrow
    <3>2. SatisfiedAt(trail[m], Conjoin(terms[q], right[q]))
      BY <1>1, <1>3, <1>8, <2>3, <2>5, <3>1, ConjoinSatisfied
    <3>3. QED BY <2>4, <3>2 DEF Satisfiers, Entries
  <2>6. CASE ~(i < j)
    <3>1. j < i \/ j = i
      BY <2>3, <2>6
    <3>2. SatisfiedAt(trail[i], right[q])
      BY <1>1, <1>3, <1>8, <2>3, <3>1, SatisfiedLater DEF Narrow
    <3>3. SatisfiedAt(trail[m], Conjoin(terms[q], right[q]))
      BY <1>1, <1>3, <1>8, <2>3, <2>6, <3>2, ConjoinSatisfied
    <3>4. QED BY <2>4, <3>3 DEF Satisfiers, Entries
  <2>7. QED BY <2>5, <2>6
<1>9. ASSUME q = shared
      PROVE  /\ q \in DOMAIN right /\ q \in DOMAIN terms
             /\ \E i \in Satisfiers(trail, q, Disjoin(terms[q], right[q])) : i < k
  <2>1. ImpliedAt(trail, k) /\ ~trail[k].is_decision
    BY <1>2 DEF Implied, a
  <2>2. trail[k].package = q /\ trail[k].cause.terms = right
    BY <1>2, <1>9 DEF right
  <2>3. q \in DOMAIN right /\ q \in DOMAIN terms
    BY <1>2, <1>9, <2>1, <2>2 DEF ImpliedAt
  <2>4. ~Tautology(Disjoin(terms[q], right[q]))
    BY <1>4, <1>9, <2>3 DEF SharedTerms
  <2>5. terms[q] \in Term /\ right[q] \in Term
    BY <1>3, <2>3
  <2>6. trail[k] \in Assignment /\ SatisfiedAt(trail[k], terms[q])
    BY <1>2, <1>9
  <2>7. ~(/\ Allowed(trail[k]) = Outside(right[q])
          /\ trail[k].cum_positive # NoRange <=> ~right[q].positive)
    BY <2>4, <2>5, <2>6, DisjoinVoid
  <2>8. PICK m \in DOMAIN trail :
          /\ m < k /\ trail[m].package = q
          /\ Allowed(trail[k]) = Allowed(trail[m]) \cap Outside(right[q])
          /\ trail[k].cum_positive # NoRange
               <=> (~right[q].positive \/ trail[m].cum_positive # NoRange)
    BY <2>1, <2>2, <2>7 DEF ImpliedAt
  <2>9. SatisfiedAt(trail[m], Disjoin(terms[q], right[q]))
    BY <1>1, <2>5, <2>6, <2>8, DisjoinEarlier
  <2>10. QED BY <2>3, <2>8, <2>9 DEF Satisfiers, Entries
<1>10. CASE q = shared
  BY <1>5, <1>9, <1>10 DEF k, r
<1>11. CASE q # shared /\ q \notin DOMAIN right
  BY <1>4, <1>5, <1>6, <1>11 DEF k, r
<1>12. CASE q # shared /\ q \notin DOMAIN terms
  BY <1>4, <1>5, <1>7, <1>12 DEF k, r
<1>13. CASE q # shared /\ q \in DOMAIN terms /\ q \in DOMAIN right
  BY <1>5, <1>8, <1>13 DEF k, r
<1>14. QED BY <1>10, <1>11, <1>12, <1>13

\* Conflict resolution goes on by ResolveStep alone.
LEMMA ResolvesOn ==
  ASSUME [Next]_vars, phase = "conflict", phase' = "conflict"
  PROVE  ResolveStep \/ UNCHANGED vars
<1>1. CASE StartRound \/ ReachLimit \/ Propagate
  BY <1>1 DEF StartRound, ReachLimit, Propagate, Settle, PassOver, Derive,
     FindConflict, NextPackage, FinishPropagation, LookAt
<1>2. CASE GiveUp \/ Backjump \/ PruneCulprits \/ SkipPruning \/ Restart \/ CarryOn
  BY <1>2 DEF GiveUp, Backjump, PruneCulprits, SkipPruning, Restart, CarryOn
<1>3. CASE DecideNext
  BY <1>3 DEF DecideNext, Solve, Choose, Absorb, Record, ForceBacktrack,
     RecordNoVersions, Decide
<1>4. CASE Terminated
  BY <1>4 DEF Terminated
<1>5. QED BY <1>1, <1>2, <1>3, <1>4 DEF Next, HandleConflict

\* Every resolution step moves the latest satisfier down the trail, so the loop of
\* conflict_resolution ends (the comment at conflict.py:62), whatever terms drop out
\* or widen on the way.
THEOREM ResolutionDescends == Spec => ResolutionMovesBack
<1>1. ASSUME IInv, TrailInv, [Next]_vars
      PROVE  [phase = "conflict" /\ phase' = "conflict"
                /\ DOMAIN conflict'.clause.terms # {}
                => LastSatisfier' < LastSatisfier]_vars
  <2>1. SUFFICES ASSUME phase = "conflict", phase' = "conflict",
                        DOMAIN conflict'.clause.terms # {}, ~UNCHANGED vars
                 PROVE  LastSatisfier' < LastSatisfier
    OBVIOUS
  <2>2. ResolveStep
    BY <1>1, <2>1, ResolvesOn
  <2> DEFINE terms == conflict.clause.terms
             r == ResolveWithCause(terms)
  <2>3. /\ ~Terminal(terms) /\ ~CanBackjump(terms) /\ UNCHANGED trail
        /\ conflict'.clause = Derived(r)
    BY <2>2 DEF ResolveStep, solution
  <2>4. DOMAIN terms # {} /\ ~SatisfierEntry(terms).is_decision
    BY <2>3 DEF Terminal, CanBackjump
  <2>5. /\ WellFormed(trail) /\ trail \in Seq(Assignment) /\ Implied(trail)
        /\ Good(problem, conflict.clause) /\ Reached(trail, terms)
        /\ terms \in TermMap
        /\ \A i \in DOMAIN trail :
              trail[i].is_decision \/ Good(problem, trail[i].cause)
    BY <1>1, <2>1, ClauseTerms DEF IInv, TrailOK, ClausesGood, ConflictOK, TrailInv, Built,
       WellFormed, Good
  <2>6. /\ MostRecent(terms) \in DOMAIN trail /\ MostRecent(terms) \in Nat
        /\ SatisfierEntry(terms) = trail[MostRecent(terms)]
    BY <2>4, <2>5, MostRecentForm
  <2>7. Good(problem, SatisfierEntry(terms).cause)
    BY <2>4, <2>5, <2>6
  <2>8. r \in TermMap /\ Derived(r).terms = r /\ Reached(trail, r)
    BY <2>4, <2>5, <2>7, ResolventOK
  <2>9. conflict'.clause.terms = r /\ DOMAIN r # {}
    BY <2>1, <2>3, <2>8
  <2>10. LastSatisfier' = MostRecent(r)
    BY <2>3, <2>9 DEF LastSatisfier, MostRecent, SatisfierIndices, SatisfierIn
  <2> DEFINE q == SatisfiedLast(r)
  <2>11. q \in DOMAIN r /\ MostRecent(r) = SatisfierIn(r, q) /\ MostRecent(r) \in Nat
    BY <2>5, <2>8, <2>9, MostRecentForm
  <2>12. PICK i \in Satisfiers(trail, q, r[q]) : i < MostRecent(terms)
    BY <2>4, <2>5, <2>11, ResolventEarlier
  <2>13. MostRecent(r) <= i
    BY <2>5, <2>8, <2>11, SatisfierForm
  <2>14. i \in Nat
    BY <2>5, EntriesForm DEF Satisfiers
  <2>15. QED BY <2>6, <2>10, <2>11, <2>12, <2>13, <2>14 DEF LastSatisfier
<1>2. QED BY <1>1, TrailInvariance, PTL DEF Spec, ResolutionMovesBack

----------------------------------------------------------------------------
(* What the formula keeps of the decisions taken. *)

CursorOK == phase # "propagate" => cursor = 0

\* What is still to be added: a provider's clauses are about the package being
\* decided, those of a decision state what the latest one requires.
BacklogOK ==
  /\ phase = "absorb" =>
       /\ choice.version # Absent =>
            choice.version \in Selectable(problem, choice.package)
       /\ \A c \in backlog :
            /\ choice.package \in DOMAIN c.terms
            /\ \/ c.cause = "NO_VERSIONS"
               \/ c.cause = "DEPENDENCY" /\ c.parent = choice.package
  /\ phase = "record" =>
       /\ changed \in Package
       /\ \A c \in backlog : c.cause = "DEPENDENCY" /\ c.parent = changed
       /\ \E k \in DOMAIN trail : /\ trail[k].is_decision /\ trail[k].package = changed
                                  /\ trail[k].decision_level = level
  /\ phase = "conflict" /\ conflict.derived => conflict.clause.cause = "DERIVED"

\* Every root requirement keeps its place, and every clause names a package.
RootsKept ==
  \A i \in DOMAIN problem.root :
    i \in DOMAIN formula /\ formula[i].clause = RootClause(problem.root[i])

NamesPackage(c) == DOMAIN c.terms \cap Package # {}
Named == \A i \in DOMAIN formula : NamesPackage(formula[i].clause)

\* A clause that states one requirement of one version, the last case that of a
\* version that rules itself out.
States(prob, c, p, v, d) ==
  /\ c.cause = "DEPENDENCY" /\ c.parent = p /\ DOMAIN c.terms = {p, d}
  /\ v \in ParentRange(c)
  /\ d # p => c.terms[d] = NotIn(prob.deps[p][v][d])

Demands(prob, p, v) ==
  {d \in Requires(prob, p, v) : d # p \/ v \notin prob.deps[p][v][d]}

\* What a recorded version requires is in the formula, or about to be.
RecordedKnown ==
  \A p \in Package : \A v \in Version : recorded[p][v] # NoRange =>
    \A d \in Demands(problem, p, v) :
      \/ \E i \in DOMAIN formula : States(problem, formula[i].clause, p, v, d)
      \/ phase = "record" /\ \E c \in backlog : States(problem, c, p, v, d)

DecidedRecorded ==
  \A k \in DOMAIN trail : \A v \in Version :
    trail[k].is_decision /\ trail[k].package # ROOT /\ trail[k].cum_positive = {v} =>
      LET p == trail[k].package IN
      /\ v \in Selectable(problem, p)
      /\ Requires(problem, p, v) = {} \/ recorded[p][v] # NoRange

\* A clause by which one package asks for another, or rules itself out.
Asks(c) ==
  /\ c.cause \in {"ROOT", "DEPENDENCY"}
  /\ c.parent \in DOMAIN c.terms /\ c.terms[c.parent].positive
  /\ \E q \in DOMAIN c.terms : DOMAIN c.terms = {c.parent, q}
  /\ \A q \in DOMAIN c.terms \ {c.parent} : ~c.terms[q].positive

Answered(u, c) ==
  \E q \in DOMAIN c.terms \ {c.parent} : Contradicted(u, q, c.terms[q])

\* The decision of the package that asks.
Holds(k, c) ==
  /\ trail[k].is_decision /\ trail[k].package = c.parent
  /\ Allowed(trail[k]) \subseteq ParentRange(c)

\* Propagation has yet to look at the clause for the package.
Awaits(p, i) ==
  changed = p /\ (phase \in {"round", "record"} \/ (phase = "propagate" /\ i > cursor))

\* What a decision asks for is derived on its own level, before the next decision.
FollowedBy(i, k) ==
  LET c == formula[i].clause
      l == trail[k].decision_level
  IN
  Asks(c) /\ Holds(k, c) =>
    \/ Answered(Backtrack(trail, l), c)
    \/ /\ l = level
       /\ \/ phase \in {"conflict", "failed", "limit"}
          \/ \E j \in DOMAIN trail : Emptied(trail[j])
          \/ Awaits(c.parent, i)

Followed == \A i \in DOMAIN formula : \A k \in DOMAIN trail : FollowedBy(i, k)

\* A clause that the decisions alone violate is violated by the latest of them, and
\* met before the next.
AllDecided(u, c) == \A p \in DOMAIN c.terms : Decided(u, p)

Latest(p) ==
  \E k \in DOMAIN trail : /\ trail[k].is_decision /\ trail[k].package = p
                          /\ trail[k].decision_level = level

ViolationAwaited ==
  \A i \in DOMAIN formula :
    LET c == formula[i].clause IN
    AllDecided(trail, c) /\ Violates(trail, c) =>
      /\ \E p \in DOMAIN c.terms : Latest(p)
      /\ \/ phase \in {"conflict", "failed", "limit"}
         \/ \E p \in DOMAIN c.terms : Awaits(p, i)

NoneLeft == phase = "solved" => Undecided(trail) = {}

FormulaInv == RootsKept /\ Named /\ RecordedKnown /\ DecidedRecorded
SearchInv == /\ CursorOK /\ BacklogOK /\ NoneLeft /\ FormulaInv
             /\ Followed /\ ViolationAwaited

----------------------------------------------------------------------------
(* What adding a clause does to the formula. *)

\* The same statement, about more versions of the parent at most.
Grows(d, e) ==
  \/ e = d
  \/ /\ d.cause = "DEPENDENCY" /\ e.cause = d.cause /\ e.parent = d.parent
     /\ DOMAIN e.terms = DOMAIN d.terms
     /\ \A q \in DOMAIN d.terms \ {d.parent} : e.terms[q] = d.terms[q]
     /\ ParentRange(d) \subseteq ParentRange(e)

\* A clause that took another one in, or is it.
Holding(e, c) ==
  \/ e = c
  \/ /\ c.cause = "DEPENDENCY" /\ e.cause = c.cause /\ e.parent = c.parent
     /\ DOMAIN e.terms = DOMAIN c.terms

\* What a merge keeps and what it widens.
LEMMA MergedForm ==
  ASSUME NEW prob, NEW c, Good(prob, c), NEW d, Good(prob, d), SameKey(c, d)
  PROVE  Grows(c, Merged(c, d)) /\ Grows(d, Merged(c, d))
<1> DEFINE m == Merged(c, d)
           p == c.parent
           range == ParentRange(c) \cup ParentRange(d)
<1>1. /\ c \in Clause /\ d \in Clause /\ d.parent = p
      /\ c.cause = "DEPENDENCY" /\ d.cause = "DEPENDENCY"
      /\ p \in DOMAIN c.terms /\ DOMAIN c.terms = DOMAIN d.terms
      /\ \A q \in DOMAIN c.terms \ {p} : c.terms[q] = d.terms[q]
  BY DEF SameKey, Mergeable, Good, Shape
<1>2. /\ DOMAIN m.terms = DOMAIN c.terms /\ m.terms[p] = In(range)
      /\ \A q \in DOMAIN c.terms \ {p} : m.terms[q] = c.terms[q]
      /\ m.cause = c.cause /\ m.parent = p
  BY <1>1 DEF Merged, Clause
<1>3. ParentRange(m) = range
  BY <1>2 DEF ParentRange, In
<1> HIDE DEF m
<1>4. QED BY <1>1, <1>2, <1>3 DEF Grows, m

\* Adding a clause changes no other entry than one that takes it in, and leaves a
\* clause that states it.
LEMMA AddedForm ==
  ASSUME NEW prob, NEW f \in Seq(FormulaEntry), NEW c, Good(prob, c),
         \A i \in DOMAIN f : Good(prob, f[i].clause)
  PROVE  LET g == Add(f, c) IN
         /\ \A i \in DOMAIN f : i \in DOMAIN g /\ Grows(f[i].clause, g[i].clause)
         /\ \A i \in DOMAIN g : \/ i \in DOMAIN f /\ g[i].clause = f[i].clause
                                \/ Holding(g[i].clause, c)
         /\ \E i \in DOMAIN g : Grows(c, g[i].clause)
<1> DEFINE g == Add(f, c)
<1>1. c \in Clause /\ \A i \in DOMAIN f : f[i] \in FormulaEntry
  <2>1. c \in Clause
    BY DEF Good
  <2>2. QED BY <2>1
<1>2. CASE \E i \in DOMAIN f : SameKey(f[i].clause, c)
  <2> DEFINE new(i) == SameKey(f[i].clause, c)
                       /\ ~(ParentRange(c) \subseteq ParentRange(f[i].clause))
  <2>1. g = [i \in DOMAIN f |->
               IF new(i) THEN Fresh(Merged(f[i].clause, c)) ELSE f[i]]
    BY <1>2 DEF Add
  <2> HIDE DEF g
  <2>2. DOMAIN g = DOMAIN f
    BY <2>1
  <2>3. \A i \in DOMAIN f : g[i].clause = IF new(i) THEN Merged(f[i].clause, c)
                                                    ELSE f[i].clause
    BY <2>1 DEF Fresh
  <2>4. ASSUME NEW i \in DOMAIN f
        PROVE  /\ Grows(f[i].clause, g[i].clause)
               /\ g[i].clause = f[i].clause \/ Holding(g[i].clause, c)
    <3>1. CASE new(i)
      <4>1. g[i].clause = Merged(f[i].clause, c)
        BY <2>3, <3>1
      <4>2. Grows(f[i].clause, g[i].clause) /\ Grows(c, g[i].clause)
        BY <3>1, <4>1, MergedForm
      <4>3. QED BY <4>2 DEF Grows, Holding
    <3>2. CASE ~new(i)
      BY <2>3, <3>2 DEF Grows
    <3>3. QED BY <3>1, <3>2
  <2>5. PICK k \in DOMAIN f : SameKey(f[k].clause, c)
    BY <1>2
  <2>6. Grows(c, g[k].clause)
    <3>1. CASE new(k)
      <4>1. g[k].clause = Merged(f[k].clause, c)
        BY <2>3, <3>1
      <4>2. QED BY <2>5, <4>1, MergedForm
    <3>2. CASE ~new(k)
      <4>1. g[k].clause = f[k].clause /\ ParentRange(c) \subseteq ParentRange(f[k].clause)
        BY <2>3, <2>5, <3>2
      <4>2. QED BY <2>5, <4>1 DEF Grows, SameKey, Mergeable
    <3>3. QED BY <3>1, <3>2
  <2>7. QED BY <2>2, <2>4, <2>6 DEF g
<1>3. CASE ~\E i \in DOMAIN f : SameKey(f[i].clause, c)
  <2>1. g = Append(f, Fresh(c)) /\ Fresh(c) \in FormulaEntry /\ Fresh(c).clause = c
    BY <1>1, <1>3, FreshForm DEF Add
  <2>2. /\ DOMAIN f = 1..Len(f) /\ Len(f) \in Nat /\ DOMAIN g = 1..(Len(f) + 1)
        /\ \A i \in DOMAIN f : g[i] = f[i]
        /\ g[Len(f) + 1] = Fresh(c)
    BY <2>1, AppendProperties
  <2> HIDE DEF g
  <2>3. \A i \in DOMAIN g : i \in DOMAIN f \/ i = Len(f) + 1
    BY <2>2
  <2>4. Len(f) + 1 \in DOMAIN g /\ \A i \in DOMAIN f : i \in DOMAIN g
    BY <2>2
  <2>5. QED BY <2>1, <2>2, <2>3, <2>4 DEF Grows, Holding, g
<1>4. QED BY <1>2, <1>3

\* A clause that no dependency clause can take in is added as it is.
LEMMA AddedWhole ==
  ASSUME NEW e, NEW c, Holding(e, c), c.cause # "DEPENDENCY"
  PROVE  e = c
BY DEF Holding

----------------------------------------------------------------------------
(* Where each phase is entered from. *)

LEMMA PhaseMoves ==
  ASSUME [Next]_vars
  PROVE  /\ phase' = "absorb" => \/ \E p \in Package : Choose(p)
                                 \/ \E c \in backlog : Absorb(c)
                                 \/ UNCHANGED vars
         /\ phase' = "record" => \/ Decide
                                 \/ \E c \in backlog : Record(c)
                                 \/ UNCHANGED vars
         /\ phase' = "conflict" => \/ \E i \in DOMAIN formula : FindConflict(i)
                                   \/ ResolveStep \/ UNCHANGED vars
         /\ phase' = "propagate" => \/ StartRound \/ NextPackage \/ UNCHANGED vars
                                    \/ \E i \in DOMAIN formula :
                                         Settle(i) \/ PassOver(i) \/ Derive(i)
         /\ phase' = "solved" => Solve \/ UNCHANGED vars
         /\ phase' = "failed" => GiveUp \/ UNCHANGED vars
         /\ phase' = "limit" => ReachLimit \/ UNCHANGED vars
<1>1. CASE StartRound \/ ReachLimit
  BY <1>1 DEF StartRound, ReachLimit
<1>2. CASE Propagate
  <2>1. ASSUME NEW i \in DOMAIN formula, Settle(i) \/ PassOver(i) \/ Derive(i)
        PROVE  phase' = "propagate"
    BY <2>1 DEF Settle, PassOver, Derive, LookAt
  <2>2. ASSUME NEW i \in DOMAIN formula, FindConflict(i)
        PROVE  phase' = "conflict"
    BY <2>2 DEF FindConflict
  <2>3. CASE NextPackage
    BY <2>3 DEF NextPackage
  <2>4. CASE FinishPropagation
    BY <2>4 DEF FinishPropagation
  <2>5. QED BY <1>2, <2>1, <2>2, <2>3, <2>4 DEF Propagate
<1>3. CASE HandleConflict
  BY <1>3 DEF HandleConflict, GiveUp, ResolveStep, Backjump, PruneCulprits,
     SkipPruning, Restart, CarryOn
<1>4. CASE Solve \/ ForceBacktrack \/ RecordNoVersions
  BY <1>4 DEF Solve, ForceBacktrack, RecordNoVersions
<1>5. CASE \E p \in Package : Choose(p)
  BY <1>5 DEF Choose
<1>6. CASE \E c \in backlog : Absorb(c)
  BY <1>6 DEF Absorb
<1>7. CASE \E c \in backlog : Record(c)
  BY <1>7 DEF Record
<1>8. CASE Decide
  BY <1>8 DEF Decide
<1>9. CASE Terminated \/ UNCHANGED vars
  BY <1>9 DEF Terminated
<1>10. QED BY <1>1, <1>2, <1>3, <1>4, <1>5, <1>6, <1>7, <1>8, <1>9 DEF Next, DecideNext

\* A scan's clauses are about the package scanned.
LEMMA RejectionForm ==
  ASSUME NEW prob, NEW p, NEW blame, NEW c \in RejectionClauses(prob, p, blame)
  PROVE  /\ p \in DOMAIN c.terms
         /\ c.cause = "NO_VERSIONS" \/ (c.cause = "DEPENDENCY" /\ c.parent = p)
<1>1. CASE \E vs : c = RootRejection(prob, p, vs)
  <2>1. PICK vs : c = RootRejection(prob, p, vs)
    BY <1>1
  <2>2. c.terms = [q \in {p} |-> In(CandidateUnion(prob, p, vs))] /\ c.cause = "NO_VERSIONS"
    BY <2>1 DEF RootRejection, NoVersionsClause
  <2>3. QED BY <2>2
<1>2. CASE \E vs, d : c = BlockRejection(prob, p, vs, d)
  <2>1. PICK vs, d : c = BlockRejection(prob, p, vs, d)
    BY <1>2
  <2>2. /\ DOMAIN c.terms = {p, d}
        /\ c.cause = "DEPENDENCY" /\ c.parent = p
    BY <2>1 DEF BlockRejection
  <2>3. QED BY <2>2
<1>3. CASE \E vs, v : c = SelfRejection(prob, p, vs, v)
  <2>1. PICK vs, v : c = SelfRejection(prob, p, vs, v)
    BY <1>3
  <2>2. \E range : c = SelfClause(p, range)
    BY <2>1 DEF SelfRejection
  <2>3. DOMAIN c.terms = {p} /\ c.cause = "DEPENDENCY" /\ c.parent = p
    BY <2>2 DEF SelfClause
  <2>4. QED BY <2>3
<1>4. QED BY <1>1, <1>2, <1>3 DEF RejectionClauses

\* A provider offers a version that can be selected, beside clauses of the package.
LEMMA AnswersForm ==
  ASSUME NEW prob, NEW u, NEW p, Effective(u, p) \in Ranges,
         Effective(u, p) # {}, NEW answer \in Answers(prob, u, p)
  PROVE  /\ answer.version # Absent => answer.version \in Selectable(prob, p)
         /\ \A c \in answer.pending :
              /\ p \in DOMAIN c.terms
              /\ c.cause = "NO_VERSIONS" \/ (c.cause = "DEPENDENCY" /\ c.parent = p)
<1>1. Candidates(prob, u, p) \subseteq Selectable(prob, p)
  BY CandidatesForm DEF Selectable
<1>2. CASE answer \in ScanAnswers(prob, u, p)
  <2> DEFINE given(v, f) == [version |-> v, pending |-> RejectionClauses(prob, p, f),
                            targets |-> {}]
  <2>1. \E v \in Candidates(prob, u, p) \cup {Absent} : \E f : answer = given(v, f)
    <3> HIDE DEF given
    <3>1. ScanAnswers(prob, u, p) \subseteq
            {given(v, f) : v \in Candidates(prob, u, p) \cup {Absent},
                           f \in UNION {Blames(prob, u, p, vs)
                                          : vs \in SUBSET Candidates(prob, u, p)}}
      BY DEF ScanAnswers, given
    <3>2. QED BY <1>2, <3>1
  <2>2. QED BY <1>1, <2>1, RejectionForm
<1>3. CASE answer \in AbortAnswers(prob, u, p)
  <2>1. PICK v \in Candidates(prob, u, p) :
          \E T : answer = [version |-> v, pending |-> {}, targets |-> T]
    <3>1. PICK d : answer \in Aborted(prob, u, p, d)
      BY <1>3 DEF AbortAnswers
    <3>2. BlockedBy(prob, u, p, d) \subseteq Candidates(prob, u, p)
      BY DEF BlockedBy
    <3>3. QED BY <3>1, <3>2 DEF Aborted
  <2>2. QED BY <1>1, <2>1
<1>4. CASE answer = Plain(Absent)
  BY <1>4 DEF Plain
<1>5. CASE \E v \in Candidates(prob, u, p) : answer = Plain(v)
  BY <1>1, <1>5 DEF Plain
<1>6. QED BY <1>2, <1>3, <1>4, <1>5 DEF Answers

\* The clauses of a decision are about its package.
LEMMA DependencyClausesForm ==
  ASSUME NEW prob, NEW p, NEW v, NEW W, NEW c \in DependencyClauses(prob, p, v, W)
  PROVE  c.cause = "DEPENDENCY" /\ c.parent = p
<1>1. \/ \E d, range : c = DependencyClause(p, W, d, range)
      \/ \E range : c = SelfClause(p, range)
  BY DEF DependencyClauses
<1>2. ASSUME NEW d, NEW range, c = DependencyClause(p, W, d, range)
      PROVE  c.cause = "DEPENDENCY" /\ c.parent = p
  BY <1>2 DEF DependencyClause
<1>3. ASSUME NEW range, c = SelfClause(p, range)
      PROVE  c.cause = "DEPENDENCY" /\ c.parent = p
  BY <1>3 DEF SelfClause
<1>4. QED BY <1>1, <1>2, <1>3

\* Outside propagation no clause has been looked at.
LEMMA NextCursor ==
  ASSUME CursorOK, [Next]_vars PROVE CursorOK'
<1>1. CASE StartRound \/ ReachLimit
  BY <1>1 DEF StartRound, ReachLimit, CursorOK, propagation
<1>2. CASE Propagate
  BY <1>2 DEF Propagate, Settle, PassOver, Derive, FindConflict, NextPackage,
     FinishPropagation, LookAt, CursorOK
<1>3. CASE HandleConflict
  BY <1>3 DEF HandleConflict, GiveUp, ResolveStep, Backjump, PruneCulprits,
     SkipPruning, Restart, CarryOn, CursorOK, propagation
<1>4. CASE DecideNext
  BY <1>4 DEF DecideNext, Solve, Choose, Absorb, Record, ForceBacktrack,
     RecordNoVersions, Decide, CursorOK, propagation
<1>5. CASE Terminated \/ UNCHANGED vars
  BY <1>5 DEF Terminated, vars, propagation, CursorOK
<1>6. QED BY <1>1, <1>2, <1>3, <1>4, <1>5 DEF Next

\* Each step leaves to be added what the decision at hand calls for.
LEMMA NextBacklog ==
  ASSUME IInv, TrailInv, BacklogOK, [Next]_vars PROVE BacklogOK'
<1>1. ASSUME phase' = "absorb"
      PROVE  /\ choice'.version # Absent =>
                  choice'.version \in Selectable(problem', choice'.package)
             /\ \A c \in backlog' :
                  /\ choice'.package \in DOMAIN c.terms
                  /\ \/ c.cause = "NO_VERSIONS"
                     \/ c.cause = "DEPENDENCY" /\ c.parent = choice'.package
  <2>1. CASE \E p \in Package : Choose(p)
    <3>1. PICK p \in Package : Choose(p)
      BY <2>1
    <3>2. /\ phase = "decide" /\ p \in Undecided(trail) /\ UNCHANGED problem
          /\ \E answer \in Answers(problem, trail, p) :
               /\ choice' = [package |-> p, version |-> answer.version,
                             pending |-> answer.pending # {}, targets |-> answer.targets]
               /\ backlog' = answer.pending
      BY <3>1 DEF Choose
    <3>3. Effective(trail, p) \in Ranges /\ Effective(trail, p) # {}
      BY <3>2, VersionsLeft DEF Undecided
    <3>4. QED BY <3>2, <3>3, AnswersForm
  <2>2. CASE \E c \in backlog : Absorb(c)
    BY <2>2 DEF Absorb, BacklogOK
  <2>3. CASE UNCHANGED vars
    BY <1>1, <2>3 DEF vars, decision, BacklogOK
  <2>4. QED BY <1>1, <2>1, <2>2, <2>3, PhaseMoves
<1>2. ASSUME phase' = "record"
      PROVE  /\ changed' \in Package
             /\ \A c \in backlog' : c.cause = "DEPENDENCY" /\ c.parent = changed'
             /\ \E k \in DOMAIN trail' :
                  /\ trail'[k].is_decision /\ trail'[k].package = changed'
                  /\ trail'[k].decision_level = level'
  <2>1. CASE Decide
    <3> DEFINE p == choice.package
               a == Decision(trail, level + 1, p, choice.version)
    <3>1. /\ trail' = Append(trail, a) /\ level' = level + 1 /\ changed' = p
      BY <2>1 DEF Decide
    <3>0. \A c \in backlog' : \E W : c \in DependencyClauses(problem, p, choice.version, W)
      <4>1. CASE Requires(problem, p, choice.version) = {}
        BY <2>1, <4>1 DEF Decide
      <4>2. CASE Requires(problem, p, choice.version) # {}
        <5>1. PICK W : backlog' = Unrecorded(p, choice.version, W)
          BY <2>1, <4>2 DEF Decide
        <5>2. QED BY <5>1 DEF Unrecorded
      <4>3. QED BY <4>1, <4>2
    <3>2. /\ a \in Assignment /\ a.package = p /\ a.decision_level = level + 1
          /\ a.is_decision /\ WellFormed(trail) /\ p \in Package
      BY <2>1, DecideForm DEF IInv, TrailOK
    <3>3. Len(trail) + 1 \in DOMAIN trail' /\ trail'[Len(trail) + 1] = a
      BY <3>1, <3>2, TrailForm, LongerForm
    <3>4. \A c \in backlog' : c.cause = "DEPENDENCY" /\ c.parent = p
      BY <3>0, DependencyClausesForm
    <3>5. QED BY <3>1, <3>2, <3>3, <3>4
  <2>2. CASE \E c \in backlog : Record(c)
    BY <2>2 DEF Record, BacklogOK, solution, propagation
  <2>3. CASE UNCHANGED vars
    BY <1>2, <2>3 DEF vars, decision, solution, propagation, BacklogOK
  <2>4. QED BY <1>2, <2>1, <2>2, <2>3, PhaseMoves
<1>3. ASSUME phase' = "conflict", conflict'.derived
      PROVE  conflict'.clause.cause = "DERIVED"
  <2>1. CASE \E i \in DOMAIN formula : FindConflict(i)
    BY <1>3, <2>1 DEF FindConflict
  <2>2. CASE ResolveStep
    BY <2>2 DEF ResolveStep, Derived
  <2>3. CASE UNCHANGED vars
    BY <1>3, <2>3 DEF vars, BacklogOK
  <2>4. QED BY <1>3, <2>1, <2>2, <2>3, PhaseMoves
<1>4. QED BY <1>1, <1>2, <1>3 DEF BacklogOK

----------------------------------------------------------------------------
(* What a step does to the formula. *)

SameFormula ==
  /\ DOMAIN formula' = DOMAIN formula
  /\ \A i \in DOMAIN formula : formula'[i].clause = formula[i].clause

Gives(c) ==
  Good(problem, c) /\ NamesPackage(c) /\ formula' = Add(formula, c)

\* A clause learned at a jump back.
Learns(c) == Backjump /\ c = Learned /\ c.cause = "DERIVED"

\* A clause about the package being decided.
Offers(c) ==
  /\ phase = "absorb" /\ UNCHANGED <<trail, level>>
  /\ choice.package \in Package \cap DOMAIN c.terms
  /\ \/ c.cause \in {"NO_VERSIONS", "CONSTRAINT"}
     \/ c.cause = "DEPENDENCY" /\ c.parent = choice.package

\* A dependency clause names a package, its parent.
LEMMA ParentNamed ==
  ASSUME NEW prob, NEW c, Good(prob, c), NEW p \in DOMAIN c.terms, p \in Package
  PROVE  NamesPackage(c)
BY DEF NamesPackage

\* A jump back adds the clause it learned, if resolution made it.
LEMMA BackjumpGives ==
  ASSUME IInv, BacklogOK, Backjump
  PROVE  SameFormula \/ \E c : Gives(c) /\ Learns(c)
<1>1. /\ Good(problem, Learned) /\ Learned.terms \in TermMap /\ ~Terminal(Learned.terms)
      /\ formula' = Keep(Learned) /\ phase = "conflict"
  BY BackjumpCuts DEF Backjump
<1>2. NamesPackage(Learned)
  BY <1>1, TermMapForm DEF NamesPackage, Terminal, Node
<1>3. CASE conflict.derived \/ Learned # conflict.clause
  <2>1. Learned.cause = "DERIVED"
    <3>1. CASE Forceable(conflict.clause.terms)
      BY <3>1 DEF Learned, Derived
    <3>2. CASE ~Forceable(conflict.clause.terms)
      <4>1. Learned = conflict.clause
        BY <3>2 DEF Learned
      <4>2. conflict.derived
        BY <1>3, <4>1
      <4>3. QED BY <1>1, <4>1, <4>2 DEF BacklogOK
    <3>3. QED BY <3>1, <3>2
  <2>2. QED BY <1>1, <1>2, <1>3, <2>1 DEF Keep, Gives, Learns
<1>4. CASE ~(conflict.derived \/ Learned # conflict.clause)
  BY <1>1, <1>4 DEF Keep, SameFormula
<1>5. QED BY <1>3, <1>4

\* A step leaves every clause as it is or adds one: a learned clause, one about the
\* package being decided, or one the last decision calls for.
LEMMA FormulaMoves ==
  ASSUME IInv, TrailInv, BacklogOK, [Next]_vars
  PROVE  \/ SameFormula
         \/ \E c : Gives(c) /\ (Learns(c) \/ Offers(c))
         \/ \E c \in backlog : Gives(c) /\ Record(c)
<1>1. CASE StartRound \/ ReachLimit
  BY <1>1 DEF StartRound, ReachLimit, SameFormula
<1>2. CASE Propagate
  <2>1. CASE \E i \in DOMAIN formula : Settle(i)
    <3>1. PICK i \in DOMAIN formula : Settle(i)
      BY <2>1
    <3>2. formula' = [formula EXCEPT ![i].contradicted_at = epoch]
      BY <3>1 DEF Settle
    <3>3. formula \in Seq(FormulaEntry)
      BY DEF IInv, TypeOK, FormulaEntry
    <3>4. formula[i] \in FormulaEntry
      BY <3>3
    <3>5. QED BY <3>2, <3>4 DEF SameFormula, FormulaEntry
  <2>2. CASE ~\E i \in DOMAIN formula : Settle(i)
    BY <1>2, <2>2 DEF Propagate, PassOver, Derive, FindConflict, NextPackage,
       FinishPropagation, SameFormula
  <2>3. QED BY <2>1, <2>2
<1>3. CASE HandleConflict
  <2>1. CASE Backjump
    BY <2>1, BackjumpGives
  <2>2. CASE ~Backjump
    BY <1>3, <2>2 DEF HandleConflict, GiveUp, ResolveStep, PruneCulprits,
       SkipPruning, Restart, CarryOn, SameFormula
  <2>3. QED BY <2>1, <2>2
<1>4. CASE Solve \/ ForceBacktrack \/ Decide \/ \E p \in Package : Choose(p)
  BY <1>4 DEF Solve, ForceBacktrack, Decide, Choose, SameFormula
<1>5. CASE RecordNoVersions
  <2>1. CASE choice.pending
    BY <1>5, <2>1 DEF RecordNoVersions, SameFormula
  <2>2. CASE ~choice.pending
    <3>1. PICK c : /\ Good(problem, c) /\ formula' = Add(formula, c)
                   /\ choice.package \in Package /\ DOMAIN c.terms = {choice.package}
                   /\ c.cause \in {"NO_VERSIONS", "CONSTRAINT"}
      BY <1>5, <2>2, NoVersionsRecorded
    <3>2. phase = "absorb" /\ UNCHANGED <<trail, level>>
      BY <1>5 DEF RecordNoVersions, solution
    <3>3. NamesPackage(c)
      BY <3>1, ParentNamed
    <3>4. QED BY <3>1, <3>2, <3>3 DEF Gives, Offers
  <2>3. QED BY <2>1, <2>2
<1>6. ASSUME NEW c \in backlog, Absorb(c)
      PROVE  Gives(c) /\ Offers(c)
  <2>1. /\ phase = "absorb" /\ UNCHANGED <<trail, level>> /\ Good(problem, c)
        /\ formula' = Add(formula, c)
    BY <1>6 DEF Absorb, solution, IInv, ClausesGood
  <2>2. /\ choice.package \in DOMAIN c.terms
        /\ c.cause = "NO_VERSIONS" \/ (c.cause = "DEPENDENCY" /\ c.parent = choice.package)
    BY <2>1 DEF BacklogOK
  <2>3. choice.package \in Package
    BY <2>1 DEF IInv, ChoiceOK
  <2>4. NamesPackage(c)
    BY <2>1, <2>2, <2>3, ParentNamed
  <2>5. QED BY <2>1, <2>2, <2>3, <2>4 DEF Gives, Offers
<1>7. ASSUME NEW c \in backlog, Record(c)
      PROVE  Gives(c)
  <2>1. /\ phase = "record" /\ Good(problem, c) /\ formula' = Add(formula, c)
    BY <1>7 DEF Record, IInv, ClausesGood
  <2>2. c.cause = "DEPENDENCY" /\ c.parent \in Package
    BY <2>1 DEF BacklogOK
  <2>3. c.parent \in DOMAIN c.terms
    BY <2>1, <2>2 DEF Good, Shape
  <2>4. NamesPackage(c)
    BY <2>1, <2>2, <2>3, ParentNamed
  <2>5. QED BY <2>1, <2>4 DEF Gives
<1>8. CASE Terminated \/ UNCHANGED vars
  BY <1>8 DEF Terminated, vars, SameFormula
<1>9. QED BY <1>1, <1>2, <1>3, <1>4, <1>5, <1>6, <1>7, <1>8 DEF Next, DecideNext

\* The problem being resolved never changes.
LEMMA ProblemFixed == ASSUME [Next]_vars PROVE problem' = problem
<1>1. CASE StartRound \/ ReachLimit
  BY <1>1 DEF StartRound, ReachLimit
<1>2. CASE Propagate
  BY <1>2 DEF Propagate, Settle, PassOver, Derive, FindConflict, NextPackage,
     FinishPropagation
<1>3. CASE HandleConflict
  BY <1>3 DEF HandleConflict, GiveUp, ResolveStep, Backjump, PruneCulprits,
     SkipPruning, Restart, CarryOn
<1>4. CASE DecideNext
  BY <1>4 DEF DecideNext, Solve, Choose, Absorb, Record, ForceBacktrack,
     RecordNoVersions, Decide
<1>5. CASE Terminated \/ UNCHANGED vars
  BY <1>5 DEF Terminated, vars
<1>6. QED BY <1>1, <1>2, <1>3, <1>4, <1>5 DEF Next

\* Only a decision records requirements.
LEMMA RecordedMoves == ASSUME [Next]_vars PROVE recorded' = recorded \/ Decide
<1>1. CASE StartRound \/ ReachLimit
  BY <1>1 DEF StartRound, ReachLimit, decision
<1>2. CASE Propagate
  BY <1>2 DEF Propagate, Settle, PassOver, Derive, FindConflict, NextPackage,
     FinishPropagation, decision
<1>3. CASE HandleConflict
  BY <1>3 DEF HandleConflict, GiveUp, ResolveStep, Backjump, PruneCulprits,
     SkipPruning, Restart, CarryOn, decision
<1>4. CASE DecideNext
  BY <1>4 DEF DecideNext, Solve, Choose, Absorb, Record, ForceBacktrack,
     RecordNoVersions, decision
<1>5. CASE Terminated \/ UNCHANGED vars
  BY <1>5 DEF Terminated, vars, decision
<1>6. QED BY <1>1, <1>2, <1>3, <1>4, <1>5 DEF Next

\* While a decision's clauses are being recorded nothing else happens.
LEMMA RecordsOn ==
  ASSUME [Next]_vars, phase = "record"
  PROVE  UNCHANGED vars \/ \E c \in backlog : Record(c)
<1>1. CASE StartRound \/ ReachLimit \/ Propagate
  BY <1>1 DEF StartRound, ReachLimit, Propagate, Settle, PassOver, Derive,
     FindConflict, NextPackage, FinishPropagation, LookAt
<1>2. CASE HandleConflict
  BY <1>2 DEF HandleConflict, GiveUp, ResolveStep, Backjump, PruneCulprits,
     SkipPruning, Restart, CarryOn
<1>3. CASE DecideNext
  BY <1>3 DEF DecideNext, Solve, Choose, Absorb, ForceBacktrack,
     RecordNoVersions, Decide
<1>4. CASE Terminated
  BY <1>4 DEF Terminated
<1>5. QED BY <1>1, <1>2, <1>3, <1>4 DEF Next

\* Adding to the formula, as AddedForm has it, of the variables.
LEMMA GivenForm ==
  ASSUME IInv, NEW c, Gives(c)
  PROVE  /\ \A i \in DOMAIN formula :
               i \in DOMAIN formula' /\ Grows(formula[i].clause, formula'[i].clause)
         /\ \A i \in DOMAIN formula' :
               \/ i \in DOMAIN formula /\ formula'[i].clause = formula[i].clause
               \/ Holding(formula'[i].clause, c)
         /\ \E i \in DOMAIN formula' : Grows(c, formula'[i].clause)
<1>1. /\ formula \in Seq(FormulaEntry) /\ Good(problem, c)
      /\ \A i \in DOMAIN formula : Good(problem, formula[i].clause)
  BY DEF IInv, TypeOK, ClausesGood, FormulaEntry, Gives
<1>2. formula' = Add(formula, c)
  BY DEF Gives
<1>3. QED BY <1>1, <1>2, AddedForm

\* No clause is lost, or says less than it did.
LEMMA FormulaGrows ==
  ASSUME IInv, TrailInv, BacklogOK, [Next]_vars, NEW i \in DOMAIN formula
  PROVE  i \in DOMAIN formula' /\ Grows(formula[i].clause, formula'[i].clause)
<1>1. CASE SameFormula
  BY <1>1 DEF SameFormula, Grows
<1>2. CASE \E c : Gives(c)
  BY <1>2, GivenForm
<1>3. QED BY <1>1, <1>2, FormulaMoves

\* What states a requirement goes on stating it when it is merged.
LEMMA StatesOn ==
  ASSUME NEW prob, NEW c, NEW e, NEW p, NEW v, NEW d, States(prob, c, p, v, d),
         Grows(c, e)
  PROVE  States(prob, e, p, v, d)
BY DEF States, Grows

\* Root requirements stay where they are; what is added names a package.
LEMMA NextRoots ==
  ASSUME IInv, TrailInv, BacklogOK, RootsKept, Named, [Next]_vars
  PROVE  RootsKept' /\ Named'
<1>1. RootsKept'
  <2>1. SUFFICES ASSUME NEW i \in DOMAIN problem.root
                 PROVE  /\ i \in DOMAIN formula'
                        /\ formula'[i].clause = RootClause(problem.root[i])
    BY ProblemFixed DEF RootsKept
  <2>2. i \in DOMAIN formula /\ formula[i].clause = RootClause(problem.root[i])
    BY DEF RootsKept
  <2>3. i \in DOMAIN formula' /\ Grows(RootClause(problem.root[i]), formula'[i].clause)
    BY <2>2, FormulaGrows
  <2>4. RootClause(problem.root[i]).cause = "ROOT"
    BY DEF RootClause
  <2>5. QED BY <2>3, <2>4 DEF Grows
<1>2. Named'
  <2>1. SUFFICES ASSUME NEW i \in DOMAIN formula' PROVE NamesPackage(formula'[i].clause)
    BY DEF Named
  <2>2. CASE SameFormula
    BY <2>2 DEF SameFormula, Named
  <2>3. CASE \E c : Gives(c)
    <3>1. PICK c : Gives(c)
      BY <2>3
    <3>2. CASE i \in DOMAIN formula /\ formula'[i].clause = formula[i].clause
      BY <3>2 DEF Named
    <3>3. CASE Holding(formula'[i].clause, c)
      BY <3>1, <3>3 DEF Gives, Holding, NamesPackage
    <3>4. QED BY <3>1, <3>2, <3>3, GivenForm
  <2>4. QED BY <2>2, <2>3, FormulaMoves
<1>3. QED BY <1>1, <1>2

\* The clauses of a decision state what the version decided requires.
LEMMA DependencyClausesState ==
  ASSUME problem \in ProblemType, NEW p \in Package, NEW v \in Version,
         NEW W \in ParentRanges(problem, p, v), NEW d \in Demands(problem, p, v)
  PROVE  \E c \in DependencyClauses(problem, p, v, W) : States(problem, c, p, v, d)
<1>1. v \in W
  BY DEF ParentRanges
<1>2. CASE d # p
  <2> DEFINE c == DependencyClause(p, W, d, problem.deps[p][v][d])
  <2>1. c \in DependencyClauses(problem, p, v, W)
    BY <1>2 DEF Demands, DependencyClauses
  <2>2. /\ c.cause = "DEPENDENCY" /\ c.parent = p /\ DOMAIN c.terms = {p, d}
        /\ c.terms[p] = In(W) /\ c.terms[d] = NotIn(problem.deps[p][v][d])
    BY <1>2 DEF DependencyClause
  <2> HIDE DEF c
  <2>3. v \in ParentRange(c)
    BY <1>1, <2>2 DEF ParentRange, In
  <2>4. QED BY <2>1, <2>2, <2>3 DEF States
<1>3. CASE d = p
  <2> DEFINE c == SelfClause(p, {v})
  <2>1. c \in DependencyClauses(problem, p, v, W)
    BY <1>3 DEF Demands, DependencyClauses
  <2>2. /\ c.cause = "DEPENDENCY" /\ c.parent = p /\ DOMAIN c.terms = {p}
        /\ c.terms[p] = In({v})
    BY DEF SelfClause
  <2> HIDE DEF c
  <2>3. v \in ParentRange(c)
    BY <2>2 DEF ParentRange, In
  <2>4. QED BY <1>3, <2>1, <2>2, <2>3 DEF States
<1>4. QED BY <1>2, <1>3

\* What is recorded stays known, or on its way.
LEMMA NextRecorded ==
  ASSUME IInv, TrailInv, BacklogOK, RecordedKnown, [Next]_vars
  PROVE  RecordedKnown'
<1> DEFINE Known(p, v, d) == \E i \in DOMAIN formula : States(problem, formula[i].clause, p, v, d)
           Coming(p, v, d) == phase = "record" /\ \E c \in backlog : States(problem, c, p, v, d)
<1>1. problem' = problem
  BY ProblemFixed
<1>2. ASSUME NEW p, NEW v, NEW d, Known(p, v, d)
      PROVE  \E i \in DOMAIN formula' : States(problem, formula'[i].clause, p, v, d)
  BY <1>2, FormulaGrows, StatesOn
<1>3. SUFFICES ASSUME NEW p \in Package, NEW v \in Version, recorded'[p][v] # NoRange,
                      NEW d \in Demands(problem, p, v)
               PROVE  \/ \E i \in DOMAIN formula' : States(problem, formula'[i].clause, p, v, d)
                      \/ /\ phase' = "record"
                         /\ \E c \in backlog' : States(problem, c, p, v, d)
  BY <1>1 DEF RecordedKnown
<1>4. CASE phase = "record"
  <2>1. CASE UNCHANGED vars
    BY <1>3, <2>1 DEF vars, decision, RecordedKnown
  <2>2. CASE \E c \in backlog : Record(c)
    <3>1. PICK c \in backlog : Record(c)
      BY <2>2
    <3>2. /\ recorded' = recorded /\ backlog' = backlog \ {c}
          /\ phase' = IF backlog' = {} THEN "round" ELSE "record"
          /\ Good(problem, c) /\ formula' = Add(formula, c)
      BY <1>4, <3>1 DEF Record, IInv, ClausesGood
    <3>3. Known(p, v, d) \/ Coming(p, v, d)
      BY <1>3, <3>2 DEF RecordedKnown
    <3>4. CASE Known(p, v, d)
      BY <1>2, <3>4
    <3>5. CASE \E b \in backlog \ {c} : States(problem, b, p, v, d)
      BY <3>2, <3>5
    <3>6. CASE States(problem, c, p, v, d)
      <4>1. /\ formula \in Seq(FormulaEntry)
            /\ \A i \in DOMAIN formula : Good(problem, formula[i].clause)
        BY DEF IInv, TypeOK, ClausesGood, FormulaEntry
      <4>2. \E i \in DOMAIN formula' : Grows(c, formula'[i].clause)
        BY <3>2, <4>1, AddedForm
      <4>3. QED BY <3>6, <4>2, StatesOn
    <3>7. QED BY <3>3, <3>4, <3>5, <3>6
  <2>3. QED BY <1>4, <2>1, <2>2, RecordsOn
<1>5. CASE phase # "record" /\ recorded'[p][v] = recorded[p][v]
  <2>1. Known(p, v, d)
    BY <1>3, <1>5 DEF RecordedKnown
  <2>2. QED BY <1>2, <2>1
<1>6. CASE phase # "record" /\ recorded'[p][v] # recorded[p][v]
  <2>1. Decide
    BY <1>6, RecordedMoves
  <2>2. choice.package \in Package /\ choice.version \in Version
    BY <2>1, DecideForm
  <2>3. Requires(problem, choice.package, choice.version) # {}
    BY <1>6, <2>1 DEF Decide
  <2>4. PICK W \in ParentRanges(problem, choice.package, choice.version) :
          /\ backlog' = Unrecorded(choice.package, choice.version, W)
          /\ recorded' = [recorded EXCEPT ![choice.package][choice.version] = W]
    BY <2>1, <2>3 DEF Decide
  <2>5. recorded \in [Package -> [Version -> {NoRange} \cup Ranges]]
    BY DEF IInv, TypeOK
  <2>6. p = choice.package /\ v = choice.version
    BY <1>6, <2>2, <2>4, <2>5
  <2>7. recorded'[p][v] = W
    BY <2>2, <2>4, <2>5, <2>6
  <2>8. backlog' = DependencyClauses(problem, p, v, W)
    BY <1>6, <2>4, <2>6, <2>7 DEF Unrecorded
  <2>9. problem \in ProblemType
    BY DEF IInv, TypeOK
  <2>10. \E c \in backlog' : States(problem, c, p, v, d)
    BY <2>4, <2>6, <2>8, <2>9, DependencyClausesState
  <2>11. phase' = "record"
    BY <2>1, <2>10 DEF Decide
  <2>12. QED BY <2>10, <2>11
<1>7. QED BY <1>4, <1>5, <1>6

\* A decision of the trail was there before, or was just taken, or is that of ROOT.
LEMMA DecisionsMove ==
  ASSUME IInv, [Next]_vars, NEW k \in DOMAIN trail', trail'[k].is_decision
  PROVE  \/ k \in DOMAIN trail /\ trail'[k] = trail[k]
         \/ /\ Decide
            /\ trail'[k] = Decision(trail, level + 1, choice.package, choice.version)
         \/ Restart /\ trail' = <<RootDecision>> /\ trail'[k] = RootDecision
<1>1. WellFormed(trail) /\ trail \in Seq(Assignment)
  BY DEF IInv, TypeOK, TrailOK
<1>2. CASE UNCHANGED <<trail, level>>
  BY <1>2
<1>3. CASE \E c, p : Derives(c, p)
  <2>1. PICK c, p : Derives(c, p)
    BY <1>3
  <2> DEFINE a == Derivation(trail, level, p, Negate(c.terms[p]), c)
  <2>2. a \in Assignment /\ ~a.is_decision /\ trail' = Append(trail, a)
    BY <2>1, DeriveForm DEF Derives
  <2> HIDE DEF a
  <2>3. QED BY <1>1, <2>2, AppendIndex
<1>4. CASE Decide
  <2> DEFINE a == Decision(trail, level + 1, choice.package, choice.version)
  <2>1. a \in Assignment /\ trail' = Append(trail, a)
    BY <1>4, DecideForm DEF Decide
  <2> HIDE DEF a
  <2>2. (k \in DOMAIN trail /\ trail'[k] = trail[k]) \/ trail'[k] = a
    BY <1>1, <2>1, AppendIndex
  <2>3. QED BY <1>4, <2>2 DEF a
<1>5. CASE \E target : CutsTo(target)
  BY <1>1, <1>5, CutForm DEF CutsTo
<1>6. CASE Restart
  <2>1. trail' = <<RootDecision>>
    BY <1>6 DEF Restart
  <2>2. QED BY <1>6, <2>1
<1>7. QED BY <1>2, <1>3, <1>4, <1>5, <1>6, TrailMoves

\* What a step records of a version, it never forgets.
LEMMA RecordedStays ==
  ASSUME IInv, [Next]_vars, NEW p \in Package, NEW v \in Version,
         recorded[p][v] # NoRange
  PROVE  recorded'[p][v] # NoRange
<1>1. recorded \in [Package -> [Version -> {NoRange} \cup Ranges]]
  BY DEF IInv, TypeOK
<1>2. CASE recorded' = recorded
  BY <1>2
<1>3. CASE Decide
  <2>1. choice.package \in Package /\ choice.version \in Version
    BY <1>3, DecideForm
  <2>2. CASE Requires(problem, choice.package, choice.version) = {}
    BY <1>3, <2>2 DEF Decide
  <2>3. CASE Requires(problem, choice.package, choice.version) # {}
    <3>1. PICK W \in ParentRanges(problem, choice.package, choice.version) :
            recorded' = [recorded EXCEPT ![choice.package][choice.version] = W]
      BY <1>3, <2>3 DEF Decide
    <3>2. W \in Ranges /\ W # NoRange
      BY <2>1, NoRangeAssumption DEF ParentRanges, Ranges
    <3>3. QED BY <1>1, <2>1, <3>1, <3>2
  <2>4. QED BY <2>2, <2>3
<1>4. QED BY <1>2, <1>3, RecordedMoves

\* A version is decided only if it can be selected, and its requirements are
\* recorded with the decision.
LEMMA NextDecided ==
  ASSUME IInv, BacklogOK, DecidedRecorded, [Next]_vars
  PROVE  DecidedRecorded'
<1>1. problem' = problem
  BY ProblemFixed
<1>2. SUFFICES ASSUME NEW k \in DOMAIN trail', NEW v \in Version,
                      trail'[k].is_decision, trail'[k].package # ROOT,
                      trail'[k].cum_positive = {v}
               PROVE  LET p == trail'[k].package IN
                      /\ v \in Selectable(problem, p)
                      /\ Requires(problem, p, v) = {} \/ recorded'[p][v] # NoRange
  BY <1>1 DEF DecidedRecorded
<1>3. CASE k \in DOMAIN trail /\ trail'[k] = trail[k]
  <2> DEFINE p == trail[k].package
  <2>1. /\ v \in Selectable(problem, p)
        /\ Requires(problem, p, v) = {} \/ recorded[p][v] # NoRange
    BY <1>2, <1>3 DEF DecidedRecorded
  <2>2. p \in Package
    BY <1>2, <1>3, AssignmentForm DEF IInv, TypeOK, Node
  <2>3. QED BY <1>3, <2>1, <2>2, RecordedStays
<1>4. CASE /\ Decide
           /\ trail'[k] = Decision(trail, level + 1, choice.package, choice.version)
  <2> DEFINE p == choice.package
  <2>1. /\ p \in Package /\ choice.version \in Version /\ trail'[k].package = p
        /\ trail'[k].cum_positive = {choice.version}
    BY <1>4, DecideForm
  <2>2. choice.version = v
    BY <1>2, <2>1
  <2>3. v \in Selectable(problem, p)
    BY <1>4, <2>2 DEF Decide, BacklogOK
  <2>4. ASSUME Requires(problem, p, v) # {} PROVE recorded'[p][v] # NoRange
    <3>1. PICK W \in ParentRanges(problem, p, v) :
            recorded' = [recorded EXCEPT ![p][v] = W]
      BY <1>4, <2>2, <2>4 DEF Decide
    <3>2. W # NoRange
      <4>1. W \in Ranges
        BY <2>1, <2>2 DEF ParentRanges, Ranges
      <4>2. QED BY <4>1, NoRangeAssumption DEF Ranges
    <3>3. recorded \in [Package -> [Version -> {NoRange} \cup Ranges]]
      BY DEF IInv, TypeOK
    <3>4. QED BY <2>1, <3>1, <3>2, <3>3
  <2>5. QED BY <2>1, <2>3, <2>4
<1>5. CASE trail'[k] = RootDecision
  BY <1>2, <1>5, RootDecisionForm
<1>6. QED BY <1>2, <1>3, <1>4, <1>5, DecisionsMove

\* A solution is returned only when every package asked for is decided.
LEMMA NextNoneLeft == ASSUME NoneLeft, [Next]_vars PROVE NoneLeft'
<1>1. CASE Solve
  BY <1>1 DEF Solve, solution, NoneLeft
<1>2. CASE UNCHANGED vars
  BY <1>2 DEF vars, solution, NoneLeft
<1>3. QED BY <1>1, <1>2, PhaseMoves DEF NoneLeft

----------------------------------------------------------------------------
(* What a decision asks for. *)

\* Cutting a trail back does not depend on what came after the level.
LEMMA BacktrackWhole ==
  ASSUME NEW u, WellFormed(u), NEW l \in Nat, l >= 1,
         \A i \in DOMAIN u : u[i].decision_level <= l
  PROVE  Backtrack(u, l) = u
<1> DEFINE w == Backtrack(u, l)
<1>1. /\ WellFormed(w) /\ Len(w) \in 1..Len(u) /\ DOMAIN w = 1..Len(w)
      /\ \A i \in DOMAIN w : i \in DOMAIN u /\ w[i] = u[i]
      /\ \A i \in DOMAIN u : i \in DOMAIN w <=> u[i].decision_level <= l
  BY CutForm
<1> HIDE DEF w
<1>2. w \in Seq(Assignment) /\ u \in Seq(Assignment)
  BY <1>1 DEF WellFormed
<1>3. Len(u) \in Nat /\ DOMAIN u = 1..Len(u) /\ Len(u) \in DOMAIN u
  BY TrailForm
<1>4. Len(u) \in 1..Len(w)
  BY <1>1, <1>3, Zenon
<1>5. w = u
  <2>1. Len(w) \in 1..Len(u)
    BY <1>1
  <2>2. Len(w) = Len(u)
    BY <1>3, <1>4, <2>1
  <2>3. \A i \in 1..Len(w) : w[i] = u[i]
    BY <1>1
  <2>4. QED BY <1>2, <2>2, <2>3, SeqEqual
<1>6. QED BY <1>5 DEF w

LEMMA BacktrackLonger ==
  ASSUME NEW u, WellFormed(u), NEW a \in Assignment, WellFormed(Append(u, a)),
         NEW l \in Nat, l >= 1, l < a.decision_level
  PROVE  Backtrack(Append(u, a), l) = Backtrack(u, l)
<1> DEFINE w == Backtrack(u, l)
           x == Backtrack(Append(u, a), l)
<1>1. /\ WellFormed(w) /\ DOMAIN w = 1..Len(w) /\ Len(w) \in 1..Len(u)
      /\ \A i \in DOMAIN w : i \in DOMAIN u /\ w[i] = u[i]
      /\ \A i \in DOMAIN u : i \in DOMAIN w <=> u[i].decision_level <= l
  BY CutForm
<1>2. /\ WellFormed(x) /\ DOMAIN x = 1..Len(x)
      /\ \A i \in DOMAIN x : i \in DOMAIN Append(u, a) /\ x[i] = Append(u, a)[i]
      /\ \A i \in DOMAIN Append(u, a) :
            i \in DOMAIN x <=> Append(u, a)[i].decision_level <= l
  BY CutForm
<1> HIDE DEF w, x
<1>3. /\ \A i \in DOMAIN u : i \in DOMAIN Append(u, a) /\ Append(u, a)[i] = u[i]
      /\ \A i \in DOMAIN Append(u, a) : i \in DOMAIN u \/ i = Len(u) + 1
      /\ Append(u, a)[Len(u) + 1] = a
  BY LongerForm
<1>4. a.decision_level \in Nat
  BY AssignmentForm
<1>5. \A i : i \in DOMAIN x <=> i \in DOMAIN w
  BY <1>1, <1>2, <1>3, <1>4
<1>6. \A i \in DOMAIN w : w[i] = x[i]
  BY <1>1, <1>2, <1>3, <1>5
<1>7. w \in Seq(Assignment) /\ x \in Seq(Assignment)
  BY <1>1, <1>2 DEF WellFormed
<1>8. DOMAIN x = DOMAIN w
  BY <1>5, <1>7
<1>9. w = x
  BY <1>6, <1>7, <1>8
<1>10. QED BY <1>9 DEF w, x

LEMMA BacktrackTwice ==
  ASSUME NEW u, WellFormed(u), NEW target \in Nat, NEW l \in Nat,
         l >= 1, l <= target
  PROVE  Backtrack(Backtrack(u, target), l) = Backtrack(u, l)
<1> DEFINE v == Backtrack(u, target)
           w == Backtrack(u, l)
           x == Backtrack(v, l)
<1>1. /\ WellFormed(w) /\ DOMAIN w = 1..Len(w)
      /\ \A i \in DOMAIN w : i \in DOMAIN u /\ w[i] = u[i]
      /\ \A i \in DOMAIN u : i \in DOMAIN w <=> u[i].decision_level <= l
  BY CutForm
<1>2. /\ WellFormed(v) /\ DOMAIN v = 1..Len(v)
      /\ \A i \in DOMAIN v : i \in DOMAIN u /\ v[i] = u[i]
      /\ \A i \in DOMAIN u : i \in DOMAIN v <=> u[i].decision_level <= target
  BY CutForm
<1> HIDE DEF v, w
<1>3. /\ WellFormed(x) /\ DOMAIN x = 1..Len(x)
      /\ \A i \in DOMAIN x : i \in DOMAIN v /\ x[i] = v[i]
      /\ \A i \in DOMAIN v : i \in DOMAIN x <=> v[i].decision_level <= l
  BY <1>2, CutForm
<1> HIDE DEF x
<1>4. \A i \in DOMAIN u : u[i].decision_level \in Nat
  BY TrailForm
<1>5. \A i : i \in DOMAIN x <=> i \in DOMAIN w
  BY <1>1, <1>2, <1>3, <1>4
<1>6. \A i \in DOMAIN w : w[i] = x[i]
  BY <1>1, <1>2, <1>3, <1>5
<1>7. w \in Seq(Assignment) /\ x \in Seq(Assignment)
  BY <1>1, <1>3 DEF WellFormed
<1>8. DOMAIN x = DOMAIN w
  BY <1>5, <1>7
<1>9. w = x
  BY <1>6, <1>7, <1>8
<1>10. QED BY <1>9 DEF v, w, x

\* The term of the package that asks holds, once that package is decided so.
LEMMA AskerHolds ==
  ASSUME WellFormed(trail), Firm(trail), NEW c \in Clause, Asks(c),
         NEW k \in DOMAIN trail, Holds(k, c)
  PROVE  /\ Satisfied(trail, c.parent, c.terms[c.parent])
         /\ ~Contradicted(trail, c.parent, c.terms[c.parent])
<1> DEFINE p == c.parent
           t == c.terms[c.parent]
<1>1. /\ trail[k].is_decision /\ trail[k].package = p /\ t.positive
      /\ Allowed(trail[k]) \subseteq t.constraint
  BY DEF Holds, Asks, ParentRange
<1>2. PICK v \in Version :
        /\ Effective(trail, p) = {v} /\ Assigned(trail, p) /\ Positive(trail, p) # NoRange
        /\ Allowed(trail[k]) = {v}
  BY <1>1, DecidedForm
<1>3. t \in Term
  BY ClauseTerms DEF Asks
<1> HIDE DEF p, t
<1>4. Satisfied(trail, p, t) /\ ~Contradicted(trail, p, t)
  BY <1>1, <1>2, <1>3 DEF Satisfied, Contradicted, Satisfies
<1>5. QED BY <1>4 DEF p, t

\* A clause that is contradicted is answered by the package asked for.
LEMMA SettledAnswers ==
  ASSUME WellFormed(trail), Firm(trail), NEW c \in Clause, Asks(c),
         NEW k \in DOMAIN trail, Holds(k, c), Settles(trail, c)
  PROVE  Answered(trail, c)
BY AskerHolds DEF Settles, Answered

\* An answer stands as the trail grows, unless its package is emptied.
LEMMA AnsweredLonger ==
  ASSUME NEW u, WellFormed(u), NEW a \in Assignment, Extends(u, a),
         NEW c \in Clause, Asks(c), Answered(u, c)
  PROVE  Answered(Append(u, a), c) \/ Emptied(a)
<1>1. PICK q \in DOMAIN c.terms \ {c.parent} : Contradicted(u, q, c.terms[q])
  BY DEF Answered
<1>2. c.terms[q] \in Term /\ ~c.terms[q].positive
  BY <1>1, ClauseTerms DEF Asks
<1>3. CASE Allowed(a) # {}
  BY <1>1, <1>2, <1>3, ContradictedPersists DEF Answered
<1>4. CASE Allowed(a) = {} /\ q # a.package
  <2>1. u \in Seq(Assignment)
    BY DEF WellFormed
  <2>2. Contradicted(Append(u, a), q, c.terms[q])
    BY <1>1, <1>4, <2>1, AppendOther DEF Contradicted
  <2>3. QED BY <1>1, <2>2 DEF Answered
<1>5. CASE Allowed(a) = {} /\ q = a.package
  <2>1. Assigned(u, q) /\ Positive(u, q) # NoRange
    BY <1>1, <1>2 DEF Contradicted
  <2>2. QED BY <1>5, <2>1 DEF Extends, Emptied
<1>6. QED BY <1>3, <1>4, <1>5

\* The derivation from a clause that asks is its answer.
LEMMA DeriveAnswers ==
  ASSUME IInv, TrailInv, NEW i \in DOMAIN formula, Derive(i),
         NEW k \in DOMAIN trail, Asks(formula[i].clause), Holds(k, formula[i].clause)
  PROVE  \/ Answered(trail', formula[i].clause)
         \/ \E j \in DOMAIN trail' : Emptied(trail'[j])
<1> DEFINE c == formula[i].clause
<1>1. c \in Clause /\ Refuted(c) = {}
  BY LookAtForm DEF Derive
<1>2. PICK p \in Open(c) :
        /\ Open(c) = {p}
        /\ trail' = Append(trail, Derivation(trail, level, p, Negate(c.terms[p]), c))
  BY DEF Derive
<1>3. WellFormed(trail) /\ Firm(trail) /\ trail \in Seq(Assignment) /\ level \in Nat
  BY DEF IInv, TypeOK, TrailOK, TrailInv, Built
<1> HIDE DEF c
<1>4. Asks(c) /\ Holds(k, c)
  BY DEF c
<1>5. p \in DOMAIN c.terms \ {c.parent}
  BY <1>1, <1>2, <1>3, <1>4, AskerHolds DEF Open
<1>6. c.terms[p] \in Term /\ ~c.terms[p].positive /\ p \in Node
  BY <1>1, <1>4, <1>5, ClauseTerms DEF Asks
<1> DEFINE t == c.terms[p]
           a == Derivation(trail, level, p, Negate(t), c)
<1>7. /\ Negate(t) \in Term /\ Negate(t).constraint = t.constraint
      /\ Negate(t).positive
  BY <1>6, NegateForm
<1> HIDE DEF t
<1>8. /\ a \in Assignment /\ a.package = p /\ a.cum_positive # NoRange
      /\ Allowed(a) \subseteq t.constraint
  BY <1>1, <1>3, <1>6, <1>7, DerivationForm
<1>9. trail' = Append(trail, a)
  BY <1>2 DEF t
<1> HIDE DEF a
<1>10. CASE Emptied(a)
  <2>1. Len(trail) + 1 \in DOMAIN trail' /\ trail'[Len(trail) + 1] = a
    BY <1>3, <1>8, <1>9, LongerForm
  <2>2. QED BY <1>10, <2>1
<1>11. CASE ~Emptied(a)
  <2>1. /\ Assigned(trail', p) /\ Effective(trail', p) = Allowed(a)
        /\ Positive(trail', p) = a.cum_positive
    BY <1>3, <1>8, <1>9, AppendSame
  <2>2. Allowed(a) # {}
    BY <1>8, <1>11 DEF Emptied
  <2>3. t.positive = FALSE /\ t.constraint \in Ranges
    BY <1>6 DEF t, Term
  <2>4. Contradicted(trail', p, t)
    BY <1>7, <1>8, <2>1, <2>2, <2>3 DEF Contradicted, Contradicts, Satisfies
  <2>5. QED BY <1>5, <2>4 DEF Answered, t, c
<1>12. QED BY <1>10, <1>11

\* A clause that propagation has yet to look at stays so until it is looked at, and
\* is then stamped, passed over or derived from.
LEMMA AwaitMoves ==
  ASSUME IInv, CursorOK, [Next]_vars, NEW i \in DOMAIN formula,
         NEW p \in DOMAIN formula[i].clause.terms, Awaits(p, i)
  PROVE  \/ /\ changed' = p
            /\ phase' \in {"round", "record"} \/ (phase' = "propagate" /\ i > cursor')
         \/ phase' \in {"conflict", "limit"}
         \/ Settles(trail, formula[i].clause)
         \/ Cardinality(Open(formula[i].clause)) >= 2
         \/ Derive(i)
<1>1. /\ changed = p
      /\ phase \in {"round", "record"} \/ (phase = "propagate" /\ i > cursor)
  BY DEF Awaits
<1>2. i \in Nat /\ i > 0 /\ cursor \in Nat
  BY DEF IInv, TypeOK
<1>3. CASE StartRound
  BY <1>1, <1>2, <1>3 DEF StartRound, CursorOK, propagation
<1>4. CASE ReachLimit
  BY <1>4 DEF ReachLimit
<1>5. ASSUME phase = "propagate", i \notin Due
      PROVE  Settles(trail, formula[i].clause)
  <2>1. formula[i].contradicted_at = epoch
    BY <1>1, <1>5 DEF Due
  <2>2. QED BY <2>1 DEF IInv, StampsOK
<1>6. ASSUME NEW j \in DOMAIN formula, LookAt(j), i < j
      PROVE  Settles(trail, formula[i].clause)
  <2>1. phase = "propagate" /\ \A n \in Due : j <= n
    BY <1>6, LookAtForm
  <2>2. j \in Nat
    BY DEF IInv, TypeOK
  <2>3. i \notin Due
    BY <1>2, <1>6, <2>1, <2>2
  <2>4. QED BY <1>5, <2>1, <2>3
<1>7. ASSUME NEW j \in DOMAIN formula, Settle(j) \/ PassOver(j) \/ Derive(j)
      PROVE  \/ changed' = p /\ phase' = "propagate" /\ i > cursor'
             \/ Settles(trail, formula[i].clause)
             \/ Cardinality(Open(formula[i].clause)) >= 2
             \/ Derive(i)
  <2>1. /\ LookAt(j) /\ cursor' = j /\ changed' = changed /\ phase' = phase
        /\ phase = "propagate" /\ j \in Nat
    BY <1>7, LookAtForm DEF Settle, PassOver, Derive
  <2>2. CASE i < j
    BY <1>6, <2>1, <2>2
  <2>3. CASE i = j
    BY <1>7, <2>3, ViolatedForm DEF Settle, PassOver
  <2>4. CASE i > j
    BY <1>1, <2>1, <2>4
  <2>5. QED BY <1>2, <2>1, <2>2, <2>3, <2>4
<1>8. CASE \E j \in DOMAIN formula : FindConflict(j)
  BY <1>8 DEF FindConflict
<1>9. CASE NextPackage \/ FinishPropagation
  BY <1>5, <1>9 DEF NextPackage, FinishPropagation
<1>10. CASE \E c \in backlog : Record(c)
  BY <1>1, <1>10 DEF Record, propagation
<1>11. CASE HandleConflict
  BY <1>1, <1>11 DEF HandleConflict, GiveUp, ResolveStep, Backjump, PruneCulprits,
     SkipPruning, Restart, CarryOn
<1>12. CASE \/ Solve \/ ForceBacktrack \/ RecordNoVersions \/ Decide
            \/ (\E q \in Package : Choose(q)) \/ \E c \in backlog : Absorb(c)
  BY <1>1, <1>12 DEF Solve, ForceBacktrack, RecordNoVersions, Decide, Choose, Absorb
<1>13. CASE Terminated \/ UNCHANGED vars
  BY <1>1, <1>13 DEF Terminated, vars, propagation
<1>14. QED BY <1>3, <1>4, <1>7, <1>8, <1>9, <1>10, <1>11, <1>12, <1>13
           DEF Next, Propagate, DecideNext

\* While a clause is awaited the trail only grows by derivations.
LEMMA AwaitTrail ==
  ASSUME IInv, [Next]_vars, phase \in {"round", "record", "propagate"}
  PROVE  UNCHANGED <<trail, level>> \/ \E c, p : Derives(c, p)
BY TrailMoves DEF Decide, CutsTo, Restart

\* A clause that asks has one other term, so two of its terms are never open.
LEMMA AskedOnce ==
  ASSUME IInv, TrailInv, NEW c \in Clause, Asks(c), NEW k \in DOMAIN trail, Holds(k, c)
  PROVE  ~(Cardinality(Open(c)) >= 2)
<1>1. PICK q \in DOMAIN c.terms : DOMAIN c.terms = {c.parent, q}
  BY DEF Asks
<1>2. Satisfied(trail, c.parent, c.terms[c.parent])
  BY AskerHolds DEF IInv, TrailOK, TrailInv, Built
<1>3. Open(c) \subseteq {q}
  BY <1>1, <1>2 DEF Open
<1>4. IsFiniteSet({q}) /\ Cardinality({q}) = 1
  BY FS_Singleton
<1>5. Cardinality(Open(c)) <= 1 /\ IsFiniteSet(Open(c))
  BY <1>3, <1>4, FS_Subset
<1>6. Cardinality(Open(c)) \in Nat
  BY <1>5, FS_CardinalityType
<1>7. QED BY <1>5, <1>6

\* An answer on the level of the decision stands as long as the decision does.
LEMMA AnswerKept ==
  ASSUME IInv, TrailInv, [Next]_vars, ~Restart, NEW k \in DOMAIN trail,
         k \in DOMAIN trail', trail'[k] = trail[k],
         NEW c \in Clause, Asks(c), NEW l \in Nat, l = trail[k].decision_level,
         Answered(Backtrack(trail, l), c)
  PROVE  \/ Answered(Backtrack(trail', l), c)
         \/ l = level' /\ \E j \in DOMAIN trail' : Emptied(trail'[j])
<1>1. /\ WellFormed(trail) /\ level \in Nat /\ l >= 1 /\ l <= level
      /\ \A i \in DOMAIN trail : trail[i].decision_level <= level
  BY TrailForm DEF IInv, TypeOK, TrailOK
<1>2. /\ WellFormed(trail') /\ \A i \in DOMAIN trail' : trail'[i].decision_level <= level'
  BY NextIInv DEF IInv, TrailOK
<1>3. CASE UNCHANGED <<trail, level>>
  BY <1>3
<1>4. CASE \E x, p : Derives(x, p)
  <2>1. PICK x, p : Derives(x, p)
    BY <1>4
  <2> DEFINE a == Derivation(trail, level, p, Negate(x.terms[p]), x)
  <2>2. /\ a \in Assignment /\ Extends(trail, a) /\ a.decision_level = level
        /\ trail' = Append(trail, a) /\ level' = level
    BY <2>1, DeriveForm DEF Derives
  <2> HIDE DEF a
  <2>3. CASE l < level
    <3>1. Backtrack(trail', l) = Backtrack(trail, l)
      BY <1>1, <1>2, <2>2, <2>3, BacktrackLonger
    <3>2. QED BY <3>1
  <2>4. CASE l = level
    <3>1. Backtrack(trail, l) = trail /\ Backtrack(trail', l) = trail'
      BY <1>1, <1>2, <2>2, <2>4, BacktrackWhole
    <3>2. Answered(trail', c) \/ Emptied(a)
      BY <1>1, <2>2, <3>1, AnsweredLonger
    <3>3. Len(trail) + 1 \in DOMAIN trail' /\ trail'[Len(trail) + 1] = a
      BY <1>1, <2>2, LongerForm
    <3>4. QED BY <2>2, <2>4, <3>1, <3>2, <3>3
  <2>5. QED BY <1>1, <2>3, <2>4
<1>5. CASE Decide
  <2> DEFINE a == Decision(trail, level + 1, choice.package, choice.version)
  <2>1. a \in Assignment /\ a.decision_level = level + 1 /\ trail' = Append(trail, a)
    BY <1>5, DecideForm DEF Decide
  <2> HIDE DEF a
  <2>2. l < a.decision_level
    BY <1>1, <2>1
  <2>3. Backtrack(trail', l) = Backtrack(trail, l)
    BY <1>1, <1>2, <2>1, <2>2, BacktrackLonger
  <2>4. QED BY <2>3
<1>6. CASE \E target : CutsTo(target)
  <2>1. PICK target : CutsTo(target)
    BY <1>6
  <2>2. target \in Nat /\ trail' = Backtrack(trail, target) /\ level' = target
    BY <2>1 DEF CutsTo
  <2>3. l <= target
    BY <1>2, <2>2
  <2>4. Backtrack(trail', l) = Backtrack(trail, l)
    BY <1>1, <2>2, <2>3, BacktrackTwice
  <2>5. QED BY <2>4
<1>7. QED BY <1>3, <1>4, <1>5, <1>6, TrailMoves

\* What was answered or awaited for a decision still is, the clause being the same.
LEMMA FollowedOn ==
  ASSUME IInv, TrailInv, CursorOK, [Next]_vars, ~Restart,
         NEW k \in DOMAIN trail, k \in DOMAIN trail', trail'[k] = trail[k],
         NEW i \in DOMAIN formula, i \in DOMAIN formula',
         formula'[i].clause = formula[i].clause,
         Asks(formula[i].clause), Holds(k, formula[i].clause), FollowedBy(i, k)
  PROVE  FollowedBy(i, k)'
<1> DEFINE c == formula[i].clause
           l == trail[k].decision_level
<1>1. /\ WellFormed(trail) /\ Firm(trail) /\ level \in Nat /\ c \in Clause
      /\ l \in Nat /\ l >= 1
      /\ \A j \in DOMAIN trail : trail[j].decision_level <= level
  BY TrailForm DEF IInv, TypeOK, TrailOK, TrailInv, Built, ClausesGood, Good
<1>2. WellFormed(trail') /\ \A j \in DOMAIN trail' : trail'[j].decision_level <= level'
  BY NextIInv DEF IInv, TrailOK
<1>3. /\ Asks(c) /\ Holds(k, c) /\ c.parent \in DOMAIN c.terms
  BY DEF Asks
<1>4. \/ Answered(Backtrack(trail, l), c)
      \/ /\ l = level
         /\ \/ phase \in {"conflict", "failed", "limit"}
            \/ \E j \in DOMAIN trail : Emptied(trail[j])
            \/ Awaits(c.parent, i)
  BY DEF FollowedBy
<1> DEFINE Goal == \/ Answered(Backtrack(trail', l), c)
                   \/ /\ l = level'
                      /\ \/ phase' \in {"conflict", "failed", "limit"}
                         \/ \E j \in DOMAIN trail' : Emptied(trail'[j])
                         \/ /\ changed' = c.parent
                            /\ \/ phase' \in {"round", "record"}
                               \/ phase' = "propagate" /\ i > cursor'
<1>5. SUFFICES Goal
  BY <1>3 DEF FollowedBy, Awaits
<1> HIDE DEF c, l
<1>6. CASE Answered(Backtrack(trail, l), c)
  BY <1>1, <1>3, <1>6, AnswerKept DEF l
<1>7. CASE l = level /\ ~(\E target : CutsTo(target)) /\ ~Decide
  <2>1. UNCHANGED <<trail, level>> \/ \E x, p : Derives(x, p)
    BY <1>7, TrailMoves
  <2>2. level' = level
    BY <2>1 DEF Derives
  <2>3. CASE \E j \in DOMAIN trail : Emptied(trail[j])
    <3>1. CASE UNCHANGED <<trail, level>>
      BY <1>7, <2>3, <3>1
    <3>2. CASE \E x, p : Derives(x, p)
      <4>1. PICK x, p : Derives(x, p)
        BY <3>2
      <4> DEFINE a == Derivation(trail, level, p, Negate(x.terms[p]), x)
      <4>2. a \in Assignment /\ trail' = Append(trail, a)
        BY <4>1, DeriveForm DEF Derives
      <4> HIDE DEF a
      <4>3. QED BY <1>1, <1>7, <2>2, <2>3, <4>2, LongerForm
    <3>3. QED BY <2>1, <3>1, <3>2
  <2>4. CASE phase \in {"conflict", "failed", "limit"}
    <3>1. phase' \in {"conflict", "failed", "limit"}
      BY <1>7, <2>4, BackjumpCuts DEF Next, StartRound, ReachLimit, Propagate, Settle,
         PassOver, Derive, FindConflict, NextPackage, FinishPropagation, LookAt,
         HandleConflict, GiveUp, ResolveStep, PruneCulprits, SkipPruning,
         Restart, CarryOn, DecideNext, Solve, Choose, Absorb, Record, ForceBacktrack,
         RecordNoVersions, Decide, Terminated, vars
    <3>2. QED BY <1>7, <2>2, <3>1
  <2>5. CASE Awaits(c.parent, i)
    <3>1. \/ /\ changed' = c.parent
             /\ phase' \in {"round", "record"} \/ (phase' = "propagate" /\ i > cursor')
          \/ phase' \in {"conflict", "limit"}
          \/ Settles(trail, c)
          \/ Cardinality(Open(c)) >= 2
          \/ Derive(i)
      BY <1>3, <2>5, AwaitMoves DEF c
    <3>2. ~(Cardinality(Open(c)) >= 2)
      BY <1>1, <1>3, AskedOnce
    <3>3. CASE Settles(trail, c)
      <4>1. Answered(trail, c)
        BY <1>1, <1>3, <3>3, SettledAnswers
      <4>2. Backtrack(trail, l) = trail
        BY <1>1, <1>7, BacktrackWhole
      <4>3. QED BY <1>1, <1>3, <4>1, <4>2, AnswerKept DEF l
    <3>4. CASE Derive(i)
      <4>1. Answered(trail', c) \/ \E j \in DOMAIN trail' : Emptied(trail'[j])
        BY <1>3, <3>4, DeriveAnswers DEF c
      <4>2. Backtrack(trail', l) = trail'
        BY <1>1, <1>2, <1>7, <2>2, BacktrackWhole
      <4>3. QED BY <1>7, <2>2, <4>1, <4>2
    <3>5. QED BY <1>7, <2>2, <3>1, <3>2, <3>3, <3>4
  <2>6. QED BY <1>4, <1>6, <2>3, <2>4, <2>5
<1>8. CASE l = level /\ \E target : CutsTo(target)
  <2>1. level' < level /\ level' \in Nat
    BY <1>8 DEF CutsTo
  <2>2. l <= level'
    BY <1>2 DEF l
  <2>3. QED BY <1>1, <1>8, <2>1, <2>2
<1>9. CASE Decide
  <2>1. phase = "absorb"
    BY <1>9 DEF Decide
  <2>2. ~(\E j \in DOMAIN trail : Emptied(trail[j])) /\ ~Awaits(c.parent, i)
    BY <2>1 DEF IInv, EmptiedOnTop, Awaits
  <2>3. QED BY <1>4, <1>6, <2>1, <2>2
<1>10. QED BY <1>4, <1>6, <1>7, <1>8, <1>9

\* A package is decided by one entry.
LEMMA DecidedOnce ==
  ASSUME WellFormed(trail), Firm(trail), NEW j \in DOMAIN trail, NEW k \in DOMAIN trail,
         trail[j].is_decision, trail[k].is_decision,
         trail[j].package = trail[k].package
  PROVE  j = k
<1>1. j \in Nat /\ k \in Nat
  BY TrailForm
<1>2. ~(j > k) /\ ~(k > j)
  BY DEF Firm
<1>3. QED BY <1>1, <1>2

\* A clause that a step adds, or merges another into, asks nothing of the decisions
\* of the trail, but for that of the latest one, which it was recorded for.
LEMMA GivenFollows ==
  ASSUME IInv, TrailInv, BacklogOK, [Next]_vars, ~Restart, NEW k \in DOMAIN trail,
         NEW e, Asks(e), trail[k].is_decision, trail[k].package = e.parent,
         NEW c, Holding(e, c), Learns(c) \/ Offers(c) \/ (c \in backlog /\ Record(c))
  PROVE  /\ UNCHANGED <<trail, level, changed>>
         /\ trail[k].decision_level = level /\ changed = e.parent
         /\ phase' \in {"round", "record"}
<1>1. /\ WellFormed(trail) /\ Firm(trail)
  BY DEF IInv, TrailOK, TrailInv, Built
<1>2. c.cause = "DEPENDENCY" /\ e.parent = c.parent
  <2>1. e.cause \in {"ROOT", "DEPENDENCY"}
    BY DEF Asks
  <2>2. CASE c.cause = "DEPENDENCY"
    BY <2>2 DEF Holding
  <2>3. CASE c.cause # "DEPENDENCY"
    <3>1. e = c
      BY <2>3, AddedWhole
    <3>2. CASE Learns(c)
      BY <2>1, <3>1, <3>2 DEF Learns
    <3>3. CASE Offers(c)
      BY <2>1, <3>1, <3>3 DEF Offers
    <3>4. CASE c \in backlog /\ Record(c)
      BY <2>3, <3>4 DEF Record, BacklogOK
    <3>5. QED BY <3>2, <3>3, <3>4
  <2>4. QED BY <2>2, <2>3
<1>3. CASE Learns(c)
  BY <1>2, <1>3 DEF Learns
<1>4. CASE Offers(c)
  <2>1. phase = "absorb" /\ c.parent = choice.package
    BY <1>2, <1>4 DEF Offers
  <2>2. ~Decided(trail, choice.package)
    BY <2>1 DEF TrailInv, ChoiceOpen, Undecided
  <2>3. Decided(trail, e.parent)
    BY DEF Decided, Entries
  <2>4. QED BY <1>2, <2>1, <2>2, <2>3
<1>5. CASE c \in backlog /\ Record(c)
  <2>1. /\ phase = "record" /\ UNCHANGED <<trail, level, changed>>
        /\ phase' \in {"round", "record"}
    BY <1>5 DEF Record, solution, propagation
  <2>2. PICK j \in DOMAIN trail : /\ trail[j].is_decision /\ trail[j].package = changed
                                  /\ trail[j].decision_level = level
    BY <2>1 DEF BacklogOK
  <2>3. c.parent = changed
    BY <1>5, <2>1 DEF BacklogOK
  <2>4. j = k
    BY <1>1, <1>2, <2>2, <2>3, DecidedOnce
  <2>5. QED BY <1>2, <2>1, <2>2, <2>3, <2>4
<1>6. QED BY <1>3, <1>4, <1>5

\* What a decision asks for stays answered, or awaited.
LEMMA NextFollowed ==
  ASSUME IInv, TrailInv, CursorOK, BacklogOK, Followed, [Next]_vars
  PROVE  Followed'
<1>1. SUFFICES ASSUME NEW i \in DOMAIN formula', NEW k \in DOMAIN trail',
                      Asks(formula'[i].clause), trail'[k].is_decision,
                      trail'[k].package = formula'[i].clause.parent,
                      Allowed(trail'[k]) \subseteq ParentRange(formula'[i].clause)
               PROVE  FollowedBy(i, k)'
  BY DEF Followed, FollowedBy, Holds
<1>2. CASE Restart
  <2>1. /\ level' = 1 /\ changed' = ROOT /\ phase' = "round" /\ trail' = <<RootDecision>>
    BY <1>2 DEF Restart
  <2>2. trail'[k] = RootDecision
    BY <2>1
  <2>3. trail'[k].decision_level = 1 /\ trail'[k].package = ROOT
    BY <2>2, RootDecisionForm
  <2>4. QED BY <1>1, <2>1, <2>3 DEF FollowedBy, Awaits
<1>3. CASE /\ Decide
           /\ trail'[k] = Decision(trail, level + 1, choice.package, choice.version)
  <2>1. trail'[k].decision_level = level + 1 /\ trail'[k].package = choice.package
    BY <1>3, DecideForm
  <2>2. /\ level' = level + 1 /\ changed' = choice.package
        /\ phase' \in {"round", "record"}
    BY <1>3 DEF Decide
  <2>3. QED BY <1>1, <2>1, <2>2 DEF FollowedBy, Awaits
<1>4. CASE ~Restart /\ k \in DOMAIN trail /\ trail'[k] = trail[k]
  <2>1. CASE i \in DOMAIN formula /\ formula'[i].clause = formula[i].clause
    <3>1. Holds(k, formula[i].clause) /\ Asks(formula[i].clause) /\ FollowedBy(i, k)
      BY <1>1, <1>4, <2>1 DEF Holds, Followed
    <3>2. QED BY <1>4, <2>1, <3>1, FollowedOn
  <2>2. CASE \E c : /\ Holding(formula'[i].clause, c)
                    /\ Learns(c) \/ Offers(c) \/ (c \in backlog /\ Record(c))
    <3>1. /\ UNCHANGED <<trail, level, changed>>
          /\ trail[k].decision_level = level /\ changed = formula'[i].clause.parent
          /\ phase' \in {"round", "record"}
      <4>1. PICK c : /\ Holding(formula'[i].clause, c)
                     /\ Learns(c) \/ Offers(c) \/ (c \in backlog /\ Record(c))
        BY <2>2
      <4>2. trail[k].is_decision /\ trail[k].package = formula'[i].clause.parent
        BY <1>1, <1>4
      <4>3. PICK e : e = formula'[i].clause
        OBVIOUS
      <4>4. Asks(e)
        BY <1>1, <4>3
      <4>5. QED BY <1>4, <4>1, <4>2, <4>3, <4>4, GivenFollows
    <3>2. QED BY <1>4, <3>1 DEF FollowedBy, Awaits
  <2>3. QED BY <2>1, <2>2, FormulaMoves, GivenForm DEF SameFormula
<1>5. QED BY <1>1, <1>2, <1>3, <1>4, DecisionsMove

----------------------------------------------------------------------------
(* What the decisions violate. *)

\* A package decided on a trail cut back was decided so on the whole.
LEMMA CutDecided ==
  ASSUME NEW u, WellFormed(u), Firm(u), NEW w, WellFormed(w), Firm(w),
         \A i \in DOMAIN w : i \in DOMAIN u /\ w[i] = u[i],
         NEW p, Decided(w, p), NEW t, Satisfied(w, p, t)
  PROVE  Decided(u, p) /\ Satisfied(u, p, t)
<1>1. PICK k \in DOMAIN w : w[k].package = p /\ w[k].is_decision
  BY DEF Decided, Entries
<1>2. k \in DOMAIN u /\ u[k] = w[k]
  BY <1>1
<1>3. /\ Effective(w, p) = Allowed(w[k]) /\ Positive(w, p) = w[k].cum_positive
  BY <1>1, DecidedForm
<1>4. /\ Effective(u, p) = Allowed(u[k]) /\ Positive(u, p) = u[k].cum_positive
      /\ Assigned(u, p) /\ Decided(u, p)
  BY <1>1, <1>2, DecidedForm
<1>5. QED BY <1>2, <1>3, <1>4 DEF Satisfied

\* A clause that decisions alone violate was violated before the step, unless the
\* step decides one of its packages.
LEMMA ViolationMoves ==
  ASSUME IInv, TrailInv, [Next]_vars, ~Restart, NEW c \in Clause,
         AllDecided(trail', c), Violates(trail', c)
  PROVE  \/ Decide /\ choice.package \in DOMAIN c.terms
         \/ AllDecided(trail, c) /\ Violates(trail, c)
<1>1. WellFormed(trail) /\ Firm(trail) /\ trail \in Seq(Assignment)
  BY DEF IInv, TypeOK, TrailOK, TrailInv, Built
<1>2. WellFormed(trail') /\ Firm(trail')
  BY NextIInv, NextTrailInv DEF IInv, TrailOK, TrailInv, Built
<1>3. ASSUME NEW a \in Assignment, trail' = Append(trail, a),
             a.package \notin DOMAIN c.terms
      PROVE  AllDecided(trail, c) /\ Violates(trail, c)
  <2>1. SUFFICES ASSUME NEW p \in DOMAIN c.terms
                 PROVE  Decided(trail, p) /\ Satisfied(trail, p, c.terms[p])
    BY DEF AllDecided, Violates
  <2>2. p # a.package /\ Decided(trail', p) /\ Satisfied(trail', p, c.terms[p])
    BY <1>3 DEF AllDecided, Violates
  <2>3. Satisfied(trail, p, c.terms[p])
    BY <1>1, <1>3, <2>2, AppendOther DEF Satisfied
  <2>4. PICK j \in DOMAIN trail' : trail'[j].package = p /\ trail'[j].is_decision
    BY <2>2 DEF Decided, Entries
  <2>5. j \in DOMAIN trail /\ trail'[j] = trail[j]
    BY <1>1, <1>3, <2>2, <2>4, AppendIndex
  <2>6. QED BY <2>3, <2>4, <2>5 DEF Decided, Entries
<1>4. CASE UNCHANGED <<trail, level>>
  BY <1>4
<1>5. CASE \E x, p : Derives(x, p)
  <2>1. PICK x, p : Derives(x, p)
    BY <1>5
  <2> DEFINE a == Derivation(trail, level, p, Negate(x.terms[p]), x)
  <2>2. /\ a \in Assignment /\ a.package = p /\ ~a.is_decision
        /\ p \in DOMAIN x.terms /\ trail' = Append(trail, a)
    BY <2>1, DeriveForm DEF Derives
  <2> HIDE DEF a
  <2>3. ~Decided(trail, p)
    <3>1. x.terms[p] \in Term
      BY <2>1, <2>2, ClauseTerms DEF Derives
    <3>2. QED BY <1>1, <2>1, <3>1, DecidedSettled DEF Derives, Open
  <2>4. ~Decided(trail', p)
    <3>1. SUFFICES ASSUME NEW j \in DOMAIN trail', trail'[j].package = p,
                          trail'[j].is_decision
                   PROVE  FALSE
      BY DEF Decided, Entries
    <3>2. j \in DOMAIN trail /\ trail'[j] = trail[j]
      BY <1>1, <2>2, <3>1, AppendIndex
    <3>3. QED BY <2>3, <3>1, <3>2 DEF Decided, Entries
  <2>5. a.package \notin DOMAIN c.terms
    BY <2>2, <2>4 DEF AllDecided
  <2>6. QED BY <1>3, <2>2, <2>5
<1>6. CASE Decide
  <2> DEFINE a == Decision(trail, level + 1, choice.package, choice.version)
  <2>1. a \in Assignment /\ a.package = choice.package /\ trail' = Append(trail, a)
    BY <1>6, DecideForm DEF Decide
  <2> HIDE DEF a
  <2>2. QED BY <1>3, <1>6, <2>1
<1>7. CASE \E target : CutsTo(target)
  <2>1. \A i \in DOMAIN trail' : i \in DOMAIN trail /\ trail'[i] = trail[i]
    BY <1>1, <1>7, CutForm DEF CutsTo
  <2>2. QED BY <1>1, <1>2, <2>1, CutDecided DEF AllDecided, Violates
<1>8. QED BY <1>4, <1>5, <1>6, <1>7, TrailMoves

\* The latest decision, which violates a clause, is not one that a cut keeps.
LEMMA LatestCut ==
  ASSUME IInv, TrailInv, [Next]_vars, NEW target, CutsTo(target),
         NEW p, Latest(p)
  PROVE  ~Decided(trail', p)
<1>1. /\ WellFormed(trail) /\ Firm(trail) /\ level \in Nat
  BY DEF IInv, TypeOK, TrailOK, TrailInv, Built
<1>2. /\ target \in Nat /\ target >= 1 /\ target < level
      /\ trail' = Backtrack(trail, target)
  BY DEF CutsTo
<1>3. PICK k \in DOMAIN trail : /\ trail[k].is_decision /\ trail[k].package = p
                                /\ trail[k].decision_level = level
  BY DEF Latest
<1>4. SUFFICES ASSUME NEW j \in DOMAIN trail', trail'[j].package = p, trail'[j].is_decision
               PROVE  FALSE
  BY DEF Decided, Entries
<1>5. j \in DOMAIN trail /\ trail'[j] = trail[j]
  BY <1>1, <1>2, CutForm
<1>6. j = k
  BY <1>1, <1>3, <1>4, <1>5, DecidedOnce
<1>7. trail[k].decision_level <= target
  BY <1>1, <1>2, <1>5, <1>6, CutForm
<1>8. QED BY <1>1, <1>2, <1>3, <1>7

\* A decision of the current level stays one as long as that level lasts.
LEMMA LatestStays ==
  ASSUME IInv, [Next]_vars, UNCHANGED <<trail, level>> \/ \E c, q : Derives(c, q),
         NEW p, Latest(p)
  PROVE  Latest(p)'
<1>1. CASE UNCHANGED <<trail, level>>
  BY <1>1 DEF Latest
<1>2. CASE \E c, q : Derives(c, q)
  <2>1. PICK c, q : Derives(c, q)
    BY <1>2
  <2> DEFINE a == Derivation(trail, level, q, Negate(c.terms[q]), c)
  <2>2. a \in Assignment /\ trail' = Append(trail, a) /\ level' = level
    BY <2>1, DeriveForm DEF Derives
  <2> HIDE DEF a
  <2>3. WellFormed(trail)
    BY DEF IInv, TrailOK
  <2>4. \A i \in DOMAIN trail : i \in DOMAIN trail' /\ trail'[i] = trail[i]
    BY <2>2, <2>3, LongerForm
  <2>5. QED BY <2>2, <2>4 DEF Latest
<1>3. QED BY <1>1, <1>2

\* A conflict is left only by a jump back.
LEMMA ConflictStays ==
  ASSUME IInv, [Next]_vars, phase \in {"conflict", "failed", "limit"},
         level' = level \/ UNCHANGED <<trail, level>>
  PROVE  phase' \in {"conflict", "failed", "limit"}
<1>1. CASE Backjump
  <2>1. level' < level /\ level' \in Nat /\ level \in Nat
    BY <1>1, BackjumpCuts DEF CutsTo, IInv, TypeOK
  <2>2. QED BY <2>1
<1>2. CASE ~Backjump
  BY <1>2 DEF Next, StartRound, ReachLimit, Propagate, Settle, PassOver, Derive,
     FindConflict, NextPackage, FinishPropagation, LookAt, HandleConflict, GiveUp,
     ResolveStep, PruneCulprits, SkipPruning, Restart, CarryOn, DecideNext, Solve,
     Choose, Absorb, Record, ForceBacktrack, RecordNoVersions, Decide, Terminated, vars
<1>3. QED BY <1>1, <1>2

\* A violated clause is awaited until it is met as a conflict.
LEMMA ViolationOn ==
  ASSUME IInv, TrailInv, CursorOK, [Next]_vars, ~Restart, NEW i \in DOMAIN formula,
         NEW c \in Clause, c = formula[i].clause, AllDecided(trail', c), Violates(trail', c),
         AllDecided(trail, c), Violates(trail, c), NEW p \in DOMAIN c.terms, Latest(p),
         \/ phase \in {"conflict", "failed", "limit"}
         \/ \E q \in DOMAIN c.terms : Awaits(q, i)
  PROVE  /\ Latest(p)'
         /\ \/ phase' \in {"conflict", "failed", "limit"}
            \/ \E q \in DOMAIN c.terms :
                 /\ changed' = q
                 /\ phase' \in {"round", "record"} \/ (phase' = "propagate" /\ i > cursor')
<1>1. ~Decide /\ ~(\E target : CutsTo(target))
  <2>1. ~Decide
    BY DEF Decide, Awaits
  <2>2. ASSUME NEW target, CutsTo(target) PROVE FALSE
    BY <2>2, LatestCut DEF AllDecided
  <2>3. QED BY <2>1, <2>2
<1>2. UNCHANGED <<trail, level>> \/ \E x, q : Derives(x, q)
  BY <1>1, TrailMoves
<1>3. Latest(p)' /\ level' = level
  BY <1>2, LatestStays DEF Derives
<1>4. CASE phase \in {"conflict", "failed", "limit"}
  BY <1>3, <1>4, ConflictStays
<1>5. ASSUME NEW q \in DOMAIN c.terms, Awaits(q, i)
      PROVE  \/ phase' \in {"conflict", "failed", "limit"}
             \/ /\ changed' = q
                /\ phase' \in {"round", "record"} \/ (phase' = "propagate" /\ i > cursor')
  <2>1. ~Settles(trail, c) /\ Open(c) = {}
    BY ViolatedForm
  <2>2. ~(Cardinality(Open(c)) >= 2)
    BY <2>1, FS_EmptySet
  <2>3. ~Derive(i)
    BY <2>1 DEF Derive
  <2>4. QED BY <1>5, <2>1, <2>2, <2>3, AwaitMoves
<1>6. QED BY <1>3, <1>4, <1>5

\* No conflict of decisions is passed over, by what is looked at or by what is added.
LEMMA NextViolation ==
  ASSUME IInv, TrailInv, CursorOK, BacklogOK, Named, RootsKept, ViolationAwaited, [Next]_vars
  PROVE  ViolationAwaited'
<1> DEFINE Awaited(c, i) ==
             \/ phase' \in {"conflict", "failed", "limit"}
             \/ \E q \in DOMAIN c.terms :
                  /\ changed' = q
                  /\ phase' \in {"round", "record"} \/ (phase' = "propagate" /\ i > cursor')
<1>1. SUFFICES ASSUME NEW i \in DOMAIN formula', AllDecided(trail', formula'[i].clause),
                      Violates(trail', formula'[i].clause)
               PROVE  /\ \E p \in DOMAIN formula'[i].clause.terms : Latest(p)'
                      /\ Awaited(formula'[i].clause, i)
  BY DEF ViolationAwaited, Awaits
<1>2. PICK c : c = formula'[i].clause
  OBVIOUS
<1> HIDE DEF Awaited
<1>3. SUFFICES (\E p \in DOMAIN c.terms : Latest(p)') /\ Awaited(c, i)
  BY <1>2
<1> USE DEF Awaited
<1>4. c \in Clause
  BY <1>2, NextIInv DEF IInv, ClausesGood, Good
<1>5. CASE Restart
  <2>1. PICK p \in DOMAIN c.terms : p \in Package
    BY <1>2, NextRoots DEF Named, NamesPackage
  <2>2. PICK k \in DOMAIN trail' : trail'[k].package = p
    BY <1>1, <1>2 DEF AllDecided, Decided, Entries
  <2>3. trail' = <<RootDecision>>
    BY <1>5 DEF Restart
  <2>4. trail'[k] = RootDecision
    BY <2>2, <2>3
  <2>5. p = ROOT
    BY <2>2, <2>4, RootDecisionForm
  <2>6. QED BY <2>1, <2>5, RootAssumption
<1>6. CASE ~Restart /\ i \in DOMAIN formula /\ formula'[i].clause = formula[i].clause
  <2>1. CASE Decide /\ choice.package \in DOMAIN c.terms
    <3>0. PICK p : p = choice.package
      OBVIOUS
    <3> DEFINE a == Decision(trail, level + 1, p, choice.version)
    <3>1. /\ a \in Assignment /\ a.package = p /\ a.is_decision
          /\ a.decision_level = level + 1
      BY <2>1, <3>0, DecideForm
    <3>2. /\ trail' = Append(trail, a) /\ level' = level + 1 /\ changed' = p
          /\ phase' \in {"round", "record"}
      BY <2>1, <3>0 DEF Decide
    <3> HIDE DEF a
    <3>3. Len(trail) + 1 \in DOMAIN trail' /\ trail'[Len(trail) + 1] = a
      BY <3>1, <3>2, LongerForm DEF IInv, TrailOK
    <3>4. Latest(p)'
      BY <3>1, <3>2, <3>3 DEF Latest
    <3>5. QED BY <2>1, <3>0, <3>2, <3>4
  <2>2. CASE AllDecided(trail, c) /\ Violates(trail, c)
    <3>1. /\ \E p \in DOMAIN c.terms : Latest(p)
          /\ \/ phase \in {"conflict", "failed", "limit"}
             \/ \E q \in DOMAIN c.terms : Awaits(q, i)
      BY <1>2, <1>6, <2>2 DEF ViolationAwaited
    <3>2. c = formula[i].clause
      BY <1>2, <1>6
    <3>3. QED BY <1>1, <1>2, <1>4, <1>6, <2>2, <3>1, <3>2, ViolationOn
  <2>3. QED BY <1>1, <1>2, <1>4, <1>6, <2>1, <2>2, ViolationMoves
<1>7. ASSUME NEW b, Holding(c, b), Learns(b) PROVE FALSE
  <2>1. c = b /\ b = Learned /\ Backjump
    BY <1>7, AddedWhole DEF Learns
  <2>2. /\ trail' = Backtrack(trail, BackjumpTarget(c.terms)) /\ c.terms \in TermMap
        /\ Reached(trail, c.terms) /\ ~Terminal(c.terms) /\ CanBackjump(c.terms)
    BY <2>1, BackjumpCuts DEF Backjump
  <2>3. \E p \in DOMAIN c.terms : ~Satisfied(trail', p, c.terms[p])
    BY <2>2, JumpAsserts
  <2>4. QED BY <1>1, <1>2, <2>3 DEF Violates
<1>8. ASSUME NEW b, Holding(c, b), Offers(b) PROVE FALSE
  <2>1. phase = "absorb" /\ trail' = trail /\ choice.package \in DOMAIN c.terms
    BY <1>8 DEF Offers, Holding
  <2>2. ~Decided(trail, choice.package)
    BY <2>1 DEF TrailInv, ChoiceOpen, Undecided
  <2>3. QED BY <1>1, <1>2, <2>1, <2>2 DEF AllDecided
<1>9. ASSUME NEW b \in backlog, Holding(c, b), Record(b)
      PROVE  (\E p \in DOMAIN c.terms : Latest(p)') /\ Awaited(c, i)
  <2>1. /\ phase = "record" /\ UNCHANGED <<trail, level, changed>>
        /\ phase' \in {"round", "record"}
    BY <1>9 DEF Record, solution, propagation
  <2>2. b.cause = "DEPENDENCY" /\ b.parent = changed
    BY <2>1 DEF BacklogOK
  <2>3. PICK q \in DOMAIN c.terms : q = changed
    <3>1. b.parent \in DOMAIN b.terms
      BY <2>2 DEF IInv, ClausesGood, Good, Shape
    <3>2. QED BY <1>9, <2>2, <3>1 DEF Holding
  <2>4. Latest(q)'
    BY <2>1, <2>3 DEF BacklogOK, Latest
  <2>5. QED BY <2>1, <2>3, <2>4
<1>10. QED BY <1>5, <1>6, <1>7, <1>8, <1>9, <1>2, FormulaMoves, GivenForm DEF SameFormula

----------------------------------------------------------------------------
(* The second invariant. *)

\* At the start ROOT is decided and its requirements are awaited.
LEMMA InitSearchInv == Init => SearchInv
<1> SUFFICES ASSUME Init PROVE SearchInv
  OBVIOUS
<1>1. /\ problem \in ProblemType /\ phase = "round" /\ cursor = 0 /\ changed = ROOT
      /\ trail = <<RootDecision>> /\ level = 1 /\ backlog = {} /\ conflict = NoConflict
      /\ formula = [i \in DOMAIN problem.root |-> Fresh(RootClause(problem.root[i]))]
      /\ recorded = [p \in Package |-> [v \in Version |-> NoRange]]
  BY ProblemsAssumption DEF Init
<1>2. /\ DOMAIN formula = DOMAIN problem.root
      /\ \A i \in DOMAIN formula : formula[i].clause = RootClause(problem.root[i])
  BY <1>1 DEF Fresh
<1>3. \A i \in DOMAIN problem.root : problem.root[i].package \in Package
  BY <1>1, ProblemForm
<1>4. /\ DOMAIN trail = {1} /\ trail[1] = RootDecision
      /\ RootDecision.package = ROOT /\ RootDecision.decision_level = 1
  BY <1>1, RootDecisionForm
<1>5. CursorOK /\ BacklogOK /\ NoneLeft
  BY <1>1 DEF CursorOK, BacklogOK, NoneLeft, NoConflict
<1>6. RootsKept /\ Named
  <2>1. ASSUME NEW i \in DOMAIN formula
        PROVE  problem.root[i].package \in DOMAIN formula[i].clause.terms
    <3>1. formula[i].clause.terms = RootClause(problem.root[i]).terms
      BY <1>2
    <3>2. DOMAIN RootClause(problem.root[i]).terms = {ROOT, problem.root[i].package}
      BY DEF RootClause
    <3>3. QED BY <3>1, <3>2
  <2>2. QED BY <1>2, <1>3, <2>1 DEF RootsKept, Named, NamesPackage
<1>7. RecordedKnown /\ DecidedRecorded
  BY <1>1, <1>4 DEF RecordedKnown, DecidedRecorded
<1>8. Followed
  <2>1. SUFFICES ASSUME NEW i \in DOMAIN formula, NEW k \in DOMAIN trail,
                        Holds(k, formula[i].clause)
                 PROVE  FollowedBy(i, k)
    BY DEF Followed, FollowedBy
  <2>2. trail[k] = RootDecision
    BY <1>4
  <2>3. trail[k].decision_level = level /\ formula[i].clause.parent = ROOT
    BY <1>1, <1>4, <2>1, <2>2 DEF Holds
  <2>4. QED BY <1>1, <2>3 DEF FollowedBy, Awaits
<1>9. ViolationAwaited
  <2>1. ASSUME NEW i \in DOMAIN formula, AllDecided(trail, formula[i].clause) PROVE FALSE
    <3>1. PICK p \in DOMAIN formula[i].clause.terms : p \in Package
      BY <1>6 DEF Named, NamesPackage
    <3>2. PICK k \in DOMAIN trail : trail[k].package = p
      BY <2>1 DEF AllDecided, Decided, Entries
    <3>3. p = ROOT
      BY <1>4, <3>2
    <3>4. QED BY <3>1, <3>3, RootAssumption
  <2>2. QED BY <2>1 DEF ViolationAwaited
<1>10. QED BY <1>5, <1>6, <1>7, <1>8, <1>9 DEF SearchInv, FormulaInv

LEMMA NextSearchInv ==
  ASSUME IInv, TrailInv, SearchInv, [Next]_vars
  PROVE  SearchInv'
<1>1. /\ CursorOK /\ BacklogOK /\ NoneLeft /\ Followed /\ ViolationAwaited
      /\ RootsKept /\ Named /\ RecordedKnown /\ DecidedRecorded
  BY DEF SearchInv, FormulaInv
<1>2. CursorOK' /\ BacklogOK' /\ NoneLeft'
  BY <1>1, NextCursor, NextBacklog, NextNoneLeft
<1>3. RootsKept' /\ Named' /\ RecordedKnown' /\ DecidedRecorded'
  BY <1>1, NextRoots, NextRecorded, NextDecided
<1>4. Followed' /\ ViolationAwaited'
  BY <1>1, NextFollowed, NextViolation
<1>5. QED BY <1>2, <1>3, <1>4 DEF SearchInv, FormulaInv

\* In every reachable state what the decisions ask for is in the formula, derived or
\* due, and no conflict of theirs has been passed over.
THEOREM SearchInvariance == Spec => [](IInv /\ TrailInv /\ SearchInv)
<1>1. Init => IInv /\ TrailInv /\ SearchInv
  BY InitIInv, InitTrailInv, InitSearchInv
<1>2. IInv /\ TrailInv /\ SearchInv /\ [Next]_vars => (IInv /\ TrailInv /\ SearchInv)'
  BY NextIInv, NextTrailInv, NextSearchInv
<1>3. QED BY <1>1, <1>2, PTL DEF Spec

----------------------------------------------------------------------------
(* What the decisions amount to. *)

\* The version a package is decided at, by the one entry that decides it.
LEMMA DecidedVersionForm ==
  ASSUME NEW u, WellFormed(u), Firm(u), NEW p, Decided(u, p)
  PROVE  LET v == DecidedVersion(u, p) IN
         /\ v \in Version /\ Effective(u, p) = {v}
         /\ \E k \in DOMAIN u : /\ u[k].is_decision /\ u[k].package = p
                                /\ u[k].cum_positive = {v} /\ Allowed(u[k]) = {v}
<1> DEFINE v == DecidedVersion(u, p)
<1>1. PICK k \in DOMAIN u : u[k].package = p /\ u[k].is_decision
  BY DEF Decided, Entries
<1>2. PICK x \in Version : u[k].cum_positive = {x} /\ Allowed(u[k]) = {x}
  BY <1>1 DEF Firm
<1>3. v \in Version /\ \E i \in Entries(u, p) : u[i].is_decision /\ u[i].cum_positive = {v}
  BY <1>1, <1>2 DEF DecidedVersion, Entries
<1> HIDE DEF v
<1>4. PICK i \in DOMAIN u : /\ u[i].package = p /\ u[i].is_decision
                            /\ u[i].cum_positive = {v}
  BY <1>3 DEF Entries
<1>5. /\ Effective(u, p) = Allowed(u[i])
      /\ \E y \in Version : u[i].cum_positive = {y} /\ Allowed(u[i]) = {y}
  BY <1>4, DecidedForm
<1>6. Allowed(u[i]) = {v}
  BY <1>4, <1>5
<1>7. QED BY <1>3, <1>4, <1>5, <1>6 DEF v

\* Every decided version has its requirements in the formula, through merges,
\* backtracks and restarts (recorded_dependencies, maybe_merge_dependency).
THEOREM DependenciesAreKnown == Spec => []DependenciesKnown
<1>1. ASSUME IInv, TrailInv, SearchInv PROVE DependenciesKnown
  <2>1. SUFFICES ASSUME phase \in {"round", "propagate", "decide", "solved"},
                        NEW p \in Package, Decided(trail, p),
                        NEW d \in Requires(problem, p, DecidedVersion(trail, p)) \ {p}
                 PROVE  \E cl \in Clauses :
                          /\ cl.cause = "DEPENDENCY" /\ cl.parent = p
                          /\ DOMAIN cl.terms = {p, d}
                          /\ DecidedVersion(trail, p) \in ParentRange(cl)
                          /\ cl.terms[d] = NotIn(problem.deps[p][DecidedVersion(trail, p)][d])
    BY DEF DependenciesKnown
  <2> DEFINE v == DecidedVersion(trail, p)
  <2>2. PICK k \in DOMAIN trail : /\ trail[k].is_decision /\ trail[k].package = p
                                  /\ trail[k].cum_positive = {v}
    BY <1>1, <2>1, DecidedVersionForm DEF IInv, TrailOK, TrailInv, Built
  <2>3. v \in Version
    BY <1>1, <2>1, DecidedVersionForm DEF IInv, TrailOK, TrailInv, Built
  <2> HIDE DEF v
  <2>4. p # ROOT /\ d \in Requires(problem, p, v) /\ d # p
    BY <2>1, RootAssumption DEF v
  <2>5. recorded[p][v] # NoRange
    BY <1>1, <2>2, <2>3, <2>4 DEF SearchInv, FormulaInv, DecidedRecorded
  <2>6. d \in Demands(problem, p, v)
    BY <2>4 DEF Demands
  <2>7. PICK i \in DOMAIN formula : States(problem, formula[i].clause, p, v, d)
    BY <1>1, <2>1, <2>3, <2>5, <2>6 DEF SearchInv, FormulaInv, RecordedKnown
  <2>8. formula[i].clause \in Clauses
    BY DEF Clauses
  <2>9. QED BY <2>4, <2>7, <2>8 DEF States, v
<1>2. QED BY <1>1, SearchInvariance, PTL

\* When a decision is due, what a decided package asks for is in force.
LEMMA AskedInForce ==
  ASSUME IInv, TrailInv, SearchInv, phase \in {"decide", "solved"},
         NEW i \in DOMAIN formula, NEW k \in DOMAIN trail,
         Asks(formula[i].clause), Holds(k, formula[i].clause)
  PROVE  LET c == formula[i].clause IN
         \E q \in DOMAIN c.terms \ {c.parent} : InForce(q, c.terms[q].constraint)
<1> DEFINE c == formula[i].clause
           l == trail[k].decision_level
           w == Backtrack(trail, l)
<1>1. /\ WellFormed(trail) /\ Firm(trail) /\ c \in Clause /\ l \in Nat /\ l >= 1
  BY TrailForm DEF IInv, TrailOK, TrailInv, Built, ClausesGood, Good
<1>2. Answered(w, c)
  <2>1. ~Awaits(c.parent, i)
    BY DEF Awaits
  <2>2. ~\E j \in DOMAIN trail : Emptied(trail[j])
    BY DEF IInv, EmptiedOnTop
  <2>3. FollowedBy(i, k)
    BY DEF SearchInv, Followed
  <2>4. QED BY <2>1, <2>2, <2>3 DEF FollowedBy
<1>3. Asks(c)
  OBVIOUS
<1> HIDE DEF c, l
<1>4. PICK q \in DOMAIN c.terms \ {c.parent} : Contradicted(w, q, c.terms[q])
  BY <1>2 DEF Answered
<1>5. c.terms[q] \in Term /\ ~c.terms[q].positive
  BY <1>1, <1>3, <1>4, ClauseTerms DEF Asks
<1>6. /\ WellFormed(w) /\ w \in Seq(Assignment)
      /\ \A m \in DOMAIN w : m \in DOMAIN trail /\ w[m] = trail[m]
  BY <1>1, CutForm DEF WellFormed
<1> HIDE DEF w
<1>7. /\ Assigned(w, q) /\ Positive(w, q) # NoRange
      /\ Effective(w, q) \subseteq c.terms[q].constraint
  BY <1>4, <1>5, NegateForm DEF Contradicted, Contradicts, Satisfies
<1>8. PICK m \in Entries(w, q) : LastOf(w, q) = w[m]
  BY <1>6, <1>7, LastEntry
<1>9. /\ m \in Entries(trail, q) /\ Effective(w, q) = Allowed(trail[m])
      /\ trail[m].cum_positive # NoRange
  BY <1>6, <1>7, <1>8 DEF Entries, Effective, Positive
<1>10. /\ Effective(trail, q) \subseteq c.terms[q].constraint
       /\ Positive(trail, q) # NoRange
  BY <1>1, <1>7, <1>9, LastNarrowest
<1>11. QED BY <1>4, <1>10 DEF c, InForce

\* What the roots and the decided versions require is in force when a decision is due,
\* and when none is left to take.
LEMMA RequiredInForce ==
  ASSUME IInv, TrailInv, SearchInv, phase \in {"decide", "solved"}
  PROVE  /\ \A i \in DOMAIN problem.root :
              InForce(problem.root[i].package, problem.root[i].constraint)
         /\ \A p \in Package : Decided(trail, p) =>
              /\ DecidedVersion(trail, p) \in Selectable(problem, p)
              /\ \A d \in Requires(problem, p, DecidedVersion(trail, p)) :
                   InForce(d, problem.deps[p][DecidedVersion(trail, p)][d])
<1>1. /\ WellFormed(trail) /\ Firm(trail) /\ problem \in ProblemType
  BY DEF IInv, TypeOK, TrailOK, TrailInv, Built
<1>2. ASSUME NEW i \in DOMAIN problem.root
      PROVE  InForce(problem.root[i].package, problem.root[i].constraint)
  <2> DEFINE r == problem.root[i]
             c == formula[i].clause
  <2>1. i \in DOMAIN formula /\ c = RootClause(r)
    BY DEF SearchInv, FormulaInv, RootsKept
  <2>2. r.package \in Package /\ r.package # ROOT
    BY <1>1, ProblemForm, RootAssumption
  <2> HIDE DEF r
  <2>3. /\ c.cause = "ROOT" /\ c.parent = ROOT /\ DOMAIN c.terms = {ROOT, r.package}
        /\ c.terms[ROOT] = In({RootVersion}) /\ c.terms[r.package] = NotIn(r.constraint)
    BY <2>1, <2>2 DEF RootClause
  <2> HIDE DEF c
  <2>4. /\ c.terms[ROOT].positive /\ ParentRange(c) = {RootVersion}
        /\ ~c.terms[r.package].positive /\ c.terms[r.package].constraint = r.constraint
    BY <2>3 DEF In, NotIn, ParentRange
  <2>5. Asks(c)
    BY <2>2, <2>3, <2>4 DEF Asks
  <2>6. /\ 1 \in DOMAIN trail /\ trail[1].package = ROOT /\ trail[1].is_decision
        /\ Allowed(trail[1]) = {RootVersion}
    BY <1>1, TrailForm, RootForm DEF WellFormed, Rooted
  <2>7. Holds(1, c)
    BY <2>3, <2>4, <2>6 DEF Holds
  <2>8. \E q \in DOMAIN c.terms \ {ROOT} : InForce(q, c.terms[q].constraint)
    BY <2>1, <2>3, <2>5, <2>6, <2>7, AskedInForce DEF c
  <2>9. InForce(r.package, r.constraint)
    BY <2>2, <2>3, <2>4, <2>8
  <2>10. QED BY <2>9 DEF r
<1>3. ASSUME NEW p \in Package, Decided(trail, p)
      PROVE  /\ DecidedVersion(trail, p) \in Selectable(problem, p)
             /\ \A d \in Requires(problem, p, DecidedVersion(trail, p)) :
                   InForce(d, problem.deps[p][DecidedVersion(trail, p)][d])
  <2> DEFINE v == DecidedVersion(trail, p)
  <2>1. v \in Version /\ Effective(trail, p) = {v}
    BY <1>1, <1>3, DecidedVersionForm
  <2>2. PICK k \in DOMAIN trail : /\ trail[k].is_decision /\ trail[k].package = p
                                  /\ trail[k].cum_positive = {v}
                                  /\ Allowed(trail[k]) = {v}
    BY <1>1, <1>3, DecidedVersionForm
  <2> HIDE DEF v
  <2>3. /\ v \in Selectable(problem, p)
        /\ Requires(problem, p, v) = {} \/ recorded[p][v] # NoRange
    BY <2>1, <2>2, RootAssumption DEF SearchInv, FormulaInv, DecidedRecorded
  <2>4. ASSUME NEW d \in Requires(problem, p, v)
        PROVE  InForce(d, problem.deps[p][v][d])
    <3>1. CASE d \in Demands(problem, p, v)
      <4>1. PICK i \in DOMAIN formula : States(problem, formula[i].clause, p, v, d)
        BY <2>1, <2>3, <2>4, <3>1 DEF SearchInv, FormulaInv, RecordedKnown
      <4> DEFINE c == formula[i].clause
      <4>2. c \in Clause /\ Shape(c)
        BY DEF IInv, ClausesGood, Good
      <4>3. /\ c.cause = "DEPENDENCY" /\ c.parent = p /\ DOMAIN c.terms = {p, d}
            /\ v \in ParentRange(c)
            /\ d # p => c.terms[d] = NotIn(problem.deps[p][v][d])
        BY <4>1 DEF States
      <4> HIDE DEF c
      <4>4. d # p => /\ ~c.terms[d].positive
                     /\ c.terms[d].constraint = problem.deps[p][v][d]
        BY <4>3 DEF NotIn
      <4>5. Asks(c)
        BY <4>2, <4>3, <4>4 DEF Asks, Shape
      <4>6. Holds(k, c)
        BY <2>2, <4>3 DEF Holds
      <4>7. \E q \in DOMAIN c.terms \ {p} : InForce(q, c.terms[q].constraint)
        BY <4>3, <4>5, <4>6, AskedInForce DEF c
      <4>8. QED BY <4>3, <4>4, <4>7
    <3>2. CASE d \notin Demands(problem, p, v)
      <4>1. d = p /\ v \in problem.deps[p][v][d]
        BY <2>4, <3>2 DEF Demands
      <4>2. trail[k].cum_positive # NoRange /\ k \in Entries(trail, p)
        BY <2>1, <2>2, NoRangeAssumption DEF Entries
      <4>3. Positive(trail, p) # NoRange
        BY <1>1, <4>2, LastNarrowest
      <4>4. QED BY <2>1, <4>1, <4>3 DEF InForce
    <3>3. QED BY <3>1, <3>2
  <2>5. QED BY <2>3, <2>4 DEF v
<1>4. QED BY <1>2, <1>3

\* When a decision is due, all that the roots and the decided versions require is in
\* force, through every merge, stamp, jump and repeated decision (propagate.py;
\* recorded_dependencies in decide.py).
THEOREM RequirementsInForce == Spec => []RequirementsDerived
<1>1. ASSUME IInv, TrailInv, SearchInv PROVE RequirementsDerived
  BY <1>1, RequiredInForce DEF RequirementsDerived
<1>2. QED BY <1>1, SearchInvariance, PTL

\* What the decisions say of a package.
LEMMA DecisionsForm ==
  ASSUME IInv, TrailInv
  PROVE  /\ Decisions \in [Package -> Version \cup {Absent}]
         /\ \A p \in Package :
              /\ Decided(trail, p) <=> Decisions[p] # Absent
              /\ Decided(trail, p) => /\ Decisions[p] = DecidedVersion(trail, p)
                                      /\ Decisions[p] \in Version
                                      /\ Effective(trail, p) = {Decisions[p]}
<1>1. WellFormed(trail) /\ Firm(trail)
  BY DEF IInv, TrailOK, TrailInv, Built
<1>2. ASSUME NEW p \in Package, Decided(trail, p)
      PROVE  /\ Decisions[p] = DecidedVersion(trail, p) /\ Decisions[p] \in Version
             /\ Decisions[p] # Absent /\ Effective(trail, p) = {Decisions[p]}
  BY <1>1, <1>2, DecidedVersionForm, AbsentAssumption DEF Decisions
<1>3. ASSUME NEW p \in Package, ~Decided(trail, p) PROVE Decisions[p] = Absent
  BY <1>3 DEF Decisions
<1>4. Decisions \in [Package -> Version \cup {Absent}]
  BY <1>2, <1>3 DEF Decisions
<1>5. QED BY <1>2, <1>3, <1>4

\* Once nothing is undecided the decisions are a solution: the versions decided meet
\* the root requirements, can be selected, and have what they require decided.
LEMMA DecisionsSolve ==
  ASSUME IInv, TrailInv, SearchInv, phase \in {"decide", "solved"}, Undecided(trail) = {}
  PROVE  IsSolution(problem, Decisions)
<1>1. problem \in ProblemType
  BY DEF IInv, TypeOK
<1>2. ASSUME NEW d \in Package, NEW range, InForce(d, range) PROVE Decisions[d] \in range
  <2>1. Decided(trail, d)
    BY <1>2 DEF InForce, Undecided
  <2>2. QED BY <1>2, <2>1, DecisionsForm DEF InForce
<1>3. ASSUME NEW i \in DOMAIN problem.root
      PROVE  Decisions[problem.root[i].package] \in problem.root[i].constraint
  <2>1. problem.root[i].package \in Package
    BY <1>1, ProblemForm
  <2>2. QED BY <1>2, <2>1, RequiredInForce
<1>4. ASSUME NEW p \in Package, Decisions[p] # Absent
      PROVE  /\ Decisions[p] \in Selectable(problem, p)
             /\ \A d \in Requires(problem, p, Decisions[p]) :
                   Decisions[d] \in problem.deps[p][Decisions[p]][d]
  <2>1. Decided(trail, p) /\ Decisions[p] = DecidedVersion(trail, p)
    BY <1>4, DecisionsForm
  <2>2. ASSUME NEW d \in Requires(problem, p, Decisions[p])
        PROVE  Decisions[d] \in problem.deps[p][Decisions[p]][d]
    <3>1. d \in Package
      BY DEF Requires
    <3>2. InForce(d, problem.deps[p][Decisions[p]][d])
      BY <2>1, <2>2, RequiredInForce
    <3>3. QED BY <1>2, <3>1, <3>2
  <2>3. QED BY <2>1, <2>2, RequiredInForce
<1>5. QED BY <1>3, <1>4, DecisionsForm DEF IsSolution

\* Propagation overlooks no conflict that decisions alone explain: none is left when
\* a solution is returned, and one that is left when a decision is due has a package
\* still to decide (propagate.py).
THEOREM NoConflictIsMissed == Spec => []NoConflictMissed
<1>1. ASSUME IInv, TrailInv, SearchInv PROVE NoConflictMissed
  <2>1. SUFFICES ASSUME NEW i \in DOMAIN formula, Violated(formula[i].clause)
                 PROVE  /\ phase # "solved"
                        /\ phase = "decide" =>
                             \E p \in DOMAIN formula[i].clause.terms : ~Decided(trail, p)
    BY DEF NoConflictMissed, Clauses
  <2> DEFINE c == formula[i].clause
  <2>2. Violates(trail, c) /\ c \in Clause /\ Excludes(Solutions(problem), c)
    BY <1>1, <2>1, ViolatedForm DEF IInv, ClausesGood, Good
  <2>3. ASSUME phase = "decide", AllDecided(trail, c) PROVE FALSE
    BY <1>1, <2>2, <2>3 DEF SearchInv, ViolationAwaited, Awaits
  <2>4. ASSUME phase = "solved" PROVE FALSE
    <3>1. Undecided(trail) = {}
      BY <1>1, <2>4 DEF SearchInv, NoneLeft
    <3>2. IsSolution(problem, Decisions)
      BY <1>1, <2>4, <3>1, DecisionsSolve
    <3>3. ~AllHold(Decisions, c.terms)
      BY <2>2, <3>2, ExcludesForm
    <3>4. PICK p \in DOMAIN c.terms : ~TermHolds(Decisions, p, c.terms[p])
      BY <3>3 DEF AllHold
    <3> HIDE DEF c
    <3>5. c.terms[p] \in Term /\ p \in Node /\ Satisfied(trail, p, c.terms[p])
      BY <2>2, ClauseTerms DEF Violates
    <3> DEFINE t == c.terms[p]
    <3>6. t.constraint \in SUBSET Version
      BY <3>5 DEF Term, Ranges
    <3> HIDE DEF t
    <3>7. CASE p = ROOT
      <4>1. Effective(trail, p) = {RootVersion}
        BY <1>1, <3>7, RootForm DEF IInv, TrailOK
      <4>2. QED BY <3>4, <3>5, <3>7, <4>1 DEF Satisfied, Satisfies, TermHolds, Selected, t
    <3>8. CASE p \in Package /\ Decided(trail, p)
      <4>1. Effective(trail, p) = {Decisions[p]} /\ p # ROOT
        BY <1>1, <3>8, DecisionsForm, RootAssumption
      <4>2. QED BY <3>4, <3>5, <4>1 DEF Satisfied, Satisfies, TermHolds, Selected, t
    <3>9. CASE p \in Package /\ ~Decided(trail, p)
      <4>1. Positive(trail, p) = NoRange
        BY <3>1, <3>9 DEF Undecided
      <4>2. ~t.positive
        BY <3>5, <4>1 DEF Satisfied, t
      <4>3. Decisions[p] = Absent /\ p # ROOT
        BY <1>1, <3>9, DecisionsForm, RootAssumption
      <4>4. Absent \notin t.constraint
        BY <3>6, AbsentAssumption
      <4>5. QED BY <3>4, <4>2, <4>3, <4>4 DEF TermHolds, Selected, t
    <3>10. QED BY <3>5, <3>7, <3>8, <3>9 DEF Node
  <2>5. QED BY <2>3, <2>4 DEF AllDecided
<1>2. QED BY <1>1, SearchInvariance, PTL

----------------------------------------------------------------------------
(* What is returned. *)

\* Cut down to what the roots reach, a solution stays one, with nothing unneeded.
LEMMA ReachableSolves ==
  ASSUME NEW prob \in ProblemType, NEW sel, IsSolution(prob, sel),
         NEW cut, cut = [p \in Package |-> IF p \in Reachable(prob, sel) THEN sel[p]
                                           ELSE Absent]
  PROVE  /\ cut \in Solutions(prob)
         /\ {p \in Package : cut[p] # Absent} = Reachable(prob, cut)
<1> DEFINE HasRoots(S) == \A i \in DOMAIN prob.root : prob.root[i].package \in S
           Closed(s, S) == \A p \in S : s[p] # Absent => Requires(prob, p, s[p]) \subseteq S
           R == Reachable(prob, sel)
<1>1. ASSUME NEW s
      PROVE  \A p : p \in Reachable(prob, s) <=>
               p \in Package /\ \A S \in SUBSET Package : HasRoots(S) /\ Closed(s, S) => p \in S
  BY Zenon DEF Reachable
<1>2. /\ sel \in [Package -> Version \cup {Absent}]
      /\ \A i \in DOMAIN prob.root : sel[prob.root[i].package] \in prob.root[i].constraint
      /\ \A p \in Package : sel[p] # Absent =>
            /\ sel[p] \in Selectable(prob, p)
            /\ \A d \in Requires(prob, p, sel[p]) : sel[d] \in prob.deps[p][sel[p]][d]
  BY DEF IsSolution
<1>3. \A i \in DOMAIN prob.root : /\ prob.root[i].package \in Package
                                  /\ prob.root[i].constraint \in SUBSET Version
  BY ProblemForm DEF Ranges
<1>4. R \subseteq Package /\ HasRoots(R)
  BY <1>1, <1>3
<1>5. Closed(sel, R)
  <2>1. SUFFICES ASSUME NEW p \in R, sel[p] # Absent, NEW d \in Requires(prob, p, sel[p])
                 PROVE  d \in R
    OBVIOUS
  <2>2. d \in Package
    BY DEF Requires
  <2>3. ASSUME NEW S \in SUBSET Package, HasRoots(S), Closed(sel, S) PROVE d \in S
    <3>1. p \in S
      BY <1>1, <2>3
    <3>2. QED BY <2>1, <2>3, <3>1
  <2>4. QED BY <1>1, <2>2, <2>3
<1>6. \A p \in R : sel[p] # Absent
  <2> DEFINE S == {p \in Package : sel[p] # Absent}
  <2>1. HasRoots(S)
    BY <1>2, <1>3, AbsentAssumption
  <2>2. ASSUME NEW p \in S, NEW d \in Requires(prob, p, sel[p]) PROVE d \in S
    <3>1. d \in Package /\ p \in Package /\ sel[p] # Absent
      BY <2>2 DEF Requires
    <3>2. sel[p] \in Version
      BY <1>2, <3>1
    <3>3. prob.deps[p][sel[p]][d] \in SUBSET Version
      BY <2>2, <3>1, <3>2, RequiresForm DEF Ranges
    <3>4. sel[d] \in prob.deps[p][sel[p]][d]
      BY <1>2, <2>2, <3>1
    <3>5. QED BY <3>1, <3>3, <3>4, AbsentAssumption
  <2>3. Closed(sel, S) /\ S \in SUBSET Package
    BY <2>2
  <2>4. R \subseteq S
    BY <1>1, <2>1, <2>3
  <2>5. QED BY <2>4
<1> HIDE DEF R
<1>7. /\ cut \in [Package -> Version \cup {Absent}]
      /\ \A p \in R : cut[p] = sel[p] /\ cut[p] # Absent
      /\ \A p \in Package \ R : cut[p] = Absent
  <2>1. cut = [p \in Package |-> IF p \in R THEN sel[p] ELSE Absent]
    BY DEF R
  <2>2. QED BY <1>2, <1>4, <1>6, <2>1
<1>8. IsSolution(prob, cut)
  <2>1. \A i \in DOMAIN prob.root : cut[prob.root[i].package] \in prob.root[i].constraint
    BY <1>2, <1>4, <1>7
  <2>2. ASSUME NEW p \in Package, cut[p] # Absent
        PROVE  /\ cut[p] \in Selectable(prob, p)
               /\ \A d \in Requires(prob, p, cut[p]) : cut[d] \in prob.deps[p][cut[p]][d]
    <3>1. p \in R /\ cut[p] = sel[p] /\ sel[p] # Absent
      BY <1>7, <2>2
    <3>2. \A d \in Requires(prob, p, sel[p]) : d \in R
      BY <1>5, <3>1
    <3>3. QED BY <1>2, <1>7, <3>1, <3>2
  <2>3. QED BY <1>7, <2>1, <2>2 DEF IsSolution
<1>9. cut \in Solutions(prob)
  BY <1>7, <1>8 DEF Solutions
<1>10. R \subseteq Reachable(prob, cut)
  <2>1. SUFFICES ASSUME NEW p \in R, NEW S \in SUBSET Package, HasRoots(S), Closed(cut, S)
                 PROVE  p \in S
    BY <1>1, <1>4
  <2> DEFINE T == S \cap R
  <2>2. T \in SUBSET Package /\ HasRoots(T)
    BY <1>4, <2>1
  <2>3. Closed(sel, T)
    BY <1>5, <1>7, <2>1
  <2>4. p \in T
    BY <1>1, <2>2, <2>3 DEF R
  <2>5. QED BY <2>4
<1>11. Reachable(prob, cut) \subseteq R
  <2>1. Closed(cut, R)
    BY <1>5, <1>7
  <2>2. QED BY <1>1, <1>4, <2>1
<1>12. {p \in Package : cut[p] # Absent} = R
  BY <1>4, <1>7
<1>13. QED BY <1>9, <1>10, <1>11, <1>12

\* The promise speaks of the same solutions.
LEMMA PromiseTerms ==
  /\ \A prob : Promise!Solutions(prob) = Solutions(prob)
  /\ \A prob, sel : Promise!Reachable(prob, sel) = Reachable(prob, sel)
<1>1. \A prob, p, v : Promise!Requires(prob, p, v) = Requires(prob, p, v)
  BY Zenon DEF Promise!Requires, Requires
<1>2. \A prob, sel : Promise!IsSolution(prob, sel) <=> IsSolution(prob, sel)
  BY <1>1, Zenon DEF Promise!IsSolution, IsSolution, Promise!Selectable, Selectable
<1>3. \A prob : Promise!Solutions(prob) = Solutions(prob)
  BY <1>2, Zenon DEF Promise!Solutions, Solutions
<1>4. \A prob, sel : Promise!Reachable(prob, sel) = Reachable(prob, sel)
  BY <1>1, Zenon DEF Promise!Reachable, Reachable
<1>5. QED BY <1>3, <1>4

\* Whatever the solver returns or raises is what Resolution allows: a selection that is
\* a solution with nothing unneeded in it, or an error where there is no solution
\* (resolver.py, solve; builder.py's build_solution_data).
THEOREM ResolutionPromised == Spec => KeepsPromise
<1>1. ASSUME Init PROVE Promise!Init
  <2>1. phase = "round" /\ phase \notin Finished /\ phase # "solved"
    BY <1>1 DEF Init, Finished
  <2>2. QED BY <1>1, <2>1 DEF Init, Promise!Init, Promise!NoPins
<1>2. ASSUME IInv, TrailInv, SearchInv, [Next]_vars PROVE [Promise!Next]_(Promise!vars)
  <2>1. problem' = problem
    BY <1>2, ProblemFixed
  <2>2. CASE UNCHANGED vars
    BY <2>2 DEF vars, solution, Promise!vars, Pins, Decisions
  <2>3. CASE phase' \notin Finished /\ phase \notin Finished
    BY <2>1, <2>3 DEF Promise!vars, Finished
  <2>4. CASE Solve
    <3>1. /\ phase = "decide" /\ phase' = "solved" /\ Undecided(trail) = {}
          /\ trail' = trail
      BY <2>4 DEF Solve, solution
    <3>2. Pins' = Pins
      BY <2>1, <3>1 DEF Pins, Decisions
    <3>3. IsSolution(problem, Decisions) /\ problem \in ProblemType
      BY <1>2, <3>1, DecisionsSolve DEF IInv, TypeOK
    <3>4. /\ Pins \in Solutions(problem)
          /\ {p \in Package : Pins[p] # Absent} = Reachable(problem, Pins)
      BY <3>3, ReachableSolves DEF Pins
    <3>5. Pins \in {sel \in Promise!Solutions(problem) :
                      {p \in Package : sel[p] # Absent} = Promise!Reachable(problem, sel)}
      BY <3>4, PromiseTerms, Zenon
    <3>6. phase \notin Finished /\ phase' \in Finished
      BY <3>1 DEF Finished
    <3>7. Promise!ReturnSolution
      BY <2>1, <3>1, <3>2, <3>5, <3>6 DEF Promise!ReturnSolution
    <3>8. QED BY <3>7 DEF Promise!Next
  <2>5. CASE GiveUp
    <3>1. phase = "conflict" /\ phase' = "failed" /\ Terminal(conflict.clause.terms)
      BY <2>5 DEF GiveUp
    <3>2. Solutions(problem) = {}
      BY <1>2, <3>1, TerminalRefutes DEF IInv, TrailOK, ConflictOK
    <3>3. Promise!Solutions(problem) = {}
      BY <3>2, PromiseTerms
    <3>4. phase \notin Finished /\ phase' \in Finished
      BY <3>1 DEF Finished
    <3>5. Promise!RaiseUnsatisfiable
      BY <2>1, <3>1, <3>3, <3>4 DEF Promise!RaiseUnsatisfiable
    <3>6. QED BY <3>5 DEF Promise!Next
  <2>6. CASE ReachLimit
    BY <2>1, <2>6 DEF ReachLimit, Promise!Next, Promise!RaiseTooDeep, Finished
  <2>7. phase \in Finished => UNCHANGED vars
    BY <1>2 DEF Finished, Next, StartRound, ReachLimit, Propagate, Settle, PassOver,
       Derive, FindConflict, NextPackage, FinishPropagation, LookAt, HandleConflict,
       GiveUp, ResolveStep, Backjump, PruneCulprits, SkipPruning, Restart, CarryOn,
       DecideNext, Solve, Choose, Absorb, Record, ForceBacktrack, RecordNoVersions,
       Decide, Terminated
  <2>8. phase' \in Finished => Solve \/ GiveUp \/ ReachLimit \/ UNCHANGED vars
    BY <1>2, PhaseMoves DEF Finished
  <2>9. QED BY <2>2, <2>3, <2>4, <2>5, <2>6, <2>7, <2>8
<1>3. QED BY <1>1, <1>2, SearchInvariance, PTL DEF Spec, KeepsPromise, Promise!Spec
=============================================================================
