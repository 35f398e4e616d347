--------------------------- MODULE ProblemProofs ---------------------------
(***************************************************************************)
(* Lemmas about what a solver is built from: terms and the resolution      *)
(* rule; the trail, what an assignment and a backtrack do to it; and the   *)
(* provider, every clause written for which is a fact.                     *)
(***************************************************************************)
EXTENDS Problem, TLAPS, WellFoundedInduction, SequenceTheorems

----------------------------------------------------------------------------
(* Terms and the trail. *)

\* Term.intersect of two terms is a term.
LEMMA ConjoinType ==
  ASSUME NEW s \in Term, NEW t \in Term
  PROVE  Conjoin(s, t) \in Term
BY DEF Conjoin, Term, In, NotIn, Ranges

\* union_terms of two terms is a term.
LEMMA DisjoinType ==
  ASSUME NEW s \in Term, NEW t \in Term
  PROVE  Disjoin(s, t) \in Term
BY DEF Disjoin, Term, In, NotIn, Ranges

\* A selection that makes the intersection of two terms true makes both true.
LEMMA ConjoinHolds ==
  ASSUME NEW s \in Term, NEW t \in Term, NEW sel, NEW p,
         TermHolds(sel, p, Conjoin(s, t))
  PROVE  TermHolds(sel, p, s) /\ TermHolds(sel, p, t)
BY DEF Conjoin, Term, In, NotIn, TermHolds

\* A selection that makes the union of two terms true makes one of them true.
LEMMA DisjoinHolds ==
  ASSUME NEW s \in Term, NEW t \in Term, NEW sel, NEW p,
         TermHolds(sel, p, Disjoin(s, t))
  PROVE  TermHolds(sel, p, s) \/ TermHolds(sel, p, t)
BY DEF Disjoin, Term, In, NotIn, TermHolds

\* Where union_terms answers None, every selection makes one of the two terms
\* true: dropping the package from the resolvent loses nothing.
LEMMA TautologyHolds ==
  ASSUME NEW s \in Term, NEW t \in Term, NEW sel, NEW p,
         Tautology(Disjoin(s, t))
  PROVE  TermHolds(sel, p, s) \/ TermHolds(sel, p, t)
BY DEF Disjoin, Term, In, NotIn, TermHolds, Tautology

\* Membership in TermMap, without its union.
LEMMA TermMapForm ==
  ASSUME NEW f
  PROVE  f \in TermMap <=> DOMAIN f \subseteq Node /\ f \in [DOMAIN f -> Term]
BY DEF TermMap

\* prior_cause builds a term map from two term maps.
LEMMA PriorCauseType ==
  ASSUME NEW left \in TermMap, NEW right \in TermMap, NEW shared
  PROVE  PriorCause(left, right, shared) \in TermMap
<1> DEFINE S == SharedTerms(left, right, shared)
           R == PriorCause(left, right, shared)
<1>1. S \subseteq Node
  BY TermMapForm DEF SharedTerms
<1>2. ASSUME NEW p \in S
      PROVE  R[p] \in Term
  <2>1. p \in DOMAIN left => left[p] \in Term
    BY TermMapForm
  <2>2. p \in DOMAIN right => right[p] \in Term
    BY TermMapForm
  <2>3. p \in DOMAIN left \/ p \in DOMAIN right
    BY DEF SharedTerms
  <2>4. QED
    BY <2>1, <2>2, <2>3, ConjoinType, DisjoinType DEF PriorCause
<1>3. R \in [S -> Term] /\ DOMAIN R = S
  BY <1>2 DEF PriorCause
<1>4. QED
  BY <1>1, <1>3, TermMapForm

\* The resolution rule is sound: what makes every term of the resolvent true
\* makes every term of one of the two resolved clauses true.
LEMMA PriorCauseSound ==
  ASSUME NEW left \in TermMap, NEW right \in TermMap, NEW shared, NEW sel,
         AllHold(sel, PriorCause(left, right, shared))
  PROVE  AllHold(sel, left) \/ AllHold(sel, right)
<1> DEFINE S == SharedTerms(left, right, shared)
           R == PriorCause(left, right, shared)
           Both == shared \in DOMAIN left \cap DOMAIN right
<1>1. DOMAIN R = S
  BY DEF PriorCause
<1>2. \A p \in DOMAIN left : left[p] \in Term
  BY TermMapForm
<1>3. \A p \in DOMAIN right : right[p] \in Term
  BY TermMapForm
<1>4. ASSUME NEW p \in DOMAIN left, ~(p = shared /\ Both)
      PROVE  TermHolds(sel, p, left[p])
  <2>1. p \in S
    BY <1>4 DEF SharedTerms
  <2>2. TermHolds(sel, p, R[p])
    BY <1>1, <2>1 DEF AllHold
  <2>3. CASE p \notin DOMAIN right
    BY <2>1, <2>2, <2>3 DEF PriorCause
  <2>4. CASE p \in DOMAIN right
    <3>1. R[p] = Conjoin(left[p], right[p])
      BY <1>4, <2>1, <2>4 DEF PriorCause
    <3>2. QED BY <1>2, <1>3, <2>2, <2>4, <3>1, ConjoinHolds
  <2>5. QED BY <2>3, <2>4
<1>5. ASSUME NEW p \in DOMAIN right, ~(p = shared /\ Both)
      PROVE  TermHolds(sel, p, right[p])
  <2>1. p \in S
    BY <1>5 DEF SharedTerms
  <2>2. TermHolds(sel, p, R[p])
    BY <1>1, <2>1 DEF AllHold
  <2>3. CASE p \notin DOMAIN left
    BY <2>1, <2>2, <2>3 DEF PriorCause
  <2>4. CASE p \in DOMAIN left
    <3>1. R[p] = Conjoin(left[p], right[p])
      BY <1>5, <2>1, <2>4 DEF PriorCause
    <3>2. QED BY <1>2, <1>3, <2>2, <2>4, <3>1, ConjoinHolds
  <2>5. QED BY <2>3, <2>4
<1>6. CASE Both
  <2>1. left[shared] \in Term /\ right[shared] \in Term
    BY <1>2, <1>3, <1>6
  <2>2. TermHolds(sel, shared, left[shared]) \/ TermHolds(sel, shared, right[shared])
    <3>1. CASE Tautology(Disjoin(left[shared], right[shared]))
      BY <2>1, <3>1, TautologyHolds
    <3>2. CASE ~Tautology(Disjoin(left[shared], right[shared]))
      <4>1. shared \in S
        BY <1>6, <3>2 DEF SharedTerms
      <4>2. R[shared] = Disjoin(left[shared], right[shared])
        BY <1>6, <4>1 DEF PriorCause
      <4>3. TermHolds(sel, shared, R[shared])
        BY <1>1, <4>1 DEF AllHold
      <4>4. QED BY <2>1, <4>2, <4>3, DisjoinHolds
    <3>3. QED BY <3>1, <3>2
  <2>3. QED BY <1>4, <1>5, <2>2 DEF AllHold
<1>7. CASE ~Both
  BY <1>4, <1>7 DEF AllHold
<1>8. QED BY <1>6, <1>7

----------------------------------------------------------------------------
\* A non-empty set of naturals has a least element, and Min is it.
LEMMA MinExists ==
  ASSUME NEW S \in SUBSET Nat, S # {}
  PROVE  Min(S) \in S /\ \A x \in S : Min(S) <= x
<1> DEFINE R == {ss \in Nat \X Nat : ss[1] < ss[2]}
<1>1. OpToRel(<, Nat) = R
  BY DEF OpToRel
<1>2. IsWellFoundedOn(R, Nat)
  BY <1>1, NatLessThanWellFounded
<1> HIDE DEF R
<1>3. PICK m \in S : \A x \in S : ~(<<x, m>> \in R)
  BY <1>2, WFMin
<1> USE DEF R
<1>4. ASSUME NEW x \in S PROVE m <= x
  <2>1. SUFFICES ASSUME x < m PROVE FALSE
    OBVIOUS
  <2>2. <<x, m>> \in Nat \X Nat /\ <<x, m>>[1] = x /\ <<x, m>>[2] = m
    OBVIOUS
  <2>3. <<x, m>> \in R
    BY <2>1, <2>2
  <2>4. QED BY <1>3, <2>3
<1>5. QED BY <1>4 DEF Min

\* A non-empty bounded set of naturals has a greatest element, and Max is it.
LEMMA MaxExists ==
  ASSUME NEW S \in SUBSET Nat, S # {}, NEW n \in Nat, \A x \in S : x <= n
  PROVE  Max(S) \in S /\ \A x \in S : x <= Max(S)
<1> DEFINE T == {n - x : x \in S}
<1>1. T \in SUBSET Nat
  OBVIOUS
<1>2. T # {}
  OBVIOUS
<1>3. PICK d \in T : \A y \in T : d <= y
  BY <1>1, <1>2, MinExists
<1>4. PICK m \in S : d = n - m
  BY <1>3
<1>5. \A x \in S : m >= x
  BY <1>3, <1>4
<1>6. QED BY <1>5 DEF Max

----------------------------------------------------------------------------

\* The types of the fields of an assignment.
LEMMA AssignmentForm ==
  ASSUME NEW a \in Assignment
  PROVE  /\ a.package \in Node /\ a.decision_level \in Nat
         /\ a.is_decision \in BOOLEAN /\ a.cause \in Clause
         /\ a.cum_positive \in {NoRange} \cup Ranges
         /\ a.cum_negative \in Ranges /\ Allowed(a) \in Ranges
BY DEF Assignment, Allowed, Ranges

\* Entries are indices of the trail at which its package is named.
LEMMA EntriesForm ==
  ASSUME NEW trail \in Seq(Assignment), NEW p
  PROVE  /\ Entries(trail, p) \in SUBSET Nat
         /\ \A i \in Entries(trail, p) :
               /\ i \in DOMAIN trail /\ i \in 1..Len(trail)
               /\ trail[i] \in Assignment /\ trail[i].package = p
BY DEF Entries

\* LastOf reads the entry with the greatest index of an assigned package.
LEMMA LastEntry ==
  ASSUME NEW trail \in Seq(Assignment), NEW p, Assigned(trail, p)
  PROVE  LET k == Max(Entries(trail, p)) IN
         /\ k \in Entries(trail, p) /\ LastOf(trail, p) = trail[k]
         /\ \A i \in Entries(trail, p) : i <= k
<1>1. Entries(trail, p) # {} /\ Len(trail) \in Nat
  BY DEF Assigned
<1>2. \A i \in Entries(trail, p) : i <= Len(trail)
  BY EntriesForm
<1>3. /\ Max(Entries(trail, p)) \in Entries(trail, p)
      /\ \A i \in Entries(trail, p) : i <= Max(Entries(trail, p))
  BY <1>1, <1>2, EntriesForm, MaxExists
<1>4. QED BY <1>3 DEF LastOf

\* The entries of a package in a trail with one more assignment.
LEMMA AppendEntries ==
  ASSUME NEW trail \in Seq(Assignment), NEW a \in Assignment, NEW p
  PROVE  /\ Append(trail, a) \in Seq(Assignment)
         /\ Len(Append(trail, a)) = Len(trail) + 1
         /\ \A i \in 1..Len(trail) : Append(trail, a)[i] = trail[i]
         /\ Append(trail, a)[Len(trail) + 1] = a
         /\ Entries(Append(trail, a), p) =
              IF p = a.package THEN Entries(trail, p) \cup {Len(trail) + 1}
                               ELSE Entries(trail, p)
BY AppendProperties DEF Entries

\* After an assignment, its package has the ranges the assignment carries.
LEMMA AppendSame ==
  ASSUME NEW trail \in Seq(Assignment), NEW a \in Assignment
  PROVE  /\ Assigned(Append(trail, a), a.package)
         /\ LastOf(Append(trail, a), a.package) = a
         /\ Positive(Append(trail, a), a.package) = a.cum_positive
         /\ Negative(Append(trail, a), a.package) = a.cum_negative
         /\ Effective(Append(trail, a), a.package) = Allowed(a)
<1> DEFINE u == Append(trail, a)
           n == Len(trail) + 1
<1>1. u \in Seq(Assignment) /\ n \in Entries(u, a.package)
  BY AppendEntries
<1>2. Assigned(u, a.package)
  BY <1>1 DEF Assigned
<1> DEFINE k == Max(Entries(u, a.package))
<1>3. /\ k \in Entries(u, a.package) /\ LastOf(u, a.package) = u[k]
      /\ \A i \in Entries(u, a.package) : i <= k
  BY <1>1, <1>2, LastEntry
<1>4. k = n
  BY <1>1, <1>3, AppendEntries, EntriesForm
<1>5. LastOf(u, a.package) = a
  BY <1>3, <1>4, AppendEntries
<1>6. QED BY <1>2, <1>5 DEF Positive, Negative, Effective

\* An assignment changes nothing about another package.
LEMMA AppendOther ==
  ASSUME NEW trail \in Seq(Assignment), NEW a \in Assignment, NEW p,
         p # a.package
  PROVE  /\ Assigned(Append(trail, a), p) = Assigned(trail, p)
         /\ Positive(Append(trail, a), p) = Positive(trail, p)
         /\ Negative(Append(trail, a), p) = Negative(trail, p)
         /\ Effective(Append(trail, a), p) = Effective(trail, p)
<1> DEFINE u == Append(trail, a)
<1>1. Entries(u, p) = Entries(trail, p)
  BY AppendEntries
<1>2. Assigned(u, p) = Assigned(trail, p)
  BY <1>1 DEF Assigned
<1>3. Assigned(trail, p) => LastOf(u, p) = LastOf(trail, p)
  <2>1. SUFFICES ASSUME Assigned(trail, p)
                 PROVE  LastOf(u, p) = LastOf(trail, p)
    OBVIOUS
  <2>2. Max(Entries(trail, p)) \in Entries(trail, p)
    BY <2>1, LastEntry
  <2>3. Max(Entries(trail, p)) \in 1..Len(trail)
    BY <2>2, EntriesForm
  <2>4. QED BY <1>1, <2>3, AppendEntries DEF LastOf
<1>4. QED BY <1>2, <1>3 DEF Positive, Negative, Effective

\* The ranges read off the last entry of a package, assigned or not.
LEMMA LastForm ==
  ASSUME NEW trail \in Seq(Assignment), NEW p
  PROVE  /\ Positive(trail, p) \in {NoRange} \cup Ranges
         /\ Negative(trail, p) \in Ranges
         /\ Assigned(trail, p) =>
              /\ LastOf(trail, p) \in Assignment
              /\ Positive(trail, p) = LastOf(trail, p).cum_positive
              /\ Effective(trail, p) = Allowed(LastOf(trail, p))
              /\ Effective(trail, p) \in Ranges
              /\ Effective(trail, p) =
                   (IF Positive(trail, p) = NoRange THEN Version
                    ELSE Positive(trail, p)) \ Negative(trail, p)
         /\ ~Assigned(trail, p) => /\ Positive(trail, p) = NoRange
                                  /\ Negative(trail, p) = {}
                                  /\ Effective(trail, p) = NoRange
<1>1. CASE Assigned(trail, p)
  <2>1. LastOf(trail, p) \in Assignment
    BY <1>1, LastEntry, EntriesForm
  <2>2. QED BY <1>1, <2>1, AssignmentForm DEF Positive, Negative, Effective, Allowed
<1>2. CASE ~Assigned(trail, p)
  BY <1>2 DEF Positive, Negative, Effective, Ranges
<1>3. QED BY <1>1, <1>2

\* None is not a range.
LEMMA NoRangeApart == NoRange \notin Ranges
BY NoRangeAssumption DEF Ranges

\* derive: what the new assignment carries and what it leaves allowed.
LEMMA DerivationForm ==
  ASSUME NEW trail \in Seq(Assignment), NEW level \in Nat, NEW p \in Node,
         NEW t \in Term, NEW c \in Clause
  PROVE  LET a == Derivation(trail, level, p, t, c) IN
         /\ a \in Assignment
         /\ a.package = p /\ a.decision_level = level
         /\ ~a.is_decision /\ a.cause = c
         /\ a.cum_positive # NoRange <=> (t.positive \/ Positive(trail, p) # NoRange)
         /\ Allowed(a) = IF Assigned(trail, p)
                         THEN IF t.positive THEN Effective(trail, p) \cap t.constraint
                                            ELSE Effective(trail, p) \ t.constraint
                         ELSE IF t.positive THEN t.constraint
                                            ELSE Version \ t.constraint
<1> DEFINE a == Derivation(trail, level, p, t, c)
<1>1. t.constraint \in Ranges
  BY DEF Term
<1>2. /\ a.cum_positive \in {NoRange} \cup Ranges
      /\ a.cum_positive # NoRange <=> (t.positive \/ Positive(trail, p) # NoRange)
  BY <1>1, LastForm, NoRangeApart DEF Derivation, Ranges
<1>3. a.cum_negative \in Ranges
  BY <1>1, LastForm DEF Derivation, Ranges
<1>4. a \in Assignment
  BY <1>2, <1>3 DEF Derivation, Assignment
<1>5. Allowed(a) = (IF a.cum_positive = NoRange THEN Version ELSE a.cum_positive)
                     \ a.cum_negative
  BY DEF Allowed
<1>6. /\ a.cum_positive = IF ~t.positive THEN Positive(trail, p)
                          ELSE IF Positive(trail, p) = NoRange THEN t.constraint
                          ELSE Positive(trail, p) \cap t.constraint
      /\ a.cum_negative = IF t.positive THEN Negative(trail, p)
                          ELSE Negative(trail, p) \cup t.constraint
  BY DEF Derivation
<1>7. /\ a.package = p /\ a.decision_level = level
      /\ ~a.is_decision /\ a.cause = c
  BY DEF Derivation
<1> HIDE DEF a
<1>8. Allowed(a) = IF Assigned(trail, p)
                   THEN IF t.positive THEN Effective(trail, p) \cap t.constraint
                                      ELSE Effective(trail, p) \ t.constraint
                   ELSE IF t.positive THEN t.constraint
                                      ELSE Version \ t.constraint
  <2>1. CASE Assigned(trail, p) /\ t.positive
    <3>1. Effective(trail, p) = (IF Positive(trail, p) = NoRange THEN Version
                                 ELSE Positive(trail, p)) \ Negative(trail, p)
      BY <2>1, LastForm
    <3>2. QED BY <1>1, <1>2, <1>5, <1>6, <2>1, <3>1 DEF Ranges
  <2>2. CASE Assigned(trail, p) /\ ~t.positive
    <3>1. Effective(trail, p) = (IF Positive(trail, p) = NoRange THEN Version
                                 ELSE Positive(trail, p)) \ Negative(trail, p)
      BY <2>2, LastForm
    <3>2. QED BY <1>1, <1>5, <1>6, <2>2, <3>1
  <2>3. CASE ~Assigned(trail, p)
    <3>1. Positive(trail, p) = NoRange /\ Negative(trail, p) = {}
      BY <2>3, LastForm
    <3>2. QED BY <1>1, <1>2, <1>5, <1>6, <2>3, <3>1
  <2>4. QED BY <2>1, <2>2, <2>3
<1>9. QED BY <1>2, <1>4, <1>7, <1>8 DEF a

\* decide: what the new assignment carries and what it leaves allowed.
LEMMA DecisionForm ==
  ASSUME NEW trail \in Seq(Assignment), NEW level \in Nat, NEW p \in Node,
         NEW v \in Version
  PROVE  LET a == Decision(trail, level, p, v) IN
         /\ a \in Assignment
         /\ a.package = p /\ a.decision_level = level
         /\ a.is_decision /\ a.cause = NoCause
         /\ a.cum_positive = {v} /\ {v} # NoRange
         /\ Allowed(a) = {v} \ Negative(trail, p)
<1>1. {v} \in Ranges
  BY DEF Ranges
<1>2. NoCause \in Clause
  <2>1. [q \in {} |-> In({})] \in TermMap
    BY TermMapForm
  <2>2. QED BY <2>1 DEF NoCause, Clause, Causes, Node
<1>3. QED BY <1>1, <1>2, LastForm, NoRangeApart DEF Decision, Assignment, Allowed

\* Term.negate keeps the constraint and flips the sign.
LEMMA NegateForm ==
  ASSUME NEW t \in Term
  PROVE  /\ Negate(t) \in Term /\ Negate(t).constraint = t.constraint
         /\ Negate(t).positive <=> ~t.positive
BY DEF Negate, Term
----------------------------------------------------------------------------
(* Satisfaction. *)

\* A term satisfied at an assignment is satisfied at every narrower one.
LEMMA SatisfiedLater ==
  ASSUME NEW a \in Assignment, NEW b \in Assignment, NEW t \in Term,
         Allowed(b) \subseteq Allowed(a),
         a.cum_positive # NoRange => b.cum_positive # NoRange,
         SatisfiedAt(a, t)
  PROVE  SatisfiedAt(b, t)
BY DEF SatisfiedAt, Satisfies

\* An assignment that satisfies two terms satisfies their intersection.
LEMMA ConjoinSatisfied ==
  ASSUME NEW a \in Assignment, NEW s \in Term, NEW t \in Term,
         SatisfiedAt(a, s), SatisfiedAt(a, t)
  PROVE  SatisfiedAt(a, Conjoin(s, t))
<1>1. CASE s.positive
  BY <1>1 DEF SatisfiedAt, Satisfies, Conjoin, In, NotIn, Term
<1>2. CASE ~s.positive
  BY <1>2 DEF SatisfiedAt, Satisfies, Conjoin, In, NotIn, Term
<1>3. QED BY <1>1, <1>2

\* An assignment that satisfies a term satisfies its union with any other.
LEMMA DisjoinSatisfied ==
  ASSUME NEW a \in Assignment, NEW s \in Term, NEW t \in Term,
         SatisfiedAt(a, s)
  PROVE  SatisfiedAt(a, Disjoin(s, t))
<1>1. CASE s.positive
  BY <1>1 DEF SatisfiedAt, Satisfies, Disjoin, In, NotIn, Term
<1>2. CASE ~s.positive
  BY <1>2 DEF SatisfiedAt, Satisfies, Disjoin, In, NotIn, Term
<1>3. QED BY <1>1, <1>2

\* A term the solution satisfies has a satisfier in the trail.
LEMMA SatisfiedEntry ==
  ASSUME NEW trail \in Seq(Assignment), NEW p, NEW t \in Term,
         Satisfied(trail, p, t)
  PROVE  Satisfiers(trail, p, t) # {}
<1> DEFINE k == Max(Entries(trail, p))
<1>1. Assigned(trail, p)
  BY DEF Satisfied
<1>2. k \in Entries(trail, p) /\ LastOf(trail, p) = trail[k]
  BY <1>1, LastEntry
<1>3. SatisfiedAt(trail[k], t)
  BY <1>1, <1>2, LastForm DEF Satisfied, SatisfiedAt
<1>4. QED BY <1>2, <1>3 DEF Satisfiers

\* Later entries of a package allow no more than earlier ones.
Narrow(trail) ==
  \A i, j \in DOMAIN trail :
    i < j /\ trail[i].package = trail[j].package =>
      /\ Allowed(trail[j]) \subseteq Allowed(trail[i])
      /\ trail[i].cum_positive # NoRange => trail[j].cum_positive # NoRange

\* Every term has a satisfier.
Reached(trail, terms) ==
  \A p \in DOMAIN terms : Satisfiers(trail, p, terms[p]) # {}

\* On a narrowing trail, two terms with satisfiers have a common one.
LEMMA BothReached ==
  ASSUME NEW trail \in Seq(Assignment), Narrow(trail), NEW p,
         NEW s \in Term, NEW t \in Term,
         Satisfiers(trail, p, s) # {}, Satisfiers(trail, p, t) # {}
  PROVE  Satisfiers(trail, p, Conjoin(s, t)) # {}
<1>1. PICK i \in Entries(trail, p) : SatisfiedAt(trail[i], s)
  BY DEF Satisfiers
<1>2. PICK j \in Entries(trail, p) : SatisfiedAt(trail[j], t)
  BY DEF Satisfiers
<1>3. /\ i \in DOMAIN trail /\ j \in DOMAIN trail /\ i \in Nat /\ j \in Nat
      /\ trail[i] \in Assignment /\ trail[j] \in Assignment
      /\ trail[i].package = p /\ trail[j].package = p
  BY EntriesForm
<1>4. CASE i <= j
  <2>1. i = j \/ SatisfiedAt(trail[j], s)
    BY <1>1, <1>3, <1>4, SatisfiedLater DEF Narrow
  <2>2. SatisfiedAt(trail[j], Conjoin(s, t))
    BY <1>1, <1>2, <1>3, <2>1, ConjoinSatisfied
  <2>3. QED BY <2>2 DEF Satisfiers
<1>5. CASE j < i
  <2>1. SatisfiedAt(trail[i], t)
    BY <1>2, <1>3, <1>5, SatisfiedLater DEF Narrow
  <2>2. SatisfiedAt(trail[i], Conjoin(s, t))
    BY <1>1, <1>3, <2>1, ConjoinSatisfied
  <2>3. QED BY <2>2 DEF Satisfiers
<1>6. QED BY <1>3, <1>4, <1>5

\* The terms of a resolvent have satisfiers when the clause has, and the cause
\* has but for the package resolved on.
LEMMA PriorCauseReached ==
  ASSUME NEW trail \in Seq(Assignment), Narrow(trail),
         NEW left \in TermMap, NEW right \in TermMap, NEW shared \in DOMAIN left,
         Reached(trail, left),
         \A p \in DOMAIN right \ {shared} : Satisfiers(trail, p, right[p]) # {}
  PROVE  Reached(trail, PriorCause(left, right, shared))
<1> DEFINE S == SharedTerms(left, right, shared)
           R == PriorCause(left, right, shared)
<1>1. DOMAIN R = S
  BY DEF PriorCause
<1>2. SUFFICES ASSUME NEW p \in S
               PROVE  Satisfiers(trail, p, R[p]) # {}
  BY <1>1 DEF Reached
<1>3. p \in DOMAIN left => left[p] \in Term /\ Satisfiers(trail, p, left[p]) # {}
  BY TermMapForm DEF Reached
<1>4. p \in DOMAIN right => right[p] \in Term
  BY TermMapForm
<1>5. CASE p \notin DOMAIN right
  <2>1. p \in DOMAIN left
    BY <1>5 DEF SharedTerms
  <2>2. QED BY <1>3, <1>5, <2>1 DEF PriorCause
<1>6. CASE p \in DOMAIN right /\ p \notin DOMAIN left
  BY <1>6 DEF PriorCause
<1>7. CASE p \in DOMAIN right /\ p \in DOMAIN left /\ p # shared
  <2>1. R[p] = Conjoin(left[p], right[p])
    BY <1>7 DEF PriorCause
  <2>2. QED BY <1>3, <1>4, <1>7, <2>1, BothReached
<1>8. CASE p \in DOMAIN right /\ p = shared
  <2>1. R[p] = Disjoin(left[p], right[p])
    BY <1>8 DEF PriorCause
  <2>2. PICK i \in Entries(trail, p) : SatisfiedAt(trail[i], left[p])
    BY <1>3, <1>8 DEF Satisfiers
  <2>3. SatisfiedAt(trail[i], R[p])
    BY <1>3, <1>4, <1>8, <2>1, <2>2, DisjoinSatisfied, EntriesForm
  <2>4. QED BY <2>3 DEF Satisfiers
<1>9. QED BY <1>5, <1>6, <1>7, <1>8
----------------------------------------------------------------------------
(* The shape of a trail, kept by appending an entry and by backtracking. *)

\* Decision levels start at 1 and never fall.
Ordered(trail) ==
  \A i, j \in DOMAIN trail :
    i <= j => 1 <= trail[i].decision_level
              /\ trail[i].decision_level <= trail[j].decision_level

\* The first entry is the decision of ROOT, and the only one about it.
Rooted(trail) ==
  /\ Len(trail) >= 1
  /\ trail[1].package = ROOT /\ trail[1].is_decision
  /\ Allowed(trail[1]) = {RootVersion} /\ trail[1].cum_positive # NoRange
  /\ trail[1].decision_level = 1
  /\ \A i \in DOMAIN trail : i > 1 =>
        /\ trail[i].package \in Package
        /\ trail[i].is_decision => trail[i].decision_level >= 2

\* The other terms of a derivation's cause were satisfied before it.
JustifiedAt(trail, i) ==
  trail[i].is_decision \/
    \A q \in DOMAIN trail[i].cause.terms \ {trail[i].package} :
      \E j \in Satisfiers(trail, q, trail[i].cause.terms[q]) : j < i

Justified(trail) == \A i \in DOMAIN trail : JustifiedAt(trail, i)

WellFormed(trail) ==
  /\ trail \in Seq(Assignment)
  /\ Ordered(trail) /\ Rooted(trail) /\ Narrow(trail) /\ Justified(trail)

\* The entries of a package in a prefix of the trail.
LEMMA PrefixEntries ==
  ASSUME NEW trail \in Seq(Assignment), NEW n \in 0..Len(trail), NEW p
  PROVE  LET u == SubSeq(trail, 1, n) IN
         /\ u \in Seq(Assignment) /\ Len(u) = n
         /\ \A i \in 1..n : u[i] = trail[i]
         /\ Entries(u, p) = Entries(trail, p) \cap 1..n
<1> DEFINE u == SubSeq(trail, 1, n)
<1>1. \A i \in 1..n : trail[i] \in Assignment
  OBVIOUS
<1>2. /\ u \in Seq(Assignment) /\ Len(u) = n
      /\ \A i \in 1..n : u[i] = trail[i]
  BY <1>1, SubSeqProperties
<1>3. DOMAIN u = 1..n /\ DOMAIN trail = 1..Len(trail)
  BY <1>2
<1> HIDE DEF u
<1>4. Entries(u, p) = Entries(trail, p) \cap 1..n
  BY <1>2, <1>3 DEF Entries
<1>5. QED BY <1>2, <1>4 DEF u

\* A non-empty prefix of a well-formed trail is well formed.
LEMMA PrefixWellFormed ==
  ASSUME NEW trail, WellFormed(trail), NEW n \in 1..Len(trail)
  PROVE  WellFormed(SubSeq(trail, 1, n))
<1> DEFINE u == SubSeq(trail, 1, n)
<1>1. trail \in Seq(Assignment) /\ Len(trail) \in Nat
  BY DEF WellFormed
<1>2. /\ u \in Seq(Assignment) /\ Len(u) = n
      /\ \A i \in 1..n : u[i] = trail[i]
      /\ \A p : Entries(u, p) = Entries(trail, p) \cap 1..n
  BY <1>1, PrefixEntries
<1>3. DOMAIN u = 1..n /\ DOMAIN trail = 1..Len(trail)
  BY <1>1, <1>2
<1> HIDE DEF u
<1>4. Ordered(u)
  BY <1>2, <1>3 DEF WellFormed, Ordered
<1>5. Rooted(u)
  BY <1>2, <1>3 DEF WellFormed, Rooted
<1>6. Narrow(u)
  BY <1>2, <1>3 DEF WellFormed, Narrow
<1>7. Justified(u)
  <2>1. SUFFICES ASSUME NEW i \in 1..n, ~u[i].is_decision,
                        NEW q \in DOMAIN u[i].cause.terms \ {u[i].package}
                 PROVE  \E j \in Satisfiers(u, q, u[i].cause.terms[q]) : j < i
    BY <1>3 DEF Justified, JustifiedAt
  <2>2. u[i] = trail[i] /\ i \in DOMAIN trail
    BY <1>2, <1>3
  <2>3. PICK j \in Satisfiers(trail, q, trail[i].cause.terms[q]) : j < i
    BY <2>1, <2>2 DEF WellFormed, Justified, JustifiedAt
  <2>4. j \in Entries(trail, q) /\ j \in 1..n
    BY <1>1, <2>3, EntriesForm DEF Satisfiers
  <2>5. j \in Satisfiers(u, q, u[i].cause.terms[q])
    BY <1>2, <2>2, <2>3, <2>4 DEF Satisfiers
  <2>6. QED BY <2>3, <2>5
<1>8. QED BY <1>2, <1>4, <1>5, <1>6, <1>7 DEF WellFormed, u

\* Backtracking keeps exactly the entries up to the target level.
LEMMA BacktrackPrefix ==
  ASSUME NEW trail, WellFormed(trail), NEW target \in Nat, target >= 1
  PROVE  \E n \in 1..Len(trail) :
           /\ Backtrack(trail, target) = SubSeq(trail, 1, n)
           /\ \A i \in 1..n : trail[i].decision_level <= target
<1> DEFINE low == {i \in DOMAIN trail : trail[i].decision_level <= target}
           n == Max({0} \cup low)
<1>1. trail \in Seq(Assignment) /\ DOMAIN trail = 1..Len(trail) /\ Len(trail) \in Nat
  BY DEF WellFormed
<1>2. 1 \in low
  BY <1>1 DEF WellFormed, Rooted
<1>3. /\ {0} \cup low \in SUBSET Nat
      /\ \A x \in {0} \cup low : x <= Len(trail)
  BY <1>1
<1>4. n \in {0} \cup low /\ \A x \in {0} \cup low : x <= n
  BY <1>1, <1>3, MaxExists
<1>5. n \in low
  BY <1>2, <1>4
<1>6. ASSUME NEW i \in 1..n PROVE trail[i].decision_level <= target
  <2>1. /\ i \in DOMAIN trail /\ n \in DOMAIN trail /\ i <= n
        /\ trail[i] \in Assignment /\ trail[n] \in Assignment
    BY <1>1, <1>5
  <2>2. trail[i].decision_level <= trail[n].decision_level
    BY <2>1 DEF WellFormed, Ordered
  <2>3. QED BY <1>5, <2>1, <2>2, AssignmentForm
<1>7. QED BY <1>1, <1>5, <1>6 DEF Backtrack

\* backtrack to level 1 or above leaves a well-formed trail of old entries.
LEMMA BacktrackWellFormed ==
  ASSUME NEW trail, WellFormed(trail), NEW target \in Nat, target >= 1
  PROVE  /\ WellFormed(Backtrack(trail, target))
         /\ \A i \in DOMAIN Backtrack(trail, target) :
               /\ i \in DOMAIN trail /\ Backtrack(trail, target)[i] = trail[i]
               /\ trail[i].decision_level <= target
<1>1. PICK n \in 1..Len(trail) :
        /\ Backtrack(trail, target) = SubSeq(trail, 1, n)
        /\ \A i \in 1..n : trail[i].decision_level <= target
  BY BacktrackPrefix
<1>2. trail \in Seq(Assignment)
  BY DEF WellFormed
<1>3. QED BY <1>1, <1>2, PrefixWellFormed, PrefixEntries

\* An entry that narrows its package and rests on earlier ones.
Extends(trail, a) ==
  /\ a.package \in Package
  /\ a.is_decision => a.decision_level >= 2
  /\ \A i \in DOMAIN trail : trail[i].decision_level <= a.decision_level
  /\ Assigned(trail, a.package) =>
       /\ Allowed(a) \subseteq Effective(trail, a.package)
       /\ Positive(trail, a.package) # NoRange => a.cum_positive # NoRange
  /\ ~a.is_decision => \A q \in DOMAIN a.cause.terms \ {a.package} :
                          Satisfied(trail, q, a.cause.terms[q])

\* The terms of a clause, one by one.
LEMMA ClauseTerms ==
  ASSUME NEW c \in Clause
  PROVE  /\ c.terms \in TermMap
         /\ \A q \in DOMAIN c.terms : q \in Node /\ c.terms[q] \in Term
BY TermMapForm DEF Clause

\* On a well-formed trail the last entry of a package is the narrowest.
LEMMA LastNarrowest ==
  ASSUME NEW trail, WellFormed(trail), NEW p, NEW i \in Entries(trail, p)
  PROVE  /\ Assigned(trail, p)
         /\ Effective(trail, p) \subseteq Allowed(trail[i])
         /\ trail[i].cum_positive # NoRange => Positive(trail, p) # NoRange
<1> DEFINE k == Max(Entries(trail, p))
<1>1. trail \in Seq(Assignment) /\ Assigned(trail, p)
  BY DEF WellFormed, Assigned
<1>2. k \in Entries(trail, p) /\ LastOf(trail, p) = trail[k] /\ i <= k
  BY <1>1, LastEntry
<1>3. /\ i \in DOMAIN trail /\ k \in DOMAIN trail /\ i \in Nat /\ k \in Nat
      /\ trail[i].package = trail[k].package
  BY <1>1, <1>2, EntriesForm
<1>4. i = k \/ i < k
  BY <1>2, <1>3
<1>5. /\ Allowed(trail[k]) \subseteq Allowed(trail[i])
      /\ trail[i].cum_positive # NoRange => trail[k].cum_positive # NoRange
  BY <1>3, <1>4 DEF WellFormed, Narrow
<1>6. QED BY <1>1, <1>2, <1>5, LastForm

\* A well-formed trail stays so under an assignment that extends it.
LEMMA AppendWellFormed ==
  ASSUME NEW trail, WellFormed(trail), NEW a \in Assignment, Extends(trail, a)
  PROVE  WellFormed(Append(trail, a))
<1> DEFINE u == Append(trail, a)
           n == Len(trail) + 1
<1>1. /\ trail \in Seq(Assignment) /\ Len(trail) \in Nat
      /\ DOMAIN trail = 1..Len(trail) /\ Len(trail) >= 1
  BY DEF WellFormed, Rooted
<1>2. /\ u \in Seq(Assignment) /\ Len(u) = n
      /\ \A i \in 1..Len(trail) : u[i] = trail[i] /\ trail[i] \in Assignment
      /\ u[n] = a
  BY <1>1, AppendEntries
<1>3. /\ DOMAIN u = 1..n /\ n \in DOMAIN u
      /\ \A i \in DOMAIN u : i \in Nat /\ (i \in DOMAIN trail \/ i = n)
      /\ \A i \in DOMAIN trail : i < n /\ i \in DOMAIN u /\ i \in Nat
  BY <1>1, <1>2
<1> HIDE DEF u, n
<1>4. Ordered(u)
  <2>1. a.decision_level \in Nat /\ a.decision_level >= 1
    <3>1. trail[1].decision_level = 1 /\ 1 \in DOMAIN trail
      BY <1>1 DEF WellFormed, Rooted
    <3>2. QED BY <3>1, AssignmentForm DEF Extends
  <2>2. SUFFICES ASSUME NEW i \in DOMAIN u, NEW j \in DOMAIN u, i <= j
                 PROVE  /\ 1 <= u[i].decision_level
                        /\ u[i].decision_level <= u[j].decision_level
    BY DEF Ordered
  <2>3. CASE j \in DOMAIN trail
    <3>1. i \in DOMAIN trail
      BY <1>3, <2>2, <2>3
    <3>2. QED BY <1>1, <1>2, <2>2, <2>3, <3>1 DEF WellFormed, Ordered
  <2>4. CASE j = n
    <3>1. CASE i \in DOMAIN trail
      <4>1. 1 <= trail[i].decision_level
        BY <1>3, <3>1 DEF WellFormed, Ordered
      <4>2. QED BY <1>1, <1>2, <2>4, <3>1, <4>1 DEF Extends
    <3>2. CASE i = n
      BY <1>2, <2>1, <2>4, <3>2
    <3>3. QED BY <1>3, <3>1, <3>2
  <2>5. QED BY <1>3, <2>3, <2>4
<1>5. Rooted(u)
  <2>1. Len(u) >= 1 /\ u[1] = trail[1]
    BY <1>1, <1>2 DEF n
  <2>2. QED BY <1>1, <1>2, <1>3, <2>1 DEF WellFormed, Rooted, Extends
<1>6. Narrow(u)
  <2>1. SUFFICES ASSUME NEW i \in DOMAIN u, NEW j \in DOMAIN u, i < j,
                        u[i].package = u[j].package
                 PROVE  /\ Allowed(u[j]) \subseteq Allowed(u[i])
                        /\ u[i].cum_positive # NoRange => u[j].cum_positive # NoRange
    BY DEF Narrow
  <2>2. i \in DOMAIN trail
    BY <1>3, <2>1
  <2>3. CASE j \in DOMAIN trail
    BY <1>1, <1>2, <2>1, <2>2, <2>3 DEF WellFormed, Narrow
  <2>4. CASE j = n
    <3>1. i \in Entries(trail, a.package)
      BY <1>1, <1>2, <2>1, <2>2, <2>4 DEF Entries
    <3>2. /\ Assigned(trail, a.package)
          /\ Effective(trail, a.package) \subseteq Allowed(trail[i])
          /\ trail[i].cum_positive # NoRange => Positive(trail, a.package) # NoRange
      BY <3>1, LastNarrowest
    <3>3. QED BY <1>1, <1>2, <2>2, <2>4, <3>2 DEF Extends
  <2>5. QED BY <1>3, <2>3, <2>4
<1>7. Justified(u)
  <2>1. SUFFICES ASSUME NEW i \in DOMAIN u, ~u[i].is_decision,
                        NEW q \in DOMAIN u[i].cause.terms \ {u[i].package}
                 PROVE  \E j \in Satisfiers(u, q, u[i].cause.terms[q]) : j < i
    BY DEF Justified, JustifiedAt
  <2> DEFINE t == u[i].cause.terms[q]
  <2>2. ASSUME NEW j \in Satisfiers(trail, q, t)
        PROVE  j \in Satisfiers(u, q, t) /\ j \in DOMAIN trail
    BY <1>1, <1>2, <1>3 DEF Satisfiers, Entries
  <2>3. CASE i \in DOMAIN trail
    <3>1. u[i] = trail[i]
      BY <1>1, <1>2, <2>3
    <3>2. PICK j \in Satisfiers(trail, q, t) : j < i
      BY <2>1, <2>3, <3>1 DEF WellFormed, Justified, JustifiedAt
    <3>3. QED BY <2>2, <3>2
  <2>4. CASE i = n
    <3>1. Satisfied(trail, q, t) /\ t \in Term
      BY <1>2, <2>1, <2>4, ClauseTerms, AssignmentForm DEF Extends
    <3>2. PICK j \in Satisfiers(trail, q, t) : TRUE
      BY <1>1, <3>1, SatisfiedEntry
    <3>3. QED BY <1>3, <2>2, <2>4, <3>2
  <2>5. QED BY <1>3, <2>3, <2>4
<1>8. QED BY <1>2, <1>4, <1>5, <1>6, <1>7 DEF WellFormed, u

----------------------------------------------------------------------------
(* The provider. *)

\* A dependency clause names its parent in a positive term.
Shape(c) ==
  c.cause = "DEPENDENCY" =>
    c.parent \in DOMAIN c.terms /\ c.terms[c.parent].positive

\* A clause that states a fact about the problem.
Good(prob, c) == c \in Clause /\ Shape(c) /\ Excludes(Solutions(prob), c)

\* The types of the parts of a problem.
LEMMA ProblemForm ==
  ASSUME NEW prob \in ProblemType
  PROVE  /\ \A p \in Package : /\ prob.avail[p] \in Ranges
                               /\ prob.constraints[p] \in Ranges
         /\ \A p, d \in Package : \A v \in Version :
               prob.deps[p][v][d] \in {NoRange} \cup Ranges
         /\ prob.root \in Seq(Requirement)
         /\ \A i \in DOMAIN prob.root : /\ prob.root[i] \in Requirement
                                        /\ prob.root[i].package \in Package
                                        /\ prob.root[i].constraint \in Ranges
<1>1. /\ prob.avail \in [Package -> Ranges]
      /\ prob.constraints \in [Package -> Ranges]
      /\ prob.deps \in [Package -> [Version -> [Package -> {NoRange} \cup Ranges]]]
      /\ prob.root \in Seq(Requirement)
  BY DEF ProblemType
<1>2. \A i \in DOMAIN prob.root : prob.root[i] \in Requirement
  BY <1>1
<1>3. QED BY <1>1, <1>2 DEF Requirement

\* A required package is a package, asked for with a range.
LEMMA RequiresForm ==
  ASSUME NEW prob \in ProblemType, NEW p \in Package, NEW v \in Version,
         NEW d \in Requires(prob, p, v)
  PROVE  d \in Package /\ prob.deps[p][v][d] \in Ranges
BY ProblemForm DEF Requires

\* What a solution does, version by version.
LEMMA SolutionForm ==
  ASSUME NEW prob \in ProblemType, NEW sel, IsSolution(prob, sel)
  PROVE  /\ \A p \in Package : \A range \in Ranges :
               sel[p] \in range => /\ sel[p] \in Version
                                   /\ sel[p] \in prob.avail[p]
                                   /\ sel[p] \in prob.constraints[p]
         /\ \A p \in Package : \A v \in Version :
               sel[p] = v => \A d \in Requires(prob, p, v) :
                                sel[d] \in prob.deps[p][v][d]
         /\ \A i \in DOMAIN prob.root :
               sel[prob.root[i].package] \in prob.root[i].constraint
<1>1. \A p \in Package : \A range \in Ranges :
        sel[p] \in range => sel[p] \in Version /\ sel[p] # Absent
  BY AbsentAssumption DEF Ranges
<1>2. \A v \in Version : v # Absent
  BY AbsentAssumption
<1>3. QED BY <1>1, <1>2 DEF IsSolution, Selectable

\* Excludes, quantified over candidate selections.
LEMMA ExcludesForm ==
  ASSUME NEW prob, NEW c
  PROVE  Excludes(Solutions(prob), c)
           <=> \A sel : IsSolution(prob, sel) => ~AllHold(sel, c.terms)
BY DEF Excludes, Solutions, IsSolution

\* The nodes are the packages and ROOT, which is none of them.
LEMMA NodeForm == Package \subseteq Node /\ ROOT \in Node /\ ROOT \notin Package
BY RootAssumption DEF Node

\* The fields of positive and negative terms.
LEMMA InForm ==
  ASSUME NEW range \in Ranges
  PROVE  /\ In(range) \in Term /\ In(range).positive
         /\ In(range).constraint = range
         /\ NotIn(range) \in Term /\ ~NotIn(range).positive
         /\ NotIn(range).constraint = range
BY DEF In, NotIn, Term

\* _add_root_requirements: the clause of a root requirement is a fact.
LEMMA RootClauseGood ==
  ASSUME NEW prob \in ProblemType, NEW i \in DOMAIN prob.root
  PROVE  Good(prob, RootClause(prob.root[i]))
<1> DEFINE r == prob.root[i]
           c == RootClause(r)
<1>1. r.package \in Package /\ r.constraint \in Ranges /\ {RootVersion} \in Ranges
  BY ProblemForm, RootVersionAssumption DEF Ranges
<1>2. /\ DOMAIN c.terms = {ROOT, r.package}
      /\ c.terms[ROOT] = In({RootVersion})
      /\ c.terms[r.package] = NotIn(r.constraint)
      /\ c.cause = "ROOT" /\ c.parent = ROOT
  BY <1>1, NodeForm DEF RootClause
<1>3. c \in Clause
  <2>1. c.terms \in TermMap
    BY <1>1, NodeForm, InForm, TermMapForm DEF RootClause
  <2>2. QED BY <2>1, NodeForm DEF RootClause, Clause, Causes
<1>4. ASSUME NEW sel, IsSolution(prob, sel), AllHold(sel, c.terms)
      PROVE  FALSE
  <2>1. TermHolds(sel, r.package, NotIn(r.constraint))
    BY <1>2, <1>4 DEF AllHold
  <2>2. sel[r.package] \notin r.constraint
    BY <1>1, <2>1, InForm, NodeForm DEF TermHolds, Selected
  <2>3. QED BY <1>4, <2>2, SolutionForm
<1>5. QED BY <1>2, <1>3, <1>4, ExcludesForm DEF Good, Shape

\* A single positive term that no selectable version meets.
LEMMA SingleGood ==
  ASSUME NEW prob \in ProblemType, NEW p \in Package, NEW range \in Ranges,
         NEW cause \in Causes, NEW parent \in Node,
         cause = "DEPENDENCY" => parent = p,
         \A sel : IsSolution(prob, sel) => sel[p] \notin range
  PROVE  Good(prob, [terms |-> [q \in {p} |-> In(range)],
                     cause |-> cause, parent |-> parent])
<1> DEFINE c == [terms |-> [q \in {p} |-> In(range)],
                 cause |-> cause, parent |-> parent]
<1>1. /\ DOMAIN c.terms = {p} /\ c.terms[p] = In(range)
      /\ c.cause = cause
  OBVIOUS
<1>2. c \in Clause
  <2>1. c.terms \in TermMap
    BY NodeForm, InForm, TermMapForm
  <2>2. QED BY <2>1 DEF Clause
<1>3. Shape(c)
  BY <1>1, InForm DEF Shape
<1>4. ASSUME NEW sel, IsSolution(prob, sel), AllHold(sel, c.terms)
      PROVE  FALSE
  <2>1. TermHolds(sel, p, In(range))
    BY <1>1, <1>4 DEF AllHold
  <2>2. QED BY <1>4, <2>1, InForm, NodeForm DEF TermHolds, Selected
<1>5. QED BY <1>2, <1>3, <1>4, ExcludesForm DEF Good

\* A positive term of p beside a term of d that holds for no solution.
LEMMA PairGood ==
  ASSUME NEW prob \in ProblemType, NEW p \in Package, NEW d \in Package \ {p},
         NEW range \in Ranges, NEW t \in Term,
         \A sel : IsSolution(prob, sel) /\ sel[p] \in range => ~TermHolds(sel, d, t)
  PROVE  Good(prob, [terms |-> [q \in {p, d} |-> IF q = p THEN In(range) ELSE t],
                     cause |-> "DEPENDENCY", parent |-> p])
<1> DEFINE c == [terms |-> [q \in {p, d} |-> IF q = p THEN In(range) ELSE t],
                 cause |-> "DEPENDENCY", parent |-> p]
<1>1. /\ DOMAIN c.terms = {p, d} /\ c.terms[p] = In(range) /\ c.terms[d] = t
      /\ c.cause = "DEPENDENCY" /\ c.parent = p
  OBVIOUS
<1>2. c \in Clause
  <2>1. c.terms \in TermMap
    BY NodeForm, InForm, TermMapForm
  <2>2. QED BY <2>1, NodeForm DEF Clause, Causes
<1>3. Shape(c)
  BY <1>1, InForm DEF Shape
<1>4. ASSUME NEW sel, IsSolution(prob, sel), AllHold(sel, c.terms)
      PROVE  FALSE
  <2>1. TermHolds(sel, p, In(range)) /\ TermHolds(sel, d, t)
    BY <1>1, <1>4 DEF AllHold
  <2>2. sel[p] \in range
    BY <2>1, InForm, NodeForm DEF TermHolds, Selected
  <2>3. QED BY <1>4, <2>1, <2>2
<1>5. QED BY <1>2, <1>3, <1>4, ExcludesForm DEF Good

\* _record_dependency_clauses: the clauses of a decision are facts for the whole
\* widened parent range, whose released versions ask the same.
LEMMA DependencyClausesGood ==
  ASSUME NEW prob \in ProblemType, NEW p \in Package, NEW v \in Version,
         NEW parents \in ParentRanges(prob, p, v),
         NEW c \in DependencyClauses(prob, p, v, parents)
  PROVE  Good(prob, c)
<1>1. /\ parents \in Ranges
      /\ \A w \in parents \cap prob.avail[p] : prob.deps[p][w] = prob.deps[p][v]
  BY DEF ParentRanges, Ranges
<1>2. ASSUME NEW d \in Requires(prob, p, v) \ {p}
      PROVE  Good(prob, DependencyClause(p, parents, d, prob.deps[p][v][d]))
  <2> DEFINE range == prob.deps[p][v][d]
  <2>1. d \in Package \ {p} /\ range \in Ranges
    BY RequiresForm
  <2>2. ASSUME NEW sel, IsSolution(prob, sel), sel[p] \in parents
        PROVE  ~TermHolds(sel, d, NotIn(range))
    <3>1. sel[p] \in Version /\ sel[p] \in prob.avail[p]
      BY <1>1, <2>2, SolutionForm
    <3>2. d \in Requires(prob, p, sel[p]) /\ prob.deps[p][sel[p]][d] = range
      BY <1>1, <2>2, <3>1 DEF Requires
    <3>3. sel[d] \in range
      BY <2>2, <3>1, <3>2, SolutionForm
    <3>4. QED BY <2>1, <3>3, InForm, NodeForm DEF TermHolds, Selected
  <2>3. QED BY <1>1, <2>1, <2>2, InForm, PairGood DEF DependencyClause
<1>3. ASSUME p \in Requires(prob, p, v), v \notin prob.deps[p][v][p]
      PROVE  Good(prob, SelfClause(p, {v}))
  <2>1. {v} \in Ranges /\ "DEPENDENCY" \in Causes /\ p \in Node
    BY NodeForm DEF Ranges, Causes
  <2>2. ASSUME NEW sel, IsSolution(prob, sel), sel[p] \in {v}
        PROVE  FALSE
    BY <1>3, <2>2, SolutionForm
  <2>3. QED BY <2>1, <2>2, SingleGood DEF SelfClause
<1>4. QED BY <1>2, <1>3 DEF DependencyClauses
----------------------------------------------------------------------------
(* Look-ahead. *)

\* Among released versions, the gaps around a set of versions hold only them.
LEMMA CandidateUnionForm ==
  ASSUME NEW prob \in ProblemType, NEW p \in Package, NEW vs \in Ranges
  PROVE  /\ CandidateUnion(prob, p, vs) \in Ranges
         /\ \A w \in CandidateUnion(prob, p, vs) \cap prob.avail[p] : w \in vs
<1>1. \A v \in Version : Gap(prob, p, v) \in Ranges
  BY DEF Gap, Ranges
<1>2. CandidateUnion(prob, p, vs) \in Ranges
  BY <1>1 DEF CandidateUnion, Ranges
<1>3. ASSUME NEW w \in CandidateUnion(prob, p, vs), w \in prob.avail[p], w \notin vs
      PROVE  FALSE
  <2>1. PICK v \in vs : w \in Gap(prob, p, v)
    BY DEF CandidateUnion
  <2>2. w \in Int /\ v \in Int /\ w # v
    BY <1>2, <1>3, VersionAssumption DEF Ranges
  <2>3. ~(w <= w /\ w <= v) /\ ~(v <= w /\ w <= w)
    BY <1>3, <2>1, <2>2 DEF Gap
  <2>4. QED BY <2>2, <2>3
<1>4. QED BY <1>2, <1>3

\* A version whose requirement the root requirements rule out is in no solution.
LEMMA RootBlockersExclude ==
  ASSUME NEW prob \in ProblemType, NEW p \in Package, NEW v \in Version,
         NEW d \in RootBlockers(prob, p, v), NEW sel, IsSolution(prob, sel)
  PROVE  sel[p] # v
<1>1. SUFFICES ASSUME sel[p] = v PROVE FALSE
  OBVIOUS
<1>2. d \in Requires(prob, p, v) /\ d \in Package
  BY RequiresForm DEF RootBlockers
<1>3. sel[d] \in prob.deps[p][v][d]
  BY <1>1, <1>2, SolutionForm
<1>4. sel[d] \in Version
  BY <1>2, <1>3, RequiresForm, SolutionForm
<1>5. \A i \in DOMAIN prob.root :
        prob.root[i].package = d => sel[d] \in prob.root[i].constraint
  BY SolutionForm
<1>6. RootRange(prob, d) # NoRange => sel[d] \in RootRange(prob, d)
  BY <1>4, <1>5 DEF RootRange
<1>7. QED BY <1>3, <1>6 DEF RootBlockers, RuledOut

\* A solution that selects p among released versions near vs selects p in vs.
LEMMA UnionSelects ==
  ASSUME NEW prob \in ProblemType, NEW p \in Package, NEW vs \in Ranges,
         NEW sel, IsSolution(prob, sel), sel[p] \in CandidateUnion(prob, p, vs)
  PROVE  sel[p] \in vs /\ sel[p] \in Version
BY CandidateUnionForm, SolutionForm

\* The clause for the versions the root requirements rule out is a fact.
LEMMA RootRejectionGood ==
  ASSUME NEW prob \in ProblemType, NEW p \in Package, NEW vs \in Ranges,
         \A v \in vs : \E d : d \in RootBlockers(prob, p, v)
  PROVE  Good(prob, RootRejection(prob, p, vs))
<1>1. CandidateUnion(prob, p, vs) \in Ranges
  BY CandidateUnionForm
<1>2. ASSUME NEW sel, IsSolution(prob, sel),
             sel[p] \in CandidateUnion(prob, p, vs)
      PROVE  FALSE
  BY <1>2, UnionSelects, RootBlockersExclude
<1>3. QED BY <1>1, <1>2, NodeForm, SingleGood
         DEF RootRejection, NoVersionsClause, Causes

\* The clause for the versions blocked by another package is a fact: whatever
\* the package is narrowed to later, one of their requirements must hold.
LEMMA BlockRejectionGood ==
  ASSUME NEW prob \in ProblemType, NEW p \in Package, NEW vs \in Ranges,
         NEW d \in Package \ {p}, \A v \in vs : d \in Requires(prob, p, v)
  PROVE  Good(prob, BlockRejection(prob, p, vs, d))
<1> DEFINE asked == UNION {prob.deps[p][v][d] : v \in vs}
           range == CandidateUnion(prob, p, vs)
           t == In(Version \ asked)
<1>1. range \in Ranges
  BY CandidateUnionForm
<1>2. t \in Term /\ t.positive /\ t.constraint = Version \ asked
  BY InForm DEF Ranges
<1>3. ASSUME NEW sel, IsSolution(prob, sel), sel[p] \in range
      PROVE  ~TermHolds(sel, d, t)
  <2>1. sel[p] \in vs /\ sel[p] \in Version
    BY <1>3, UnionSelects
  <2>2. sel[d] \in prob.deps[p][sel[p]][d]
    BY <1>3, <2>1, SolutionForm
  <2>3. sel[d] \in asked
    BY <2>1, <2>2
  <2>4. Selected(sel, d) = sel[d]
    BY NodeForm DEF Selected
  <2>5. QED BY <1>2, <2>3, <2>4 DEF TermHolds
<1>4. BlockRejection(prob, p, vs, d) =
        [terms |-> [q \in {p, d} |-> IF q = p THEN In(range) ELSE t],
         cause |-> "DEPENDENCY", parent |-> p]
  BY DEF BlockRejection
<1> HIDE DEF range, t
<1>5. QED BY <1>1, <1>2, <1>3, <1>4, PairGood

\* The clause for the versions that rule themselves out is a fact.
LEMMA SelfRejectionGood ==
  ASSUME NEW prob \in ProblemType, NEW p \in Package, NEW vs \in Ranges,
         NEW v \in vs, \A u \in vs : p \in Requires(prob, p, u)
  PROVE  Good(prob, SelfRejection(prob, p, vs, v))
<1> DEFINE same == {u \in vs : prob.deps[p][u][p] = prob.deps[p][v][p]}
           near == CandidateUnion(prob, p, same)
           range == near \ prob.deps[p][v][p]
<1>1. same \in Ranges
  BY DEF Ranges
<1>2. near \in Ranges /\ range \in Ranges
  BY <1>1, CandidateUnionForm DEF Ranges
<1>3. ASSUME NEW sel, IsSolution(prob, sel), sel[p] \in range
      PROVE  FALSE
  <2>1. sel[p] \in same /\ sel[p] \in Version
    BY <1>1, <1>3, UnionSelects
  <2>2. sel[p] \in prob.deps[p][sel[p]][p]
    BY <1>3, <2>1, SolutionForm
  <2>3. QED BY <1>3, <2>1, <2>2
<1>4. SelfRejection(prob, p, vs, v) = SelfClause(p, range)
  BY DEF SelfRejection
<1> HIDE DEF range
<1>5. QED BY <1>2, <1>3, <1>4, NodeForm, SingleGood DEF SelfClause, Causes

\* flush_pending_blocks: every clause for rejected versions is a fact, whichever
\* blocker each version was blamed on.
LEMMA RejectionGood ==
  ASSUME NEW prob \in ProblemType, NEW trail, NEW p \in Package,
         NEW vs \in Ranges, NEW blame \in Blames(prob, trail, p, vs),
         NEW c \in RejectionClauses(prob, p, blame)
  PROVE  Good(prob, c)
<1> DEFINE atRoot == RejectedAtRoot(prob, p, blame)
           by(d) == RejectedFor(prob, p, blame, d)
<1>1. /\ DOMAIN blame = vs /\ vs \subseteq Version
      /\ \A v \in vs : /\ blame[v] \in Package
                       /\ blame[v] \in Blockers(prob, trail, p, v)
  BY DEF Blames, Ranges
<1>2. \A v \in vs : blame[v] \in Requires(prob, p, v)
  BY <1>1 DEF Blockers, RootBlockers, SolutionBlockers
<1>3. /\ atRoot \in Ranges
      /\ \A v \in atRoot : \E d : d \in RootBlockers(prob, p, v)
  BY <1>1 DEF RejectedAtRoot, Ranges
<1>4. \A d : by(d) \in Ranges /\ \A v \in by(d) : d \in Requires(prob, p, v)
  BY <1>1, <1>2 DEF RejectedFor, Ranges
<1>5. \A v \in vs \ atRoot : v \in by(blame[v])
  BY <1>1 DEF RejectedFor
<1>6. \/ c = RootRejection(prob, p, atRoot)
      \/ \E v \in vs : blame[v] # p /\ c = BlockRejection(prob, p, by(blame[v]), blame[v])
      \/ \E v \in by(p) : c = SelfRejection(prob, p, by(p), v)
  BY <1>1 DEF RejectionClauses
<1> HIDE DEF atRoot, by
<1>7. CASE c = RootRejection(prob, p, atRoot)
  BY <1>3, <1>7, RootRejectionGood
<1>8. ASSUME NEW v \in vs, blame[v] # p,
             c = BlockRejection(prob, p, by(blame[v]), blame[v])
      PROVE  Good(prob, c)
  BY <1>1, <1>4, <1>8, BlockRejectionGood
<1>9. ASSUME NEW v \in by(p), c = SelfRejection(prob, p, by(p), v)
      PROVE  Good(prob, c)
  BY <1>4, <1>9, SelfRejectionGood
<1>10. QED BY <1>6, <1>7, <1>8, <1>9

\* A scan that rejects anything writes a clause.
LEMMA RejectionLeavesClause ==
  ASSUME NEW prob, NEW p, NEW blame, NEW v \in DOMAIN blame
  PROVE  RejectionClauses(prob, p, blame) # {}
<1>1. CASE v \in RejectedAtRoot(prob, p, blame)
  <2>1. RejectedAtRoot(prob, p, blame) \in {RejectedAtRoot(prob, p, blame)} \ {{}}
    BY <1>1
  <2>2. QED BY <2>1 DEF RejectionClauses
<1>2. CASE v \notin RejectedAtRoot(prob, p, blame) /\ blame[v] # p
  BY <1>2 DEF RejectionClauses
<1>3. CASE v \notin RejectedAtRoot(prob, p, blame) /\ blame[v] = p
  <2>1. v \in RejectedFor(prob, p, blame, p)
    BY <1>3 DEF RejectedFor
  <2>2. QED BY <2>1 DEF RejectionClauses
<1>4. QED BY <1>1, <1>2, <1>3
----------------------------------------------------------------------------
(* The provider's answers. *)

\* What the solver needs of an answer of choose_version.
AnswerOK(prob, trail, p, answer) ==
  /\ answer.version \in Version \cup {Absent}
  /\ answer.version # Absent => answer.version \in Effective(trail, p)
  /\ \A c \in answer.pending : Good(prob, c)
  /\ answer.targets \subseteq Package
  /\ answer.version = Absent /\ answer.pending = {}
       => Candidates(prob, trail, p) = {}

\* The candidates of a package with a version left.
LEMMA CandidatesForm ==
  ASSUME NEW prob, NEW trail, NEW p, Effective(trail, p) \in Ranges,
         Effective(trail, p) # {}
  PROVE  /\ Candidates(prob, trail, p) \in Ranges
         /\ Candidates(prob, trail, p) =
              Effective(trail, p) \cap prob.constraints[p] \cap prob.avail[p]
BY DEF Candidates, Asked, Ranges

\* An answer of the scan is usable: an allowed version, or clauses that say why
\* there is none.
LEMMA ScanAnswersOK ==
  ASSUME NEW prob \in ProblemType, NEW trail, NEW p \in Package,
         Effective(trail, p) \in Ranges, Effective(trail, p) # {},
         NEW answer \in ScanAnswers(prob, trail, p)
  PROVE  AnswerOK(prob, trail, p, answer)
<1> DEFINE candidates == Candidates(prob, trail, p)
           blocked == {v \in candidates : Blockers(prob, trail, p, v) # {}}
<1>1. candidates \in Ranges /\ candidates \subseteq Effective(trail, p)
      /\ \A v \in candidates : v # Absent /\ v \in Version
  BY CandidatesForm, AbsentAssumption DEF Ranges
<1>2. PICK f \in UNION {Blames(prob, trail, p, vs) : vs \in SUBSET candidates} :
        /\ answer.version \in candidates \cup {Absent}
        /\ answer.version = Absent => f \in Blames(prob, trail, p, candidates)
        /\ answer.pending = RejectionClauses(prob, p, f)
        /\ answer.targets = {}
  <2> DEFINE blames == UNION {Blames(prob, trail, p, vs) : vs \in SUBSET blocked}
  <2>1. CASE \E v \in candidates \ blocked : \E f \in blames :
               answer = [version |-> v, pending |-> RejectionClauses(prob, p, f),
                         targets |-> {}]
    BY <1>1, <2>1
  <2>2. CASE \E f \in Blames(prob, trail, p, candidates) :
               answer = [version |-> Absent, pending |-> RejectionClauses(prob, p, f),
                         targets |-> {}]
    BY <2>2
  <2>3. QED BY <2>1, <2>2 DEF ScanAnswers
<1>3. PICK vs \in SUBSET candidates : f \in Blames(prob, trail, p, vs)
  BY <1>2
<1>4. /\ vs \in Ranges /\ DOMAIN f = vs
      /\ answer.version = Absent => DOMAIN f = candidates
  BY <1>1, <1>2, <1>3 DEF Blames, Ranges
<1>5. \A c \in answer.pending : Good(prob, c)
  BY <1>2, <1>3, <1>4, RejectionGood
<1>6. ASSUME answer.version = Absent, answer.pending = {} PROVE candidates = {}
  BY <1>2, <1>4, <1>6, RejectionLeavesClause
<1>7. QED BY <1>1, <1>2, <1>5, <1>6 DEF AnswerOK

\* An answer of an aborted scan is usable.
LEMMA AbortAnswersOK ==
  ASSUME NEW prob \in ProblemType, NEW trail, NEW p \in Package,
         Effective(trail, p) \in Ranges, Effective(trail, p) # {},
         NEW answer \in AbortAnswers(prob, trail, p)
  PROVE  AnswerOK(prob, trail, p, answer)
<1>1. \A v \in Candidates(prob, trail, p) :
        v # Absent /\ v \in Version /\ v \in Effective(trail, p)
  BY CandidatesForm, AbsentAssumption DEF Ranges
<1>2. PICK v \in Candidates(prob, trail, p), T \in SUBSET Package :
        answer = [version |-> v, pending |-> {}, targets |-> T]
  <2>1. PICK d \in Package : answer \in Aborted(prob, trail, p, d)
    BY DEF AbortAnswers
  <2>2. QED BY <2>1 DEF Aborted, BlockedBy
<1>3. QED BY <1>1, <1>2 DEF AnswerOK

\* Every answer of choose_version is usable, with and without look-ahead.
LEMMA AnswersOK ==
  ASSUME NEW prob \in ProblemType, NEW trail, NEW p \in Package,
         Effective(trail, p) \in Ranges, Effective(trail, p) # {},
         NEW answer \in Answers(prob, trail, p)
  PROVE  AnswerOK(prob, trail, p, answer)
<1>1. CASE LookAhead
  BY <1>1, ScanAnswersOK, AbortAnswersOK DEF Answers
<1>2. CASE ~LookAhead
  <2>1. \A v \in Candidates(prob, trail, p) :
          v # Absent /\ v \in Version /\ v \in Effective(trail, p)
    BY CandidatesForm, AbsentAssumption DEF Ranges
  <2>2. QED BY <1>2, <2>1 DEF Answers, AnswerOK, Plain
<1>3. QED BY <1>1, <1>2

\* record_no_versions: with no candidate, the clause against the allowed range is
\* a fact.
LEMMA NoVersionsGood ==
  ASSUME NEW prob \in ProblemType, NEW trail, NEW p \in Package,
         Effective(trail, p) \in Ranges, Effective(trail, p) # {},
         Candidates(prob, trail, p) = {},
         NEW cause \in {"NO_VERSIONS", "CONSTRAINT"}
  PROVE  Good(prob, NoVersionsClause(p, Effective(trail, p), cause))
<1>1. \A sel : IsSolution(prob, sel) => sel[p] \notin Effective(trail, p)
  BY CandidatesForm, SolutionForm
<1>2. cause \in Causes /\ cause # "DEPENDENCY"
  BY DEF Causes
<1>3. QED BY <1>1, <1>2, NodeForm, SingleGood DEF NoVersionsClause
=============================================================================
