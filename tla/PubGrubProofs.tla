--------------------------- MODULE PubGrubProofs ---------------------------
(***************************************************************************)
(* Theorems of PubGrub!Spec, from one inductive invariant, after lemmas    *)
(* about the solver's operators: merges, satisfiers, jumps.                *)
(***************************************************************************)
EXTENDS PubGrub, ProblemProofs, FiniteSetTheorems

----------------------------------------------------------------------------
(* The formula. *)

FormulaEntry == [clause : Clause, contradicted_at : Int]

\* A clause as it enters the formula: not contradicted in any epoch.
LEMMA FreshForm ==
  ASSUME NEW c \in Clause
  PROVE  /\ Fresh(c) \in FormulaEntry /\ Fresh(c).clause = c
         /\ Fresh(c).contradicted_at = NotContradicted
         /\ NotContradicted \in Int
BY DEF Fresh, FormulaEntry, NotContradicted

\* _maybe_merge_dependency: the merge of two facts with one key is a fact.
LEMMA MergedGood ==
  ASSUME NEW prob, NEW c, Good(prob, c), NEW d, Good(prob, d), SameKey(c, d)
  PROVE  Good(prob, Merged(c, d))
<1> DEFINE m == Merged(c, d)
           p == c.parent
           range == ParentRange(c) \cup ParentRange(d)
<1>1. /\ c \in Clause /\ d \in Clause /\ d.parent = p
      /\ p \in DOMAIN c.terms /\ c.terms[p].positive
      /\ p \in DOMAIN d.terms /\ d.terms[p].positive
      /\ DOMAIN c.terms = DOMAIN d.terms
      /\ \A q \in DOMAIN c.terms \ {p} : c.terms[q] = d.terms[q]
  BY DEF SameKey, Mergeable, Good, Shape
<1>2. c.terms[p] \in Term /\ d.terms[p] \in Term
  BY <1>1, ClauseTerms
<1>3. range \in Ranges
  BY <1>1, <1>2 DEF ParentRange, Term, Ranges
<1>4. /\ DOMAIN m.terms = DOMAIN c.terms /\ m.terms[p] = In(range)
      /\ \A q \in DOMAIN c.terms \ {p} : m.terms[q] = c.terms[q]
      /\ m.cause = c.cause /\ m.parent = p
  BY <1>1 DEF Merged, Clause
<1>5. m \in Clause
  <2>1. m.terms \in TermMap
    <3>1. \A q \in DOMAIN m.terms : q \in Node /\ m.terms[q] \in Term
      BY <1>1, <1>3, <1>4, ClauseTerms, InForm
    <3>2. m.terms = [q \in DOMAIN c.terms |-> m.terms[q]]
      BY <1>1 DEF Merged, Clause
    <3>3. QED BY <1>4, <3>1, <3>2, TermMapForm
  <2>2. m = [terms |-> m.terms, cause |-> c.cause, parent |-> c.parent]
    BY <1>1 DEF Merged, Clause
  <2>3. QED BY <1>1, <2>1, <2>2 DEF Clause
<1> HIDE DEF m
<1>6. Shape(m)
  BY <1>1, <1>3, <1>4, InForm DEF Shape
<1>7. ASSUME NEW sel, IsSolution(prob, sel), AllHold(sel, m.terms)
      PROVE  FALSE
  <2>1. \A q \in DOMAIN c.terms \ {p} :
          TermHolds(sel, q, c.terms[q]) /\ TermHolds(sel, q, d.terms[q])
    BY <1>1, <1>4, <1>7 DEF AllHold
  <2>2. Selected(sel, p) \in range
    BY <1>1, <1>3, <1>4, <1>7, InForm DEF AllHold, TermHolds
  <2>3. TermHolds(sel, p, c.terms[p]) \/ TermHolds(sel, p, d.terms[p])
    BY <1>1, <2>2 DEF TermHolds, ParentRange
  <2>4. AllHold(sel, c.terms) \/ AllHold(sel, d.terms)
    BY <1>1, <2>1, <2>3 DEF AllHold
  <2>5. QED BY <1>7, <2>4, ExcludesForm DEF Good
<1>8. QED BY <1>5, <1>6, <1>7, ExcludesForm DEF Good, m

\* Adding a clause keeps the old entries or replaces them by fresh ones.
LEMMA AddForm ==
  ASSUME NEW prob, NEW f \in Seq(FormulaEntry), NEW c, Good(prob, c),
         \A i \in DOMAIN f : Good(prob, f[i].clause)
  PROVE  /\ Add(f, c) \in Seq(FormulaEntry)
         /\ \A i \in DOMAIN Add(f, c) :
               /\ Good(prob, Add(f, c)[i].clause)
               /\ \/ i \in DOMAIN f /\ Add(f, c)[i] = f[i]
                  \/ Add(f, c)[i].contradicted_at = NotContradicted
<1>1. c \in Clause
  BY DEF Good
<1>2. \A i \in DOMAIN f : f[i] \in FormulaEntry
  OBVIOUS
<1>3. CASE \E i \in DOMAIN f : SameKey(f[i].clause, c)
  <2> DEFINE g == Add(f, c)
             new(i) == SameKey(f[i].clause, c)
                       /\ ~(ParentRange(c) \subseteq ParentRange(f[i].clause))
  <2>1. g = [i \in DOMAIN f |->
               IF new(i) THEN Fresh(Merged(f[i].clause, c)) ELSE f[i]]
    BY <1>3 DEF Add
  <2> HIDE DEF g
  <2>2. ASSUME NEW i \in DOMAIN f
        PROVE  /\ g[i] \in FormulaEntry /\ Good(prob, g[i].clause)
               /\ g[i] = f[i] \/ g[i].contradicted_at = NotContradicted
    <3>1. CASE new(i)
      <4>1. Good(prob, Merged(f[i].clause, c))
        BY <3>1, MergedGood
      <4>2. g[i] = Fresh(Merged(f[i].clause, c))
        BY <2>1, <3>1
      <4>3. QED BY <4>1, <4>2, FreshForm DEF Good
    <3>2. CASE ~new(i)
      BY <1>2, <2>1, <3>2
    <3>3. QED BY <3>1, <3>2
  <2>3. g \in Seq(FormulaEntry) /\ DOMAIN g = DOMAIN f
    <3>1. DOMAIN f = 1..Len(f) /\ Len(f) \in Nat
      OBVIOUS
    <3>2. DOMAIN g = 1..Len(f)
      BY <2>1, <3>1
    <3>3. g \in [1..Len(f) -> FormulaEntry]
      BY <2>1, <2>2, <3>1
    <3>4. QED BY <3>1, <3>2, <3>3, IsASeq
  <2>4. QED BY <2>2, <2>3 DEF g
<1>4. CASE ~\E i \in DOMAIN f : SameKey(f[i].clause, c)
  <2>1. Add(f, c) = Append(f, Fresh(c))
    BY <1>4 DEF Add
  <2>2. QED BY <1>1, <2>1, FreshForm, AppendProperties
<1>5. QED BY <1>3, <1>4
----------------------------------------------------------------------------
(* Satisfiers, resolvents and the level jumped back to. *)

\* satisfier finds the earliest entry that satisfies a term.
LEMMA SatisfierForm ==
  ASSUME trail \in Seq(Assignment), NEW terms \in TermMap, Reached(trail, terms),
         NEW p \in DOMAIN terms
  PROVE  LET k == SatisfierIn(terms, p) IN
         /\ k \in DOMAIN trail /\ k \in 1..Len(trail) /\ k \in Nat
         /\ trail[k] \in Assignment /\ trail[k].package = p
         /\ SatisfiedAt(trail[k], terms[p])
         /\ \A i \in Satisfiers(trail, p, terms[p]) : k <= i
<1> DEFINE S == Satisfiers(trail, p, terms[p])
           k == SatisfierIn(terms, p)
<1>1. S \in SUBSET Nat /\ S # {} /\ S \subseteq Entries(trail, p)
  BY EntriesForm DEF Satisfiers, Reached
<1>2. k \in S /\ \A i \in S : k <= i
  BY <1>1, MinExists DEF SatisfierIn, Satisfier
<1>3. SatisfiedAt(trail[k], terms[p])
  BY <1>2 DEF Satisfiers
<1>4. QED BY <1>1, <1>2, <1>3, EntriesForm

\* find_most_recent_satisfier: the latest of the satisfiers, its package a package
\* of the clause.
LEMMA MostRecentForm ==
  ASSUME trail \in Seq(Assignment), NEW terms \in TermMap, Reached(trail, terms),
         DOMAIN terms # {}
  PROVE  /\ MostRecent(terms) \in DOMAIN trail /\ MostRecent(terms) \in Nat
         /\ SatisfierEntry(terms) = trail[MostRecent(terms)]
         /\ SatisfierEntry(terms) \in Assignment
         /\ SatisfiedLast(terms) \in DOMAIN terms
         /\ MostRecent(terms) = SatisfierIn(terms, SatisfiedLast(terms))
         /\ SatisfiedAt(SatisfierEntry(terms), terms[SatisfiedLast(terms)])
         /\ \A p \in DOMAIN terms : SatisfierIn(terms, p) <= MostRecent(terms)
<1> DEFINE S == SatisfierIndices(terms)
<1>1. S \in SUBSET Nat /\ S # {} /\ \A i \in S : i <= Len(trail)
  BY SatisfierForm DEF SatisfierIndices
<1>2. MostRecent(terms) \in S /\ \A i \in S : i <= MostRecent(terms)
  <2>1. Len(trail) \in Nat
    OBVIOUS
  <2>2. QED BY <1>1, <2>1, MaxExists DEF MostRecent
<1>3. PICK p \in DOMAIN terms : MostRecent(terms) = SatisfierIn(terms, p)
  BY <1>2 DEF SatisfierIndices
<1>4. SatisfiedLast(terms) = p
  BY <1>3, SatisfierForm DEF SatisfiedLast, SatisfierEntry
<1>5. QED BY <1>2, <1>3, <1>4, SatisfierForm DEF SatisfierEntry, SatisfierIndices

\* Only the first entry is about ROOT.
LEMMA NotTerminal ==
  ASSUME WellFormed(trail), NEW terms \in TermMap, Reached(trail, terms),
         ~Terminal(terms)
  PROVE  MostRecent(terms) > 1 /\ DOMAIN terms # {}
<1>1. PICK p \in DOMAIN terms : p # ROOT
  BY DEF Terminal
<1>2. trail \in Seq(Assignment)
  BY DEF WellFormed
<1>3. SatisfierIn(terms, p) > 1
  <2>1. trail[1].package = ROOT
    BY DEF WellFormed, Rooted
  <2>2. QED BY <1>1, <1>2, <2>1, SatisfierForm
<1>4. QED BY <1>2, <1>3, MostRecentForm, SatisfierForm

\* One resolution step keeps the clause a fact whose terms all have satisfiers.
LEMMA ResolventOK ==
  ASSUME NEW prob, WellFormed(trail), NEW c, Good(prob, c),
         Reached(trail, c.terms), DOMAIN c.terms # {},
         ~SatisfierEntry(c.terms).is_decision,
         Good(prob, SatisfierEntry(c.terms).cause)
  PROVE  LET r == ResolveWithCause(c.terms) IN
         /\ r \in TermMap /\ Good(prob, Derived(r)) /\ Derived(r).terms = r
         /\ Reached(trail, r)
<1> DEFINE left == c.terms
           a == SatisfierEntry(left)
           right == a.cause.terms
           shared == SatisfiedLast(left)
           r == ResolveWithCause(left)
           k == MostRecent(left)
<1>1. /\ trail \in Seq(Assignment) /\ Narrow(trail) /\ Justified(trail)
      /\ c \in Clause /\ left \in TermMap
  BY ClauseTerms DEF WellFormed, Good
<1>2. /\ k \in DOMAIN trail /\ a = trail[k] /\ a \in Assignment
      /\ shared \in DOMAIN left /\ a.package = shared
  BY <1>1, MostRecentForm DEF SatisfiedLast
<1>3. right \in TermMap
  BY <1>2, AssignmentForm, ClauseTerms
<1>4. r = PriorCause(left, right, shared)
  BY DEF ResolveWithCause
<1>5. r \in TermMap
  BY <1>1, <1>3, <1>4, PriorCauseType
<1>6. Derived(r) \in Clause /\ Derived(r).terms = r /\ Shape(Derived(r))
  BY <1>5, NodeForm DEF Derived, Clause, Causes, Shape
<1>7. ASSUME NEW sel, IsSolution(prob, sel), AllHold(sel, r)
      PROVE  FALSE
  <2>1. AllHold(sel, left) \/ AllHold(sel, right)
    BY <1>1, <1>3, <1>4, <1>7, PriorCauseSound
  <2>2. QED BY <1>7, <2>1, ExcludesForm DEF Good
<1>8. \A q \in DOMAIN right \ {shared} : Satisfiers(trail, q, right[q]) # {}
  BY <1>1, <1>2 DEF Justified, JustifiedAt
<1>9. Reached(trail, r)
  BY <1>1, <1>2, <1>3, <1>4, <1>8, PriorCauseReached
<1>10. QED BY <1>5, <1>6, <1>7, <1>9, ExcludesForm DEF Good

\* The satisfier itself excludes what its own assertion leaves over of the term.
LEMMA ExclusionSatisfied ==
  ASSUME NEW a \in Assignment, NEW s \in Term, NEW t \in Term, SatisfiedAt(a, t)
  PROVE  /\ Conjoin(Negate(s), Negate(t)) \in Term
         /\ SatisfiedAt(a, Negate(Conjoin(Negate(s), Negate(t))))
<1>1. /\ Negate(s) \in Term /\ Negate(t) \in Term
      /\ Conjoin(Negate(s), Negate(t)) \in Term
  BY NegateForm, ConjoinType
<1>2. /\ Negate(s).constraint = s.constraint /\ (Negate(s).positive <=> ~s.positive)
      /\ Negate(t).constraint = t.constraint /\ (Negate(t).positive <=> ~t.positive)
  BY NegateForm
<1> DEFINE d == Conjoin(Negate(s), Negate(t))
<1>3. /\ d.positive <=> (~s.positive \/ ~t.positive)
      /\ d.constraint = IF ~s.positive
                        THEN IF ~t.positive THEN s.constraint \cap t.constraint
                                            ELSE s.constraint \ t.constraint
                        ELSE IF ~t.positive THEN t.constraint \ s.constraint
                                            ELSE s.constraint \cup t.constraint
  BY <1>2 DEF Conjoin, In, NotIn
<1>4. /\ Negate(d).positive <=> ~d.positive
      /\ Negate(d).constraint = d.constraint
  BY <1>1, NegateForm
<1> HIDE DEF d
<1>5. SatisfiedAt(a, Negate(d))
  BY <1>3, <1>4 DEF SatisfiedAt, Satisfies
<1>6. QED BY <1>1, <1>5 DEF d

\* The level a partial satisfier adds is no higher than that of the satisfier.
LEMMA PartialLevelsForm ==
  ASSUME WellFormed(trail), NEW k \in DOMAIN trail, NEW t \in Term,
         SatisfiedAt(trail[k], t), NEW l \in PartialLevels(trail[k], t)
  PROVE  l \in Nat /\ 1 <= l /\ l <= trail[k].decision_level
<1> DEFINE a == trail[k]
           s == a.cause.terms[a.package]
           difference == Conjoin(Negate(s), Negate(t))
           earlier == Satisfiers(trail, a.package, Negate(difference))
<1>1. trail \in Seq(Assignment) /\ Ordered(trail) /\ a \in Assignment
  BY DEF WellFormed
<1>2. a.package \in DOMAIN a.cause.terms /\ earlier # {}
      /\ l = trail[Min(earlier)].decision_level
  BY DEF PartialLevels
<1>3. s \in Term
  BY <1>1, <1>2, AssignmentForm, ClauseTerms
<1>4. k \in earlier
  BY <1>1, <1>3, ExclusionSatisfied DEF Satisfiers, Entries
<1>5. earlier \in SUBSET Nat /\ earlier \subseteq DOMAIN trail
  BY <1>1, EntriesForm DEF Satisfiers
<1>6. Min(earlier) \in DOMAIN trail /\ Min(earlier) <= k
  BY <1>2, <1>4, <1>5, MinExists
<1>7. trail[Min(earlier)] \in Assignment
  BY <1>1, <1>6
<1>8. QED BY <1>1, <1>2, <1>6, <1>7, AssignmentForm DEF Ordered

\* recompute_previous_level lies between level 1 and the level of the satisfier.
LEMMA PreviousLevelForm ==
  ASSUME WellFormed(trail), NEW terms \in TermMap, Reached(trail, terms),
         DOMAIN terms # {}
  PROVE  /\ PreviousLevel(terms) \in Nat /\ PreviousLevel(terms) >= 1
         /\ PreviousLevel(terms) <= SatisfierEntry(terms).decision_level
<1> DEFINE a == SatisfierEntry(terms)
           k == MostRecent(terms)
           p == SatisfiedLast(terms)
           others == {trail[SatisfierIn(terms, q)].decision_level
                        : q \in DOMAIN terms \ {p}}
           partial == PartialLevels(a, terms[p])
           S == {1} \cup others \cup partial
<1>1. trail \in Seq(Assignment) /\ Ordered(trail)
  BY DEF WellFormed
<1>2. /\ k \in DOMAIN trail /\ k \in Nat /\ a = trail[k] /\ a \in Assignment
      /\ p \in DOMAIN terms /\ SatisfiedAt(a, terms[p])
      /\ \A q \in DOMAIN terms : SatisfierIn(terms, q) <= k
  BY <1>1, MostRecentForm
<1>3. a.decision_level \in Nat /\ 1 <= a.decision_level
  BY <1>1, <1>2, AssignmentForm DEF Ordered
<1>4. ASSUME NEW q \in DOMAIN terms
      PROVE  LET l == trail[SatisfierIn(terms, q)].decision_level IN
             l \in Nat /\ 1 <= l /\ l <= a.decision_level
  <2>1. /\ SatisfierIn(terms, q) \in DOMAIN trail
        /\ trail[SatisfierIn(terms, q)] \in Assignment
    BY <1>1, SatisfierForm
  <2>2. QED BY <1>1, <1>2, <2>1, AssignmentForm DEF Ordered
<1>5. ASSUME NEW l \in partial
      PROVE  l \in Nat /\ 1 <= l /\ l <= a.decision_level
  <2>1. terms[p] \in Term
    BY <1>2, TermMapForm
  <2>2. QED BY <1>2, <1>5, <2>1, PartialLevelsForm
<1>6. S \in SUBSET Nat /\ S # {} /\ \A l \in S : 1 <= l /\ l <= a.decision_level
  BY <1>3, <1>4, <1>5
<1>7. PreviousLevel(terms) = Max(S)
  BY DEF PreviousLevel
<1> HIDE DEF S
<1>8. Max(S) \in S
  BY <1>3, <1>6, MaxExists
<1>9. QED BY <1>6, <1>7, <1>8

\* The level jumped back to is at least 1 and below the current one: the branch of
\* conflict_resolution for a target below 1 is never taken.
LEMMA TargetForm ==
  ASSUME WellFormed(trail), level \in Nat,
         \A i \in DOMAIN trail : trail[i].decision_level <= level,
         NEW terms \in TermMap, Reached(trail, terms), ~Terminal(terms),
         CanBackjump(terms)
  PROVE  /\ BackjumpTarget(terms) \in Nat
         /\ 1 <= BackjumpTarget(terms) /\ BackjumpTarget(terms) < level
<1> DEFINE a == SatisfierEntry(terms)
           k == MostRecent(terms)
<1>1. trail \in Seq(Assignment)
  BY DEF WellFormed
<1>2. k > 1 /\ DOMAIN terms # {}
  BY NotTerminal
<1>3. k \in DOMAIN trail /\ a = trail[k] /\ a \in Assignment
  BY <1>1, <1>2, MostRecentForm
<1>4. a.decision_level \in Nat /\ a.decision_level <= level
  BY <1>3, AssignmentForm
<1>5. a.is_decision => a.decision_level >= 2
  BY <1>2, <1>3 DEF WellFormed, Rooted
<1>6. /\ PreviousLevel(terms) \in Nat /\ PreviousLevel(terms) >= 1
      /\ PreviousLevel(terms) <= a.decision_level
  BY <1>2, PreviousLevelForm
<1>7. CASE a.is_decision
  BY <1>4, <1>5, <1>6, <1>7 DEF BackjumpTarget
<1>8. CASE ~a.is_decision
  <2>1. PreviousLevel(terms) < a.decision_level
    BY <1>4, <1>6, <1>8 DEF CanBackjump
  <2>2. QED BY <1>4, <1>6, <1>8, <2>1 DEF BackjumpTarget
<1>9. QED BY <1>7, <1>8

\* The learned clause, forced or not, is a fact whose terms have satisfiers, and
\* one that can be jumped back on.
LEMMA LearnedOK ==
  ASSUME NEW prob, WellFormed(trail), Good(prob, conflict.clause),
         Reached(trail, conflict.clause.terms),
         \A i \in DOMAIN trail :
           trail[i].is_decision \/ Good(prob, trail[i].cause),
         ~Terminal(conflict.clause.terms), CanBackjump(conflict.clause.terms)
  PROVE  /\ Good(prob, Learned) /\ Learned.terms \in TermMap
         /\ Reached(trail, Learned.terms)
         /\ ~Terminal(Learned.terms) /\ CanBackjump(Learned.terms)
<1> DEFINE c == conflict.clause
           r == ResolveWithCause(c.terms)
<1>1. c \in Clause /\ c.terms \in TermMap /\ trail \in Seq(Assignment)
  BY ClauseTerms DEF Good, WellFormed
<1>2. CASE ~Forceable(c.terms)
  BY <1>1, <1>2 DEF Learned
<1>3. CASE Forceable(c.terms)
  <2>1. /\ ~SatisfierEntry(c.terms).is_decision
        /\ Cardinality(DOMAIN r) >= 2 /\ CanBackjump(r)
    BY <1>3 DEF Forceable
  <2>2. DOMAIN c.terms # {}
    BY DEF Terminal
  <2>3. Good(prob, SatisfierEntry(c.terms).cause)
    BY <1>1, <2>1, <2>2, MostRecentForm
  <2>4. /\ r \in TermMap /\ Good(prob, Derived(r)) /\ Derived(r).terms = r
        /\ Reached(trail, r)
    BY <2>1, <2>2, <2>3, ResolventOK
  <2>5. ~Terminal(r)
    <3>1. SUFFICES ASSUME DOMAIN r \subseteq {ROOT} PROVE FALSE
      BY DEF Terminal
    <3>2. DOMAIN r = {} \/ DOMAIN r = {ROOT}
      BY <3>1
    <3>3. Cardinality(DOMAIN r) \in {0, 1}
      BY <3>2, FS_EmptySet, FS_Singleton
    <3>4. QED BY <2>1, <3>3
  <2>6. QED BY <1>3, <2>1, <2>4, <2>5 DEF Learned
<1>4. QED BY <1>2, <1>3

----------------------------------------------------------------------------
(* The inductive invariant. *)

TrailOK ==
  /\ WellFormed(trail) /\ level >= 1
  /\ \A i \in DOMAIN trail : trail[i].decision_level <= level

ClausesGood ==
  /\ \A i \in DOMAIN formula : Good(problem, formula[i].clause)
  /\ \A c \in backlog : Good(problem, c)
  /\ \A i \in DOMAIN trail : trail[i].is_decision \/ Good(problem, trail[i].cause)

\* The clause of a conflict: a fact, its terms reached, none about a package
\* once resolution has given up.
ConflictOK ==
  /\ phase \in {"conflict", "failed"} =>
       Good(problem, conflict.clause) /\ Reached(trail, conflict.clause.terms)
  /\ phase = "failed" => Terminal(conflict.clause.terms)

\* An entry that leaves its package, which is asked for, no version at all.
Emptied(a) == a.cum_positive # NoRange /\ Allowed(a) = {}

EmptiedOnTop ==
  \A i \in DOMAIN trail : Emptied(trail[i]) =>
    /\ phase \in {"propagate", "conflict", "failed"}
    /\ trail[i].decision_level = level

\* What a trail makes of a clause: every term holds, one is contradicted.
Violates(u, c) == \A p \in DOMAIN c.terms : Satisfied(u, p, c.terms[p])
Settles(u, c) == \E p \in DOMAIN c.terms : Contradicted(u, p, c.terms[p])

\* The package of an emptied entry is due, with a clause it violates.
AwaitsConflict(p) ==
  \E k \in DOMAIN formula :
    /\ p \in DOMAIN formula[k].clause.terms /\ Violates(trail, formula[k].clause)
    /\ \/ \E m \in DOMAIN queue : queue[m] = p
       \/ changed = p /\ k > cursor

EmptiedPending ==
  phase = "propagate" =>
    \A i \in DOMAIN trail : Emptied(trail[i]) => AwaitsConflict(trail[i].package)

ChoiceOK ==
  phase = "absorb" =>
    LET p == choice.package IN
    /\ p \in Package /\ Positive(trail, p) # NoRange
    /\ choice.version # Absent => choice.version \in Effective(trail, p)
    /\ choice.version = Absent /\ ~choice.pending
         => Candidates(problem, trail, p) = {}

StampsOK ==
  \A i \in DOMAIN formula :
    formula[i].contradicted_at = epoch => Settles(trail, formula[i].clause)

IInv ==
  /\ TypeOK /\ TrailOK /\ ClausesGood /\ ConflictOK
  /\ EmptiedOnTop /\ EmptiedPending /\ ChoiceOK /\ StampsOK

----------------------------------------------------------------------------
(* The initial states. *)

\* The cause a decision carries is a clause.
LEMMA NoCauseClause == NoCause \in Clause
<1>1. [p \in {} |-> In({})] \in TermMap
  BY TermMapForm
<1>2. QED BY <1>1, NodeForm DEF NoCause, Clause, Causes

\* The decision of ROOT, at level 1.
LEMMA RootDecisionForm ==
  /\ RootDecision \in Assignment /\ RootDecision.package = ROOT
  /\ RootDecision.decision_level = 1 /\ RootDecision.is_decision
  /\ Allowed(RootDecision) = {RootVersion} /\ RootDecision.cum_positive # NoRange
<1> DEFINE a == RootDecision
           none == << >>
<1>1. none \in Seq(Assignment) /\ ~Assigned(none, ROOT)
  BY DEF Assigned, Entries
<1>2. Negative(none, ROOT) = {}
  BY <1>1 DEF Negative
<1>3. a = Decision(none, 1, ROOT, RootVersion)
  BY DEF RootDecision
<1>4. ROOT \in Node /\ 1 \in Nat /\ RootVersion \in Version
  BY NodeForm, RootVersionAssumption
<1> HIDE DEF a, none
<1>5. /\ a \in Assignment /\ a.package = ROOT /\ a.decision_level = 1
      /\ a.is_decision /\ a.cum_positive = {RootVersion}
      /\ {RootVersion} # NoRange
      /\ Allowed(a) = {RootVersion} \ Negative(none, ROOT)
  BY <1>1, <1>3, <1>4, DecisionForm
<1>6. QED BY <1>2, <1>5 DEF a

\* The trail a resolution or a restart begins with is well formed.
LEMMA FreshTrail ==
  /\ WellFormed(<<RootDecision>>)
  /\ \A i \in DOMAIN <<RootDecision>> :
        /\ <<RootDecision>>[i].decision_level = 1
        /\ <<RootDecision>>[i].is_decision /\ ~Emptied(<<RootDecision>>[i])
<1> DEFINE u == <<RootDecision>>
<1>1. u \in Seq(Assignment) /\ Len(u) = 1 /\ DOMAIN u = {1} /\ u[1] = RootDecision
  BY RootDecisionForm
<1> HIDE DEF u
<1>2. Ordered(u) /\ Rooted(u) /\ Narrow(u) /\ Justified(u)
  BY <1>1, RootDecisionForm DEF Ordered, Rooted, Narrow, Justified, JustifiedAt
<1>3. QED BY <1>1, <1>2, RootDecisionForm DEF u, WellFormed, Emptied

\* The invariant holds at the start of a resolution.
LEMMA InitIInv == Init => IInv
<1> SUFFICES ASSUME Init PROVE IInv
  OBVIOUS
<1>1. problem \in ProblemType
  BY ProblemsAssumption DEF Init
<1>2. \A i \in DOMAIN problem.root : Good(problem, RootClause(problem.root[i]))
  BY <1>1, RootClauseGood
<1>3. /\ formula \in Seq(FormulaEntry)
      /\ \A i \in DOMAIN formula : /\ Good(problem, formula[i].clause)
                                   /\ formula[i].contradicted_at = NotContradicted
  <2>1. DOMAIN problem.root = 1..Len(problem.root) /\ Len(problem.root) \in Nat
    BY <1>1, ProblemForm
  <2>2. formula = [i \in 1..Len(problem.root) |-> Fresh(RootClause(problem.root[i]))]
    BY <2>1 DEF Init
  <2>3. ASSUME NEW i \in 1..Len(problem.root)
        PROVE  /\ formula[i] \in FormulaEntry /\ Good(problem, formula[i].clause)
               /\ formula[i].contradicted_at = NotContradicted
    <3>1. Good(problem, RootClause(problem.root[i]))
          /\ formula[i] = Fresh(RootClause(problem.root[i]))
      BY <1>2, <2>1, <2>2
    <3>2. QED BY <3>1, FreshForm DEF Good
  <2>4. DOMAIN formula = 1..Len(problem.root)
    BY <2>2
  <2>5. formula \in [1..Len(problem.root) -> FormulaEntry]
    BY <2>2, <2>3
  <2>6. formula \in Seq(FormulaEntry)
    BY <2>1, <2>5, IsASeq
  <2>7. QED BY <2>3, <2>4, <2>6
<1>4. trail \in Seq(Assignment)
  BY RootDecisionForm DEF Init
<1>5. TypeOK
  <2>1. formula \in Seq([clause : Clause, contradicted_at : Int])
    BY <1>3 DEF FormulaEntry
  <2>2. /\ phase \in Phases /\ rounds \in 0..MaxIterations
        /\ level \in Nat /\ epoch \in Nat
        /\ changed \in Node /\ cursor \in Nat /\ queue \in Seq(Node)
        /\ conflicts \in Nat /\ backlog \in SUBSET Clause
        /\ conflictCount \in [Node -> Nat] /\ culpritCount \in [Node -> Nat]
        /\ pendingTargets \in SUBSET Node /\ targetedBacktracks \in Nat
        /\ restartThreshold \in Nat /\ restartsLeft \in Nat
    BY NodeForm, ThresholdAssumption DEF Init, Phases
  <2>3. recorded \in [Package -> [Version -> {NoRange} \cup Ranges]]
    BY DEF Init
  <2>4. conflict \in [clause : Clause, derived : BOOLEAN]
    BY NoCauseClause DEF Init, NoConflict
  <2>5. choice \in [package : Node, version : Version \cup {Absent},
                    pending : BOOLEAN, targets : SUBSET Package]
    BY NodeForm DEF Init, NoChoice
  <2>6. \A i \in DOMAIN formula :
          formula[i].contradicted_at \in {NotContradicted} \cup 0..epoch
    BY <1>3
  <2>7. QED BY <1>1, <1>4, <2>1, <2>2, <2>3, <2>4, <2>5, <2>6 DEF TypeOK
<1>6. TrailOK /\ EmptiedOnTop
  BY FreshTrail DEF Init, TrailOK, EmptiedOnTop
<1>7. ClausesGood
  BY <1>3, FreshTrail DEF Init, ClausesGood
<1>8. ConflictOK /\ EmptiedPending /\ ChoiceOK
  BY DEF Init, ConflictOK, EmptiedPending, ChoiceOK
<1>9. StampsOK
  <2>1. epoch = 0
    BY DEF Init
  <2>2. QED BY <1>3, <2>1 DEF StampsOK, NotContradicted
<1>10. QED BY <1>5, <1>6, <1>7, <1>8, <1>9 DEF IInv

----------------------------------------------------------------------------
(* What a clause is to the solution, and what a new assignment changes. *)

\* The two readings of evaluate_incompatibility's results agree.
LEMMA ViolatedForm ==
  ASSUME NEW c
  PROVE  /\ Violated(c) <=> Violates(trail, c)
         /\ Refuted(c) # {} <=> Settles(trail, c)
         /\ Settles(trail, c) => ~Violates(trail, c)
         /\ Open(c) # {} => ~Violates(trail, c)
BY DEF Violated, Refuted, Open, Violates, Settles, Satisfied, Contradicted

\* A satisfied term stays satisfied when the trail is extended.
LEMMA SatisfiedPersists ==
  ASSUME NEW u, WellFormed(u), NEW a \in Assignment, Extends(u, a),
         NEW p, NEW t \in Term, Satisfied(u, p, t)
  PROVE  Satisfied(Append(u, a), p, t)
<1>1. u \in Seq(Assignment)
  BY DEF WellFormed
<1>2. CASE p # a.package
  BY <1>1, <1>2, AppendOther DEF Satisfied
<1>3. CASE p = a.package
  <2>1. /\ Assigned(Append(u, a), p) /\ Effective(Append(u, a), p) = Allowed(a)
        /\ Positive(Append(u, a), p) = a.cum_positive
    BY <1>1, <1>3, AppendSame
  <2>2. /\ Assigned(u, p) /\ Allowed(a) \subseteq Effective(u, p)
        /\ Positive(u, p) # NoRange => a.cum_positive # NoRange
    BY <1>3 DEF Satisfied, Extends
  <2>3. QED BY <2>1, <2>2 DEF Satisfied, Satisfies
<1>4. QED BY <1>2, <1>3

\* A contradicted term stays contradicted, unless its package is emptied.
LEMMA ContradictedPersists ==
  ASSUME NEW u, WellFormed(u), NEW a \in Assignment, Extends(u, a),
         Allowed(a) # {}, NEW p, NEW t \in Term, Contradicted(u, p, t)
  PROVE  Contradicted(Append(u, a), p, t)
<1>1. u \in Seq(Assignment)
  BY DEF WellFormed
<1>2. CASE p # a.package
  BY <1>1, <1>2, AppendOther DEF Contradicted
<1>3. CASE p = a.package
  <2>1. /\ Assigned(Append(u, a), p) /\ Effective(Append(u, a), p) = Allowed(a)
        /\ Positive(Append(u, a), p) = a.cum_positive
    BY <1>1, <1>3, AppendSame
  <2>2. /\ Assigned(u, p) /\ Allowed(a) \subseteq Effective(u, p)
        /\ Positive(u, p) # NoRange => a.cum_positive # NoRange
    BY <1>3 DEF Contradicted, Extends
  <2>3. /\ Satisfies(Effective(u, p), Negate(t))
        /\ ~t.positive => Positive(u, p) # NoRange
    BY DEF Contradicted, Contradicts
  <2>4. Satisfies(Allowed(a), Negate(t)) /\ ~Satisfies(Allowed(a), t)
    BY <2>2, <2>3, NegateForm DEF Satisfies
  <2>5. QED BY <2>1, <2>2, <2>3, <2>4 DEF Contradicted, Contradicts
<1>4. QED BY <1>2, <1>3

\* Stamps stay good when the trail grows, or a new epoch makes them all stale.
LEMMA StampsAfterAppend ==
  ASSUME IInv, NEW a \in Assignment, Extends(trail, a),
         NEW i \in DOMAIN formula, formula[i].contradicted_at = EpochAfter(a)
  PROVE  Settles(Append(trail, a), formula[i].clause)
<1>1. /\ formula[i].contradicted_at \in {NotContradicted} \cup 0..epoch
      /\ epoch \in Nat /\ WellFormed(trail) /\ formula[i].clause \in Clause
  BY DEF IInv, TypeOK, TrailOK, ClausesGood, Good
<1>2. Allowed(a) # {} /\ formula[i].contradicted_at = epoch
  BY <1>1 DEF EpochAfter, NotContradicted
<1>3. Settles(trail, formula[i].clause)
  BY <1>2 DEF IInv, StampsOK
<1>4. QED BY <1>1, <1>2, <1>3, ContradictedPersists, ClauseTerms DEF Settles

\* The clause looked at is the first of those due.
LEMMA LookAtForm ==
  ASSUME IInv, NEW i \in DOMAIN formula, LookAt(i)
  PROVE  /\ i \in Due /\ i \in Nat /\ phase = "propagate"
         /\ changed \in DOMAIN formula[i].clause.terms
         /\ \A k \in Due : i <= k
         /\ formula[i].clause \in Clause /\ Good(problem, formula[i].clause)
<1>1. Due \in SUBSET Nat
  BY DEF Due, IInv, TypeOK
<1>2. i \in Due /\ \A k \in Due : i <= k
  BY <1>1, MinExists DEF LookAt
<1>3. QED BY <1>1, <1>2 DEF LookAt, Due, IInv, ClausesGood, Good

\* A violated clause that waits behind the cursor is due.
LEMMA ViolatedDue ==
  ASSUME IInv, NEW k \in DOMAIN formula, k > cursor,
         changed \in DOMAIN formula[k].clause.terms,
         Violates(trail, formula[k].clause)
  PROVE  k \in Due
BY ViolatedForm DEF IInv, StampsOK, Due

\* Trail, clauses and stamps stay good when nothing about them changes.
LEMMA SameClauses ==
  ASSUME IInv, UNCHANGED <<problem, formula, trail, level, epoch, backlog>>
  PROVE  TrailOK' /\ ClausesGood' /\ StampsOK'
BY DEF IInv, TrailOK, ClausesGood, StampsOK

----------------------------------------------------------------------------
(* unit_propagation. *)

\* A new round of solve keeps the invariant.
LEMMA StartRoundStep == ASSUME IInv, StartRound PROVE IInv'
<1>1. TypeOK'
  <2>1. rounds' \in 0..MaxIterations /\ phase' \in Phases
    BY ThresholdAssumption DEF IInv, TypeOK, StartRound, Phases
  <2>2. /\ conflict' \in [clause : Clause, derived : BOOLEAN]
        /\ choice' \in [package : Node, version : Version \cup {Absent},
                        pending : BOOLEAN, targets : SUBSET Package]
    BY NoCauseClause, NodeForm DEF StartRound, NoConflict, NoChoice
  <2>3. QED
    BY <2>1, <2>2 DEF IInv, TypeOK, StartRound, solution, propagation, counts
<1>2. TrailOK' /\ ClausesGood' /\ StampsOK'
  BY SameClauses DEF StartRound, solution
<1>3. ConflictOK' /\ EmptiedOnTop' /\ EmptiedPending' /\ ChoiceOK'
  BY DEF IInv, StartRound, solution, ConflictOK, EmptiedOnTop, EmptiedPending,
         ChoiceOK
<1>4. QED BY <1>1, <1>2, <1>3 DEF IInv

\* Reaching max_iterations keeps the invariant.
LEMMA ReachLimitStep == ASSUME IInv, ReachLimit PROVE IInv'
<1>1. TypeOK'
  BY DEF IInv, TypeOK, ReachLimit, Phases, Finished, solution, propagation,
         decision, counts
<1>2. TrailOK' /\ ClausesGood' /\ StampsOK'
  BY SameClauses DEF ReachLimit, solution, decision
<1>3. ConflictOK' /\ EmptiedOnTop' /\ EmptiedPending' /\ ChoiceOK'
  BY DEF IInv, ReachLimit, solution, ConflictOK, EmptiedOnTop, EmptiedPending,
         ChoiceOK
<1>4. QED BY <1>1, <1>2, <1>3 DEF IInv

\* A stamp is either unset or an epoch that has been reached.
LEMMA StampsInRange ==
  ASSUME IInv
  PROVE  /\ epoch \in Nat
         /\ \A k \in DOMAIN formula :
              formula[k].contradicted_at \in {NotContradicted} \cup 0..epoch
<1>1. TypeOK
  BY DEF IInv
<1>2. QED BY <1>1, Zenon DEF TypeOK

\* Stamping a contradicted clause keeps the invariant.
LEMMA SettleStep ==
  ASSUME IInv, NEW i \in DOMAIN formula, Settle(i) PROVE IInv'
<1>1. /\ i \in Nat /\ phase = "propagate" /\ i \in Due
      /\ \A k \in Due : i <= k
  BY LookAtForm DEF Settle
<1>2. Settles(trail, formula[i].clause)
  BY ViolatedForm DEF Settle
<1>3. UNCHANGED <<problem, phase, trail, level, epoch, backlog, conflict, choice,
                  changed, queue>> /\ cursor' = i
  BY DEF Settle, solution, decision
<1>4. /\ DOMAIN formula' = DOMAIN formula
      /\ \A k \in DOMAIN formula :
            /\ formula'[k].clause = formula[k].clause
            /\ formula'[k].contradicted_at =
                 IF k = i THEN epoch ELSE formula[k].contradicted_at
      /\ formula' \in Seq(FormulaEntry)
  <2>1. formula \in Seq(FormulaEntry) /\ epoch \in Nat
    BY DEF IInv, TypeOK, FormulaEntry
  <2>2. formula' = [formula EXCEPT ![i].contradicted_at = epoch]
    BY DEF Settle
  <2>3. \A k \in DOMAIN formula : formula[k] \in FormulaEntry
    BY <2>1
  <2>4. ASSUME NEW k \in DOMAIN formula
        PROVE  /\ formula'[k] \in FormulaEntry
               /\ formula'[k].clause = formula[k].clause
               /\ formula'[k].contradicted_at =
                    IF k = i THEN epoch ELSE formula[k].contradicted_at
    <3>1. CASE k = i
      <4>1. formula'[k] = [formula[k] EXCEPT !.contradicted_at = epoch]
        BY <2>1, <2>2, <3>1
      <4>2. QED BY <2>1, <2>3, <3>1, <4>1 DEF FormulaEntry
    <3>2. CASE k # i
      BY <2>1, <2>2, <2>3, <3>2
    <3>3. QED BY <3>1, <3>2
  <2>5. DOMAIN formula' = DOMAIN formula /\ DOMAIN formula = 1..Len(formula)
        /\ Len(formula) \in Nat
    BY <2>1, <2>2
  <2>6. formula' = [k \in 1..Len(formula) |-> formula'[k]]
    BY <2>1, <2>2, <2>5
  <2>7. QED BY <2>4, <2>5, <2>6, IsASeq
<1>5. TypeOK'
  <2>1. \A k \in DOMAIN formula' :
          formula'[k].contradicted_at \in {NotContradicted} \cup 0..epoch
    <3>1. epoch \in {NotContradicted} \cup 0..epoch
      BY StampsInRange
    <3>2. QED BY <1>4, <3>1, StampsInRange
  <2>2. formula' \in Seq([clause : Clause, contradicted_at : Int])
    BY <1>4 DEF FormulaEntry
  <2>3. QED
    BY <1>1, <2>1, <2>2 DEF IInv, TypeOK, Settle, solution, decision, counts
<1>6. TrailOK' /\ ClausesGood'
  BY <1>3, <1>4 DEF IInv, TrailOK, ClausesGood
<1>7. StampsOK'
  BY <1>2, <1>3, <1>4 DEF IInv, StampsOK
<1>8. ConflictOK' /\ EmptiedOnTop' /\ ChoiceOK'
  BY <1>1, <1>3 DEF IInv, ConflictOK, EmptiedOnTop, ChoiceOK
<1>9. EmptiedPending'
  <2>1. ASSUME NEW p, AwaitsConflict(p)
        PROVE  AwaitsConflict(p)'
    <3>1. PICK k \in DOMAIN formula :
            /\ p \in DOMAIN formula[k].clause.terms
            /\ Violates(trail, formula[k].clause)
            /\ \/ \E m \in DOMAIN queue : queue[m] = p
               \/ changed = p /\ k > cursor
      BY <2>1 DEF AwaitsConflict
    <3>2. ASSUME changed = p, k > cursor
          PROVE  k > i
      <4>1. k \in Due
        BY <3>1, <3>2, ViolatedDue
      <4>2. k # i
        BY <1>2, <3>1, ViolatedForm
      <4>3. k \in Nat
        BY DEF IInv, TypeOK
      <4>4. QED BY <1>1, <4>1, <4>2, <4>3
    <3>3. QED BY <1>3, <1>4, <3>1, <3>2 DEF AwaitsConflict
  <2>2. QED BY <1>1, <1>3, <2>1 DEF IInv, EmptiedPending
<1>10. QED BY <1>5, <1>6, <1>7, <1>8, <1>9 DEF IInv

\* Passing over a clause with two open terms keeps the invariant.
LEMMA PassOverStep ==
  ASSUME IInv, NEW i \in DOMAIN formula, PassOver(i) PROVE IInv'
<1>1. /\ i \in Nat /\ phase = "propagate" /\ i \in Due
      /\ \A k \in Due : i <= k
  BY LookAtForm DEF PassOver
<1>2. ~Violates(trail, formula[i].clause)
  <2>1. Open(formula[i].clause) # {}
    BY FS_EmptySet DEF PassOver
  <2>2. QED BY <2>1, ViolatedForm
<1>3. UNCHANGED <<problem, phase, formula, trail, level, epoch, backlog, conflict,
                  choice, changed, queue>> /\ cursor' = i
  BY DEF PassOver, solution, decision
<1>4. TypeOK'
  BY <1>1 DEF IInv, TypeOK, PassOver, solution, decision, counts
<1>5. TrailOK' /\ ClausesGood' /\ StampsOK'
  BY <1>3, SameClauses
<1>6. ConflictOK' /\ EmptiedOnTop' /\ ChoiceOK'
  BY <1>1, <1>3 DEF IInv, ConflictOK, EmptiedOnTop, ChoiceOK
<1>7. EmptiedPending'
  <2>1. ASSUME NEW p, AwaitsConflict(p)
        PROVE  AwaitsConflict(p)'
    <3>1. PICK k \in DOMAIN formula :
            /\ p \in DOMAIN formula[k].clause.terms
            /\ Violates(trail, formula[k].clause)
            /\ \/ \E m \in DOMAIN queue : queue[m] = p
               \/ changed = p /\ k > cursor
      BY <2>1 DEF AwaitsConflict
    <3>2. ASSUME changed = p, k > cursor
          PROVE  k > i
      <4>1. k \in Due
        BY <3>1, <3>2, ViolatedDue
      <4>2. k # i
        BY <1>2, <3>1, ViolatedForm
      <4>3. k \in Nat
        BY DEF IInv, TypeOK
      <4>4. QED BY <1>1, <4>1, <4>2, <4>3
    <3>3. QED BY <1>3, <3>1, <3>2 DEF AwaitsConflict
  <2>2. QED BY <1>1, <1>3, <2>1 DEF IInv, EmptiedPending
<1>8. QED BY <1>4, <1>5, <1>6, <1>7 DEF IInv

\* Taking the next package off the propagation queue keeps the invariant.
LEMMA NextPackageStep == ASSUME IInv, NextPackage PROVE IInv'
<1>1. queue \in Seq(Node) /\ queue # << >>
  BY DEF IInv, TypeOK, NextPackage
<1>2. /\ Head(queue) \in Node /\ Tail(queue) \in Seq(Node) /\ Head(queue) = queue[1]
      /\ DOMAIN Tail(queue) = 1..(Len(queue) - 1)
      /\ \A m \in 2..Len(queue) : Tail(queue)[m - 1] = queue[m]
      /\ DOMAIN queue = 1..Len(queue)
  BY <1>1, HeadTailProperties
<1>3. /\ UNCHANGED <<problem, phase, formula, trail, level, epoch, backlog, conflict,
                     choice>>
      /\ cursor' = 0 /\ changed' = Head(queue) /\ queue' = Tail(queue)
      /\ phase = "propagate" /\ Due = {}
  BY DEF NextPackage, solution, decision
<1>4. TypeOK'
  BY <1>2 DEF IInv, TypeOK, NextPackage, solution, decision, counts
<1>5. TrailOK' /\ ClausesGood' /\ StampsOK'
  BY <1>3, SameClauses
<1>6. ConflictOK' /\ EmptiedOnTop' /\ ChoiceOK'
  BY <1>3 DEF IInv, ConflictOK, EmptiedOnTop, ChoiceOK
<1>7. EmptiedPending'
  <2>1. \A k \in DOMAIN formula : k > 0
    BY DEF IInv, TypeOK
  <2>2. ASSUME NEW p, AwaitsConflict(p)
        PROVE  AwaitsConflict(p)'
    <3>1. PICK k \in DOMAIN formula :
            /\ p \in DOMAIN formula[k].clause.terms
            /\ Violates(trail, formula[k].clause)
            /\ \E m \in DOMAIN queue : queue[m] = p
      BY <1>3, <2>2, ViolatedDue DEF AwaitsConflict
    <3>2. PICK m \in 1..Len(queue) : queue[m] = p
      BY <1>2, <3>1
    <3>3. CASE m = 1
      BY <1>2, <1>3, <2>1, <3>1, <3>2, <3>3 DEF AwaitsConflict
    <3>4. CASE m # 1
      <4>1. m - 1 \in DOMAIN Tail(queue) /\ Tail(queue)[m - 1] = p
        BY <1>1, <1>2, <3>2, <3>4
      <4>2. QED BY <1>3, <3>1, <4>1 DEF AwaitsConflict
    <3>5. QED BY <3>3, <3>4
  <2>3. QED BY <1>3, <2>2 DEF IInv, EmptiedPending
<1>8. QED BY <1>4, <1>5, <1>6, <1>7 DEF IInv

\* When propagation ends, no package is left emptied: the clause it violates
\* would still be due.
LEMMA FinishPropagationStep == ASSUME IInv, FinishPropagation PROVE IInv'
<1>1. /\ UNCHANGED <<problem, formula, trail, level, epoch, backlog, conflict, choice>>
      /\ phase = "propagate" /\ phase' = "decide" /\ Due = {} /\ queue = << >>
  BY DEF FinishPropagation, solution, decision
<1>2. TypeOK'
  BY DEF IInv, TypeOK, FinishPropagation, Phases, solution, decision, counts
<1>3. TrailOK' /\ ClausesGood' /\ StampsOK'
  BY <1>1, SameClauses
<1>4. \A p : ~AwaitsConflict(p)
  BY <1>1, ViolatedDue DEF AwaitsConflict
<1>5. EmptiedOnTop'
  BY <1>1, <1>4 DEF IInv, EmptiedPending, EmptiedOnTop
<1>6. ConflictOK' /\ EmptiedPending' /\ ChoiceOK'
  BY <1>1 DEF ConflictOK, EmptiedPending, ChoiceOK
<1>7. QED BY <1>2, <1>3, <1>5, <1>6 DEF IInv

\* A violated clause enters conflict resolution with a satisfier for each term.
LEMMA FindConflictStep ==
  ASSUME IInv, NEW i \in DOMAIN formula, FindConflict(i) PROVE IInv'
<1> DEFINE c == formula[i].clause
<1>1. c \in Clause /\ Good(problem, c) /\ phase = "propagate"
  BY LookAtForm DEF FindConflict
<1>2. /\ UNCHANGED <<problem, formula, trail, level, epoch, backlog, choice>>
      /\ phase' = "conflict" /\ conflict' = [clause |-> c, derived |-> FALSE]
  BY DEF FindConflict, solution, decision
<1>3. TypeOK'
  BY <1>1 DEF IInv, TypeOK, FindConflict, Phases, solution, decision
<1>4. TrailOK' /\ ClausesGood' /\ StampsOK'
  BY <1>2, SameClauses
<1>5. Reached(trail, c.terms)
  <2>1. Violates(trail, c)
    BY ViolatedForm DEF FindConflict
  <2>2. trail \in Seq(Assignment)
    BY DEF IInv, TypeOK
  <2>3. QED BY <1>1, <2>1, <2>2, ClauseTerms, SatisfiedEntry DEF Violates, Reached
<1>6. ConflictOK'
  BY <1>1, <1>2, <1>5 DEF ConflictOK
<1>7. EmptiedOnTop' /\ EmptiedPending' /\ ChoiceOK'
  BY <1>1, <1>2 DEF IInv, EmptiedOnTop, EmptiedPending, ChoiceOK
<1>8. QED BY <1>3, <1>4, <1>6, <1>7 DEF IInv

\* An entry of a longer trail is an old one or the new one.
LEMMA AppendIndex ==
  ASSUME NEW u \in Seq(Assignment), NEW a \in Assignment,
         NEW j \in DOMAIN Append(u, a)
  PROVE  \/ j \in DOMAIN u /\ Append(u, a)[j] = u[j]
         \/ Append(u, a)[j] = a
BY AppendProperties

\* ROOT is assigned once, to its one version.
LEMMA RootForm ==
  ASSUME NEW u, WellFormed(u)
  PROVE  /\ Assigned(u, ROOT) /\ Effective(u, ROOT) = {RootVersion}
         /\ Positive(u, ROOT) # NoRange
         /\ \A j \in DOMAIN u : u[j].package = ROOT => Allowed(u[j]) = {RootVersion}
<1>1. /\ u \in Seq(Assignment) /\ Len(u) >= 1 /\ Len(u) \in Nat
      /\ u[1].package = ROOT /\ Allowed(u[1]) = {RootVersion}
      /\ u[1].cum_positive # NoRange
      /\ \A j \in DOMAIN u : j > 1 => u[j].package \in Package
  BY DEF WellFormed, Rooted
<1>2. \A j \in DOMAIN u : u[j].package = ROOT => j = 1
  BY <1>1, NodeForm
<1>3. 1 \in Entries(u, ROOT)
  BY <1>1 DEF Entries
<1>4. Assigned(u, ROOT)
  BY <1>3 DEF Assigned
<1>5. LastOf(u, ROOT) = u[1]
  BY <1>1, <1>2, <1>4, LastEntry, EntriesForm
<1>6. QED BY <1>1, <1>2, <1>4, <1>5 DEF Effective, Positive

\* What makes a clause derive: one open term, about a package, the rest held.
LEMMA DeriveForm ==
  ASSUME IInv, NEW c \in Clause, Refuted(c) = {}, NEW p \in Open(c), Open(c) = {p}
  PROVE  LET a == Derivation(trail, level, p, Negate(c.terms[p]), c) IN
         /\ p \in Package /\ p \in DOMAIN c.terms
         /\ a \in Assignment /\ Extends(trail, a) /\ a.package = p
         /\ a.decision_level = level /\ a.cause = c /\ ~a.is_decision
         /\ Emptied(a) => /\ ~Assigned(trail, p) /\ Allowed(a) # Effective(trail, p)
                          /\ Violates(Append(trail, a), c)
<1> DEFINE t == c.terms[p]
           a == Derivation(trail, level, p, Negate(t), c)
<1>1. /\ WellFormed(trail) /\ trail \in Seq(Assignment) /\ level \in Nat
      /\ \A j \in DOMAIN trail : trail[j].decision_level <= level
  BY DEF IInv, TypeOK, TrailOK
<1>2. /\ p \in DOMAIN c.terms /\ t \in Term /\ p \in Node
      /\ ~Satisfied(trail, p, t) /\ ~Contradicted(trail, p, t)
      /\ Negate(t) \in Term /\ Negate(t).constraint = t.constraint
      /\ Negate(t).positive <=> ~t.positive
  BY ClauseTerms, NegateForm DEF Open
<1>3. \A q \in DOMAIN c.terms \ {p} : Satisfied(trail, q, c.terms[q])
  BY DEF Open, Refuted
<1>4. p \in Package
  <2>1. SUFFICES ASSUME p = ROOT PROVE FALSE
    BY <1>2 DEF Node
  <2>2. /\ Assigned(trail, p) /\ Effective(trail, p) = {RootVersion}
        /\ Positive(trail, p) # NoRange
    BY <1>1, <2>1, RootForm
  <2>3. ~Satisfies({RootVersion}, t) /\ ~Contradicts({RootVersion}, t)
    BY <1>2, <2>2 DEF Satisfied, Contradicted
  <2>4. QED BY <1>2, <2>3 DEF Satisfies, Contradicts
<1>5. /\ a \in Assignment /\ a.package = p /\ a.decision_level = level
      /\ ~a.is_decision /\ a.cause = c
      /\ a.cum_positive # NoRange <=> (~t.positive \/ Positive(trail, p) # NoRange)
      /\ Allowed(a) = IF Assigned(trail, p)
                      THEN IF ~t.positive THEN Effective(trail, p) \cap t.constraint
                                          ELSE Effective(trail, p) \ t.constraint
                      ELSE IF ~t.positive THEN t.constraint
                                          ELSE Version \ t.constraint
  <2> DEFINE n == Negate(t)
  <2>1. a = Derivation(trail, level, p, n, c) /\ n \in Term
    BY <1>2
  <2> HIDE DEF a, n
  <2>2. /\ a \in Assignment /\ a.package = p /\ a.decision_level = level
        /\ ~a.is_decision /\ a.cause = c
        /\ a.cum_positive # NoRange <=> (n.positive \/ Positive(trail, p) # NoRange)
        /\ Allowed(a) = IF Assigned(trail, p)
                        THEN IF n.positive THEN Effective(trail, p) \cap n.constraint
                                           ELSE Effective(trail, p) \ n.constraint
                        ELSE IF n.positive THEN n.constraint
                                           ELSE Version \ n.constraint
    BY <1>1, <1>2, <2>1, DerivationForm
  <2>3. n.constraint = t.constraint /\ (n.positive <=> ~t.positive)
    BY <1>2 DEF n
  <2>4. QED BY <2>2, <2>3
<1> HIDE DEF a
<1>6. Extends(trail, a)
  BY <1>1, <1>3, <1>4, <1>5 DEF Extends
<1>7. ASSUME Emptied(a)
      PROVE  /\ ~Assigned(trail, p) /\ Allowed(a) # Effective(trail, p)
             /\ Violates(Append(trail, a), c)
  <2>1. Allowed(a) = {} /\ a.cum_positive # NoRange
    BY <1>7 DEF Emptied
  <2>2. ~Assigned(trail, p)
    BY <1>2, <1>5, <2>1 DEF Satisfied, Satisfies
  <2>3. Allowed(a) # Effective(trail, p)
    BY <2>1, <2>2, NoRangeAssumption DEF Effective
  <2>4. Satisfied(Append(trail, a), p, t)
    <3>1. /\ Assigned(Append(trail, a), p) /\ Effective(Append(trail, a), p) = {}
          /\ Positive(Append(trail, a), p) # NoRange
      BY <1>1, <1>5, <2>1, AppendSame
    <3>2. QED BY <3>1 DEF Satisfied, Satisfies
  <2>5. ASSUME NEW q \in DOMAIN c.terms \ {p}
        PROVE  Satisfied(Append(trail, a), q, c.terms[q])
    BY <1>1, <1>3, <1>5, <1>6, ClauseTerms, SatisfiedPersists
  <2>6. QED BY <2>2, <2>3, <2>4, <2>5 DEF Violates
<1>8. QED BY <1>2, <1>4, <1>5, <1>6, <1>7 DEF a

\* A derivation keeps the invariant.
LEMMA DeriveStep ==
  ASSUME IInv, NEW i \in DOMAIN formula, Derive(i) PROVE IInv'
<1> DEFINE c == formula[i].clause
<1>1. /\ i \in Nat /\ phase = "propagate" /\ i \in Due
      /\ \A k \in Due : i <= k
      /\ c \in Clause /\ Good(problem, c)
  BY LookAtForm DEF Derive
<1>2. PICK p \in Open(c) :
        LET a == Derivation(trail, level, p, Negate(c.terms[p]), c) IN
        /\ Open(c) = {p} /\ trail' = Append(trail, a)
        /\ epoch' = EpochAfter(a) /\ queue' = QueueAfter(a)
  BY DEF Derive
<1> DEFINE a == Derivation(trail, level, p, Negate(c.terms[p]), c)
<1>3. /\ trail' = Append(trail, a) /\ epoch' = EpochAfter(a)
      /\ queue' = QueueAfter(a)
      /\ UNCHANGED <<problem, phase, formula, level, backlog, conflict, choice,
                     changed>>
      /\ cursor' = i
  BY <1>2 DEF Derive, decision
<1>4. /\ p \in Package /\ p \in DOMAIN c.terms
      /\ a \in Assignment /\ Extends(trail, a) /\ a.package = p
      /\ a.decision_level = level /\ a.cause = c
      /\ Emptied(a) => /\ Allowed(a) # Effective(trail, p)
                       /\ Violates(Append(trail, a), c)
  <2>1. Refuted(c) = {} /\ Open(c) = {p}
    BY <1>2 DEF Derive
  <2>2. QED BY <1>1, <2>1, DeriveForm
<1>5. ~Violates(trail, c)
  BY <1>2, ViolatedForm
<1> HIDE DEF a
<1>6. WellFormed(trail) /\ trail \in Seq(Assignment) /\ WellFormed(Append(trail, a))
  BY <1>4, AppendWellFormed DEF IInv, TypeOK, TrailOK
<1>7. \A j \in DOMAIN trail' : (j \in DOMAIN trail /\ trail'[j] = trail[j])
                               \/ trail'[j] = a
  BY <1>3, <1>4, <1>6, AppendIndex
<1>8. /\ queue' \in Seq(Node)
      /\ \A q : (\E m \in DOMAIN queue : queue[m] = q)
                  => \E m \in DOMAIN queue' : queue'[m] = q
      /\ Allowed(a) # Effective(trail, p) => \E m \in DOMAIN queue' : queue'[m] = p
  <2>1. queue \in Seq(Node) /\ p \in Node
    BY <1>4, NodeForm DEF IInv, TypeOK
  <2>2. queue' = queue \/ queue' = Append(queue, p)
    BY <1>3, <1>4 DEF QueueAfter
  <2>3. CASE queue' = queue
    BY <1>3, <1>4, <2>1, <2>3, AppendProperties DEF QueueAfter
  <2>4. CASE queue' = Append(queue, p)
    <3>1. /\ Append(queue, p) \in Seq(Node)
          /\ \A m \in DOMAIN queue : /\ m \in DOMAIN Append(queue, p)
                                     /\ Append(queue, p)[m] = queue[m]
          /\ Len(queue) + 1 \in DOMAIN Append(queue, p)
          /\ Append(queue, p)[Len(queue) + 1] = p
      BY <2>1, AppendProperties
    <3>2. QED BY <2>4, <3>1
  <2>5. QED BY <2>2, <2>3, <2>4
<1>9. epoch' \in Nat /\ epoch' >= epoch
  <2>1. epoch \in Nat
    BY DEF IInv, TypeOK
  <2>2. epoch' = epoch \/ epoch' = epoch + 1
    BY <1>3 DEF EpochAfter
  <2>3. QED BY <2>1, <2>2
<1>10. TypeOK'
  <2>1. \A k \in DOMAIN formula :
          formula[k].contradicted_at \in {NotContradicted} \cup 0..epoch'
    <3>1. 0..epoch \subseteq 0..epoch'
      BY <1>9, StampsInRange
    <3>2. QED BY <3>1, StampsInRange
  <2>2. trail' \in Seq(Assignment)
    BY <1>3, <1>6 DEF WellFormed
  <2>3. QED
    BY <1>1, <1>8, <1>9, <2>1, <2>2 DEF IInv, TypeOK, Derive, decision, counts
<1>11. TrailOK' /\ ClausesGood'
  <2>1. level \in Nat
    BY DEF IInv, TypeOK
  <2>2. TrailOK'
    BY <1>3, <1>4, <1>6, <1>7, <2>1 DEF IInv, TrailOK
  <2>3. ClausesGood'
    BY <1>1, <1>3, <1>4, <1>7 DEF IInv, ClausesGood
  <2>4. QED BY <2>2, <2>3
<1>12. StampsOK'
  BY <1>3, <1>4, StampsAfterAppend DEF StampsOK
<1>13. ConflictOK' /\ EmptiedOnTop' /\ ChoiceOK'
  BY <1>1, <1>3, <1>4, <1>7 DEF IInv, ConflictOK, EmptiedOnTop, ChoiceOK
<1>14. EmptiedPending'
  <2>1. ASSUME NEW q, AwaitsConflict(q)
        PROVE  AwaitsConflict(q)'
    <3>1. PICK k \in DOMAIN formula :
            /\ q \in DOMAIN formula[k].clause.terms
            /\ Violates(trail, formula[k].clause)
            /\ \/ \E m \in DOMAIN queue : queue[m] = q
               \/ changed = q /\ k > cursor
      BY <2>1 DEF AwaitsConflict
    <3>2. ASSUME changed = q, k > cursor
          PROVE  k > i
      <4>1. k \in Due
        BY <3>1, <3>2, ViolatedDue
      <4>2. k # i
        BY <1>5, <3>1
      <4>3. k \in Nat
        BY DEF IInv, TypeOK
      <4>4. QED BY <1>1, <4>1, <4>2, <4>3
    <3>3. Violates(trail', formula[k].clause)
      <4>1. formula[k].clause \in Clause
        BY DEF IInv, ClausesGood, Good
      <4>2. QED
        BY <1>3, <1>4, <1>6, <3>1, <4>1, SatisfiedPersists, ClauseTerms DEF Violates
    <3>4. QED BY <1>3, <1>8, <3>1, <3>2, <3>3 DEF AwaitsConflict
  <2>2. Emptied(a) => AwaitsConflict(p)'
    BY <1>3, <1>4, <1>8 DEF AwaitsConflict
  <2>3. QED BY <1>1, <1>3, <1>4, <1>7, <2>1, <2>2 DEF IInv, EmptiedPending
<1>15. QED BY <1>10, <1>11, <1>12, <1>13, <1>14 DEF IInv

----------------------------------------------------------------------------
(* conflict_resolution, targeted backtracks and restarts. *)

\* Giving up keeps the invariant.
LEMMA GiveUpStep == ASSUME IInv, GiveUp PROVE IInv'
<1>1. TypeOK'
  BY DEF IInv, TypeOK, GiveUp, Phases, Finished, solution, propagation, decision,
         counts
<1>2. TrailOK' /\ ClausesGood' /\ StampsOK'
  BY SameClauses DEF GiveUp, solution, decision
<1>3. ConflictOK' /\ EmptiedOnTop' /\ EmptiedPending' /\ ChoiceOK'
  BY DEF IInv, GiveUp, solution, decision, ConflictOK, EmptiedOnTop,
         EmptiedPending, ChoiceOK, Terminal
<1>4. QED BY <1>1, <1>2, <1>3 DEF IInv

\* A resolution step keeps the invariant.
LEMMA ResolveStepStep == ASSUME IInv, ResolveStep PROVE IInv'
<1> DEFINE terms == conflict.clause.terms
           r == ResolveWithCause(terms)
<1>1. /\ phase = "conflict" /\ ~Terminal(terms) /\ ~CanBackjump(terms)
      /\ conflict' = [clause |-> Derived(r), derived |-> TRUE]
      /\ UNCHANGED <<problem, phase, formula, trail, level, epoch, backlog, choice>>
  BY DEF ResolveStep, solution, decision
<1>2. /\ WellFormed(trail) /\ Good(problem, conflict.clause) /\ Reached(trail, terms)
      /\ trail \in Seq(Assignment)
  BY <1>1 DEF IInv, TypeOK, TrailOK, ConflictOK
<1>3. ~SatisfierEntry(terms).is_decision /\ DOMAIN terms # {} /\ terms \in TermMap
  BY <1>1, <1>2, ClauseTerms DEF CanBackjump, Terminal, Good
<1>4. Good(problem, SatisfierEntry(terms).cause)
  BY <1>2, <1>3, MostRecentForm DEF IInv, ClausesGood
<1>5. Good(problem, Derived(r)) /\ Derived(r).terms = r /\ Reached(trail, r)
  BY <1>2, <1>3, <1>4, ResolventOK
<1>6. TypeOK'
  <2>1. conflict' \in [clause : Clause, derived : BOOLEAN]
    BY <1>1, <1>5 DEF Good
  <2>2. QED
    BY <2>1 DEF IInv, TypeOK, ResolveStep, solution, propagation, decision, counts
<1>7. TrailOK' /\ ClausesGood' /\ StampsOK'
  BY <1>1, SameClauses
<1>8. ConflictOK'
  BY <1>1, <1>5 DEF ConflictOK
<1>9. EmptiedOnTop' /\ EmptiedPending' /\ ChoiceOK'
  BY <1>1 DEF IInv, EmptiedOnTop, EmptiedPending, ChoiceOK
<1>10. QED BY <1>6, <1>7, <1>8, <1>9 DEF IInv

\* A formula with one more clause.
LEMMA AddClause ==
  ASSUME IInv, NEW c, Good(problem, c)
  PROVE  /\ Add(formula, c) \in Seq([clause : Clause, contradicted_at : Int])
         /\ \A i \in DOMAIN Add(formula, c) :
               /\ Good(problem, Add(formula, c)[i].clause)
               /\ Add(formula, c)[i].contradicted_at \in {NotContradicted} \cup 0..epoch
               /\ \/ i \in DOMAIN formula /\ Add(formula, c)[i] = formula[i]
                  \/ Add(formula, c)[i].contradicted_at = NotContradicted
<1>1. /\ formula \in Seq(FormulaEntry)
      /\ \A i \in DOMAIN formula : Good(problem, formula[i].clause)
  BY DEF IInv, TypeOK, ClausesGood, FormulaEntry
<1>2. /\ Add(formula, c) \in Seq(FormulaEntry)
      /\ \A i \in DOMAIN Add(formula, c) :
            /\ Good(problem, Add(formula, c)[i].clause)
            /\ \/ i \in DOMAIN formula /\ Add(formula, c)[i] = formula[i]
               \/ Add(formula, c)[i].contradicted_at = NotContradicted
  BY <1>1, AddForm
<1>3. \A i \in DOMAIN formula :
        formula[i].contradicted_at \in {NotContradicted} \cup 0..epoch
  BY DEF IInv, TypeOK
<1>4. QED BY <1>2, <1>3 DEF FormulaEntry

\* What a backtrack below every emptied entry leaves.
LEMMA AfterBacktrack ==
  ASSUME IInv, NEW target \in Nat, target >= 1,
         \A i \in DOMAIN trail :
           Emptied(trail[i]) => ~(trail[i].decision_level <= target),
         trail' = Backtrack(trail, target), level' = target, epoch' = NextEpoch
  PROVE  /\ trail' \in Seq(Assignment) /\ level' \in Nat /\ epoch' \in Nat
         /\ epoch' = epoch + 1 /\ TrailOK' /\ EmptiedOnTop'
         /\ \A i \in DOMAIN trail' : i \in DOMAIN trail /\ trail'[i] = trail[i]
<1>1. WellFormed(trail) /\ epoch \in Nat
  BY DEF IInv, TypeOK, TrailOK
<1>2. /\ WellFormed(trail')
      /\ \A i \in DOMAIN trail' : /\ i \in DOMAIN trail /\ trail'[i] = trail[i]
                                  /\ trail[i].decision_level <= target
  BY <1>1, BacktrackWellFormed
<1>3. TrailOK' /\ EmptiedOnTop'
  BY <1>2 DEF TrailOK, EmptiedOnTop
<1>4. QED BY <1>1, <1>2, <1>3 DEF WellFormed, NextEpoch

\* Learning a clause and jumping back keep the invariant: the jump drops every
\* emptied entry.
LEMMA BackjumpStep == ASSUME IInv, Backjump PROVE IInv'
<1> DEFINE l == Learned
           a == SatisfierEntry(l.terms)
           target == BackjumpTarget(l.terms)
<1>1. /\ phase = "conflict" /\ phase' = "backtrack"
      /\ ~Terminal(conflict.clause.terms) /\ CanBackjump(conflict.clause.terms)
      /\ formula' = Keep(l)
      /\ trail' = Backtrack(trail, target) /\ level' = target
      /\ epoch' = NextEpoch
      /\ changed' \in DOMAIN l.terms
      /\ conflict' = [conflict EXCEPT !.clause = l]
      /\ UNCHANGED <<problem, backlog, choice>>
  BY DEF Backjump, decision
<1>2. /\ WellFormed(trail) /\ level \in Nat
      /\ \A i \in DOMAIN trail : trail[i].decision_level <= level
      /\ Good(problem, conflict.clause) /\ Reached(trail, conflict.clause.terms)
      /\ \A i \in DOMAIN trail :
            trail[i].is_decision \/ Good(problem, trail[i].cause)
  BY <1>1 DEF IInv, TypeOK, TrailOK, ClausesGood, ConflictOK
<1>3. /\ Good(problem, l) /\ l.terms \in TermMap /\ Reached(trail, l.terms)
      /\ ~Terminal(l.terms) /\ CanBackjump(l.terms)
  BY <1>1, <1>2, LearnedOK
<1> HIDE DEF l
<1>4. target \in Nat /\ 1 <= target /\ target < level
  BY <1>2, <1>3, TargetForm
<1> HIDE DEF target
<1>5. \A i \in DOMAIN trail :
        Emptied(trail[i]) => ~(trail[i].decision_level <= target)
  BY <1>2, <1>4 DEF IInv, EmptiedOnTop
<1>6. /\ trail' \in Seq(Assignment) /\ level' \in Nat /\ epoch' \in Nat
      /\ epoch' = epoch + 1 /\ TrailOK' /\ EmptiedOnTop'
      /\ \A i \in DOMAIN trail' : i \in DOMAIN trail /\ trail'[i] = trail[i]
  BY <1>1, <1>4, <1>5, AfterBacktrack
<1>7. /\ formula' \in Seq([clause : Clause, contradicted_at : Int])
      /\ \A i \in DOMAIN formula' :
            /\ Good(problem, formula'[i].clause)
            /\ formula'[i].contradicted_at \in {NotContradicted} \cup 0..epoch
  <2>1. CASE formula' = formula
    BY <2>1 DEF IInv, TypeOK, ClausesGood
  <2>2. CASE formula' = Add(formula, l)
    BY <1>3, <2>2, AddClause
  <2>3. QED BY <1>1, <2>1, <2>2 DEF Keep
<1>8. epoch \in Nat
  BY DEF IInv, TypeOK
<1>9. TypeOK'
  <2>1. \A i \in DOMAIN formula' :
          formula'[i].contradicted_at \in {NotContradicted} \cup 0..epoch'
    BY <1>6, <1>7, <1>8
  <2>2. changed' \in Node
    BY <1>1, <1>3, TermMapForm
  <2>3. conflict' \in [clause : Clause, derived : BOOLEAN]
    BY <1>1, <1>3 DEF IInv, TypeOK, Good
  <2>4. /\ conflictCount' \in [Node -> Nat] /\ culpritCount' \in [Node -> Nat]
        /\ pendingTargets' \in SUBSET Node
    <3>1. /\ conflictCount \in [Node -> Nat] /\ culpritCount \in [Node -> Nat]
          /\ pendingTargets \in SUBSET Node
      BY DEF IInv, TypeOK
    <3>2. Culprits(l.terms, a) \cap Node \subseteq Node
      OBVIOUS
    <3>3. /\ conflictCount' = [conflictCount EXCEPT ![CreditTarget(a)] = @ + 1]
          /\ culpritCount' = [p \in Node |-> culpritCount[p] +
               (IF p \in Culprits(l.terms, a) THEN 1 ELSE 0)]
          /\ pendingTargets' \subseteq pendingTargets \cup Culprits(l.terms, a)
      BY DEF Backjump, l
    <3>4. conflictCount' \in [Node -> Nat] /\ culpritCount' \in [Node -> Nat]
      <4> DEFINE credited == CreditTarget(a)
                 blamed == Culprits(l.terms, a)
      <4>1. /\ conflictCount' = [conflictCount EXCEPT ![credited] = @ + 1]
            /\ culpritCount' = [p \in Node |-> culpritCount[p] +
                                  (IF p \in blamed THEN 1 ELSE 0)]
        BY <3>3
      <4> HIDE DEF credited, blamed
      <4>2. conflictCount' \in [Node -> Nat]
        <5>1. ASSUME NEW p \in Node
              PROVE  conflictCount'[p] \in Nat
          <6>1. conflictCount[p] \in Nat
            BY <3>1
          <6>2. conflictCount'[p] \in {conflictCount[p], conflictCount[p] + 1}
            BY <3>1, <4>1
          <6>3. QED BY <6>1, <6>2
        <5>2. conflictCount' = [p \in Node |-> conflictCount'[p]]
          BY <3>1, <4>1
        <5>3. QED BY <5>1, <5>2
      <4>3. ASSUME NEW p \in Node
            PROVE  culpritCount[p] + (IF p \in blamed THEN 1 ELSE 0) \in Nat
        <5>1. culpritCount[p] \in Nat
          BY <3>1
        <5>2. QED BY <5>1
      <4>4. culpritCount' \in [Node -> Nat]
        BY <4>1, <4>3
      <4>5. QED BY <4>2, <4>4
    <3>5. Culprits(l.terms, a) \subseteq Node
      <4>1. DOMAIN l.terms \subseteq Node
        BY <1>3, TermMapForm
      <4>2. a \in Assignment
        BY <1>2, <1>3, MostRecentForm DEF WellFormed, Terminal
      <4>3. a.cause.terms \in TermMap
        BY <4>2, AssignmentForm, ClauseTerms
      <4>4. DOMAIN a.cause.terms \subseteq Node
        BY <4>3, TermMapForm
      <4>5. QED BY <4>1, <4>4 DEF Culprits
    <3>6. QED BY <3>1, <3>3, <3>4, <3>5
  <2>5. QED
    BY <1>1, <1>6, <1>7, <2>1, <2>2, <2>3, <2>4
       DEF IInv, TypeOK, Backjump, Phases, decision
<1>10. ClausesGood'
  BY <1>1, <1>2, <1>6, <1>7 DEF IInv, ClausesGood
<1>11. StampsOK'
  <2>1. ASSUME NEW i \in DOMAIN formula'
        PROVE  formula'[i].contradicted_at # epoch'
    <3>1. formula'[i].contradicted_at \in {-1} \cup 0..epoch
      BY <1>7 DEF NotContradicted
    <3>2. QED BY <1>6, <1>8, <3>1
  <2>2. QED BY <2>1 DEF StampsOK
<1>12. ConflictOK' /\ EmptiedPending' /\ ChoiceOK'
  BY <1>1 DEF ConflictOK, EmptiedPending, ChoiceOK
<1>13. QED BY <1>6, <1>9, <1>10, <1>11, <1>12 DEF IInv

\* A targeted backtrack, from a state in which no entry is emptied.
LEMMA TargetedForm ==
  ASSUME IInv, phase \notin {"propagate", "conflict", "failed"},
         NEW pending \in SUBSET Node, TargetedBacktrack(pending),
         UNCHANGED <<problem, formula, backlog>>
  PROVE  /\ trail' \in Seq(Assignment) /\ level' \in Nat /\ epoch' \in Nat
         /\ changed' \in Node
         /\ pendingTargets' \in SUBSET Node /\ targetedBacktracks' \in Nat
         /\ \A i \in DOMAIN formula' :
               formula'[i].contradicted_at \in {NotContradicted} \cup 0..epoch'
         /\ TrailOK' /\ EmptiedOnTop' /\ ClausesGood' /\ StampsOK'
<1> DEFINE S == TargetLevels(pending)
           target == Min(S)
<1>1. /\ trail' = Backtrack(trail, target) /\ level' = target
      /\ epoch' = NextEpoch /\ S # {}
      /\ changed' \in pending
      /\ pendingTargets' = {} /\ targetedBacktracks' = targetedBacktracks + 1
  BY DEF TargetedBacktrack, CanTarget
<1>2. \A x \in S : x \in Nat /\ x >= 1
  <2>1. \A i \in DOMAIN trail : trail[i].decision_level \in Nat
    BY AssignmentForm DEF IInv, TypeOK
  <2>2. QED BY <2>1 DEF TargetLevels
<1> HIDE DEF S
<1>3. target \in Nat /\ target >= 1
  BY <1>1, <1>2, MinExists
<1>4. \A i \in DOMAIN trail : ~Emptied(trail[i])
  BY DEF IInv, EmptiedOnTop
<1>5. /\ trail' \in Seq(Assignment) /\ level' \in Nat /\ epoch' \in Nat
      /\ epoch' = epoch + 1 /\ TrailOK' /\ EmptiedOnTop'
      /\ \A i \in DOMAIN trail' : i \in DOMAIN trail /\ trail'[i] = trail[i]
  BY <1>1, <1>3, <1>4, AfterBacktrack
<1>6. /\ epoch \in Nat /\ targetedBacktracks \in Nat
      /\ \A i \in DOMAIN formula :
            formula[i].contradicted_at \in {NotContradicted} \cup 0..epoch
  BY DEF IInv, TypeOK
<1>7. \A i \in DOMAIN formula' :
        formula'[i].contradicted_at \in {NotContradicted} \cup 0..epoch'
  BY <1>5, <1>6
<1>8. ClausesGood'
  BY <1>5 DEF IInv, ClausesGood
<1>9. StampsOK'
  BY <1>5, <1>6 DEF StampsOK, NotContradicted
<1>10. QED BY <1>1, <1>5, <1>6, <1>7, <1>8, <1>9

\* A targeted backtrack after a conflict keeps the invariant.
LEMMA PruneCulpritsStep == ASSUME IInv, PruneCulprits PROVE IInv'
<1>1. /\ phase = "backtrack" /\ phase' = "restart"
      /\ TargetedBacktrack(pendingTargets) /\ pendingTargets \in SUBSET Node
      /\ UNCHANGED <<problem, formula, backlog>>
  BY DEF IInv, TypeOK, PruneCulprits, decision
<1>2. /\ trail' \in Seq(Assignment) /\ level' \in Nat /\ epoch' \in Nat
      /\ changed' \in Node
      /\ pendingTargets' \in SUBSET Node /\ targetedBacktracks' \in Nat
      /\ \A i \in DOMAIN formula' :
            formula'[i].contradicted_at \in {NotContradicted} \cup 0..epoch'
      /\ TrailOK' /\ EmptiedOnTop' /\ ClausesGood' /\ StampsOK'
  BY <1>1, TargetedForm
<1>3. TypeOK'
  BY <1>1, <1>2 DEF IInv, TypeOK, PruneCulprits, Phases, decision
<1>4. ConflictOK' /\ EmptiedPending' /\ ChoiceOK'
  BY <1>1 DEF ConflictOK, EmptiedPending, ChoiceOK
<1>5. QED BY <1>2, <1>3, <1>4 DEF IInv

\* A targeted backtrack that moves nothing keeps the invariant.
LEMMA SkipPruningStep == ASSUME IInv, SkipPruning PROVE IInv'
<1>1. TypeOK'
  <2>1. pendingTargets' \in SUBSET Node
    BY DEF IInv, TypeOK, SkipPruning
  <2>2. QED
    BY <2>1 DEF IInv, TypeOK, SkipPruning, Phases, solution, propagation, decision
<1>2. TrailOK' /\ ClausesGood' /\ StampsOK'
  BY SameClauses DEF SkipPruning, solution, decision
<1>3. ConflictOK' /\ EmptiedOnTop' /\ EmptiedPending' /\ ChoiceOK'
  BY DEF IInv, SkipPruning, solution, ConflictOK, EmptiedOnTop, EmptiedPending,
         ChoiceOK
<1>4. QED BY <1>1, <1>2, <1>3 DEF IInv

\* A restart keeps the invariant, the clauses learned before it included.
LEMMA RestartStep == ASSUME IInv, Restart PROVE IInv'
<1>1. /\ phase' = "round" /\ trail' = <<RootDecision>> /\ level' = 1
      /\ epoch' = epoch + 1
      /\ UNCHANGED <<problem, formula, backlog>>
  BY DEF Restart, RestartEpoch, decision
<1>2. /\ WellFormed(trail')
      /\ \A i \in DOMAIN trail' : /\ trail'[i].decision_level = 1
                                  /\ trail'[i].is_decision /\ ~Emptied(trail'[i])
  BY <1>1, FreshTrail
<1>3. /\ epoch \in Nat /\ restartThreshold \in Nat /\ restartsLeft \in Nat
      /\ \A i \in DOMAIN formula :
            formula[i].contradicted_at \in {NotContradicted} \cup 0..epoch
  BY DEF IInv, TypeOK
<1>4. TypeOK'
  <2>1. trail' \in Seq(Assignment) /\ level' \in Nat /\ epoch' \in Nat
    BY <1>1, <1>2, <1>3 DEF WellFormed
  <2>2. \A i \in DOMAIN formula' :
          formula'[i].contradicted_at \in {NotContradicted} \cup 0..epoch'
    BY <1>1, <1>3
  <2>3. /\ changed' \in Node /\ pendingTargets' \in SUBSET Node
        /\ targetedBacktracks' \in Nat
        /\ restartThreshold' \in Nat /\ restartsLeft' \in Nat
    BY <1>3, NodeForm DEF Restart, RestartDue
  <2>4. QED
    BY <1>1, <2>1, <2>2, <2>3 DEF IInv, TypeOK, Restart, Phases, decision
<1>5. TrailOK' /\ EmptiedOnTop'
  BY <1>1, <1>2 DEF TrailOK, EmptiedOnTop
<1>6. ClausesGood'
  BY <1>1, <1>2 DEF IInv, ClausesGood
<1>7. StampsOK'
  BY <1>1, <1>3 DEF StampsOK, NotContradicted
<1>8. ConflictOK' /\ EmptiedPending' /\ ChoiceOK'
  BY <1>1 DEF ConflictOK, EmptiedPending, ChoiceOK
<1>9. QED BY <1>4, <1>5, <1>6, <1>7, <1>8 DEF IInv

\* No restart keeps the invariant.
LEMMA CarryOnStep == ASSUME IInv, CarryOn PROVE IInv'
<1>1. TypeOK'
  BY DEF IInv, TypeOK, CarryOn, Phases, solution, propagation, decision, counts
<1>2. TrailOK' /\ ClausesGood' /\ StampsOK'
  BY SameClauses DEF CarryOn, solution, decision
<1>3. ConflictOK' /\ EmptiedOnTop' /\ EmptiedPending' /\ ChoiceOK'
  BY DEF IInv, CarryOn, solution, ConflictOK, EmptiedOnTop, EmptiedPending,
         ChoiceOK
<1>4. QED BY <1>1, <1>2, <1>3 DEF IInv

----------------------------------------------------------------------------
(* The decision phase. *)

\* Returning a solution keeps the invariant.
LEMMA SolveStep == ASSUME IInv, Solve PROVE IInv'
<1>1. TypeOK'
  BY DEF IInv, TypeOK, Solve, Phases, Finished, solution, propagation, decision,
         counts
<1>2. TrailOK' /\ ClausesGood' /\ StampsOK'
  BY SameClauses DEF Solve, solution, decision
<1>3. ConflictOK' /\ EmptiedOnTop' /\ EmptiedPending' /\ ChoiceOK'
  BY DEF IInv, Solve, solution, ConflictOK, EmptiedOnTop, EmptiedPending, ChoiceOK
<1>4. QED BY <1>1, <1>2, <1>3 DEF IInv

\* A package that is asked for and not emptied has a version left.
LEMMA VersionsLeft ==
  ASSUME IInv, phase \notin {"propagate", "conflict", "failed"}, NEW p,
         Positive(trail, p) # NoRange
  PROVE  Effective(trail, p) \in Ranges /\ Effective(trail, p) # {}
<1>1. trail \in Seq(Assignment) /\ \A i \in DOMAIN trail : ~Emptied(trail[i])
  BY DEF IInv, TypeOK, EmptiedOnTop
<1>2. Assigned(trail, p)
  BY DEF Positive
<1>3. /\ Positive(trail, p) = LastOf(trail, p).cum_positive
      /\ Effective(trail, p) = Allowed(LastOf(trail, p))
      /\ Effective(trail, p) \in Ranges
  BY <1>1, <1>2, LastForm
<1>4. ~Emptied(LastOf(trail, p))
  BY <1>1, <1>2, LastEntry, EntriesForm
<1>5. QED BY <1>3, <1>4 DEF Emptied

\* choose_version, whatever it answers, keeps the invariant.
LEMMA ChooseStep ==
  ASSUME IInv, NEW p \in Package, Choose(p) PROVE IInv'
<1>1. PICK answer \in Answers(problem, trail, p) :
        /\ choice' = [package |-> p, version |-> answer.version,
                      pending |-> answer.pending # {}, targets |-> answer.targets]
        /\ backlog' = answer.pending
  BY DEF Choose
<1>2. /\ phase = "decide" /\ phase' = "absorb" /\ Positive(trail, p) # NoRange
      /\ UNCHANGED <<problem, formula, trail, level, epoch, conflict>>
  BY DEF Choose, Undecided, solution
<1>3. AnswerOK(problem, trail, p, answer)
  <2>1. problem \in ProblemType
    BY DEF IInv, TypeOK
  <2>2. Effective(trail, p) \in Ranges /\ Effective(trail, p) # {}
    BY <1>2, VersionsLeft
  <2>3. QED BY <2>1, <2>2, AnswersOK
<1>4. TypeOK'
  <2>1. choice' \in [package : Node, version : Version \cup {Absent},
                     pending : BOOLEAN, targets : SUBSET Package]
    BY <1>1, <1>3, NodeForm DEF AnswerOK
  <2>2. backlog' \in SUBSET Clause
    BY <1>1, <1>3 DEF AnswerOK, Good
  <2>3. QED
    BY <2>1, <2>2 DEF IInv, TypeOK, Choose, Phases, solution, propagation, counts
<1>5. TrailOK' /\ StampsOK'
  BY <1>2 DEF IInv, TrailOK, StampsOK
<1>6. ClausesGood'
  BY <1>1, <1>2, <1>3 DEF IInv, ClausesGood, AnswerOK
<1>7. ConflictOK' /\ EmptiedOnTop' /\ EmptiedPending'
  BY <1>2 DEF IInv, ConflictOK, EmptiedOnTop, EmptiedPending
<1>8. ChoiceOK'
  BY <1>1, <1>2, <1>3 DEF ChoiceOK, AnswerOK
<1>9. QED BY <1>4, <1>5, <1>6, <1>7, <1>8 DEF IInv

\* Adding a clause disturbs neither the trail nor the stamps.
LEMMA AfterAdd ==
  ASSUME IInv, NEW c, Good(problem, c), formula' = Add(formula, c),
         UNCHANGED <<problem, trail, level, epoch>>,
         \A d \in backlog' : Good(problem, d)
  PROVE  /\ formula' \in Seq([clause : Clause, contradicted_at : Int])
         /\ \A i \in DOMAIN formula' :
               formula'[i].contradicted_at \in {NotContradicted} \cup 0..epoch'
         /\ TrailOK' /\ ClausesGood' /\ StampsOK'
<1>1. /\ formula' \in Seq([clause : Clause, contradicted_at : Int])
      /\ \A i \in DOMAIN formula' :
            /\ Good(problem, formula'[i].clause)
            /\ formula'[i].contradicted_at \in {NotContradicted} \cup 0..epoch
            /\ \/ i \in DOMAIN formula /\ formula'[i] = formula[i]
               \/ formula'[i].contradicted_at = NotContradicted
  BY AddClause
<1>2. epoch \in Nat
  BY DEF IInv, TypeOK
<1>3. TrailOK' /\ ClausesGood'
  BY <1>1 DEF IInv, TrailOK, ClausesGood
<1>4. StampsOK'
  BY <1>1, <1>2 DEF IInv, StampsOK, NotContradicted
<1>5. QED BY <1>1, <1>3, <1>4

\* Absorbing a pending clause keeps the invariant.
LEMMA AbsorbStep ==
  ASSUME IInv, NEW c \in backlog, Absorb(c) PROVE IInv'
<1>1. /\ phase = "absorb" /\ formula' = Add(formula, c) /\ backlog' = backlog \ {c}
      /\ UNCHANGED <<problem, phase, trail, level, epoch, choice, conflict>>
  BY DEF Absorb, solution
<1>2. Good(problem, c) /\ \A d \in backlog' : Good(problem, d)
  BY <1>1 DEF IInv, ClausesGood
<1>3. /\ formula' \in Seq([clause : Clause, contradicted_at : Int])
      /\ \A i \in DOMAIN formula' :
            formula'[i].contradicted_at \in {NotContradicted} \cup 0..epoch'
      /\ TrailOK' /\ ClausesGood' /\ StampsOK'
  BY <1>1, <1>2, AfterAdd
<1>4. TypeOK'
  BY <1>1, <1>3 DEF IInv, TypeOK, Absorb, solution, propagation, counts
<1>5. ConflictOK' /\ EmptiedOnTop' /\ EmptiedPending' /\ ChoiceOK'
  BY <1>1 DEF IInv, ConflictOK, EmptiedOnTop, EmptiedPending, ChoiceOK
<1>6. QED BY <1>3, <1>4, <1>5 DEF IInv

\* Recording a dependency clause keeps the invariant.
LEMMA RecordStep ==
  ASSUME IInv, NEW c \in backlog, Record(c) PROVE IInv'
<1>1. /\ phase = "record" /\ phase' \in {"record", "round"}
      /\ formula' = Add(formula, c) /\ backlog' = backlog \ {c}
      /\ UNCHANGED <<problem, trail, level, epoch, choice, conflict>>
  BY DEF Record, solution
<1>2. Good(problem, c) /\ \A d \in backlog' : Good(problem, d)
  BY <1>1 DEF IInv, ClausesGood
<1>3. /\ formula' \in Seq([clause : Clause, contradicted_at : Int])
      /\ \A i \in DOMAIN formula' :
            formula'[i].contradicted_at \in {NotContradicted} \cup 0..epoch'
      /\ TrailOK' /\ ClausesGood' /\ StampsOK'
  BY <1>1, <1>2, AfterAdd
<1>4. TypeOK'
  BY <1>1, <1>3 DEF IInv, TypeOK, Record, Phases, solution, propagation, counts
<1>5. ConflictOK' /\ EmptiedOnTop' /\ EmptiedPending' /\ ChoiceOK'
  BY <1>1 DEF IInv, ConflictOK, EmptiedOnTop, EmptiedPending, ChoiceOK
<1>6. QED BY <1>3, <1>4, <1>5 DEF IInv

\* Promoted culprits still have a count each.
LEMMA PromotedForm ==
  ASSUME IInv, NEW targets
  PROVE  Promoted(targets) \in [Node -> Nat]
<1>1. culpritCount \in [Node -> Nat] /\ CulpritThreshold \in Nat
  BY ThresholdAssumption DEF IInv, TypeOK
<1>2. QED BY <1>1 DEF Promoted

\* A forced targeted backtrack keeps the invariant.
LEMMA ForceBacktrackStep == ASSUME IInv, ForceBacktrack PROVE IInv'
<1> DEFINE pending == pendingTargets \cup choice.targets
<1>1. /\ phase = "absorb" /\ phase' = "round"
      /\ TargetedBacktrack(pending)
      /\ culpritCount' = Promoted(choice.targets)
      /\ UNCHANGED <<problem, formula, backlog>>
  BY DEF ForceBacktrack, decision
<1>2. pending \in SUBSET Node
  BY NodeForm DEF IInv, TypeOK
<1>3. /\ trail' \in Seq(Assignment) /\ level' \in Nat /\ epoch' \in Nat
      /\ changed' \in Node
      /\ pendingTargets' \in SUBSET Node /\ targetedBacktracks' \in Nat
      /\ \A i \in DOMAIN formula' :
            formula'[i].contradicted_at \in {NotContradicted} \cup 0..epoch'
      /\ TrailOK' /\ EmptiedOnTop' /\ ClausesGood' /\ StampsOK'
  BY <1>1, <1>2, TargetedForm
<1>4. TypeOK'
  BY <1>1, <1>3, PromotedForm
     DEF IInv, TypeOK, ForceBacktrack, Phases, decision
<1>5. ConflictOK' /\ EmptiedPending' /\ ChoiceOK'
  BY <1>1 DEF ConflictOK, EmptiedPending, ChoiceOK
<1>6. QED BY <1>3, <1>4, <1>5 DEF IInv

\* The clause record_no_versions adds is a fact: the range asked for is not empty.
LEMMA NoVersionsRecorded ==
  ASSUME IInv, RecordNoVersions, ~choice.pending
  PROVE  LET p == choice.package IN
         \E c : /\ Good(problem, c) /\ formula' = Add(formula, c)
                /\ p \in Package /\ DOMAIN c.terms = {p}
                /\ c.cause \in {"NO_VERSIONS", "CONSTRAINT"}
<1> DEFINE p == choice.package
           range == Effective(trail, p)
           cause == IF problem.avail[p] \cap range # {} THEN "CONSTRAINT"
                                                        ELSE "NO_VERSIONS"
           c == NoVersionsClause(p, range, cause)
<1>1. /\ phase = "absorb" /\ choice.version = Absent
      /\ formula' = Add(formula, NoVersionsClause(p,
                           IF range = {} THEN Version ELSE range, cause))
  BY DEF RecordNoVersions
<1>2. /\ p \in Package /\ Positive(trail, p) # NoRange
      /\ Candidates(problem, trail, p) = {}
  BY <1>1 DEF IInv, ChoiceOK
<1>3. range \in Ranges /\ range # {}
  BY <1>1, <1>2, VersionsLeft
<1>4. problem \in ProblemType
  BY DEF IInv, TypeOK
<1>5. cause \in {"NO_VERSIONS", "CONSTRAINT"}
  OBVIOUS
<1> HIDE DEF cause
<1>6. Good(problem, c)
  BY <1>2, <1>3, <1>4, <1>5, NoVersionsGood
<1>7. DOMAIN c.terms = {p} /\ c.cause = cause
  BY DEF NoVersionsClause
<1>8. formula' = Add(formula, c)
  BY <1>1, <1>3
<1>9. QED BY <1>2, <1>5, <1>6, <1>7, <1>8

\* record_no_versions keeps the invariant: its clause is a fact because the range
\* asked for was not empty.
LEMMA RecordNoVersionsStep == ASSUME IInv, RecordNoVersions PROVE IInv'
<1> DEFINE p == choice.package
           range == Effective(trail, p)
           cause == IF problem.avail[p] \cap range # {} THEN "CONSTRAINT"
                                                        ELSE "NO_VERSIONS"
<1>1. /\ phase = "absorb" /\ phase' = "round" /\ choice.version = Absent
      /\ formula' = IF choice.pending THEN formula
                    ELSE Add(formula, NoVersionsClause(p,
                           IF range = {} THEN Version ELSE range, cause))
      /\ culpritCount' = Promoted(choice.targets)
      /\ pendingTargets' = IF choice.targets = {} THEN pendingTargets ELSE {}
      /\ changed' = p
      /\ UNCHANGED <<problem, trail, level, epoch, choice, backlog, conflict>>
  BY DEF RecordNoVersions, DropTargets, solution, decision
<1>2. /\ p \in Package /\ Positive(trail, p) # NoRange
      /\ ~choice.pending => Candidates(problem, trail, p) = {}
  BY <1>1 DEF IInv, ChoiceOK
<1>3. range \in Ranges /\ range # {}
  BY <1>1, <1>2, VersionsLeft
<1>4. /\ formula' \in Seq([clause : Clause, contradicted_at : Int])
      /\ \A i \in DOMAIN formula' :
            formula'[i].contradicted_at \in {NotContradicted} \cup 0..epoch'
      /\ TrailOK' /\ ClausesGood' /\ StampsOK'
  <2>1. CASE choice.pending
    <3>1. UNCHANGED <<problem, formula, trail, level, epoch, backlog>>
      BY <1>1, <2>1
    <3>2. QED BY <3>1, SameClauses DEF IInv, TypeOK
  <2>2. CASE ~choice.pending
    <3>1. PICK c : Good(problem, c) /\ formula' = Add(formula, c)
      BY <2>2, NoVersionsRecorded
    <3>2. \A d \in backlog' : Good(problem, d)
      BY <1>1 DEF IInv, ClausesGood
    <3>3. QED BY <1>1, <3>1, <3>2, AfterAdd
  <2>3. QED BY <2>1, <2>2
<1>5. TypeOK'
  <2>1. culpritCount' \in [Node -> Nat] /\ pendingTargets' \in SUBSET Node
    BY <1>1, PromotedForm DEF IInv, TypeOK
  <2>2. changed' \in Node
    BY <1>1, <1>2, NodeForm
  <2>3. QED
    BY <1>1, <1>4, <2>1, <2>2
       DEF IInv, TypeOK, RecordNoVersions, Phases, solution, decision
<1>6. ConflictOK' /\ EmptiedOnTop' /\ EmptiedPending' /\ ChoiceOK'
  BY <1>1 DEF IInv, ConflictOK, EmptiedOnTop, EmptiedPending, ChoiceOK
<1>7. QED BY <1>4, <1>5, <1>6 DEF IInv

\* The assignment of a decision: its package was asked for, its version allowed.
LEMMA DecideForm ==
  ASSUME IInv, Decide
  PROVE  LET p == choice.package
             v == choice.version
             a == Decision(trail, level + 1, p, v)
         IN
         /\ p \in Package /\ Positive(trail, p) # NoRange
         /\ v \in Version /\ v \in Effective(trail, p)
         /\ a \in Assignment /\ a.package = p /\ a.decision_level = level + 1
         /\ a.is_decision /\ a.cause = NoCause
         /\ a.cum_positive = {v} /\ {v} # NoRange /\ Allowed(a) = {v}
         /\ Extends(trail, a) /\ ~Emptied(a)
<1> DEFINE p == choice.package
           v == choice.version
           a == Decision(trail, level + 1, p, v)
<1>1. /\ WellFormed(trail) /\ trail \in Seq(Assignment)
      /\ level \in Nat /\ level >= 1 /\ v \in Version
      /\ \A i \in DOMAIN trail : trail[i].decision_level <= level
  BY DEF Decide, IInv, TypeOK, TrailOK
<1>2. /\ p \in Package /\ Positive(trail, p) # NoRange /\ v \in Effective(trail, p)
  BY DEF Decide, IInv, ChoiceOK
<1>3. Assigned(trail, p) /\ v \notin Negative(trail, p)
  <2>1. Assigned(trail, p)
    BY <1>2 DEF Positive
  <2>2. QED BY <1>1, <1>2, <2>1, LastForm
<1>4. /\ a \in Assignment /\ a.package = p /\ a.decision_level = level + 1
      /\ a.is_decision /\ a.cause = NoCause
      /\ a.cum_positive = {v} /\ {v} # NoRange /\ Allowed(a) = {v}
  <2>1. p \in Node /\ level + 1 \in Nat
    BY <1>1, <1>2, NodeForm
  <2>2. /\ a \in Assignment /\ a.package = p /\ a.decision_level = level + 1
        /\ a.is_decision /\ a.cause = NoCause
        /\ a.cum_positive = {v} /\ {v} # NoRange
        /\ Allowed(a) = {v} \ Negative(trail, p)
    BY <1>1, <2>1, DecisionForm
  <2>3. QED BY <1>3, <2>2
<1> HIDE DEF a
<1>5. Extends(trail, a) /\ ~Emptied(a)
  <2>1. \A i \in DOMAIN trail : trail[i].decision_level \in Nat
    BY <1>1, AssignmentForm
  <2>2. /\ a.decision_level >= 2
        /\ \A i \in DOMAIN trail : trail[i].decision_level <= a.decision_level
    BY <1>1, <1>4, <2>1
  <2>3. Allowed(a) \subseteq Effective(trail, p) /\ a.cum_positive # NoRange
    BY <1>2, <1>4
  <2>4. Extends(trail, a)
    BY <1>2, <1>4, <2>2, <2>3 DEF Extends
  <2>5. QED BY <1>4, <2>4 DEF Emptied
<1>6. QED BY <1>1, <1>2, <1>4, <1>5 DEF a

\* A decision keeps the invariant: the version chosen is one the trail allows.
LEMMA DecideStep == ASSUME IInv, Decide PROVE IInv'
<1> DEFINE p == choice.package
           v == choice.version
           a == Decision(trail, level + 1, p, v)
<1>1. /\ phase = "absorb" /\ phase' \in {"round", "record"} /\ v # Absent
      /\ backlog = {}
      /\ trail' = Append(trail, a) /\ level' = level + 1 /\ epoch' = EpochAfter(a)
      /\ culpritCount' = Promoted(choice.targets)
      /\ pendingTargets' = IF choice.targets = {} THEN pendingTargets ELSE {}
      /\ changed' = p
      /\ UNCHANGED <<problem, formula, choice, conflict>>
  BY DEF Decide, DropTargets
<1>2. /\ problem \in ProblemType /\ WellFormed(trail) /\ trail \in Seq(Assignment)
      /\ level \in Nat /\ level >= 1 /\ epoch \in Nat
      /\ recorded \in [Package -> [Version -> {NoRange} \cup Ranges]]
      /\ \A i \in DOMAIN trail : trail[i].decision_level <= level
  BY DEF IInv, TypeOK, TrailOK
<1>3. p \in Package /\ v \in Version
  BY DecideForm
<1>4. /\ a \in Assignment /\ a.package = p /\ a.decision_level = level + 1
      /\ a.is_decision /\ a.cum_positive = {v} /\ {v} # NoRange /\ Allowed(a) = {v}
  BY DecideForm
<1>5. Extends(trail, a) /\ ~Emptied(a)
  BY DecideForm
<1> HIDE DEF a
<1>6. /\ WellFormed(Append(trail, a))
      /\ \A j \in DOMAIN trail' : (j \in DOMAIN trail /\ trail'[j] = trail[j])
                                  \/ trail'[j] = a
  BY <1>1, <1>2, <1>4, <1>5, AppendWellFormed, AppendIndex
<1>7. /\ recorded' \in [Package -> [Version -> {NoRange} \cup Ranges]]
      /\ \A c \in backlog' : Good(problem, c)
  <2>1. CASE Requires(problem, p, v) = {}
    BY <1>2, <2>1 DEF Decide
  <2>2. CASE Requires(problem, p, v) # {}
    <3>1. PICK W \in ParentRanges(problem, p, v) :
            /\ backlog' = Unrecorded(p, v, W)
            /\ recorded' = [recorded EXCEPT ![p][v] = W]
      BY <2>2 DEF Decide
    <3>2. W \in Ranges
      BY <1>3 DEF ParentRanges, Ranges
    <3>3. recorded' \in [Package -> [Version -> {NoRange} \cup Ranges]]
      BY <1>2, <1>3, <3>1, <3>2
    <3>4. \A c \in backlog' : Good(problem, c)
      BY <1>2, <1>3, <3>1, DependencyClausesGood DEF Unrecorded
    <3>5. QED BY <3>3, <3>4
  <2>3. QED BY <2>1, <2>2
<1>8. epoch' \in Nat /\ epoch' >= epoch
  <2>1. epoch' = epoch \/ epoch' = epoch + 1
    BY <1>1 DEF EpochAfter
  <2>2. QED BY <1>2, <2>1
<1>9. TypeOK'
  <2>1. \A i \in DOMAIN formula' :
          formula'[i].contradicted_at \in {NotContradicted} \cup 0..epoch'
    <3>1. \A i \in DOMAIN formula :
            formula[i].contradicted_at \in {NotContradicted} \cup 0..epoch
      BY DEF IInv, TypeOK
    <3>2. 0..epoch \subseteq 0..epoch'
      BY <1>2, <1>8
    <3>3. QED BY <1>1, <3>1, <3>2
  <2>2. trail' \in Seq(Assignment) /\ level' \in Nat
    BY <1>1, <1>2, <1>6 DEF WellFormed
  <2>3. culpritCount' \in [Node -> Nat] /\ pendingTargets' \in SUBSET Node
    BY <1>1, PromotedForm DEF IInv, TypeOK
  <2>4. changed' \in Node /\ backlog' \in SUBSET Clause
    BY <1>1, <1>3, <1>7, NodeForm DEF Good
  <2>5. QED
    BY <1>1, <1>7, <1>8, <2>1, <2>2, <2>3, <2>4 DEF IInv, TypeOK, Decide, Phases
<1>10. TrailOK' /\ ClausesGood'
  <2>1. TrailOK'
    <3>1. \A i \in DOMAIN trail : trail[i].decision_level \in Nat
      BY <1>2, AssignmentForm
    <3>2. QED BY <1>1, <1>2, <1>4, <1>6, <3>1 DEF TrailOK
  <2>2. ClausesGood'
    BY <1>1, <1>4, <1>6, <1>7 DEF IInv, ClausesGood
  <2>3. QED BY <2>1, <2>2
<1>11. StampsOK'
  BY <1>1, <1>4, <1>5, StampsAfterAppend DEF StampsOK
<1>12. ConflictOK' /\ EmptiedOnTop' /\ EmptiedPending' /\ ChoiceOK'
  BY <1>1, <1>5, <1>6 DEF IInv, ConflictOK, EmptiedOnTop, EmptiedPending, ChoiceOK
<1>13. QED BY <1>7, <1>9, <1>10, <1>11, <1>12 DEF IInv

----------------------------------------------------------------------------
(* The theorems. *)

\* The invariant does not depend on anything but the variables.
LEMMA StutterIInv == ASSUME IInv, UNCHANGED vars PROVE IInv'
<1>1. TypeOK'
  BY DEF IInv, TypeOK, vars, solution, propagation, decision, counts
<1>2. TrailOK' /\ ClausesGood' /\ StampsOK'
  BY SameClauses DEF vars, solution, decision
<1>3. ConflictOK' /\ EmptiedOnTop' /\ ChoiceOK'
  BY DEF IInv, ConflictOK, EmptiedOnTop, ChoiceOK, vars, solution, propagation,
         decision
<1>4. EmptiedPending'
  BY DEF IInv, EmptiedPending, AwaitsConflict, vars, solution, propagation
<1>5. QED BY <1>1, <1>2, <1>3, <1>4 DEF IInv

\* Every step of the solver keeps the invariant.
LEMMA NextIInv == IInv /\ [Next]_vars => IInv'
<1> SUFFICES ASSUME IInv, [Next]_vars PROVE IInv'
  OBVIOUS
<1>1. CASE StartRound \/ ReachLimit
  BY <1>1, StartRoundStep, ReachLimitStep
<1>2. CASE Propagate
  <2>1. CASE \E i \in DOMAIN formula :
               Settle(i) \/ PassOver(i) \/ Derive(i) \/ FindConflict(i)
    BY <2>1, SettleStep, PassOverStep, DeriveStep, FindConflictStep
  <2>2. CASE NextPackage \/ FinishPropagation
    BY <2>2, NextPackageStep, FinishPropagationStep
  <2>3. QED BY <1>2, <2>1, <2>2 DEF Propagate
<1>3. CASE HandleConflict
  BY <1>3, GiveUpStep, ResolveStepStep, BackjumpStep, PruneCulpritsStep,
     SkipPruningStep, RestartStep, CarryOnStep DEF HandleConflict
<1>4. CASE DecideNext
  <2>1. CASE \E p \in Package : Choose(p)
    BY <2>1, ChooseStep
  <2>2. CASE \E c \in backlog : Absorb(c) \/ Record(c)
    BY <2>2, AbsorbStep, RecordStep
  <2>3. CASE Solve \/ ForceBacktrack \/ RecordNoVersions \/ Decide
    BY <2>3, SolveStep, ForceBacktrackStep, RecordNoVersionsStep, DecideStep
  <2>4. QED BY <1>4, <2>1, <2>2, <2>3 DEF DecideNext
<1>5. CASE Terminated \/ UNCHANGED vars
  BY <1>5, StutterIInv DEF Terminated
<1>6. QED BY <1>1, <1>2, <1>3, <1>4, <1>5 DEF Next

\* The inductive invariant holds in every reachable state.
THEOREM Invariance == Spec => []IInv
BY InitIInv, NextIInv, PTL DEF Spec

\* Every variable holds what the Python attribute beside it may hold.
THEOREM TypeCorrect == Spec => []TypeOK
<1>1. IInv => TypeOK
  BY DEF IInv
<1>2. QED BY <1>1, Invariance, PTL

\* Every clause the resolver holds, records, learns or keeps as a cause excludes
\* only selections that are no solution (conflict.py, decide.py, lookahead.py).
THEOREM EveryClauseSound == Spec => []ClausesSound
<1>1. IInv => ClausesSound
  BY DEF IInv, ClausesGood, ConflictOK, Good, ClausesSound
<1>2. QED BY <1>1, Invariance, PTL

\* A clause about no package that the trail satisfies leaves no solution.
LEMMA TerminalRefutes ==
  ASSUME WellFormed(trail), NEW prob, NEW c, Good(prob, c), Reached(trail, c.terms),
         Terminal(c.terms)
  PROVE  Solutions(prob) = {}
<1>1. DOMAIN c.terms \subseteq {ROOT}
  BY DEF Terminal
<1>2. ASSUME NEW sel, NEW p \in DOMAIN c.terms
      PROVE  TermHolds(sel, p, c.terms[p])
  <2>1. p = ROOT /\ c.terms[p] \in Term
    BY <1>1, ClauseTerms DEF Good
  <2>2. PICK i \in DOMAIN trail :
          trail[i].package = ROOT /\ SatisfiedAt(trail[i], c.terms[p])
    BY <1>1, <2>1 DEF Reached, Satisfiers, Entries
  <2>3. Allowed(trail[i]) = {RootVersion}
    BY <1>1, <2>2, RootForm
  <2>4. Satisfies({RootVersion}, c.terms[p])
    BY <2>2, <2>3 DEF SatisfiedAt
  <2>5. QED BY <2>1, <2>4 DEF Satisfies, TermHolds, Selected
<1>3. \A sel : AllHold(sel, c.terms)
  BY <1>2 DEF AllHold
<1>4. QED BY <1>1, <1>3 DEF Good, Excludes

\* ResolutionError is raised only for a problem without a solution.
THEOREM FailuresAreReal == Spec => []FailureIsReal
<1>1. ASSUME IInv, phase = "failed" PROVE Solutions(problem) = {}
  BY <1>1, TerminalRefutes DEF IInv, TrailOK, ConflictOK
<1>2. IInv => FailureIsReal
  BY <1>1 DEF FailureIsReal
<1>3. QED BY <1>2, Invariance, PTL

\* A clause skipped for its epoch stamp is contradicted now: the propagation skip
\* of propagate.py never passes over a clause that has something to say.
THEOREM StampsAreCurrent == Spec => []StampsCurrent
<1>1. IInv => StampsCurrent
  BY ViolatedForm DEF IInv, StampsOK, StampsCurrent
<1>2. QED BY <1>1, Invariance, PTL

\* What the trail allows of a package only ever shrinks, which is what lets
\* satisfier search it by bisection.
THEOREM TrailNarrows == Spec => []Narrowing
<1>1. IInv => Narrowing
  BY DEF IInv, TrailOK, WellFormed, Narrow, Narrowing
<1>2. QED BY <1>1, Invariance, PTL

\* No package that is asked for is without a version when one is decided: the
\* empty range that choose_version reads as "any version" never reaches it.
THEOREM VersionsAreLeft == Spec => []CandidatesLeft
<1>1. IInv => CandidatesLeft
  BY VersionsLeft DEF CandidatesLeft
<1>2. QED BY <1>1, Invariance, PTL

\* Every term of the clause under resolution has a satisfier, which is what
\* find_most_recent_satisfier takes for granted.
THEOREM ConflictsAreSatisfied == Spec => []ConflictSatisfied
<1>1. IInv => ConflictSatisfied
  BY DEF IInv, ConflictOK, Reached, ConflictSatisfied
<1>2. QED BY <1>1, Invariance, PTL
=============================================================================
