------------------------------- MODULE Trail -------------------------------
(***************************************************************************)
(* The decision trail of partial_solution.py, read as a plain sequence of  *)
(* assignments.  Every map PartialSolution keeps beside the trail is a     *)
(* function of the last entry of a package, and is defined here as one.    *)
(***************************************************************************)
EXTENDS Terms, Sequences, FiniteSetsExt

\* Assignment.  An absent cum_negative reads as "nothing excluded", which is
\* what every use of it computes; an absent cum_positive is told apart.
Assignment ==
  [package        : Node,
   decision_level : Nat,
   is_decision    : BOOLEAN,
   cause          : Clause,
   cum_positive   : {NoRange} \cup Ranges,
   cum_negative   : Ranges]

\* The cause of a decision, which has none.
NoCause ==
  [terms |-> [p \in {} |-> In({})], cause |-> "ROOT", parent |-> ROOT]

Entries(trail, p) == {i \in DOMAIN trail : trail[i].package = p}
Assigned(trail, p) == Entries(trail, p) # {}
LastOf(trail, p) == trail[Max(Entries(trail, p))]

Positive(trail, p) ==
  IF Assigned(trail, p) THEN LastOf(trail, p).cum_positive ELSE NoRange
Negative(trail, p) ==
  IF Assigned(trail, p) THEN LastOf(trail, p).cum_negative ELSE {}

\* _satisfied_at and get: what is still allowed after an assignment.
Allowed(a) ==
  (IF a.cum_positive = NoRange THEN Version ELSE a.cum_positive)
    \ a.cum_negative

Effective(trail, p) ==
  IF Assigned(trail, p) THEN Allowed(LastOf(trail, p)) ELSE NoRange

Decided(trail, p) == \E i \in Entries(trail, p) : trail[i].is_decision
Undecided(trail) ==
  {p \in Package : Positive(trail, p) # NoRange /\ ~Decided(trail, p)}
DecidedVersion(trail, p) ==
  CHOOSE v \in Version :
    \E i \in Entries(trail, p) :
      trail[i].is_decision /\ trail[i].cum_positive = {v}

----------------------------------------------------------------------------
(* decide, derive and backtrack. *)

Decision(trail, level, p, v) ==
  [package |-> p, decision_level |-> level, is_decision |-> TRUE,
   cause |-> NoCause,
   cum_positive |-> {v}, cum_negative |-> Negative(trail, p)]

\* Mutant: a positive derivation starts the exclusions afresh.
DerivationAfresh(trail, level, p, t, cause) ==
  LET old == Positive(trail, p)
  IN [package |-> p, decision_level |-> level, is_decision |-> FALSE,
      cause |-> cause,
      cum_positive |-> IF ~t.positive THEN old
                       ELSE IF old = NoRange THEN t.constraint
                       ELSE old \cap t.constraint,
      cum_negative |-> IF t.positive THEN {}
                       ELSE Negative(trail, p) \cup t.constraint]

Derivation(trail, level, p, t, cause) ==
  LET old == Positive(trail, p)
      pos == IF ~t.positive THEN old
             ELSE IF old = NoRange THEN t.constraint
             ELSE old \cap t.constraint
      neg == IF t.positive THEN Negative(trail, p)
             ELSE Negative(trail, p) \cup t.constraint
  IN [package |-> p, decision_level |-> level, is_decision |-> FALSE,
      cause |-> cause, cum_positive |-> pos, cum_negative |-> neg]

\* Mutant: the target level goes too.
BacktrackFurther(trail, target) ==
  SubSeq(trail, 1,
    Max({0} \cup {i \in DOMAIN trail : trail[i].decision_level < target}))

\* The trail loses entries from its end until the last one is low enough.
Backtrack(trail, target) ==
  SubSeq(trail, 1,
    Max({0} \cup {i \in DOMAIN trail : trail[i].decision_level <= target}))

----------------------------------------------------------------------------
(* satisfier: the earliest entry from which the term is satisfied. *)

SatisfiedAt(a, t) ==
  /\ t.positive => a.cum_positive # NoRange
  /\ Satisfies(Allowed(a), t)

Satisfiers(trail, p, t) == {i \in Entries(trail, p) : SatisfiedAt(trail[i], t)}
Satisfier(trail, p, t) == Min(Satisfiers(trail, p, t))

----------------------------------------------------------------------------
(* term_relation: the current relation of the solution to a term. *)

Satisfied(trail, p, t) ==
  /\ Assigned(trail, p)
  /\ Satisfies(Effective(trail, p), t)
  /\ t.positive => Positive(trail, p) # NoRange

Contradicted(trail, p, t) ==
  /\ Assigned(trail, p)
  /\ ~Satisfies(Effective(trail, p), t)
  /\ Contradicts(Effective(trail, p), t)
  /\ ~t.positive => Positive(trail, p) # NoRange
============================================================================
