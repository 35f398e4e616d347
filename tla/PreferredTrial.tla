--------------------------- MODULE PreferredTrial ---------------------------
(***************************************************************************)
(* try_resolve_preferred (resolver.py): before a search, a fresh solver    *)
(* tries to grow one model out of the versions an earlier lock pinned,     *)
(* without ever going back.  It is refused at the first thing that does    *)
(* not fit, and then thrown away with its provider.                        *)
(*                                                                         *)
(* The provider is Problem's, look-ahead included; the trail is Trail's.   *)
(***************************************************************************)
EXTENDS Problem

CONSTANTS
  Preferences,     \* the pins an earlier lock may hold, Absent where it has none
  MaxIterations    \* max_iterations

ASSUME TrialAssumption ==
  /\ MaxIterations \in Nat \ {0} /\ IsFiniteSet(Package)
  /\ Preferences \subseteq [Package -> Version \cup {Absent}]

VARIABLES
  problem,     \* what is resolved
  preferred,   \* the lock's pins
  outcome,     \* "fresh", "growing", "rechecking", "accepted" or "refused"
  trail,       \* solution._assignments
  formula,     \* the clauses
  pending,     \* model.pending, packages in the order they were first required
  at,          \* how many of them were looked at
  required,    \* model.required
  pins,        \* model.pins
  settled,     \* model.chosen_ranges
  asked,       \* the range each pin was last chosen from
  rounds       \* stats.rounds

trying == <<problem, preferred, outcome, trail, formula, pending, at, required,
            pins, settled, asked, rounds>>

Nothing == [p \in Package |-> NoRange]
Pinned == {p \in Package : pins[p] # Absent}
Level == Cardinality(Pinned) + 1

TrialTypeOK ==
  /\ problem \in Problems /\ preferred \in [Package -> Version \cup {Absent}]
  /\ outcome \in {"fresh", "growing", "rechecking", "accepted", "refused"}
  /\ trail \in Seq(Assignment) /\ formula \subseteq Clause
  /\ pending \in Seq(Package) /\ at \in 0..Len(pending)
  /\ required \in [Package -> {NoRange} \cup Ranges]
  /\ settled \in [Package -> {NoRange} \cup Ranges]
  /\ asked \in [Package -> {NoRange} \cup Ranges]
  /\ pins \in [Package -> Version \cup {Absent}] /\ rounds \in Nat

Init ==
  /\ problem \in Problems /\ preferred \in Preferences
  /\ outcome = "fresh" /\ trail = << >> /\ formula = {} /\ pending = << >> /\ at = 0
  /\ required = Nothing /\ settled = Nothing /\ asked = Nothing
  /\ pins = [p \in Package |-> Absent] /\ rounds = 0

Refuse == outcome' = "refused" /\ UNCHANGED <<trail, formula, pending, required, pins,
                                              settled, asked>>

\* The ways to put a set in order: each member has one place.
Orders(S) ==
  {f \in [1..Cardinality(S) -> S] :
     \A x \in S : \E i \in DOMAIN f : \A j \in DOMAIN f : f[j] = x <=> i = j}

\* One order keeps to another.
Follows(some, order) ==
  \A i, j \in DOMAIN some : i < j =>
    \E k, l \in DOMAIN order : k < l /\ order[k] = some[i] /\ order[l] = some[j]

\* One derivation for each package a fold of requirements names.
Derive(old, names, range, cause) ==
  old \o [i \in DOMAIN names |->
            Derivation(old, Level, names[i], In(range[names[i]]), cause[names[i]])]

Empty(range) == \E p \in Package : range[p] = {}
Named(range) == {p \in Package : range[p] # NoRange}

\* The root requirements, propagated from ROOT: a conflict, which two of them on one
\* package or an empty one make, refuses the trial.
Start ==
  /\ outcome = "fresh"
  /\ LET folded == [p \in Package |-> RootRange(problem, p)]
         cause == [p \in Package |-> RootClause([package |-> p, constraint |-> folded[p]])]
     IN IF Empty(folded) THEN Refuse
        ELSE \E order \in Orders(Named(folded)) :
          /\ outcome' = "growing" /\ pending' = order /\ required' = folded
          /\ trail' = Derive(<<Decision(<< >>, 1, ROOT, RootVersion)>>, order, folded, cause)
          /\ formula' = {RootClause(problem.root[i]) : i \in DOMAIN problem.root}
          /\ UNCHANGED <<pins, settled, asked>>
  /\ UNCHANGED <<problem, preferred, at, rounds>>

Both(old, range) == IF old = NoRange THEN range ELSE old \cap range

\* What the dependencies of p at v make of model.required.
Requirements(p, v) ==
  [d \in Package |-> IF d \in Requires(problem, p, v)
                     THEN Both(required[d], problem.deps[p][v][d]) ELSE required[d]]

\* A choice that departs from the lock with no requirement or constraint to force it.
Unforced(p, v) ==
  v # preferred[p] /\ preferred[p] \in required[p] \cap problem.constraints[p]

\* A version that its own dependencies rule out, or that leaves one of them, already
\* decided or not, without a version.
Misfits(p, v, grown) ==
  \/ p \in Requires(problem, p, v) /\ v \notin problem.deps[p][v][p]
  \/ \E d \in Requires(problem, p, v) \ {p} : Effective(grown, d) = {}

\* The trail once p is decided at v and its dependencies are derived, which
\* _add_preferred_dependencies does with no round of propagation.
Grown(p, v, order) ==
  Derive(Append(trail, Decision(trail, Level, p, v)), order, problem.deps[p][v],
         [d \in Package |-> DependencyClause(p, {v}, d, problem.deps[p][v][d])])

\* _accept_preferred_choice and _add_preferred_dependencies: the next package is
\* decided as the provider chooses, its dependencies are required and queued.
Accept(answer, order) ==
  LET p == pending[at + 1]
      v == answer.version
      grown == Grown(p, v, order)
  IN /\ ~Unforced(p, v) /\ answer.targets = {} /\ ~Misfits(p, v, grown)
     /\ trail' = grown /\ formula' = formula \cup answer.pending
     /\ pins' = [pins EXCEPT ![p] = v]
     /\ settled' = [settled EXCEPT ![p] = required[p]]
     /\ asked' = [asked EXCEPT ![p] = Asked(problem, trail, p)]
     /\ required' = Requirements(p, v)
     /\ \E first \in Orders(Requires(problem, p, v) \ (Named(required) \cup {p})) :
          Follows(first, order) /\ pending' = pending \o first
     /\ UNCHANGED outcome

\* The next package of the queue is looked at.
Consider ==
  /\ outcome = "growing" /\ at < Len(pending)
  /\ at' = at + 1 /\ rounds' = rounds + 1
  /\ LET p == pending[at + 1] IN
     IF rounds + 1 >= MaxIterations \/ preferred[p] = Absent THEN Refuse
     ELSE \E answer \in Answers(problem, trail, p) :
       IF answer.version = Absent THEN Refuse
       ELSE \E order \in Orders(Requires(problem, p, answer.version) \ {p}) :
         IF \/ Unforced(p, answer.version) \/ answer.targets # {}
            \/ Misfits(p, answer.version, Grown(p, answer.version, order))
         THEN Refuse ELSE Accept(answer, order)
  /\ UNCHANGED <<problem, preferred>>

GrowingEnds ==
  /\ outcome = "growing" /\ at = Len(pending)
  /\ outcome' = "rechecking"
  /\ UNCHANGED <<problem, preferred, trail, formula, pending, at, required, pins,
                 settled, asked, rounds>>

\* Mutant: no pin is checked again.
NarrowedNever == {p \in Pinned : FALSE}

\* The pins whose requirements were narrowed after they were chosen.
Narrowed == {p \in Pinned : required[p] # settled[p]}

\* _recheck_preferred_ranges: the provider, asked again with the final requirements,
\* must answer the same.  The pin is marked as looked at in settled.
Recheck ==
  /\ outcome = "rechecking"
  /\ \E p \in Narrowed :
       LET final == required[p] \cap problem.constraints[p] IN
       \/ Refuse
       \/ /\ pins[p] \in final \cap problem.avail[p]
          /\ \E vs \in SUBSET (IF LookAhead THEN final \cap problem.avail[p] ELSE {}) :
               \E blame \in Blames(problem, trail, p, vs \ {pins[p]}) :
                 formula' = formula \cup RejectionClauses(problem, p, blame)
          /\ asked' = [asked EXCEPT ![p] = final]
          /\ settled' = [settled EXCEPT ![p] = required[p]]
          /\ UNCHANGED <<outcome, trail, pending, required, pins>>
  /\ UNCHANGED <<problem, preferred, at, rounds>>

\* The end of _grow_preferred_model: every clause must be contradicted.
Conclude ==
  /\ outcome = "rechecking" /\ Narrowed = {}
  /\ rounds' = rounds + 1
  /\ IF /\ rounds + 1 <= MaxIterations
        /\ \A c \in formula : \E p \in DOMAIN c.terms : Contradicted(trail, p, c.terms[p])
     THEN outcome' = "accepted"
          /\ UNCHANGED <<trail, formula, pending, required, pins, settled, asked>>
     ELSE Refuse
  /\ UNCHANGED <<problem, preferred, at>>

TrialOver == outcome \in {"accepted", "refused"} /\ UNCHANGED trying

Next == Start \/ Consider \/ GrowingEnds \/ Recheck \/ Conclude \/ TrialOver

Spec == Init /\ [][Next]_trying
-----------------------------------------------------------------------------
\* An accepted model is a solution, keeps nothing that is not required, and was
\* found without a search: a dependency derived on a package already decided, or a
\* clause the provider emitted on the way, cannot slip past the trial.
ModelIsSolution ==
  outcome = "accepted" => IsSolution(problem, pins) /\ Pinned = Reachable(problem, pins)

\* The provider stands by every pin for the requirements as they ended, and the
\* model departs from the lock only where they rule its version out.
KeepsLock ==
  outcome = "accepted" => \A p \in Pinned :
    /\ asked[p] = required[p] \cap problem.constraints[p]
    /\ pins[p] = preferred[p]
       \/ preferred[p] \notin required[p] \cap problem.constraints[p]

\* The two together, with the types.
TrialSound == TrialTypeOK /\ ModelIsSolution /\ KeepsLock
=============================================================================
