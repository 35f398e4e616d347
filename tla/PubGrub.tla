------------------------------ MODULE PubGrub ------------------------------
(***************************************************************************)
(* The solver loop of nab_resolver: resolver.py drives propagate.py,       *)
(* conflict.py, decide.py and incompat_index.py over one partial solution. *)
(*                                                                         *)
(* One action is one turn of a loop in the code: one clause looked at, one *)
(* resolution step, one clause added.  The solver is single-threaded, so   *)
(* the choices left open are the provider's (which package comes first,    *)
(* which version, which look-ahead clauses) and those the Python term      *)
(* order makes (see Terms): the package a round starts from, and whether a *)
(* scan meets two undetermined terms before a contradicted one.            *)
(***************************************************************************)
EXTENDS Problem

CONSTANTS
  MaxIterations,          \* max_iterations
  RestartThreshold,       \* _RESTART_THRESHOLD
  MaxRestarts,            \* _MAX_RESTARTS
  CulpritThreshold,       \* CULPRIT_THRESHOLD
  TargetedMinConflicts,   \* TARGETED_BT_MIN_CONFLICTS
  MaxTargetedBacktracks   \* MAX_TARGETED_BACKTRACKS

ASSUME ThresholdAssumption ==
  /\ MaxIterations \in Nat \ {0} /\ RestartThreshold \in Nat \ {0}
  /\ MaxRestarts \in Nat /\ CulpritThreshold \in Nat \ {0}
  /\ TargetedMinConflicts \in Nat /\ MaxTargetedBacktracks \in Nat

VARIABLES
  problem,             \* what is being resolved; never changes
  phase,               \* where the solve loop stands
  rounds,              \* stats.rounds
  formula,             \* incompatibilities beside clause_contradicted_at
  trail,               \* solution._assignments
  level,               \* solution._decision_level
  epoch,               \* solution._contradiction_epoch
  recorded,            \* recorded_dependencies: parent range per version
  changed,             \* the package a round starts from, then propagates
  cursor,              \* index of the last clause looked at for it
  queue,               \* propagation_queue
  conflict,            \* the clause under conflict resolution
  choice,              \* the answer of choose_version being carried out
  backlog,             \* clauses still to be added for it
  conflicts,           \* stats.conflicts
  conflictCount,       \* stats.package_conflict_counts
  culpritCount,        \* stats.package_culprit_counts
  pendingTargets,      \* pending_targeted_backtrack
  targetedBacktracks,  \* stats.targeted_backtracks
  restartThreshold,    \* restart_threshold of solve
  restartsLeft         \* restarts_remaining of solve

solution == <<trail, level, epoch>>
propagation == <<changed, cursor, queue>>
decision == <<choice, backlog, recorded>>
counts == <<conflicts, conflictCount, culpritCount, pendingTargets,
            targetedBacktracks, restartThreshold, restartsLeft>>
vars == <<problem, phase, rounds, formula, solution, propagation, conflict,
          decision, counts>>

Finished == {"solved", "failed", "limit"}
Phases == {"round", "propagate", "conflict", "backtrack", "restart",
           "decide", "absorb", "record"} \cup Finished

----------------------------------------------------------------------------
(* The formula. *)

NotContradicted == -1

Fresh(c) == [clause |-> c, contradicted_at |-> NotContradicted]

\* dependency_merge_key: two-term DEPENDENCY clauses of one parent that say
\* the same about the same other package.
Mergeable(c) == c.cause = "DEPENDENCY" /\ Cardinality(DOMAIN c.terms) = 2
SameKey(c, d) ==
  /\ Mergeable(c) /\ Mergeable(d)
  /\ c.parent = d.parent /\ DOMAIN c.terms = DOMAIN d.terms
  /\ \A p \in DOMAIN c.terms \ {c.parent} : c.terms[p] = d.terms[p]

ParentRange(c) == c.terms[c.parent].constraint

Merged(c, d) ==
  [c EXCEPT !.terms[c.parent] = In(ParentRange(c) \cup ParentRange(d))]

\* Mutant: a merged clause keeps the stamp of the clause it replaces.
AddUnderStamp(f, c) ==
  IF \E i \in DOMAIN f : SameKey(f[i].clause, c)
  THEN [i \in DOMAIN f |->
          IF SameKey(f[i].clause, c)
          THEN [f[i] EXCEPT !.clause = Merged(f[i].clause, c)] ELSE f[i]]
  ELSE Append(f, Fresh(c))

\* add_incompatibility: fold c into the clause with its key, else append it.
Add(f, c) ==
  IF \E i \in DOMAIN f : SameKey(f[i].clause, c)
  THEN [i \in DOMAIN f |->
          IF /\ SameKey(f[i].clause, c)
             /\ ~(ParentRange(c) \subseteq ParentRange(f[i].clause))
          THEN Fresh(Merged(f[i].clause, c)) ELSE f[i]]
  ELSE Append(f, Fresh(c))

Clauses == {formula[i].clause : i \in DOMAIN formula}

----------------------------------------------------------------------------
(* Start of a resolution: root requirements, then ROOT decided at level 1. *)

RootDecision == Decision(<< >>, 1, ROOT, RootVersion)
NoConflict == [clause |-> NoCause, derived |-> FALSE]
NoChoice ==
  [package |-> ROOT, version |-> Absent, pending |-> FALSE, targets |-> {}]

Init ==
  /\ problem \in Problems
  /\ phase = "round" /\ rounds = 0
  /\ formula = [i \in DOMAIN problem.root |-> Fresh(RootClause(problem.root[i]))]
  /\ trail = <<RootDecision>> /\ level = 1 /\ epoch = 0
  /\ recorded = [p \in Package |-> [v \in Version |-> NoRange]]
  /\ changed = ROOT /\ cursor = 0 /\ queue = << >>
  /\ conflict = NoConflict /\ choice = NoChoice /\ backlog = {}
  /\ conflicts = 0
  /\ conflictCount = [p \in Node |-> 0] /\ culpritCount = [p \in Node |-> 0]
  /\ pendingTargets = {} /\ targetedBacktracks = 0
  /\ restartThreshold = RestartThreshold /\ restartsLeft = MaxRestarts

StartRound ==
  /\ phase = "round" /\ rounds < MaxIterations
  /\ phase' = "propagate" /\ rounds' = rounds + 1
  /\ conflict' = NoConflict /\ choice' = NoChoice
  /\ UNCHANGED <<problem, formula, solution, propagation, backlog, recorded,
                 counts>>

ReachLimit ==
  /\ phase = "round" /\ rounds = MaxIterations
  /\ phase' = "limit"
  /\ UNCHANGED <<problem, rounds, formula, solution, propagation, conflict,
                 decision, counts>>

----------------------------------------------------------------------------
(* unit_propagation. *)

Refuted(c) == {p \in DOMAIN c.terms : Contradicted(trail, p, c.terms[p])}
Open(c) == {p \in DOMAIN c.terms : /\ ~Satisfied(trail, p, c.terms[p])
                                   /\ ~Contradicted(trail, p, c.terms[p])}
Violated(c) == Refuted(c) = {} /\ Open(c) = {}

\* The clauses of the current package still to be looked at.
Due == {i \in DOMAIN formula : /\ i > cursor
                               /\ changed \in DOMAIN formula[i].clause.terms
                               /\ formula[i].contradicted_at # epoch}

LookAt(i) == phase = "propagate" /\ Due # {} /\ i = Min(Due)

\* Mutants: stamps outlive a backtrack; a restart counts epochs afresh.
SameEpoch == epoch
FirstEpoch == 0

\* The epoch after PartialSolution.backtrack, and of a restart's new solution.
NextEpoch == epoch + 1
RestartEpoch == epoch + 1

\* What a new assignment does to the epoch, and a derivation to the queue.
EpochAfter(a) == IF Allowed(a) = {} THEN epoch + 1 ELSE epoch

\* Mutant: a package emptied by the derivation is not looked at again.
QueueUnlessEmpty(a) ==
  LET p == a.package IN
  IF \/ Allowed(a) \in {{}, Effective(trail, p)}
     \/ \E k \in DOMAIN queue : queue[k] = p
  THEN queue ELSE Append(queue, p)

QueueAfter(a) ==
  LET p == a.package IN
  IF Allowed(a) = Effective(trail, p) \/ \E k \in DOMAIN queue : queue[k] = p
  THEN queue ELSE Append(queue, p)

\* One term is contradicted: the clause is settled for this epoch.
Settle(i) ==
  /\ LookAt(i)
  /\ Refuted(formula[i].clause) # {}
  /\ formula' = [formula EXCEPT ![i].contradicted_at = epoch]
  /\ cursor' = i
  /\ UNCHANGED <<problem, phase, rounds, solution, changed, queue, conflict,
                 decision, counts>>

\* Two terms are open: nothing to do yet.
PassOver(i) ==
  /\ LookAt(i)
  /\ Cardinality(Open(formula[i].clause)) >= 2
  /\ cursor' = i
  /\ UNCHANGED <<problem, phase, rounds, formula, solution, changed, queue,
                 conflict, decision, counts>>

\* One term is open and the others hold: derive its negation.
Derive(i) ==
  LET c == formula[i].clause IN
  /\ LookAt(i)
  /\ Refuted(c) = {}
  /\ \E p \in Open(c) :
       LET a == Derivation(trail, level, p, Negate(c.terms[p]), c) IN
       /\ Open(c) = {p}
       /\ trail' = Append(trail, a)
       /\ epoch' = EpochAfter(a)
       /\ queue' = QueueAfter(a)
  /\ cursor' = i
  /\ UNCHANGED <<problem, phase, rounds, formula, level, changed, conflict,
                 decision, counts>>

\* Every term holds: hand the clause to conflict resolution.
FindConflict(i) ==
  /\ LookAt(i)
  /\ Violated(formula[i].clause)
  /\ phase' = "conflict"
  /\ cursor' = 0 /\ queue' = << >>
  /\ conflict' = [clause |-> formula[i].clause, derived |-> FALSE]
  /\ conflicts' = conflicts + 1
  /\ UNCHANGED <<problem, rounds, formula, solution, changed, decision,
                 conflictCount, culpritCount, pendingTargets,
                 targetedBacktracks, restartThreshold, restartsLeft>>

NextPackage ==
  /\ phase = "propagate" /\ Due = {} /\ queue # << >>
  /\ changed' = Head(queue) /\ queue' = Tail(queue) /\ cursor' = 0
  /\ UNCHANGED <<problem, phase, rounds, formula, solution, conflict, decision,
                 counts>>

FinishPropagation ==
  /\ phase = "propagate" /\ Due = {} /\ queue = << >>
  /\ phase' = "decide"
  /\ cursor' = 0
  /\ UNCHANGED <<problem, rounds, formula, solution, changed, queue, conflict,
                 decision, counts>>

----------------------------------------------------------------------------
(* conflict_resolution. *)

SatisfierIn(terms, p) == Satisfier(trail, p, terms[p])

SatisfierIndices(terms) == {SatisfierIn(terms, p) : p \in DOMAIN terms}

\* Mutant: satisfiers compared by decision level, not by place in the trail.
HighestLevel(terms) ==
  CHOOSE i \in SatisfierIndices(terms) :
    \A j \in SatisfierIndices(terms) :
      trail[j].decision_level <= trail[i].decision_level

\* find_most_recent_satisfier.
MostRecent(terms) == Max(SatisfierIndices(terms))
SatisfierEntry(terms) == trail[MostRecent(terms)]
SatisfiedLast(terms) == SatisfierEntry(terms).package

\* recompute_previous_level: the part of the term that the satisfier's own
\* assertion leaves to earlier entries, and the level where they exclude it.
PartialLevels(a, t) ==
  IF a.package \notin DOMAIN a.cause.terms THEN {}
  ELSE LET difference == Conjoin(Negate(a.cause.terms[a.package]), Negate(t))
           earlier == Satisfiers(trail, a.package, Negate(difference))
       IN IF difference.constraint = {} \/ earlier = {} THEN {}
          ELSE {trail[Min(earlier)].decision_level}

\* Mutant: the lowest level among the other terms.
LowestLevel(terms) ==
  Min({1} \cup {trail[SatisfierIn(terms, q)].decision_level
                  : q \in DOMAIN terms \ {SatisfiedLast(terms)}})

PreviousLevel(terms) ==
  Max({1} \cup {trail[SatisfierIn(terms, q)].decision_level
                  : q \in DOMAIN terms \ {SatisfiedLast(terms)}}
          \cup PartialLevels(SatisfierEntry(terms), terms[SatisfiedLast(terms)]))

CanBackjump(terms) ==
  \/ SatisfierEntry(terms).is_decision
  \/ PreviousLevel(terms) # SatisfierEntry(terms).decision_level

Terminal(terms) == DOMAIN terms \subseteq {ROOT}

ResolveWithCause(terms) ==
  PriorCause(terms, SatisfierEntry(terms).cause.terms, SatisfiedLast(terms))

\* try_force_resolution_step.  A forced clause has two terms, so the loop
\* around it runs at most once.
Forceable(terms) ==
  /\ ~SatisfierEntry(terms).is_decision
  /\ Cardinality(DOMAIN terms) = 1
  /\ \E resolved \in {ResolveWithCause(terms)} :
        Cardinality(DOMAIN resolved) >= 2 /\ CanBackjump(resolved)

BackjumpTarget(terms) ==
  LET a == SatisfierEntry(terms)
      target == IF a.is_decision /\ PreviousLevel(terms) >= a.decision_level
                THEN a.decision_level - 1 ELSE PreviousLevel(terms)
  IN IF target < level THEN target ELSE level

\* conflict_credit_target and update_culprit_counts.
CreditTarget(a) ==
  IF a.is_decision \/ a.cause.cause # "DEPENDENCY" THEN a.package
  ELSE a.cause.parent

Culprits(terms, a) ==
  (DOMAIN terms
     \cup (IF Cardinality(DOMAIN terms) = 1 THEN DOMAIN a.cause.terms ELSE {}))
   \ {ROOT, a.package}

GiveUp ==
  /\ phase = "conflict" /\ Terminal(conflict.clause.terms)
  /\ phase' = "failed"
  /\ UNCHANGED <<problem, rounds, formula, solution, propagation, conflict,
                 decision, counts>>

ResolveStep ==
  LET terms == conflict.clause.terms IN
  /\ phase = "conflict" /\ ~Terminal(terms) /\ ~CanBackjump(terms)
  /\ conflict' = [clause |-> Derived(ResolveWithCause(terms)), derived |-> TRUE]
  /\ UNCHANGED <<problem, phase, rounds, formula, solution, propagation,
                 decision, counts>>

Learned ==
  LET terms == conflict.clause.terms
  IN IF Forceable(terms) THEN Derived(ResolveWithCause(terms))
     ELSE conflict.clause

\* Mutant: the learned clause is dropped.
KeepNothing(learned) == formula

\* A clause that resolution changed is added; one it found in the formula is not.
Keep(learned) ==
  IF conflict.derived \/ learned # conflict.clause THEN Add(formula, learned)
  ELSE formula

Backjump ==
  /\ phase = "conflict"
  /\ ~Terminal(conflict.clause.terms) /\ CanBackjump(conflict.clause.terms)
  /\ \E learned \in {Learned} : \E a \in {SatisfierEntry(learned.terms)} :
       /\ formula' = Keep(learned)
       /\ \E target \in {BackjumpTarget(learned.terms)} :
            trail' = Backtrack(trail, target) /\ level' = target
       /\ conflictCount' = [conflictCount EXCEPT ![CreditTarget(a)] = @ + 1]
       /\ culpritCount' = [p \in Node |-> culpritCount[p] +
            (IF p \in Culprits(learned.terms, a) THEN 1 ELSE 0)]
       /\ pendingTargets' = pendingTargets \cup
            {p \in Culprits(learned.terms, a) :
               culpritCount'[p] % CulpritThreshold = 0}
       /\ \E p \in DOMAIN learned.terms : changed' = p
       /\ conflict' = [conflict EXCEPT !.clause = learned]
  /\ epoch' = NextEpoch
  /\ phase' = "backtrack"
  /\ UNCHANGED <<problem, rounds, cursor, queue, decision, conflicts,
                 targetedBacktracks, restartThreshold, restartsLeft>>

----------------------------------------------------------------------------
(* apply_targeted_backtrack, from either caller, and maybe_restart. *)

TargetLevels(pending) ==
  {trail[i].decision_level - 1 : i \in
     {i \in DOMAIN trail : /\ trail[i].package \in pending
                           /\ trail[i].decision_level >= 2}}

CanTarget(pending) ==
  targetedBacktracks < MaxTargetedBacktracks /\ TargetLevels(pending) # {}

\* Jump below the earliest assignment of a pending culprit above level 1.
TargetedBacktrack(pending) ==
  LET target == Min(TargetLevels(pending)) IN
  /\ CanTarget(pending)
  /\ \E p \in pending :
       /\ \E i \in Entries(trail, p) : trail[i].decision_level = target + 1
       /\ changed' = p
  /\ trail' = Backtrack(trail, target) /\ level' = target /\ epoch' = NextEpoch
  /\ pendingTargets' = {}
  /\ targetedBacktracks' = targetedBacktracks + 1

TargetingDue == pendingTargets # {} /\ conflicts >= TargetedMinConflicts

PruneCulprits ==
  /\ phase = "backtrack" /\ TargetingDue
  /\ TargetedBacktrack(pendingTargets)
  /\ phase' = "restart"
  /\ UNCHANGED <<problem, rounds, formula, cursor, queue, conflict, decision,
                 conflicts, conflictCount, culpritCount, restartThreshold,
                 restartsLeft>>

SkipPruning ==
  /\ phase = "backtrack" /\ ~(TargetingDue /\ CanTarget(pendingTargets))
  /\ pendingTargets' = IF TargetingDue THEN {} ELSE pendingTargets
  /\ phase' = "restart"
  /\ UNCHANGED <<problem, rounds, formula, solution, propagation, conflict,
                 decision, conflicts, conflictCount, culpritCount,
                 targetedBacktracks, restartThreshold, restartsLeft>>

RestartDue ==
  restartsLeft > 0 /\ \E p \in Node : conflictCount[p] >= restartThreshold

Restart ==
  /\ phase = "restart" /\ RestartDue
  /\ trail' = <<RootDecision>> /\ level' = 1 /\ epoch' = RestartEpoch
  /\ changed' = ROOT
  /\ pendingTargets' = {} /\ targetedBacktracks' = 0
  /\ restartThreshold' = 2 * restartThreshold
  /\ restartsLeft' = restartsLeft - 1
  /\ phase' = "round"
  /\ UNCHANGED <<problem, rounds, formula, cursor, queue, conflict, decision,
                 conflicts, conflictCount, culpritCount>>

CarryOn ==
  /\ phase = "restart" /\ ~RestartDue
  /\ phase' = "round"
  /\ UNCHANGED <<problem, rounds, formula, solution, propagation, conflict,
                 decision, counts>>

----------------------------------------------------------------------------
(* The decision phase. *)

Solve ==
  /\ phase = "decide" /\ Undecided(trail) = {}
  /\ phase' = "solved"
  /\ UNCHANGED <<problem, rounds, formula, solution, propagation, conflict,
                 decision, counts>>

\* choose_package_to_decide and choose_version.
Choose(p) ==
  /\ phase = "decide" /\ p \in Undecided(trail)
  /\ \E answer \in Answers(problem, trail, p) :
       /\ choice' = [package |-> p, version |-> answer.version,
                     pending |-> answer.pending # {}, targets |-> answer.targets]
       /\ backlog' = answer.pending
  /\ phase' = "absorb"
  /\ UNCHANGED <<problem, rounds, formula, solution, propagation, conflict,
                 recorded, counts>>

\* absorb_pending_clauses, one clause at a time.
Absorb(c) ==
  /\ phase = "absorb" /\ c \in backlog
  /\ formula' = Add(formula, c) /\ backlog' = backlog \ {c}
  /\ UNCHANGED <<problem, phase, rounds, solution, propagation, conflict,
                 choice, recorded, counts>>

\* force_targeted_backtrack: the targets become dominant culprits at once.
Promoted(targets) ==
  [p \in Node |-> IF p \in targets /\ culpritCount[p] < CulpritThreshold
                  THEN CulpritThreshold ELSE culpritCount[p]]

Forces ==
  choice.targets # {} /\ CanTarget(pendingTargets \cup choice.targets)

ForceBacktrack ==
  /\ phase = "absorb" /\ backlog = {} /\ Forces
  /\ culpritCount' = Promoted(choice.targets)
  /\ TargetedBacktrack(pendingTargets \cup choice.targets)
  /\ phase' = "round"
  /\ UNCHANGED <<problem, rounds, formula, cursor, queue, conflict, decision,
                 conflicts, conflictCount, restartThreshold, restartsLeft>>

\* What is left of the targets when they move nothing.
DropTargets ==
  /\ culpritCount' = Promoted(choice.targets)
  /\ pendingTargets' = IF choice.targets = {} THEN pendingTargets ELSE {}

RecordNoVersions ==
  LET p == choice.package
      range == Effective(trail, p)
      hidden == problem.avail[p] \cap range # {}
  IN
  /\ phase = "absorb" /\ backlog = {} /\ ~Forces
  /\ choice.version = Absent
  /\ formula' = IF choice.pending THEN formula
                ELSE Add(formula, NoVersionsClause(p,
                       IF range = {} THEN Version ELSE range,
                       IF hidden THEN "CONSTRAINT" ELSE "NO_VERSIONS"))
  /\ DropTargets
  /\ changed' = p
  /\ phase' = "round"
  /\ UNCHANGED <<problem, rounds, solution, cursor, queue, conflict, decision,
                 conflicts, conflictCount, targetedBacktracks,
                 restartThreshold, restartsLeft>>

\* Mutant: one record per package instead of one per version.
UnrecordedPackage(p, v, parents) ==
  IF \E w \in Version : recorded[p][w] # NoRange THEN {}
  ELSE DependencyClauses(problem, p, v, parents)

\* The clauses of a decision, unless they were recorded under the same parent
\* range before.
Unrecorded(p, v, parents) ==
  IF recorded[p][v] = parents THEN {}
  ELSE DependencyClauses(problem, p, v, parents)

\* _decide_next: decide, then _record_dependency_clauses.
Decide ==
  LET p == choice.package
      v == choice.version
      a == Decision(trail, level + 1, p, v)
  IN
  /\ phase = "absorb" /\ backlog = {} /\ ~Forces
  /\ v # Absent
  /\ trail' = Append(trail, a) /\ level' = level + 1
  /\ epoch' = EpochAfter(a)
  /\ IF Requires(problem, p, v) = {}
     THEN backlog' = {} /\ UNCHANGED recorded
     ELSE \E W \in ParentRanges(problem, p, v) :
            /\ backlog' = Unrecorded(p, v, W)
            /\ recorded' = [recorded EXCEPT ![p][v] = W]
  /\ DropTargets
  /\ changed' = p
  /\ phase' = IF backlog' = {} THEN "round" ELSE "record"
  /\ UNCHANGED <<problem, rounds, formula, cursor, queue, conflict, choice,
                 conflicts, conflictCount, targetedBacktracks,
                 restartThreshold, restartsLeft>>

Record(c) ==
  /\ phase = "record" /\ c \in backlog
  /\ formula' = Add(formula, c) /\ backlog' = backlog \ {c}
  /\ phase' = IF backlog' = {} THEN "round" ELSE "record"
  /\ UNCHANGED <<problem, rounds, solution, propagation, conflict, choice,
                 recorded, counts>>

----------------------------------------------------------------------------
\* solve has returned or raised.
Terminated == phase \in Finished /\ UNCHANGED vars

Propagate ==
  \/ \E i \in DOMAIN formula :
       Settle(i) \/ PassOver(i) \/ Derive(i) \/ FindConflict(i)
  \/ NextPackage \/ FinishPropagation

HandleConflict ==
  \/ GiveUp \/ ResolveStep \/ Backjump
  \/ PruneCulprits \/ SkipPruning \/ Restart \/ CarryOn

DecideNext ==
  \/ Solve
  \/ \E p \in Package : Choose(p)
  \/ \E c \in backlog : Absorb(c) \/ Record(c)
  \/ ForceBacktrack \/ RecordNoVersions \/ Decide

Next == StartRound \/ ReachLimit \/ Propagate \/ HandleConflict \/ DecideNext
          \/ Terminated

Spec == Init /\ [][Next]_vars
FairSpec == Spec /\ WF_vars(Next)
----------------------------------------------------------------------------
(* Properties. *)

\* Every variable holds what the Python attribute beside it may hold.
TypeOK ==
  /\ problem \in ProblemType
  /\ phase \in Phases /\ rounds \in 0..MaxIterations
  /\ formula \in Seq([clause : Clause, contradicted_at : Int])
  /\ \A i \in DOMAIN formula : formula[i].contradicted_at \in {NotContradicted} \cup 0..epoch
  /\ trail \in Seq(Assignment) /\ level \in Nat /\ epoch \in Nat
  /\ recorded \in [Package -> [Version -> {NoRange} \cup Ranges]]
  /\ changed \in Node /\ cursor \in Nat /\ queue \in Seq(Node)
  /\ conflict \in [clause : Clause, derived : BOOLEAN]
  /\ choice \in [package : Node, version : Version \cup {Absent},
                 pending : BOOLEAN, targets : SUBSET Package]
  /\ backlog \in SUBSET Clause
  /\ conflicts \in Nat
  /\ conflictCount \in [Node -> Nat] /\ culpritCount \in [Node -> Nat]
  /\ pendingTargets \in SUBSET Node /\ targetedBacktracks \in Nat
  /\ restartThreshold \in Nat /\ restartsLeft \in Nat

\* No clause the resolver records, merges, learns by resolution or takes from a
\* provider's look-ahead, now or still queued, and no cause in the trail, excludes
\* a real solution: soundness of union_terms and prior_cause (report.py), of
\* widened parent ranges and of flush_pending_blocks (lookahead.py).
ClausesSound ==
  LET solutions == Solutions(problem) IN
  /\ \A i \in DOMAIN formula : Excludes(solutions, formula[i].clause)
  /\ \A i \in DOMAIN trail :
        trail[i].is_decision \/ Excludes(solutions, trail[i].cause)
  /\ \A c \in backlog : Excludes(solutions, c)
  /\ phase = "conflict" => Excludes(solutions, conflict.clause)

\* ResolutionError is raised only when the problem has no solution at all, not
\* when resolution lost one on the way (is_terminal, conflict.py).
FailureIsReal == phase = "failed" => Solutions(problem) = {}

\* The selection build_solution_data returns: decisions the roots still reach.
Decisions ==
  [p \in Package |-> IF Decided(trail, p) THEN DecidedVersion(trail, p)
                     ELSE Absent]
Pins ==
  [p \in Package |-> IF p \in Reachable(problem, Decisions)
                     THEN Decisions[p] ELSE Absent]

\* Every outcome is one that Resolution allows: a returned selection is a solution
\* with nothing unneeded in it, and an error is raised for a reason.
Promise == INSTANCE Resolution WITH
  outcome <- IF phase \in Finished THEN phase ELSE "searching",
  pins <- IF phase = "solved" THEN Pins ELSE [p \in Package |-> Absent]

KeepsPromise == Promise!Spec

\* The skip in unit_propagation is sound: a clause stamped in the current epoch is
\* contradicted by the trail as it is now, after every backtrack, merge and restart.
StampsCurrent ==
  \A i \in DOMAIN formula :
    formula[i].contradicted_at = epoch => Refuted(formula[i].clause) # {}

\* Propagation overlooks no conflict that decisions alone explain: none is left
\* when a solution is returned, and one that is left when a decision is due has a
\* package still to decide, which brings it up.
NoConflictMissed ==
  \A c \in Clauses : Violated(c) =>
    /\ phase # "solved"
    /\ phase = "decide" => \E p \in DOMAIN c.terms : ~Decided(trail, p)

\* When a decision is due, all that the roots and the decided versions require is in
\* force: each required package is asked for and no version outside what they ask is
\* left for it, however their clauses were merged, stamped, jumped over or recorded
\* under a decision that has since been taken back and made again.
InForce(p, range) == Positive(trail, p) # NoRange /\ Effective(trail, p) \subseteq range

RequirementsDerived ==
  phase = "decide" =>
    /\ \A i \in DOMAIN problem.root :
         InForce(problem.root[i].package, problem.root[i].constraint)
    /\ \A p \in Package : Decided(trail, p) =>
         LET v == DecidedVersion(trail, p) IN
         \A d \in Requires(problem, p, v) : InForce(d, problem.deps[p][v][d])

\* Outside propagation no package that is asked for has an empty range: a package
\* emptied by a derivation is looked at again before a decision, so that choose_version
\* never reads its empty range as "any version" (decide.py).
CandidatesLeft ==
  phase \notin {"propagate", "conflict", "failed"} =>
    \A p \in Package :
      Positive(trail, p) # NoRange => Effective(trail, p) # {}

\* Decision levels count the decisions along the trail, no package is decided
\* twice, and the current level is the number of decisions: backtrack, targeted
\* backtracks and restarts cut trail and level together.
TrailShape ==
  /\ \A i \in DOMAIN trail :
       trail[i].decision_level =
         Cardinality({j \in 1..i : trail[j].is_decision})
  /\ \A i, j \in DOMAIN trail :
       (/\ trail[i].is_decision /\ trail[j].is_decision
        /\ trail[i].package = trail[j].package) => i = j
  /\ level = Cardinality({j \in DOMAIN trail : trail[j].is_decision})

\* Along the trail what is allowed of a package never grows back, and a package
\* asked for stays so: the premise of satisfier's binary search.
Narrowing ==
  \A i, j \in DOMAIN trail :
    i < j /\ trail[i].package = trail[j].package =>
      /\ Allowed(trail[j]) \subseteq Allowed(trail[i])
      /\ trail[i].cum_positive # NoRange => trail[j].cum_positive # NoRange

\* Every decided version has its requirements in the formula, although clauses are
\* recorded once per version, merged by key and never recorded again after a
\* backtrack or a restart (recorded_dependencies, maybe_merge_dependency).
DependenciesKnown ==
  phase \in {"round", "propagate", "decide", "solved"} =>
    \A p \in Package : Decided(trail, p) =>
      LET v == DecidedVersion(trail, p) IN
      \A d \in Requires(problem, p, v) \ {p} :
        \E cl \in Clauses :
          /\ cl.cause = "DEPENDENCY" /\ cl.parent = p
          /\ DOMAIN cl.terms = {p, d}
          /\ v \in ParentRange(cl)
          /\ cl.terms[d] = NotIn(problem.deps[p][v][d])

\* Every term of the clause under resolution has a satisfier in the trail, through
\* any number of resolution steps: find_most_recent_satisfier never comes up empty.
ConflictSatisfied ==
  phase = "conflict" =>
    \A p \in DOMAIN conflict.clause.terms :
      Satisfiers(trail, p, conflict.clause.terms[p]) # {}

LastSatisfier == MostRecent(conflict.clause.terms)

\* Each resolution step moves the latest satisfier down the trail, so the loop of
\* conflict_resolution ends (the comment at conflict.py:62).
ResolutionMovesBack ==
  [][phase = "conflict" /\ phase' = "conflict" /\ DOMAIN conflict'.clause.terms # {}
     => LastSatisfier' < LastSatisfier]_vars

\* Every jump lands where the learned clause has exactly one open term and none
\* contradicted, at level 1 or above: the next round derives something new from it.
BackjumpAsserts ==
  [][phase = "conflict" /\ phase' = "backtrack" =>
       /\ level' >= 1
       /\ (Refuted(conflict.clause) = {} /\ Cardinality(Open(conflict.clause)) = 1)']_vars

\* Every resolution ends in a solution or a failure, and, with rounds to spare,
\* not at the round limit: conflicts, restarts and targeted backtracks never cycle.
Termination == <>(phase \in {"solved", "failed"})
============================================================================
