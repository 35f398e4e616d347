------------------------------ MODULE Problem ------------------------------
(***************************************************************************)
(* What is being resolved, and what a provider may answer about it.        *)
(*                                                                         *)
(* A problem is a record: the released versions of each package (avail),   *)
(* the range each version asks of each package (deps, NoRange where it     *)
(* asks nothing), the root requirements in order (root) and the user's     *)
(* constraints (constraints, the whole version space where there is none). *)
(* The answers are those of BaseProvider and, with look-ahead on, those of *)
(* nab_provider's scan (provider.py, _provider/lookahead.py).  The order   *)
(* in which a provider prefers versions is left open.                      *)
(***************************************************************************)
EXTENDS Trail

CONSTANTS
  Problems,        \* the problems a run resolves
  LookAhead,       \* BOOLEAN: the provider rejects candidates ahead of time
  Widening,        \* BOOLEAN: the provider widens decided versions
  AbortThreshold   \* _LOOKAHEAD_ABORT_THRESHOLD

Requirement == [package : Package, constraint : Ranges]

ProblemType ==
  [avail       : [Package -> Ranges],
   deps        : [Package -> [Version -> [Package -> {NoRange} \cup Ranges]]],
   root        : Seq(Requirement),
   constraints : [Package -> Ranges]]

ASSUME ProblemsAssumption == Problems \subseteq ProblemType
ASSUME VersionAssumption == Version \subseteq Int
ASSUME ProviderAssumption ==
  LookAhead \in BOOLEAN /\ Widening \in BOOLEAN /\ AbortThreshold \in Nat \ {0}

Requires(prob, p, v) == {d \in Package : prob.deps[p][v][d] # NoRange}

\* The versions of a package that some resolution could still select.
Selectable(prob, p) == prob.avail[p] \cap prob.constraints[p]

----------------------------------------------------------------------------
(* A solution: every root requirement met, every selected version          *)
(* selectable, and every requirement of a selected version met.            *)

IsSolution(prob, sel) ==
  /\ sel \in [Package -> Version \cup {Absent}]
  /\ \A i \in DOMAIN prob.root :
        sel[prob.root[i].package] \in prob.root[i].constraint
  /\ \A p \in Package : sel[p] # Absent =>
        /\ sel[p] \in Selectable(prob, p)
        /\ \A d \in Requires(prob, p, sel[p]) :
              sel[d] \in prob.deps[p][sel[p]][d]

Solutions(prob) ==
  {sel \in [Package -> Version \cup {Absent}] : IsSolution(prob, sel)}

\* An incompatibility states a fact: no solution makes all its terms true.
Excludes(solutions, c) == \A sel \in solutions : ~AllHold(sel, c.terms)

\* The packages the result may keep: the least set with the root requirements
\* that is closed under the requirements of the versions in sel.
Reachable(prob, sel) ==
  LET closed == {S \in SUBSET Package :
                   /\ \A i \in DOMAIN prob.root : prob.root[i].package \in S
                   /\ \A p \in S : sel[p] # Absent =>
                                     Requires(prob, p, sel[p]) \subseteq S}
  IN {p \in Package : \A S \in closed : p \in S}

----------------------------------------------------------------------------
(* The clauses the resolver itself writes down. *)

RootClause(r) ==
  [terms |-> [p \in {ROOT, r.package} |->
                IF p = ROOT THEN In({RootVersion}) ELSE NotIn(r.constraint)],
   cause |-> "ROOT", parent |-> ROOT]

NoVersionsClause(p, range, cause) ==
  [terms |-> [q \in {p} |-> In(range)], cause |-> cause, parent |-> ROOT]

DependencyClause(p, parents, d, range) ==
  [terms |-> [q \in {p, d} |-> IF q = p THEN In(parents) ELSE NotIn(range)],
   cause |-> "DEPENDENCY", parent |-> p]

\* A package that rules itself out: both terms would name it.
SelfClause(p, range) ==
  [terms |-> [q \in {p} |-> In(range)], cause |-> "DEPENDENCY", parent |-> p]

\* The clauses of one decision, parents being the widened parent range.
DependencyClauses(prob, p, v, parents) ==
  {DependencyClause(p, parents, d, prob.deps[p][v][d])
     : d \in Requires(prob, p, v) \ {p}}
  \cup
  {SelfClause(p, {v}) : d \in {d \in Requires(prob, p, v) \cap {p} :
                                 v \notin prob.deps[p][v][d]}}

\* widen_decision: the contract a provider's parent range keeps.
ParentRanges(prob, p, v) ==
  IF ~Widening THEN {{v}}
  ELSE {W \in Ranges :
          /\ v \in W
          /\ \A w \in W \cap prob.avail[p] : prob.deps[p][w] = prob.deps[p][v]}

----------------------------------------------------------------------------
(* Look-ahead: candidates rejected before they are decided. *)

\* Mutant: the gap takes in the released neighbours.
GapAndNeighbours(prob, p, v) ==
  {w \in Version : \A u \in prob.avail[p] \ {v} :
                     ~(w < u /\ u <= v) /\ ~(v <= u /\ u < w)}

\* widen_decision_gap: v and the unreleased points between its neighbours.
Gap(prob, p, v) ==
  {w \in Version : \A u \in prob.avail[p] \ {v} :
                     ~(w <= u /\ u <= v) /\ ~(v <= u /\ u <= w)}

CandidateUnion(prob, p, vs) == UNION {Gap(prob, p, v) : v \in vs}

\* The root requirements on d, folded: None without one.
RootRange(prob, d) ==
  LET named == {i \in DOMAIN prob.root : prob.root[i].package = d}
  IN IF named = {} THEN NoRange
     ELSE {v \in Version : \A i \in named : v \in prob.root[i].constraint}

RuledOut(range, asked) == range # NoRange /\ range \cap asked = {}

RootBlockers(prob, p, v) ==
  {d \in Requires(prob, p, v) :
     RuledOut(RootRange(prob, d), prob.deps[p][v][d])}

SolutionBlockers(prob, trail, p, v) ==
  {d \in Requires(prob, p, v) \ RootBlockers(prob, p, v) :
     RuledOut(Positive(trail, d), prob.deps[p][v][d])}

Blockers(prob, trail, p, v) ==
  RootBlockers(prob, p, v) \cup SolutionBlockers(prob, trail, p, v)

\* flush_pending_blocks: the clauses for the rejected versions, blame naming
\* the package each was rejected for.
RejectedAtRoot(prob, p, blame) ==
  {v \in DOMAIN blame : blame[v] \in RootBlockers(prob, p, v)}

RejectedFor(prob, p, blame, d) ==
  {v \in DOMAIN blame \ RejectedAtRoot(prob, p, blame) : blame[v] = d}

RootRejection(prob, p, vs) ==
  NoVersionsClause(p, CandidateUnion(prob, p, vs), "NO_VERSIONS")

BlockRejection(prob, p, vs, d) ==
  LET asked == UNION {prob.deps[p][v][d] : v \in vs} IN
  [terms |-> [q \in {p, d} |-> IF q = p THEN In(CandidateUnion(prob, p, vs))
                                       ELSE In(Version \ asked)],
   cause |-> "DEPENDENCY", parent |-> p]

\* One clause for each range that versions of p ask of p itself.
SelfRejection(prob, p, vs, v) ==
  LET same == {u \in vs : prob.deps[p][u][p] = prob.deps[p][v][p]}
  IN SelfClause(p, CandidateUnion(prob, p, same) \ prob.deps[p][v][p])

RejectionClauses(prob, p, blame) ==
  LET atRoot == RejectedAtRoot(prob, p, blame)
      blocking == {blame[v] : v \in DOMAIN blame \ atRoot}
      bySelf == RejectedFor(prob, p, blame, p)
  IN {RootRejection(prob, p, vs) : vs \in {atRoot} \ {{}}}
     \cup {BlockRejection(prob, p, RejectedFor(prob, p, blame, d), d)
             : d \in blocking \ {p}}
     \cup {SelfRejection(prob, p, bySelf, v) : v \in bySelf}

----------------------------------------------------------------------------
(* choose_version and the queues drained after it. *)

Answer == [version : Version \cup {Absent}, pending : SUBSET Clause,
           targets : SUBSET Package]

Plain(v) == [version |-> v, pending |-> {}, targets |-> {}]

\* Mutant: the user's constraint is forgotten.
AskedFreely(prob, trail, p) ==
  IF Effective(trail, p) = {} THEN Version ELSE Effective(trail, p)

\* The range choose_version asks for; an empty one is falsy and reads as full.
Asked(prob, trail, p) ==
  (IF Effective(trail, p) = {} THEN Version ELSE Effective(trail, p))
    \cap prob.constraints[p]

Candidates(prob, trail, p) == Asked(prob, trail, p) \cap prob.avail[p]

\* Every way to blame each version of a set on one of its blockers.
Blames(prob, trail, p, vs) ==
  {f \in [vs -> Package] : \A v \in vs : f[v] \in Blockers(prob, trail, p, v)}

\* The scan settles on a candidate that passes, or rejects every one.
ScanAnswers(prob, trail, p) ==
  LET candidates == Candidates(prob, trail, p)
      blocked == {v \in candidates : Blockers(prob, trail, p, v) # {}}
      blames == UNION {Blames(prob, trail, p, vs) : vs \in SUBSET blocked}
      answer(v, f) == [version |-> v, pending |-> RejectionClauses(prob, p, f),
                       targets |-> {}]
  IN {answer(v, f) : v \in candidates \ blocked, f \in blames}
     \cup {answer(Absent, f) : f \in Blames(prob, trail, p, candidates)}

\* The scan gives up when enough candidates fail on one decided package, and
\* offers its first candidate with no clause at all.
BlockedBy(prob, trail, p, d) ==
  {v \in Candidates(prob, trail, p) : d \in SolutionBlockers(prob, trail, p, v)}

Aborted(prob, trail, p, d) ==
  {[version |-> v, pending |-> {}, targets |-> T] :
     v \in BlockedBy(prob, trail, p, d), T \in {{}, {d}}}

AbortAnswers(prob, trail, p) ==
  UNION {Aborted(prob, trail, p, d) :
    d \in {d \in Package :
            /\ Decided(trail, d)
            /\ Cardinality(BlockedBy(prob, trail, p, d)) >= AbortThreshold}}

Answers(prob, trail, p) ==
  IF LookAhead
  THEN ScanAnswers(prob, trail, p) \cup AbortAnswers(prob, trail, p)
  ELSE LET candidates == Candidates(prob, trail, p)
       IN IF candidates = {} THEN {Plain(Absent)}
          ELSE {Plain(v) : v \in candidates}
============================================================================
