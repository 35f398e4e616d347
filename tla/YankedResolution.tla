--------------------------- MODULE YankedResolution ---------------------------
(***************************************************************************)
(* Resolution with yanked releases: the proxies of yanked_resolution.py    *)
(* over the preference search of preference.py.                            *)
(*                                                                         *)
(* A yanked candidate may be selected only where an exact pin permits it,  *)
(* and a pin may come from a selected parent whose own metadata is read    *)
(* only once it is permitted.  Before a yanked candidate's metadata is     *)
(* read, a nested query looks for a solution that does without it: its     *)
(* ancestors stay fixed and the live packages stay live.  A query is       *)
(* abandoned and begun again whenever such a proof is needed.              *)
(*                                                                         *)
(* The solver is what Resolution says it is: it answers with a selection   *)
(* that obeys every clause it was given or says there is none, so          *)
(* choosing the packages one by one is one step here.  A range is a set of *)
(* versions; extras and missing listings are left out.                     *)
(***************************************************************************)
EXTENDS Naturals, Sequences, FiniteSets

CONSTANTS
  Candidates,  \* records [of, at, withdrawn]: package, version, yanked or not
  Worlds,      \* records [choices, roots, pinned, deps, pins, meta], see below
  NoPackage

VARIABLES
  world,    \* choices: the candidates listed; roots and deps[c]: a range per
            \* package; pinned and pins[c]: exact pins [of, at]; meta[c]: "read", "rejected" or "unavailable"
  stack,    \* the scopes under proof, the last of them running
  path,     \* the solver's decisions: what was selected, whose metadata decided
  learned,  \* the candidates whose dependencies became clauses of the query
  blocked,  \* the selections the query's other clauses rule out
  incomplete,  \* the query met what it could not read
  facts,    \* the candidates whose metadata was read, or rejected
  proofs,   \* outcomes, refuted and possible
  verdict, result

ASSUME WorldAssumption ==
  /\ IsFiniteSet(Candidates)
  /\ \A w \in Worlds : /\ w.choices \subseteq Candidates
                       /\ w.meta \in [Candidates -> {"read", "rejected", "unavailable"}]

query == <<path, learned, blocked, incomplete>>
yanking == <<world, stack, query, facts, proofs, verdict, result>>

\* PreferenceScope
RootScope == [fixed |-> {}, live |-> {}, target |-> NoPackage]
Scope == stack[Len(stack)]

\* The candidates of S that the step puts in from those put in before.
Least(S, Step(_, _)) ==
  LET closed == {B \in SUBSET S : \A d \in S \ B : ~Step(d, B)}
  IN {c \in S : \A B \in closed : c \in B}

Known == {c \in facts : world.meta[c] = "read"}
Pinned(S) == world.pinned \cup UNION {world.pins[c] : c \in S}
Demanded(S) == DOMAIN world.roots \cup UNION {DOMAIN world.deps[c] : c \in S}
Permitted(c, S) == c.withdrawn => [of |-> c.of, at |-> c.at] \in Pinned(S)
Packages(S) == {c.of : c \in S}

Meets(S, ranges) == \A p \in DOMAIN ranges : \E c \in S : c.of = p /\ c.at \in ranges[p]

\* S selects one candidate of every package demanded by the input or by what is
\* known of S, within the ranges declared for it, and of no other package.
Obeys(S, known) ==
  /\ \A c, d \in S : c.of = d.of => c = d
  /\ Meets(S, world.roots) /\ \A c \in S \cap known : Meets(S, world.deps[c])
  /\ S = Least(S, LAMBDA c, B : c.of \in Demanded(B \cap known))

\* Mutant: a pin counts wherever it is declared, permitted or not.
GroundAnyhow(S, known) ==
  Least(S, LAMBDA c, B : c.of \in Demanded(B \cap known) /\ Permitted(c, S \cap known))

\* ground and admission_support
Ground(S, known) ==
  Least(S, LAMBDA c, B : c.of \in Demanded(B \cap known) /\ Permitted(c, B \cap known))

\* eligible
Eligible(c, scope) ==
  /\ c.of \in scope.live => ~c.withdrawn
  /\ \A d \in scope.fixed : d.of = c.of => d = c

Completions(sel) ==
  {S \in SUBSET {c \in world.choices : Eligible(c, Scope)} :
     /\ sel \subseteq S /\ \A b \in blocked : ~ b \subseteq S
     /\ Obeys(S, learned)}

\* parents: the ancestors established without the candidate's own metadata.
Parents(c, S) ==
  LET expanded == Ground({d \in S : d.of # c.of}, Known) \cap Known
  IN Least(expanded, LAMBDA d, B : DOMAIN world.deps[d] \cap ({c.of} \cup Packages(B)) # {})

\* fixed_range
Within(d, ranges) == d.of \in DOMAIN ranges => d.at \in ranges[d.of]
Allowed(c, parents) ==
  {d \in world.choices : /\ d.of = c.of /\ Within(d, world.roots)
                         /\ \A e \in parents : Within(d, world.deps[e])}

\* The query check() asks for.
LiveQuery(c, S) ==
  [fixed |-> Parents(c, S), target |-> c.of,
   live |-> Scope.live \cup {c.of} \cup Packages({d \in S : ~d.withdrawn})]

Selected == path[Len(path)].selected
Met == path[Len(path)].met
Decided == Obeys(Selected, learned)

FirstStep == <<[selected |-> {}, met |-> {}]>>
NewQuery == /\ path' = FirstStep /\ learned' = {} /\ blocked' = {}
            /\ incomplete' = FALSE

YankedInit ==
  /\ world \in Worlds
  /\ stack = <<RootScope>>
  /\ path = FirstStep /\ learned = {} /\ blocked = {} /\ incomplete = FALSE
  /\ facts = {}
  /\ proofs = [impossible |-> {}, unknown |-> {}, refuted |-> {}, possible |-> {}]
  /\ verdict = "none" /\ result = {}

Searching == verdict = "none"

-----------------------------------------------------------------------------
(* The solver. *)

\* Every package demanded so far is decided before any metadata.
Choose ==
  /\ Searching /\ ~Decided
  /\ \E S \in Completions(Selected) :
       path' = Append(path, [selected |-> S, met |-> Met])
  /\ UNCHANGED <<world, stack, learned, blocked, incomplete, facts, proofs, verdict,
                 result>>

\* A conflict takes back the last decisions, to where the rest can be completed,
\* or all of them.
Ruled == \E b \in blocked : b \subseteq Selected
Backjump ==
  /\ Searching /\ Len(path) > 1 /\ (~Decided \/ Ruled) /\ Completions(Selected) = {}
  /\ \E k \in 1..Len(path) - 1 :
       /\ k = 1 \/ Completions(path[k].selected) # {}
       /\ path' = SubSeq(path, 1, k)
  /\ UNCHANGED <<world, stack, learned, blocked, incomplete, facts, proofs, verdict,
                 result>>

Deciding == Searching /\ Decided /\ ~Ruled

\* block_context
BlockContext == blocked' = blocked \cup {Selected}

\* Every package is decided and no metadata left is permitted (is_ready).
NotReady ==
  /\ Deciding /\ Selected # Met
  /\ Ground(Selected, Known) \subseteq Met
  /\ BlockContext
  /\ UNCHANGED <<world, stack, path, learned, incomplete, facts, proofs, verdict, result>>

\* choose_version of a metadata proxy that is ready.
Preparing(c) == c \in Selected \ Met /\ Deciding /\ c \in Ground(Selected, Known)

\* prepare: the metadata is read once; unread metadata excludes the candidate
\* from the query, which then proves nothing.
Prepare(c) ==
  LET meta == world.meta[c] IN
  /\ facts' = IF meta = "unavailable" THEN facts ELSE facts \cup {c}
  /\ IF meta = "read"
     THEN /\ path' = Append(path, [selected |-> Selected, met |-> Met \cup {c}])
          /\ learned' = learned \cup {c}
          /\ UNCHANGED <<blocked, incomplete>>
     ELSE /\ blocked' = blocked \cup {{c}}
          /\ incomplete' = (incomplete \/ meta = "unavailable")
          /\ UNCHANGED <<path, learned>>
  /\ UNCHANGED <<world, stack, proofs, verdict, result>>

PrepareLive(c) == ~c.withdrawn /\ Preparing(c) /\ Prepare(c)

-----------------------------------------------------------------------------
(* A yanked candidate's metadata: check(). *)

Context == <<Scope, Selected>>
InRange(c) == c \in Allowed(c, Parents(c, Selected))
LiveChoice(c) == \E d \in Allowed(c, Parents(c, Selected)) : ~d.withdrawn
Checking(c) == c.withdrawn /\ Preparing(c)
\* A live choice is in range, and the query is the one that looks for it.
Contested(c) == Checking(c) /\ InRange(c) /\ LiveChoice(c)

\* What the outcome says: still to be proved, not known, or that no live choice works.
Asked(q) == q \in proofs.impossible \cup proofs.unknown

Unpreparable(c) ==
  /\ Checking(c)
  /\ \/ ~InRange(c) /\ UNCHANGED incomplete
     \/ /\ Contested(c) /\ LiveQuery(c, Selected) \in proofs.unknown
        /\ incomplete' = TRUE
     \/ /\ Contested(c) /\ LiveQuery(c, Selected) \in proofs.impossible
        /\ Context \in proofs.refuted /\ UNCHANGED incomplete
  /\ BlockContext
  /\ UNCHANGED <<world, stack, path, learned, facts, proofs, verdict, result>>

\* _NeedLiveProofError: the query unwinds and the scope is proved first.
NeedLiveProof(c) ==
  /\ Contested(c) /\ ~Asked(LiveQuery(c, Selected))
  /\ IF Scope.live \subseteq LiveQuery(c, Selected).live
        /\ Scope.live # LiveQuery(c, Selected).live
     THEN stack' = Append(stack, LiveQuery(c, Selected)) /\ UNCHANGED verdict
     ELSE verdict' = "cyclic query" /\ UNCHANGED stack
  /\ NewQuery
  /\ UNCHANGED <<world, facts, proofs, result>>

\* What the facts leave open: candidates not read yet demand nothing.
Consistent(scope, S) ==
  \E T \in SUBSET {c \in world.choices : /\ c \in facts => c \in Known
                                      /\ Eligible(c, [scope EXCEPT !.fixed = @ \cup S])} :
    Obeys(T, Known)

\* _NeedContextProofError and check_context: a revision is known by its size.
NeedContextProof(c) ==
  /\ Contested(c) /\ LiveQuery(c, Selected) \in proofs.impossible
  /\ Context \notin proofs.refuted
  /\ <<Context, Cardinality(facts)>> \notin proofs.possible
  /\ proofs' = IF Consistent(Scope, Selected)
               THEN [proofs EXCEPT !.possible = @ \cup {<<Context, Cardinality(facts)>>}]
               ELSE [proofs EXCEPT !.refuted = @ \cup {Context}]
  /\ NewQuery
  /\ UNCHANGED <<world, stack, facts, verdict, result>>

PrepareYanked(c) ==
  /\ Checking(c) /\ InRange(c)
  /\ LiveChoice(c) => /\ LiveQuery(c, Selected) \in proofs.impossible
                      /\ Context \notin proofs.refuted
                      /\ <<Context, Cardinality(facts)>> \in proofs.possible
  /\ Prepare(c)

-----------------------------------------------------------------------------
(* run and run_query. *)

\* Mutant: a query that could not read everything proves failure all the same.
FailedAnyhow(q) == [proofs EXCEPT !.impossible = @ \cup {q}]

\* Mutant: what a failed query showed is not kept.
FailedUnnoted(q) == proofs

\* record_failure
Failed(q) ==
  IF incomplete THEN [proofs EXCEPT !.unknown = @ \cup {q}]
  ELSE [proofs EXCEPT !.impossible = @ \cup {q}]

QueryFails ==
  /\ Searching /\ Len(path) = 1 /\ Completions({}) = {}
  /\ IF Len(stack) = 1
     THEN /\ verdict' = IF incomplete THEN "incomplete" ELSE "failed"
          /\ UNCHANGED <<stack, proofs, query>>
     ELSE /\ proofs' = Failed(Scope)
          /\ stack' = SubSeq(stack, 1, Len(stack) - 1)
          /\ NewQuery /\ UNCHANGED verdict
  /\ UNCHANGED <<world, facts, result>>

\* The solution of a nested query is the solution.
QuerySolved ==
  /\ Deciding /\ Met = Selected
  /\ IF Scope.target = NoPackage \/ Scope.target \in Packages(Selected)
     THEN verdict' = "solved" /\ result' = Selected
     ELSE verdict' = "target disappeared" /\ UNCHANGED result
  /\ UNCHANGED <<world, stack, query, facts, proofs>>

\* spend: the steps of all the queries together have a limit; the error is no
\* failure of the query it ends, and unwinds them all.
OutOfSteps ==
  /\ Searching /\ verdict' = "limit"
  /\ stack' = <<RootScope>> /\ NewQuery
  /\ UNCHANGED <<world, facts, proofs, result>>

YankingOver == ~Searching /\ UNCHANGED yanking

Search ==
  \/ Choose \/ Backjump \/ NotReady \/ QueryFails \/ QuerySolved
  \/ \E c \in world.choices :
       \/ PrepareLive(c) \/ Unpreparable(c) \/ NeedLiveProof(c)
       \/ NeedContextProof(c) \/ PrepareYanked(c)

YankedNext == Search \/ OutOfSteps \/ YankingOver

YankedSpec == YankedInit /\ [][YankedNext]_yanking /\ WF_yanking(Search)
-----------------------------------------------------------------------------
YankedTypeOK ==
  /\ world \in Worlds /\ facts \subseteq Candidates /\ result \subseteq Candidates
  /\ learned \subseteq Known /\ incomplete \in BOOLEAN
  /\ \A i \in 1..Len(path) : path[i].met \subseteq path[i].selected

\* A set of candidates is unfounded when nothing outside it demands, or permits,
\* one of its members first.
Founded(S) ==
  \A U \in (SUBSET S) \ {{}} :
    \E c \in U : c.of \in Demanded(S \ U) /\ Permitted(c, S \ U)

\* A solution under a scope, by what the metadata says, readable here or not.
Solution(S, scope) ==
  /\ \A c \in S : Eligible(c, scope) /\ world.meta[c] # "rejected"
  /\ Obeys(S, Candidates) /\ Founded(S)
Solvable(scope) == \E S \in SUBSET world.choices : Solution(S, scope)

\* A yanked release is a last resort (docs/reference/yanking.md): the answer is a
\* solution in which every yanked release is permitted by a parent that does not
\* owe its own permission to it, and whenever one is in the answer nothing solves
\* the input with its ancestors as selected, its package live and the live
\* packages live.
PermittedLast ==
  verdict = "solved" =>
    /\ Solution(result, Scope)
    /\ \A c \in result : c.withdrawn => ~Solvable(LiveQuery(c, result))

\* The same, with the types.
LastResort == YankedTypeOK /\ PermittedLast

\* Nothing is refused for good that has a solution: a scope held impossible, a
\* refuted context and the verdict "failed" are all true, also where metadata
\* could not be read; no query asks for itself and no target is lost.
RefusalsHold ==
  /\ \A q \in proofs.impossible : ~Solvable(q)
  /\ \A c \in proofs.refuted : ~Solvable([c[1] EXCEPT !.fixed = @ \cup c[2]])
  /\ verdict = "failed" => ~Solvable(RootScope)
  /\ verdict \notin {"cyclic query", "target disappeared"}

\* The search ends: every query it abandons leaves a proof behind.
SearchEnds == <>(~Searching)
=============================================================================
