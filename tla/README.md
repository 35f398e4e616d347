# A TLA+ model of nab

nab resolves Python requirements into a universal lock file. This directory
holds TLA+ modules that model its solver, the shortcuts around the solver, its
fetch layer, its cache of listings and the clients of the index, the TLC runs
that check them on small instances, and proofs checked by TLAPS that hold for
every instance. `PROJECT.json` lists every run, the lines of the source each
definition stands for, the hazards of the code and the theorems.

Where it stands: every safety property the passing runs check is also a theorem,
for every value of the constants that its assumptions admit (section 5).
Liveness is checked by TLC alone.  Five runs show where the code does not do what
it, or its documentation, says (section 6).  Marker sets, the engine over targets, the
writing of lock files and the configuration ladder are inventoried and not
modelled (section 7).

## 1. The system

| Component | State | Operations | Talks to |
|---|---|---|---|
| Solver loop (`nab_resolver/resolver.py`, `propagate.py`, `conflict.py`, `decide.py`, `incompat_index.py`) | clauses with contradiction stamps, propagation queue, recorded dependencies, conflict and culprit counts, pending targets, restart budget | rounds of unit propagation, conflict resolution, backjump, targeted backtrack, restart, decision, recording of clauses | asks the provider for versions, dependencies, clauses, backtrack targets |
| Partial solution (`partial_solution.py`) | assignments in order, decision level, epoch, per-package ranges | derive, decide, backtrack, find a satisfier | owned by the solver |
| Decision queue (`decision_queue.py`) | lazy heap of undecided packages | refresh, pop, compact | owned by the solver |
| Preferred trial (`resolver.py` 865-1054) | a model grown from a previous lock | grow, recheck, accept or give up | runs before the solver on its own resolver |
| Provider (`nab_provider/provider.py`, `_provider/`) | listings, candidate views, pending look-ahead blocks, backtrack targets | prioritise, choose_version, get_dependencies, scan ahead | solver above, coordinator below |
| Metadata ladder (`_provider/metadata_resolver.py`) | metadata per candidate | sidecar, range read, sdist, build | coordinator |
| Yanked resolution (`yanked_resolution.py`, `yank_candidates.py`) | permission and metadata proxies | wraps the provider and solves again | solver, provider |
| Fetch coordinator (`nab_project/fetch.py`) | worker thread, event loop, queue, semaphore, crash flag | enter, request, batch, refuse, dispatch, fetch, record failure, prefetch, shut down | resolving threads by events, index clients by await |
| In-memory index (`nab_provider/store.py`) | answers, errors, marks, pending events under one lock | claim a request, publish an answer | shared by the resolving threads and the loop |
| Index clients (`nab_index/cached_client.py`, `multi_index.py`, `lazy_wheel.py`, `local_index.py`) | route cache, range capability per host, background policy writes | listing, metadata, range read, archive, revalidation | transports, disk cache |
| Disk cache (`cache.py`, `atomic.py`) | body, policy, parsed blob, metadata files | staged write and replace, read with digest | other processes through the file system |
| Resolve engine (`nab_project/resolve.py`, `_resolve/engine.py`) | one resolution per target and fork | split, resolve, merge | provider and solver per target |
| Lock file (`_lockfile/`, `lockfile.py`, `lock_check.py`) | document under construction, saved lock | build, validate, check for staleness | resolve engine, CLI |
| Downloads, builds, sources (`download.py`, `_build/`, `_sources.py`) | files, subprocesses | verify and write, build in isolation | coordinator |
| Marker sets (`nab_markersets`) | interned marker expressions | union, intersection, complement, disjointness | lock file, targets |
| CLI and configuration (`src/nab`) | layered settings | parse, merge, run, print | everything |

What is hard here:

* The solver is sequential, and its difficulty is in long sequences of steps: a
  clause stamped as contradicted must be reconsidered after the right events and
  no earlier, dependency clauses must survive backtracks, a backjump must land
  where the learned clause asserts something, and clauses a provider invents
  while scanning must be true long after the scan.
* The fetch layer is concurrent: resolving threads and the tasks of an event
  loop share one index.  A request must be fetched once, a waiter must always be
  woken, and it must find everything that belongs to the answer when it wakes.
* Disk cache and downloads meet crashes, cancellation and other processes.  A
  cached listing is four files that are replaced one by one, and every write may
  be refused.

What would make each component correct: the solver returns a solution when there
is one and fails only when there is none, and it ends; the index gives all
readers of a request one answer; the coordinator wakes every waiter; the cache
never serves a body under another body's policy; the lock check accepts only a
lock that a resolution could produce; the marker algebra agrees with evaluation.

## 2. The modules

| Module | Models | Correspondence |
|---|---|---|
| `Terms` | `types.py`, `report.py` | a range is a set of versions; a term is polarity and range; a clause is a map from packages to terms with its cause. `PriorCause` is `prior_cause`, `Disjoin` is `union_terms` |
| `Trail` | `partial_solution.py` | the sequence of assignments, each with the cumulative positive and negative range it leaves its package; `Derivation`, `Decision`, `Backtrack`, `Satisfier` |
| `Problem` | `root.py`, `decide.py`, `_provider/lookahead.py` and the provider calls of `provider.py` | a problem record, what is a solution of it, the clauses the resolver writes, and every answer a provider may give (`Answers`, `ParentRanges`) |
| `PubGrub` | `resolver.py`, `propagate.py`, `conflict.py`, `decide.py`, `incompat_index.py` | one action per turn of a loop: `Settle`, `PassOver`, `Derive`, `FindConflict`, `ResolveStep`, `Backjump`, `PruneCulprits`, `Restart`, `Choose`, `Absorb`, `ForceBacktrack`, `RecordNoVersions`, `Decide`, `Record` |
| `Resolution` | the contract of `Resolver.solve` | the abstract specification: one step to a minimal solution, to a justified failure, or to the round limit |
| `PreferredTrial` | `try_resolve_preferred` in `resolver.py` | a fresh solver grows one model out of the pins of an earlier lock without going back; one action per turn of its loop, over the trail of `Trail` and the provider of `Problem` |
| `DecisionQueue` | `decision_queue.py`, the scan of `provider.py`, `_provider/priority.py` | the lazy heap with its keys, epochs and compactions; a scan is walked package by package while listings land on another thread |
| `Coordinator` | `fetch.py` and the pending events of `store.py` | one action per step another thread can see: claim, hand-over to the loop, completion, mark, publish. Workers are numbered by run |
| `ListingCache` | `cached_client.py` and `cache.py` for one package at one index | `body`, `policy`, `blob` and `neg` are the files; `pc` is where a process stands in `get_files`, `pol` and `got` its local `policy` and records, `writing` the write `_refresh_simple_policy` left to a thread. One action per file operation, answer of the index or point of cancellation |
| `Freshness` | the arithmetic of a stored policy in `cached_client.py` and `cache.py` | what window a response opens, from its Cache-Control, Expires, Date and Age, read by a clock that may be wrong and may be set |
| `MultiIndex` | `multi_index.py` | pins, routes, walks over the configured order, the route later requests follow, closing; an action runs from one await to the next |
| `RangeReads` | `lazy_wheel.py` | the memo of a host and its single probe, every acquisition and step-down, growth of the window, the member read, the last plain GET, digests |
| `Download` | `download.py` | the tasks of one download, places, skips, failures, the cancellation of the rest, the closing of the client |
| `MetadataLadder` | `_provider/metadata_resolver.py`, `get_dependencies` of `provider.py`, the slots of `store.py` | each target goes down its ladder over files that all of them share; an action runs from one wait to the next |
| `YankedResolution` | `yanked_resolution.py`, `yank_candidates.py` over `preference.py` | permissions, nested queries, proofs and refutations, over a solver that is what `Resolution` promises |
| `LockCheck` | `_lock.py`, `lock_validation.py`, `lock_check.py` | a lock is made while its project may be edited, and checked later against its fingerprints and slice by slice |

`PubGrub` and `PreferredTrial` extend `Problem`, which extends `Trail`, which
extends `Terms`.  `PubGrub` instantiates `Resolution` with a mapping of its
variables (`Promise`), and is shown to implement it.  The other modules stand
alone; each takes what it needs of a neighbour as an assumption that the
neighbour is shown to keep.  `MultiIndex` lets the calls for one package follow
one another, which is `Coordinator`'s `SingleFlight`; `YankedResolution` has a
solver that answers as `Resolution` does.

The modules for TLC: `MCPubGrub` with `Problems`, `MCFetch`, `MCNetwork`
(`RangeReads`, `Freshness`, `MultiIndex`, `Download`), `MCMetadata`
(`MetadataLadder`, `YankedResolution`), `MCShortcuts` (`PreferredTrial`,
`DecisionQueue`, `LockCheck`) and `MCLockCheck`, the last two with `LockInputs`.
Where one of them holds several components it sets them side by side: a variable
`part`, chosen at the start, says which component this behaviour takes through
its steps, and the variables of the others keep a valid value.  In `MCFetch`,
`part` chooses one of four workloads of the one coordinator.

The proofs: `ProblemProofs` (algebra of terms, the trail, what a provider may
answer), `PubGrubProofs` and `SearchProofs` (the solver),
`ListingCacheProofs`, `CoordinatorProofs`, `NetworkProofs` (`RangeReads`,
`Freshness`, `MultiIndex`, `Download`), `MetadataProofs` (`MetadataLadder`,
`YankedResolution`), `ShortcutProofs` (`DecisionQueue`, `PreferredTrial`,
`LockCheck`).

Choices of abstraction that matter to a reader:

* A range is a set of points.  Ranges finer than the version set
  (pre-release or local-version refinements, `absorb_redundant_requirement` in
  `decide.py`) therefore never differ from it, and that function never fires.
* In `PubGrub` the order in which packages and versions are tried is the
  provider's business and is left open; `DecisionQueue` is about that order
  alone.  Statistics that nothing reads are left out.
* `partial_solution.py` keeps per-package dictionaries beside the assignment
  list.  The model computes them from the list, so dictionaries that lag behind
  it cannot be expressed.
* In `Problem` every candidate's metadata can be read, and look-ahead checks
  every candidate against the decisions of the moment.  The code also rejects a
  candidate whose metadata raises `MetadataError` (`lookahead.py:104`), as if it
  were not published, and after enough rejections looks at the roots'
  requirements only (`_BROAD_LA_REJECT_CAP`, `provider.py:2016`).  Neither
  adds a clause that the model does not know: a candidate so let through is
  offered like one of a provider that does not look ahead (`core`).
* In `Coordinator`, a request is a kind and a package.  Whether the cache can
  answer inline is chosen at the start (`warm`), and whether the worker starts
  on demand is a choice of each entry; the gates that decline a fresh listing
  are a free choice.  Tasks posted with `call_soon_threadsafe` and the queue are
  one sequence per worker.  `request_source_listing` and
  `request_built_metadata` run on the caller and are left out.
* In `ListingCache` a listing is a number, which stands for its bytes, its
  sha256 and its ETag; the index publishes a higher number each time.  Records
  are a listing and the page their URLs were resolved against.  Time is not
  counted: a read may find an entry fresh or stale, which covers `max_age`, the
  floor and the offline flag (`Freshness` has the arithmetic).  A staged replace
  is one step (`atomic.py`), a refused one changes nothing.  At most four
  background policy writes go on at a time for all packages together, and
  further ones run inline; for one package the background write followed at once
  by its wait is the inline one.
* In `RangeReads` a wheel is its length in windows, the share of its end that the
  zip directory takes, and whether its bytes are those the index hashed.  The
  host may answer anything at any time.  `RangeCapability` calls itself
  monotonic; readers that were in flight together may still overwrite one
  another's verdict, and the model lets them: `ReadsSound` asks only that a
  verdict that puts a host down has its cause.
* In `Download`, two names that differ only in case are one file.
* `MetadataLadder` interleaves targets at their waits, although the engine
  resolves one after another: what one target leaves in the shared slots is then
  seen by the others at every point.  Yanked files and text that a host stores
  for a whole version are left out; an answer that was prefetched is taken as it
  is, without the comparison of tied wheels, as in the code.  A read ends in one
  of four ways: text; nothing; an error that the guard around the parse lets
  through (`failed`: an index that cannot serve what it advertised, a sidecar or
  an sdist that fails its hash); or a wheel's whole body that fails its hash
  (`corrupt`), which the guard does not know.  A build that fails is one that
  brings nothing; one whose archive cannot be fetched again is left out.
* `YankedResolution` leaves out the proxies of extras, missing listings, the
  explanation of a failure and the adoption of statistics.
* `LockCheck` refuses a lock when anything it rests on was edited while it was
  made.  The second snapshot of the code reads the files of the project again but
  takes the inputs and the configuration in hand (`_lock.py:933`), so it does not
  see an edit of constraints or policies alone: the lock is then saved with the
  inputs it was resolved from, and is stale for the edited ones like any lock
  made before the edit, which the model has too.
* `LockCheck` does not follow an edit that is undone while the lock is made: both
  snapshots are then equal, and so is the project.  A member of the workspace
  that is left out of a lock may still be needed, so what an accepted lock is
  measured against (`AcceptedMeans`) is its pins with the local projects as they
  are and some of the members left out.  A refusal is measured with all of them
  in place (`UnmetMeans`), as the walk takes them: it may therefore refuse bounds
  that only a member nobody asks for fails to meet.

## 3. The runs

| Run | Question | Bounds |
|---|---|---|
| `core` | Does the solver, with a plain provider, keep its clauses true, its stamps current, its trail well formed, its requirements in force, and return what `Resolution` allows? | 54 problems over 3 packages and 3 versions, 12 rounds, one restart, one targeted backtrack |
| `lookahead` | Does that stay so when the provider rejects candidates in advance, widens decided versions and forces backtracks, and does every resolution end? | 7 problems, 16 rounds |
| `fetch` | Do threads that share a coordinator fetch once, read complete and stable answers, and always wake? | 2 packages, 5 kinds of request, 2 callers, 2 runs, 2 fetches at a time; four workloads |
| `restart` | Does every waiter wake across a re-entry? | 2 runs, 1 thread: **violated**, section 6 |
| `cache` | Do refused writes, crashes and cancelled waits ever make the cache take one listing for another, hide a listing behind an old 404, or keep a read from ending? | 1 process, 3 listings one of which has no file nab reads, 2 pages, 2 faults |
| `moved_page` | Is a blob only ever served under the page it was parsed from? | 1 process: **violated**, section 6 |
| `two_writers` | Can a 304 confirm a listing older than the one the index holds current? | 2 processes, no faults: **violated**, section 6 |
| `network` | Are calls routed to the index that has the package; is what is learned of a host, and what is read from it, sound; is a listing used only within its window; does a download write only whole verified files, and does everything end? | 2 readers with 2 reads each; times up to 3 and one setting of the clock; 2 indexes under 3 names, 2 walkers, 4 calls; locks of 3 entries over 2 or 3 files, 2 places |
| `metadata` | Does each of two targets get the dependencies it would get alone; is a yanked release selected only where it may be; is nothing refused that has a solution? | 2 targets that ask twice each over 5 files of one release; 5 shapes of yanked worlds over 3 packages |
| `shortcuts` | Do the trial of an earlier lock, the lazy heap and the check of a lock say what the long way would? | trial of 4 rounds over the core problems; 3 packages one of which is an extras proxy, 2 moves; 2 edits |
| `corrupt_lender` | Does a wheel whose body fails its published hash always fail the resolve? | as `metadata`: **violated**, section 6 |
| `stale_lock` | Does an accepted lock still fit its project when a published release depends on a local one? | 2 edits: **violated**, section 6 |

The thresholds of the code (restart after many conflicts, culprits after
several, at most so many targeted backtracks, compaction of the heap) are
constants of the model and are set to 1 or 2, so that every branch is taken
within a few conflicts; the proofs hold for every value.  Three packages are
what a conflict with two culprits and a forced resolution step needs; three
versions let a range shrink twice and leave room for unreleased points.  The
problems are chosen by the shapes that matter: conflicts from two sides, long
chains of conflicts (`HardProblem`), dependency clauses that merge, requirements
of a package on itself, requirements no version meets, unreleased versions, user
constraints, unsatisfiable roots.  `MaxIterations` bounds `rounds` exactly as it
does in the code (`ReachLimit`).

In `Coordinator` the bound is `MaxRuns`, the number of workers ever started;
`Retired` says that nothing more happens then.  The four workloads of `MCFetch`
are all that leads to a listing by two callers (`one`), a batch next to other
requests (`batch`), and two runs over one index (`listed`, `built`).  In
`ListingCache` the bounds are `MaxListing` and `MaxFaults`: one fault leaves the
files out of step, the second strikes the repair; a third listing lets two of
them be out of step with what the index holds.  In `MCNetwork` two readers are
what a probe and its waiter need, and two reads let one use what another learned;
one setting of the clock is enough to go back behind a window; three names of two
indexes let a name be an alias; three entries let one fail while one is written
and one still waits for its place.  In `LockCheck` two edits are one while the
lock is made and one before it is checked, or both between the two.

Deadlock is checked in every passing run and in every violated one but
`restart`, which turns it off since its question is about fairness alone.

**Fairness.**  The solver is one thread, so weak fairness of `Next` says only
that it keeps running.  The coordinator has weak fairness of each thread's own
next step and of each worker's loop: threads are scheduled, and a fetch ends,
because transports time out.  Nothing makes a caller ask, wait or leave.
`MCFetch` states it for the workloads of one run only, since a second run may
lose what a caller waits for (section 6).  `ListingCache` has weak fairness of
each process's `Step`: what it does by itself once a read has begun, its
background write and the end of its request included.  Nothing makes a process
start a read, die, or be cancelled, and nothing makes the index publish.
`RangeReads` has weak fairness of each reader's step, `Download` of the progress
of its tasks, for the same reason as the coordinator.  `MetadataLadder` has it of
each target's turn and of some prefetch landing; `YankedResolution`, one thread,
of its search.  `MultiIndex`, `Freshness`, `DecisionQueue`, `PreferredTrial` and
`LockCheck` are checked for safety alone and state none.

**Properties worth naming.**

* `ClausesSound`: no clause held, learned or queued excludes a real solution.
* `KeepsPromise`: the solver implements `Resolution`.
* `StampsCurrent`, `NoConflictMissed`, `RequirementsDerived`,
  `DependenciesKnown`: propagation may skip a stamped clause.  Full closure under
  unit propagation does *not* hold when a decision is due (section 4).  These
  say what does hold, and is enough for `KeepsPromise`.
* `ResolutionMovesBack`, `BackjumpAsserts`: why conflict handling ends.
* `SingleFlight`, `WokenInformed`, `AnswerStands`, `WaitersWake`: a request is
  worked on in one place, a waiter that wakes finds all that qualifies its
  answer, the answer is never replaced, and every waiter wakes.
* `NotModifiedConfirms`: the listing served after a 304 is the one whose ETag was
  confirmed.  It holds for one process, whatever fails, since the policy is
  written after the body and no blob without a body (`put_simple`); with a crash
  in between the policy's older ETag makes the index send the listing again.
  With two writers it fails (section 6).
* `EntryCoherent` needs that nothing failed: after a crash body and policy may
  differ until the next full answer, and the code lives with that.
* `AbsenceIsCurrent` is about a sentinel that outlives the 404 it records.  It
  does not count a listing whose `drop_negative` was itself refused.
* `RoutesHold`: what belongs to a package is asked of the index its files came
  from, and a pinned package of no other index than its pin.
* `ReadsSound`: one probe per host at a time, which its waiters outlive; a host
  put down as useless for ranges only for cause; no metadata from a body that
  fails its digest.
* `WindowsHold`: what is used unasked is within the window its last response
  stated, but for what the clock was set back since.
* `DownloadSound`: a file is whole and verified or what was there before; success
  means all of the lock; the client outlives its tasks.
* `LadderSound`: what a target gets from slots it shares is what it would get
  alone.  That is what the code gives a target alone, the failed hash of a wheel
  it borrows from passed over included; `CorruptEndsResolve` says that none is,
  and fails (section 6).  `LastResort`, `RefusalsHold`: a yanked release only where a pin permits
  it and nothing live would do; no refusal of what has a solution.
* `TrialSound`: an accepted trial is a solution with nothing unneeded, departs
  from the lock only where it must, and rests on candidates the provider stands
  by.  `QueueSound`: the lazy heap picks what a scan of every undecided package
  would.  `VerdictHolds`: a lock the check accepts fits its project and one it
  refuses for an unmet bound does not; the former where no published release
  depends on a local one, as in the run and by hypothesis in the proof.

Every property of a passing run has a mutant in `PROJECT.json`: a plausible bug
in one definition under which TLC finds the property violated.

## 4. What the model showed about the solver

* The branch of `conflict_resolution` for a backjump to level 0 or below, and
  the exhaustion of its step budget, are unreachable (`TargetForm` proves the
  first, `ResolutionMovesBack` the second).
* A package's range becomes empty only by a requirement with an empty range on a
  package not yet assigned, and the conflict is then found before any decision,
  so `choose_version` never sees an empty range (`CandidatesLeft`).
* `recompute_previous_level`'s partial satisfier lowers no jump so far that the
  learned clause would fail to assert (`BackjumpAsserts`).
* After a backjump only the packages of the learned clause are revisited; an
  older clause that became unit waits until one of its packages is touched.  The
  trail is therefore not closed under unit propagation when a decision is due,
  and a clause may be learned twice (seen in simulation over 4 packages and 3
  versions), so "each conflict teaches something new" is not a property of this
  solver.  What does hold is that requirements of decided versions are in force
  (`RequirementsDerived`); and it ends because every jump asserts something and
  restarts and targeted backtracks are bounded (`Termination` in `lookahead`).
* The last check of a trial's model against every clause is a second line of
  defence: `TrialSound` is proved without it.

## 5. What is proved

The proofs use the assumptions stated with the constants and no others but
those named below.  Nothing bounds packages, versions, problems, rounds,
threads, runs, listings, faults, files, indexes, times or moves.

**The solver** (`PubGrub`; packages differ from `ROOT` and are finite, versions
are integers and finite, problems are well typed, thresholds are natural
numbers).  The inductive invariant is built in three layers.

`IInv` in `PubGrubProofs`:

* `TypeOK`;
* the trail is well formed: levels are ordered, the root decision is first,
  what it allows of a package only narrows, and every derivation is justified by
  its cause, whose other terms were satisfied before it;
* every clause in the formula, in the trail, in the backlog and under resolution
  is a fact of the problem (and mentions packages in the way that resolution
  needs);
* under resolution, every term of the conflict has a satisfier;
* a package emptied by the latest derivation is still queued or under
  conflict, and nothing was decided after it;
* the answer being carried out came from `Answers`;
* a stamp of the current epoch belongs to a clause the trail contradicts.

None of `ClausesSound`, `FailureIsReal` and `ConflictSatisfied` is inductive by
itself: a learned clause is a fact because both causes are, it can be computed
because each term has a satisfier, and that rests on the justification of each
derivation and on narrowing.  Failure is real because a fact over `ROOT` alone
excludes every selection.

`TrailInv` in `SearchProofs` says how the trail was built: up to any entry it has
as many decisions as the entry's level says, a decision is the last word on its
package, each derivation leaves exactly what its cause implies, and what is being
decided is undecided.  It gives
`TrailShape`; with `IInv` it gives the two action properties of conflict
resolution.  `BackjumpAsserts` needs that the target computed from the previous
satisfier leaves every other term of the clause satisfied and the last one open;
`ResolutionMovesBack` that every term of the resolvent was satisfied strictly
before the satisfier that was resolved away, whatever terms drop out or widen.

`SearchInv` says what the decisions ask for and who sees to it:

* the clauses of the roots are in the formula, and what a recorded version
  requires is stated there or in the backlog, however clauses were merged; every
  decided version is recorded (`FormulaInv`);
* what a decision asks for by a clause is answered at the level of that decision,
  or propagation has yet to come to that clause, or a conflict is under way
  (`Followed`);
* a clause the decisions alone violate is violated by the latest of them and
  propagation has yet to come to it (`ViolationAwaited`).

This is what holds in place of closure under unit propagation (section 4), and it
survives each jump because it speaks of every level of the trail at once.
`DependenciesKnown`, `RequirementsDerived` and `NoConflictMissed` follow from it.
So does the refinement: `ResolutionPromised` shows that the initial states of the
solver map to an initial state of `Resolution` and each of its steps to a step or
a stutter.  The step to "solved" needs that the decisions form a solution
(`SearchInv`: requirements in force, no clause violated), and that cutting a
solution down to what the roots reach, as `builder.py` does, leaves a solution
with nothing unneeded (`ReachableSolves`); the step to "failed" is
`FailureIsReal`.

`ProblemProofs` has the algebra of terms (`PriorCauseSound`: the resolvent of two
facts is a fact), shows that deriving, deciding and cutting keep the trail well
formed, and that everything a provider may answer is a fact
(`AnswersOK`, `NoVersionsGood`); the head of `PubGrubProofs` the facts about
satisfiers and jumps.

**The trial of an earlier lock** (`PreferredTrial`; `TrialAssumption`: finitely
many packages, at least one round, preferences that name versions).  `TrialInv`:
packages queue once each, and every one looked at has its pin; a pin was released
and met what was asked when it was settled (`PinsFit`); what is required takes in
the roots and every pin (`RequirementsFolded`) and nothing they do not lead to
(`NothingSpare`, stated over every closed set, so that no induction is needed);
a pin departs from the lock only where the requirements do (`LockKept`); and the
trail allows what is required of a package still to come (`TrailFollows`, which is
why no pin is outside its range).  A pin is settled for the requirements of its
time, and later pins may narrow them; accepted means that nothing is left
narrowed, so every pin was chosen again for the requirements as they ended.

**The decision queue** (`DecisionQueue`; `QueueAssumption`: keys are ordered
below the bounds the code gives them).  `QueueInv` distinguishes a queue at rest
from one in a scan.  At rest, a key not known to have moved is right or waits for
a listing (`AtRest`); in a scan, what was walked is right for what is filtered
now, what need not be rated is right already, and a package rated as waiting
keeps waiting until the scan is over, though its listing may have landed
(`InWalk`, `Withheld`).  `EntriesThere` says every live key has its heap entry,
through supersession and compaction.

**The coordinator** (`Coordinator`, for any threads, packages and number of runs;
assumes `MaxConcurrency \in Nat`).  `IInv` in `CoordinatorProofs`: a request that
is under way is in exactly one place, in the hands of one thread, in one queue or
in one task (`OnePlace`), and what a client carries fits where it stands
(`Carrying`).  `SingleFlight` says less than `OnePlace` and is not inductive.
`AnswerStands` follows since whoever publishes holds the request.

**The cache of listings** (`ListingCache`, for one process, `Process = {p}`, that
uses it as often as it likes).  The invariant, `IInv` in `ListingCacheProofs`, is
an order on listings.  What a policy claims, on disk or in hand, its ETag and its
digest, is never newer than the body beside it, and its ETag is not newer than its
digest; what a blob holds is never older than the digest it carries; nothing is
newer than the index.  `NotModifiedConfirms` is not inductive, since it says
nothing before the 304 is in; but when the index confirms the newest ETag, the
order squeezes the body, the digest and a blob that binds to that listing, and
they stay so until the records are in hand.  An interrupted `put_simple` leaves a
newer body under an older policy, which the order admits.  `AbsenceCurrent` adds
what a sentinel on disk or about to be written may be older than;
`EntriesCoherent` adds, while nothing was refused and nobody died, at which steps
of a write body and policy may differ.  With two processes the order breaks,
which is the finding of `two_writers`.

**The clients of the index** (`NetworkProofs`).

* `RangeReads`: a reader whose lead says a host serves no ranges has had cause
  (`LeadsForCause`), and past the acquisition a whole body has been verified
  (`Verified`).
* `Freshness`, under `ConstantsOK` (the constants have their types, and the
  default age does not exceed the ceiling): a stored policy counts from when its
  response was made, by the clock that read it, and opens no longer window than
  was stated (`Faithful`).
* `MultiIndex`, under `RoutingAssumption` (what `__init__` refuses otherwise):
  a call goes the way its package was routed when it began (`CallsFollow`), which
  holds since a package has one call at a time (`OneCallEach`), and what was
  served last came by the route (`ServedByRoute`).
* `Download`, under `DownloadAssumption` (a URL stands for one file and one
  content): the tasks are those of the first artefact for each file (`Manned`), so
  what one wrote no other overwrites (`Delivered`); the client is closed only when
  every task is done (`DoneFirst`).

**The metadata ladder** (`MetadataLadder`, for any targets, policies, files,
faults and number of queries; `LadderAssumption`: a release is a finite list of
well-typed files, numbered from 1).  `LadderSound` compares an answer with what
`Alone` computes from the release and the target's policy, without any shared
slot.  `LadderInv` keeps what the slots have to do with that: a read brings what
the file serves (`ReadsServed`), what is kept of an sdist is what its own
`pyproject.toml` says (`StaticKept`), and a target that waits stands where `Alone`
stands (`Standing`): before the picked wheel, before the sdist once that wheel is
gone, before a lender once the wheels preferred to it are known to be absent.
`AnsweredAlone` needs all three, since each answer is worked out of slots another
target may have filled, under another policy.  `Alone` follows the code where it
treats one fault in two ways: a wheel whose body fails its hash ends the resolve
when the target picked it, and costs it the version when it borrowed from it.  The
theorem says that sharing does not change which, not that it should be so.

**Yanked releases** (`YankedResolution`; `WorldAssumption`: finitely many
candidates, metadata that was read, rejected or unavailable).  `Solvable` asks for
a set of candidates that is well founded in the permissions it needs; the search
goes by what it has read so far.  `SearchInv` ties the two together: what was read
is true (`FactsRead`); the stack begins with what the user asked, and a query about
one package cannot lose it, however the rest is chosen (`ScopesRight`); metadata
was used only of candidates established by what was selected, and of a yanked one
only where the live query has no solution (`DecisionRight`); and a blocked context
is part of no solution, as long as nothing was left unread (`BlocksRight`).
`RefusalsHold` and `LastResort` follow from each other's steps, so they are
conjuncts of one invariant: a yanked release is taken because a nested query was
refused, and a nested query is refused because its own yanked releases were taken
only where they had to be.  Least fixpoints (`Ground`, `Parents`) are described by
the sets closed under a step, and grow with what they are taken from
(`GroundGrows`, `ParentsGrow`, `NeededLeast`).

**The check of a lock** (`LockCheck`; `DeclarationAssumption`: the members left
out of a lock are local, since `model.py` merges the members of a workspace into
the local sources; versions and names are among those given).  `LockInv`: a saved
lock holds what a resolve of the inputs it carries gave, members left out
(`LockRight`).  In a walk, some set of requirements was met, and all it leads to
was met or waits (`Followed`), so a walk that is over has found what `Meets` asks
for; and nothing waits that any way to meet the inputs could do without
(`NothingMore`), so a bound that fails is one no way can meet.
`RefusedIsUnmet` needs no more.  `CheckTellsTheTruth` has a hypothesis besides,
`NoneBack`: no published release asks for a project that is local where it is
installed.  It is not an assumption of the model, because the code does not
secure it and `stale_lock` shows what happens without it.  `LockInv` needs it
where the walk passes over the requirements of a published release: those were
met by the versions that were pinned, which only a local project can have left.

**Only model-checked.**  Liveness, which is outside the prover's reach:
`Termination`, `WaitersWake`, `ReadsEnd`, `CallsEnd`, `QueriesEnd`.  No safety
property of a passing run is among them.

Induction over data is avoided throughout: least sets and minima are described by
their defining property (`Reachable`, `Satisfier`), and orders of a set as
sequences in which each member has one place (`Orders`).

## 6. Findings

`restart` shows a lost wake-up.  A listing fetch that is still running when the
loop has read the shutdown sentinel finishes, stores its listing and asks for
the newest version's metadata (`fetch.py:1391`).  The loop is still open, so
`_submit` hands the request to a queue (`fetch.py:630`) that nobody reads any
more.  Its event stays pending in the index, which outlives the run.  In a
second run of the same coordinator, a use that
`nab-project/tests/test_fetch.py:629` tests, a request for that metadata joins
the dead event and waits for ever, against `_submit`'s docstring: "Requests the
loop cannot take are recorded as failures so their waiters unblock instead of
hanging."  The same schedule, driven against the code with a transport that
delays the listing until after shutdown began, hangs.

Within one run the property holds (`WaitersWake` in `fetch`): callers leave before the
sentinel is sent.

`moved_page` shows a blob served with the URLs of a page it no longer belongs
to.  A blob is bound to its policy by the sha256 of the body alone.  When the
same body is stored under another page, either by a 200 from there or by the
digest that `_rebuild_parsed` stamps after a 304 from there retired the blob,
the policy carries the old digest again before the new blob is written; if that
write is refused (`cached_client.py:614`) or the process dies first, the old blob
binds again.  Later reads serve it, against "A revalidation that lands on a
different page retires the blob too" (`docs/reference/cache.md:99`).

`two_writers` shows what two processes sharing a cache root can do.  `put_simple`
replaces body and policy by two renames (`cache.py:374`, `377`).  One process
stores listing 1 while the other stores listing 2: the bodies land in the order
2, 1 and the policies in the order 1, 2.  Listing 1 then lies under the ETag of
listing 2.  No blob binds, so the next 304 is answered from the body
(`cached_client.py:758`), and the older listing is served as confirmed until the
index publishes a third.  The docstring of `refresh_simple_policy` takes for
granted that after a 304 "the cached body is still valid" (`cache.py:386`).
Both schedules were also driven against the code and gave these results.

`corrupt_lender` shows a failed hash that costs a version instead of the
resolve.  Under `assume-universal-deps`, the dependencies of an sdist may be
borrowed from a wheel of the release.  That wheel is read while the sdist's text
is parsed, inside `_parse_and_cache_metadata_guarded`, and when it has no sidecar
and its whole body fails its published hash, `WheelHashMismatchError` comes up
there.  The guard's list of hard errors (`provider.py:3131`) has the other two
hash mismatches and not this one, so it is recorded as metadata that cannot be
parsed, and the version is skipped.  `_read_range_metadata` says it re-raises "a
recorded metadata error (a malformed-UTF-8 blob, an unserveable wheel URL, a
full-body wheel failing its published hash) so the resolve fails"
(`metadata_resolver.py:337`), and the guard itself that a hash mismatch is "a hard
error, not a skip" (`provider.py:3140`).  A wheel the target picks is read outside
the guard, and there the resolve does fail.

`stale_lock` shows a lock accepted for a project it no longer fits.  The
selection fingerprint leaves the versions of local projects out
(`lock_validation.py:217`), so when only a local version changed, the check goes
by bounds.  It then follows the requirements of local projects alone
(`lock_check.py:242`): a locked published release whose own requirement excludes
the new local version is not looked at.  The pins of the lock and the current
inputs cannot be installed together, against "Exit `1` if the lock is missing or
cannot satisfy or verify the current inputs" (`docs/reference/cli.md:37`) and the
docstring "Validate current declarations against saved versions"
(`lock_check.py:208`).  Where no published release depends on a local project the
verdict is right (`VerdictHolds` in `shortcuts`).

## 7. Not modelled, and the plan

About a tenth of the implementation's lines are mapped to a definition.  Not
modelled:

* marker sets (`nab_markersets`): an algebra over environment markers, whose
  correctness is agreement with evaluation over finite domains;
* targets and wheel tags: tables and an order, pure data;
* the engine over targets (`_resolve/engine.py`) and the merging and writing of
  lock files (`_lockfile/`): sequential, large, and mostly data;
* configuration and command line: precedence of layers and presentation;
* builds, VCS sources, local indexes, transports: subprocesses and I/O, whose
  answers the modelled parts take as a free choice;
* diagnosis of failures: wording;
* the vendored `packaging`: third-party code.

Left out of parts that are modelled: metadata and sdist entries of the disk
cache, how a listing is filtered, which candidates look-ahead picks, the text of
failures, extras in the ladder and in yanked resolution.

Next, in this order:

1. The per-package maps of `partial_solution.py` as a refinement of `Trail`.
2. The marker algebra and the interval ranges as operators, checked against
   evaluation over bounded inputs.
3. The engine over targets and the merging of its lock entries; the precedence of
   configuration layers.
