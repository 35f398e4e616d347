--------------------------- MODULE MetadataLadder ---------------------------
(***************************************************************************)
(* Where the dependencies of one release come from, for several targets    *)
(* over one index (_provider/metadata_resolver.py, get_dependencies of     *)
(* provider.py, the slots of store.py).                                    *)
(*                                                                         *)
(* Each target picks a file by its own tags and goes down the ladder:      *)
(* what the index holds, a sidecar or a local wheel, a range read, the     *)
(* sdist.  Files are read once for all targets; picks, policies and        *)
(* verdicts are each target's own.  Files are numbered as listed.  An      *)
(* action runs from one wait to the next.  Yanked files are left out, and  *)
(* so is text that a host stores for a version rather than for a file.     *)
(***************************************************************************)
EXTENDS Naturals, FiniteSets, FiniteSetsExt

CONSTANTS
  Releases,    \* what a release may be: for each file its record
               \* [kind, serves, deps, foreign, says, python, project, built]
  Matrices,    \* what the targets may be: for each its
               \* [listing, rank, trust, assume, build, complete]
  Target,      \* the targets
  MaxAsks,     \* bound: how often each target asks
  NoFile       \* no file: 0

VARIABLES
  release,     \* the files of the release
  targets,     \* what each target admits and allows
  read,        \* per file: "unread", "asked", then what its one read brought
  resolved,    \* _resolved_sdist_metadata, per sdist: 0 when there is none
  at,          \* where each target's query stands
  want,        \* the file it waits for
  unreadable,  \* whether its local wheel could not be read
  queued,      \* pending_metadata_parses
  known,       \* what its caches keep: deps_cache or a failure
  answer,      \* what its last query got
  asks         \* how many it made

ASSUME LadderAssumption ==
  /\ NoFile = 0 /\ MaxAsks \in Nat
  /\ \A files \in Releases :
       /\ IsFiniteSet(DOMAIN files)
       /\ files \in [1..Cardinality(DOMAIN files) ->
                       [kind : {"sidecar", "bare", "local", "tar", "zip"},
                        serves : {"text", "absent", "failed", "corrupt"}, deps : Nat,
                        foreign : BOOLEAN, says : {"static", "old", "dynamic"},
                        python : SUBSET Target, project : {"none", "static", "bad"},
                        built : Nat]]
       /\ \A f \in DOMAIN files : files[f].serves = "corrupt" => files[f].kind = "bare"
  /\ \A files \in Releases, matrix \in Matrices :
       matrix \in [Target -> [listing : (SUBSET DOMAIN files) \ {{}},
                             rank : [DOMAIN files -> Nat], trust : BOOLEAN,
                             assume : BOOLEAN, build : BOOLEAN, complete : BOOLEAN]]

setting == <<release, targets>>
shared == <<read, resolved>>
ladder == <<setting, shared, at, want, unreadable, queued, known, answer, asks>>

File == DOMAIN release
Wheels(t) == {f \in targets[t].listing : release[f].kind \in {"sidecar", "bare", "local"}}
Sdists(t) == targets[t].listing \ Wheels(t)

\* What a query may get: dependencies; a version to skip; or an error that ends the
\* resolve, of which a divergence of tied wheels is told apart.
Deps(n) == [how |-> "deps", deps |-> n]
Skip == [how |-> "skip", deps |-> 0]
Abort == [how |-> "abort", deps |-> 0]
Diverged == [how |-> "diverged", deps |-> 0]
Nothing == [how |-> "none", deps |-> 0]

\* The dependencies a complete override gives, and those of a pyproject.toml.
Overridden == Deps(9)
Declared(s) == release[s].deps + 10

Answers == [how : {"deps", "skip", "abort", "diverged", "none"}, deps : Nat]

\* A wheel without a sidecar may come as a whole body that is not what was published.
Reads == {"unread", "asked", "text", "absent", "failed", "corrupt"}
Stages == {"idle", "prefetch", "wheel", "sdist", "borrow"}

LadderTypeOK ==
  /\ release \in Releases /\ targets \in Matrices
  /\ read \in [File -> Reads] /\ resolved \in [File -> Nat]
  /\ at \in [Target -> Stages] /\ want \in [Target -> File \cup {NoFile}]
  /\ unreadable \in [Target -> BOOLEAN] /\ queued \in [Target -> BOOLEAN]
  /\ known \in [Target -> Answers] /\ answer \in [Target -> Answers]
  /\ asks \in [Target -> 0..MaxAsks]

LadderInit ==
  /\ release \in Releases /\ targets \in Matrices
  /\ read = [f \in File |-> "unread"] /\ resolved = [f \in File |-> 0]
  /\ at = [t \in Target |-> "idle"] /\ want = [t \in Target |-> NoFile]
  /\ unreadable = [t \in Target |-> FALSE] /\ queued = [t \in Target |-> FALSE]
  /\ known = [t \in Target |-> Nothing] /\ answer = [t \in Target |-> Nothing]
  /\ asks = [t \in Target |-> 0]

\* find_sdist: the first gzip-tar, or else the first ZIP.
FindSdist(t) ==
  LET tars == {f \in Sdists(t) : release[f].kind = "tar"} IN
  IF tars # {} THEN Min(tars) ELSE IF Sdists(t) # {} THEN Min(Sdists(t)) ELSE NoFile

\* pick_dist: the best-ranked wheel, one with a sidecar among ties; or an sdist.
Pick(t) ==
  LET best == {f \in Wheels(t) : \A g \in Wheels(t) :
                                   targets[t].rank[f] <= targets[t].rank[g]}
      sidecars == {f \in best : release[f].kind = "sidecar"}
  IN IF Wheels(t) = {} THEN FindSdist(t)
     ELSE IF sidecars # {} THEN Min(sidecars) ELSE Min(best)

\* The first file of those whose metadata may be borrowed, sidecars before others.
FirstOf(fs) ==
  LET sidecars == {f \in fs : release[f].kind = "sidecar"} IN
  IF fs = {} THEN NoFile ELSE IF sidecars # {} THEN Min(sidecars) ELSE Min(fs)

\* get_or_create_pending: a read once asked for is never asked for again.
Request(t, f, stage) ==
  /\ at' = [at EXCEPT ![t] = stage] /\ want' = [want EXCEPT ![t] = f]
  /\ read' = IF read[f] = "unread" THEN [read EXCEPT ![f] = "asked"] ELSE read

\* Mutant: a read that brings nothing is not published.
LandSomething(f) ==
  /\ read[f] = "asked" /\ release[f].serves # "absent"
  /\ read' = [read EXCEPT ![f] = release[f].serves]
  /\ UNCHANGED <<setting, resolved, at, want, unreadable, queued, known, answer,
                 asks>>

\* The fetcher lands a read, with an error only where the index could not serve what
\* it advertised.
Land(f) ==
  /\ read[f] = "asked" /\ read' = [read EXCEPT ![f] = release[f].serves]
  /\ UNCHANGED <<setting, resolved, at, want, unreadable, queued, known, answer,
                 asks>>

-----------------------------------------------------------------------------
(* The end of a query. *)

Return(t, a) ==
  /\ at' = [at EXCEPT ![t] = "idle"] /\ want' = [want EXCEPT ![t] = NoFile]
  /\ answer' = [answer EXCEPT ![t] = a]

\* The failures _parse_and_cache_metadata_guarded records.
Record(t, a) == Return(t, a) /\ known' = [known EXCEPT ![t] = a]
Refuse(t) == Record(t, Skip) /\ UNCHANGED shared

\* check_sibling_metadata_divergence: only texts that are in the index already are
\* compared, and a local wheel's never is.
Tied(t, f) == {g \in Wheels(t) \ {f} : targets[t].rank[g] = targets[t].rank[f]}
Resident(f) == release[f].kind \in {"sidecar", "bare"} /\ read[f] = "text"
Compared(t, f) ==
  {g \in Tied(t, f) : ~release[g].foreign /\ t \in release[g].python}
Diverges(t) ==
  /\ Pick(t) \in Wheels(t) /\ Resident(Pick(t))
  /\ \E g \in Compared(t, Pick(t)) :
       Resident(g) /\ release[g].deps # release[Pick(t)].deps

\* cache_deps_from_metadata: what the text asks of Python is this target's own matter.
Judge(t, n, python) == IF t \in python THEN Deps(n) ELSE Skip

\* A divergence is found when the dependencies are in the cache already.
Finish(t, n, python) ==
  /\ known' = [known EXCEPT ![t] = Judge(t, n, python)]
  /\ Return(t, IF t \in python /\ Diverges(t) THEN Diverged ELSE Judge(t, n, python))
  /\ UNCHANGED read

\* build_remote_sdist: the build, or the one that is stored, judged for this target.
Build(t, s) ==
  IF release[s].built = 0 THEN Refuse(t)
  ELSE Finish(t, release[s].built, release[s].python) /\ UNCHANGED resolved

\* The end of resolve_dynamic_sdist, when there is nothing (more) to borrow from.
Unborrowed(t, s) == IF targets[t].build THEN Build(t, s) ELSE Refuse(t)

\* _assumed_wheel_dependencies, from the wheels of the release whatever their tags:
\* the sdist's own Python requirement stays.
Lenders(t) == {f \in File : release[f].kind \in {"sidecar", "bare", "local"}}
\* Mutant: what one target borrows is kept for all of them.
LendToAll(t, s, f) ==
  IF release[f].foreign THEN Refuse(t)
  ELSE /\ Finish(t, release[f].deps, release[s].python)
       /\ resolved' = [resolved EXCEPT ![s] = release[f].deps]

Lend(t, s, f) ==
  IF release[f].foreign THEN Refuse(t)
  ELSE Finish(t, release[f].deps, release[s].python) /\ UNCHANGED resolved
Borrow(t, s, rest) ==
  LET f == FirstOf(rest) IN
  IF f = NoFile THEN Unborrowed(t, s)
  ELSE IF read[f] = "text" THEN Lend(t, s, f)
  ELSE Request(t, f, "borrow") /\ UNCHANGED <<known, answer, resolved>>

\* resolve_dynamic_sdist.  What pyproject.toml says statically is kept for every
\* target; what was borrowed, or built, rests on a target's own policy.
Dynamic(t, s) ==
  CASE resolved[s] # 0 -> Finish(t, resolved[s], release[s].python) /\ UNCHANGED resolved
    [] resolved[s] = 0 /\ release[s].project = "static" ->
         /\ resolved' = [resolved EXCEPT ![s] = Declared(s)]
         /\ Finish(t, Declared(s), release[s].python)
    [] resolved[s] = 0 /\ release[s].project = "bad" -> Refuse(t)
    [] OTHER -> IF targets[t].assume THEN Borrow(t, s, Lenders(t)) ELSE Unborrowed(t, s)

\* _sdist_deps_need_dynamic: trust goes for an sdist too old to say (PEP 643), not for
\* one that says its dependencies are dynamic.
NeedsDynamic(t, s) ==
  release[s].says = "dynamic" \/ (release[s].says = "old" /\ ~targets[t].trust)

\* parse_and_cache_metadata of the text of file f.
Parse(t, f) ==
  IF release[f].foreign THEN Refuse(t)
  ELSE IF f \notin Wheels(t) /\ NeedsDynamic(t, f) THEN Dynamic(t, f)
  ELSE Finish(t, release[f].deps, release[f].python) /\ UNCHANGED resolved

\* The sdist rung, and _ladder_failure after it: an unreadable local wheel fails the
\* resolve, where nothing at all only drops the version.  Neither is recorded.
LadderFails(t, unread) ==
  /\ Return(t, IF unread THEN Abort ELSE Skip)
  /\ UNCHANGED <<known, shared>>
SdistRung(t, unread) ==
  IF FindSdist(t) = NoFile THEN LadderFails(t, unread)
  ELSE Request(t, FindSdist(t), "sdist") /\ UNCHANGED <<known, answer, resolved>>

-----------------------------------------------------------------------------
(* A query. *)

\* A prefetch asks for the pick's sidecar, and waits for it, without a query.
Prefetch(t) ==
  /\ at[t] = "idle" /\ known[t] = Nothing /\ ~queued[t] /\ asks[t] < MaxAsks
  /\ release[Pick(t)].kind = "sidecar" /\ ~targets[t].complete
  /\ Request(t, Pick(t), "prefetch")
  /\ UNCHANGED <<setting, resolved, unreadable, queued, known, answer, asks>>

PrefetchLands(t) ==
  /\ at[t] = "prefetch" /\ read[want[t]] \notin {"unread", "asked"}
  /\ queued' = [queued EXCEPT ![t] = read[want[t]] # "failed"]
  /\ at' = [at EXCEPT ![t] = "idle"] /\ want' = [want EXCEPT ![t] = NoFile]
  /\ UNCHANGED <<setting, shared, unreadable, known, answer, asks>>

\* A queued prefetch that parses is the answer, with no look at tied wheels; whatever
\* is wrong with it is found again by the query.
Prefetched(t) ==
  LET f == Pick(t) IN
  queued[t] /\ read[f] = "text" /\ ~release[f].foreign /\ t \in release[f].python

\* get_dependencies and the first rung: caches, a complete override, the index.
Ask(t) ==
  LET f == Pick(t) IN
  /\ at[t] = "idle" /\ asks[t] < MaxAsks /\ answer[t] \notin {Abort, Diverged}
  /\ asks' = [asks EXCEPT ![t] = @ + 1]
  /\ queued' = [queued EXCEPT ![t] = FALSE]
  /\ unreadable' = [unreadable EXCEPT ![t] = FALSE]
  /\ IF known[t] # Nothing
     THEN Return(t, known[t]) /\ UNCHANGED <<known, shared>>
     ELSE IF Prefetched(t)
     THEN Record(t, Deps(release[f].deps)) /\ UNCHANGED shared
     ELSE IF targets[t].complete
     THEN Record(t, Overridden) /\ UNCHANGED shared
     ELSE IF read[f] = "text" THEN Parse(t, f)
     ELSE IF f \in Wheels(t)
     THEN Request(t, f, "wheel") /\ UNCHANGED <<known, answer, resolved>>
     ELSE SdistRung(t, FALSE)
  /\ UNCHANGED setting

Landed(t, stage) == at[t] = stage /\ read[want[t]] \in {"text", "absent", "failed", "corrupt"}

\* Rungs 2 to 4: a sidecar, a local wheel or a range read.  A failure ends the resolve,
\* but for a local wheel whose sdist may still answer.
WheelRung(t) ==
  LET f == want[t] IN
  /\ Landed(t, "wheel")
  /\ IF read[f] = "text" THEN Parse(t, f) /\ UNCHANGED unreadable
     ELSE IF read[f] = "absent" THEN SdistRung(t, FALSE) /\ UNCHANGED unreadable
     ELSE IF release[f].kind = "local"
     THEN SdistRung(t, TRUE) /\ unreadable' = [unreadable EXCEPT ![t] = TRUE]
     ELSE Return(t, Abort) /\ UNCHANGED <<known, shared, unreadable>>
  /\ UNCHANGED <<setting, queued, asks>>

\* Rung 5.
SdistArrives(t) ==
  LET s == want[t] IN
  /\ Landed(t, "sdist")
  /\ CASE read[s] = "text" -> Parse(t, s)
       [] read[s] = "absent" -> LadderFails(t, unreadable[t])
       [] OTHER -> Return(t, Abort) /\ UNCHANGED <<known, shared>>
  /\ UNCHANGED <<setting, queued, asks, unreadable>>

\* A lender is read, on its own rungs; with nothing there the next one is asked.  It is
\* read within _parse_and_cache_metadata_guarded, whose hard errors are the index's
\* failure to serve and two of the three hash mismatches: that of a wheel's whole body
\* is taken for metadata that cannot be parsed.
LenderArrives(t) ==
  LET f == want[t]
      later == {g \in Lenders(t) :
                  IF release[f].kind = "sidecar" THEN release[g].kind # "sidecar" \/ g > f
                  ELSE release[g].kind # "sidecar" /\ g > f}
  IN /\ Landed(t, "borrow")
     /\ CASE read[f] = "text" -> Lend(t, FindSdist(t), f)
          [] read[f] = "absent" -> Borrow(t, FindSdist(t), later)
          [] read[f] = "corrupt" -> Refuse(t)
          [] OTHER -> Return(t, Abort) /\ UNCHANGED <<known, shared>>
     /\ UNCHANGED <<setting, queued, asks, unreadable>>

Turn(t) == PrefetchLands(t) \/ WheelRung(t) \/ SdistArrives(t) \/ LenderArrives(t)

LadderOver ==
  /\ \A t \in Target : at[t] = "idle"
       /\ (asks[t] = MaxAsks \/ answer[t] \in {Abort, Diverged})
  /\ UNCHANGED ladder

LadderNext ==
  \/ \E t \in Target : Prefetch(t) \/ Ask(t) \/ Turn(t)
  \/ \E f \in File : Land(f)
  \/ LadderOver

LadderSpec ==
  /\ LadderInit /\ [][LadderNext]_ladder
  /\ \A t \in Target : WF_ladder(Turn(t))
  /\ WF_ladder(\E f \in File : Land(f))

-----------------------------------------------------------------------------
(* The ladder, as if one target were alone with files that can be read at will. *)

Readable(f) == release[f].serves = "text"

\* The lenders that are reached: up to the first that does not come back empty.
Lent(t, s) ==
  LET order(f) == IF release[f].kind = "sidecar" THEN f ELSE f + Cardinality(File)
      full == {f \in Lenders(t) : release[f].serves # "absent"}
  IN IF full = {} THEN {} ELSE {CHOOSE f \in full : \A g \in full : order(f) <= order(g)}

FromSdist(t, s) ==
  IF release[s].foreign THEN Skip
  ELSE IF release[s].says = "static" \/ (targets[t].trust /\ release[s].says # "dynamic")
  THEN Judge(t, release[s].deps, release[s].python)
  ELSE IF release[s].project = "static" THEN Judge(t, Declared(s), release[s].python)
  ELSE IF release[s].project = "bad" THEN Skip
  ELSE IF targets[t].assume /\ Lent(t, s) # {}
  THEN LET f == CHOOSE f \in Lent(t, s) : TRUE IN
       IF release[f].serves = "failed" THEN Abort
       ELSE IF release[f].serves = "corrupt" \/ release[f].foreign THEN Skip
       ELSE Judge(t, release[f].deps, release[s].python)
  ELSE IF targets[t].build /\ release[s].built # 0
  THEN Judge(t, release[s].built, release[s].python)
  ELSE Skip

Alone(t) ==
  LET f == Pick(t)
      s == FindSdist(t)
      wheel == f \in Wheels(t)
      local == wheel /\ release[f].kind = "local"
  IN IF targets[t].complete THEN Overridden
     ELSE IF wheel /\ Readable(f)
     THEN IF release[f].foreign THEN Skip
          ELSE Judge(t, release[f].deps, release[f].python)
     ELSE IF wheel /\ ~local /\ release[f].serves \in {"failed", "corrupt"} THEN Abort
     ELSE IF s # NoFile /\ Readable(s) THEN FromSdist(t, s)
     ELSE IF s # NoFile /\ release[s].serves = "failed" THEN Abort
     ELSE IF local /\ release[f].serves = "failed" THEN Abort
     ELSE Skip

\* Whatever the targets share, and in whatever order they ask, each is answered as if
\* it were alone: no wheel by its sdist or by a sibling's text, no target by what
\* another's policy allowed, and no error passed over.  One error the code does not
\* take for one, with company or alone: CorruptEndsResolve is about it.
AnsweredAlone ==
  \A t \in Target : answer[t] \notin {Nothing, Diverged} => answer[t] = Alone(t)

\* A divergence is reported only of wheels that tie for the target and do disagree.
DivergenceIsReal ==
  \A t \in Target : answer[t] = Diverged =>
    \E g \in Wheels(t) : /\ targets[t].rank[g] = targets[t].rank[Pick(t)]
                         /\ t \in release[g].python /\ ~release[g].foreign
                         /\ release[g].deps # release[Pick(t)].deps

\* What the resolver says of the rung that reads a wheel over ranges: that a wheel whose
\* whole body fails its published hash fails the resolve, whoever reads it.  True of the
\* wheel that a target picks; one it borrows from only costs it the version.
CorruptEndsResolve ==
  [][\A t \in Target : at[t] # "idle" /\ read[want[t]] = "corrupt" /\ at'[t] = "idle"
       => answer'[t] = Abort]_ladder

\* The answers and the divergences sound, with the types.
LadderSound == LadderTypeOK /\ AnsweredAlone /\ DivergenceIsReal

\* Every query is answered.
Asking(t) == at[t] # "idle"
QueriesReturn == \A t \in Target : Asking(t) ~> ~Asking(t)
=============================================================================
