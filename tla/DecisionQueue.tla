---------------------------- MODULE DecisionQueue ----------------------------
(***************************************************************************)
(* Which package is decided next: the lazy heap of decision_queue.py, with *)
(* the provider behind its keys (begin_decision_scan, arrived_listing,     *)
(* is_ready of provider.py; compute_matching of _provider/priority.py).    *)
(*                                                                         *)
(* A scan walks the undecided packages and rates anew only those whose key *)
(* may have moved, while the fetcher's thread publishes listings.  A key   *)
(* is a pair of an order (value) and an identity (born, the push it came   *)
(* with), since superseded heap entries are told from live ones by         *)
(* identity.  An extras proxy ("p[x]") is rated by its base's listing.     *)
(***************************************************************************)
EXTENDS Integers, FiniteSets

CONSTANTS
  Decidable,       \* the packages of the resolution, proxies among them
  BaseOf,          \* the package whose listing each is rated by
  Matching,        \* Matching[base][range]: the records a range admits, 0..8
  Place,           \* the rest of the order, 0..9: proxies first, then tie-breaks
  RebuildMinimum,  \* _REBUILD_MINIMUM
  MaxMoves,        \* bound: moves of the solver in all
  FullRange,       \* the range of a package nothing is asked of
  Nobody           \* no package

VARIABLES
  landed,      \* the bases whose listing is in the index
  cached,      \* the bases in versions_cache
  inflight,    \* the bases this scan found in flight (_absent_listing_scan)
  settling,    \* DecisionOrder.STABLE: a scan waits for listings
  ranges, tier,  \* per package: its range and the tier its counts give it
  undecided,   \* the live set of the partial solution
  changed,     \* _changed: moved since the last scan
  epoch,       \* priority_epoch
  heap, keys, unready, seen, pushes, rebuildAt,  \* the queue; seen is its _epoch
  scan,        \* the scan under way: [at, stale, moved, probing, rating, matching]
  todo,        \* the packages it has not walked yet
  picked,      \* what the last scan returned
  moves        \* how many moves the solver made

queue == <<heap, keys, unready, seen, pushes, rebuildAt>>
listings == <<landed, cached, inflight>>
solver == <<settling, ranges, tier, undecided, changed, epoch, moves>>
deciding == <<listings, solver, queue, scan, todo, picked>>

Base == {BaseOf[p] : p \in Decidable}
Tier == 0..1
Span == UNION {DOMAIN Matching[b] : b \in Base}

ASSUME QueueAssumption ==
  /\ FullRange \in Span /\ Nobody \notin Decidable
  /\ \A b \in Base, r \in Span : Matching[b][r] \in 0..8
  /\ \A p \in Decidable : Place[p] \in 0..9

NoKey == [value |-> -1, born |-> -1]
Resting == [at |-> "rest", stale |-> {}, moved |-> {}, probing |-> FALSE,
            rating |-> Nobody, matching |-> 0]
\* _NO_LISTING_PRIOR
NoListingPrior == 9

QueueTypeOK ==
  /\ landed \subseteq Base /\ cached \subseteq landed /\ inflight \subseteq Base
  /\ ranges \in [Decidable -> Span] /\ tier \in [Decidable -> Tier]
  /\ undecided \subseteq Decidable /\ changed \subseteq Decidable
  /\ unready \subseteq Decidable /\ todo \subseteq undecided
  /\ picked \in Decidable \cup {Nobody} /\ seen <= epoch
  /\ \A e \in heap : e.package \in Decidable /\ e.born \in 0..pushes-1

QueueInit ==
  /\ landed = {} /\ cached = {} /\ inflight = {}
  /\ settling \in BOOLEAN
  /\ ranges \in [Decidable -> {FullRange}] /\ tier = [p \in Decidable |-> 1]
  /\ undecided \in SUBSET Decidable /\ changed = undecided
  /\ epoch = 0 /\ moves = 0
  /\ heap = {} /\ keys = [p \in Decidable |-> NoKey] /\ unready = {}
  /\ seen = 0 /\ pushes = 0 /\ rebuildAt = RebuildMinimum
  /\ scan = Resting /\ todo = {} /\ picked = Nobody

\* The sort key: the ready penalty, then the tier and the count, then the rest.
Value(penalty, p, matching) == 1000 * penalty + 100 * tier[p] + 10 * matching + Place[p]

-----------------------------------------------------------------------------
(* Between scans: the solver, and the fetcher at any time. *)

Move == scan.at = "rest" /\ moves < MaxMoves /\ moves' = moves + 1 /\ picked' = Nobody

\* The solution moves a package's range, or decides it or takes a decision back.
\* The range of a package that is not undecided is not looked at.
SolutionMoves(p, r, open) ==
  /\ Move /\ <<r, open>> # <<ranges[p], p \in undecided>> /\ (~open => r = FullRange)
  /\ ranges' = [ranges EXCEPT ![p] = r]
  /\ undecided' = IF open THEN undecided \cup {p} ELSE undecided \ {p}
  /\ changed' = changed \cup {p}
  /\ UNCHANGED <<listings, settling, tier, epoch, queue, scan, todo>>

\* A conflict, or a forced backtrack, moves the counts tiers are made of; the
\* solver advances priority_epoch with them.
CountsMove(p) ==
  /\ Move
  /\ tier' = [tier EXCEPT ![p] = 1 - @] /\ epoch' = epoch + 1
  /\ UNCHANGED <<listings, settling, ranges, undecided, changed, queue, scan, todo>>

\* maybe_restart, after conflicts: a new solution and an empty queue, whose epoch
\* is again that of a new one; the counts and priority_epoch stay.
Restart(open) ==
  /\ Move /\ epoch > 0
  /\ ranges' = [p \in Decidable |-> FullRange]
  /\ undecided' = open /\ changed' = open
  /\ heap' = {} /\ keys' = [p \in Decidable |-> NoKey] /\ unready' = {}
  /\ seen' = 0 /\ rebuildAt' = RebuildMinimum
  /\ UNCHANGED <<listings, settling, tier, epoch, pushes, scan, todo>>

\* Choosing a version, or looking ahead, waits for a listing and filters it.
ProviderFetches(b) ==
  /\ Move /\ b \notin cached
  /\ landed' = landed \cup {b} /\ cached' = cached \cup {b}
  /\ UNCHANGED <<inflight, settling, ranges, tier, undecided, changed, epoch, queue,
                 scan, todo>>

ListingLands(b) ==
  /\ b \notin landed /\ landed' = landed \cup {b}
  /\ UNCHANGED <<cached, inflight, solver, queue, scan, todo, picked>>

-----------------------------------------------------------------------------
(* A scan. *)

\* Mutant: a listing counts from the moment it lands, within a scan as well.
ArrivedMeanwhile(b) == b \in landed

\* arrived_listing: what was found in flight once stays so until the next scan.
Arrived(b) == b \in landed /\ b \notin inflight
Look(b) == inflight' = IF Arrived(b) THEN inflight ELSE inflight \cup {b}

\* begin_decision_scan and _stale_packages: what may have moved, and what has left.
\* The probe is kept only while the epoch is the one the keys were made in.
BeginScan ==
  /\ scan.at = "rest" /\ undecided # {} /\ picked = Nobody
  /\ LET stale == changed \cup (IF epoch # seen THEN undecided ELSE unready)
         departed == stale \ undecided
     IN /\ scan' = [at |-> "walk", stale |-> stale, moved |-> changed,
                    probing |-> ~settling /\ epoch = seen,
                    rating |-> Nobody, matching |-> 0]
        /\ keys' = [p \in Decidable |-> IF p \in departed THEN NoKey ELSE keys[p]]
        /\ unready' = unready \ departed
  /\ inflight' = {} /\ changed' = {} /\ seen' = epoch /\ todo' = undecided
  /\ UNCHANGED <<landed, cached, settling, ranges, tier, undecided, epoch, moves,
                 heap, pushes, rebuildAt, picked>>

Walking(p) == scan.at = "walk" /\ scan.rating = Nobody /\ p \in todo

\* A waiting package the solution left alone keeps its key until the probe
\* (_listing_landed) says its listing is there.
Held(p) ==
  /\ scan.probing /\ p \in unready \ scan.moved
  /\ BaseOf[p] \notin cached /\ ~Arrived(BaseOf[p])

SkipKey(p) ==
  /\ Walking(p) /\ (p \notin scan.stale \/ Held(p))
  /\ todo' = todo \ {p}
  /\ IF p \in scan.stale THEN Look(BaseOf[p]) ELSE UNCHANGED inflight
  /\ UNCHANGED <<landed, cached, solver, queue, scan, picked>>

\* prioritize, with compute_matching: the first look at a listing that has arrived
\* filters it; the stable order waits for it.
Prioritize(p) ==
  /\ Walking(p) /\ p \in scan.stale /\ ~Held(p)
  /\ LET b == BaseOf[p]
         have == b \in cached \/ (IF settling THEN b \in landed ELSE Arrived(b))
     IN /\ settling => b \in landed
        /\ cached' = IF have THEN cached \cup {b} ELSE cached
        /\ IF have THEN UNCHANGED inflight ELSE Look(b)
        /\ scan' = [scan EXCEPT !.rating = p,
                      !.matching = IF have THEN Matching[b][ranges[p]]
                                   ELSE NoListingPrior]
  /\ UNCHANGED <<landed, solver, queue, todo, picked>>

\* is_ready, asked next: of a proxy, whether its base was filtered.
IsReady(p) == BaseOf[p] \in cached \/ (BaseOf[p] = p /\ Arrived(p))

\* The rest of _refresh for the package: a key that compares equal keeps the
\* identity of its entry.
Refresh(p) ==
  /\ scan.at = "walk" /\ scan.rating = p
  /\ LET penalty == IF IsReady(p) THEN 0 ELSE 1
         value == Value(penalty, p, scan.matching)
     IN /\ unready' = IF penalty = 1 THEN unready \cup {p} ELSE unready \ {p}
        /\ IF keys[p].value = value THEN UNCHANGED <<keys, heap, pushes>>
           ELSE /\ keys' = [keys EXCEPT ![p] = [value |-> value, born |-> pushes]]
                /\ heap' = heap \cup {[value |-> value, born |-> pushes, package |-> p]}
                /\ pushes' = pushes + 1
  /\ IF BaseOf[p] = p /\ p \notin cached THEN Look(p) ELSE UNCHANGED inflight
  /\ scan' = [scan EXCEPT !.rating = Nobody] /\ todo' = todo \ {p}
  /\ UNCHANGED <<landed, cached, solver, seen, rebuildAt, picked>>

Entry(p) == [value |-> keys[p].value, born |-> keys[p].born, package |-> p]
Keyed == {p \in Decidable : keys[p] # NoKey}
Before(e, f) == e.value < f.value \/ (e.value = f.value /\ e.born <= f.born)

\* _compact, then _live_top: entries before the first live one are dropped.
FinishScan ==
  /\ scan.at = "walk" /\ scan.rating = Nobody /\ todo = {}
  /\ LET full == Cardinality(heap) > rebuildAt
         kept == IF full THEN {Entry(p) : p \in Keyed} ELSE heap
         live == {e \in kept : e.package \in Keyed /\ e = Entry(e.package)}
         tops == {e \in live : \A f \in live : Before(e, f)}
     IN /\ heap' = {e \in kept : \E t \in tops : Before(t, e)}
        /\ rebuildAt' = IF full THEN 4 * Cardinality(Keyed) + RebuildMinimum
                        ELSE rebuildAt
        /\ picked' = IF tops = {} THEN Nobody
                     ELSE (CHOOSE t \in tops : TRUE).package
  /\ scan' = Resting
  /\ UNCHANGED <<listings, solver, keys, unready, seen, pushes, todo>>

\* Nothing is left to decide, or to try.
ScansOver ==
  /\ scan.at = "rest" /\ (moves = MaxMoves \/ undecided = {})
  /\ picked # Nobody \/ undecided = {}
  /\ UNCHANGED deciding

QueueNext ==
  \/ \E p \in Decidable :
       \/ \E r \in Span, open \in BOOLEAN : SolutionMoves(p, r, open)
       \/ CountsMove(p) \/ SkipKey(p) \/ Prioritize(p) \/ Refresh(p)
  \/ \E open \in SUBSET Decidable : Restart(open)
  \/ \E b \in Base : ProviderFetches(b) \/ ListingLands(b)
  \/ BeginScan \/ FinishScan \/ ScansOver

QueueSpec == QueueInit /\ [][QueueNext]_deciding
-----------------------------------------------------------------------------
\* The key a package would get from the listings this scan has filtered.
FreshValue(p) ==
  IF BaseOf[p] \in cached THEN Value(0, p, Matching[BaseOf[p]][ranges[p]])
  ELSE Value(1, p, NoListingPrior)

\* What a scan returns is what rating every undecided package anew, against one
\* view of the listings, would return: no superseded, withheld or half-arrived key
\* decides, through restarts, compactions and listings that land during the walk.
PicksAsFullScan ==
  picked # Nobody => /\ picked \in undecided
                     /\ \A p \in undecided : FreshValue(picked) <= FreshValue(p)

\* Once a scan's walk is over a package has a key exactly when it is undecided, and
\* its entry is in the heap: a package without one would never be decided.
LiveEntries ==
  /\ \A p \in Keyed : Entry(p) \in heap
  /\ picked # Nobody => Keyed = undecided
  /\ scan.at = "walk" /\ todo = {} => Keyed = undecided

\* The two together, with the types.
QueueSound == QueueTypeOK /\ PicksAsFullScan /\ LiveEntries
=============================================================================
