--------------------------- MODULE ShortcutProofs ---------------------------
(***************************************************************************)
(* What holds of DecisionQueue for any packages, ranges and number of      *)
(* moves, of PreferredTrial for any problem and any earlier lock, and of   *)
(* LockCheck for any inputs, releases and environments.                    *)
(***************************************************************************)
EXTENDS PreferredTrial, DecisionQueue, LockCheck, ProblemProofs, FiniteSetTheorems

----------------------------------------------------------------------------
(* DecisionQueue. *)

Fresh(p) ==
  /\ keys[p] # NoKey /\ BaseOf[p] \in cached
  /\ keys[p].value = Value(0, p, Matching[BaseOf[p]][ranges[p]])
Waits(p) == keys[p] # NoKey /\ keys[p].value = Value(1, p, NoListingPrior)

\* A base this scan rates as waiting stays so until the scan is over.
Withheld(b) == b \notin cached /\ b \in inflight /\ ~settling

KeysTyped ==
  /\ keys \in [Decidable -> [value : Int, born : Int]]
  /\ \A p \in Keyed : keys[p].value \in Nat /\ keys[p].born \in Nat
  /\ heap \subseteq [value : Nat, born : Nat, package : Decidable] /\ pushes \in Nat
  /\ seen \in Nat /\ epoch \in Nat /\ settling \in BOOLEAN
  /\ scan \in [at : {"rest", "walk"}, stale : SUBSET Decidable, moved : SUBSET Decidable,
               probing : BOOLEAN, rating : Decidable \cup {Nobody}, matching : 0..9]

EntriesThere == \A p \in Keyed : Entry(p) \in heap

\* Between scans, a key not known to have moved is right, or waits for a listing.
AtRest ==
  scan.at = "rest" =>
    /\ todo = {} /\ scan = Resting
    /\ Keyed \subseteq undecided \cup changed
    /\ epoch = seen => \A p \in undecided \ changed :
         IF p \in unready THEN Waits(p) ELSE Fresh(p)

\* In a scan, what was walked is right for what is filtered now, and what need not be
\* rated anew is right already.
InWalk ==
  scan.at = "walk" =>
    /\ picked = Nobody /\ Keyed \subseteq undecided /\ seen = epoch /\ changed = {}
    /\ \A p \in undecided \ todo :
         IF p \in unready THEN Waits(p) /\ Withheld(BaseOf[p]) ELSE Fresh(p)
    /\ \A p \in todo : p \notin scan.stale => p \notin unready /\ Fresh(p)
    /\ scan.probing => /\ ~settling
                       /\ \A p \in todo : p \in unready \ scan.moved => Waits(p)
    /\ scan.rating # Nobody =>
         /\ scan.rating \in todo
         /\ LET b == BaseOf[scan.rating] IN
            IF b \in cached THEN scan.matching = Matching[b][ranges[scan.rating]]
            ELSE scan.matching = NoListingPrior /\ Withheld(b)

\* What was picked had every undecided package keyed.
Picked == picked # Nobody => scan.at = "rest" /\ Keyed = undecided

QueueInv ==
  /\ QueueTypeOK /\ KeysTyped /\ EntriesThere /\ PicksAsFullScan
  /\ AtRest /\ InWalk /\ Picked

LEMMA ValueNat ==
  ASSUME QueueTypeOK, NEW p \in Decidable, NEW penalty \in 0..1, NEW m \in 0..9
  PROVE  Value(penalty, p, m) \in Nat
<1>1. tier[p] \in 0..1 /\ Place[p] \in 0..9
  BY QueueAssumption DEF QueueTypeOK, Tier
<1>2. QED BY <1>1 DEF Value

LEMMA Matches ==
  ASSUME QueueTypeOK, NEW p \in Decidable
  PROVE  /\ BaseOf[p] \in Base /\ ranges[p] \in Span
         /\ Matching[BaseOf[p]][ranges[p]] \in 0..8
BY QueueAssumption DEF QueueTypeOK, Base

\* FreshValue, of a key that is right.
LEMMA RatedRight ==
  ASSUME NEW p \in Decidable
  PROVE  /\ Fresh(p) => keys[p].value = FreshValue(p)
         /\ Waits(p) /\ BaseOf[p] \notin cached => keys[p].value = FreshValue(p)
BY DEF Fresh, Waits, FreshValue

\* Among the entries of the packages that have keys there is one before all others.
LEMMA TopExists ==
  ASSUME KeysTyped, NEW K \in SUBSET Keyed, K # {}
  PROVE  \E t \in K : \A p \in K : Before(Entry(t), Entry(p))
<1>1. \A p \in K : keys[p].value \in Nat /\ keys[p].born \in Nat
  BY DEF KeysTyped
<1> DEFINE V == {keys[p].value : p \in K}
           v == Min(V)
           B == {keys[p].born : p \in {q \in K : keys[q].value = v}}
           b == Min(B)
<1>2. v \in V /\ \A x \in V : v <= x
  <2>1. V \in SUBSET Nat /\ V # {}
    BY <1>1
  <2> HIDE DEF V
  <2>2. QED BY <2>1, MinExists
<1> HIDE DEF v
<1>3. b \in B /\ \A x \in B : b <= x
  <2>1. B \in SUBSET Nat /\ B # {}
    BY <1>1, <1>2
  <2> HIDE DEF B
  <2>2. QED BY <2>1, MinExists
<1> HIDE DEF b
<1>4. PICK t \in K : keys[t].value = v /\ keys[t].born = b
  BY <1>3
<1>5. ASSUME NEW p \in K PROVE Before(Entry(t), Entry(p))
  <2>1. v <= keys[p].value /\ v \in Nat /\ keys[p].value \in Nat
    BY <1>1, <1>2
  <2>2. keys[p].value = v => b <= keys[p].born
    BY <1>3
  <2>3. QED BY <1>4, <2>1, <2>2 DEF Before, Entry
<1>6. QED BY <1>4, <1>5

\* A step between scans: nothing is picked, and what is not known to have moved is as
\* it was.
LEMMA RestStep ==
  ASSUME QueueInv, scan.at = "rest", QueueTypeOK', KeysTyped', UNCHANGED scan,
         picked' = Nobody, EntriesThere', AtRest'
  PROVE  QueueInv'
BY DEF QueueInv, InWalk, Picked, PicksAsFullScan

LEMMA MovesStep ==
  ASSUME QueueInv, NEW p \in Decidable, NEW r \in Span, NEW open \in BOOLEAN,
         SolutionMoves(p, r, open)
  PROVE  QueueInv'
<1>1. /\ scan.at = "rest" /\ picked' = Nobody
      /\ UNCHANGED <<landed, cached, inflight, settling, tier, epoch, heap, keys, unready,
                     seen, pushes, rebuildAt, scan, todo>>
  BY DEF SolutionMoves, Move, listings, queue
<1>2. /\ ranges' \in [Decidable -> Span] /\ \A q \in Decidable \ {p} : ranges'[q] = ranges[q]
      /\ undecided' = IF open THEN undecided \cup {p} ELSE undecided \ {p}
      /\ changed' = changed \cup {p}
  BY DEF SolutionMoves, QueueInv, QueueTypeOK
<1>3. todo = {}
  BY <1>1 DEF QueueInv, AtRest
<1>4. QueueTypeOK'
  BY <1>1, <1>2, <1>3 DEF QueueInv, QueueTypeOK
<1>5. KeysTyped' /\ EntriesThere'
  BY <1>1 DEF QueueInv, KeysTyped, EntriesThere, Keyed, Entry
<1>6. AtRest'
  BY <1>1, <1>2
     DEF QueueInv, QueueTypeOK, AtRest, Keyed, Waits, Fresh, Value
<1>7. QED BY <1>1, <1>4, <1>5, <1>6, RestStep

LEMMA CountsStep ==
  ASSUME QueueInv, NEW p \in Decidable, CountsMove(p) PROVE QueueInv'
<1>1. /\ scan.at = "rest" /\ picked' = Nobody /\ epoch' = epoch + 1
      /\ tier' = [tier EXCEPT ![p] = 1 - @]
      /\ UNCHANGED <<landed, cached, inflight, settling, ranges, undecided, changed,
                     heap, keys, unready, seen, pushes, rebuildAt, scan, todo>>
  BY DEF CountsMove, Move, listings, queue
<1>2. QueueTypeOK'
  BY <1>1 DEF QueueInv, QueueTypeOK, Tier, KeysTyped
<1>3. KeysTyped' /\ EntriesThere'
  BY <1>1 DEF QueueInv, KeysTyped, EntriesThere, Keyed, Entry
<1>4. AtRest'
  BY <1>1 DEF QueueInv, QueueTypeOK, KeysTyped, AtRest, Keyed
<1>5. QED BY <1>1, <1>2, <1>3, <1>4, RestStep

LEMMA RestartStep ==
  ASSUME QueueInv, NEW open \in SUBSET Decidable, Restart(open) PROVE QueueInv'
<1>1. /\ scan.at = "rest" /\ picked' = Nobody /\ epoch > 0 /\ seen' = 0
      /\ ranges' = [p \in Decidable |-> FullRange] /\ undecided' = open /\ changed' = open
      /\ heap' = {} /\ keys' = [p \in Decidable |-> NoKey] /\ unready' = {}
      /\ UNCHANGED <<landed, cached, inflight, settling, tier, epoch, pushes, scan, todo>>
  BY DEF Restart, Move, listings
<1>2. todo = {}
  BY <1>1 DEF QueueInv, AtRest
<1>3. QueueTypeOK'
  BY <1>1, <1>2, QueueAssumption DEF QueueInv, QueueTypeOK, KeysTyped
<1>4. Keyed' = {}
  BY <1>1 DEF Keyed
<1>5. KeysTyped' /\ EntriesThere'
  BY <1>1, <1>4 DEF QueueInv, KeysTyped, EntriesThere, NoKey
<1>6. AtRest'
  BY <1>1, <1>4 DEF QueueInv, AtRest, KeysTyped
<1>7. QED BY <1>1, <1>3, <1>5, <1>6, RestStep

LEMMA FetchesStep ==
  ASSUME QueueInv, NEW b \in Base, ProviderFetches(b) PROVE QueueInv'
<1>1. /\ scan.at = "rest" /\ picked' = Nobody
      /\ landed' = landed \cup {b} /\ cached' = cached \cup {b}
      /\ UNCHANGED <<inflight, settling, ranges, tier, undecided, changed, epoch, heap,
                     keys, unready, seen, pushes, rebuildAt, scan, todo>>
  BY DEF ProviderFetches, Move, queue
<1>2. QueueTypeOK'
  BY <1>1 DEF QueueInv, QueueTypeOK
<1>3. KeysTyped' /\ EntriesThere'
  BY <1>1 DEF QueueInv, KeysTyped, EntriesThere, Keyed, Entry
<1>4. AtRest'
  BY <1>1 DEF QueueInv, AtRest, Keyed, Waits, Fresh, Value
<1>5. QED BY <1>1, <1>2, <1>3, <1>4, RestStep

\* A listing that lands changes nothing a scan goes by.
LEMMA LandsStep ==
  ASSUME QueueInv, NEW b \in Base, ListingLands(b) PROVE QueueInv'
<1>1. /\ landed' = landed \cup {b}
      /\ UNCHANGED <<cached, inflight, settling, ranges, tier, undecided, changed, epoch,
                     moves, heap, keys, unready, seen, pushes, rebuildAt, scan, todo,
                     picked>>
  BY DEF ListingLands, solver, queue
<1>2. QueueTypeOK'
  BY <1>1 DEF QueueInv, QueueTypeOK
<1>3. KeysTyped' /\ EntriesThere' /\ Picked'
  BY <1>1 DEF QueueInv, KeysTyped, EntriesThere, Keyed, Entry, Picked
<1>4. AtRest'
  BY <1>1 DEF QueueInv, AtRest, Keyed, Waits, Fresh, Value
<1>5. InWalk'
  BY <1>1 DEF QueueInv, InWalk, Keyed, Waits, Fresh, Withheld, Value
<1>6. PicksAsFullScan'
  BY <1>1 DEF QueueInv, PicksAsFullScan, FreshValue, Value
<1>7. QED BY <1>2, <1>3, <1>4, <1>5, <1>6 DEF QueueInv

LEMMA BeginStep == ASSUME QueueInv, BeginScan PROVE QueueInv'
<1> DEFINE stale == changed \cup (IF epoch # seen THEN undecided ELSE unready)
           departed == stale \ undecided
<1>1. /\ scan.at = "rest" /\ picked = Nobody /\ picked' = Nobody
      /\ scan' = [at |-> "walk", stale |-> stale, moved |-> changed,
                  probing |-> ~settling /\ epoch = seen, rating |-> Nobody, matching |-> 0]
      /\ keys' = [p \in Decidable |-> IF p \in departed THEN NoKey ELSE keys[p]]
      /\ unready' = unready \ departed
      /\ inflight' = {} /\ changed' = {} /\ seen' = epoch /\ todo' = undecided
      /\ UNCHANGED <<landed, cached, settling, ranges, tier, undecided, epoch, heap,
                     pushes>>
  BY DEF BeginScan
<1>2. stale \in SUBSET Decidable /\ changed \in SUBSET Decidable
  BY DEF QueueInv, QueueTypeOK
<1>3. QueueTypeOK'
  BY <1>1 DEF QueueInv, QueueTypeOK, KeysTyped
<1>4. /\ keys' \in [Decidable -> [value : Int, born : Int]]
      /\ Keyed' = Keyed \ departed
      /\ \A p \in Decidable \ departed : keys'[p] = keys[p]
  BY <1>1 DEF Keyed, NoKey, QueueInv, KeysTyped
<1>5. KeysTyped'
  <2>1. scan' \in [at : {"rest", "walk"}, stale : SUBSET Decidable,
                   moved : SUBSET Decidable, probing : BOOLEAN,
                   rating : Decidable \cup {Nobody}, matching : 0..9]
    <3> HIDE DEF stale
    <3>1. QED BY <1>1, <1>2 DEF QueueInv, KeysTyped
  <2>2. \A p \in Keyed' : keys'[p].value \in Nat /\ keys'[p].born \in Nat
    BY <1>4 DEF QueueInv, KeysTyped, Keyed
  <2>3. QED BY <1>1, <1>4, <2>1, <2>2 DEF QueueInv, KeysTyped
<1>6. EntriesThere'
  BY <1>1, <1>4 DEF QueueInv, EntriesThere, Entry, Keyed
<1>7. Keyed \subseteq undecided \cup changed
  BY <1>1 DEF QueueInv, AtRest
<1>8. Keyed' \subseteq undecided
  BY <1>4, <1>7
<1>9. ASSUME NEW p \in undecided, p \notin stale
      PROVE  p \notin unready' /\ Fresh(p)'
  <2>1. epoch = seen /\ p \notin changed /\ p \notin unready /\ p \in Decidable
    BY <1>9 DEF QueueInv, QueueTypeOK
  <2>2. Fresh(p)
    BY <1>1, <2>1 DEF QueueInv, AtRest
  <2>3. keys'[p] = keys[p]
    BY <1>4, <2>1
  <2>4. QED BY <1>1, <2>1, <2>2, <2>3 DEF Fresh, Value
<1>10. ASSUME scan'.probing, NEW p \in undecided, p \in unready' \ changed
       PROVE  Waits(p)'
  <2>1. epoch = seen /\ p \in unready /\ p \in Decidable /\ p \notin departed
    BY <1>1, <1>10 DEF QueueInv, QueueTypeOK
  <2>2. Waits(p)
    BY <1>1, <1>10, <2>1 DEF QueueInv, AtRest
  <2>3. keys'[p] = keys[p]
    BY <1>4, <2>1
  <2>4. QED BY <1>1, <2>2, <2>3 DEF Waits, Value
<1>11. InWalk'
  <2>1. /\ scan'.stale = stale /\ scan'.moved = changed /\ scan'.rating = Nobody
        /\ scan'.probing = (~settling /\ epoch = seen) /\ todo' = undecided
    BY <1>1
  <2> HIDE DEF stale, departed
  <2>2. \A p \in todo' : p \notin scan'.stale => p \notin unready' /\ Fresh(p)'
    BY <1>9, <2>1
  <2>3. scan'.probing => \A p \in todo' : p \in unready' \ scan'.moved => Waits(p)'
    BY <1>10, <2>1
  <2>4. QED BY <1>1, <1>8, <2>1, <2>2, <2>3 DEF InWalk
<1>12. AtRest' /\ PicksAsFullScan' /\ Picked'
  BY <1>1 DEF AtRest, PicksAsFullScan, Picked
<1>13. QED BY <1>3, <1>5, <1>6, <1>11, <1>12 DEF QueueInv

\* A step of the walk that leaves the keys alone.
LEMMA WalkTypes ==
  ASSUME QueueInv, scan.at = "walk", UNCHANGED <<keys, heap, pushes, settling, seen, epoch>>,
         UNCHANGED picked
  PROVE  /\ scan' \in [at : {"rest", "walk"}, stale : SUBSET Decidable,
                       moved : SUBSET Decidable, probing : BOOLEAN,
                       rating : Decidable \cup {Nobody}, matching : 0..9] => KeysTyped'
         /\ EntriesThere' /\ PicksAsFullScan' /\ Picked' /\ Keyed' = Keyed
BY DEF QueueInv, KeysTyped, EntriesThere, Keyed, Entry, PicksAsFullScan, Picked, InWalk

\* Looking at a base whose listing has not arrived withholds it; nothing is unheld.
LEMMA LookHolds ==
  ASSUME QueueTypeOK, NEW b \in Base, Look(b)
  PROVE  /\ inflight \subseteq inflight' /\ inflight' \subseteq Base
         /\ Arrived(b) \/ b \in inflight'
BY DEF Look, Arrived, QueueTypeOK

LEMMA SkipStep == ASSUME QueueInv, NEW p \in Decidable, SkipKey(p) PROVE QueueInv'
<1>1. /\ scan.at = "walk" /\ scan.rating = Nobody /\ p \in todo
      /\ p \in scan.stale => Held(p)
      /\ todo' = todo \ {p}
      /\ IF p \in scan.stale THEN Look(BaseOf[p]) ELSE UNCHANGED inflight
      /\ UNCHANGED <<landed, cached, settling, ranges, tier, undecided, changed, epoch,
                     moves, heap, keys, unready, seen, pushes, rebuildAt, scan, picked>>
  BY DEF SkipKey, Walking, solver, queue
<1>2. /\ inflight \subseteq inflight' /\ inflight' \subseteq Base
      /\ p \in scan.stale => Arrived(BaseOf[p]) \/ BaseOf[p] \in inflight'
  <2>1. BaseOf[p] \in Base
    BY DEF Base
  <2>2. QED BY <1>1, <2>1, LookHolds DEF QueueInv, QueueTypeOK
<1>3. QueueTypeOK'
  BY <1>1, <1>2 DEF QueueInv, QueueTypeOK
<1>4. KeysTyped' /\ EntriesThere' /\ PicksAsFullScan' /\ Picked' /\ Keyed' = Keyed
  BY <1>1, WalkTypes DEF QueueInv, KeysTyped
<1>5. IF p \in unready THEN Waits(p) /\ Withheld(BaseOf[p])' ELSE Fresh(p)
  <2>1. CASE p \notin scan.stale
    BY <1>1, <2>1 DEF QueueInv, InWalk
  <2>2. CASE p \in scan.stale
    BY <1>1, <1>2, <2>2 DEF QueueInv, InWalk, Held, Withheld
  <2>3. QED BY <2>1, <2>2
<1>6. InWalk'
  <2>1. \A q : (Waits(q) => Waits(q)') /\ (Fresh(q) => Fresh(q)')
               /\ (Withheld(BaseOf[q]) => Withheld(BaseOf[q])')
    BY <1>1, <1>2 DEF Waits, Fresh, Withheld, Value
  <2>2. \A q \in undecided' \ todo' :
          IF q \in unready' THEN Waits(q)' /\ Withheld(BaseOf[q])' ELSE Fresh(q)'
    BY <1>1, <1>5, <2>1 DEF QueueInv, InWalk
  <2>3. QED BY <1>1, <1>4, <2>1, <2>2 DEF QueueInv, InWalk
<1>7. AtRest'
  BY <1>1 DEF AtRest
<1>8. QED BY <1>3, <1>4, <1>6, <1>7 DEF QueueInv

LEMMA PrioritizeStep == ASSUME QueueInv, NEW p \in Decidable, Prioritize(p) PROVE QueueInv'
<1> DEFINE b == BaseOf[p]
           have == b \in cached \/ (IF settling THEN b \in landed ELSE Arrived(b))
           m == IF have THEN Matching[b][ranges[p]] ELSE NoListingPrior
<1>1. /\ scan.at = "walk" /\ scan.rating = Nobody /\ p \in todo
      /\ settling => b \in landed
      /\ cached' = IF have THEN cached \cup {b} ELSE cached
      /\ IF have THEN UNCHANGED inflight ELSE Look(b)
      /\ scan' = [scan EXCEPT !.rating = p, !.matching = m]
      /\ UNCHANGED <<landed, settling, ranges, tier, undecided, changed, epoch, moves,
                     heap, keys, unready, seen, pushes, rebuildAt, todo, picked>>
  BY DEF Prioritize, Walking, solver, queue
<1>2. b \in Base /\ m \in 0..9
  BY Matches DEF QueueInv, NoListingPrior
<1>3. /\ inflight \subseteq inflight' /\ inflight' \subseteq Base
      /\ have \/ (Arrived(b) \/ b \in inflight')
  BY <1>1, <1>2, LookHolds DEF QueueInv, QueueTypeOK
<1>4. have => b \in landed
  BY DEF Arrived, QueueInv, QueueTypeOK
<1>5. ~have => b \notin cached' /\ b \in inflight' /\ ~settling
  BY <1>1, <1>3 DEF Arrived
<1>6. QueueTypeOK'
  BY <1>1, <1>2, <1>3, <1>4 DEF QueueInv, QueueTypeOK
<1> HIDE DEF m, have
<1>7. /\ scan'.at = "walk" /\ scan'.stale = scan.stale /\ scan'.moved = scan.moved
      /\ scan'.probing = scan.probing /\ scan'.rating = p /\ scan'.matching = m
      /\ scan' \in [at : {"rest", "walk"}, stale : SUBSET Decidable,
                    moved : SUBSET Decidable, probing : BOOLEAN,
                    rating : Decidable \cup {Nobody}, matching : 0..9]
  BY <1>1, <1>2 DEF QueueInv, KeysTyped
<1>8. KeysTyped' /\ EntriesThere' /\ PicksAsFullScan' /\ Picked' /\ Keyed' = Keyed
  BY <1>1, <1>7, WalkTypes
<1>9. ASSUME NEW c, Withheld(c) PROVE Withheld(c)'
  <2>1. have => b \in cached \/ b \notin inflight
    BY <1>9 DEF have, Arrived, Withheld
  <2>2. QED BY <1>1, <1>3, <1>9, <2>1 DEF Withheld
<1>10. \A q : (Waits(q) => Waits(q)') /\ (Fresh(q) => Fresh(q)')
  BY <1>1 DEF Waits, Fresh, Value
<1>11. IF b \in cached' THEN m = Matching[b][ranges[p]]
       ELSE m = NoListingPrior /\ Withheld(b)'
  <2>1. CASE have
    BY <1>1, <2>1 DEF m
  <2>2. CASE ~have
    BY <1>1, <1>5, <2>2 DEF m, Withheld
  <2>3. QED BY <2>1, <2>2
<1>12. InWalk'
  <2>1. \A q \in undecided' \ todo' :
          IF q \in unready' THEN Waits(q)' /\ Withheld(BaseOf[q])' ELSE Fresh(q)'
    BY <1>1, <1>9, <1>10 DEF QueueInv, InWalk
  <2>2. QED BY <1>1, <1>7, <1>8, <1>10, <1>11, <2>1 DEF QueueInv, InWalk
<1>13. AtRest'
  BY <1>7 DEF AtRest
<1>14. QED BY <1>6, <1>8, <1>12, <1>13 DEF QueueInv

LEMMA RefreshStep == ASSUME QueueInv, NEW p \in Decidable, Refresh(p) PROVE QueueInv'
<1> DEFINE b == BaseOf[p]
           penalty == IF IsReady(p) THEN 0 ELSE 1
           value == Value(penalty, p, scan.matching)
<1>1. /\ scan.at = "walk" /\ scan.rating = p
      /\ unready' = IF penalty = 1 THEN unready \cup {p} ELSE unready \ {p}
      /\ IF keys[p].value = value THEN UNCHANGED <<keys, heap, pushes>>
         ELSE /\ keys' = [keys EXCEPT ![p] = [value |-> value, born |-> pushes]]
              /\ heap' = heap \cup {[value |-> value, born |-> pushes, package |-> p]}
              /\ pushes' = pushes + 1
      /\ IF b = p /\ p \notin cached THEN Look(p) ELSE UNCHANGED inflight
      /\ scan' = [scan EXCEPT !.rating = Nobody] /\ todo' = todo \ {p}
      /\ UNCHANGED <<landed, cached, settling, ranges, tier, undecided, changed, epoch,
                     moves, seen, rebuildAt, picked>>
  BY DEF Refresh, solver
<1>2. p \in todo /\ p \in undecided /\ p # Nobody
  BY <1>1, QueueAssumption DEF QueueInv, InWalk, QueueTypeOK
<1>3. /\ IF b \in cached THEN scan.matching = Matching[b][ranges[p]]
         ELSE scan.matching = NoListingPrior /\ Withheld(b)
      /\ scan.matching \in 0..9
  BY <1>1, <1>2 DEF QueueInv, InWalk, KeysTyped
<1>4. /\ inflight \subseteq inflight' /\ inflight' \subseteq Base
  <2>1. b = p => p \in Base
    BY DEF Base
  <2>2. QED BY <1>1, <2>1, LookHolds DEF QueueInv, QueueTypeOK
<1>5. IsReady(p) <=> b \in cached
  BY <1>3 DEF IsReady, Arrived, Withheld
<1>6. value = FreshValue(p)
  BY <1>3, <1>5 DEF FreshValue
<1>7. value \in Nat
  BY <1>3, ValueNat DEF QueueInv
<1> HIDE DEF value
<1>8. /\ keys' \in [Decidable -> [value : Int, born : Int]] /\ pushes' \in Nat
      /\ pushes <= pushes' /\ heap \subseteq heap'
      /\ heap' \subseteq [value : Nat, born : Nat, package : Decidable]
      /\ \A e \in heap' : e.born \in 0..pushes' - 1
      /\ \A q \in Decidable \ {p} : keys'[q] = keys[q]
      /\ keys'[p].value = value /\ keys'[p].born \in Nat /\ Entry(p)' \in heap'
  <2>1. pushes \in Nat /\ keys \in [Decidable -> [value : Int, born : Int]]
        /\ heap \subseteq [value : Nat, born : Nat, package : Decidable]
        /\ \A e \in heap : e.born \in 0..pushes - 1
    BY DEF QueueInv, KeysTyped, QueueTypeOK
  <2>2. CASE keys[p].value = value
    <3>1. p \in Keyed
      BY <1>7, <2>2 DEF Keyed, NoKey
    <3>2. keys[p].born \in Nat /\ Entry(p) \in heap
      BY <3>1 DEF QueueInv, KeysTyped, EntriesThere
    <3>3. UNCHANGED <<keys, heap, pushes>>
      BY <1>1, <2>2
    <3>4. QED BY <2>1, <2>2, <3>2, <3>3 DEF Entry
  <2>3. CASE keys[p].value # value
    <3>1. /\ keys' = [keys EXCEPT ![p] = [value |-> value, born |-> pushes]]
          /\ heap' = heap \cup {[value |-> value, born |-> pushes, package |-> p]}
          /\ pushes' = pushes + 1
      BY <1>1, <2>3
    <3>2. keys'[p] = [value |-> value, born |-> pushes]
      BY <2>1, <3>1
    <3>3. Entry(p)' \in heap'
      BY <3>1, <3>2 DEF Entry
    <3>4. keys' \in [Decidable -> [value : Int, born : Int]]
      BY <1>7, <2>1, <3>1
    <3>5. \A e \in heap' : e.born \in 0..pushes' - 1
      BY <2>1, <3>1
    <3>6. heap' \subseteq [value : Nat, born : Nat, package : Decidable]
      BY <1>7, <2>1, <3>1
    <3>7. QED BY <2>1, <3>1, <3>2, <3>3, <3>4, <3>5, <3>6
  <2>4. QED BY <2>2, <2>3
<1>9. keys'[p] # NoKey
  BY <1>7, <1>8 DEF NoKey
<1>10. Keyed' = Keyed \cup {p}
  BY <1>8, <1>9 DEF Keyed
<1>11. /\ scan'.at = "walk" /\ scan'.stale = scan.stale /\ scan'.moved = scan.moved
       /\ scan'.probing = scan.probing /\ scan'.rating = Nobody
       /\ scan' \in [at : {"rest", "walk"}, stale : SUBSET Decidable,
                     moved : SUBSET Decidable, probing : BOOLEAN,
                     rating : Decidable \cup {Nobody}, matching : 0..9]
  BY <1>1 DEF QueueInv, KeysTyped
<1>12. QueueTypeOK'
  BY <1>1, <1>4, <1>8 DEF QueueInv, QueueTypeOK
<1>13. KeysTyped'
  <2>1. \A q \in Keyed' : keys'[q].value \in Nat /\ keys'[q].born \in Nat
    BY <1>7, <1>8, <1>10 DEF QueueInv, KeysTyped, Keyed
  <2>2. QED BY <1>1, <1>8, <1>11, <2>1 DEF QueueInv, KeysTyped
<1>14. EntriesThere'
  BY <1>8, <1>10 DEF QueueInv, EntriesThere, Entry, Keyed
<1>15. \A q \in Decidable \ {p} : /\ Waits(q) => Waits(q)'
                                  /\ Fresh(q) => Fresh(q)'
  BY <1>1, <1>8 DEF Waits, Fresh, Value
<1>16. \A c : Withheld(c) => Withheld(c)'
  BY <1>1, <1>4 DEF Withheld
<1>17. IF p \in unready' THEN Waits(p)' /\ Withheld(b)' ELSE Fresh(p)'
  <2>1. FreshValue(p)' = FreshValue(p) /\ keys'[p].value = FreshValue(p)
    BY <1>1, <1>6, <1>8 DEF FreshValue, Value
  <2>2. CASE b \in cached
    BY <1>1, <1>5, <1>9, <2>1, <2>2 DEF FreshValue, Fresh
  <2>3. CASE b \notin cached
    BY <1>1, <1>3, <1>5, <1>9, <1>16, <2>1, <2>3 DEF FreshValue, Waits
  <2>4. QED BY <2>2, <2>3
<1>18. InWalk'
  <2>1. picked' = Nobody /\ Keyed' \subseteq undecided' /\ seen' = epoch' /\ changed' = {}
    BY <1>1, <1>2, <1>10 DEF QueueInv, InWalk
  <2>2. \A q \in undecided' \ todo' :
          IF q \in unready' THEN Waits(q)' /\ Withheld(BaseOf[q])' ELSE Fresh(q)'
    <3>1. SUFFICES ASSUME NEW q \in undecided \ todo, q # p
                   PROVE  IF q \in unready' THEN Waits(q)' /\ Withheld(BaseOf[q])'
                          ELSE Fresh(q)'
      BY <1>1, <1>17
    <3>2. q \in Decidable
      BY DEF QueueInv, QueueTypeOK
    <3>3. IF q \in unready THEN Waits(q) /\ Withheld(BaseOf[q]) ELSE Fresh(q)
      BY <1>1 DEF QueueInv, InWalk
    <3>4. q \in unready' <=> q \in unready
      BY <1>1, <3>1
    <3>5. QED BY <1>15, <1>16, <3>1, <3>2, <3>3, <3>4
  <2>3. \A q \in todo' : /\ q \in Decidable \ {p} /\ q \in todo
                         /\ (q \in unready' <=> q \in unready)
    BY <1>1 DEF QueueInv, QueueTypeOK
  <2>4. \A q \in todo' : q \notin scan'.stale => q \notin unready' /\ Fresh(q)'
    BY <1>1, <1>11, <1>15, <2>3 DEF QueueInv, InWalk
  <2>5. scan'.probing => /\ ~settling'
                         /\ \A q \in todo' : q \in unready' \ scan'.moved => Waits(q)'
    BY <1>1, <1>11, <1>15, <2>3 DEF QueueInv, InWalk
  <2>6. QED BY <1>11, <2>1, <2>2, <2>4, <2>5 DEF InWalk
<1>19. AtRest' /\ PicksAsFullScan' /\ Picked'
  BY <1>1, <1>11, <1>18 DEF AtRest, PicksAsFullScan, Picked, InWalk
<1>20. QED BY <1>12, <1>13, <1>14, <1>18, <1>19 DEF QueueInv

LEMMA FinishStep == ASSUME QueueInv, FinishScan PROVE QueueInv'
<1> DEFINE full == Cardinality(heap) > rebuildAt
           kept == IF full THEN {Entry(p) : p \in Keyed} ELSE heap
           live == {e \in kept : e.package \in Keyed /\ e = Entry(e.package)}
           tops == {e \in live : \A f \in live : Before(e, f)}
<1>1. /\ scan.at = "walk" /\ scan.rating = Nobody /\ todo = {}
      /\ heap' = {e \in kept : \E t \in tops : Before(t, e)}
      /\ picked' = IF tops = {} THEN Nobody ELSE (CHOOSE t \in tops : TRUE).package
      /\ scan' = Resting
      /\ UNCHANGED <<landed, cached, inflight, settling, ranges, tier, undecided, changed,
                     epoch, moves, keys, unready, seen, pushes, todo>>
  BY DEF FinishScan, listings, solver
<1>2. \A p \in Keyed : Entry(p) \in kept /\ Entry(p).package = p
  BY DEF QueueInv, EntriesThere, Entry
<1>3. live = {Entry(p) : p \in Keyed}
  BY <1>2
<1>4. kept \subseteq heap
  BY DEF QueueInv, EntriesThere
<1>5. \A p \in undecided : keys[p] # NoKey /\ keys[p].value = FreshValue(p)
  BY <1>1, RatedRight DEF QueueInv, InWalk, QueueTypeOK, Fresh, Waits, Withheld
<1>6. Keyed = undecided
  BY <1>1, <1>5 DEF QueueInv, InWalk, QueueTypeOK, Keyed
<1> HIDE DEF kept, live
<1>7. ASSUME Keyed # {} PROVE tops # {}
  <2>1. PICK t \in Keyed : \A p \in Keyed : Before(Entry(t), Entry(p))
    BY <1>7, TopExists DEF QueueInv
  <2>2. QED BY <1>3, <2>1
<1>8. \A p \in Keyed : Entry(p) \in heap'
  <2>1. SUFFICES ASSUME NEW p \in Keyed PROVE Entry(p) \in heap'
    OBVIOUS
  <2>2. PICK t \in tops : TRUE
    BY <1>7
  <2>3. Before(t, Entry(p))
    BY <1>3
  <2>4. QED BY <1>1, <1>2, <2>3
<1>9. ASSUME picked' # Nobody
      PROVE  /\ picked' \in undecided
             /\ \A p \in undecided : FreshValue(picked') <= FreshValue(p)
  <2>1. PICK t \in tops : picked' = t.package
    BY <1>1, <1>9
  <2>2. PICK k \in Keyed : t = Entry(k)
    BY <1>3
  <2>3. picked' = k
    BY <1>2, <2>1, <2>2
  <2>4. ASSUME NEW p \in undecided PROVE FreshValue(k) <= FreshValue(p)
    <3>1. Before(Entry(k), Entry(p)) /\ p \in Keyed
      BY <1>3, <1>6, <2>2
    <3>2. keys[k].value \in Nat /\ keys[p].value \in Nat
      BY <3>1 DEF QueueInv, KeysTyped
    <3>3. keys[k].value <= keys[p].value
      BY <3>1, <3>2 DEF Before, Entry
    <3>4. QED BY <1>5, <1>6, <3>3
  <2>5. QED BY <1>6, <2>3, <2>4
<1> HIDE DEF tops
<1>10. PicksAsFullScan'
  <2>1. \A p : FreshValue(p)' = FreshValue(p)
    BY <1>1 DEF FreshValue, Value
  <2>2. QED BY <1>1, <1>9, <2>1 DEF PicksAsFullScan, FreshValue, Value
<1>11. Keyed' = Keyed /\ heap' \subseteq heap
  BY <1>1, <1>4 DEF Keyed
<1>12. KeysTyped'
  <2>1. scan' \in [at : {"rest", "walk"}, stale : SUBSET Decidable,
                   moved : SUBSET Decidable, probing : BOOLEAN,
                   rating : Decidable \cup {Nobody}, matching : 0..9]
    BY <1>1 DEF Resting
  <2>2. QED BY <1>1, <1>11, <2>1 DEF QueueInv, KeysTyped
<1>13. EntriesThere'
  BY <1>1, <1>8, <1>11 DEF EntriesThere, Entry
<1>14. QueueTypeOK'
  BY <1>1, <1>9, <1>11 DEF QueueInv, QueueTypeOK
<1>15. AtRest'
  <2>1. \A p \in undecided : IF p \in unready THEN Waits(p) ELSE Fresh(p)
    BY <1>1 DEF QueueInv, InWalk
  <2>2. \A p : (Waits(p) => Waits(p)') /\ (Fresh(p) => Fresh(p)')
    BY <1>1 DEF Waits, Fresh, Value
  <2>3. QED BY <1>1, <1>6, <1>11, <2>1, <2>2 DEF AtRest
<1>16. InWalk' /\ Picked'
  BY <1>1, <1>6, <1>11 DEF InWalk, Picked, Resting
<1>17. QED BY <1>10, <1>12, <1>13, <1>14, <1>15, <1>16 DEF QueueInv

LEMMA InitQueue == QueueInit => QueueInv
<1> SUFFICES ASSUME QueueInit PROVE QueueInv
  OBVIOUS
<1>1. Keyed = {}
  BY DEF QueueInit, Keyed
<1>2. QueueTypeOK
  BY QueueAssumption DEF QueueInit, QueueTypeOK, Tier
<1>3. KeysTyped
  BY <1>1 DEF QueueInit, KeysTyped, Resting, NoKey
<1>4. QED BY <1>1, <1>2, <1>3
     DEF QueueInit, QueueInv, EntriesThere, PicksAsFullScan, AtRest, InWalk, Picked, Resting

LEMMA NextQueue == ASSUME QueueInv, [QueueNext]_deciding PROVE QueueInv'
<1>1. CASE UNCHANGED deciding
  <2>1. UNCHANGED <<landed, cached, inflight, settling, ranges, tier, undecided, changed,
                    epoch, moves, heap, keys, unready, seen, pushes, rebuildAt, scan, todo,
                    picked>>
    BY <1>1 DEF deciding, listings, solver, queue
  <2>2. QueueTypeOK' /\ KeysTyped' /\ EntriesThere' /\ Picked'
    BY <2>1 DEF QueueInv, QueueTypeOK, KeysTyped, EntriesThere, Keyed, Entry, Picked
  <2>3. AtRest' /\ InWalk'
    BY <2>1 DEF QueueInv, AtRest, InWalk, Keyed, Waits, Fresh, Withheld, Value
  <2>4. PicksAsFullScan'
    BY <2>1 DEF QueueInv, PicksAsFullScan, FreshValue, Value
  <2>5. QED BY <2>2, <2>3, <2>4 DEF QueueInv
<1>2. ASSUME NEW p \in Decidable, NEW r \in Span, NEW open \in BOOLEAN,
             SolutionMoves(p, r, open)
      PROVE  QueueInv'
  BY <1>2, MovesStep
<1>3. ASSUME NEW p \in Decidable, CountsMove(p) PROVE QueueInv'
  BY <1>3, CountsStep
<1>4. ASSUME NEW p \in Decidable, SkipKey(p) PROVE QueueInv'
  BY <1>4, SkipStep
<1>5. ASSUME NEW p \in Decidable, Prioritize(p) PROVE QueueInv'
  BY <1>5, PrioritizeStep
<1>6. ASSUME NEW p \in Decidable, Refresh(p) PROVE QueueInv'
  BY <1>6, RefreshStep
<1>7. ASSUME NEW open \in SUBSET Decidable, Restart(open) PROVE QueueInv'
  BY <1>7, RestartStep
<1>8. ASSUME NEW b \in Base, ProviderFetches(b) PROVE QueueInv'
  BY <1>8, FetchesStep
<1>9. ASSUME NEW b \in Base, ListingLands(b) PROVE QueueInv'
  BY <1>9, LandsStep
<1>10. CASE BeginScan
  BY <1>10, BeginStep
<1>11. CASE FinishScan
  BY <1>11, FinishStep
<1>12. QED BY <1>1, <1>2, <1>3, <1>4, <1>5, <1>6, <1>7, <1>8, <1>9, <1>10, <1>11
      DEF QueueNext, ScansOver

\* The lazy queue decides as a full scan would, for any packages, proxies, listings and
\* moves of the solver, and whenever listings land (decision_queue.py, pick).
THEOREM QueueIsSound == QueueSpec => []QueueSound
<1>1. ASSUME QueueInv PROVE QueueSound
  <2>1. scan.at = "walk" /\ todo = {} => Keyed = undecided
    BY <1>1 DEF QueueInv, InWalk, QueueTypeOK, Keyed, Fresh, Waits
  <2>2. QED BY <1>1, <2>1 DEF QueueInv, QueueSound, LiveEntries, EntriesThere, Picked
<1>2. QED BY <1>1, InitQueue, NextQueue, PTL DEF QueueSpec
----------------------------------------------------------------------------
(* PreferredTrial. *)

\* The queue holds the required packages, each once, and those looked at are pinned.
Queued ==
  /\ \A i \in DOMAIN pending : required[pending[i]] # NoRange
  /\ \A p \in Named(required) : \E i \in DOMAIN pending : pending[i] = p
  /\ \A i, j \in DOMAIN pending : pending[i] = pending[j] => i = j
  /\ \A p \in Package : pins[p] # Absent <=> \E i \in 1..at : pending[i] = p

\* A pin was released, and met what was asked of its package when it was settled.
PinsFit ==
  \A p \in Package : pins[p] # Absent =>
    /\ settled[p] \in Ranges /\ pins[p] \in settled[p]
    /\ pins[p] \in Selectable(problem, p)

\* The requirements take in those of the root and of every pin.
RequirementsFolded ==
  /\ \A i \in DOMAIN problem.root :
       LET r == problem.root[i]
       IN required[r.package] \in Ranges /\ required[r.package] \subseteq r.constraint
  /\ \A p \in Package : pins[p] # Absent =>
       \A d \in Requires(problem, p, pins[p]) :
         required[d] \in Ranges /\ required[d] \subseteq problem.deps[p][pins[p]][d]

\* The sets Reachable takes the least of.
Closed(S) ==
  /\ \A i \in DOMAIN problem.root : problem.root[i].package \in S
  /\ \A p \in S : pins[p] # Absent => Requires(problem, p, pins[p]) \subseteq S

\* Nothing is required that the root and the pins do not lead to.
NothingSpare == \A S \in SUBSET Package : Closed(S) => Named(required) \subseteq S

\* A pin departs from the lock only where its requirements do.
LockKept ==
  \A p \in Package : pins[p] # Absent =>
    /\ asked[p] = settled[p] \cap problem.constraints[p]
    /\ pins[p] = preferred[p]
       \/ preferred[p] \notin required[p] \cap problem.constraints[p]

\* The trail allows a package still to be looked at what is required of it.
TrailFollows ==
  \A p \in Package :
    /\ required[p] = NoRange => ~Assigned(trail, p)
    /\ required[p] # NoRange /\ pins[p] = Absent =>
         /\ required[p] # {} /\ Assigned(trail, p)
         /\ Positive(trail, p) = required[p] /\ Negative(trail, p) = {}

Model ==
  Queued /\ PinsFit /\ RequirementsFolded /\ NothingSpare /\ LockKept /\ TrailFollows

TrialInv ==
  /\ TrialTypeOK
  /\ outcome = "fresh" => /\ pins = [p \in Package |-> Absent] /\ at = 0
                          /\ settled = Nothing /\ asked = Nothing
  /\ outcome \in {"growing", "rechecking", "accepted"} => Model
  /\ outcome \in {"rechecking", "accepted"} => at = Len(pending)
  /\ outcome = "accepted" => Narrowed = {}

\* The level of the next decision is a number.
LEMMA LevelNat == Level \in Nat
<1>1. Pinned \subseteq Package
  BY DEF Pinned
<1>2. IsFiniteSet(Pinned)
  BY <1>1, TrialAssumption, FS_Subset
<1>3. QED BY <1>2, FS_CardinalityType DEF Level

\* An order of a set of packages lists each of them once, and nothing else.
LEMMA OrdersForm ==
  ASSUME NEW S \in SUBSET Package, NEW order \in Orders(S)
  PROVE  /\ order \in Seq(Package) /\ DOMAIN order = 1..Len(order)
         /\ \A i \in DOMAIN order : order[i] \in S
         /\ \A x \in S : \E i \in DOMAIN order : order[i] = x
         /\ \A i, j \in DOMAIN order : order[i] = order[j] => i = j
<1>1. Cardinality(S) \in Nat
  BY TrialAssumption, FS_Subset, FS_CardinalityType
<1>2. order \in [1..Cardinality(S) -> S]
  BY DEF Orders
<1>3. order \in Seq(Package) /\ DOMAIN order = 1..Len(order)
  BY <1>1, <1>2
<1>4. \A x \in S : \E i \in DOMAIN order : \A j \in DOMAIN order : order[j] = x <=> i = j
  BY DEF Orders
<1>5. \A x \in S : \E i \in DOMAIN order : order[i] = x
  BY <1>4
<1>6. ASSUME NEW i \in DOMAIN order, NEW j \in DOMAIN order, order[i] = order[j]
      PROVE  i = j
  <2>1. order[i] \in S
    BY <1>2, <1>6
  <2>2. PICK k \in DOMAIN order : \A l \in DOMAIN order : order[l] = order[i] <=> k = l
    BY <1>4, <2>1
  <2>3. QED BY <1>6, <2>2
<1>7. QED BY <1>2, <1>3, <1>5, <1>6

\* Derive changes the packages it names, each as one requirement more would.
LEMMA DeriveForm ==
  ASSUME NEW old \in Seq(Assignment), NEW S \in SUBSET Package, NEW order \in Orders(S),
         NEW range, \A q \in S : range[q] \in Ranges,
         NEW cause, \A q \in S : cause[q] \in Clause
  PROVE  LET new == Derive(old, order, range, cause) IN
         /\ new \in Seq(Assignment)
         /\ \A q \in Node \ S :
              /\ Assigned(new, q) = Assigned(old, q)
              /\ Positive(new, q) = Positive(old, q)
              /\ Negative(new, q) = Negative(old, q)
         /\ \A q \in S :
              /\ Assigned(new, q)
              /\ Positive(new, q) = Both(Positive(old, q), range[q])
              /\ Negative(new, q) = Negative(old, q)
              /\ Effective(new, q) = Positive(new, q) \ Negative(new, q)
<1> DEFINE a(q) == Derivation(old, Level, q, In(range[q]), cause[q])
           tail == [i \in DOMAIN order |-> a(order[i])]
           new == Derive(old, order, range, cause)
           n == Len(old)
<1>1. /\ order \in Seq(Package) /\ DOMAIN order = 1..Len(order) /\ Len(order) \in Nat
      /\ \A i \in DOMAIN order : order[i] \in S
      /\ \A x \in S : \E i \in DOMAIN order : order[i] = x
      /\ \A i, j \in DOMAIN order : order[i] = order[j] => i = j
  BY OrdersForm
<1>2. ASSUME NEW q \in S
      PROVE  /\ a(q) \in Assignment /\ a(q).package = q
             /\ a(q).cum_positive = Both(Positive(old, q), range[q])
             /\ a(q).cum_negative = Negative(old, q)
             /\ a(q).cum_positive # NoRange
  <2>1. /\ In(range[q]) \in Term /\ In(range[q]).positive
        /\ In(range[q]).constraint = range[q]
    BY InForm
  <2>2. a(q) \in Assignment /\ a(q).package = q /\ a(q).cum_positive # NoRange
    BY <2>1, LevelNat, NodeForm, DerivationForm
  <2>3. QED BY <2>1, <2>2 DEF Derivation, Both
<1>3. /\ tail \in Seq(Assignment) /\ Len(tail) = Len(order)
      /\ \A i \in DOMAIN order : tail[i] = a(order[i])
  BY <1>1, <1>2
<1>4. new = old \o tail
  BY DEF Derive
<1> HIDE DEF tail, new
<1>5. /\ new \in Seq(Assignment) /\ n \in Nat /\ Len(new) = n + Len(order)
      /\ DOMAIN new = 1..(n + Len(order)) /\ DOMAIN old = 1..n
      /\ \A i \in 1..n : new[i] = old[i]
      /\ \A i \in 1..Len(order) : new[n + i] = tail[i]
  <2>1. new \in Seq(Assignment) /\ n \in Nat /\ Len(new) = n + Len(order)
    BY <1>3, <1>4, ConcatProperties
  <2>2. \A i \in 1..Len(new) : new[i] = IF i <= n THEN old[i] ELSE tail[i - n]
    BY <1>3, <1>4, ConcatProperties
  <2>3. DOMAIN new = 1..(n + Len(order)) /\ DOMAIN old = 1..n
    BY <2>1
  <2> HIDE DEF n
  <2>4. \A i \in 1..n : i \in 1..Len(new) /\ i <= n
    BY <1>1, <2>1
  <2>5. \A i \in 1..Len(order) : n + i \in 1..Len(new) /\ ~(n + i <= n) /\ (n + i) - n = i
    BY <1>1, <2>1
  <2>6. QED BY <2>1, <2>2, <2>3, <2>4, <2>5
<1>6. ASSUME NEW i \in DOMAIN new
      PROVE  \/ i \in DOMAIN old /\ new[i] = old[i]
             \/ i - n \in DOMAIN order /\ new[i] = a(order[i - n])
  <2>1. i \in 1..n \/ i - n \in 1..Len(order)
    BY <1>1, <1>5
  <2>2. CASE i \in 1..n
    BY <1>5, <2>2
  <2>3. CASE i - n \in 1..Len(order)
    <3>1. n + (i - n) = i
      BY <1>5
    <3>2. QED BY <1>1, <1>3, <1>5, <2>3, <3>1
  <2>4. QED BY <2>1, <2>2, <2>3
<1>7. ASSUME NEW q \in Node \ S
      PROVE  /\ Assigned(new, q) = Assigned(old, q)
             /\ Positive(new, q) = Positive(old, q)
             /\ Negative(new, q) = Negative(old, q)
  <2>1. Entries(new, q) \subseteq Entries(old, q)
    BY <1>1, <1>2, <1>6 DEF Entries
  <2>2. Entries(old, q) \subseteq Entries(new, q)
    BY <1>1, <1>5 DEF Entries
  <2>3. Entries(new, q) = Entries(old, q)
    BY <2>1, <2>2
  <2>4. Assigned(new, q) = Assigned(old, q)
    BY <2>3 DEF Assigned
  <2>5. Assigned(old, q) => LastOf(new, q) = LastOf(old, q)
    <3>1. SUFFICES ASSUME Assigned(old, q) PROVE LastOf(new, q) = LastOf(old, q)
      OBVIOUS
    <3>2. Max(Entries(old, q)) \in Entries(old, q)
      BY <3>1, LastEntry
    <3>3. Max(Entries(old, q)) \in 1..n
      BY <3>2, EntriesForm
    <3>4. QED BY <1>5, <2>3, <3>3 DEF LastOf
  <2>6. QED BY <2>4, <2>5 DEF Positive, Negative
<1>8. ASSUME NEW q \in S
      PROVE  /\ Assigned(new, q)
             /\ Positive(new, q) = Both(Positive(old, q), range[q])
             /\ Negative(new, q) = Negative(old, q)
             /\ Effective(new, q) = Positive(new, q) \ Negative(new, q)
  <2>1. PICK k \in DOMAIN order : order[k] = q
    BY <1>1
  <2>2. n + k \in Entries(new, q)
    <3>1. k \in 1..Len(order) /\ n + k \in 1..(n + Len(order))
      BY <1>1, <1>5, <2>1
    <3>2. new[n + k] = a(q)
      BY <1>3, <1>5, <2>1, <3>1
    <3>3. QED BY <1>2, <1>5, <3>1, <3>2 DEF Entries
  <2>3. \A i \in Entries(new, q) : i <= n + k
    <3>1. SUFFICES ASSUME NEW i \in Entries(new, q) PROVE i <= n + k
      OBVIOUS
    <3>2. i \in DOMAIN new /\ new[i].package = q
      BY DEF Entries
    <3>3. CASE i \in DOMAIN old
      BY <1>1, <1>5, <3>3
    <3>4. CASE i - n \in DOMAIN order /\ new[i] = a(order[i - n])
      BY <1>1, <1>2, <1>5, <2>1, <3>2, <3>4
    <3>5. QED BY <1>6, <3>2, <3>3, <3>4
  <2>4. Assigned(new, q)
    BY <2>2 DEF Assigned
  <2>5. LastOf(new, q) = new[n + k]
    <3> DEFINE m == Max(Entries(new, q))
    <3>1. /\ m \in Entries(new, q) /\ LastOf(new, q) = new[m]
          /\ \A i \in Entries(new, q) : i <= m
      BY <1>5, <2>4, LastEntry
    <3>2. m \in Nat /\ n + k \in Nat
      BY <1>1, <1>5, <3>1, EntriesForm
    <3> HIDE DEF m
    <3>3. m = n + k
      BY <2>2, <2>3, <3>1, <3>2
    <3>4. QED BY <3>1, <3>3
  <2>6. LastOf(new, q) = a(q)
    BY <1>1, <1>3, <1>5, <2>1, <2>5
  <2>7. QED BY <1>2, <1>5, <2>4, <2>6, LastForm DEF Positive, Negative
<1>9. QED BY <1>5, <1>7, <1>8 DEF new

\* The clauses the trail cites as reasons, and those of a decision, are clauses.
LEMMA ReasonsForm ==
  ASSUME NEW prob \in ProblemType
  PROVE  /\ \A r \in Requirement : RootClause(r) \in Clause
         /\ \A p \in Package : \A v \in Version : \A d \in Requires(prob, p, v) \ {p} :
              DependencyClause(p, {v}, d, prob.deps[p][v][d]) \in Clause
<1>1. ASSUME NEW r \in Requirement PROVE RootClause(r) \in Clause
  <2>1. r.package \in Package /\ r.constraint \in Ranges /\ {RootVersion} \in Ranges
    BY RootVersionAssumption DEF Requirement, Ranges
  <2>2. RootClause(r).terms \in TermMap
    BY <2>1, NodeForm, InForm, TermMapForm DEF RootClause
  <2>3. QED BY <2>2, NodeForm DEF RootClause, Clause, Causes
<1>2. ASSUME NEW p \in Package, NEW v \in Version, NEW d \in Requires(prob, p, v) \ {p}
      PROVE  DependencyClause(p, {v}, d, prob.deps[p][v][d]) \in Clause
  <2>1. {v} \in ParentRanges(prob, p, v)
    BY DEF ParentRanges, Ranges
  <2>2. DependencyClause(p, {v}, d, prob.deps[p][v][d])
          \in DependencyClauses(prob, p, v, {v})
    BY DEF DependencyClauses
  <2>3. QED BY <2>1, <2>2, DependencyClausesGood DEF Good
<1>3. QED BY <1>1, <1>2

\* A trail with a decision on p leaves every other package as it was.
LEMMA DecidedForm ==
  ASSUME NEW old \in Seq(Assignment), NEW p \in Node, NEW v \in Version,
         NEW level \in Nat
  PROVE  LET new == Append(old, Decision(old, level, p, v)) IN
         /\ new \in Seq(Assignment)
         /\ \A q : q # p => /\ Assigned(new, q) = Assigned(old, q)
                            /\ Positive(new, q) = Positive(old, q)
                            /\ Negative(new, q) = Negative(old, q)
<1>1. PICK a \in Assignment : a = Decision(old, level, p, v) /\ a.package = p
  BY DecisionForm
<1>2. Append(old, a) \in Seq(Assignment)
  BY AppendEntries
<1>3. \A q : q # p => /\ Assigned(Append(old, a), q) = Assigned(old, q)
                      /\ Positive(Append(old, a), q) = Positive(old, q)
                      /\ Negative(Append(old, a), q) = Negative(old, q)
  BY <1>1, AppendOther
<1>4. QED BY <1>1, <1>2, <1>3

\* A trail of no entries has assigned nothing.
LEMMA EmptyTrail ==
  /\ << >> \in Seq(Assignment)
  /\ \A q : /\ ~Assigned(<< >>, q)
            /\ Positive(<< >>, q) = NoRange /\ Negative(<< >>, q) = {}
BY DEF Assigned, Entries, Positive, Negative

\* The folded root requirements.
LEMMA RootRangeForm ==
  ASSUME NEW prob \in ProblemType, NEW p \in Package
  PROVE  /\ RootRange(prob, p) \in {NoRange} \cup Ranges
         /\ RootRange(prob, p) # NoRange
              <=> \E i \in DOMAIN prob.root : prob.root[i].package = p
         /\ \A i \in DOMAIN prob.root :
              prob.root[i].package = p =>
                RootRange(prob, p) \subseteq prob.root[i].constraint
<1>1. NoRange \notin Ranges
  BY NoRangeApart
<1>2. QED BY <1>1 DEF RootRange, Ranges

LEMMA InitTrial == Init => TrialInv
<1> SUFFICES ASSUME Init PROVE TrialInv
  OBVIOUS
<1>1. preferred \in [Package -> Version \cup {Absent}]
  BY TrialAssumption DEF Init
<1>2. Nothing \in [Package -> {NoRange} \cup Ranges]
  BY DEF Nothing
<1>3. TrialTypeOK
  BY <1>1, <1>2 DEF Init, TrialTypeOK
<1>4. QED BY <1>3 DEF Init, TrialInv

\* A refused trial keeps its types, which is all that is asked of it.
LEMMA RefusedInv ==
  ASSUME TrialTypeOK, Refuse, UNCHANGED <<problem, preferred>>,
         at' \in 0..Len(pending), rounds' \in Nat
  PROVE  TrialInv'
<1>1. TrialTypeOK'
  BY DEF TrialTypeOK, Refuse
<1>2. outcome' = "refused"
  BY DEF Refuse
<1>3. QED BY <1>1, <1>2 DEF TrialInv

LEMMA StartStep == ASSUME TrialInv, Start PROVE TrialInv'
<1> DEFINE folded == [p \in Package |-> RootRange(problem, p)]
           cause == [p \in Package |->
                       RootClause([package |-> p, constraint |-> folded[p]])]
           old == <<Decision(<< >>, 1, ROOT, RootVersion)>>
<1>1. /\ TrialTypeOK /\ problem \in ProblemType
      /\ pins = [p \in Package |-> Absent] /\ at = 0
  BY ProblemsAssumption DEF TrialInv, TrialTypeOK, Start
<1>2. CASE Empty(folded)
  <2>1. Refuse /\ UNCHANGED <<problem, preferred, at, rounds>>
    BY <1>2 DEF Start
  <2>2. at' \in 0..Len(pending) /\ rounds' \in Nat
    BY <1>1, <2>1 DEF TrialTypeOK
  <2>3. QED BY <1>1, <2>1, <2>2, RefusedInv
<1>3. CASE ~Empty(folded)
  <2>1. PICK order \in Orders(Named(folded)) :
          /\ outcome' = "growing" /\ pending' = order /\ required' = folded
          /\ trail' = Derive(old, order, folded, cause)
          /\ formula' = {RootClause(problem.root[i]) : i \in DOMAIN problem.root}
          /\ UNCHANGED <<pins, settled, asked, problem, preferred, at, rounds>>
    BY <1>3 DEF Start
  <2>2. /\ folded \in [Package -> {NoRange} \cup Ranges]
        /\ \A p \in Package : folded[p] = RootRange(problem, p)
        /\ \A p \in Package : folded[p] # {}
    BY <1>1, <1>3, RootRangeForm DEF Empty
  <2> HIDE DEF folded
  <2>3. /\ Named(folded) \in SUBSET Package
        /\ \A q \in Named(folded) : folded[q] \in Ranges
        /\ \A q \in Package \ Named(folded) : folded[q] = NoRange
    BY <2>2 DEF Named
  <2>4. \A q \in Named(folded) : cause[q] \in Clause
    <3>1. \A q \in Named(folded) :
            [package |-> q, constraint |-> folded[q]] \in Requirement
      BY <2>3 DEF Requirement
    <3>2. QED BY <1>1, <2>3, <3>1, ReasonsForm
  <2> HIDE DEF cause
  <2>5. /\ old \in Seq(Assignment)
        /\ \A q \in Package : /\ ~Assigned(old, q)
                              /\ Positive(old, q) = NoRange /\ Negative(old, q) = {}
    <3>1. old = Append(<< >>, Decision(<< >>, 1, ROOT, RootVersion))
      OBVIOUS
    <3>2. QED BY <3>1, EmptyTrail, NodeForm, RootVersionAssumption, DecidedForm
  <2> HIDE DEF old
  <2>6. /\ trail' \in Seq(Assignment)
        /\ \A q \in Package \ Named(folded) :
             Assigned(trail', q) = Assigned(old, q)
        /\ \A q \in Named(folded) :
             /\ Assigned(trail', q)
             /\ Positive(trail', q) = Both(Positive(old, q), folded[q])
             /\ Negative(trail', q) = Negative(old, q)
    BY <2>1, <2>3, <2>4, <2>5, NodeForm, DeriveForm
  <2>7. /\ order \in Seq(Package) /\ DOMAIN order = 1..Len(order)
        /\ \A i \in DOMAIN order : order[i] \in Named(folded)
        /\ \A x \in Named(folded) : \E i \in DOMAIN order : order[i] = x
        /\ \A i, j \in DOMAIN order : order[i] = order[j] => i = j
    BY <2>3, OrdersForm
  <2>8. \A i \in DOMAIN problem.root :
          /\ problem.root[i] \in Requirement /\ problem.root[i].package \in Package
    BY <1>1, ProblemForm
  <2>9. TrialTypeOK'
    <3>1. formula' \subseteq Clause
      BY <1>1, <2>1, <2>8, ReasonsForm
    <3>2. at' \in 0..Len(pending')
      BY <1>1, <2>1, <2>7
    <3>3. QED BY <1>1, <2>1, <2>2, <2>6, <2>7, <3>1, <3>2 DEF TrialTypeOK
  <2>10. Queued'
    BY <1>1, <2>1, <2>3, <2>7 DEF Queued, Named
  <2>11. PinsFit' /\ LockKept'
    BY <1>1, <2>1 DEF PinsFit, LockKept
  <2>12. RequirementsFolded'
    <3>1. \A i \in DOMAIN problem.root :
            /\ folded[problem.root[i].package] \in Ranges
            /\ folded[problem.root[i].package] \subseteq problem.root[i].constraint
      BY <1>1, <2>2, <2>8, RootRangeForm
    <3>2. QED BY <1>1, <2>1, <3>1 DEF RequirementsFolded
  <2>13. NothingSpare'
    <3>1. \A q \in Named(folded) :
            \E i \in DOMAIN problem.root : problem.root[i].package = q
      BY <1>1, <2>2, RootRangeForm DEF Named
    <3>2. QED BY <2>1, <3>1 DEF NothingSpare, Closed
  <2>14. TrailFollows'
    <3>1. \A q \in Named(folded) : Both(NoRange, folded[q]) = folded[q]
      BY DEF Both
    <3>2. \A q \in Package :
            /\ folded[q] = NoRange => ~Assigned(trail', q)
            /\ folded[q] # NoRange =>
                 /\ Assigned(trail', q)
                 /\ Positive(trail', q) = folded[q] /\ Negative(trail', q) = {}
      BY <2>3, <2>5, <2>6, <3>1 DEF Named
    <3>3. \A q \in Package :
            /\ required'[q] = NoRange => ~Assigned(trail', q)
            /\ required'[q] # NoRange =>
                 /\ required'[q] # {} /\ Assigned(trail', q)
                 /\ Positive(trail', q) = required'[q] /\ Negative(trail', q) = {}
      BY <2>1, <2>2, <3>2
    <3>4. QED BY <3>3 DEF TrailFollows, Assigned, Positive, Negative
  <2>15. QED BY <2>1, <2>9, <2>10, <2>11, <2>12, <2>13, <2>14 DEF TrialInv, Model
<1>4. QED BY <1>2, <1>3

\* What is known of the package looked at next: it is required, not pinned, and the
\* trail allows it what is required of it.
LEMMA NextForm ==
  ASSUME TrialInv, outcome = "growing", at < Len(pending)
  PROVE  LET p == pending[at + 1] IN
         /\ p \in Package /\ pins[p] = Absent
         /\ required[p] \in Ranges /\ required[p] # {}
         /\ Effective(trail, p) = required[p]
         /\ Asked(problem, trail, p) = required[p] \cap problem.constraints[p]
<1> DEFINE p == pending[at + 1]
<1>1. /\ at + 1 \in DOMAIN pending /\ at \in Nat /\ Len(pending) \in Nat
      /\ pending \in Seq(Package) /\ p \in Package
      /\ required \in [Package -> {NoRange} \cup Ranges]
  BY DEF TrialInv, TrialTypeOK
<1>2. Queued /\ TrailFollows
  BY DEF TrialInv, Model
<1>3. \A i \in 1..at : i \in DOMAIN pending /\ i # at + 1
  BY <1>1
<1>4. pins[p] = Absent /\ required[p] # NoRange
  BY <1>1, <1>2, <1>3 DEF Queued
<1>5. required[p] \in Ranges /\ required[p] # {}
  BY <1>1, <1>2, <1>4 DEF TrailFollows
<1>6. /\ Assigned(trail, p) /\ Positive(trail, p) = required[p] /\ Negative(trail, p) = {}
  BY <1>1, <1>2, <1>4 DEF TrailFollows
<1>7. trail \in Seq(Assignment)
  BY DEF TrialInv, TrialTypeOK
<1>8. Effective(trail, p) = required[p] \ {}
  BY <1>4, <1>6, <1>7, LastForm
<1>9. Effective(trail, p) = required[p]
  BY <1>8
<1>10. Asked(problem, trail, p) = required[p] \cap problem.constraints[p]
  BY <1>5, <1>9 DEF Asked
<1>11. QED BY <1>1, <1>4, <1>5, <1>9, <1>10

\* An answer with a version offers one that was released, and that the requirements
\* and the user's constraint allow.
LEMMA AnswerForm ==
  ASSUME NEW prob \in ProblemType, NEW old, NEW p \in Package,
         Effective(old, p) \in Ranges, Effective(old, p) # {},
         NEW answer \in Answers(prob, old, p), answer.version # Absent
  PROVE  /\ answer.version \in Version /\ answer.version \in Effective(old, p)
         /\ answer.version \in Selectable(prob, p)
         /\ answer.pending \subseteq Clause
<1>1. AnswerOK(prob, old, p, answer)
  BY AnswersOK
<1>2. answer.version \in Candidates(prob, old, p)
  <2>1. CASE answer \in ScanAnswers(prob, old, p)
    BY <2>1 DEF ScanAnswers
  <2>2. CASE answer \in AbortAnswers(prob, old, p)
    <3>1. \E d \in Package : answer \in Aborted(prob, old, p, d)
      BY <2>2 DEF AbortAnswers
    <3>2. QED BY <3>1 DEF Aborted, BlockedBy
  <2>3. CASE ~LookAhead
    BY <2>3 DEF Answers, Plain
  <2>4. QED BY <2>1, <2>2, <2>3 DEF Answers
<1>3. QED BY <1>1, <1>2, CandidatesForm DEF AnswerOK, Good, Selectable

LEMMA AcceptStep ==
  ASSUME TrialInv, outcome = "growing", at < Len(pending),
         at' = at + 1, rounds' = rounds + 1, UNCHANGED <<problem, preferred>>,
         NEW answer \in Answers(problem, trail, pending[at + 1]),
         answer.version # Absent,
         NEW order \in Orders(Requires(problem, pending[at + 1], answer.version)
                                \ {pending[at + 1]}),
         Accept(answer, order)
  PROVE  TrialInv'
<1> DEFINE p == pending[at + 1]
           v == answer.version
           deps == problem.deps[p][v]
           names == Requires(problem, p, v) \ {p}
           decided == Append(trail, Decision(trail, Level, p, v))
           cause == [d \in Package |-> DependencyClause(p, {v}, d, deps[d])]
           fresh == Requires(problem, p, v) \ (Named(required) \cup {p})
           now == Requirements(p, v)
<1>1. /\ TrialTypeOK /\ Model /\ problem \in ProblemType /\ trail \in Seq(Assignment)
      /\ at \in Nat /\ at + 1 \in DOMAIN pending /\ DOMAIN pending = 1..Len(pending)
      /\ Len(pending) \in Nat
      /\ pending \in Seq(Package)
      /\ required \in [Package -> {NoRange} \cup Ranges]
      /\ pins \in [Package -> Version \cup {Absent}]
  BY ProblemsAssumption DEF TrialInv, TrialTypeOK
<1>2. /\ p \in Package /\ pins[p] = Absent
      /\ required[p] \in Ranges /\ required[p] # {}
      /\ Effective(trail, p) = required[p]
      /\ Asked(problem, trail, p) = required[p] \cap problem.constraints[p]
  BY NextForm
<1>3. /\ v \in Version /\ v # Absent /\ v \in required[p]
      /\ v \in Selectable(problem, p) /\ answer.pending \subseteq Clause
  BY <1>1, <1>2, AnswerForm
<1>4. PICK first \in Orders(fresh) : pending' = pending \o first
  BY DEF Accept
<1>5. /\ ~Unforced(p, v) /\ ~Misfits(p, v, Grown(p, v, order))
      /\ trail' = Grown(p, v, order)
      /\ formula' = formula \cup answer.pending
      /\ pins' = [pins EXCEPT ![p] = v]
      /\ settled' = [settled EXCEPT ![p] = required[p]]
      /\ asked' = [asked EXCEPT ![p] = Asked(problem, trail, p)]
      /\ required' = now /\ outcome' = "growing"
  BY DEF Accept
<1>6. trail' = Derive(decided, order, deps, cause)
  BY <1>5 DEF Grown
<1>7. /\ \A q \in Package : q # p => pins'[q] = pins[q]
      /\ pins'[p] = v
      /\ pins' \in [Package -> Version \cup {Absent}]
  BY <1>1, <1>2, <1>3, <1>5
<1>8. /\ \A d \in Requires(problem, p, v) : d \in Package /\ deps[d] \in Ranges
      /\ names \in SUBSET Package /\ fresh \in SUBSET Package
      /\ Requires(problem, p, v) \subseteq Package
  BY <1>1, <1>2, <1>3, RequiresForm DEF Requires
<1>9. /\ now \in [Package -> {NoRange} \cup Ranges]
      /\ \A d \in Requires(problem, p, v) :
           /\ now[d] = Both(required[d], deps[d]) /\ now[d] \in Ranges
           /\ now[d] \subseteq deps[d]
      /\ \A d \in Package \ Requires(problem, p, v) : now[d] = required[d]
      /\ \A d \in Package : required[d] # NoRange =>
           now[d] \in Ranges /\ now[d] \subseteq required[d]
  <2>1. ASSUME NEW d \in Requires(problem, p, v)
        PROVE  /\ now[d] = Both(required[d], deps[d]) /\ now[d] \in Ranges
               /\ now[d] \subseteq deps[d]
               /\ required[d] # NoRange => now[d] \subseteq required[d]
    <3>1. now[d] = Both(required[d], deps[d])
      BY <1>8, <2>1 DEF Requirements
    <3>2. required[d] \in {NoRange} \cup Ranges /\ deps[d] \in Ranges
      BY <1>1, <1>8, <2>1
    <3>3. QED BY <3>1, <3>2 DEF Both, Ranges
  <2>2. \A d \in Package \ Requires(problem, p, v) : now[d] = required[d]
    BY DEF Requirements
  <2>3. now \in [Package -> {NoRange} \cup Ranges]
    <3>1. \A d \in Package : now[d] \in {NoRange} \cup Ranges
      BY <1>1, <2>1, <2>2
    <3>2. QED BY <3>1 DEF Requirements
  <2>4. QED BY <1>1, <2>1, <2>2, <2>3
<1> HIDE DEF now, p, v
<1>10. /\ first \in Seq(Package) /\ DOMAIN first = 1..Len(first) /\ Len(first) \in Nat
       /\ \A i \in DOMAIN first : first[i] \in fresh
       /\ \A x \in fresh : \E i \in DOMAIN first : first[i] = x
       /\ \A i, j \in DOMAIN first : first[i] = first[j] => i = j
  <2> HIDE DEF fresh
  <2>1. /\ first \in Seq(Package) /\ DOMAIN first = 1..Len(first)
        /\ \A i \in DOMAIN first : first[i] \in fresh
        /\ \A x \in fresh : \E i \in DOMAIN first : first[i] = x
        /\ \A i, j \in DOMAIN first : first[i] = first[j] => i = j
    BY <1>8, OrdersForm
  <2>2. QED BY <2>1
<1>11. /\ pending' \in Seq(Package) /\ Len(pending') = Len(pending) + Len(first)
       /\ DOMAIN pending' = 1..(Len(pending) + Len(first))
       /\ \A i \in DOMAIN pending : i \in DOMAIN pending' /\ pending'[i] = pending[i]
       /\ \A i \in DOMAIN first : /\ Len(pending) + i \in DOMAIN pending'
                                  /\ pending'[Len(pending) + i] = first[i]
       /\ \A i \in DOMAIN pending' : i \in DOMAIN pending
                                     \/ i - Len(pending) \in DOMAIN first
  <2> DEFINE n == Len(pending)
  <2>1. /\ pending' \in Seq(Package) /\ Len(pending') = n + Len(first)
        /\ \A i \in 1..(n + Len(first)) :
             pending'[i] = IF i <= n THEN pending[i] ELSE first[i - n]
    BY <1>1, <1>4, <1>10, ConcatProperties
  <2>2. DOMAIN pending' = 1..(n + Len(first)) /\ n \in Nat
    BY <1>1, <2>1
  <2> HIDE DEF n
  <2>3. \A i \in 1..n : i \in 1..(n + Len(first)) /\ i <= n
    BY <1>10, <2>2
  <2>4. \A i \in 1..Len(first) :
          n + i \in 1..(n + Len(first)) /\ ~(n + i <= n) /\ (n + i) - n = i
    BY <1>10, <2>2
  <2>5. \A i \in 1..(n + Len(first)) : i \in 1..n \/ i - n \in 1..Len(first)
    BY <1>10, <2>2
  <2>6. QED BY <1>1, <1>10, <2>1, <2>2, <2>3, <2>4, <2>5 DEF n
<1>12. Queued'
  <2>1. \A q \in Package : now[q] # NoRange <=> q \in Named(required) \/ q \in fresh
    BY <1>2, <1>8, <1>9, NoRangeApart DEF Named
  <2>2. Queued
    BY <1>1 DEF Model
  <2>3. \A i \in DOMAIN pending' : now[pending'[i]] # NoRange
    <3>1. ASSUME NEW i \in DOMAIN pending PROVE now[pending[i]] # NoRange
      BY <1>1, <2>1, <2>2 DEF Queued, Named
    <3>2. ASSUME NEW i \in DOMAIN first PROVE now[first[i]] # NoRange
      BY <1>8, <1>10, <2>1
    <3>3. ASSUME NEW i \in DOMAIN pending', i - Len(pending) \in DOMAIN first
          PROVE  pending'[i] = first[i - Len(pending)]
      <4>1. Len(pending) + (i - Len(pending)) = i
        BY <1>1, <1>10, <1>11
      <4>2. QED BY <1>11, <3>3, <4>1
    <3>4. QED BY <1>11, <3>1, <3>2, <3>3
  <2>4. ASSUME NEW q \in Package, now[q] # NoRange
        PROVE  \E i \in DOMAIN pending' : pending'[i] = q
    <3>1. CASE q \in Named(required)
      BY <1>11, <2>2, <3>1 DEF Queued
    <3>2. CASE q \in fresh
      BY <1>10, <1>11, <3>2
    <3>3. QED BY <2>1, <2>4, <3>1, <3>2
  <2>5. ASSUME NEW i \in DOMAIN pending', NEW j \in DOMAIN pending',
               pending'[i] = pending'[j]
        PROVE  i = j
    <3> DEFINE n == Len(pending)
    <3>1. /\ i \in Int /\ j \in Int /\ n \in Nat
      BY <1>1, <1>11
    <3>2. ASSUME NEW k \in DOMAIN pending', k - n \in DOMAIN first
          PROVE  pending'[k] = first[k - n] /\ pending'[k] \in fresh
      <4>1. n + (k - n) = k
        BY <1>1, <1>10, <1>11
      <4>2. QED BY <1>10, <1>11, <3>2, <4>1
    <3>3. ASSUME NEW k \in DOMAIN pending'
          PROVE  k \in DOMAIN pending => pending'[k] = pending[k] /\ pending'[k] \notin fresh
      BY <1>1, <1>11, <2>2, <3>3 DEF Queued, Named
    <3>4. CASE i \in DOMAIN pending /\ j \in DOMAIN pending
      BY <2>2, <2>5, <3>3, <3>4 DEF Queued
    <3>5. CASE i - n \in DOMAIN first /\ j - n \in DOMAIN first
      <4>1. i - n = j - n
        BY <1>10, <2>5, <3>2, <3>5
      <4>2. QED BY <3>1, <4>1
    <3>6. QED BY <1>11, <2>5, <3>2, <3>3, <3>4, <3>5
  <2>6. \A q \in Package : pins'[q] # Absent <=> \E i \in 1..(at + 1) : pending'[i] = q
    <3>1. \A i \in 1..(at + 1) : i \in DOMAIN pending /\ (i \in 1..at \/ i = at + 1)
      BY <1>1
    <3>2. \A i \in 1..at : i \in 1..(at + 1)
      BY <1>1
    <3>3. at + 1 \in 1..(at + 1)
      BY <1>1
    <3>4. ASSUME NEW q \in Package
          PROVE  pins'[q] # Absent <=> \E i \in 1..(at + 1) : pending'[i] = q
      <4>1. pins'[q] # Absent <=> q = p \/ \E i \in 1..at : pending[i] = q
        BY <1>3, <1>7, <2>2, <3>4 DEF Queued
      <4>2. QED BY <1>11, <3>1, <3>2, <3>3, <4>1 DEF p
    <3>5. QED BY <3>4
  <2>7. QED BY <1>5, <1>9, <2>3, <2>4, <2>5, <2>6 DEF Queued, Named
<1>13. \A q \in Package :
         /\ settled'[q] = IF q = p THEN required[p] ELSE settled[q]
         /\ asked'[q] = IF q = p THEN required[p] \cap problem.constraints[p]
                                 ELSE asked[q]
  BY <1>1, <1>2, <1>5 DEF TrialTypeOK
<1>14. PinsFit'
  BY <1>1, <1>2, <1>3, <1>7, <1>13 DEF Model, PinsFit, Selectable
<1>15. RequirementsFolded'
  <2>1. RequirementsFolded
    BY <1>1 DEF Model
  <2>2. \A i \in DOMAIN problem.root :
          /\ now[problem.root[i].package] \in Ranges
          /\ now[problem.root[i].package] \subseteq problem.root[i].constraint
    BY <1>1, <1>9, <2>1, NoRangeApart, ProblemForm DEF RequirementsFolded
  <2>3. ASSUME NEW q \in Package, pins'[q] # Absent,
               NEW d \in Requires(problem, q, pins'[q])
        PROVE  now[d] \in Ranges /\ now[d] \subseteq problem.deps[q][pins'[q]][d]
    <3>1. CASE q = p
      BY <1>7, <1>9, <2>3, <3>1
    <3>2. CASE q # p
      <4>1. pins'[q] = pins[q] /\ d \in Package
        BY <1>7, <2>3, <3>2 DEF Requires
      <4>2. required[d] \in Ranges /\ required[d] \subseteq problem.deps[q][pins[q]][d]
        BY <2>1, <2>3, <4>1 DEF RequirementsFolded
      <4>3. QED BY <1>9, <4>1, <4>2, NoRangeApart
    <3>3. QED BY <3>1, <3>2
  <2>4. QED BY <1>5, <2>2, <2>3 DEF RequirementsFolded
<1>16. NothingSpare'
  <2>1. ASSUME NEW S \in SUBSET Package, Closed(S)' PROVE Named(now) \subseteq S
    <3>1. /\ \A i \in DOMAIN problem.root : problem.root[i].package \in S
          /\ \A q \in S : pins'[q] # Absent => Requires(problem, q, pins'[q]) \subseteq S
      BY <2>1 DEF Closed
    <3>2. \A q \in S : pins[q] # Absent => Requires(problem, q, pins[q]) \subseteq S
      BY <1>2, <1>7, <3>1
    <3>3. Named(required) \subseteq S
      BY <1>1, <3>1, <3>2 DEF Closed, Model, NothingSpare
    <3>4. p \in S
      BY <1>2, <3>3, NoRangeApart DEF Named
    <3>5. Requires(problem, p, v) \subseteq S
      BY <1>3, <1>7, <3>1, <3>4
    <3>6. QED BY <1>9, <3>3, <3>5 DEF Named
  <2>2. QED BY <1>5, <2>1 DEF NothingSpare, Named
<1>17. LockKept'
  <2>1. v = preferred[p] \/ preferred[p] \notin required[p] \cap problem.constraints[p]
    BY <1>5 DEF Unforced
  <2>2. \A q \in Package : pins[q] # Absent => required[q] # NoRange
    <3>1. \A i \in 1..at : i \in DOMAIN pending
      BY <1>1
    <3>2. QED BY <1>1, <3>1 DEF Model, Queued
  <2>3. \A q \in Package : pins'[q] # Absent => now[q] \subseteq required[q]
    BY <1>2, <1>7, <1>9, <2>2, NoRangeApart
  <2>4. QED BY <1>1, <1>5, <1>7, <1>13, <2>1, <2>3 DEF Model, LockKept
<1>18. /\ decided \in Seq(Assignment)
       /\ \A q \in Package : q # p =>
            /\ Assigned(decided, q) = Assigned(trail, q)
            /\ Positive(decided, q) = Positive(trail, q)
            /\ Negative(decided, q) = Negative(trail, q)
  BY <1>1, <1>2, <1>3, LevelNat, NodeForm, DecidedForm DEF p, v
<1>19. /\ trail' \in Seq(Assignment)
       /\ \A q \in Package \ names : q # p =>
            /\ Assigned(trail', q) = Assigned(trail, q)
            /\ Positive(trail', q) = Positive(trail, q)
            /\ Negative(trail', q) = Negative(trail, q)
       /\ \A q \in names :
            /\ Assigned(trail', q)
            /\ Positive(trail', q) = Both(Positive(trail, q), deps[q])
            /\ Negative(trail', q) = Negative(trail, q)
            /\ Effective(trail', q) = Positive(trail', q) \ Negative(trail', q)
  <2>1. \A q \in names : deps[q] \in Ranges /\ cause[q] \in Clause
    BY <1>1, <1>2, <1>3, <1>8, ReasonsForm
  <2>2. order \in Orders(names)
    BY DEF p, v
  <2> HIDE DEF decided, cause
  <2>3. /\ trail' \in Seq(Assignment)
        /\ \A q \in Node \ names :
              /\ Assigned(trail', q) = Assigned(decided, q)
              /\ Positive(trail', q) = Positive(decided, q)
              /\ Negative(trail', q) = Negative(decided, q)
        /\ \A q \in names :
              /\ Assigned(trail', q)
              /\ Positive(trail', q) = Both(Positive(decided, q), deps[q])
              /\ Negative(trail', q) = Negative(decided, q)
              /\ Effective(trail', q) = Positive(trail', q) \ Negative(trail', q)
    BY <1>6, <1>8, <1>18, <2>1, <2>2, DeriveForm
  <2>4. QED BY <1>8, <1>18, <2>3, NodeForm
<1>20. TrailFollows'
  <2>1. TrailFollows
    BY <1>1 DEF Model
  <2>2. \A q \in names : Effective(trail', q) # {}
    BY <1>5 DEF Misfits
  <2>3. ASSUME NEW q \in Package
        PROVE  /\ now[q] = NoRange => ~Assigned(trail', q)
               /\ now[q] # NoRange /\ pins'[q] = Absent =>
                    /\ now[q] # {} /\ Assigned(trail', q)
                    /\ Positive(trail', q) = now[q] /\ Negative(trail', q) = {}
    <3>1. CASE q = p
      BY <1>2, <1>3, <1>7, <1>9, <3>1, NoRangeApart
    <3>2. CASE q \in names
      <4>1. /\ now[q] = Both(required[q], deps[q]) /\ now[q] \in Ranges
            /\ pins'[q] = pins[q]
        BY <1>7, <1>9, <3>2
      <4>2. CASE pins[q] # Absent
        BY <4>1, <4>2, NoRangeApart
      <4>3. CASE pins[q] = Absent
        <5>1. Positive(trail, q) = required[q] /\ Negative(trail, q) = {}
          <6>1. CASE required[q] = NoRange
            BY <2>1, <2>3, <6>1 DEF TrailFollows, Positive, Negative
          <6>2. CASE required[q] # NoRange
            BY <2>1, <2>3, <4>3, <6>2 DEF TrailFollows
          <6>3. QED BY <6>1, <6>2
        <5>2. /\ Assigned(trail', q) /\ Positive(trail', q) = now[q]
              /\ Negative(trail', q) = {} /\ Effective(trail', q) = now[q] \ {}
          BY <1>19, <3>2, <4>1, <5>1
        <5>3. now[q] # {}
          BY <2>2, <3>2, <5>2
        <5>4. QED BY <4>1, <5>2, <5>3, NoRangeApart
      <4>4. QED BY <4>2, <4>3
    <3>3. CASE q # p /\ q \notin names
      <4>1. now[q] = required[q] /\ pins'[q] = pins[q]
        BY <1>7, <1>9, <3>3
      <4>2. QED BY <1>19, <2>1, <3>3, <4>1 DEF TrailFollows
    <3>4. QED BY <3>1, <3>2, <3>3
  <2>4. \A q \in Package :
          /\ required'[q] = NoRange => ~Assigned(trail', q)
          /\ required'[q] # NoRange /\ pins'[q] = Absent =>
               /\ required'[q] # {} /\ Assigned(trail', q)
               /\ Positive(trail', q) = required'[q] /\ Negative(trail', q) = {}
    BY <1>5, <2>3
  <2>5. QED BY <2>4 DEF TrailFollows, Assigned, Positive, Negative
<1>21. TrialTypeOK'
  <2>1. at' \in 0..Len(pending') /\ rounds' \in Nat
    BY <1>1, <1>10, <1>11 DEF TrialTypeOK
  <2>2. problem.constraints[p] \in Ranges
    BY <1>1, <1>2, ProblemForm
  <2>3. /\ settled' \in [Package -> {NoRange} \cup Ranges]
        /\ asked' \in [Package -> {NoRange} \cup Ranges]
    BY <1>1, <1>2, <1>5, <2>2 DEF TrialTypeOK, Ranges
  <2>4. QED BY <1>1, <1>3, <1>5, <1>7, <1>9, <1>11, <1>19, <2>1, <2>3 DEF TrialTypeOK
<1>22. QED BY <1>5, <1>12, <1>14, <1>15, <1>16, <1>17, <1>20, <1>21 DEF TrialInv, Model

\* The next package of the queue, refused or accepted.
LEMMA ConsiderStep == ASSUME TrialInv, Consider PROVE TrialInv'
<1>1. /\ TrialTypeOK /\ outcome = "growing" /\ at < Len(pending)
      /\ at' = at + 1 /\ rounds' = rounds + 1 /\ UNCHANGED <<problem, preferred>>
      /\ at' \in 0..Len(pending) /\ rounds' \in Nat
  BY DEF TrialInv, TrialTypeOK, Consider
<1>2. CASE Refuse
  BY <1>1, <1>2, RefusedInv
<1>3. CASE ~Refuse
  <2>1. PICK answer \in Answers(problem, trail, pending[at + 1]) :
          /\ answer.version # Absent
          /\ \E order \in Orders(Requires(problem, pending[at + 1], answer.version)
                                   \ {pending[at + 1]}) : Accept(answer, order)
    BY <1>3 DEF Consider
  <2>2. QED BY <1>1, <2>1, AcceptStep
<1>4. QED BY <1>2, <1>3

LEMMA GrowingEndsStep == ASSUME TrialInv, GrowingEnds PROVE TrialInv'
<1>1. /\ TrialTypeOK /\ Model /\ outcome' = "rechecking" /\ at = Len(pending)
      /\ UNCHANGED <<problem, preferred, trail, formula, pending, at, required, pins,
                     settled, asked, rounds>>
  BY DEF TrialInv, GrowingEnds
<1>2. TrialTypeOK'
  BY <1>1 DEF TrialTypeOK
<1>3. Queued' /\ PinsFit' /\ RequirementsFolded' /\ LockKept'
  BY <1>1 DEF Model, Queued, Named, PinsFit, RequirementsFolded, LockKept
<1>4. NothingSpare' /\ TrailFollows'
  BY <1>1 DEF Model, NothingSpare, Closed, Named, TrailFollows, Assigned, Positive,
              Negative
<1>5. QED BY <1>1, <1>2, <1>3, <1>4 DEF TrialInv, Model

\* A pin is confirmed for its requirements as they ended, or the trial is refused.
LEMMA RecheckStep == ASSUME TrialInv, Recheck PROVE TrialInv'
<1>1. /\ TrialTypeOK /\ Model /\ problem \in ProblemType
      /\ outcome = "rechecking" /\ at = Len(pending)
      /\ UNCHANGED <<problem, preferred, at, rounds>>
  BY ProblemsAssumption DEF TrialInv, TrialTypeOK, Recheck
<1>2. CASE Refuse
  BY <1>1, <1>2, RefusedInv DEF TrialTypeOK
<1>3. CASE ~Refuse
  <2>1. PICK p \in Narrowed :
          LET final == required[p] \cap problem.constraints[p] IN
          /\ pins[p] \in final \cap problem.avail[p]
          /\ \E vs \in SUBSET (IF LookAhead THEN final \cap problem.avail[p] ELSE {}) :
               \E blame \in Blames(problem, trail, p, vs \ {pins[p]}) :
                 formula' = formula \cup RejectionClauses(problem, p, blame)
          /\ asked' = [asked EXCEPT ![p] = final]
          /\ settled' = [settled EXCEPT ![p] = required[p]]
          /\ UNCHANGED <<outcome, trail, pending, required, pins>>
    BY <1>3 DEF Recheck
  <2>2. /\ p \in Package /\ pins[p] # Absent /\ required[p] # NoRange
        /\ required[p] \in Ranges /\ problem.constraints[p] \in Ranges
        /\ problem.avail[p] \in Ranges
    <3>1. p \in Package /\ pins[p] # Absent
      BY <2>1 DEF Narrowed, Pinned
    <3>2. at \in Nat /\ \A i \in 1..at : i \in DOMAIN pending
      BY <1>1 DEF TrialTypeOK
    <3>3. required[p] # NoRange
      BY <1>1, <3>1, <3>2 DEF Model, Queued
    <3>4. QED BY <1>1, <3>1, <3>3, ProblemForm DEF TrialTypeOK
  <2>3. formula' \subseteq Clause
    <3>1. PICK vs \in SUBSET (IF LookAhead
                              THEN required[p] \cap problem.constraints[p]
                                     \cap problem.avail[p] ELSE {}) :
            \E blame \in Blames(problem, trail, p, vs \ {pins[p]}) :
              formula' = formula \cup RejectionClauses(problem, p, blame)
      BY <2>1
    <3>2. vs \ {pins[p]} \in Ranges
      BY <2>2 DEF Ranges
    <3>3. \A blame \in Blames(problem, trail, p, vs \ {pins[p]}) :
            RejectionClauses(problem, p, blame) \subseteq Clause
      BY <1>1, <2>2, <3>2, RejectionGood DEF Good
    <3>4. QED BY <1>1, <3>1, <3>3 DEF TrialTypeOK
  <2>4. /\ asked' \in [Package -> {NoRange} \cup Ranges]
        /\ settled' \in [Package -> {NoRange} \cup Ranges]
        /\ \A q \in Package :
             /\ settled'[q] = IF q = p THEN required[p] ELSE settled[q]
             /\ asked'[q] = IF q = p THEN required[p] \cap problem.constraints[p]
                                     ELSE asked[q]
    BY <1>1, <2>1, <2>2 DEF TrialTypeOK, Ranges
  <2>5. TrialTypeOK'
    BY <1>1, <2>1, <2>3, <2>4 DEF TrialTypeOK
  <2>6. Queued' /\ RequirementsFolded' /\ NothingSpare' /\ TrailFollows'
    BY <1>1, <2>1 DEF Model, Queued, Named, RequirementsFolded, NothingSpare, Closed,
                      TrailFollows, Assigned, Positive, Negative
  <2>7. PinsFit'
    <3>1. pins[p] \in required[p] /\ pins[p] \in Selectable(problem, p)
      BY <2>1 DEF Selectable
    <3>2. QED BY <1>1, <2>1, <2>2, <2>4, <3>1 DEF Model, PinsFit, Selectable
  <2>8. LockKept'
    BY <1>1, <2>1, <2>4 DEF Model, LockKept
  <2>9. QED BY <1>1, <2>1, <2>5, <2>6, <2>7, <2>8 DEF TrialInv, Model
<1>4. QED BY <1>2, <1>3

LEMMA ConcludeStep == ASSUME TrialInv, Conclude PROVE TrialInv'
<1>1. /\ TrialTypeOK /\ Model /\ at = Len(pending) /\ Narrowed = {}
      /\ UNCHANGED <<problem, preferred, at>> /\ rounds' = rounds + 1
      /\ at' \in 0..Len(pending) /\ rounds' \in Nat
  BY DEF TrialInv, TrialTypeOK, Conclude
<1>2. CASE Refuse
  BY <1>1, <1>2, RefusedInv
<1>3. CASE ~Refuse
  <2>1. /\ outcome' = "accepted"
        /\ UNCHANGED <<trail, formula, pending, required, pins, settled, asked>>
    BY <1>3 DEF Conclude
  <2>2. TrialTypeOK'
    BY <1>1, <2>1 DEF TrialTypeOK
  <2>3. Queued' /\ PinsFit' /\ RequirementsFolded' /\ LockKept'
    BY <1>1, <2>1 DEF Model, Queued, Named, PinsFit, RequirementsFolded, LockKept
  <2>4. NothingSpare' /\ TrailFollows'
    BY <1>1, <2>1 DEF Model, NothingSpare, Closed, Named, TrailFollows, Assigned,
                      Positive, Negative
  <2>5. Narrowed' = {} /\ at' = Len(pending')
    BY <1>1, <2>1 DEF Narrowed, Pinned
  <2>6. QED BY <2>1, <2>2, <2>3, <2>4, <2>5 DEF TrialInv, Model
<1>4. QED BY <1>2, <1>3

LEMMA TrialNext == ASSUME TrialInv, [Next]_trying PROVE TrialInv'
<1>1. CASE UNCHANGED trying
  <2>1. TrialTypeOK' <=> TrialTypeOK
    BY <1>1 DEF trying, TrialTypeOK
  <2>2. Model' <=> Model
    BY <1>1 DEF trying, Model, Queued, Named, PinsFit, RequirementsFolded, LockKept,
                NothingSpare, Closed, TrailFollows, Assigned, Positive, Negative
  <2>3. QED BY <1>1, <2>1, <2>2 DEF trying, TrialInv, Narrowed, Pinned, Nothing
<1>2. CASE Start
  BY <1>2, StartStep
<1>3. CASE Consider
  BY <1>3, ConsiderStep
<1>4. CASE GrowingEnds
  BY <1>4, GrowingEndsStep
<1>5. CASE Recheck
  BY <1>5, RecheckStep
<1>6. CASE Conclude
  BY <1>6, ConcludeStep
<1>7. QED BY <1>1, <1>2, <1>3, <1>4, <1>5, <1>6 DEF Next, TrialOver

\* What the invariant says once nothing is left to look at or to confirm.
LEMMA AcceptedSound ==
  ASSUME TrialInv, outcome = "accepted"
  PROVE  /\ IsSolution(problem, pins) /\ Pinned = Reachable(problem, pins)
         /\ \A p \in Pinned :
              /\ asked[p] = required[p] \cap problem.constraints[p]
              /\ pins[p] = preferred[p]
                 \/ preferred[p] \notin required[p] \cap problem.constraints[p]
<1>1. /\ TrialTypeOK /\ Queued /\ PinsFit /\ RequirementsFolded /\ NothingSpare
      /\ LockKept /\ at = Len(pending) /\ problem \in ProblemType
      /\ pins \in [Package -> Version \cup {Absent}]
      /\ \A p \in Pinned : required[p] = settled[p]
  BY ProblemsAssumption DEF TrialInv, TrialTypeOK, Model, Narrowed
<1>2. \A p \in Package : pins[p] # Absent <=> required[p] # NoRange
  <2>1. DOMAIN pending = 1..at
    BY <1>1 DEF TrialTypeOK
  <2>2. \A p \in Package : pins[p] # Absent <=> \E i \in DOMAIN pending : pending[i] = p
    BY <1>1, <2>1 DEF Queued
  <2>3. \A p \in Package : required[p] # NoRange
                             <=> \E i \in DOMAIN pending : pending[i] = p
    <3>1. \A p \in Named(required) : \E i \in DOMAIN pending : pending[i] = p
      BY <1>1 DEF Queued
    <3>2. \A i \in DOMAIN pending : required[pending[i]] # NoRange
      BY <1>1 DEF Queued
    <3>3. \A p \in Package : required[p] # NoRange => p \in Named(required)
      BY DEF Named
    <3>4. QED BY <3>1, <3>2, <3>3, Zenon
  <2>4. QED BY <2>2, <2>3
<1>3. \A p \in Package : required[p] \in Ranges => pins[p] \in required[p]
  BY <1>1, <1>2, NoRangeApart DEF PinsFit, Pinned
<1>4. IsSolution(problem, pins)
  <2>1. \A i \in DOMAIN problem.root :
          pins[problem.root[i].package] \in problem.root[i].constraint
    BY <1>1, <1>3, ProblemForm DEF RequirementsFolded
  <2>2. \A p \in Package : pins[p] # Absent =>
          \A d \in Requires(problem, p, pins[p]) :
            pins[d] \in problem.deps[p][pins[p]][d]
    BY <1>1, <1>3 DEF RequirementsFolded, Requires
  <2>3. QED BY <1>1, <2>1, <2>2 DEF IsSolution, PinsFit
<1>5. Pinned \in SUBSET Package /\ Closed(Pinned)
  <2>1. \A i \in DOMAIN problem.root : problem.root[i].package \in Pinned
    BY <1>1, <1>2, NoRangeApart, ProblemForm DEF RequirementsFolded, Pinned
  <2>2. \A p \in Pinned : Requires(problem, p, pins[p]) \subseteq Pinned
    BY <1>1, <1>2, NoRangeApart DEF RequirementsFolded, Pinned, Requires
  <2>3. QED BY <2>1, <2>2 DEF Closed, Pinned
<1>6. \A S \in SUBSET Package : Closed(S) => Pinned \subseteq S
  BY <1>1, <1>2 DEF NothingSpare, Pinned, Named
<1>7. Pinned = Reachable(problem, pins)
  <2>1. Reachable(problem, pins) =
          {p \in Package : \A S \in {S \in SUBSET Package : Closed(S)} : p \in S}
    BY DEF Reachable, Closed
  <2>2. QED BY <1>5, <1>6, <2>1
<1>8. QED BY <1>1, <1>4, <1>7 DEF LockKept, Pinned

\* An accepted trial is a solution with nothing to spare that keeps to the lock, for any
\* problem, look-ahead or not, and any earlier lock (resolver.py, try_resolve_preferred).
THEOREM TrialsAreSound == Spec => []TrialSound
<1>1. ASSUME TrialInv PROVE TrialSound
  <2>1. TrialTypeOK
    BY <1>1 DEF TrialInv
  <2>2. ModelIsSolution /\ KeepsLock
    BY <1>1, AcceptedSound DEF ModelIsSolution, KeepsLock
  <2>3. QED BY <2>1, <2>2 DEF TrialSound
<1>2. QED BY <1>1, InitTrial, TrialNext, PTL DEF Spec

----------------------------------------------------------------------------
(* LockCheck. *)

\* No published release asks for a package that is local where it is installed.
NoneBack ==
  \A d \in Declarations, n \in Projects, v \in Releases :
    n \notin Local(d) => \A r \in Published[n][v] : r.name \notin Local(d)

Pins == [Projects -> Releases \cup {Missing}]

\* The pins are what a resolve of d gave, members left out.
MadeFor(d, held) ==
  \A e \in Environments : \E sel \in Resolved(d, e) : held[e] = Emitted(d, sel)

CheckTyped ==
  /\ declared \in Declarations /\ snapshot \in Declarations /\ planned \in Declarations
  /\ lock \in [pins : [Environments -> Pins], inputs : Declarations,
               made : BOOLEAN, intact : BOOLEAN]
  /\ step \in {"idle", "resolve", "attach", "plan", "slice", "walk"}
  /\ slices \subseteq Environments

\* A lock was made for the inputs it carries.
LockRight ==
  /\ lock.made => MadeFor(lock.inputs, lock.pins) /\ step \notin {"resolve", "attach"}
  /\ step = "attach" /\ declared = snapshot => MadeFor(snapshot, lock.pins)
  /\ verdict \in {"accepted", "unmet"} => lock.made
  /\ step \in {"plan", "slice", "walk"} =>
       /\ lock.made /\ verdict = "none"
       /\ SelectionInputs(lock.inputs) = SelectionInputs(snapshot)

There == {n \in Local(snapshot) : lock.pins[slice][n] # Missing} \cup snapshot.excluded
Current == Selection(snapshot, lock.pins[slice], snapshot.excluded)
Active(S) == {r \in S : slice \in r.active}

\* The versions of the walk are what is installed now, and members come in when met.
VersionsRight ==
  /\ versions \in Pins
  /\ \A n \in Projects :
       versions[n] = Current[n] \/ (n \in snapshot.excluded /\ versions[n] = Missing)
  /\ \A n \in There : Plainly(n) \in awaiting \/ (reached[n] # {} /\ versions[n] = Current[n])

\* The requirements V were met, and what they lead to was met or waits.
Followed(V) ==
  /\ \A r \in V : Current[r.name] \in r.allowed
  /\ Active(snapshot.roots) \subseteq V \cup awaiting
  /\ \A n \in Local(snapshot) :
       \/ reached[n] = {} /\ \A r \in V : r.name # n
       \/ /\ reached[n] = {ExtrasOf(V, n)}
          /\ Active(Asks(snapshot, n, Current[n], ExtrasOf(V, n))) \subseteq V \cup awaiting

\* S meets what the inputs say in the slice.
Met(d, sel, e, S) ==
  /\ {r \in d.roots : e \in r.active} \subseteq S
  /\ \A r \in S : sel[r.name] \in r.allowed
  /\ \A n \in Projects : sel[n] # Missing =>
       {r \in Asks(d, n, sel[n], ExtrasOf(S, n)) : e \in r.active} \subseteq S

\* Nothing is waited for that is not needed.
NothingMore ==
  \A S \in SUBSET Wants(snapshot) : Met(snapshot, Current, slice, S) =>
    /\ \A r \in Active(awaiting) : r \in S \/ \E n \in There : r = Plainly(n)
    /\ \A n \in Local(snapshot) : UNION reached[n] \subseteq ExtrasOf(S, n)

WalkRight ==
  step = "walk" /\ Steady =>
    /\ slice \in Environments /\ reached = [n \in Projects |-> reached[n]]
    /\ awaiting \subseteq Wants(snapshot) \cup {Plainly(n) : n \in There}
    /\ VersionsRight /\ NothingMore
    /\ \E V \in SUBSET Wants(snapshot) : Followed(V)
\* What was walked meets the inputs.
SlicesRight ==
  NoneBack /\ step \in {"slice", "walk"} /\ Steady =>
    \A e \in Environments \ slices :
      (step = "walk" => e # slice) => MeetsWith(e, snapshot.excluded)

LockInv ==
  /\ CheckTyped /\ LockRight /\ WalkRight /\ SlicesRight
  /\ (NoneBack => AcceptedMeans) /\ UnmetMeans

LEMMA MeetsForm ==
  ASSUME NEW d, NEW sel, NEW e
  PROVE  Meets(d, sel, e, d.roots) <=>
           /\ \E S \in SUBSET Wants(d) : Met(d, sel, e, S)
           /\ \A c \in d.constraints : e \in c.active => sel[c.name] \in c.allowed \cup {Missing}
BY DEF Meets, Met

LEMMA SameInputs ==
  ASSUME NEW c \in Declarations, NEW d \in Declarations,
         SelectionInputs(c) = SelectionInputs(d)
  PROVE  Local(c) = Local(d) /\ c.excluded = d.excluded
<1>1. SelectionInputs(c).excluded = c.excluded /\ SelectionInputs(d).excluded = d.excluded
  BY DEF SelectionInputs
<1>2. DOMAIN SelectionInputs(c).local = Local(c) /\ DOMAIN SelectionInputs(d).local = Local(d)
  BY DEF SelectionInputs
<1>3. QED BY <1>1, <1>2

\* What the members of a fresh lock's selection are, is known.
LEMMA PinsSelected ==
  ASSUME NEW d \in Declarations, NEW e, NEW sel \in Resolved(d, e)
  PROVE  \E members \in SUBSET d.excluded : Selection(d, Emitted(d, sel), members) = sel
<1> DEFINE members == {n \in d.excluded : sel[n] # Missing}
           held == Emitted(d, sel)
           now == Selection(d, held, members)
<1>1. /\ sel \in Pins
      /\ \A n \in Projects : n \in Local(d) /\ sel[n] # Missing => sel[n] = d.local[n].version
  BY DEF Resolved, Pins
<1>2. d.excluded \subseteq Local(d)
  BY DeclarationAssumption
<1>3. \A n \in Projects : held[n] = IF n \in d.excluded THEN Missing ELSE sel[n]
  BY DEF Emitted
<1>4. now = [n \in Projects |-> IF n \in Local(d) /\ (held[n] # Missing \/ n \in members)
                               THEN d.local[n].version ELSE held[n]]
  BY DEF Selection
<1> HIDE DEF held, now
<1>5. \A n \in Projects : now[n] = sel[n]
  BY <1>1, <1>2, <1>3, <1>4
<1>6. now = sel
  BY <1>1, <1>4, <1>5 DEF Pins
<1>7. QED BY <1>6 DEF now, held

LEMMA MadeMeets ==
  ASSUME NEW d \in Declarations, NEW held, MadeFor(d, held), NEW e \in Environments
  PROVE  \E members \in SUBSET d.excluded : Meets(d, Selection(d, held[e], members), e, d.roots)
<1>1. PICK sel \in Resolved(d, e) : held[e] = Emitted(d, sel)
  BY DEF MadeFor
<1>2. PICK members \in SUBSET d.excluded : Selection(d, Emitted(d, sel), members) = sel
  BY PinsSelected
<1>3. Meets(d, sel, e, d.roots)
  BY DEF Resolved
<1>4. QED BY <1>1, <1>2, <1>3

\* What a walk has to know of the inputs.
LEMMA InputsTyped ==
  ASSUME LockInv, step = "walk", Steady
  PROVE  /\ snapshot \in Declarations /\ slice \in Environments
         /\ snapshot.excluded \subseteq Local(snapshot) /\ Local(snapshot) \subseteq Projects
         /\ There \subseteq Local(snapshot)
         /\ lock.pins[slice] \in Pins /\ Current \in Pins
         /\ \A n \in Local(snapshot) : Asks(snapshot, n, Current[n], {}) \subseteq Wants(snapshot)
         /\ \A r \in Wants(snapshot) : r.name \in Projects /\ r.allowed \subseteq Releases
         /\ \A n \in There : Current[n] = snapshot.local[n].version /\ Current[n] \in Releases
         /\ \A n \in Projects : n \in Local(snapshot) /\ Current[n] # Missing => n \in There
         /\ \A n \in Projects : n \notin Local(snapshot) => Current[n] = lock.pins[slice][n]
<1>1. snapshot \in Declarations /\ slice \in Environments /\ lock.pins[slice] \in Pins
  BY DEF LockInv, CheckTyped, WalkRight
<1>2. /\ snapshot.excluded \subseteq Local(snapshot) /\ Local(snapshot) \subseteq Projects
      /\ \A n \in Local(snapshot) : snapshot.local[n].version \in Releases
      /\ \A r \in Wants(snapshot) : r.name \in Projects /\ r.allowed \subseteq Releases
      /\ Missing \notin Releases
  BY <1>1, DeclarationAssumption
<1>3. There \subseteq Local(snapshot)
  BY <1>2 DEF There
<1>4. /\ Current = [n \in Projects |->
            IF n \in Local(snapshot) /\ (lock.pins[slice][n] # Missing \/ n \in snapshot.excluded)
            THEN snapshot.local[n].version ELSE lock.pins[slice][n]]
  BY DEF Current, Selection
<1>5. Current \in Pins
  BY <1>1, <1>2, <1>4 DEF Pins
<1>6. \A n \in There : Current[n] = snapshot.local[n].version /\ Current[n] \in Releases
  BY <1>2, <1>3, <1>4 DEF There
<1>7. \A n \in Projects : n \in Local(snapshot) /\ Current[n] # Missing => n \in There
  BY <1>4 DEF There
<1>8. \A n \in Projects : n \notin Local(snapshot) => Current[n] = lock.pins[slice][n]
  BY <1>4
<1>9. \A n \in Local(snapshot) : Asks(snapshot, n, Current[n], {}) \subseteq Wants(snapshot)
  BY DEF Asks, Wants
<1>10. QED BY <1>1, <1>2, <1>3, <1>5, <1>6, <1>7, <1>8, <1>9

LEMMA AsksForm ==
  ASSUME NEW d, NEW n \in Local(d), NEW v, NEW fewer, NEW more
  PROVE  /\ Asks(d, n, v, more) \subseteq Wants(d)
         /\ fewer \subseteq more => Asks(d, n, v, fewer) \subseteq Asks(d, n, v, more)
<1>1. \A x : Asks(d, n, v, x) = {r.need : r \in {r \in d.local[n].requires : r.extra \subseteq x}}
  BY DEF Asks
<1>2. QED BY <1>1 DEF Wants

\* A slice walked to its end is met.
LEMMA SliceMeets ==
  ASSUME LockInv, NoneBack, step = "walk", Steady, awaiting = {},
         ~ \E c \in snapshot.constraints :
             slice \in c.active /\ versions[c.name] \notin c.allowed \cup {Missing}
  PROVE  MeetsWith(slice, snapshot.excluded)
<1> DEFINE asking == {n \in Projects : n \notin Local(snapshot) /\ Current[n] # Missing}
           P == UNION {Active(Published[n][Current[n]]) : n \in asking}
<1>1. PICK V \in SUBSET Wants(snapshot) : Followed(V)
  BY DEF LockInv, WalkRight
<1>2. VersionsRight
  BY DEF LockInv, WalkRight
<1>3. lock.inputs \in Declarations /\ Local(lock.inputs) = Local(snapshot)
      /\ lock.inputs.excluded = snapshot.excluded
  BY SameInputs DEF LockInv, CheckTyped, LockRight
<1>4. PICK sel \in Resolved(lock.inputs, slice) : lock.pins[slice] = Emitted(lock.inputs, sel)
  BY InputsTyped DEF LockInv, LockRight, MadeFor
<1>5. PICK T : Met(lock.inputs, sel, slice, T)
  BY MeetsForm DEF Resolved
<1>6. \A n \in Projects : n \notin Local(snapshot) => Current[n] = sel[n]
  BY <1>3, <1>4, InputsTyped DEF Emitted
<1>7. \A n \in Projects : Current[n] \in Releases \cup {Missing}
  BY InputsTyped DEF Pins
<1>8. P \subseteq Wants(snapshot)
  <2>1. \A n \in asking : Published[n][Current[n]] \subseteq Wants(snapshot)
    BY <1>7 DEF Wants
  <2>2. QED BY <2>1 DEF Active
<1>9. P \subseteq T
  <2>1. ASSUME NEW n \in asking PROVE Active(Published[n][Current[n]]) \subseteq T
    <3>1. sel[n] = Current[n] /\ sel[n] # Missing /\ n \in Projects /\ n \notin Local(lock.inputs)
      BY <1>3, <1>6
    <3>2. Asks(lock.inputs, n, sel[n], ExtrasOf(T, n)) = Published[n][Current[n]]
      BY <3>1 DEF Asks
    <3>3. QED BY <1>5, <3>1, <3>2 DEF Met, Active
  <2>2. QED BY <2>1
<1>10. \A r \in P : r.name \in Projects /\ r.name \notin Local(snapshot)
  <2>1. ASSUME NEW n \in asking, NEW r \in Published[n][Current[n]]
        PROVE  r.name \notin Local(snapshot)
    BY <1>7, <2>1, InputsTyped DEF NoneBack
  <2>2. \A r \in P : r.name \notin Local(snapshot)
    BY <2>1 DEF Active
  <2>3. QED BY <1>8, <2>2, InputsTyped
<1>11. \A r \in V \cup P : Current[r.name] \in r.allowed
  <2>1. \A r \in V : Current[r.name] \in r.allowed
    BY <1>1 DEF Followed
  <2>2. \A r \in P : Current[r.name] = sel[r.name]
    BY <1>6, <1>10
  <2>3. \A r \in P : sel[r.name] \in r.allowed
    BY <1>5, <1>9 DEF Met
  <2>4. QED BY <2>1, <2>2, <2>3
<1>12. \A n \in Local(snapshot) : ExtrasOf(V \cup P, n) = ExtrasOf(V, n)
  <2>1. TAKE n \in Local(snapshot)
  <2>2. {r \in V \cup P : r.name = n} = {r \in V : r.name = n}
    BY <1>10
  <2>3. QED BY <2>2 DEF ExtrasOf
<1>13. ASSUME NEW n \in Projects, Current[n] # Missing
       PROVE  Active(Asks(snapshot, n, Current[n], ExtrasOf(V \cup P, n))) \subseteq V \cup P
  <2>1. CASE n \in Local(snapshot)
    <3>1. n \in There
      BY <1>13, <2>1, InputsTyped
    <3>2. reached[n] # {}
      BY <1>2, <3>1 DEF VersionsRight
    <3>3. Active(Asks(snapshot, n, Current[n], ExtrasOf(V, n))) \subseteq V
      BY <1>1, <2>1, <3>2 DEF Followed
    <3>4. QED BY <1>12, <2>1, <3>3
  <2>2. CASE n \notin Local(snapshot)
    <3>1. Asks(snapshot, n, Current[n], ExtrasOf(V \cup P, n)) = Published[n][Current[n]]
      BY <2>2 DEF Asks
    <3>2. n \in asking
      BY <1>13, <2>2
    <3>3. QED BY <3>1, <3>2
  <2>3. QED BY <2>1, <2>2
<1>14. Active(snapshot.roots) \subseteq V
  BY <1>1 DEF Followed
<1> DEFINE W == V \cup P
<1>15. W \in SUBSET Wants(snapshot)
  BY <1>8
<1>16. Met(snapshot, Current, slice, W)
  <2>1. {r \in snapshot.roots : slice \in r.active} \subseteq W
    BY <1>14 DEF Active
  <2>2. \A n \in Projects : Current[n] # Missing =>
          {r \in Asks(snapshot, n, Current[n], ExtrasOf(W, n)) : slice \in r.active} \subseteq W
    BY <1>13 DEF Active
  <2> HIDE DEF W, P
  <2>3. \A r \in W : Current[r.name] \in r.allowed
    BY <1>11 DEF W
  <2>4. QED BY <2>1, <2>2, <2>3 DEF Met
<1>17. \A c \in snapshot.constraints :
         slice \in c.active => Current[c.name] \in c.allowed \cup {Missing}
  <2>1. ASSUME NEW n \in Projects PROVE versions[n] = Current[n]
    <3>1. CASE n \in snapshot.excluded
      <4>1. n \in There
        BY <3>1 DEF There
      <4>2. QED BY <1>2, <4>1 DEF VersionsRight
    <3>2. CASE n \notin snapshot.excluded
      BY <1>2, <3>2 DEF VersionsRight
    <3>3. QED BY <3>1, <3>2
  <2>2. \A c \in snapshot.constraints : c.name \in Projects
    BY InputsTyped, DeclarationAssumption
  <2>3. QED BY <2>1, <2>2
<1> HIDE DEF W
<1>18. Meets(snapshot, Current, slice, snapshot.roots)
  BY <1>15, <1>16, <1>17, MeetsForm
<1>19. QED BY <1>18 DEF MeetsWith, Current

LEMMA WalkBegins ==
  ASSUME LockInv, NEW e \in Environments, BeginSlice(e)
  PROVE  LockInv'
<1>1. /\ step = "slice" /\ slice' = e /\ slices' = slices \ {e} /\ step' = "walk"
      /\ UNCHANGED <<declared, edits, saved, snapshot, planned, verdict>>
      /\ UNCHANGED <<lock, artifacts>>
      /\ reached' = [n \in Projects |-> {}] /\ e \in slices
  BY DEF BeginSlice, saved
<1>2. CheckTyped' /\ LockRight'
  BY <1>1 DEF LockInv, CheckTyped, LockRight
<1>3. SlicesRight'
  BY <1>1 DEF LockInv, SlicesRight, Steady, MeetsWith
<1>4. verdict' = "none"
  BY <1>1 DEF LockInv, LockRight
<1>5. WalkRight'
  <2> SUFFICES ASSUME planned = snapshot PROVE WalkRight'
    BY <1>1 DEF WalkRight, Steady
  <2>1. /\ snapshot \in Declarations /\ lock.pins[e] \in Pins
        /\ snapshot.excluded \subseteq Local(snapshot) /\ Local(snapshot) \subseteq Projects
        /\ \A n \in Local(snapshot) : snapshot.local[n].version \in Releases
    BY DeclarationAssumption DEF LockInv, CheckTyped
  <2> DEFINE found == {n \in Local(snapshot) : lock.pins[e][n] # Missing}
  <2>2. /\ versions' = [n \in Projects |-> IF n \in found THEN snapshot.local[n].version
                                          ELSE lock.pins[e][n]]
        /\ awaiting' = snapshot.roots \cup
                         {Plainly(n) : n \in found \cup (Local(snapshot) \cap snapshot.excluded)}
    BY DEF BeginSlice
  <2>3. There' = found \cup snapshot.excluded
    BY <1>1 DEF There
  <2>4. There' = found \cup (Local(snapshot) \cap snapshot.excluded)
    BY <2>1, <2>3
  <2>5. Current' = [n \in Projects |->
            IF n \in Local(snapshot) /\ (lock.pins[e][n] # Missing \/ n \in snapshot.excluded)
            THEN snapshot.local[n].version ELSE lock.pins[e][n]]
    BY <1>1 DEF Current, Selection
  <2>6. VersionsRight'
    <3>1. versions' \in Pins
      BY <2>1, <2>2 DEF Pins
    <3>2. \A n \in Projects : versions'[n] = Current'[n]
                                \/ (n \in snapshot.excluded /\ versions'[n] = Missing)
      BY <2>1, <2>2, <2>5
    <3>3. \A n \in There' : Plainly(n) \in awaiting'
      BY <2>2, <2>4
    <3>4. QED BY <1>1, <3>1, <3>2, <3>3 DEF VersionsRight, Plainly, Pins
  <2>7. awaiting' \subseteq Wants(snapshot) \cup {Plainly(n) : n \in There'}
    BY <2>2, <2>4 DEF Wants
  <2>8. NothingMore'
    <3>1. \A n \in Local(snapshot) : reached'[n] = {}
      BY <1>1, <2>1
    <3>2. ASSUME NEW S, {r \in snapshot.roots : e \in r.active} \subseteq S,
                 NEW r \in awaiting', e \in r.active
          PROVE  r \in S \/ \E n \in There' : r = Plainly(n)
      BY <2>2, <2>4, <3>2
    <3>3. ASSUME NEW S, Met(snapshot, Current, slice, S)'
          PROVE  /\ (\A r \in Active(awaiting) : r \in S \/ \E n \in There : r = Plainly(n))'
                 /\ (\A n \in Local(snapshot) : UNION reached[n] \subseteq ExtrasOf(S, n))'
      <4>1. {r \in snapshot.roots : e \in r.active} \subseteq S
        BY <1>1, <3>3 DEF Met
      <4>2. (\A r \in Active(awaiting) : r \in S \/ \E n \in There : r = Plainly(n))'
        BY <1>1, <3>2, <4>1 DEF Active, Plainly
      <4>3. (\A n \in Local(snapshot) : UNION reached[n] \subseteq ExtrasOf(S, n))'
        BY <1>1, <3>1 DEF Local
      <4>4. QED BY <4>2, <4>3
    <3>4. QED BY <3>3 DEF NothingMore
  <2>9. Followed({})'
    <3>1. \A n \in Local(snapshot) : reached'[n] = {}
      BY <1>1, <2>1
    <3>2. snapshot.roots \subseteq awaiting'
      BY <2>2
    <3>3. QED BY <1>1, <3>1, <3>2 DEF Followed, Active, Local
  <2>10. reached' = [n \in Projects |-> reached'[n]]
    BY <1>1
  <2>11. (\E V \in SUBSET Wants(snapshot) : Followed(V))'
    BY <2>9
  <2>12. (awaiting \subseteq Wants(snapshot) \cup {Plainly(n) : n \in There})'
    BY <1>1, <2>7 DEF Wants, Local, Plainly
  <2>13. QED BY <1>1, <2>6, <2>8, <2>10, <2>11, <2>12 DEF WalkRight
<1>6. (NoneBack => AcceptedMeans)' /\ UnmetMeans'
  BY <1>4 DEF AcceptedMeans, UnmetMeans
<1>7. QED BY <1>2, <1>3, <1>5, <1>6 DEF LockInv

\* Within a walk, the rest of the invariant stands.
LEMMA WalkGoesOn ==
  ASSUME LockInv, step = "walk",
         UNCHANGED <<declared, snapshot, planned, lock, slices, slice, step, verdict>>, WalkRight'
  PROVE  LockInv'
<1>1. CheckTyped' /\ LockRight'
  BY DEF LockInv, CheckTyped, LockRight
<1>2. SlicesRight'
  BY DEF LockInv, SlicesRight, Steady, MeetsWith
<1>3. verdict' = "none"
  BY DEF LockInv, LockRight
<1>4. QED BY <1>1, <1>2, <1>3 DEF LockInv, AcceptedMeans, UnmetMeans

LEMMA WaitingTyped ==
  ASSUME LockInv, step = "walk", Steady, NEW r \in awaiting
  PROVE  /\ r.name \in Projects /\ r.allowed \subseteq Releases
         /\ r \in Wants(snapshot) \/ (r.name \in There /\ r = Plainly(r.name) /\ r.extras = {})
         /\ \A n \in There : r = Plainly(n) => r.name = n /\ slice \in r.active /\ r.extras = {}
<1>1. \A n : Plainly(n).name = n /\ Plainly(n).extras = {} /\ Plainly(n).active = Environments
             /\ Plainly(n).allowed = Releases
  BY DEF Plainly
<1>2. r \in Wants(snapshot) \/ \E n \in There : r = Plainly(n)
  BY DEF LockInv, WalkRight
<1>3. QED BY <1>1, <1>2, InputsTyped

\* The version the walk finds is the one that is installed now.
LEMMA FoundIsCurrent ==
  ASSUME LockInv, step = "walk", Steady, NEW n \in Projects
  PROVE  (IF n \in Local(snapshot) /\ (versions[n] # Missing \/ n \in snapshot.excluded)
          THEN snapshot.local[n].version ELSE versions[n]) = Current[n]
<1>1. versions[n] = Current[n] \/ (n \in snapshot.excluded /\ versions[n] = Missing)
  BY DEF LockInv, WalkRight, VersionsRight
<1>2. n \in snapshot.excluded => n \in There
  BY DEF There
<1>3. QED BY <1>1, <1>2, InputsTyped

LEMMA Unchanging ==
  ASSUME UNCHANGED <<snapshot, planned, lock, slice>>
  PROVE  /\ UNCHANGED <<There, Current>>
         /\ Wants(snapshot)' = Wants(snapshot) /\ Local(snapshot)' = Local(snapshot)
         /\ \A S : Active(S)' = Active(S)
         /\ \A S : Met(snapshot, Current, slice, S)' <=> Met(snapshot, Current, slice, S)
BY DEF There, Current, Selection, Wants, Local, Active, Met, Asks, ExtrasOf

\* A requirement of another environment is passed over.
LEMMA VisitPasses ==
  ASSUME LockInv, NEW r \in awaiting, step = "walk", slice \notin r.active,
         awaiting' = awaiting \ {r}, UNCHANGED <<step, verdict, versions, reached>>,
         UNCHANGED <<declared, snapshot, planned, lock, slices, slice>>
  PROVE  LockInv'
<1> SUFFICES ASSUME Steady PROVE WalkRight'
  BY WalkGoesOn DEF WalkRight, Steady
<1>1. WalkRight
  BY DEF LockInv
<1>2. /\ UNCHANGED <<There, Current>>
      /\ Wants(snapshot)' = Wants(snapshot) /\ Local(snapshot)' = Local(snapshot)
      /\ \A S : Active(S)' = Active(S)
      /\ \A S : Met(snapshot, Current, slice, S)' <=> Met(snapshot, Current, slice, S)
  BY Unchanging
<1>3. VersionsRight'
  <2>1. \A n \in There : r # Plainly(n)
    BY WaitingTyped
  <2>2. VersionsRight
    BY <1>1 DEF WalkRight
  <2>3. versions' \in Pins
    BY <2>2 DEF VersionsRight
  <2>4. \A n \in There : Plainly(n) \in awaiting' \/ (reached[n] # {} /\ versions[n] = Current[n])
    BY <2>1, <2>2 DEF VersionsRight
  <2>5. \A n \in Projects : versions'[n] = Current'[n]
                              \/ (n \in snapshot'.excluded /\ versions'[n] = Missing)
    BY <1>2, <2>2 DEF VersionsRight
  <2>6. QED BY <1>2, <2>3, <2>4, <2>5 DEF VersionsRight, Plainly, Pins
<1>4. NothingMore'
  <2>1. \A S \in SUBSET Wants(snapshot) : Met(snapshot, Current, slice, S) =>
          /\ \A q \in Active(awaiting') : q \in S \/ \E n \in There : q = Plainly(n)
          /\ \A n \in Local(snapshot) : UNION reached'[n] \subseteq ExtrasOf(S, n)
    BY <1>1 DEF WalkRight, NothingMore, Active
  <2>2. QED BY <1>2, <2>1 DEF NothingMore, Plainly, ExtrasOf, Active
<1>5. PICK V \in SUBSET Wants(snapshot) : Followed(V)
  BY <1>1 DEF WalkRight
<1>6. Followed(V)'
  <2>1. \A X : Active(X) \subseteq V \cup awaiting => Active(X) \subseteq V \cup awaiting'
    BY DEF Active
  <2>2. \A q \in V : Current[q.name] \in q.allowed
    BY <1>5 DEF Followed
  <2>3. Active(snapshot.roots) \subseteq V \cup awaiting'
    BY <1>5, <2>1 DEF Followed
  <2>4. \A n \in Local(snapshot) :
          \/ reached[n] = {} /\ \A q \in V : q.name # n
          \/ /\ reached[n] = {ExtrasOf(V, n)}
             /\ Active(Asks(snapshot, n, Current[n], ExtrasOf(V, n))) \subseteq V \cup awaiting'
    BY <1>5, <2>1 DEF Followed
  <2>5. QED BY <1>2, <2>2, <2>3, <2>4 DEF Followed, Active, ExtrasOf, Asks
<1>7. (awaiting \subseteq Wants(snapshot) \cup {Plainly(n) : n \in There})'
  <2>1. awaiting' \subseteq Wants(snapshot) \cup {Plainly(n) : n \in There}
    BY <1>1 DEF WalkRight
  <2>2. QED BY <1>2, <2>1 DEF Plainly
<1>8. QED BY <1>1, <1>2, <1>3, <1>4, <1>5, <1>6, <1>7 DEF WalkRight

\* A refusal is one of the inputs as they are.
LEMMA VisitRefuses ==
  ASSUME LockInv, NEW r \in awaiting, step = "walk", slice \in r.active,
         Steady => Current[r.name] \notin r.allowed, Say("unmet"),
         UNCHANGED <<declared, snapshot, planned, lock, slices, slice>>
  PROVE  LockInv'
<1>1. CheckTyped' /\ LockRight' /\ SlicesRight' /\ WalkRight' /\ (NoneBack => AcceptedMeans)'
  BY DEF LockInv, CheckTyped, LockRight, SlicesRight, WalkRight, AcceptedMeans, Say
<1>2. ASSUME Steady PROVE ~MeetsWith(slice, snapshot.excluded) /\ slice \in Environments
  <2>1. ASSUME NEW S \in SUBSET Wants(snapshot), Met(snapshot, Current, slice, S) PROVE FALSE
    <3>1. r \in S \/ \E n \in There : r = Plainly(n)
      BY <1>2, <2>1 DEF LockInv, WalkRight, NothingMore, Active
    <3>2. CASE r \in S
      BY <1>2, <2>1, <3>2 DEF Met
    <3>3. CASE \E n \in There : r = Plainly(n)
      BY <1>2, <3>3, InputsTyped DEF Plainly
    <3>4. QED BY <3>1, <3>2, <3>3
  <2>2. ~Meets(snapshot, Current, slice, snapshot.roots)
    BY <2>1, MeetsForm
  <2>3. QED BY <1>2, <2>2, InputsTyped DEF MeetsWith, Current
<1>3. UnmetMeans'
  <2>1. ASSUME Steady PROVE (\E e \in Environments : ~MeetsWith(e, snapshot.excluded))'
    <3>1. PICK e \in Environments : ~MeetsWith(e, snapshot.excluded)
      BY <1>2, <2>1
    <3>2. MeetsWith(e, snapshot.excluded)' <=> MeetsWith(e, snapshot.excluded)
      BY DEF MeetsWith, Selection, Local, Meets, Wants, Asks, ExtrasOf
    <3>3. QED BY <3>1, <3>2
  <2>2. QED BY <2>1 DEF UnmetMeans, Steady
<1>4. QED BY <1>1, <1>3 DEF LockInv

\* A requirement that is met, with what a local project then asks for.
LEMMA VisitMeets ==
  ASSUME LockInv, NEW r \in awaiting, step = "walk", Steady, slice \in r.active,
         Current[r.name] \in r.allowed, NEW n, n = r.name,
         NEW extras, extras = r.extras \cup UNION reached[n],
         versions' = [versions EXCEPT ![n] = Current[n]],
         IF n \in Local(snapshot) /\ reached[n] # {extras}
         THEN /\ reached' = [reached EXCEPT ![n] = {extras}]
              /\ awaiting' = (awaiting \ {r})
                             \cup Active(Asks(snapshot, n, Current[n], extras))
         ELSE awaiting' = awaiting \ {r} /\ UNCHANGED reached,
         UNCHANGED <<declared, snapshot, planned, lock, slices, slice, step, verdict>>
  PROVE  LockInv'
<1> SUFFICES WalkRight'
  BY WalkGoesOn
<1>1. WalkRight
  BY DEF LockInv
<1>2. /\ UNCHANGED <<There, Current>>
      /\ Wants(snapshot)' = Wants(snapshot) /\ Local(snapshot)' = Local(snapshot)
      /\ \A S : Active(S)' = Active(S)
      /\ \A S : Met(snapshot, Current, slice, S)' <=> Met(snapshot, Current, slice, S)
  BY Unchanging
<1>3. n \in Projects /\ Current[n] \in Releases /\ Current[n] # Missing /\ slice \in Environments
      /\ There \subseteq Local(snapshot) /\ Local(snapshot) \subseteq Projects
      /\ There \subseteq Projects
  BY WaitingTyped, InputsTyped, DeclarationAssumption
<1>4. r \in Wants(snapshot) \/ (n \in There /\ r = Plainly(n) /\ r.extras = {})
  BY WaitingTyped
<1>5. reached = [m \in Projects |-> reached[m]] /\ versions \in Pins
  BY <1>1 DEF WalkRight, VersionsRight
<1>6. reached' = [m \in Projects |-> reached'[m]]
      /\ \A m \in Projects : m # n => reached'[m] = reached[m] /\ versions'[m] = versions[m]
  BY <1>5 DEF Pins
<1>7. versions' \in Pins /\ versions'[n] = Current[n]
  BY <1>3, <1>5 DEF Pins
<1>8. n \in Local(snapshot) => reached'[n] = {extras}
  BY <1>3, <1>5
<1>9. n \notin Local(snapshot) => reached'[n] = reached[n]
  OBVIOUS
<1>10. awaiting \ {r} \subseteq awaiting'
  OBVIOUS
<1>11. awaiting' \subseteq Wants(snapshot) \cup {Plainly(m) : m \in There}
  <2>1. awaiting \subseteq Wants(snapshot) \cup {Plainly(m) : m \in There}
    BY <1>1 DEF WalkRight
  <2>2. n \in Local(snapshot) =>
          Active(Asks(snapshot, n, Current[n], extras)) \subseteq Wants(snapshot)
    BY AsksForm DEF Active
  <2>3. QED BY <2>1, <2>2
<1>12. VersionsRight'
  <2>1. VersionsRight
    BY <1>1 DEF WalkRight
  <2>2. \A m \in Projects : versions'[m] = Current[m]
                              \/ (m \in snapshot.excluded /\ versions'[m] = Missing)
    BY <1>6, <1>7, <2>1 DEF VersionsRight
  <2>3. ASSUME NEW m \in There
        PROVE  Plainly(m) \in awaiting' \/ (reached'[m] # {} /\ versions'[m] = Current[m])
    <3>1. CASE m = n
      BY <1>3, <1>7, <1>8, <3>1
    <3>2. CASE m # n
      <4>1. Plainly(m) # r
        BY <3>2 DEF Plainly
      <4>2. QED BY <1>3, <1>6, <1>10, <2>1, <3>2, <4>1 DEF VersionsRight
    <3>3. QED BY <3>1, <3>2
  <2>4. QED BY <1>2, <1>7, <2>2, <2>3 DEF VersionsRight, Plainly, Pins
<1>13. NothingMore'
  <2>1. ASSUME NEW S \in SUBSET Wants(snapshot), Met(snapshot, Current, slice, S)
        PROVE  /\ \A q \in Active(awaiting') : q \in S \/ \E m \in There : q = Plainly(m)
               /\ \A m \in Local(snapshot) : UNION reached'[m] \subseteq ExtrasOf(S, m)
    <3>1. /\ \A q \in Active(awaiting) : q \in S \/ \E m \in There : q = Plainly(m)
          /\ \A m \in Local(snapshot) : UNION reached[m] \subseteq ExtrasOf(S, m)
      BY <1>1, <2>1 DEF WalkRight, NothingMore
    <3>2. r.extras \subseteq ExtrasOf(S, n)
      <4>1. CASE r \in S
        BY <4>1 DEF ExtrasOf
      <4>2. CASE r \notin S
        <5>1. PICK m \in There : r = Plainly(m)
          BY <3>1, <4>2 DEF Active
        <5>2. r.extras = {}
          BY <5>1, WaitingTyped
        <5>3. QED BY <5>2
      <4>3. QED BY <4>1, <4>2
    <3>3. n \in Local(snapshot) => extras \subseteq ExtrasOf(S, n)
      BY <3>1, <3>2
    <3>4. n \in Local(snapshot) => Active(Asks(snapshot, n, Current[n], extras)) \subseteq S
      <4>1. SUFFICES ASSUME n \in Local(snapshot)
                     PROVE  Active(Asks(snapshot, n, Current[n], extras)) \subseteq S
        OBVIOUS
      <4>2. Asks(snapshot, n, Current[n], extras)
              \subseteq Asks(snapshot, n, Current[n], ExtrasOf(S, n))
        BY <3>3, <4>1, AsksForm
      <4>3. {q \in Asks(snapshot, n, Current[n], ExtrasOf(S, n)) : slice \in q.active} \subseteq S
        BY <1>3, <2>1 DEF Met
      <4>4. QED BY <4>2, <4>3 DEF Active
    <3>5. \A q \in awaiting' : q \in awaiting
             \/ (n \in Local(snapshot) /\ q \in Active(Asks(snapshot, n, Current[n], extras)))
      OBVIOUS
    <3>6. \A q \in Active(awaiting') : q \in S \/ \E m \in There : q = Plainly(m)
      BY <3>1, <3>4, <3>5 DEF Active
    <3>7. \A m \in Local(snapshot) : UNION reached'[m] \subseteq ExtrasOf(S, m)
      <4>1. TAKE m \in Local(snapshot)
      <4>2. CASE m = n
        BY <1>8, <3>3, <4>2
      <4>3. CASE m # n
        BY <1>3, <1>6, <3>1, <4>3
      <4>4. QED BY <4>2, <4>3
    <3>8. QED BY <3>6, <3>7
  <2>2. QED BY <1>2, <2>1 DEF NothingMore, Plainly, ExtrasOf, Active
<1>14. PICK V \in SUBSET Wants(snapshot) : Followed(V)
  BY <1>1 DEF WalkRight
<1>15. PICK W \in SUBSET Wants(snapshot) : W = V \cup ({r} \cap Wants(snapshot))
  BY <1>14
<1>16. \A X \in SUBSET Wants(snapshot) :
         Active(X) \subseteq V \cup awaiting => Active(X) \subseteq W \cup awaiting'
  BY <1>10, <1>15 DEF Active
<1>17. \A m \in Projects : m # n => ExtrasOf(W, m) = ExtrasOf(V, m)
  <2>1. ASSUME NEW m \in Projects, m # n PROVE ExtrasOf(W, m) = ExtrasOf(V, m)
    <3>1. {q \in W : q.name = m} = {q \in V : q.name = m}
      BY <1>15, <2>1
    <3>2. QED BY <3>1 DEF ExtrasOf
  <2>2. QED BY <2>1
<1>18. n \in Local(snapshot) => ExtrasOf(W, n) = extras
  <2>1. SUFFICES ASSUME n \in Local(snapshot) PROVE ExtrasOf(W, n) = extras
    OBVIOUS
  <2>2. UNION reached[n] = ExtrasOf(V, n)
    <3>1. CASE reached[n] = {} /\ \A q \in V : q.name # n
      BY <3>1 DEF ExtrasOf
    <3>2. CASE reached[n] = {ExtrasOf(V, n)}
      BY <3>2
    <3>3. QED BY <1>14, <2>1, <3>1, <3>2 DEF Followed
  <2>3. ExtrasOf(W, n) = ExtrasOf(V, n) \cup r.extras
    <3>1. CASE r \in Wants(snapshot)
      <4>1. W = V \cup {r}
        BY <1>15, <3>1
      <4>2. QED BY <4>1 DEF ExtrasOf
    <3>2. CASE r \notin Wants(snapshot)
      <4>1. W = V /\ r.extras = {}
        BY <1>4, <1>15, <3>2
      <4>2. QED BY <4>1
    <3>3. QED BY <3>1, <3>2
  <2>4. QED BY <2>2, <2>3
<1>19. Followed(W)'
  <2> USE <1>14, <1>15
  <2>1. \A q \in W : Current[q.name] \in q.allowed
    BY DEF Followed
  <2>2. Active(snapshot.roots) \subseteq W \cup awaiting'
    BY <1>16 DEF Followed, Wants
  <2>3. ASSUME NEW m \in Local(snapshot)
        PROVE  \/ reached'[m] = {} /\ \A q \in W : q.name # m
               \/ /\ reached'[m] = {ExtrasOf(W, m)}
                  /\ Active(Asks(snapshot, m, Current[m], ExtrasOf(W, m)))
                       \subseteq W \cup awaiting'
    <3>1. CASE m # n
      <4>1. m \in Projects /\ reached'[m] = reached[m] /\ ExtrasOf(W, m) = ExtrasOf(V, m)
        BY <1>3, <1>6, <1>17, <3>1
      <4>2. CASE reached[m] = {} /\ \A q \in V : q.name # m
        BY <3>1, <4>1, <4>2
      <4>3. CASE /\ reached[m] = {ExtrasOf(V, m)}
                 /\ Active(Asks(snapshot, m, Current[m], ExtrasOf(V, m))) \subseteq V \cup awaiting
        <5>1. Asks(snapshot, m, Current[m], ExtrasOf(V, m)) \subseteq Wants(snapshot)
          BY AsksForm
        <5>2. Active(Asks(snapshot, m, Current[m], ExtrasOf(V, m))) \subseteq W \cup awaiting'
          BY <1>16, <4>3, <5>1
        <5>3. QED BY <4>1, <4>3, <5>2
      <4>4. QED BY <4>2, <4>3 DEF Followed
    <3>2. CASE m = n
      <4>1. reached'[n] = {ExtrasOf(W, n)} /\ ExtrasOf(W, n) = extras
        BY <1>8, <1>18, <3>2
      <4>2. Active(Asks(snapshot, n, Current[n], extras)) \subseteq W \cup awaiting'
        <5>1. CASE reached[n] # {extras}
          BY <3>2, <5>1
        <5>2. CASE reached[n] = {extras}
          <6>1. ExtrasOf(V, n) = extras
            BY <3>2, <5>2 DEF Followed
          <6>2. Active(Asks(snapshot, n, Current[n], extras)) \subseteq V \cup awaiting
            BY <3>2, <5>2, <6>1 DEF Followed
          <6>3. Asks(snapshot, n, Current[n], extras) \subseteq Wants(snapshot)
            BY <3>2, AsksForm
          <6>4. QED BY <1>16, <6>2, <6>3
        <5>3. QED BY <5>1, <5>2
      <4>3. QED BY <3>2, <4>1, <4>2
    <3>3. QED BY <3>1, <3>2
  <2>4. QED BY <1>2, <2>1, <2>2, <2>3 DEF Followed, Active, ExtrasOf, Asks
<1>20. (\E X \in SUBSET Wants(snapshot) : Followed(X))'
  BY <1>2, <1>19
<1>21. (awaiting \subseteq Wants(snapshot) \cup {Plainly(m) : m \in There})'
  BY <1>2, <1>11 DEF Plainly
<1>22. QED BY <1>2, <1>3, <1>6, <1>12, <1>13, <1>20, <1>21 DEF WalkRight

LEMMA VisitKept ==
  ASSUME LockInv, NEW r \in awaiting, Visit(r)
  PROVE  LockInv'
<1>1. step = "walk" /\ UNCHANGED <<declared, snapshot, planned, lock, slices, slice>>
  BY DEF Visit, saved
<1> DEFINE n == r.name
           local == n \in Local(snapshot)
           found == IF local /\ (versions[n] # Missing \/ n \in snapshot.excluded)
                    THEN snapshot.local[n].version ELSE versions[n]
           extras == r.extras \cup UNION reached[n]
<1>2. Steady => found = Current[n]
  BY <1>1, FoundIsCurrent, WaitingTyped
<1>3. CASE slice \notin r.active
  <2>1. awaiting' = awaiting \ {r} /\ UNCHANGED <<step, verdict, versions, reached>>
    BY <1>3 DEF Visit
  <2>2. QED BY <1>1, <1>3, <2>1, VisitPasses
<1>4. CASE slice \in r.active /\ found \notin r.allowed
  <2>1. Say("unmet")
    BY <1>4 DEF Visit
  <2>2. QED BY <1>1, <1>2, <1>4, <2>1, VisitRefuses
<1>5. CASE slice \in r.active /\ found \in r.allowed
  <2>1. /\ versions' = [versions EXCEPT ![n] = found]
        /\ IF local /\ reached[n] # {extras}
           THEN /\ reached' = [reached EXCEPT ![n] = {extras}]
                /\ awaiting' = (awaiting \ {r}) \cup
                     {q \in Asks(snapshot, n, found, extras) : slice \in q.active}
           ELSE awaiting' = awaiting \ {r} /\ UNCHANGED reached
        /\ UNCHANGED <<step, verdict>>
    BY <1>5 DEF Visit
  <2>2. CASE Steady
    <3>1. PICK m, x : m = n /\ x = extras
      OBVIOUS
    <3>2. {q \in Asks(snapshot, n, found, extras) : slice \in q.active}
            = Active(Asks(snapshot, n, found, extras))
      BY DEF Active
    <3>3. found = Current[n]
      BY <1>2, <2>2
    <3> HIDE DEF found, extras
    <3>4. /\ versions' = [versions EXCEPT ![m] = Current[m]]
          /\ IF m \in Local(snapshot) /\ reached[m] # {x}
             THEN /\ reached' = [reached EXCEPT ![m] = {x}]
                  /\ awaiting' = (awaiting \ {r}) \cup Active(Asks(snapshot, m, Current[m], x))
             ELSE awaiting' = awaiting \ {r} /\ UNCHANGED reached
      BY <2>1, <3>1, <3>2, <3>3
    <3>5. x = r.extras \cup UNION reached[m]
      BY <3>1 DEF extras
    <3>6. slice \in r.active /\ Current[r.name] \in r.allowed
      BY <1>5, <3>3
    <3>7. QED BY <1>1, <2>1, <2>2, <3>1, <3>4, <3>5, <3>6, VisitMeets
  <2>3. CASE ~Steady
    <3>1. WalkRight'
      BY <1>1, <2>3 DEF WalkRight, Steady
    <3>2. QED BY <1>1, <2>1, <3>1, WalkGoesOn
  <2>4. QED BY <2>2, <2>3
<1>6. QED BY <1>3, <1>4, <1>5

LEMMA EndSliceKept ==
  ASSUME LockInv, EndSlice
  PROVE  LockInv'
<1>1. step = "walk" /\ awaiting = {}
      /\ UNCHANGED <<declared, snapshot, planned, lock, slices, slice>>
  BY DEF EndSlice, Quiet, saved
<1> DEFINE Broken == \E c \in snapshot.constraints :
                       slice \in c.active /\ versions[c.name] \notin c.allowed \cup {Missing}
<1>2. CheckTyped' /\ LockRight' /\ WalkRight'
  BY <1>1 DEF LockInv, CheckTyped, LockRight, WalkRight, EndSlice, Say
<1>3. lock' = lock /\ snapshot' = snapshot
  BY <1>1
<1>4. \A e, x : MeetsWith(e, x)' <=> MeetsWith(e, x)
  BY <1>3 DEF MeetsWith, Selection, Local, Meets, Wants, Asks, ExtrasOf
<1>5. NoneBack /\ Steady /\ ~Broken =>
        \A e \in Environments \ slices : MeetsWith(e, snapshot.excluded)
  <2> SUFFICES ASSUME NoneBack, Steady, ~Broken
               PROVE  \A e \in Environments \ slices : MeetsWith(e, snapshot.excluded)
    OBVIOUS
  <2>1. MeetsWith(slice, snapshot.excluded)
    BY <1>1, SliceMeets
  <2>2. \A e \in Environments \ slices : e # slice => MeetsWith(e, snapshot.excluded)
    BY <1>1 DEF LockInv, SlicesRight
  <2>3. QED BY <2>1, <2>2
<1>6. ASSUME Steady, Broken PROVE ~MeetsWith(slice, snapshot.excluded) /\ slice \in Environments
  <2>1. PICK c \in snapshot.constraints :
          slice \in c.active /\ versions[c.name] \notin c.allowed \cup {Missing}
    BY <1>6
  <2>2. c.name \in Projects
    BY <1>1, <1>6, InputsTyped, DeclarationAssumption
  <2>3. versions[c.name] = Current[c.name]
    BY <1>1, <1>6, <2>1, <2>2 DEF LockInv, WalkRight, VersionsRight
  <2>4. ~Meets(snapshot, Current, slice, snapshot.roots)
    BY <2>1, <2>3, MeetsForm
  <2>5. QED BY <1>1, <1>6, <2>4, InputsTyped DEF MeetsWith, Current
<1>7. CASE Broken
  <2>1. step' = "idle" /\ verdict' = "unmet"
    BY <1>7 DEF EndSlice, Say
  <2>2. UnmetMeans'
    <3>1. ASSUME Steady PROVE (\E e \in Environments : ~MeetsWith(e, snapshot.excluded))'
      BY <1>3, <1>4, <1>6, <1>7, <3>1
    <3>2. QED BY <1>1, <3>1 DEF UnmetMeans, Steady
  <2>3. SlicesRight' /\ AcceptedMeans'
    BY <2>1 DEF SlicesRight, AcceptedMeans
  <2>4. QED BY <1>2, <2>2, <2>3 DEF LockInv
<1>8. CASE ~Broken /\ slices = {}
  <2>1. step' = "idle" /\ verdict' = "accepted"
    BY <1>8 DEF EndSlice, Say
  <2>2. SlicesRight' /\ UnmetMeans'
    BY <2>1 DEF SlicesRight, UnmetMeans
  <2>3. (NoneBack => AcceptedMeans)'
    <3>1. NoneBack' <=> NoneBack
      BY DEF NoneBack, Local
    <3>2. ASSUME NoneBack, Steady
          PROVE  \A e \in Environments : MeetsWith(e, snapshot.excluded)'
      BY <1>3, <1>4, <1>5, <1>8, <3>2
    <3>3. QED BY <1>1, <3>1, <3>2 DEF AcceptedMeans, Steady
  <2>4. QED BY <1>2, <2>2, <2>3 DEF LockInv
<1>9. CASE ~Broken /\ slices # {}
  <2>1. step' = "slice" /\ verdict' = verdict
    BY <1>9 DEF EndSlice
  <2>2. verdict = "none"
    BY <1>1 DEF LockInv, LockRight
  <2>3. UnmetMeans' /\ AcceptedMeans'
    BY <2>1, <2>2 DEF AcceptedMeans, UnmetMeans
  <2>4. SlicesRight'
    <3>1. NoneBack' <=> NoneBack
      BY DEF NoneBack, Local
    <3>2. ASSUME NoneBack, Steady
          PROVE  \A e \in Environments \ slices : MeetsWith(e, snapshot.excluded)'
      BY <1>3, <1>4, <1>5, <1>9, <3>2
    <3>3. QED BY <1>1, <3>1, <3>2 DEF SlicesRight, Steady
  <2>5. QED BY <1>2, <2>3, <2>4 DEF LockInv
<1>10. QED BY <1>7, <1>8, <1>9

LEMMA VerdictStands ==
  ASSUME LockInv, UNCHANGED <<snapshot, planned, verdict>>, lock'.pins = lock.pins
  PROVE  (NoneBack => AcceptedMeans)' /\ UnmetMeans'
<1>1. \A e, x : MeetsWith(e, x)' <=> MeetsWith(e, x)
  BY DEF MeetsWith, Selection, Local, Meets, Wants, Asks, ExtrasOf
<1>2. (NoneBack <=> NoneBack') /\ (Steady <=> Steady')
  BY DEF NoneBack, Local, Steady
<1>3. QED BY <1>1, <1>2 DEF LockInv, AcceptedMeans, UnmetMeans

LEMMA WalkStands ==
  ASSUME LockInv,
         UNCHANGED <<snapshot, planned, lock, step, slices, slice, versions, reached, awaiting>>
  PROVE  WalkRight' /\ SlicesRight'
<1>1. /\ UNCHANGED <<There, Current>>
      /\ Wants(snapshot)' = Wants(snapshot) /\ Local(snapshot)' = Local(snapshot)
      /\ \A S : Active(S)' = Active(S)
      /\ \A S : Met(snapshot, Current, slice, S)' <=> Met(snapshot, Current, slice, S)
  BY Unchanging
<1>2. VersionsRight' <=> VersionsRight
  BY <1>1 DEF VersionsRight, Plainly, Pins
<1>3. NothingMore' <=> NothingMore
  BY <1>1 DEF NothingMore, Plainly, ExtrasOf, Active
<1>4. \A V : Followed(V)' <=> Followed(V)
  BY <1>1 DEF Followed, Active, ExtrasOf, Asks
<1>5. WalkRight'
  BY <1>1, <1>2, <1>3, <1>4 DEF LockInv, WalkRight, Steady, Plainly
<1>6. \A e, x : MeetsWith(e, x)' <=> MeetsWith(e, x)
  BY DEF MeetsWith, Selection, Local, Meets, Wants, Asks, ExtrasOf
<1>7. (NoneBack <=> NoneBack') /\ (Steady <=> Steady')
  BY DEF NoneBack, Local, Steady
<1>8. SlicesRight'
  BY <1>6, <1>7 DEF LockInv, SlicesRight
<1>9. QED BY <1>5, <1>8

\* Nothing that a check reads is touched.
LEMMA EditKept ==
  ASSUME LockInv, NEW d \in Declarations, Edit(d)
  PROVE  LockInv'
<1>1. /\ declared' = d /\ (step \in {"resolve", "attach"} => d # snapshot)
      /\ UNCHANGED <<step, snapshot, planned, slices, slice, versions, reached, awaiting,
                     verdict, lock>>
  BY DEF Edit, command, saved
<1>2. CheckTyped' /\ LockRight'
  BY <1>1 DEF LockInv, CheckTyped, LockRight
<1>3. QED BY <1>1, <1>2, WalkStands, VerdictStands DEF LockInv

LEMMA StutterKept ==
  ASSUME LockInv, UNCHANGED checking
  PROVE  LockInv'
<1>1. UNCHANGED <<declared, step, snapshot, planned, slices, slice, versions, reached,
                 awaiting, verdict, lock>>
  BY DEF checking, command, saved
<1>2. CheckTyped' /\ LockRight'
  BY <1>1 DEF LockInv, CheckTyped, LockRight
<1>3. QED BY <1>1, <1>2, WalkStands, VerdictStands DEF LockInv

\* Outside of a check.
LEMMA NotChecking ==
  ASSUME LockInv, CheckTyped', LockRight', step' \in {"idle", "resolve", "attach", "plan"},
         (NoneBack => AcceptedMeans)', UnmetMeans'
  PROVE  LockInv'
BY DEF LockInv, WalkRight, SlicesRight

LEMMA TamperKept ==
  ASSUME LockInv, Tamper
  PROVE  LockInv'
<1>1. /\ step = "idle" /\ UNCHANGED <<declared, step, snapshot, planned, slices, verdict>>
      /\ lock \in [pins : [Environments -> Pins], inputs : Declarations,
                   made : BOOLEAN, intact : BOOLEAN]
      /\ lock' \in {lock, [lock EXCEPT !.intact = FALSE]}
  BY DEF Tamper, command, LockInv, CheckTyped
<1>2. lock'.pins = lock.pins /\ lock'.inputs = lock.inputs /\ lock'.made = lock.made
  BY <1>1
<1>3. CheckTyped'
  BY <1>1 DEF LockInv, CheckTyped
<1>4. LockRight'
  BY <1>1, <1>2 DEF LockInv, LockRight
<1>5. QED BY <1>1, <1>2, <1>3, <1>4, VerdictStands, NotChecking

\* No verdict stands before there is a lock.
LEMMA NoVerdict ==
  ASSUME LockInv, ~lock.made, verdict' = verdict
  PROVE  AcceptedMeans' /\ UnmetMeans'
BY DEF LockInv, LockRight, AcceptedMeans, UnmetMeans

LEMMA BeginLockKept ==
  ASSUME LockInv, BeginLock
  PROVE  LockInv'
<1>1. step = "idle" /\ ~lock.made /\ step' = "resolve" /\ snapshot' = declared
      /\ UNCHANGED <<declared, lock, planned, verdict, slices>>
  BY DEF BeginLock, Quiet, saved
<1>2. CheckTyped' /\ LockRight'
  BY <1>1 DEF LockInv, CheckTyped, LockRight
<1>3. QED BY <1>1, <1>2, NoVerdict, NotChecking

LEMMA ResolveKept ==
  ASSUME LockInv, Resolve
  PROVE  LockInv'
<1>1. step = "resolve" /\ step' = "attach"
      /\ UNCHANGED <<declared, snapshot, planned, verdict, slices>>
  BY DEF Resolve, Quiet
<1>2. PICK held \in [Environments -> UNION {Resolved(declared, e) : e \in Environments}] :
        /\ \A e \in Environments : held[e] \in Resolved(declared, e)
        /\ lock' = [lock EXCEPT !.pins = [e \in Environments |-> Emitted(declared, held[e])]]
  BY DEF Resolve
<1>3. \A e \in Environments : Emitted(declared, held[e]) \in Pins
  BY <1>2 DEF Emitted, Resolved, Pins
<1>4. lock \in [pins : [Environments -> Pins], inputs : Declarations,
                made : BOOLEAN, intact : BOOLEAN] /\ ~lock.made
  BY <1>1 DEF LockInv, CheckTyped, LockRight
<1>5. /\ lock'.pins = [e \in Environments |-> Emitted(declared, held[e])]
      /\ lock'.made = lock.made /\ lock'.inputs = lock.inputs
  BY <1>2, <1>4
<1>6. CheckTyped'
  BY <1>1, <1>2, <1>3, <1>4 DEF LockInv, CheckTyped
<1>7. MadeFor(declared, lock'.pins)
  BY <1>2, <1>5 DEF MadeFor
<1>8. MadeFor(declared, lock.pins)'
  BY <1>1, <1>7
<1>9. LockRight'
  BY <1>1, <1>4, <1>5, <1>8 DEF LockInv, LockRight
<1>10. QED BY <1>1, <1>4, <1>6, <1>9, NoVerdict, NotChecking

LEMMA ResolveFailsKept ==
  ASSUME LockInv, ResolveFails
  PROVE  LockInv'
<1>1. step = "resolve" /\ step' = "idle"
      /\ UNCHANGED <<declared, snapshot, planned, verdict, slices, lock>>
  BY DEF ResolveFails, Quiet, saved
<1>2. CheckTyped' /\ LockRight'
  BY <1>1 DEF LockInv, CheckTyped, LockRight
<1>3. QED BY <1>1, <1>2, VerdictStands, NotChecking

LEMMA AttachKept ==
  ASSUME LockInv, Attach
  PROVE  LockInv'
<1>1. step = "attach" /\ step' = "idle"
      /\ UNCHANGED <<declared, snapshot, planned, verdict, slices>>
  BY DEF Attach, Quiet
<1>2. lock \in [pins : [Environments -> Pins], inputs : Declarations,
                made : BOOLEAN, intact : BOOLEAN] /\ ~lock.made /\ snapshot \in Declarations
  BY <1>1 DEF LockInv, CheckTyped, LockRight
<1>3. CASE declared = snapshot
  <2>1. lock' = [lock EXCEPT !.inputs = snapshot, !.made = TRUE]
    BY <1>3 DEF Attach
  <2>2. lock'.inputs = snapshot /\ lock'.pins = lock.pins
    BY <1>2, <2>1
  <2>3. CheckTyped'
    BY <1>1, <1>2, <2>1 DEF LockInv, CheckTyped
  <2>4. MadeFor(snapshot, lock.pins)
    BY <1>1, <1>3 DEF LockInv, LockRight
  <2>5. LockRight'
    BY <1>1, <2>2, <2>4 DEF LockInv, LockRight
  <2>6. QED BY <1>1, <1>2, <2>3, <2>5, NoVerdict, NotChecking
<1>4. CASE declared # snapshot
  <2>1. lock' = NoLock
    BY <1>4 DEF Attach
  <2>2. NoLock \in [pins : [Environments -> Pins], inputs : Declarations,
                    made : BOOLEAN, intact : BOOLEAN] /\ ~NoLock.made
    BY <1>2 DEF NoLock, NoPins, Pins
  <2>3. CheckTyped'
    BY <1>1, <2>1, <2>2 DEF LockInv, CheckTyped
  <2>4. LockRight'
    BY <1>1, <1>2, <2>1, <2>2 DEF LockInv, LockRight
  <2>5. QED BY <1>1, <1>2, <2>3, <2>4, NoVerdict, NotChecking
<1>5. QED BY <1>3, <1>4

LEMMA BeginCheckKept ==
  ASSUME LockInv, BeginCheck
  PROVE  LockInv'
<1>1. step = "idle" /\ snapshot' = declared /\ UNCHANGED <<declared, lock, slices>>
      /\ declared \in Declarations
  BY DEF BeginCheck, Quiet, saved, LockInv, CheckTyped
<1>2. CASE verdict' \in {"unverifiable", "changed"} /\ step' = "idle" /\ planned' = planned
  <2>1. CheckTyped' /\ LockRight' /\ AcceptedMeans' /\ UnmetMeans'
    BY <1>1, <1>2 DEF LockInv, CheckTyped, LockRight, AcceptedMeans, UnmetMeans
  <2>2. QED BY <1>2, <2>1, NotChecking
<1>3. CASE verdict' = "accepted" /\ step' = "idle" /\ planned' = declared /\ lock.made
           /\ lock.inputs = declared
  <2>1. CheckTyped' /\ LockRight' /\ UnmetMeans'
    BY <1>1, <1>3 DEF LockInv, CheckTyped, LockRight, UnmetMeans
  <2>2. MadeFor(declared, lock.pins)
    BY <1>3 DEF LockInv, LockRight
  <2>3. ASSUME NEW e \in Environments
        PROVE  (\E members \in SUBSET snapshot.excluded : MeetsWith(e, members))'
    <3>1. PICK members \in SUBSET declared.excluded :
            Meets(declared, Selection(declared, lock.pins[e], members), e, declared.roots)
      BY <1>1, <2>2, MadeMeets
    <3>2. Meets(snapshot', Selection(snapshot', lock'.pins[e], members), e, snapshot'.roots)
      BY <1>1, <3>1
    <3>3. MeetsWith(e, members)'
      BY <3>2 DEF MeetsWith
    <3>4. QED BY <1>1, <3>3
  <2>4. AcceptedMeans'
    BY <2>3 DEF AcceptedMeans
  <2>5. QED BY <1>3, <2>1, <2>4, NotChecking
<1>4. CASE step' = "plan" /\ verdict' = "none" /\ planned' = planned /\ lock.made
           /\ SelectionInputs(lock.inputs) = SelectionInputs(declared)
  <2>1. CheckTyped' /\ AcceptedMeans' /\ UnmetMeans'
    BY <1>1, <1>4 DEF LockInv, CheckTyped, AcceptedMeans, UnmetMeans
  <2>2. LockRight'
    <3>1. SelectionInputs(lock.inputs)' = SelectionInputs(lock.inputs)
          /\ SelectionInputs(snapshot)' = SelectionInputs(declared)
      BY <1>1 DEF SelectionInputs, Local, Bare
    <3>2. QED BY <1>1, <1>4, <3>1 DEF LockInv, LockRight
  <2>3. QED BY <1>4, <2>1, <2>2, NotChecking
<1>5. QED BY <1>2, <1>3, <1>4 DEF BeginCheck, Say

LEMMA PlanInputsKept ==
  ASSUME LockInv, PlanInputs
  PROVE  LockInv'
<1>1. step = "plan" /\ step' = "slice" /\ planned' = declared /\ slices' = Environments
      /\ UNCHANGED <<declared, lock, snapshot, verdict>>
  BY DEF PlanInputs, saved
<1>2. verdict = "none"
  BY <1>1 DEF LockInv, LockRight
<1>3. CheckTyped' /\ LockRight' /\ AcceptedMeans' /\ UnmetMeans' /\ WalkRight' /\ SlicesRight'
  BY <1>1, <1>2 DEF LockInv, CheckTyped, LockRight, AcceptedMeans, UnmetMeans, WalkRight,
                    SlicesRight
<1>4. QED BY <1>3 DEF LockInv

LEMMA LockInitially == LockInit => LockInv
<1> SUFFICES ASSUME LockInit PROVE LockInv
  OBVIOUS
<1>1. NoLock \in [pins : [Environments -> Pins], inputs : Declarations,
                  made : BOOLEAN, intact : BOOLEAN] /\ ~NoLock.made
  BY DEF LockInit, NoLock, NoPins, Pins
<1>2. QED
  BY <1>1 DEF LockInit, LockInv, CheckTyped, LockRight, WalkRight, SlicesRight, AcceptedMeans,
              UnmetMeans

LEMMA LockStep == LockInv /\ [LockNext]_checking => LockInv'
<1> SUFFICES ASSUME LockInv, [LockNext]_checking PROVE LockInv'
  OBVIOUS
<1>1. ASSUME NEW d \in Declarations, Edit(d) PROVE LockInv'
  BY <1>1, EditKept
<1>2. CASE Tamper
  BY <1>2, TamperKept
<1>3. CASE BeginLock
  BY <1>3, BeginLockKept
<1>4. CASE Resolve
  BY <1>4, ResolveKept
<1>5. CASE ResolveFails
  BY <1>5, ResolveFailsKept
<1>6. CASE Attach
  BY <1>6, AttachKept
<1>7. CASE BeginCheck
  BY <1>7, BeginCheckKept
<1>8. CASE PlanInputs
  BY <1>8, PlanInputsKept
<1>9. ASSUME NEW e \in Environments, BeginSlice(e) PROVE LockInv'
  BY <1>9, WalkBegins
<1>10. ASSUME NEW r \in awaiting, Visit(r) PROVE LockInv'
  BY <1>10, VisitKept
<1>11. CASE EndSlice
  BY <1>11, EndSliceKept
<1>12. CASE UNCHANGED checking
  BY <1>12, StutterKept
<1>13. QED
  BY <1>1, <1>2, <1>3, <1>4, <1>5, <1>6, <1>7, <1>8, <1>9, <1>10, <1>11, <1>12 DEF LockNext

\* For any inputs, releases and environments: a lock nab refuses for an unmet bound
\* does not meet the inputs with every member in place, whatever the walk took first.
THEOREM RefusedIsUnmet == LockSpec => []UnmetMeans
<1>1. LockInv => UnmetMeans
  BY DEF LockInv
<1>2. QED BY <1>1, LockInitially, LockStep, PTL DEF LockSpec

\* For any inputs, releases and environments, as long as no published release asks for
\* a local package: what nab lock --locked says of a saved lock is so.
THEOREM CheckTellsTheTruth ==
  ASSUME NoneBack
  PROVE  LockSpec => []VerdictHolds
<1>1. LockInv => VerdictHolds
  BY DEF LockInv, VerdictHolds
<1>2. QED BY <1>1, LockInitially, LockStep, PTL DEF LockSpec
=============================================================================
