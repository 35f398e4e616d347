----------------------------- MODULE MultiIndex -----------------------------
(***************************************************************************)
(* MultiIndexClient (multi_index.py): one package name, several indexes.   *)
(* get_files asks the pinned index, or the routed one, or walks the        *)
(* configured order until an index has files, and remembers which index    *)
(* that was; metadata and archives are then asked of the same index.       *)
(*                                                                         *)
(* Every await of a client is a point where other calls may run.  Calls    *)
(* for one package follow one another, since the coordinator above fetches *)
(* a listing once at a time (Coordinator!SingleFlight); calls for          *)
(* different packages interleave.                                          *)
(***************************************************************************)
EXTENDS Naturals, Sequences

CONSTANTS
  IndexName,    \* the names of clients_by_name
  ClientOf,     \* the client behind each name; two names may share one
  Order,        \* the configured order, a sequence of names
  Routed,       \* the packages asked for
  Pinned,       \* override_map, as a function from some packages to names
  Walker,       \* the tasks that call get_files
  MaxCalls,     \* bound: calls of get_files in all
  Nowhere       \* no index

\* __init__ refuses an order that is empty or names an unknown index, and a pin to one.
ASSUME RoutingAssumption ==
  /\ Order \in Seq(IndexName) /\ Len(Order) >= 1
  /\ Pinned \in [DOMAIN Pinned -> IndexName] /\ DOMAIN Pinned \subseteq Routed
  /\ Nowhere \notin IndexName /\ Nowhere \notin Routed /\ MaxCalls \in Nat

VARIABLES
  walk,     \* per task: the call it is in, or that it is in none
  route,    \* _route_cache
  served,   \* per package: the index whose files get_files last returned
  calls,    \* how many calls were made
  closed    \* per client: how often it was closed

routing == <<walk, route, served, calls, closed>>

IndexReplies == {"files", "empty", "offline", "error"}
Idle == [mode |-> "idle", package |-> Nowhere, at |-> 0]
Clients == {ClientOf[n] : n \in IndexName}

RoutingCall == [mode : {"pinned", "routed", "walk"}, package : Routed,
         at : 1..Len(Order)]
RoutingTypeOK ==
  /\ walk \in [Walker -> RoutingCall \cup {Idle}]
  /\ route \in [Routed -> IndexName \cup {Nowhere}]
  /\ served \in [Routed -> IndexName \cup {Nowhere}]
  /\ calls \in 0..MaxCalls
  /\ closed \in [Clients -> Nat]

RoutingInit ==
  /\ walk = [w \in Walker |-> Idle]
  /\ route = [p \in Routed |-> Nowhere]
  /\ served = [p \in Routed |-> Nowhere]
  /\ calls = 0
  /\ closed = [c \in Clients |-> 0]

Opened == \A c \in Clients : closed[c] = 0
Busy(p) == \E w \in Walker : walk[w].package = p

\* The index a task is waiting for.
AskedIndex(w) ==
  CASE walk[w].mode = "pinned" -> Pinned[walk[w].package]
    [] walk[w].mode = "routed" -> route[walk[w].package]
    [] walk[w].mode = "walk" -> Order[walk[w].at]

\* Mutant: a remembered route is not looked at, and the indexes are walked again.
StartAnew(w, p) ==
  /\ Opened /\ walk[w] = Idle /\ ~Busy(p) /\ calls < MaxCalls
  /\ calls' = calls + 1
  /\ walk' = [walk EXCEPT ![w] =
       [mode |-> IF p \in DOMAIN Pinned THEN "pinned" ELSE "walk",
        package |-> p, at |-> 1]]
  /\ UNCHANGED <<route, served, closed>>

\* get_files up to its first await: a pin wins over a remembered route, and a
\* remembered route over the walk.
StartCall(w, p) ==
  /\ Opened /\ walk[w] = Idle /\ ~Busy(p) /\ calls < MaxCalls
  /\ calls' = calls + 1
  /\ walk' = [walk EXCEPT ![w] =
       [mode |-> IF p \in DOMAIN Pinned THEN "pinned"
                 ELSE IF route[p] # Nowhere THEN "routed" ELSE "walk",
        package |-> p, at |-> 1]]
  /\ UNCHANGED <<route, served, closed>>

\* The call returns files of index n, or nothing, or raises.
Return(w, n) ==
  /\ walk' = [walk EXCEPT ![w] = Idle]
  /\ served' = IF n = Nowhere THEN served
               ELSE [served EXCEPT ![walk[w].package] = n]

\* _record_route
RecordRoute(p, n) == route' = [route EXCEPT ![p] = n]

\* A pinned index answers: it is the route whether or not it has files.  An
\* error leaves the route as it was.
AnswerPinned(w, reply) ==
  /\ walk[w].mode = "pinned"
  /\ IF reply \in {"files", "empty"} THEN RecordRoute(walk[w].package, AskedIndex(w))
     ELSE UNCHANGED route
  /\ Return(w, IF reply = "files" THEN AskedIndex(w) ELSE Nowhere)
  /\ UNCHANGED <<calls, closed>>

\* A routed index answers: nothing is learned from it.
AnswerRouted(w, reply) ==
  /\ walk[w].mode = "routed"
  /\ Return(w, IF reply = "files" THEN AskedIndex(w) ELSE Nowhere)
  /\ UNCHANGED <<route, calls, closed>>

\* An index of the walk has files, and becomes the route.
WalkFinds(w, reply) ==
  /\ walk[w].mode = "walk" /\ reply = "files"
  /\ RecordRoute(walk[w].package, AskedIndex(w))
  /\ Return(w, AskedIndex(w))
  /\ UNCHANGED <<calls, closed>>

\* An index of the walk has nothing, or cannot be asked offline: the next one is
\* asked.  After the last one the first index becomes the route; whether the call
\* then returns nothing or raises OfflineError makes no difference here.
WalkMisses(w, reply) ==
  /\ walk[w].mode = "walk" /\ reply \in {"empty", "offline"}
  /\ IF walk[w].at < Len(Order)
     THEN /\ walk' = [walk EXCEPT ![w].at = @ + 1]
          /\ UNCHANGED <<route, served>>
     ELSE /\ RecordRoute(walk[w].package, Order[1])
          /\ Return(w, Nowhere)
  /\ UNCHANGED <<calls, closed>>

\* Anything else an index raises ends the walk with nothing recorded.
WalkFails(w, reply) ==
  /\ walk[w].mode = "walk" /\ reply = "error"
  /\ Return(w, Nowhere)
  /\ UNCHANGED <<route, calls, closed>>

\* aclose: each client once, however many names it has.
CloseClients ==
  /\ Opened /\ \A w \in Walker : walk[w] = Idle
  /\ closed' = [c \in Clients |-> closed[c] + 1]
  /\ UNCHANGED <<walk, route, served, calls>>

\* _client_for: where metadata, sdists, archives and range reads go.
ClientFor(p) == ClientOf[IF route[p] # Nowhere THEN route[p] ELSE Order[1]]

RoutingOver == ~Opened /\ UNCHANGED routing

RoutingNext ==
  \/ \E w \in Walker, p \in Routed : StartCall(w, p)
  \/ \E w \in Walker, reply \in IndexReplies :
       \/ AnswerPinned(w, reply) \/ AnswerRouted(w, reply)
       \/ WalkFinds(w, reply) \/ WalkMisses(w, reply) \/ WalkFails(w, reply)
  \/ CloseClients
  \/ RoutingOver

RoutingSpec == RoutingInit /\ [][RoutingNext]_routing

-----------------------------------------------------------------------------
\* What the files of a package came from is what its metadata is asked of.  Were
\* a later walk, a miss or another package's call to move the route, a wheel of
\* one index would be read with the metadata of another.
FollowsListing ==
  \A p \in Routed : served[p] # Nowhere => ClientFor(p) = ClientOf[served[p]]

\* A pinned package is never served, nor routed, by an index it is not pinned to.
PinHolds ==
  \A p \in DOMAIN Pinned :
    /\ served[p] \in {Nowhere, Pinned[p]}
    /\ route[p] \in {Nowhere, Pinned[p]}

\* The two together, with the types: a router sends everything that belongs to a
\* package to the one index that was chosen for it.
RoutesHold == RoutingTypeOK /\ FollowsListing /\ PinHolds
=============================================================================
