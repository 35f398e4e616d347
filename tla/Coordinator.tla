---------------------------- MODULE Coordinator ----------------------------
(***************************************************************************)
(* FetchCoordinator (fetch.py) over InMemoryIndex (store.py): the bridge   *)
(* between the threads that resolve and the event loop that fetches.       *)
(*                                                                         *)
(* A caller claims a request's pending event, then serves the request from *)
(* the cache on its own thread or submits it to the loop of the worker     *)
(* that is running.  The loop fetches up to MaxConcurrency requests at     *)
(* once and stores each answer, which wakes the waiters; a stored listing  *)
(* makes the loop ask for metadata itself.  One action is one step that    *)
(* another thread can see: a locked section of the index, a hand-over to   *)
(* the loop, the completion of a fetch.                                    *)
(*                                                                         *)
(* A coordinator can be entered again after a shutdown: each run has a     *)
(* worker of its own, and all of them share one index.                     *)
(***************************************************************************)
EXTENDS Integers, Sequences, FiniteSets

CONSTANTS
  Package,         \* the packages asked for
  Kind,            \* the kinds of fetch used, of those in Kinds
  Caller,          \* the threads that resolve
  MaxRuns,         \* bound: workers started over the coordinator's life
  MaxConcurrency,  \* max_concurrency
  OnDemand         \* a set of BOOLEANs: whether the worker starts with the first
                   \* cache miss rather than at entry, which the transport decides

Kinds == {"listing", "metadata", "range", "sdist", "archive"}

Key == [kind : Kind, package : Package]
Listing(p) == [kind |-> "listing", package |-> p]
Metadata(p) == [kind |-> "metadata", package |-> p]

Worker == 1..MaxRuns
Client == Caller \cup Worker

VARIABLES
  pending,   \* _pending: no event, one to wait on, or the set one
  answer,    \* the slot of a request, or the error stored in its place
  marked,    \* whether what qualifies the slot has been written
  pc, at,    \* where a thread stands, and with which requests
  result,    \* the outcome a thread is about to store
  state,     \* the life of each worker
  queue,     \* its queue; an empty set is the shutdown sentinel
  tasks,     \* the tasks of its loop
  fetching,  \* those that hold the semaphore
  tails,     \* packages whose listing tail was posted to the loop
  loop,      \* the worker behind _loop and _async_q, 0 for None
  thread,    \* the worker behind _thread, 0 for None
  idle,      \* _idle_transport is not None: a start may still be due
  crashed,   \* _crashed
  owner,     \* the thread that enters and leaves the context
  warm       \* what the disk cache can answer inline

index == <<pending, answer, marked>>
threads == <<pc, at, result>>
loops == <<queue, tasks, fetching, tails>>
life == <<state, loop, thread, idle, crashed, owner>>
vars == <<index, threads, loops, life, warm>>

Outcomes == {"value", "absent", "offline", "error"}
Answers == Outcomes \cup {"none", "refused"}
Stages == {"idle", "claimed", "landed", "marked", "stored", "waiting"}
Lives == {"none", "starting", "running", "draining", "closed"}

Init ==
  /\ pending = [k \in Key |-> "none"]
  /\ answer = [k \in Key |-> "none"]
  /\ marked = [k \in Key |-> FALSE]
  /\ pc = [x \in Client |-> "idle"] /\ at = [x \in Client |-> {}]
  /\ result = [x \in Client |-> "none"]
  /\ state = [w \in Worker |-> "none"]
  /\ queue = [w \in Worker |-> << >>] /\ tails = [w \in Worker |-> {}]
  /\ tasks = [w \in Worker |-> {}] /\ fetching = [w \in Worker |-> {}]
  /\ loop = 0 /\ thread = 0 /\ idle = FALSE /\ crashed = FALSE
  /\ owner = "out"
  /\ warm \in SUBSET {k \in Key : k.kind \in {"listing", "metadata"}}

----------------------------------------------------------------------------
(* Workers: start, the loop, shutdown. *)

Unused == {w \in Worker : state[w] = "none"}

\* _start_worker, up to the wait for the loop to be ready.
StartWorker ==
  \E w \in Unused :
    /\ \A v \in Unused : w <= v
    /\ thread' = w
    /\ state' = [state EXCEPT ![w] = "starting"]

\* __enter__.
Enter ==
  /\ owner = "out" /\ Unused # {}
  /\ \/ /\ TRUE \in OnDemand
        /\ owner' = "in" /\ idle' = TRUE /\ UNCHANGED <<state, thread>>
     \/ /\ FALSE \in OnDemand
        /\ owner' = "entering" /\ StartWorker /\ UNCHANGED idle
  /\ UNCHANGED <<index, threads, loops, loop, crashed, warm>>

Entered ==
  /\ owner = "entering" /\ state[thread] # "starting"
  /\ owner' = "in"
  /\ UNCHANGED <<index, threads, loops, state, loop, thread, idle, crashed, warm>>

\* _async_fetcher until its queue is ready: the clients are built, or it dies.
BuildClient(w) ==
  /\ state[w] = "starting"
  /\ \/ /\ state' = [state EXCEPT ![w] = "running"]
        /\ loop' = w /\ UNCHANGED crashed
     \/ /\ state' = [state EXCEPT ![w] = "closed"]
        /\ crashed' = TRUE /\ UNCHANGED loop
  /\ UNCHANGED <<index, threads, loops, thread, idle, owner, warm>>

\* call_soon_threadsafe takes the item: a loop that is winding down still does.
LoopTakes == loop # 0 /\ state[loop] # "closed"

Post(item) == queue' = [queue EXCEPT ![loop] = Append(@, item)]

\* shutdown, up to the join.
SendStop ==
  /\ IF LoopTakes THEN Post({}) ELSE UNCHANGED queue
  /\ owner' = "joining"

Exit ==
  /\ owner = "in" /\ \A x \in Caller : pc[x] = "idle"
  /\ idle' = FALSE
  /\ IF thread # 0
     THEN SendStop /\ UNCHANGED <<state, thread>>
     ELSE /\ UNCHANGED queue
          /\ \/ owner' = "out" /\ UNCHANGED <<state, thread>>
             \/ owner' = "stopping" /\ StartWorker
  /\ UNCHANGED <<index, threads, tasks, fetching, tails, loop, crashed, warm>>

Stop ==
  /\ owner = "stopping" /\ state[thread] # "starting"
  /\ SendStop
  /\ UNCHANGED <<index, threads, tasks, fetching, tails, state, loop, thread,
                 idle, crashed, warm>>

\* The join ends with the thread, or times out before it does.
Join ==
  /\ owner = "joining"
  /\ owner' = "out" /\ thread' = 0 /\ loop' = 0
  /\ UNCHANGED <<index, threads, loops, state, idle, crashed, warm>>

----------------------------------------------------------------------------
(* Requests, by a resolving thread or by the loop itself. *)

\* Mutant: the request is submitted whether or not its event already existed.
ClaimAnyway(x, k) ==
  /\ pending' = [pending EXCEPT ![k] = "waiting"]
  /\ pc' = [pc EXCEPT ![x] = "claimed"]
  /\ at' = [at EXCEPT ![x] = @ \cup {k}]

\* get_or_create_pending for a request that has no answer yet.
Claim(x, k) ==
  /\ pending[k] = "none"
  /\ pending' = [pending EXCEPT ![k] = "waiting"]
  /\ pc' = [pc EXCEPT ![x] = "claimed"]
  /\ at' = [at EXCEPT ![x] = @ \cup {k}]

Request(x, k) ==
  /\ owner = "in" /\ ~crashed
  /\ pc[x] = "idle"
  /\ Claim(x, k)
  /\ UNCHANGED <<answer, marked, result, loops, life, warm>>

\* Another party owns the fetch: wait on its event.
JoinPending(x, k) ==
  /\ owner = "in" /\ ~crashed
  /\ pc[x] = "idle" /\ pending[k] # "none"
  /\ pc' = [pc EXCEPT ![x] = "waiting"] /\ at' = [at EXCEPT ![x] = {k}]
  /\ UNCHANGED <<index, result, loops, life, warm>>

\* _try_metadata_sync reads the cache before anything is submitted.
Inline(k) == k \in warm /\ k.kind = "metadata"

\* request_metadata_batch: one more request for the same queue item.
RequestMore(x, k) ==
  /\ pc[x] = "claimed" /\ k.kind = "metadata" /\ k \notin warm
  /\ \A j \in at[x] : j.kind = "metadata" /\ j \notin warm
  /\ Claim(x, k)
  /\ UNCHANGED <<answer, marked, result, loops, life, warm>>

\* A fresh listing is read inline unless it is small or speculative.
ServeInline(x) ==
  /\ pc[x] = "claimed" /\ at[x] \subseteq warm
  /\ x \in Worker => \A k \in at[x] : k.kind = "metadata"
  /\ pc' = [pc EXCEPT ![x] = "landed"]
  /\ result' = [result EXCEPT ![x] = "value"]
  /\ UNCHANGED <<index, at, loops, life, warm>>

Drop(x) ==
  pc' = [pc EXCEPT ![x] = "idle"] /\ at' = [at EXCEPT ![x] = {}]

\* A caller waits for one of its requests or, for a prefetch, for none.
Leave(x) ==
  \/ Drop(x)
  \/ /\ x \in Caller
     /\ pc' = [pc EXCEPT ![x] = "waiting"]
     /\ \E k \in at[x] : at' = [at EXCEPT ![x] = {k}]

\* Mutant: a refused request is answered and its waiters are not told.
RefuseQuietly(keys) ==
  /\ answer' = [k \in Key |-> IF k \in keys THEN "refused" ELSE answer[k]]
  /\ UNCHANGED pending

\* _refuse: every request of the item is answered with a failure.
Refuse(keys) ==
  /\ answer' = [k \in Key |-> IF k \in keys THEN "refused" ELSE answer[k]]
  /\ pending' = [k \in Key |-> IF k \in keys THEN "published" ELSE pending[k]]

\* _submit on a deferred worker: start it and wait for its loop, which may die;
\* the request is then refused and the caller gets the error.
StartForSubmit(x) ==
  /\ pc[x] = "claimed" /\ ~\E k \in at[x] : Inline(k)
  /\ idle /\ thread = 0
  /\ StartWorker
  /\ UNCHANGED <<index, threads, loops, loop, idle, crashed, owner, warm>>

Submit(x) ==
  /\ pc[x] = "claimed" /\ ~\E k \in at[x] : Inline(k)
  /\ idle => thread # 0 /\ state[thread] # "starting"
  /\ \/ /\ idle /\ crashed
        /\ Refuse(at[x]) /\ Drop(x) /\ UNCHANGED queue
     \/ /\ ~(idle /\ crashed)
        /\ IF LoopTakes
           THEN Post(at[x]) /\ UNCHANGED <<pending, answer>>
           ELSE Refuse(at[x]) /\ UNCHANGED queue
        /\ Leave(x)
  /\ UNCHANGED <<marked, result, tasks, fetching, tails, life, warm>>

Wake(x) ==
  /\ pc[x] = "waiting" /\ \A k \in at[x] : pending[k] = "published"
  /\ Drop(x)
  /\ UNCHANGED <<index, result, loops, life, warm>>

\* The resolve is interrupted, or fails for another reason.
Abandon(x) ==
  /\ x \in Caller /\ pc[x] = "waiting"
  /\ Drop(x)
  /\ UNCHANGED <<index, result, loops, life, warm>>

----------------------------------------------------------------------------
(* The loop of a worker.  Between two awaits of a task nothing else of the  *)
(* same loop runs: pc is "idle" again before the next action of the loop.  *)

\* Mutant: a batch is taken for one request.
CreateOne(w, item) ==
  tasks' = [tasks EXCEPT ![w] = @ \cup {CHOOSE k \in item : TRUE}]

\* _dispatch: a task for each request of the item.
CreateTasks(w, item) == tasks' = [tasks EXCEPT ![w] = @ \cup item]

\* The sentinel ends the dispatching, and everything behind it is left there.
Dispatch(w) ==
  /\ state[w] = "running" /\ pc[w] = "idle" /\ queue[w] # << >>
  /\ queue' = [queue EXCEPT ![w] = Tail(@)]
  /\ IF Head(queue[w]) = {}
     THEN /\ tails[w] = {}
          /\ state' = [state EXCEPT ![w] = "draining"] /\ UNCHANGED tasks
     ELSE CreateTasks(w, Head(queue[w])) /\ UNCHANGED state
  /\ UNCHANGED <<index, threads, fetching, tails, loop, thread, idle, crashed,
                 owner, warm>>

\* Mutant: the fetch does not wait for the semaphore.
AcquireAtOnce(w, k) ==
  /\ pc[w] = "idle" /\ k \in tasks[w] \ fetching[w]
  /\ fetching' = [fetching EXCEPT ![w] = @ \cup {k}]
  /\ UNCHANGED <<index, threads, queue, tasks, tails, life, warm>>

Acquire(w, k) ==
  /\ pc[w] = "idle" /\ k \in tasks[w] \ fetching[w]
  /\ Cardinality(fetching[w]) < MaxConcurrency
  /\ fetching' = [fetching EXCEPT ![w] = @ \cup {k}]
  /\ UNCHANGED <<index, threads, queue, tasks, tails, life, warm>>

\* A listing that is fetched is a value, if an empty one.
Possible(k) == IF k.kind = "listing" THEN Outcomes \ {"absent"} ELSE Outcomes

Land(w, k) ==
  /\ pc[w] = "idle" /\ k \in fetching[w]
  /\ \E outcome \in Possible(k) : result' = [result EXCEPT ![w] = outcome]
  /\ pc' = [pc EXCEPT ![w] = "landed"] /\ at' = [at EXCEPT ![w] = {k}]
  /\ tasks' = [tasks EXCEPT ![w] = @ \ {k}]
  /\ fetching' = [fetching EXCEPT ![w] = @ \ {k}]
  /\ UNCHANGED <<index, queue, tails, life, warm>>

\* What a woken reader consults beside the slot: the index that served a
\* listing, the outcome of a range read, the pyproject of an sdist, and the
\* note that a metadata rung was skipped offline.
Qualified(k, outcome) ==
  CASE k.kind = "listing"  -> outcome \in {"value", "offline"}
    [] k.kind = "metadata" -> outcome = "offline"
    [] k.kind = "range"    -> outcome # "error"
    [] k.kind = "sdist"    -> outcome \in {"value", "offline"}
    [] k.kind = "archive"  -> FALSE

\* Mutant: the event fires before the mark is written.
WakeFirst(x, k) == pc[x] \in {"landed", "marked"}

\* store_listing_index and its like come first, then the slot and the event.
Due(x, k) == pc[x] = IF Qualified(k, result[x]) THEN "marked" ELSE "landed"

Mark(x) ==
  /\ pc[x] = "landed"
  /\ \E k \in at[x] : /\ Qualified(k, result[x])
                      /\ marked' = [marked EXCEPT ![k] = TRUE]
  /\ pc' = [pc EXCEPT ![x] = "marked"]
  /\ UNCHANGED <<pending, answer, at, result, loops, life, warm>>

Publish(x) ==
  \E k \in at[x] :
    /\ pc[x] \in {"landed", "marked"} /\ Due(x, k)
    /\ answer' = [answer EXCEPT ![k] = result[x]]
    /\ pending' = [pending EXCEPT ![k] = "published"]
    /\ result' = [result EXCEPT ![x] = "none"]
    /\ IF k.kind = "listing" /\ result[x] = "value"
       THEN pc' = [pc EXCEPT ![x] = "stored"] /\ UNCHANGED at
       ELSE Drop(x)
    /\ UNCHANGED <<marked, loops, life, warm>>

----------------------------------------------------------------------------
(* After a listing is stored: the progress tick, then metadata prefetch. *)

\* The loop of the caller's run takes the tail; without one it runs inline.
PostTail(x) ==
  /\ x \in Caller /\ pc[x] = "stored" /\ LoopTakes
  /\ tails' = [tails EXCEPT ![loop] = @ \cup {k.package : k \in at[x]}]
  /\ Drop(x)
  /\ UNCHANGED <<index, result, queue, tasks, fetching, life, warm>>

RunTail(w, p) ==
  /\ state[w] = "running" /\ pc[w] = "idle" /\ p \in tails[w]
  /\ tails' = [tails EXCEPT ![w] = @ \ {p}]
  /\ pc' = [pc EXCEPT ![w] = "stored"] /\ at' = [at EXCEPT ![w] = {Listing(p)}]
  /\ UNCHANGED <<index, result, queue, tasks, fetching, life, warm>>

InTail(x) == pc[x] = "stored" /\ (x \in Worker \/ ~LoopTakes)

\* _prefetch_metadata_after_listing asks for the newest version's sidecar.
Prefetch(x, k) ==
  /\ InTail(x) /\ ~crashed
  /\ k.kind = "metadata" /\ \E j \in at[x] : j.package = k.package
  /\ pending[k] = "none"
  /\ pending' = [pending EXCEPT ![k] = "waiting"]
  /\ pc' = [pc EXCEPT ![x] = "claimed"] /\ at' = [at EXCEPT ![x] = {k}]
  /\ UNCHANGED <<answer, marked, result, loops, life, warm>>

\* Mutant: a failure after the store overwrites the listing.
FailedAnew(k) == "error"

\* _record_fetch_failure: a stored listing keeps its answer.
Failed(k) == IF answer[k] = "none" THEN "error" ELSE answer[k]

\* No sidecar to prefetch, one already asked for, or a tail that raises.
EndTail(x) ==
  /\ InTail(x)
  /\ \/ UNCHANGED answer
     \/ answer' = [k \in Key |-> IF k \in at[x] THEN Failed(k) ELSE answer[k]]
  /\ Drop(x)
  /\ UNCHANGED <<pending, marked, result, loops, life, warm>>

\* Every task is done: the clients are closed, which may fail, and the loop ends.
Close(w) ==
  /\ state[w] = "draining" /\ pc[w] = "idle" /\ tasks[w] = {}
  /\ state' = [state EXCEPT ![w] = "closed"]
  /\ crashed' \in {crashed, TRUE}
  /\ UNCHANGED <<index, threads, loops, loop, thread, idle, owner, warm>>

----------------------------------------------------------------------------
\* What a thread does on its own once it has asked for something.
Proceed(x) ==
  \/ ServeInline(x) \/ StartForSubmit(x) \/ Submit(x) \/ Wake(x)
  \/ Mark(x) \/ Publish(x) \/ PostTail(x) \/ EndTail(x)
  \/ \E k \in Key : Prefetch(x, k)

LoopStep(w) ==
  \/ BuildClient(w) \/ Dispatch(w) \/ Close(w)
  \/ \E k \in Key : Acquire(w, k) \/ Land(w, k)
  \/ \E p \in Package : RunTail(w, p)
  \/ Proceed(w)

Ask(x) ==
  \/ \E k \in Key : Request(x, k) \/ JoinPending(x, k) \/ RequestMore(x, k)
  \/ Abandon(x)

Own == Enter \/ Entered \/ Exit \/ Stop \/ Join

\* The coordinator has had its last run.
Retired == owner = "out" /\ Unused = {} /\ UNCHANGED vars

Next ==
  \/ Own \/ Retired
  \/ \E x \in Caller : Ask(x) \/ Proceed(x)
  \/ \E w \in Worker : LoopStep(w)

Spec == Init /\ [][Next]_vars

\* Threads are scheduled and fetches end, with an answer or a timeout.  Nothing
\* makes a caller ask, or the owner enter or leave.
FairSpec ==
  /\ Spec
  /\ \A x \in Caller : WF_vars(Proceed(x))
  /\ \A w \in Worker : WF_vars(LoopStep(w))

----------------------------------------------------------------------------
(* Properties. *)

TypeOK ==
  /\ pending \in [Key -> {"none", "waiting", "published"}]
  /\ answer \in [Key -> Answers] /\ marked \in [Key -> BOOLEAN]
  /\ pc \in [Client -> Stages] /\ at \in [Client -> SUBSET Key]
  /\ result \in [Client -> Outcomes \cup {"none"}]
  /\ state \in [Worker -> Lives]
  /\ queue \in [Worker -> Seq(SUBSET Key)]
  /\ tasks \in [Worker -> SUBSET Key]
  /\ fetching \in [Worker -> SUBSET Key]
  /\ \A w \in Worker : /\ fetching[w] \subseteq tasks[w]
                       /\ Cardinality(fetching[w]) <= MaxConcurrency
  /\ tails \in [Worker -> SUBSET {p \in Package : "listing" \in Kind}]
  /\ loop \in Worker \cup {0} /\ thread \in Worker \cup {0}
  /\ idle \in BOOLEAN /\ crashed \in BOOLEAN
  /\ owner \in {"out", "entering", "in", "stopping", "joining"}
  /\ warm \in SUBSET Key

\* Where a request is being worked on: by a thread, in a queue, or as a task.
Holders(k) ==
  {<<"thread", x>> : x \in {x \in Client :
     k \in at[x] /\ pc[x] \in {"claimed", "landed", "marked"}}}
  \cup (UNION {{<<"queue", w, i>> : i \in {i \in DOMAIN queue[w] :
     k \in queue[w][i]}} : w \in Worker})
  \cup {<<"task", w>> : w \in {w \in Worker : k \in tasks[w]}}

\* A request is worked on in one place at a time, and by nobody once it has its
\* answer: get_or_create_pending makes callers, batches, prefetches and runs share.
SingleFlight ==
  \A k \in Key :
    /\ Cardinality(Holders(k)) <= 1
    /\ Holders(k) # {} => pending[k] = "waiting"

\* A waiter finds an answer when it wakes, and finds what qualifies the answer
\* written before it (the ordering comments of _fetch_listing and _fetch_sdist).
WokenInformed ==
  \A k \in Key : pending[k] = "published" =>
    /\ answer[k] # "none"
    /\ answer[k] # "refused" /\ Qualified(k, answer[k]) => marked[k]

\* An answer that has woken its waiters is never replaced, by a failure of the tail
\* or by a later run: every reader of a request sees the same outcome.
KeepsAnswers ==
  \A k \in Key : pending[k] = "published" =>
    pending'[k] = "published" /\ answer'[k] = answer[k]
AnswerStands == [][KeepsAnswers]_vars

\* A thread that waits is woken ("their waiters unblock instead of hanging",
\* _submit): on every terminal path of a fetch, on a refusal, and on a crash.
WaitersUnblock == \A x \in Caller : pc[x] = "waiting" ~> pc[x] # "waiting"
============================================================================
