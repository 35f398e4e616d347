-------------------------- MODULE CoordinatorProofs --------------------------
(* What holds of Coordinator for any threads, packages, kinds of request and *)
(* number of runs.                                                           *)
EXTENDS Coordinator, FiniteSetTheorems, TLAPS

\* A thread works on a request: it claimed it or is about to store its answer.
Working == {"claimed", "landed", "marked"}
Works(x, k) == k \in at[x] /\ pc[x] \in Working

\* SingleFlight without counting: two places that hold a request are one place,
\* and a request that is held somewhere still waits.
Threadwise(k) ==
  /\ \A x, y \in Client : Works(x, k) /\ Works(y, k) => x = y
  /\ \A x \in Client : Works(x, k) => pending[k] = "waiting"
Queuewise(k) ==
  \A w \in Worker : \A i \in DOMAIN queue[w] : k \in queue[w][i] =>
    /\ \A v \in Worker : \A j \in DOMAIN queue[v] :
         k \in queue[v][j] => w = v /\ i = j
    /\ \A x \in Client : ~Works(x, k)
    /\ pending[k] = "waiting"
Taskwise(k) ==
  \A w \in Worker : k \in tasks[w] =>
    /\ \A v \in Worker : k \in tasks[v] => w = v
    /\ \A v \in Worker : \A i \in DOMAIN queue[v] : k \notin queue[v][i]
    /\ \A x \in Client : ~Works(x, k)
    /\ pending[k] = "waiting"
OnePlace == \A k \in Key : Threadwise(k) /\ Queuewise(k) /\ Taskwise(k)

\* What a thread carries where it stands.
Carries(x) ==
  /\ pc[x] = "idle" => at[x] = {}
  /\ pc[x] = "claimed" =>
       \/ \E k \in Key : at[x] = {k}
       \/ at[x] # {} /\ at[x] \cap warm = {}
  /\ pc[x] \in {"landed", "marked"} =>
       (\E k \in Key : at[x] = {k}) /\ result[x] \in Outcomes
  /\ pc[x] = "marked" => \A k \in at[x] : marked[k]
  /\ pc[x] = "stored" => "listing" \in Kind
Carrying == \A x \in Client : Carries(x)

Finite == \A w \in Worker : IsFiniteSet(fetching[w])

IInv == TypeOK /\ Finite /\ OnePlace /\ Carrying /\ WokenInformed

-----------------------------------------------------------------------------
\* Initially nothing is asked for, held or answered.
LEMMA InitIInv == ASSUME MaxConcurrency \in Nat, Init PROVE IInv
<1>1. TypeOK
  <2>1. \A w \in Worker : fetching[w] = {} /\ Cardinality(fetching[w]) = 0
    BY FS_EmptySet DEF Init
  <2>2. \A w \in Worker : fetching[w] \subseteq tasks[w] /\ Cardinality(fetching[w]) <= MaxConcurrency
    BY <2>1
  <2>3. warm \in SUBSET Key
    BY DEF Init
  <2>4. queue \in [Worker -> Seq(SUBSET Key)]
    BY DEF Init
  <2>5. /\ pc \in [Client -> Stages] /\ at \in [Client -> SUBSET Key]
        /\ result \in [Client -> Outcomes \cup {"none"}]
        /\ tasks \in [Worker -> SUBSET Key] 
        /\ tails \in [Worker -> SUBSET {p \in Package : "listing" \in Kind}]
        /\ state \in [Worker -> Lives]
    BY DEF Init, Outcomes, Stages, Lives
  <2>6. /\ pending \in [Key -> {"none", "waiting", "published"}]
        /\ answer \in [Key -> Answers] /\ marked \in [Key -> BOOLEAN]
    BY DEF Init, Answers
  <2> QED BY <2>2, <2>3, <2>4, <2>5, <2>6 DEF Init, TypeOK
<1>2. Finite
  BY FS_EmptySet DEF Init, Finite
<1>3. OnePlace
  BY DEF Init, OnePlace, Threadwise, Queuewise, Taskwise, Works, Working
<1>4. Carrying
  BY DEF Init, Carrying, Carries
<1>5. WokenInformed
  BY DEF Init, WokenInformed
<1> QED BY <1>1, <1>2, <1>3, <1>4, <1>5 DEF IInv

\* A step that leaves requests and those who hold them alone.
LEMMA LifeStep ==
  ASSUME IInv, TypeOK', Finite',
         UNCHANGED <<index, threads, queue, tasks, warm>>
  PROVE  IInv'
<1>1. OnePlace'
  BY DEF IInv, OnePlace, Threadwise, Queuewise, Taskwise, Works, index, threads
<1>2. Carrying' /\ WokenInformed'
  BY DEF IInv, Carrying, Carries, WokenInformed, index, threads
<1> QED BY <1>1, <1>2 DEF IInv

\* What a queue holds after something was posted.
LEMMA Posting ==
  ASSUME TypeOK, loop \in Worker, NEW item \in SUBSET Key, Post(item)
  PROVE  /\ queue' \in [Worker -> Seq(SUBSET Key)]
         /\ \A w \in Worker : \A i \in DOMAIN queue'[w] :
              \/ i \in DOMAIN queue[w] /\ queue'[w][i] = queue[w][i]
              \/ w = loop /\ i = Len(queue[loop]) + 1 /\ queue'[w][i] = item
<1> DEFINE q == queue[loop]
<1>1. q \in Seq(SUBSET Key) /\ Append(q, item) \in Seq(SUBSET Key)
  BY DEF TypeOK
<1>2. queue' = [queue EXCEPT ![loop] = Append(q, item)]
  BY DEF Post
<1>3. \A i \in DOMAIN Append(q, item) :
        \/ i \in DOMAIN q /\ Append(q, item)[i] = q[i]
        \/ i = Len(q) + 1 /\ Append(q, item)[i] = item
  BY <1>1
<1> HIDE DEF q
<1>4. queue' \in [Worker -> Seq(SUBSET Key)]
  BY <1>1, <1>2 DEF TypeOK
<1>5. ASSUME NEW w \in Worker, NEW i \in DOMAIN queue'[w]
      PROVE  \/ i \in DOMAIN queue[w] /\ queue'[w][i] = queue[w][i]
             \/ w = loop /\ i = Len(q) + 1 /\ queue'[w][i] = item
  <2>1. CASE w = loop
    <3>1. queue'[w] = Append(q, item) /\ queue[w] = q
      BY <1>2, <2>1 DEF TypeOK, q
    <3> QED BY <1>3, <2>1, <3>1
  <2>2. CASE w # loop
    BY <1>2, <2>2 DEF TypeOK
  <2> QED BY <2>1, <2>2
<1> QED BY <1>4, <1>5 DEF q

\* A step that sends the shutdown sentinel besides.
LEMMA SentinelStep ==
  ASSUME IInv, TypeOK', Finite', SendStop,
         UNCHANGED <<index, threads, tasks, warm>>
  PROVE  IInv'
<1>1. \A w \in Worker : \A i \in DOMAIN queue'[w] :
        queue'[w][i] # {} => i \in DOMAIN queue[w] /\ queue'[w][i] = queue[w][i]
  <2>1. CASE LoopTakes
    <3>1. loop \in Worker /\ Post({})
      BY <2>1 DEF IInv, TypeOK, SendStop, LoopTakes
    <3> QED BY <3>1, Posting DEF IInv
  <2>2. CASE ~LoopTakes
    BY <2>2 DEF SendStop
  <2> QED BY <2>1, <2>2
<1>2. OnePlace'
  BY <1>1 DEF IInv, OnePlace, Threadwise, Queuewise, Taskwise, Works, index, threads
<1>3. Carrying' /\ WokenInformed'
  BY DEF IInv, Carrying, Carries, WokenInformed, index, threads
<1> QED BY <1>2, <1>3 DEF IInv

\* A request is claimed: nobody worked on it before.
LEMMA ClaimStep ==
  ASSUME IInv, NEW x \in Client, NEW k \in Key, NEW S \in SUBSET Key,
         pending[k] = "none", pending' = [pending EXCEPT ![k] = "waiting"],
         pc' = [pc EXCEPT ![x] = "claimed"], at' = [at EXCEPT ![x] = S],
         \/ pc[x] \in {"idle", "stored"} /\ S = {k}
         \/ /\ pc[x] = "claimed" /\ S = at[x] \cup {k}
            /\ k \notin warm /\ at[x] \cap warm = {},
         UNCHANGED <<answer, marked, result, loops, life, warm>>
  PROVE  IInv'
<1>1. TypeOK' /\ Finite'
  BY DEF IInv, TypeOK, Finite, loops, life, Stages
<1>2. \A y \in Client, j \in Key :
        Works(y, j)' => Works(y, j) \/ (y = x /\ j = k)
  BY DEF IInv, TypeOK, Works, Working, Carrying, Carries
<1>3. \A y \in Client : ~Works(y, k)
  BY DEF IInv, OnePlace, Threadwise
<1>4. OnePlace'
  <2> SUFFICES ASSUME NEW j \in Key PROVE Threadwise(j)' /\ Queuewise(j)' /\ Taskwise(j)'
    BY DEF OnePlace
  <2>1. j # k => pending'[j] = pending[j]
    BY DEF IInv, TypeOK
  <2>2. pending'[k] = "waiting" /\ pending[k] = "none"
    BY DEF IInv, TypeOK
  <2>3. Threadwise(j)'
    BY <1>2, <1>3, <2>1, <2>2 DEF IInv, OnePlace, Threadwise
  <2>4. Queuewise(j)'
    BY <1>2, <2>1, <2>2 DEF IInv, OnePlace, Queuewise, loops
  <2>5. Taskwise(j)'
    BY <1>2, <2>1, <2>2 DEF IInv, OnePlace, Taskwise, loops
  <2> QED BY <2>3, <2>4, <2>5
<1>5. Carrying'
  <2> SUFFICES ASSUME NEW y \in Client PROVE Carries(y)'
    BY DEF Carrying
  <2>1. CASE y = x
    <3>1. at'[x] = S /\ pc'[x] = "claimed" /\ warm' = warm
      BY DEF IInv, TypeOK
    <3>2. CASE S = {k}
      BY <2>1, <3>1, <3>2 DEF Carries
    <3>3. CASE S = at[x] \cup {k} /\ k \notin warm /\ at[x] \cap warm = {}
      <4>1. S # {} /\ S \cap warm = {}
        BY <3>3
      <4> QED BY <2>1, <3>1, <4>1 DEF Carries
    <3> QED BY <3>2, <3>3
  <2>2. CASE y # x
    BY <2>2 DEF IInv, TypeOK, Carrying, Carries
  <2> QED BY <2>1, <2>2
<1>6. WokenInformed'
  BY DEF IInv, TypeOK, WokenInformed
<1> QED BY <1>1, <1>4, <1>5, <1>6 DEF IInv

\* A thread turns to what is no work: it waits, leaves, or looks at a stored listing.
LEMMA RestStep ==
  ASSUME IInv, NEW x \in Client, TypeOK', Finite',
         \A y \in Client \ {x} : pc'[y] = pc[y] /\ at'[y] = at[y],
         \/ pc'[x] = "waiting"
         \/ pc'[x] = "stored" /\ "listing" \in Kind
         \/ pc'[x] = "idle" /\ at'[x] = {},
         UNCHANGED <<index, result, queue, tasks, warm>>
  PROVE  IInv'
<1>1. \A y \in Client, j \in Key : Works(y, j)' => Works(y, j)
  BY DEF Works, Working
<1>2. OnePlace'
  BY <1>1 DEF IInv, OnePlace, Threadwise, Queuewise, Taskwise, index
<1>3. Carrying'
  BY DEF IInv, Carrying, Carries, index
<1>4. WokenInformed'
  BY DEF IInv, WokenInformed, index
<1> QED BY <1>2, <1>3, <1>4 DEF IInv

\* A request is answered from the disk cache by the thread that claimed it.
LEMMA ServeStep == ASSUME IInv, NEW x \in Client, ServeInline(x) PROVE IInv'
<1> USE DEF ServeInline
<1>1. TypeOK' /\ Finite'
  BY DEF IInv, TypeOK, Finite, index, loops, life, Stages, Outcomes
<1>2. \A y \in Client, j \in Key : Works(y, j)' <=> Works(y, j)
  BY DEF IInv, TypeOK, Works, Working
<1>3. OnePlace'
  BY <1>2 DEF IInv, OnePlace, Threadwise, Queuewise, Taskwise, index, loops
<1>4. Carrying'
  <2> SUFFICES ASSUME NEW y \in Client PROVE Carries(y)'
    BY DEF Carrying
  <2>1. CASE y = x
    BY <2>1 DEF IInv, TypeOK, Carrying, Carries, Outcomes
  <2>2. CASE y # x
    BY <2>2 DEF IInv, TypeOK, Carrying, Carries, index
  <2> QED BY <2>1, <2>2
<1>5. WokenInformed'
  BY DEF IInv, WokenInformed, index
<1> QED BY <1>1, <1>3, <1>4, <1>5 DEF IInv

\* Once submitted, a request is in a queue or is refused, and no thread has it.
LEMMA SubmitStep == ASSUME IInv, NEW x \in Client, Submit(x) PROVE IInv'
<1> DEFINE S == at[x]
<1>1. /\ pc[x] = "claimed" /\ S \in SUBSET Key
      /\ \A k \in S : pending[k] = "waiting"
      /\ \A k \in S, y \in Client : Works(y, k) => y = x
      /\ \A k \in S, w \in Worker : k \notin tasks[w]
      /\ \A k \in S, w \in Worker : \A i \in DOMAIN queue[w] : k \notin queue[w][i]
  BY DEF Submit, IInv, TypeOK, OnePlace, Threadwise, Queuewise, Taskwise, Works, Working
<1>2. /\ \A y \in Client \ {x} : pc'[y] = pc[y] /\ at'[y] = at[y]
      /\ \/ pc'[x] = "waiting"
         \/ pc'[x] = "idle" /\ at'[x] = {}
      /\ pc' \in [Client -> Stages] /\ at' \in [Client -> SUBSET Key]
  <2>1. CASE Drop(x)
    BY <2>1 DEF Drop, IInv, TypeOK, Stages
  <2>2. ASSUME pc' = [pc EXCEPT ![x] = "waiting"],
               NEW k \in at[x], at' = [at EXCEPT ![x] = {k}]
        PROVE  /\ \A y \in Client \ {x} : pc'[y] = pc[y] /\ at'[y] = at[y]
               /\ pc'[x] = "waiting"
               /\ pc' \in [Client -> Stages] /\ at' \in [Client -> SUBSET Key]
    BY <2>2 DEF IInv, TypeOK, Stages
  <2> QED BY <2>1, <2>2 DEF Submit, Leave
<1>3. \A y \in Client, j \in Key : Works(y, j)' => Works(y, j) /\ j \notin S
  BY <1>1, <1>2 DEF Works, Working
<1>4. CASE Post(S) /\ LoopTakes /\ UNCHANGED <<pending, answer>>
  <2>1. loop \in Worker
    BY <1>4 DEF LoopTakes, IInv, TypeOK
  <2>2. /\ queue' \in [Worker -> Seq(SUBSET Key)]
        /\ \A w \in Worker : \A i \in DOMAIN queue'[w] :
              \/ i \in DOMAIN queue[w] /\ queue'[w][i] = queue[w][i]
              \/ w = loop /\ i = Len(queue[loop]) + 1 /\ queue'[w][i] = S
    BY <1>1, <1>4, <2>1, Posting DEF IInv
  <2>3. TypeOK' /\ Finite'
    BY <1>2, <1>4, <2>2 DEF Submit, IInv, TypeOK, Finite, life
  <2>4. ASSUME NEW k \in Key PROVE Threadwise(k)' /\ Queuewise(k)' /\ Taskwise(k)'
    <3>1. Threadwise(k)'
      BY <1>3, <1>4 DEF IInv, OnePlace, Threadwise
    <3>2. Queuewise(k)'
      BY <1>1, <1>3, <1>4, <2>2 DEF Submit, IInv, OnePlace, Queuewise
    <3>3. Taskwise(k)'
      BY <1>1, <1>3, <1>4, <2>2 DEF Submit, IInv, OnePlace, Taskwise
    <3> QED BY <3>1, <3>2, <3>3
  <2>5. Carrying'
    BY <1>2, <1>4 DEF Submit, IInv, Carrying, Carries, life
  <2>6. WokenInformed'
    BY <1>4 DEF Submit, IInv, WokenInformed
  <2> QED BY <2>3, <2>4, <2>5, <2>6 DEF IInv, OnePlace
<1>5. CASE Refuse(S) /\ UNCHANGED queue
  <2>1. TypeOK' /\ Finite'
    BY <1>2, <1>5 DEF Refuse, Submit, IInv, TypeOK, Finite, life, Answers
  <2>2. \A k \in Key \ S : pending'[k] = pending[k] /\ answer'[k] = answer[k]
    BY <1>5 DEF Refuse
  <2>3. \A k \in S : pending'[k] = "published" /\ answer'[k] = "refused"
    BY <1>1, <1>5 DEF Refuse
  <2>4. ASSUME NEW k \in Key PROVE Threadwise(k)' /\ Queuewise(k)' /\ Taskwise(k)'
    <3>1. Threadwise(k)'
      BY <1>3, <2>2 DEF IInv, OnePlace, Threadwise
    <3>2. Queuewise(k)'
      BY <1>1, <1>3, <1>5, <2>2 DEF IInv, OnePlace, Queuewise
    <3>3. Taskwise(k)'
      BY <1>1, <1>3, <1>5, <2>2 DEF Submit, IInv, OnePlace, Taskwise
    <3> QED BY <3>1, <3>2, <3>3
  <2>5. Carrying'
    BY <1>2 DEF Submit, IInv, Carrying, Carries, life
  <2>6. WokenInformed'
    BY <2>2, <2>3 DEF Submit, IInv, WokenInformed
  <2> QED BY <2>1, <2>4, <2>5, <2>6 DEF IInv, OnePlace
<1> QED BY <1>4, <1>5 DEF Submit

\* The answer of a fetch is in hand.
LEMMA LandStep ==
  ASSUME MaxConcurrency \in Nat, IInv, NEW w \in Worker, NEW k \in Key, Land(w, k)
  PROVE  IInv'
<1> USE DEF Land
<1>1. /\ w \in Client /\ pc[w] = "idle" /\ at[w] = {} /\ k \in tasks[w]
      /\ pc'[w] = "landed" /\ at'[w] = {k} /\ result'[w] \in Outcomes
      /\ \A y \in Client \ {w} : pc'[y] = pc[y] /\ at'[y] = at[y] /\ result'[y] = result[y]
  BY DEF IInv, TypeOK, Client, Carrying, Carries, Possible
<1>2. TypeOK' /\ Finite'
  <2>1. \A v \in Worker : /\ fetching'[v] \subseteq tasks'[v]
                          /\ IsFiniteSet(fetching'[v])
                          /\ Cardinality(fetching'[v]) <= MaxConcurrency
    <3> SUFFICES ASSUME NEW v \in Worker
                 PROVE  /\ fetching'[v] \subseteq tasks'[v]
                        /\ IsFiniteSet(fetching'[v])
                        /\ Cardinality(fetching'[v]) <= MaxConcurrency
      OBVIOUS
    <3>1. CASE v = w
      <4>1. fetching'[w] = fetching[w] \ {k} /\ k \in fetching[w]
            /\ tasks'[w] = tasks[w] \ {k}
        BY DEF IInv, TypeOK
      <4>2. IsFiniteSet(fetching[w]) /\ Cardinality(fetching[w]) <= MaxConcurrency
        BY DEF IInv, TypeOK, Finite
      <4>3. IsFiniteSet(fetching'[w])
            /\ Cardinality(fetching'[w]) = Cardinality(fetching[w]) - 1
            /\ Cardinality(fetching[w]) \in Nat
        BY <4>1, <4>2, FS_RemoveElement, FS_CardinalityType
      <4>4. fetching'[w] \subseteq tasks'[w]
        BY <4>1 DEF IInv, TypeOK
      <4> QED BY <3>1, <4>2, <4>3, <4>4
    <3>2. CASE v # w
      BY <3>2 DEF IInv, TypeOK, Finite
    <3> QED BY <3>1, <3>2
  <2>2. fetching' \in [Worker -> SUBSET Key] /\ tasks' \in [Worker -> SUBSET Key]
    BY DEF IInv, TypeOK
  <2>3. /\ pc' \in [Client -> Stages] /\ at' \in [Client -> SUBSET Key]
        /\ result' \in [Client -> Outcomes \cup {"none"}]
    BY <1>1 DEF IInv, TypeOK, Stages, Possible
  <2> QED BY <2>1, <2>2, <2>3 DEF IInv, TypeOK, Finite, index, life
<1>3. \A y \in Client, j \in Key : Works(y, j)' <=> (Works(y, j) \/ (y = w /\ j = k))
  BY <1>1 DEF Works, Working
<1>4. ASSUME NEW j \in Key PROVE Threadwise(j)' /\ Queuewise(j)' /\ Taskwise(j)'
  <2>1. \A v \in Worker : j \in tasks'[v] <=> j \in tasks[v] /\ ~(v = w /\ j = k)
    BY DEF IInv, TypeOK
  <2>2. Threadwise(j)'
    BY <1>1, <1>3 DEF IInv, OnePlace, Threadwise, Taskwise, index
  <2>3. Queuewise(j)'
    BY <1>1, <1>3 DEF IInv, OnePlace, Queuewise, Taskwise, index
  <2>4. Taskwise(j)'
    BY <1>1, <1>3, <2>1 DEF IInv, OnePlace, Taskwise, index
  <2> QED BY <2>2, <2>3, <2>4
<1>5. Carrying'
  <2> SUFFICES ASSUME NEW y \in Client PROVE Carries(y)'
    BY DEF Carrying
  <2>1. CASE y = w
    BY <1>1, <2>1 DEF Carries
  <2>2. CASE y # w
    BY <1>1, <2>2 DEF IInv, Carrying, Carries, index
  <2> QED BY <2>1, <2>2
<1>6. WokenInformed'
  BY DEF IInv, WokenInformed, index
<1> QED BY <1>2, <1>4, <1>5, <1>6 DEF IInv, OnePlace

\* What qualifies an answer is written before it.
LEMMA MarkStep == ASSUME IInv, NEW x \in Client, Mark(x) PROVE IInv'
<1> USE DEF Mark
<1>1. PICK k \in Key : /\ at[x] = {k} /\ result[x] \in Outcomes
                       /\ marked' = [marked EXCEPT ![k] = TRUE]
  <2>1. PICK k \in Key : at[x] = {k}
    BY DEF IInv, Carrying, Carries
  <2>2. result[x] \in Outcomes
    BY DEF IInv, Carrying, Carries
  <2> QED BY <2>1, <2>2
<1>2. TypeOK' /\ Finite'
  BY <1>1 DEF IInv, TypeOK, Finite, loops, life, Stages
<1>3. \A y \in Client, j \in Key : Works(y, j)' <=> Works(y, j)
  BY DEF IInv, TypeOK, Works, Working
<1>4. OnePlace'
  BY <1>3 DEF IInv, OnePlace, Threadwise, Queuewise, Taskwise, loops
<1>5. \A j \in Key : marked[j] => marked'[j]
  BY <1>1 DEF IInv, TypeOK
<1>6. Carrying'
  <2> SUFFICES ASSUME NEW y \in Client PROVE Carries(y)'
    BY DEF Carrying
  <2>1. CASE y = x
    <3>1. pc'[x] = "marked" /\ at'[x] = {k} /\ result'[x] \in Outcomes /\ marked'[k]
      BY <1>1 DEF IInv, TypeOK
    <3> QED BY <2>1, <3>1 DEF Carries
  <2>2. CASE y # x
    <3>1. pc'[y] = pc[y] /\ at'[y] = at[y] /\ result'[y] = result[y] /\ warm' = warm
      BY <2>2 DEF IInv, TypeOK
    <3>2. at[y] \in SUBSET Key
      BY DEF IInv, TypeOK
    <3> QED BY <1>5, <3>1, <3>2 DEF IInv, Carrying, Carries
  <2> QED BY <2>1, <2>2
<1>7. WokenInformed'
  BY <1>5 DEF IInv, WokenInformed
<1> QED BY <1>2, <1>4, <1>6, <1>7 DEF IInv

\* The answer is stored and its waiters wake.
LEMMA PublishStep == ASSUME IInv, NEW x \in Client, Publish(x) PROVE IInv'
<1>1. PICK k \in Key :
        /\ at[x] = {k} /\ pc[x] \in {"landed", "marked"} /\ Due(x, k)
        /\ answer' = [answer EXCEPT ![k] = result[x]]
        /\ pending' = [pending EXCEPT ![k] = "published"]
        /\ result' = [result EXCEPT ![x] = "none"]
        /\ \/ k.kind = "listing" /\ pc' = [pc EXCEPT ![x] = "stored"] /\ UNCHANGED at
           \/ Drop(x)
        /\ UNCHANGED <<marked, loops, life, warm>>
  <2>1. PICK k \in at[x] :
        /\ pc[x] \in {"landed", "marked"} /\ Due(x, k)
        /\ answer' = [answer EXCEPT ![k] = result[x]]
        /\ pending' = [pending EXCEPT ![k] = "published"]
        /\ result' = [result EXCEPT ![x] = "none"]
        /\ \/ k.kind = "listing" /\ pc' = [pc EXCEPT ![x] = "stored"] /\ UNCHANGED at
           \/ Drop(x)
        /\ UNCHANGED <<marked, loops, life, warm>>
    BY DEF Publish
  <2>2. PICK j \in Key : at[x] = {j}
    BY <2>1 DEF IInv, Carrying, Carries
  <2>3. k = j
    BY <2>1, <2>2
  <2> QED BY <2>1, <2>2, <2>3
<1>2. result[x] \in Outcomes /\ Works(x, k)
  BY <1>1 DEF IInv, Carrying, Carries, Works, Working
<1>3. /\ pc'[x] \in {"idle", "stored"}
      /\ pc'[x] = "idle" => at'[x] = {}
      /\ pc'[x] = "stored" => "listing" \in Kind
      /\ \A y \in Client \ {x} : /\ pc'[y] = pc[y] /\ at'[y] = at[y]
                                 /\ result'[y] = result[y]
      /\ pc' \in [Client -> Stages] /\ at' \in [Client -> SUBSET Key]
  <2>1. CASE k.kind = "listing" /\ pc' = [pc EXCEPT ![x] = "stored"] /\ UNCHANGED at
    BY <1>1, <2>1 DEF IInv, TypeOK, Stages, Key
  <2>2. CASE Drop(x)
    BY <1>1, <2>2 DEF Drop, IInv, TypeOK, Stages
  <2> QED BY <1>1, <2>1, <2>2
<1>4. TypeOK' /\ Finite'
  BY <1>1, <1>2, <1>3 DEF IInv, TypeOK, Finite, loops, life, Answers
<1>5. \A j \in Key \ {k} : pending'[j] = pending[j] /\ answer'[j] = answer[j]
  BY <1>1 DEF IInv, TypeOK
<1>6. pending'[k] = "published" /\ answer'[k] = result[x]
  BY <1>1 DEF IInv, TypeOK
<1>7. \A y \in Client, j \in Key : Works(y, j)' => Works(y, j) /\ j # k
  BY <1>1, <1>2, <1>3 DEF Works, Working, IInv, OnePlace, Threadwise
<1>8. ASSUME NEW j \in Key PROVE Threadwise(j)' /\ Queuewise(j)' /\ Taskwise(j)'
  <2>1. Threadwise(j)'
    BY <1>5, <1>7 DEF IInv, OnePlace, Threadwise
  <2>2. Queuewise(j)'
    BY <1>1, <1>2, <1>5, <1>7 DEF IInv, OnePlace, Queuewise, loops
  <2>3. Taskwise(j)'
    BY <1>1, <1>2, <1>5, <1>7 DEF IInv, OnePlace, Taskwise, loops
  <2> QED BY <2>1, <2>2, <2>3
<1>9. Carrying'
  BY <1>1, <1>3 DEF IInv, Carrying, Carries
<1>10. WokenInformed'
  <2> SUFFICES ASSUME NEW j \in Key, pending'[j] = "published"
               PROVE  /\ answer'[j] # "none"
                      /\ answer'[j] # "refused" /\ Qualified(j, answer'[j]) => marked'[j]
    BY DEF WokenInformed, Qualified
  <2>1. CASE j = k
    <3>1. Qualified(k, result[x]) => marked[k]
      BY <1>1 DEF Due, IInv, Carrying, Carries
    <3> QED BY <1>1, <1>2, <1>6, <2>1, <3>1 DEF Outcomes
  <2>2. CASE j # k
    BY <1>1, <1>5, <2>2 DEF IInv, WokenInformed
  <2> QED BY <2>1, <2>2
<1> QED BY <1>4, <1>8, <1>9, <1>10 DEF IInv, OnePlace

\* A tail that fails writes only where nothing was stored.
LEMMA TailStep == ASSUME IInv, NEW x \in Client, EndTail(x) PROVE IInv'
<1>1. /\ \A y \in Client \ {x} : pc'[y] = pc[y] /\ at'[y] = at[y]
      /\ pc'[x] = "idle" /\ at'[x] = {}
      /\ pc' \in [Client -> Stages] /\ at' \in [Client -> SUBSET Key]
  BY DEF EndTail, Drop, IInv, TypeOK, Stages
<1>2. /\ answer' \in [Key -> Answers]
      /\ \A k \in Key : answer[k] # "none" => answer'[k] = answer[k]
  BY DEF EndTail, Failed, IInv, TypeOK, Answers, Outcomes
<1>3. TypeOK' /\ Finite'
  BY <1>1, <1>2 DEF EndTail, IInv, TypeOK, Finite, loops, life
<1>4. \A y \in Client, j \in Key : Works(y, j)' => Works(y, j)
  BY <1>1 DEF Works, Working
<1>5. OnePlace'
  BY <1>4 DEF EndTail, IInv, OnePlace, Threadwise, Queuewise, Taskwise, loops
<1>6. Carrying'
  BY <1>1 DEF EndTail, IInv, Carrying, Carries
<1>7. WokenInformed'
  BY <1>2 DEF EndTail, IInv, WokenInformed
<1> QED BY <1>3, <1>5, <1>6, <1>7 DEF IInv

\* An item of the queue becomes tasks.
LEMMA DispatchStep == ASSUME IInv, NEW w \in Worker, Dispatch(w) PROVE IInv'
<1> DEFINE item == Head(queue[w])
<1>1. /\ queue[w] \in Seq(SUBSET Key) /\ queue[w] # << >>
      /\ queue' = [queue EXCEPT ![w] = Tail(queue[w])]
  BY DEF Dispatch, IInv, TypeOK
<1>2. /\ item \in SUBSET Key /\ 1 \in DOMAIN queue[w] /\ item = queue[w][1]
      /\ Tail(queue[w]) \in Seq(SUBSET Key)
      /\ \A i \in DOMAIN Tail(queue[w]) :
           i + 1 \in DOMAIN queue[w] /\ i + 1 # 1 /\ i \in Nat
             /\ Tail(queue[w])[i] = queue[w][i + 1]
  BY <1>1
<1>3. /\ queue' \in [Worker -> Seq(SUBSET Key)]
      /\ queue'[w] = Tail(queue[w])
      /\ \A v \in Worker \ {w} : queue'[v] = queue[v]
  BY <1>1, <1>2 DEF IInv, TypeOK
<1>4. /\ tasks' \in [Worker -> SUBSET Key]
      /\ tasks'[w] = tasks[w] \cup item
      /\ \A v \in Worker \ {w} : tasks'[v] = tasks[v]
  <2>1. CASE item = {}
    BY <2>1 DEF Dispatch, IInv, TypeOK
  <2>2. CASE item # {}
    <3>1. CreateTasks(w, item) /\ item \in SUBSET Key
      BY <1>2, <2>2 DEF Dispatch
    <3> HIDE DEF item
    <3> QED BY <3>1 DEF CreateTasks, IInv, TypeOK
  <2> QED BY <2>1, <2>2
<1> HIDE DEF item
<1>5. TypeOK' /\ Finite'
  <2>1. state' \in [Worker -> Lives]
    BY DEF Dispatch, IInv, TypeOK, Lives
  <2>2. \A v \in Worker : fetching[v] \subseteq tasks'[v]
    BY <1>4 DEF IInv, TypeOK
  <2> QED BY <1>3, <1>4, <2>1, <2>2 DEF Dispatch, IInv, TypeOK, Finite, index, threads
<1>6. \A y \in Client, j \in Key : Works(y, j)' <=> Works(y, j)
  BY DEF Dispatch, threads, Works
<1>7. ASSUME NEW j \in Key PROVE Threadwise(j)' /\ Queuewise(j)' /\ Taskwise(j)'
  <2>1. Threadwise(j)'
    BY <1>6 DEF Dispatch, IInv, OnePlace, Threadwise, index
  <2>2. ASSUME NEW v \in Worker, NEW i \in DOMAIN queue'[v], j \in queue'[v][i]
        PROVE  \E o \in DOMAIN queue[v] : /\ j \in queue[v][o]
                                          /\ v = w => o = i + 1 /\ o # 1 /\ i \in Nat
                                          /\ v # w => o = i
    <3>1. CASE v = w
      BY <1>2, <1>3, <2>2, <3>1
    <3>2. CASE v # w
      BY <1>3, <2>2, <3>2
    <3> QED BY <3>1, <3>2
  <2>3. j \in item => /\ \A v \in Worker : j \notin tasks[v]
                      /\ \A x \in Client : ~Works(x, j)
                      /\ pending[j] = "waiting"
                      /\ \A v \in Worker : \A i \in DOMAIN queue[v] :
                           j \in queue[v][i] => v = w /\ i = 1
    BY <1>2 DEF IInv, OnePlace, Queuewise, Taskwise
  <2>4. Queuewise(j)'
    <3> SUFFICES ASSUME NEW v \in Worker, NEW i \in DOMAIN queue'[v], j \in queue'[v][i]
                 PROVE  /\ \A u \in Worker : \A h \in DOMAIN queue'[u] :
                             j \in queue'[u][h] => v = u /\ i = h
                        /\ \A x \in Client : ~Works(x, j)'
                        /\ pending'[j] = "waiting"
      BY DEF Queuewise
    <3>1. PICK o \in DOMAIN queue[v] : /\ j \in queue[v][o]
                                       /\ v = w => o = i + 1 /\ o # 1 /\ i \in Nat
                                       /\ v # w => o = i
      BY <2>2
    <3>2. \A x \in Client : ~Works(x, j)'
      BY <1>6, <3>1 DEF IInv, OnePlace, Queuewise
    <3>3. pending'[j] = "waiting"
      BY <3>1 DEF Dispatch, index, IInv, OnePlace, Queuewise
    <3>4. ASSUME NEW u \in Worker, NEW h \in DOMAIN queue'[u], j \in queue'[u][h]
          PROVE  v = u /\ i = h
      <4>1. PICK e \in DOMAIN queue[u] : /\ j \in queue[u][e]
                                         /\ u = w => e = h + 1 /\ e # 1 /\ h \in Nat
                                         /\ u # w => e = h
        BY <2>2, <3>4
      <4>2. v = u /\ o = e
        BY <3>1, <4>1 DEF IInv, OnePlace, Queuewise
      <4> QED BY <3>1, <4>1, <4>2
    <3> QED BY <3>2, <3>3, <3>4
  <2>5. Taskwise(j)'
    <3> SUFFICES ASSUME NEW v \in Worker, j \in tasks'[v]
                 PROVE  /\ \A u \in Worker : j \in tasks'[u] => v = u
                        /\ \A u \in Worker : \A i \in DOMAIN queue'[u] :
                             j \notin queue'[u][i]
                        /\ \A x \in Client : ~Works(x, j)'
                        /\ pending'[j] = "waiting"
      BY DEF Taskwise
    <3>1. \A u \in Worker : j \in tasks'[u] <=> (j \in tasks[u] \/ (u = w /\ j \in item))
      BY <1>4
    <3>2. pending' = pending
      BY DEF Dispatch, index
    <3>3. CASE j \in item
      BY <1>6, <2>2, <2>3, <3>1, <3>2, <3>3
    <3>4. CASE j \notin item
      BY <1>6, <2>2, <3>1, <3>2, <3>4 DEF IInv, OnePlace, Taskwise
    <3> QED BY <3>3, <3>4
  <2> QED BY <2>1, <2>4, <2>5
<1>8. Carrying' /\ WokenInformed'
  BY DEF Dispatch, IInv, Carrying, Carries, WokenInformed, index, threads
<1> QED BY <1>5, <1>7, <1>8 DEF IInv, OnePlace

\* A task starts to fetch, within the limit.
LEMMA AcquireStep ==
  ASSUME MaxConcurrency \in Nat, IInv, NEW w \in Worker, NEW k \in Key, Acquire(w, k)
  PROVE  IInv'
<1> USE DEF Acquire
<1>1. ASSUME NEW v \in Worker
      PROVE  /\ fetching'[v] \subseteq tasks[v]
             /\ IsFiniteSet(fetching'[v])
             /\ Cardinality(fetching'[v]) <= MaxConcurrency
  <2>1. CASE v = w
    <3>1. fetching'[w] = fetching[w] \cup {k} /\ k \notin fetching[w]
      BY DEF IInv, TypeOK
    <3>2. IsFiniteSet(fetching[w]) /\ Cardinality(fetching[w]) < MaxConcurrency
      BY DEF IInv, Finite
    <3>3. IsFiniteSet(fetching'[w])
          /\ Cardinality(fetching'[w]) = Cardinality(fetching[w]) + 1
          /\ Cardinality(fetching[w]) \in Nat
      BY <3>1, <3>2, FS_AddElement, FS_CardinalityType
    <3>4. fetching'[w] \subseteq tasks[w]
      BY <3>1 DEF IInv, TypeOK
    <3> QED BY <2>1, <3>2, <3>3, <3>4
  <2>2. CASE v # w
    BY <2>2 DEF IInv, TypeOK, Finite
  <2> QED BY <2>1, <2>2
<1>2. fetching' \in [Worker -> SUBSET Key]
  BY DEF IInv, TypeOK
<1>3. TypeOK' /\ Finite'
  BY <1>1, <1>2 DEF IInv, TypeOK, Finite, index, threads, life
<1> QED BY <1>3, LifeStep

\* What a thread or a worker does on its own.
LEMMA ProceedStep == ASSUME IInv, NEW x \in Client, Proceed(x) PROVE IInv'
<1>1. CASE ServeInline(x)
  BY <1>1, ServeStep
<1>2. CASE StartForSubmit(x)
  <2>1. TypeOK' /\ Finite'
    BY <1>2 DEF StartForSubmit, StartWorker, Unused, IInv, TypeOK, Finite, index,
                threads, loops, Lives
  <2> QED BY <1>2, <2>1, LifeStep DEF StartForSubmit, loops
<1>3. CASE Submit(x)
  BY <1>3, SubmitStep
<1>4. CASE Wake(x)
  <2>1. TypeOK' /\ Finite'
    BY <1>4 DEF Wake, Drop, IInv, TypeOK, Finite, index, loops, life, Stages
  <2> QED BY <1>4, <2>1, RestStep DEF Wake, Drop, IInv, TypeOK, loops
<1>5. CASE Mark(x)
  BY <1>5, MarkStep
<1>6. CASE Publish(x)
  BY <1>6, PublishStep
<1>7. CASE PostTail(x)
  <2>1. LoopTakes => loop \in Worker
    BY DEF LoopTakes, IInv, TypeOK
  <2>2. {k.package : k \in at[x]} \subseteq {p \in Package : "listing" \in Kind}
    BY <1>7 DEF PostTail, IInv, TypeOK, Key, Carrying, Carries
  <2>3. TypeOK' /\ Finite'
    BY <1>7, <2>1, <2>2 DEF PostTail, Drop, IInv, TypeOK, Finite, index, life, Stages
  <2> QED BY <1>7, <2>3, RestStep DEF PostTail, Drop, IInv, TypeOK
<1>8. CASE EndTail(x)
  BY <1>8, TailStep
<1>9. ASSUME NEW k \in Key, Prefetch(x, k) PROVE IInv'
  BY <1>9, ClaimStep DEF Prefetch, InTail
<1> QED BY <1>1, <1>2, <1>3, <1>4, <1>5, <1>6, <1>7, <1>8, <1>9 DEF Proceed

\* What is asked of the coordinator.
LEMMA AskStep == ASSUME IInv, NEW x \in Caller, Ask(x) PROVE IInv'
<1> x \in Client
  BY DEF Client
<1>1. ASSUME NEW k \in Key, Request(x, k) PROVE IInv'
  <2>1. at[x] \cup {k} = {k}
    BY <1>1 DEF Request, IInv, Carrying, Carries
  <2> QED BY <1>1, <2>1, ClaimStep DEF Request, Claim
<1>2. ASSUME NEW k \in Key, JoinPending(x, k) PROVE IInv'
  <2>1. TypeOK' /\ Finite'
    BY <1>2 DEF JoinPending, IInv, TypeOK, Finite, index, loops, life, Stages
  <2> QED BY <1>2, <2>1, RestStep DEF JoinPending, IInv, TypeOK, loops
<1>3. ASSUME NEW k \in Key, RequestMore(x, k) PROVE IInv'
  <2>1. k \notin warm /\ at[x] \cap warm = {} /\ at[x] \cup {k} \in SUBSET Key
    BY <1>3 DEF RequestMore, IInv, TypeOK
  <2> QED BY <1>3, <2>1, ClaimStep DEF RequestMore, Claim
<1>4. CASE Abandon(x)
  <2>1. TypeOK' /\ Finite'
    BY <1>4 DEF Abandon, Drop, IInv, TypeOK, Finite, index, loops, life, Stages
  <2> QED BY <1>4, <2>1, RestStep DEF Abandon, Drop, IInv, TypeOK, loops
<1> QED BY <1>1, <1>2, <1>3, <1>4 DEF Ask

\* A step of a worker's loop.
LEMMA LoopSteps ==
  ASSUME MaxConcurrency \in Nat, IInv, NEW w \in Worker, LoopStep(w)
  PROVE  IInv'
<1> w \in Client
  BY DEF Client
<1>1. CASE BuildClient(w)
  <2>1. TypeOK' /\ Finite'
    BY <1>1 DEF BuildClient, IInv, TypeOK, Finite, index, threads, loops, Lives
  <2> QED BY <1>1, <2>1, LifeStep DEF BuildClient, loops
<1>2. CASE Dispatch(w)
  BY <1>2, DispatchStep
<1>3. CASE Close(w)
  <2>1. TypeOK' /\ Finite'
    BY <1>3 DEF Close, IInv, TypeOK, Finite, index, threads, loops, Lives
  <2> QED BY <1>3, <2>1, LifeStep DEF Close, loops
<1>4. ASSUME NEW k \in Key, Acquire(w, k) PROVE IInv'
  BY <1>4, AcquireStep
<1>5. ASSUME NEW k \in Key, Land(w, k) PROVE IInv'
  BY <1>5, LandStep
<1>6. ASSUME NEW p \in Package, RunTail(w, p) PROVE IInv'
  <2>1. "listing" \in Kind
    BY <1>6 DEF RunTail, IInv, TypeOK
  <2>2. TypeOK' /\ Finite'
    BY <1>6, <2>1 DEF RunTail, IInv, TypeOK, Finite, index, life, Stages, Listing, Key
  <2> QED BY <1>6, <2>1, <2>2, RestStep DEF RunTail, IInv, TypeOK
<1>7. CASE Proceed(w)
  BY <1>7, ProceedStep
<1> QED BY <1>1, <1>2, <1>3, <1>4, <1>5, <1>6, <1>7 DEF LoopStep

\* The sentinel keeps the queues what they are.
LEMMA StopPosts ==
  ASSUME IInv, SendStop
  PROVE  queue' \in [Worker -> Seq(SUBSET Key)] /\ owner' = "joining"
<1>1. CASE LoopTakes
  <2>1. loop \in Worker /\ Post({})
    BY <1>1 DEF IInv, TypeOK, SendStop, LoopTakes
  <2> QED BY <2>1, Posting DEF IInv, SendStop
<1>2. CASE ~LoopTakes
  BY <1>2 DEF IInv, TypeOK, SendStop
<1> QED BY <1>1, <1>2

\* A step of the thread that enters and leaves the context.
LEMMA OwnStep == ASSUME IInv, Own PROVE IInv'
<1>1. CASE Enter
  <2>1. TypeOK' /\ Finite'
    BY <1>1 DEF Enter, StartWorker, Unused, IInv, TypeOK, Finite, index, threads,
                loops, Lives
  <2> QED BY <1>1, <2>1, LifeStep DEF Enter, loops
<1>2. CASE Entered
  <2>1. TypeOK' /\ Finite'
    BY <1>2 DEF Entered, IInv, TypeOK, Finite, index, threads, loops
  <2> QED BY <1>2, <2>1, LifeStep DEF Entered, loops
<1>3. CASE Exit
  <2>1. CASE SendStop /\ UNCHANGED <<state, thread>>
    <3>1. queue' \in [Worker -> Seq(SUBSET Key)] /\ owner' = "joining"
      BY <2>1, StopPosts
    <3>2. TypeOK' /\ Finite'
      BY <1>3, <2>1, <3>1 DEF Exit, IInv, TypeOK, Finite, index, threads
    <3> QED BY <1>3, <2>1, <3>2, SentinelStep DEF Exit
  <2>2. CASE /\ UNCHANGED queue
             /\ \/ owner' = "out" /\ UNCHANGED <<state, thread>>
                \/ owner' = "stopping" /\ StartWorker
    <3>1. TypeOK' /\ Finite'
      BY <1>3, <2>2 DEF Exit, StartWorker, Unused, IInv, TypeOK, Finite, index,
                        threads, Lives
    <3> QED BY <1>3, <2>2, <3>1, LifeStep DEF Exit
  <2> QED BY <1>3, <2>1, <2>2 DEF Exit
<1>4. CASE Stop
  <2>1. queue' \in [Worker -> Seq(SUBSET Key)] /\ owner' = "joining"
    BY <1>4, StopPosts DEF Stop
  <2>2. TypeOK' /\ Finite'
    BY <1>4, <2>1 DEF Stop, IInv, TypeOK, Finite, index, threads
  <2> QED BY <1>4, <2>2, SentinelStep DEF Stop
<1>5. CASE Join
  <2>1. TypeOK' /\ Finite'
    BY <1>5 DEF Join, IInv, TypeOK, Finite, index, threads, loops
  <2> QED BY <1>5, <2>1, LifeStep DEF Join, loops
<1> QED BY <1>1, <1>2, <1>3, <1>4, <1>5 DEF Own

\* The invariant is inductive.
LEMMA NextIInv == ASSUME MaxConcurrency \in Nat, IInv, [Next]_vars PROVE IInv'
<1>1. CASE Own
  BY <1>1, OwnStep
<1>2. ASSUME NEW x \in Caller, Ask(x) \/ Proceed(x) PROVE IInv'
  BY <1>2, AskStep, ProceedStep DEF Client
<1>3. ASSUME NEW w \in Worker, LoopStep(w) PROVE IInv'
  BY <1>3, LoopSteps
<1>4. CASE UNCHANGED vars
  <2>1. TypeOK' /\ Finite'
    BY <1>4 DEF IInv, TypeOK, Finite, vars, index, threads, loops, life
  <2> QED BY <1>4, <2>1, LifeStep DEF vars, loops
<1> QED BY <1>1, <1>2, <1>3, <1>4 DEF Next, Retired

\* Of every request at most one place has hold, what a thread carries fits where it
\* stands, and answers are complete before they wake anybody.
THEOREM Invariance == ASSUME MaxConcurrency \in Nat PROVE Spec => []IInv
<1>1. Init => IInv
  BY InitIInv
<1>2. IInv /\ [Next]_vars => IInv'
  BY NextIInv
<1> QED BY <1>1, <1>2, PTL DEF Spec

\* Every variable keeps its type, and no loop fetches beyond its limit.
THEOREM TypeCorrect == ASSUME MaxConcurrency \in Nat PROVE Spec => []TypeOK
<1>1. IInv => TypeOK
  BY DEF IInv
<1> QED BY <1>1, Invariance, PTL

\* A woken waiter finds its answer, and what qualifies the answer, whatever the
\* threads, the batches and the runs.
THEOREM WakesInformed == ASSUME MaxConcurrency \in Nat PROVE Spec => []WokenInformed
<1>1. IInv => WokenInformed
  BY DEF IInv
<1> QED BY <1>1, Invariance, PTL

\* No request is ever worked on in two places.
THEOREM NothingTwice == ASSUME MaxConcurrency \in Nat PROVE Spec => []SingleFlight
<1>1. ASSUME IInv PROVE SingleFlight
  <2> SUFFICES ASSUME NEW k \in Key
               PROVE  /\ Cardinality(Holders(k)) <= 1
                      /\ Holders(k) # {} => pending[k] = "waiting"
    BY DEF SingleFlight
  <2>1. ASSUME NEW h \in Holders(k)
        PROVE  \/ \E x \in Client : Works(x, k) /\ h = <<"thread", x>>
               \/ \E w \in Worker : \E i \in DOMAIN queue[w] :
                    k \in queue[w][i] /\ h = <<"queue", w, i>>
               \/ \E w \in Worker : k \in tasks[w] /\ h = <<"task", w>>
    <3> DEFINE Of(w) == {<<"queue", w, i>> : i \in {i \in DOMAIN queue[w] : k \in queue[w][i]}}
               All == {Of(w) : w \in Worker}
               Some == {<<"thread", x>> : x \in {x \in Client :
                          k \in at[x] /\ pc[x] \in {"claimed", "landed", "marked"}}}
               Rest == {<<"task", w>> : w \in {w \in Worker : k \in tasks[w]}}
    <3>1. h \in Some \/ h \in UNION All \/ h \in Rest
      <4>1. Holders(k) = Some \cup (UNION All) \cup Rest
        BY Zenon DEF Holders
      <4> HIDE DEF Some, All, Rest
      <4> QED BY <4>1
    <3>2. CASE h \in Some
      BY <3>2 DEF Works, Working
    <3>3. CASE h \in UNION All
      <4>1. PICK w \in Worker : h \in Of(w)
        BY <3>3
      <4> QED BY <4>1
    <3>4. CASE h \in Rest
      BY <3>4
    <3> QED BY <3>1, <3>2, <3>3, <3>4
  <2>2. Holders(k) # {} => pending[k] = "waiting"
    BY <1>1, <2>1 DEF IInv, OnePlace, Threadwise, Queuewise, Taskwise
  <2>3. ASSUME NEW g \in Holders(k), NEW h \in Holders(k) PROVE g = h
    <3>1. CASE \E x \in Client : Works(x, k) /\ g = <<"thread", x>>
      BY <1>1, <2>1, <3>1 DEF IInv, OnePlace, Threadwise, Queuewise, Taskwise
    <3>2. CASE \E w \in Worker : \E i \in DOMAIN queue[w] :
                 k \in queue[w][i] /\ g = <<"queue", w, i>>
      BY <1>1, <2>1, <3>2 DEF IInv, OnePlace, Queuewise, Taskwise
    <3>3. CASE \E w \in Worker : k \in tasks[w] /\ g = <<"task", w>>
      BY <1>1, <2>1, <3>3 DEF IInv, OnePlace, Taskwise
    <3> QED BY <2>1, <3>1, <3>2, <3>3
  <2>4. Cardinality(Holders(k)) <= 1
    <3>1. CASE Holders(k) = {}
      BY <3>1, FS_EmptySet
    <3>2. CASE Holders(k) # {}
      <4>1. PICK h : Holders(k) = {h}
        BY <2>3, <3>2
      <4> QED BY <4>1, FS_Singleton
    <3> QED BY <3>1, <3>2
  <2> QED BY <2>2, <2>4
<1> QED BY <1>1, Invariance, PTL

\* An answer that woke its waiters is never replaced.
THEOREM AnswersKept == ASSUME MaxConcurrency \in Nat PROVE Spec => AnswerStands
<1>1. ASSUME IInv, [Next]_vars PROVE KeepsAnswers
  <2> SUFFICES ASSUME NEW k \in Key, pending[k] = "published"
               PROVE  pending'[k] = "published" /\ answer'[k] = answer[k]
    BY DEF KeepsAnswers
  <2>1. \A x \in Client : ~Works(x, k)
    BY <1>1 DEF IInv, OnePlace, Threadwise
  <2>2. CASE Own
    BY <2>2 DEF Own, Enter, Entered, Exit, Stop, Join, index
  <2>3. ASSUME NEW x \in Caller, Ask(x) PROVE pending'[k] = pending[k] /\ answer'[k] = answer[k]
    BY <1>1, <2>3 DEF Ask, Request, JoinPending, RequestMore, Abandon, Claim, index,
                      IInv, TypeOK
  <2>4. ASSUME NEW x \in Client, Proceed(x)
        PROVE  pending'[k] = pending[k] /\ answer'[k] = answer[k]
    <3>1. CASE \/ ServeInline(x) \/ StartForSubmit(x) \/ Wake(x) \/ Mark(x) \/ PostTail(x)
               \/ \E j \in Key : Prefetch(x, j)
      BY <1>1, <3>1 DEF ServeInline, StartForSubmit, Wake, Mark, PostTail, Prefetch,
                        index, IInv, TypeOK
    <3>2. CASE Submit(x)
      BY <1>1, <2>1, <3>2 DEF Submit, Refuse, Works, Working, IInv, TypeOK
    <3>3. CASE Publish(x)
      BY <1>1, <2>1, <3>3 DEF Publish, Works, Working, IInv, TypeOK
    <3>4. CASE EndTail(x)
      BY <1>1, <3>4 DEF EndTail, Failed, IInv, TypeOK, WokenInformed
    <3> QED BY <2>4, <3>1, <3>2, <3>3, <3>4 DEF Proceed
  <2>5. ASSUME NEW w \in Worker, LoopStep(w)
        PROVE  pending'[k] = pending[k] /\ answer'[k] = answer[k]
    BY <2>4, <2>5 DEF LoopStep, BuildClient, Dispatch, Close, Acquire, Land, RunTail,
                      index, Client
  <2>6. CASE UNCHANGED vars
    BY <2>6 DEF vars, index
  <2> QED BY <1>1, <2>2, <2>3, <2>4, <2>5, <2>6 DEF Next, Retired, Client
<1> QED BY <1>1, Invariance, PTL DEF Spec, AnswerStands
=============================================================================
