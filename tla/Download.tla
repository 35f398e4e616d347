------------------------------ MODULE Download ------------------------------
(***************************************************************************)
(* nab download (download.py, _download.py): every artefact of a lock is   *)
(* fetched into a directory, several at a time, verified and written, or   *)
(* left alone when it is there already.  The first failure cancels the     *)
(* rest, which end before the client is closed.                            *)
(*                                                                         *)
(* An entry has the bytes its digest was taken of (content), an algorithm, *)
(* and a file: two names that differ in case only are one file, as they    *)
(* are on some systems.  An action runs from one await to the next.        *)
(***************************************************************************)
EXTENDS Naturals, Sequences, FiniteSets

CONSTANTS
  File,        \* the files of the directory, names that differ in case being one
  Locks,       \* the artefact lists to download: sequences of entries
  Present,     \* what the directory may hold before
  Contents,    \* the contents a fetch may bring, genuine or not
  MaxFetching, \* max_concurrency
  NoFile       \* no content

\* A URL stands for one file and one content, whichever target's listing it is from.
ASSUME DownloadAssumption ==
  /\ \A l \in Locks :
       /\ DOMAIN l = 1..Len(l) /\ Len(l) \in Nat /\ \A i \in DOMAIN l : l[i].file \in File
       /\ \A i, j \in DOMAIN l :
            l[i].url = l[j].url => l[i].file = l[j].file /\ l[i].content = l[j].content
  /\ Present \subseteq [File -> Contents \cup {NoFile}]
  /\ MaxFetching \in Nat

VARIABLES
  lock,         \* the artefacts of the lock
  directory,    \* the content of each file
  original,     \* what it was when the command began
  task,         \* per artefact to fetch, by its place in the lock: its task
  crew,         \* the state of the group of tasks
  disconnected, \* --offline
  client        \* "open" or "closed"

downloading == <<lock, directory, original, task, crew, disconnected, client>>

TaskStates == {"waiting", "fetching", "written", "skipped", "failed", "cancelling",
               "cancelled"}
Finished == {"written", "skipped", "failed", "cancelled"}
Crews == {"out", "running", "cancelling", "succeeded", "raised", "refused"}
Running == DOMAIN task

DownloadTypeOK ==
  /\ lock \in Locks
  /\ directory \in [File -> Contents \cup {NoFile}]
  /\ original \in [File -> Contents \cup {NoFile}]
  /\ task \in [Running -> TaskStates] /\ Running \subseteq DOMAIN lock
  /\ crew \in Crews /\ disconnected \in BOOLEAN /\ client \in {"open", "closed"}

DownloadInit ==
  /\ lock \in Locks /\ task = << >>
  /\ directory \in Present /\ original = directory
  /\ crew = "out" /\ disconnected \in BOOLEAN /\ client = "open"

\* iter_artifacts: an artefact several targets share is taken once, by its URL.
ByUrl == {i \in DOMAIN lock : \A j \in 1..(i - 1) : lock[j].url # lock[i].url}

\* _coalesce_download_targets: of entries for one file the first is kept, and
\* entries that record different hashes for it are refused.
Identity(e) == <<e.algo, e.content>>
Collide == \E i, j \in ByUrl : lock[i].file = lock[j].file
                                /\ Identity(lock[i]) # Identity(lock[j])
ByFile == {i \in ByUrl : \A j \in ByUrl : j < i => lock[j].file # lock[i].file}

\* download_lock: a refusal closes the transport too.
Begin ==
  /\ crew = "out"
  /\ \/ Collide /\ crew' = "refused" /\ client' = "closed" /\ UNCHANGED task
     \/ /\ ~Collide /\ crew' = "running" /\ task' = [i \in ByFile |-> "waiting"]
        /\ UNCHANGED client
  /\ UNCHANGED <<lock, directory, original, disconnected>>

Become(i, s) == task' = [task EXCEPT ![i] = s]
Fetching == {i \in Running : task[i] = "fetching"}

\* The end of a task that has its bytes: verified first, then written in one piece,
\* which the file system may refuse.
Deliver(i, got) ==
  \/ got # lock[i].content /\ Become(i, "failed") /\ UNCHANGED directory
  \/ /\ got = lock[i].content
     /\ \/ Become(i, "written") /\ directory' = [directory EXCEPT ![lock[i].file] = got]
        \/ Become(i, "failed") /\ UNCHANGED directory

\* A task gets one of the places and runs to its first await: a bad name fails, a
\* file that is right already is left, a local artefact is read at once.
StartTask(i) ==
  /\ crew = "running" /\ task[i] = "waiting" /\ Cardinality(Fetching) < MaxFetching
  /\ LET e == lock[i] IN
     IF ~e.safe THEN Become(i, "failed") /\ UNCHANGED directory
     ELSE IF directory[e.file] = e.content THEN Become(i, "skipped") /\ UNCHANGED directory
     ELSE IF e.local THEN \/ Become(i, "failed") /\ UNCHANGED directory
                          \/ \E got \in Contents : Deliver(i, got)
     ELSE Become(i, IF disconnected THEN "failed" ELSE "fetching") /\ UNCHANGED directory
  /\ UNCHANGED <<lock, original, crew, disconnected, client>>

\* The fetch of a task ends, or fails.
FetchEnds(i) ==
  /\ task[i] = "fetching"
  /\ \/ \E got \in Contents : Deliver(i, got)
     \/ Become(i, "failed") /\ UNCHANGED directory
  /\ UNCHANGED <<lock, original, crew, disconnected, client>>

\* Mutant: only the tasks that fetch are cancelled, not those that wait for a place.
CancelFetching ==
  /\ crew = "running"
  /\ crew' = "cancelling"
  /\ task' = [i \in Running |-> IF task[i] = "fetching" THEN "cancelling" ELSE task[i]]
  /\ UNCHANGED <<lock, directory, original, disconnected, client>>

\* gather hears of a failure, or the command is interrupted: the tasks that are not
\* done are cancelled.  Others may have ended since the failure.
CancelRest ==
  /\ crew = "running"
  /\ crew' = "cancelling"
  /\ task' = [i \in Running |-> IF task[i] \in Finished THEN task[i] ELSE "cancelling"]
  /\ UNCHANGED <<lock, directory, original, disconnected, client>>
HearFailure == (\E i \in Running : task[i] = "failed") /\ CancelRest
Interrupt == (\A i \in Running : task[i] # "failed") /\ CancelRest

\* Cancellation reaches a task at its await.
TaskCancelled(i) ==
  /\ task[i] = "cancelling" /\ Become(i, "cancelled")
  /\ UNCHANGED <<lock, directory, original, crew, disconnected, client>>

AllDone == \A i \in Running : task[i] \in Finished

\* Mutant: the client is closed without waiting for the cancelled tasks.
CloseAtFailure ==
  /\ crew = "cancelling"
  /\ crew' = "raised" /\ client' = "closed"
  /\ UNCHANGED <<lock, directory, original, task, disconnected>>

\* The second gather waits for every task; then the client is closed and the
\* failure raised.
CloseAfterFailure ==
  /\ crew = "cancelling" /\ AllDone
  /\ crew' = "raised" /\ client' = "closed"
  /\ UNCHANGED <<lock, directory, original, task, disconnected>>

CloseAfterSuccess ==
  /\ crew = "running" /\ \A i \in Running : task[i] \in {"written", "skipped"}
  /\ crew' = "succeeded" /\ client' = "closed"
  /\ UNCHANGED <<lock, directory, original, task, disconnected>>

Over == crew \in {"succeeded", "raised", "refused"}
DownloadOver == Over /\ UNCHANGED downloading

Progress ==
  \/ Begin \/ HearFailure \/ CloseAfterFailure \/ CloseAfterSuccess
  \/ \E i \in Running : StartTask(i) \/ FetchEnds(i) \/ TaskCancelled(i)
DownloadNext == Progress \/ Interrupt \/ DownloadOver

DownloadSpec ==
  DownloadInit /\ [][DownloadNext]_downloading /\ WF_downloading(Progress)

-----------------------------------------------------------------------------
\* Whatever fails or is cancelled, a file holds what it held before or what the
\* lock records for it, in full.
OnlyVerified ==
  \A f \in File :
    \/ directory[f] = original[f]
    \/ \E i \in DOMAIN lock : lock[i].file = f /\ lock[i].content = directory[f]

\* Success means that every artefact of the lock is there, also one that shares a
\* file name with another.
SuccessComplete ==
  crew = "succeeded" => \A i \in DOMAIN lock : directory[lock[i].file] = lock[i].content

\* The client is closed when no task can use it any more, and never more tasks
\* use it than allowed.
ClosedLast ==
  /\ client = "closed" => AllDone
  /\ Cardinality(Fetching) <= MaxFetching

\* The three together, with the types.
DownloadSound == DownloadTypeOK /\ OnlyVerified /\ SuccessComplete /\ ClosedLast

\* How the command ends: with the client closed.
Ended == Over /\ client = "closed"
=============================================================================
