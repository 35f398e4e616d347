----------------------------- MODULE RangeReads -----------------------------
(***************************************************************************)
(* read_wheel_metadata_over_range (lazy_wheel.py): tasks of one loop read  *)
(* the metadata of remote wheels of one host by range requests, and share  *)
(* what they learn of the host's ranges (RangeCapabilityMemo).             *)
(*                                                                         *)
(* The host may answer any request in any way, and differently each time.  *)
(* An action is what a task does from one await to the next.  Of a wheel   *)
(* the model keeps its length, counted in windows, how much of its end the *)
(* zip directory takes, and whether its bytes are those the index hashed.  *)
(***************************************************************************)
EXTENDS Naturals, FiniteSets

CONSTANTS
  Reader,       \* the tasks that read
  Wheel,        \* the wheel of each: [length, directory, hashed, genuine]
  MaxReads      \* bound: reads each task makes

VARIABLES
  capability,   \* the memo's state for the host
  probing,      \* whether _inflight has an event for the host
  stage,        \* where each task stands
  lead,         \* the capability its _acquire went by
  have,         \* the windows of the wheel's end it holds
  whole,        \* whether it holds a whole body
  owns,         \* owns_probe
  outcome,      \* how its last read ended
  reads,        \* how many reads it has begun
  barred        \* whether an answer ever spoke against ranges on this host

reading == <<capability, probing, stage, lead, have, whole, owns, outcome, reads,
             barred>>

Capabilities == {"unknown", "suffix", "absolute", "full", "unsupported"}
Stages == {"idle", "parked", "woken", "suffix", "length", "tail", "plain", "held",
           "open", "grow", "member", "read", "last"}
Outcomes == {"none", "text", "missing", "unsupported", "mismatch", "raised"}

\* What a host may answer: the whole body; a partial one as asked; a 206 whose
\* Content-Range tells no length; one that tells length zero; a refusal of ranges
\* (400, 403, 501); a 416; an encoded body; or any other error, the transport's
\* included.
Replies == {"whole", "partial", "lengthless", "zero", "refused", "unsatisfiable",
            "encoded", "error"}

ReadsTypeOK ==
  /\ capability \in Capabilities
  /\ probing \in BOOLEAN
  /\ stage \in [Reader -> Stages] /\ lead \in [Reader -> Capabilities]
  /\ have \in [Reader -> Nat] /\ whole \in [Reader -> BOOLEAN]
  /\ owns \in [Reader -> BOOLEAN] /\ outcome \in [Reader -> Outcomes]
  /\ reads \in [Reader -> 0..MaxReads] /\ barred \in BOOLEAN

Init ==
  /\ capability = "unknown" /\ probing = FALSE /\ barred = FALSE
  /\ stage = [r \in Reader |-> "idle"] /\ lead = [r \in Reader |-> "unknown"]
  /\ have = [r \in Reader |-> 0] /\ whole = [r \in Reader |-> FALSE]
  /\ owns = [r \in Reader |-> FALSE] /\ outcome = [r \in Reader |-> "none"]
  /\ reads = [r \in Reader |-> 0]

Goto(r, s) == stage' = [stage EXCEPT ![r] = s]
Smaller(i, j) == IF i < j THEN i ELSE j

\* The first request _acquire makes under a capability, if any.
FirstRequest(c) ==
  CASE c = "unsupported" -> "held"
    [] c = "full" -> "plain"
    [] c = "absolute" -> "length"
    [] OTHER -> "suffix"

\* await_probe: an unknown host is probed by one task, and the others wait for it.
\* With no wait, _acquire goes by the capability just read.
BeginRead(r) ==
  /\ stage[r] = "idle" /\ reads[r] < MaxReads
  /\ reads' = [reads EXCEPT ![r] = @ + 1]
  /\ outcome' = [outcome EXCEPT ![r] = "none"]
  /\ have' = [have EXCEPT ![r] = 0] /\ whole' = [whole EXCEPT ![r] = FALSE]
  /\ IF capability = "unknown" /\ probing
     THEN Goto(r, "parked") /\ UNCHANGED <<probing, owns, lead>>
     ELSE /\ Goto(r, FirstRequest(capability))
          /\ lead' = [lead EXCEPT ![r] = capability]
          /\ probing' = (probing \/ capability = "unknown")
          /\ owns' = [owns EXCEPT ![r] = capability = "unknown"]
  /\ UNCHANGED <<capability, barred>>

\* A waiter that was woken reads the capability again, and asks for itself when
\* there is still none.
Resume(r) ==
  /\ stage[r] = "woken"
  /\ lead' = [lead EXCEPT ![r] = capability]
  /\ Goto(r, FirstRequest(capability))
  /\ UNCHANGED <<capability, probing, have, whole, owns, outcome, reads, barred>>

\* Mutant: the event goes without being set.
FinishUnheard(r, s) ==
  /\ owns' = [owns EXCEPT ![r] = FALSE]
  /\ probing' = (probing /\ ~owns[r])
  /\ Goto(r, s)

\* finish_probe: the event is set and gone; the next reader of a host that is still
\* unknown starts a probe of its own.
FinishProbe(r, s) ==
  /\ owns' = [owns EXCEPT ![r] = FALSE]
  /\ probing' = (probing /\ ~owns[r])
  /\ stage' = [x \in Reader |->
                 IF x = r THEN s
                 ELSE IF owns[r] /\ stage[x] = "parked" THEN "woken" ELSE stage[x]]

\* The end of an acquisition.  What it learned is recorded; one that learned
\* nothing erases nothing.
Settle(r, learned) ==
  /\ capability' = IF learned = "unknown" THEN capability ELSE learned
  /\ FinishProbe(r, "held")

\* An exception leaves the acquisition with nothing recorded.
Fail(r) ==
  /\ FinishProbe(r, "idle")
  /\ outcome' = [outcome EXCEPT ![r] = "raised"]
  /\ UNCHANGED <<capability, lead, have, whole, reads, barred>>

\* A further request within the acquisition; lead keeps what it will have taught.
StepDown(r, s, learned) ==
  /\ Goto(r, s) /\ lead' = [lead EXCEPT ![r] = learned]
  /\ UNCHANGED <<capability, probing, owns, have, whole>>

\* What an acquisition ends with: a whole body, a window, nothing.
WholeBody(r, learned) ==
  /\ Settle(r, learned) /\ whole' = [whole EXCEPT ![r] = TRUE]
  /\ have' = [have EXCEPT ![r] = Wheel[r].length] /\ UNCHANGED lead
Window(r, learned) ==
  /\ Settle(r, learned) /\ have' = [have EXCEPT ![r] = Smaller(1, Wheel[r].length)]
  /\ UNCHANGED <<whole, lead>>
NoBody(r) == Settle(r, "unsupported") /\ UNCHANGED <<have, whole, lead>>

\* Mutant: any plain GET that answers speaks for the host.
LatchAlways(reply) == "full"

\* What a plain GET made after a reply teaches: nothing when the reply speaks for
\* the one file.
Latch(reply) == IF reply \in {"unsatisfiable", "zero"} THEN "unknown" ELSE "full"

\* _suffix_attempt: a whole body is no reason to avoid ranges from now on; what
\* cannot be used steps down to absolute ranges.
SuffixReply(r, reply) ==
  /\ stage[r] = "suffix"
  /\ CASE reply = "whole" -> WholeBody(r, "suffix")
       [] reply = "partial" -> Window(r, "suffix")
       [] OTHER -> StepDown(r, "length", lead[r])
  /\ UNCHANGED barred

\* _absolute_attempt: a refusal, or no length to range against, is stepped down to
\* a plain GET.
LengthReply(r, reply) ==
  /\ stage[r] = "length"
  /\ CASE reply = "whole" -> WholeBody(r, "full")
       [] reply = "encoded" -> NoBody(r)
       [] reply = "partial" -> StepDown(r, "tail", lead[r])
       [] OTHER -> StepDown(r, "plain", Latch(reply))
  /\ barred' = (barred \/ reply \in {"whole", "refused", "lengthless"})

\* _absolute_tail: any 206 is taken for the tail that was asked for.
TailReply(r, reply) ==
  /\ stage[r] = "tail"
  /\ CASE reply = "whole" -> WholeBody(r, "full")
       [] reply = "encoded" -> NoBody(r)
       [] reply \in {"partial", "lengthless", "zero"} -> Window(r, "absolute")
       [] OTHER -> StepDown(r, "plain", Latch(reply))
  /\ barred' = (barred \/ reply \in {"whole", "refused"})

\* _full_body_fetch, for a host known to need it or after a refusal.
PlainReply(r, reply) ==
  /\ stage[r] = "plain" /\ reply \in {"whole", "encoded"}
  /\ IF reply = "whole" THEN WholeBody(r, lead[r]) ELSE NoBody(r)
  /\ UNCHANGED barred

Acquiring == {"suffix", "length", "tail", "plain"}
AcquireReply(r, reply) ==
  \/ stage[r] \in Acquiring /\ reply = "error" /\ Fail(r)
  \/ /\ reply # "error"
     /\ SuffixReply(r, reply) \/ LengthReply(r, reply) \/ TailReply(r, reply)
          \/ PlainReply(r, reply)
     /\ UNCHANGED <<outcome, reads>>

\* The ways a read of bytes in hand can end: with metadata, with none in them, with
\* some that is not UTF-8.
Texts == {"text", "missing", "raised"}
EndRead(r, how) == Goto(r, "idle") /\ outcome' = [outcome EXCEPT ![r] = how]

\* _verify_full_body comes before _read_full_body.
Matches(r) == Wheel[r].genuine \/ ~Wheel[r].hashed
ReadWhole(r, how) == EndRead(r, IF Matches(r) THEN how ELSE "mismatch")

\* What is done with what was acquired.
Held(r, how) ==
  /\ stage[r] = "held" /\ how \in Texts
  /\ IF whole[r] THEN ReadWhole(r, how)
     ELSE IF have[r] = 0 THEN EndRead(r, "unsupported")
     ELSE Goto(r, "open") /\ UNCHANGED outcome
  /\ UNCHANGED <<capability, probing, lead, have, whole, owns, reads, barred>>

\* _open_zip and _read_sparse: the window is widened until the directory is in it
\* or it cannot be; the metadata is read, and asked for first where it has a gap.
OpenZip(r) ==
  /\ stage[r] = "open"
  /\ IF have[r] >= Wheel[r].directory
     THEN \/ EndRead(r, "missing")
          \/ Goto(r, "read") /\ UNCHANGED outcome
          \/ have[r] < Wheel[r].length /\ Goto(r, "member") /\ UNCHANGED outcome
     ELSE IF have[r] < Wheel[r].length THEN Goto(r, "grow") /\ UNCHANGED outcome
     ELSE EndRead(r, "missing")
  /\ UNCHANGED <<capability, probing, lead, have, whole, owns, reads, barred>>

ReadMember(r, how) ==
  /\ stage[r] = "read" /\ how \in Texts
  /\ EndRead(r, how)
  /\ UNCHANGED <<capability, probing, lead, have, whole, owns, reads, barred>>

\* _absorb_range, for a wider window or for the member: a whole body volunteered
\* now is verified before it fills the file; a refusal ends in a plain GET.
Absorb(r, reply, wanted, next) ==
  CASE reply = "whole" /\ Matches(r) ->
         /\ Goto(r, next) /\ have' = [have EXCEPT ![r] = Wheel[r].length]
         /\ whole' = [whole EXCEPT ![r] = TRUE] /\ UNCHANGED <<outcome, lead>>
    [] reply \in {"partial", "lengthless", "zero"} ->
         /\ Goto(r, next) /\ have' = [have EXCEPT ![r] = wanted]
         /\ UNCHANGED <<outcome, lead, whole>>
    [] reply \in {"refused", "unsatisfiable"} ->
         /\ Goto(r, "last") /\ lead' = [lead EXCEPT ![r] = Latch(reply)]
         /\ UNCHANGED <<have, outcome, whole>>
    [] OTHER ->
         /\ EndRead(r, CASE reply = "whole" -> "mismatch"
                         [] reply = "encoded" -> "missing"
                         [] OTHER -> "raised")
         /\ UNCHANGED <<have, lead, whole>>

\* The replies to a growth and to a member request; the member fills a gap and
\* widens no window.
RangeReply(r, reply) ==
  /\ \/ /\ stage[r] = "grow"
        /\ Absorb(r, reply, Smaller(2 * have[r], Wheel[r].length), "open")
     \/ stage[r] = "member" /\ Absorb(r, reply, have[r], "read")
  /\ barred' = (barred \/ reply = "refused")
  /\ UNCHANGED <<capability, probing, owns, reads>>

\* The plain GET after such a refusal teaches that ranges are no use here, unless
\* it was a 416, and only once the body has proved genuine.
LastReply(r, reply, how) ==
  /\ stage[r] = "last" /\ reply \in {"whole", "encoded", "error"} /\ how \in Texts
  /\ IF reply = "whole"
     THEN /\ whole' = [whole EXCEPT ![r] = TRUE] /\ ReadWhole(r, how)
          /\ capability' = IF Matches(r) /\ lead[r] = "full" THEN "full" ELSE capability
     ELSE /\ EndRead(r, IF reply = "error" THEN "raised" ELSE "missing")
          /\ UNCHANGED <<capability, whole>>
  /\ UNCHANGED <<probing, lead, have, owns, reads, barred>>

ReadStep(r) ==
  \/ Resume(r) \/ OpenZip(r)
  \/ \E reply \in Replies :
       \/ AcquireReply(r, reply) \/ RangeReply(r, reply)
       \/ \E how \in Texts : LastReply(r, reply, how)
  \/ \E how \in Texts : Held(r, how) \/ ReadMember(r, how)

ReadsOver ==
  /\ \A r \in Reader : stage[r] = "idle" /\ reads[r] = MaxReads
  /\ UNCHANGED reading

Next == (\E r \in Reader : BeginRead(r) \/ ReadStep(r)) \/ ReadsOver

Spec == Init /\ [][Next]_reading /\ \A r \in Reader : WF_reading(ReadStep(r))

-----------------------------------------------------------------------------
\* One probe at a time, and whoever waits for it waits for a reader that is still
\* acquiring, whose success or failure wakes it: finish_probe is in a finally.
ProbeLives ==
  /\ \A r, o \in Reader : owns[r] /\ owns[o] => r = o
  /\ probing <=> \E o \in Reader : owns[o]
  /\ \A r \in Reader : owns[r] => stage[r] \in Acquiring
  /\ \A r \in Reader : stage[r] = "parked" => probing

\* A host is put down as one whose wheels must be fetched whole only after an
\* answer that speaks against ranges as such: not after a 416, an empty file, or a
\* whole body in place of a suffix, which a filling proxy may send once.
LatchedForCause == capability = "full" => barred

\* Metadata is never read from a whole body that fails the digest the index
\* published, wherever in the read the body turned up.
GenuineOnly ==
  \A r \in Reader : whole[r] /\ outcome[r] \in {"text", "missing"} => Matches(r)

\* The three together, with the types.
ReadsSound == ReadsTypeOK /\ ProbeLives /\ LatchedForCause /\ GenuineOnly

\* Every read comes to an end: windows grow, and no waiter is forgotten.
Reading(r) == stage[r] # "idle"
ReadsReturn == \A r \in Reader : Reading(r) ~> ~Reading(r)
=============================================================================
