--------------------------- MODULE NetworkProofs ---------------------------
(***************************************************************************)
(* What holds of RangeReads for any readers, wheels and number of reads,   *)
(* whatever the host answers; of Freshness whatever responses state and    *)
(* however far off the client's clock is, and is set; of MultiIndex for    *)
(* any indexes and pins; and of Download for any lock and directory.       *)
(***************************************************************************)
EXTENDS RangeReads, Freshness, MultiIndex, Download, FiniteSetTheorems,
        WellFoundedInduction, TLAPS

----------------------------------------------------------------------------
(* RangeReads. *)

Wheels == [length : Nat, directory : Nat, hashed : BOOLEAN, genuine : BOOLEAN]

\* What _acquire goes by, and will teach, is no harsher than what the host said.
LeadsForCause == \A r \in Reader : lead[r] = "full" => barred

\* Past the acquisition, a whole body has been verified; until a read ends it has
\* no outcome.
Verified ==
  \A r \in Reader :
    /\ stage[r] \in {"open", "grow", "member", "read", "last"} /\ whole[r] => Matches(r)
    /\ stage[r] # "idle" => outcome[r] = "none"

ReadsInv == ReadsSound /\ LeadsForCause /\ Verified

\* A step leaves the memo and the probe alone: the reader is not acquiring before it,
\* or goes on acquiring.
LEMMA ProbeKept ==
  ASSUME ProbeLives, ReadsTypeOK, NEW r \in Reader, NEW s \in Stages, Goto(r, s),
         stage[r] \notin Acquiring \/ s \in Acquiring, s # "parked",
         UNCHANGED <<probing, owns>>
  PROVE  ProbeLives'
<1>1. stage'[r] = s /\ \A x \in Reader \ {r} : stage'[x] = stage[x]
  BY DEF Goto, ReadsTypeOK
<1> QED BY <1>1 DEF ProbeLives

\* A step ends an acquisition, of the owner of the probe or of another reader.
LEMMA ProbeFinished ==
  ASSUME ProbeLives, ReadsTypeOK, NEW r \in Reader, NEW s \in {"held", "idle"},
         FinishProbe(r, s)
  PROVE  ProbeLives'
<1>1. /\ owns'[r] = FALSE /\ \A x \in Reader \ {r} : owns'[x] = owns[x]
      /\ stage'[r] = s
      /\ \A x \in Reader \ {r} :
           \/ stage'[x] = stage[x] /\ (owns[r] => stage[x] # "parked")
           \/ stage[x] = "parked" /\ stage'[x] = "woken"
      /\ probing' = (probing /\ ~owns[r])
  BY DEF FinishProbe, ReadsTypeOK
<1>2. CASE owns[r]
  <2>1. \A x \in Reader \ {r} : ~owns[x]
    BY <1>2 DEF ProbeLives
  <2> QED BY <1>1, <1>2, <2>1 DEF ProbeLives
<1>3. CASE ~owns[r]
  <2>1. owns' = owns /\ probing' = probing
    BY <1>1, <1>3 DEF FinishProbe, ReadsTypeOK, ProbeLives
  <2>2. \A x \in Reader : owns[x] => x # r /\ stage[x] # "parked"
    BY <1>3 DEF ProbeLives, Acquiring
  <2> QED BY <1>1, <1>3, <2>1, <2>2 DEF ProbeLives
<1> QED BY <1>2, <1>3

\* The types after it.
LEMMA FinishTypes ==
  ASSUME ReadsTypeOK, NEW r \in Reader, NEW s \in Stages, FinishProbe(r, s)
  PROVE  /\ stage' \in [Reader -> Stages] /\ owns' \in [Reader -> BOOLEAN]
         /\ probing' \in BOOLEAN
BY DEF FinishProbe, ReadsTypeOK, Stages

\* Nobody has read, probed or been told anything yet.
LEMMA InitReads == ASSUME MaxReads \in Nat, Init PROVE ReadsInv
<1>1. ReadsTypeOK
  <2>1. reads \in [Reader -> 0..MaxReads] /\ have \in [Reader -> Nat]
    BY DEF Init
  <2> QED BY <2>1 DEF Init, ReadsTypeOK, Capabilities, Stages, Outcomes
<1>2. ProbeLives /\ LatchedForCause /\ GenuineOnly /\ LeadsForCause /\ Verified
  BY DEF Init, ProbeLives, LatchedForCause, GenuineOnly, LeadsForCause, Verified, Acquiring
<1> QED BY <1>1, <1>2 DEF ReadsInv, ReadsSound

\* An acquisition begins with a request unless the host is known to be of no use.
LEMMA FirstIsAcquiring ==
  ASSUME NEW c \in Capabilities
  PROVE  /\ FirstRequest(c) \in Acquiring \cup {"held"}
         /\ c = "unknown" => FirstRequest(c) = "suffix"
BY DEF FirstRequest, Capabilities, Acquiring

\* A reader waits for the probe, starts it, or needs none.
LEMMA BeginStep == ASSUME MaxReads \in Nat, ReadsInv, NEW r \in Reader, BeginRead(r) PROVE ReadsInv'
<1> USE DEF ReadsInv, ReadsSound
<1>1. /\ stage[r] = "idle" /\ outcome'[r] = "none" /\ whole'[r] = FALSE
      /\ \A x \in Reader \ {r} : outcome'[x] = outcome[x] /\ whole'[x] = whole[x]
      /\ outcome' \in [Reader -> Outcomes] /\ whole' \in [Reader -> BOOLEAN]
      /\ have' \in [Reader -> Nat] /\ reads' \in [Reader -> 0..MaxReads]
  BY DEF BeginRead, ReadsTypeOK, Outcomes
<1>2. capability \in Capabilities /\ UNCHANGED <<capability, barred>>
  BY DEF BeginRead, ReadsTypeOK
<1>3. /\ stage'[r] \in Acquiring \cup {"held", "parked"}
      /\ \A x \in Reader \ {r} : stage'[x] = stage[x]
      /\ stage' \in [Reader -> Stages]
  BY <1>2, FirstIsAcquiring DEF BeginRead, Goto, ReadsTypeOK, Acquiring, Stages
<1>4. /\ lead' \in [Reader -> Capabilities]
      /\ \A x \in Reader : lead'[x] \in {lead[x], capability}
      /\ owns' \in [Reader -> BOOLEAN] /\ probing' \in BOOLEAN
  BY <1>2 DEF BeginRead, ReadsTypeOK
<1>5. ProbeLives'
  <2>1. CASE capability = "unknown" /\ probing
    <3>1. owns' = owns /\ probing' = probing /\ probing /\ ~owns[r]
      BY <1>1, <2>1 DEF BeginRead, ProbeLives, Acquiring
    <3>2. \E o \in Reader : owns'[o]
      BY <3>1 DEF ProbeLives
    <3>3. \A x \in Reader : owns'[x] => x # r /\ owns[x] /\ stage'[x] = stage[x]
      BY <1>3, <3>1
    <3>4. probing' = TRUE
      BY <2>1, <3>1 DEF ReadsTypeOK
    <3> QED BY <3>2, <3>3, <3>4 DEF ProbeLives
  <2>2. CASE capability = "unknown" /\ ~probing
    <3>1. \A x \in Reader : ~owns[x]
      BY <2>2 DEF ProbeLives
    <3>2. owns'[r] /\ probing' /\ stage'[r] = "suffix"
          /\ \A x \in Reader \ {r} : owns'[x] = owns[x]
      BY <1>2, <2>2, FirstIsAcquiring DEF BeginRead, Goto, ReadsTypeOK
    <3> QED BY <3>1, <3>2 DEF ProbeLives, Acquiring
  <2>3. CASE capability # "unknown"
    <3>1. ~owns[r]
      BY <1>1 DEF ProbeLives, Acquiring
    <3>2. (probing' <=> probing) /\ \A x \in Reader : owns'[x] <=> owns[x]
      <4>1. owns' = [owns EXCEPT ![r] = FALSE] /\ (probing' <=> probing)
        BY <2>3 DEF BeginRead
      <4> QED BY <3>1, <4>1 DEF ReadsTypeOK
    <3>3. stage'[r] # "parked"
      BY <1>2, <2>3, FirstIsAcquiring DEF BeginRead, Goto, ReadsTypeOK, Acquiring
    <3> QED BY <1>3, <3>1, <3>2, <3>3 DEF ProbeLives
  <2> QED BY <2>1, <2>2, <2>3 DEF ReadsTypeOK
<1>6. ReadsTypeOK'
  BY <1>1, <1>2, <1>3, <1>4 DEF ReadsTypeOK
<1>7. LatchedForCause' /\ LeadsForCause'
  BY <1>2, <1>4 DEF LatchedForCause, LeadsForCause
<1>8. GenuineOnly' /\ Verified'
  BY <1>1, <1>3 DEF GenuineOnly, Verified, Matches, Acquiring
<1> QED BY <1>5, <1>6, <1>7, <1>8

\* A waiter that was woken goes by what it reads now.
LEMMA ResumeStep == ASSUME ReadsInv, NEW r \in Reader, Resume(r) PROVE ReadsInv'
<1> USE DEF ReadsInv, ReadsSound
<1>1. /\ capability \in Capabilities /\ FirstRequest(capability) \in Stages
      /\ FirstRequest(capability) \in Acquiring \cup {"held"}
  BY FirstIsAcquiring DEF ReadsTypeOK, Acquiring, Stages
<1>2. /\ stage[r] = "woken" /\ stage'[r] \in Acquiring \cup {"held"}
      /\ \A x \in Reader \ {r} : stage'[x] = stage[x]
  BY <1>1 DEF Resume, Goto, ReadsTypeOK
<1>3. ProbeLives'
  BY <1>1, <1>2, ProbeKept DEF Resume, Acquiring
<1>4. ReadsTypeOK'
  BY <1>1 DEF Resume, Goto, ReadsTypeOK
<1>5. LatchedForCause' /\ LeadsForCause'
  BY <1>1 DEF Resume, ReadsTypeOK, LatchedForCause, LeadsForCause
<1>6. GenuineOnly' /\ Verified'
  BY <1>2 DEF Resume, GenuineOnly, Verified, Matches, Acquiring
<1> QED BY <1>3, <1>4, <1>5, <1>6

\* Where everybody stands after an acquisition ended.
LEMMA FinishStages ==
  ASSUME ReadsTypeOK, NEW r \in Reader, NEW s \in Stages, FinishProbe(r, s)
  PROVE  /\ stage'[r] = s
         /\ \A x \in Reader \ {r} :
           stage'[x] = stage[x] \/ (stage[x] = "parked" /\ stage'[x] = "woken")
<1>1. stage' = [x \in Reader |->
                  IF x = r THEN s
                  ELSE IF owns[r] /\ stage[x] = "parked" THEN "woken" ELSE stage[x]]
  BY DEF FinishProbe
<1> QED BY <1>1

\* An acquisition ends with something to read, or with nothing.
LEMMA SettleStep ==
  ASSUME ReadsInv, NEW r \in Reader, NEW learned \in Capabilities, Settle(r, learned),
         stage[r] \in Acquiring, barred \in BOOLEAN /\ barred' \in BOOLEAN,
         barred => barred', learned = "full" => barred',
         have' \in [Reader -> Nat], whole' \in [Reader -> BOOLEAN],
         \A x \in Reader \ {r} : whole'[x] = whole[x],
         UNCHANGED <<outcome, reads, lead>>
  PROVE  ReadsInv'
<1> USE DEF ReadsInv, ReadsSound
<1>1. "held" \in Stages /\ FinishProbe(r, "held")
      /\ capability' = (IF learned = "unknown" THEN capability ELSE learned)
  BY DEF Settle, Stages
<1>2. ReadsTypeOK'
  <2>1. stage' \in [Reader -> Stages] /\ owns' \in [Reader -> BOOLEAN] /\ probing' \in BOOLEAN
    BY <1>1, FinishTypes
  <2> QED BY <1>1, <2>1 DEF ReadsTypeOK
<1>3. ProbeLives'
  BY <1>1, ProbeFinished
<1>4. LatchedForCause' /\ LeadsForCause'
  BY <1>1 DEF LatchedForCause, LeadsForCause
<1>5. outcome'[r] = "none" /\ stage'[r] = "held"
  BY <1>1, FinishStages DEF Verified, Acquiring
<1>6. \A x \in Reader \ {r} :
           stage'[x] = stage[x] \/ (stage[x] = "parked" /\ stage'[x] = "woken")
  BY <1>1, FinishStages
<1>7. GenuineOnly' /\ Verified'
  BY <1>5, <1>6 DEF GenuineOnly, Verified, Matches
<1> QED BY <1>2, <1>3, <1>4, <1>7

\* An acquisition makes a further request.
LEMMA StepDownStep ==
  ASSUME ReadsInv, NEW r \in Reader, NEW s \in Acquiring, NEW learned \in Capabilities,
         StepDown(r, s, learned), stage[r] \in Acquiring, barred' \in BOOLEAN,
         barred => barred', learned = "full" => barred', UNCHANGED <<outcome, reads>>
  PROVE  ReadsInv'
<1> USE DEF ReadsInv, ReadsSound
<1>1. s \in Stages /\ s # "parked" /\ Goto(r, s) /\ UNCHANGED <<probing, owns>>
  BY DEF StepDown, Acquiring, Stages
<1>2. stage'[r] = s /\ \A x \in Reader \ {r} : stage'[x] = stage[x]
  BY <1>1 DEF Goto, ReadsTypeOK
<1>3. ReadsTypeOK'
  BY <1>1 DEF StepDown, Goto, ReadsTypeOK
<1>4. ProbeLives'
  BY <1>1, ProbeKept
<1>5. LatchedForCause' /\ LeadsForCause'
  BY DEF StepDown, ReadsTypeOK, LatchedForCause, LeadsForCause
<1>6. GenuineOnly' /\ Verified'
  BY <1>2 DEF StepDown, GenuineOnly, Verified, Matches, Acquiring
<1> QED BY <1>3, <1>4, <1>5, <1>6

\* A reply to an acquisition.
LEMMA AcquireStep ==
  ASSUME Wheel \in [Reader -> Wheels], ReadsInv, NEW r \in Reader, NEW reply \in Replies,
         AcquireReply(r, reply)
  PROVE  ReadsInv'
<1> USE DEF ReadsInv, ReadsSound
<1>1. CASE reply = "error" /\ Fail(r) /\ stage[r] \in Acquiring
  <2>1. "idle" \in Stages /\ FinishProbe(r, "idle")
    BY <1>1 DEF Fail, Stages
  <2>2. stage' \in [Reader -> Stages] /\ owns' \in [Reader -> BOOLEAN] /\ probing' \in BOOLEAN
    BY <2>1, FinishTypes
  <2>3. ReadsTypeOK'
    BY <1>1, <2>2 DEF Fail, ReadsTypeOK, Outcomes
  <2>4. ProbeLives'
    BY <2>1, ProbeFinished
  <2>5. stage'[r] = "idle" /\ outcome'[r] = "raised"
        /\ \A x \in Reader \ {r} : outcome'[x] = outcome[x]
    BY <1>1, <2>1, FinishStages DEF Fail, ReadsTypeOK
  <2>6. \A x \in Reader \ {r} :
           stage'[x] = stage[x] \/ (stage[x] = "parked" /\ stage'[x] = "woken")
    BY <2>1, FinishStages
  <2>7. GenuineOnly' /\ Verified'
    BY <1>1, <2>5, <2>6 DEF Fail, GenuineOnly, Verified, Matches
  <2>8. LatchedForCause' /\ LeadsForCause'
    BY <1>1 DEF Fail, LatchedForCause, LeadsForCause
  <2> QED BY <2>3, <2>4, <2>7, <2>8
<1>2. CASE /\ reply # "error" /\ UNCHANGED <<outcome, reads>>
           /\ \/ SuffixReply(r, reply) \/ LengthReply(r, reply)
              \/ TailReply(r, reply) \/ PlainReply(r, reply)
  <2>1. stage[r] \in Acquiring /\ barred \in BOOLEAN /\ barred' \in BOOLEAN /\ (barred => barred')
    <3>1. CASE SuffixReply(r, reply)
      BY <3>1 DEF SuffixReply, Acquiring, ReadsTypeOK
    <3>2. CASE LengthReply(r, reply)
      BY <3>2 DEF LengthReply, Acquiring, ReadsTypeOK
    <3>3. CASE TailReply(r, reply)
      BY <3>3 DEF TailReply, Acquiring, ReadsTypeOK
    <3>4. CASE PlainReply(r, reply)
      BY <3>4 DEF PlainReply, Acquiring, ReadsTypeOK
    <3> QED BY <1>2, <3>1, <3>2, <3>3, <3>4
  <2>2. /\ have[r] \in Nat /\ lead[r] \in Capabilities
        /\ Wheel[r].length \in Nat /\ Smaller(1, Wheel[r].length) \in Nat
    BY DEF ReadsTypeOK, Wheels, Smaller
  <2>3. ASSUME NEW learned \in Capabilities, learned = "full" => barred',
               WholeBody(r, learned) \/ Window(r, learned) \/ (NoBody(r) /\ learned = "unsupported")
        PROVE  ReadsInv'
    <3>1. /\ Settle(r, learned) /\ UNCHANGED lead
          /\ have' \in [Reader -> Nat] /\ whole' \in [Reader -> BOOLEAN]
          /\ \A x \in Reader \ {r} : whole'[x] = whole[x]
      BY <2>2, <2>3 DEF WholeBody, Window, NoBody, ReadsTypeOK
    <3> QED BY <1>2, <2>1, <2>3, <3>1, SettleStep
  <2>4. lead[r] = "full" => barred
    BY DEF LeadsForCause
  <2>5. "unsupported" \in Capabilities /\ "suffix" \in Capabilities /\ "full" \in Capabilities
        /\ "absolute" \in Capabilities /\ Latch(reply) \in Capabilities
    BY DEF Capabilities, Latch
  <2>6. CASE SuffixReply(r, reply)
    <3>1. CASE reply \in {"whole", "partial"}
      BY <2>3, <2>5, <2>6, <3>1 DEF SuffixReply
    <3>2. CASE reply \notin {"whole", "partial"}
      <4>1. StepDown(r, "length", lead[r]) /\ "length" \in Acquiring
        BY <2>6, <3>2 DEF SuffixReply, Acquiring
      <4> QED BY <1>2, <2>1, <2>2, <2>4, <4>1, StepDownStep
    <3> QED BY <3>1, <3>2
  <2>7. CASE LengthReply(r, reply)
    <3>1. CASE reply = "whole"
      BY <2>3, <2>5, <2>7, <3>1 DEF LengthReply
    <3>2. CASE reply = "encoded"
      BY <2>3, <2>5, <2>7, <3>2 DEF LengthReply
    <3>3. CASE reply = "partial"
      <4>1. StepDown(r, "tail", lead[r]) /\ "tail" \in Acquiring
        BY <2>7, <3>3 DEF LengthReply, Acquiring
      <4> QED BY <1>2, <2>1, <2>2, <2>4, <4>1, StepDownStep
    <3>4. CASE reply \notin {"whole", "encoded", "partial"}
      <4>1. StepDown(r, "plain", Latch(reply)) /\ "plain" \in Acquiring
        BY <2>7, <3>4 DEF LengthReply, Acquiring
      <4>2. Latch(reply) = "full" => barred'
        BY <1>2, <2>7, <3>4 DEF LengthReply, Latch, Replies
      <4> QED BY <1>2, <2>1, <2>5, <4>1, <4>2, StepDownStep
    <3> QED BY <3>1, <3>2, <3>3, <3>4
  <2>8. CASE TailReply(r, reply)
    <3>1. CASE reply = "whole"
      BY <2>3, <2>5, <2>8, <3>1 DEF TailReply
    <3>2. CASE reply = "encoded"
      BY <2>3, <2>5, <2>8, <3>2 DEF TailReply
    <3>3. CASE reply \in {"partial", "lengthless", "zero"}
      <4>1. Window(r, "absolute")
        BY <2>8, <3>3 DEF TailReply
      <4> QED BY <2>3, <2>5, <4>1
    <3>4. CASE reply \notin {"whole", "encoded", "partial", "lengthless", "zero"}
      <4>1. StepDown(r, "plain", Latch(reply)) /\ "plain" \in Acquiring
        BY <2>8, <3>4 DEF TailReply, Acquiring
      <4>2. Latch(reply) = "full" => barred'
        BY <1>2, <2>8, <3>4 DEF TailReply, Latch, Replies
      <4> QED BY <1>2, <2>1, <2>5, <4>1, <4>2, StepDownStep
    <3> QED BY <3>1, <3>2, <3>3, <3>4
  <2>9. CASE PlainReply(r, reply)
    BY <2>1, <2>2, <2>3, <2>4, <2>5, <2>9 DEF PlainReply
  <2> QED BY <1>2, <2>6, <2>7, <2>8, <2>9
<1> QED BY <1>1, <1>2 DEF AcquireReply

\* A step past the acquisition: whatever it reads of a whole body is genuine.
LEMMA OnwardStep ==
  ASSUME ReadsInv, NEW r \in Reader, NEW s \in Stages, Goto(r, s),
         stage[r] \notin Acquiring, stage[r] # "idle",
         s \in {"idle", "open", "grow", "member", "read", "last"},
         UNCHANGED <<probing, owns, reads>>,
         barred' \in BOOLEAN, barred => barred',
         capability' = capability \/ (capability' = "full" /\ barred'),
         lead' \in [Reader -> Capabilities], have' \in [Reader -> Nat],
         whole' \in [Reader -> BOOLEAN], outcome' \in [Reader -> Outcomes],
         lead'[r] = "full" => barred',
         \A x \in Reader \ {r} : /\ lead'[x] = lead[x] /\ whole'[x] = whole[x]
                                 /\ outcome'[x] = outcome[x],
         s # "idle" => outcome'[r] = "none" /\ (whole'[r] => Matches(r)),
         s = "idle" /\ outcome'[r] \in {"text", "missing"} /\ whole'[r] => Matches(r)
  PROVE  ReadsInv'
<1> USE DEF ReadsInv, ReadsSound
<1>1. stage'[r] = s /\ \A x \in Reader \ {r} : stage'[x] = stage[x]
  BY DEF Goto, ReadsTypeOK
<1>2. ReadsTypeOK'
  BY DEF Goto, ReadsTypeOK, Capabilities
<1>3. ProbeLives'
  BY ProbeKept
<1>4. LatchedForCause' /\ LeadsForCause'
  BY DEF LatchedForCause, LeadsForCause
<1>5. GenuineOnly'
  BY <1>1 DEF GenuineOnly, Matches
<1>6. Verified'
  BY <1>1 DEF Verified, Matches
<1> QED BY <1>2, <1>3, <1>4, <1>5, <1>6

\* How the read of a whole body ends.
LEMMA ReadWholeFacts ==
  ASSUME NEW r \in Reader, NEW how \in Texts, ReadWhole(r, how),
         outcome \in [Reader -> Outcomes]
  PROVE  /\ Goto(r, "idle") /\ outcome' \in [Reader -> Outcomes]
         /\ outcome'[r] \in {"text", "missing"} => Matches(r)
         /\ \A x \in Reader \ {r} : outcome'[x] = outcome[x]
BY DEF ReadWhole, EndRead, Texts, Outcomes

\* How any read ends.
LEMMA EndReadFacts ==
  ASSUME NEW r \in Reader, NEW how \in Outcomes, EndRead(r, how),
         outcome \in [Reader -> Outcomes]
  PROVE  /\ Goto(r, "idle") /\ outcome' \in [Reader -> Outcomes] /\ outcome'[r] = how
         /\ \A x \in Reader \ {r} : outcome'[x] = outcome[x]
BY DEF EndRead

\* What was acquired is read, opened or found to be nothing.
LEMMA HeldStep == ASSUME ReadsInv, NEW r \in Reader, NEW how \in Texts, Held(r, how) PROVE ReadsInv'
<1> USE DEF ReadsInv, ReadsSound
<1>1. /\ stage[r] = "held" /\ stage[r] \notin Acquiring /\ stage[r] # "idle"
      /\ outcome[r] = "none" /\ outcome \in [Reader -> Outcomes]
      /\ "idle" \in Stages /\ "open" \in Stages /\ "unsupported" \in Outcomes
      /\ UNCHANGED <<capability, probing, lead, have, whole, owns, reads, barred>>
  BY DEF Held, Acquiring, Verified, ReadsTypeOK, Stages, Outcomes
<1>2. /\ lead' \in [Reader -> Capabilities] /\ have' \in [Reader -> Nat]
      /\ whole' \in [Reader -> BOOLEAN] /\ barred' \in BOOLEAN
      /\ lead'[r] = "full" => barred'
  BY <1>1 DEF ReadsTypeOK, LeadsForCause
<1>3. CASE whole[r]
  <2>1. ReadWhole(r, how)
    BY <1>3 DEF Held
  <2> QED BY <1>1, <1>2, <2>1, ReadWholeFacts, OnwardStep
<1>4. CASE ~whole[r] /\ EndRead(r, "unsupported")
  BY <1>1, <1>2, <1>4, EndReadFacts, OnwardStep
<1>5. CASE ~whole[r] /\ Goto(r, "open") /\ UNCHANGED outcome
  BY <1>1, <1>2, <1>5, OnwardStep
<1> QED BY <1>3, <1>4, <1>5 DEF Held

\* The directory is sought in the window.
LEMMA OpenStep == ASSUME ReadsInv, NEW r \in Reader, OpenZip(r) PROVE ReadsInv'
<1> USE DEF ReadsInv, ReadsSound
<1>1. /\ stage[r] = "open" /\ stage[r] \notin Acquiring /\ stage[r] # "idle"
      /\ outcome[r] = "none" /\ (whole[r] => Matches(r)) /\ outcome \in [Reader -> Outcomes]
      /\ {"idle", "read", "member", "grow"} \subseteq Stages /\ "missing" \in Outcomes
      /\ UNCHANGED <<capability, probing, lead, have, whole, owns, reads, barred>>
  BY DEF OpenZip, Acquiring, Verified, ReadsTypeOK, Stages, Outcomes
<1>2. /\ lead' \in [Reader -> Capabilities] /\ have' \in [Reader -> Nat]
      /\ whole' \in [Reader -> BOOLEAN] /\ barred' \in BOOLEAN
      /\ lead'[r] = "full" => barred'
  BY <1>1 DEF ReadsTypeOK, LeadsForCause
<1>3. CASE EndRead(r, "missing")
  BY <1>1, <1>2, <1>3, EndReadFacts, OnwardStep
<1>4. ASSUME NEW s \in {"read", "member", "grow"}, Goto(r, s), UNCHANGED outcome PROVE ReadsInv'
  BY <1>1, <1>2, <1>4, OnwardStep
<1> QED BY <1>3, <1>4 DEF OpenZip

\* The metadata is read.
LEMMA MemberStep ==
  ASSUME ReadsInv, NEW r \in Reader, NEW how \in Texts, ReadMember(r, how) PROVE ReadsInv'
<1> USE DEF ReadsInv, ReadsSound
<1>1. /\ stage[r] = "read" /\ stage[r] \notin Acquiring /\ stage[r] # "idle"
      /\ (whole[r] => Matches(r)) /\ outcome \in [Reader -> Outcomes]
      /\ "idle" \in Stages /\ how \in Outcomes /\ EndRead(r, how)
      /\ UNCHANGED <<capability, probing, lead, have, whole, owns, reads, barred>>
  BY DEF ReadMember, Acquiring, Verified, ReadsTypeOK, Stages, Outcomes, Texts
<1>2. /\ lead' \in [Reader -> Capabilities] /\ have' \in [Reader -> Nat]
      /\ whole' \in [Reader -> BOOLEAN] /\ barred' \in BOOLEAN
      /\ lead'[r] = "full" => barred'
  BY <1>1 DEF ReadsTypeOK, LeadsForCause
<1> QED BY <1>1, <1>2, EndReadFacts, OnwardStep

\* A reply to a growth or to a member request.
LEMMA RangeStep ==
  ASSUME Wheel \in [Reader -> Wheels], ReadsInv, NEW r \in Reader, NEW reply \in Replies,
         RangeReply(r, reply)
  PROVE  ReadsInv'
<1> USE DEF ReadsInv, ReadsSound
<1>1. /\ stage[r] \in {"grow", "member"} /\ stage[r] \notin Acquiring /\ stage[r] # "idle"
      /\ outcome[r] = "none" /\ (whole[r] => Matches(r)) /\ outcome \in [Reader -> Outcomes]
      /\ UNCHANGED <<capability, probing, owns, reads>>
      /\ barred' = (barred \/ reply = "refused")
  BY DEF RangeReply, Acquiring, Verified, ReadsTypeOK
<1>2. barred' \in BOOLEAN /\ (barred => barred') /\ (lead[r] = "full" => barred')
  BY <1>1 DEF ReadsTypeOK, LeadsForCause
<1>3. PICK wanted \in Nat, next \in {"open", "read"} : Absorb(r, reply, wanted, next)
  <2>1. have[r] \in Nat /\ Wheel[r].length \in Nat
    BY DEF ReadsTypeOK, Wheels
  <2>2. Smaller(2 * have[r], Wheel[r].length) \in Nat
    BY <2>1 DEF Smaller
  <2> QED BY <2>1, <2>2 DEF RangeReply
<1>4. Wheel[r].length \in Nat
  BY DEF Wheels
<1>5. /\ {"idle", "last"} \subseteq Stages /\ next \in Stages
      /\ {"mismatch", "missing", "raised"} \subseteq Outcomes
      /\ Latch(reply) \in Capabilities
  BY DEF Stages, Outcomes, Latch, Capabilities
<1>6. CASE reply = "whole" /\ Matches(r)
  <2>1. /\ Goto(r, next) /\ UNCHANGED <<outcome, lead>>
        /\ have' = [have EXCEPT ![r] = Wheel[r].length]
        /\ whole' = [whole EXCEPT ![r] = TRUE]
    BY <1>3, <1>6 DEF Absorb
  <2>2. /\ lead' \in [Reader -> Capabilities] /\ have' \in [Reader -> Nat]
        /\ whole' \in [Reader -> BOOLEAN] /\ \A x \in Reader \ {r} : whole'[x] = whole[x]
    BY <1>4, <2>1 DEF ReadsTypeOK
  <2> QED BY <1>1, <1>2, <1>5, <1>6, <2>1, <2>2, OnwardStep
<1>7. CASE reply \in {"partial", "lengthless", "zero"}
  <2>1. /\ Goto(r, next) /\ UNCHANGED <<outcome, lead, whole>>
        /\ have' = [have EXCEPT ![r] = wanted]
    BY <1>3, <1>7 DEF Absorb
  <2>2. /\ lead' \in [Reader -> Capabilities] /\ have' \in [Reader -> Nat]
        /\ whole' \in [Reader -> BOOLEAN]
    BY <2>1 DEF ReadsTypeOK
  <2> QED BY <1>1, <1>2, <1>5, <2>1, <2>2, OnwardStep
<1>8. CASE reply \in {"refused", "unsatisfiable"}
  <2>1. /\ Goto(r, "last") /\ UNCHANGED <<have, outcome, whole>>
        /\ lead' = [lead EXCEPT ![r] = Latch(reply)]
    BY <1>3, <1>8 DEF Absorb
  <2>2. /\ lead' \in [Reader -> Capabilities] /\ lead'[r] = Latch(reply)
        /\ \A x \in Reader \ {r} : lead'[x] = lead[x]
        /\ have' \in [Reader -> Nat] /\ whole' \in [Reader -> BOOLEAN]
    BY <1>5, <2>1 DEF ReadsTypeOK
  <2>3. lead'[r] = "full" => barred'
    BY <1>1, <1>8, <2>2 DEF Latch
  <2> QED BY <1>1, <1>2, <1>5, <2>1, <2>2, <2>3, OnwardStep
<1>9. CASE /\ ~(reply = "whole" /\ Matches(r))
           /\ reply \notin {"partial", "lengthless", "zero", "refused", "unsatisfiable"}
  <2>1. UNCHANGED <<have, lead, whole>>
    BY <1>3, <1>9 DEF Absorb
  <2>2. PICK how \in {"mismatch", "missing", "raised"} : EndRead(r, how)
    BY <1>3, <1>9 DEF Absorb
  <2>3. /\ lead' \in [Reader -> Capabilities] /\ have' \in [Reader -> Nat]
        /\ whole' \in [Reader -> BOOLEAN] /\ how \in Outcomes
    BY <1>5, <2>1 DEF ReadsTypeOK
  <2> QED BY <1>1, <1>2, <1>5, <2>1, <2>2, <2>3, EndReadFacts, OnwardStep
<1> QED BY <1>6, <1>7, <1>8, <1>9

\* The plain GET after a refusal.
LEMMA LastStep ==
  ASSUME ReadsInv, NEW r \in Reader, NEW reply \in Replies, NEW how \in Texts,
         LastReply(r, reply, how)
  PROVE  ReadsInv'
<1> USE DEF ReadsInv, ReadsSound
<1>1. /\ stage[r] = "last" /\ stage[r] \notin Acquiring /\ stage[r] # "idle"
      /\ (whole[r] => Matches(r)) /\ outcome \in [Reader -> Outcomes]
      /\ {"missing", "raised"} \subseteq Outcomes /\ "idle" \in Stages
      /\ UNCHANGED <<probing, lead, have, owns, reads, barred>>
  BY DEF LastReply, Acquiring, Verified, ReadsTypeOK, Outcomes, Stages
<1>2. /\ lead' \in [Reader -> Capabilities] /\ have' \in [Reader -> Nat]
      /\ barred' \in BOOLEAN /\ (lead'[r] = "full" => barred')
  BY <1>1 DEF ReadsTypeOK, LeadsForCause
<1>3. CASE reply = "whole"
  <2>1. /\ whole' = [whole EXCEPT ![r] = TRUE] /\ ReadWhole(r, how)
        /\ capability' = IF Matches(r) /\ lead[r] = "full" THEN "full" ELSE capability
    BY <1>3 DEF LastReply
  <2>2. /\ whole' \in [Reader -> BOOLEAN] /\ \A x \in Reader \ {r} : whole'[x] = whole[x]
        /\ capability' = capability \/ (capability' = "full" /\ barred')
    BY <1>1, <1>2, <2>1 DEF ReadsTypeOK
  <2> QED BY <1>1, <1>2, <2>1, <2>2, ReadWholeFacts, OnwardStep
<1>4. CASE reply # "whole"
  <2>1. UNCHANGED <<capability, whole>>
    BY <1>4 DEF LastReply
  <2>2. PICK end \in {"missing", "raised"} : EndRead(r, end)
    BY <1>4 DEF LastReply
  <2>3. whole' \in [Reader -> BOOLEAN] /\ end \in Outcomes
    BY <1>1, <2>1 DEF ReadsTypeOK
  <2> QED BY <1>1, <1>2, <2>1, <2>2, <2>3, EndReadFacts, OnwardStep
<1> QED BY <1>3, <1>4

\* The invariant is inductive.
LEMMA NextReads ==
  ASSUME MaxReads \in Nat, Wheel \in [Reader -> Wheels], ReadsInv, [Next]_reading
  PROVE  ReadsInv'
<1>1. ASSUME NEW r \in Reader, BeginRead(r) PROVE ReadsInv'
  BY <1>1, BeginStep
<1>2. ASSUME NEW r \in Reader, ReadStep(r) PROVE ReadsInv'
  <2>1. CASE Resume(r) \/ OpenZip(r)
    BY <2>1, ResumeStep, OpenStep
  <2>2. ASSUME NEW reply \in Replies, AcquireReply(r, reply) \/ RangeReply(r, reply) PROVE ReadsInv'
    BY <2>2, AcquireStep, RangeStep
  <2>3. ASSUME NEW reply \in Replies, NEW how \in Texts, LastReply(r, reply, how) PROVE ReadsInv'
    BY <2>3, LastStep
  <2>4. ASSUME NEW how \in Texts, Held(r, how) \/ ReadMember(r, how) PROVE ReadsInv'
    BY <2>4, HeldStep, MemberStep
  <2> QED BY <1>2, <2>1, <2>2, <2>3, <2>4 DEF ReadStep
<1>3. CASE UNCHANGED reading
  BY <1>3 DEF reading, ReadsInv, ReadsSound, ReadsTypeOK, ProbeLives, LatchedForCause, GenuineOnly,
              LeadsForCause, Verified, Matches
<1> QED BY <1>1, <1>2, <1>3 DEF Next, ReadsOver

\* One probe at a time that its waiters outlive, hosts put down as useless for ranges
\* only for cause, and no metadata of a body that fails its digest, for any readers,
\* wheels and answers.
THEOREM ReadsAreSound ==
  ASSUME MaxReads \in Nat, Wheel \in [Reader -> Wheels]
  PROVE  Spec => []ReadsSound
<1>1. Init => ReadsInv
  BY InitReads
<1>2. ReadsInv /\ [Next]_reading => ReadsInv'
  BY NextReads
<1>3. ReadsInv => ReadsSound
  BY DEF ReadsInv
<1> QED BY <1>1, <1>2, <1>3, PTL DEF Spec

----------------------------------------------------------------------------
(* Freshness. *)

\* A date is a number or is missing or unreadable; the other fields are numbers or
\* missing.
Fields == [control : BOOLEAN, maxage : Nat \cup {NoField}, bars : BOOLEAN,
           expires : Nat \cup {NoField, Bad}, date : Nat \cup {NoField, Bad},
           age : Nat \cup {NoField}]

ConstantsOK ==
  /\ NoField \in Int /\ NoField < 0
  /\ Headers \subseteq Fields /\ Shifts \subseteq Int
  /\ Floors \subseteq Nat \cup {NoField}
  /\ Ceiling \in Nat /\ DefaultAge \in 0..Ceiling /\ MaxTime \in Nat /\ MaxSets \in Nat

\* A policy counts from when its response was made, by the clock that read it, and
\* its window is no longer than the one that was stated.
Faithful(p) ==
  p.there => /\ p.start = p.received + p.shown - p.age
             /\ p.window <= p.stated

WindowsInv == FreshTypeOK /\ Faithful(page) /\ Faithful(absent) /\ UsedWithinWindow

-----------------------------------------------------------------------------
\* The window computed for a response is the one it states.
LEMMA LifetimeIsStated ==
  ASSUME ConstantsOK, NEW h \in Headers, Now \in Int
  PROVE  FreshnessLifetime(h) \in 0..Ceiling /\ FreshnessLifetime(h) = Stated(h)
<1>1. /\ h.control \in BOOLEAN /\ h.bars \in BOOLEAN
      /\ h.maxage \in Nat \cup {NoField} /\ h.expires \in Nat \cup {NoField, Bad}
      /\ h.date \in Nat \cup {NoField, Bad}
      /\ Bad \in Int /\ Bad < NoField /\ NoField < 0 /\ NoField \in Int /\ Ceiling \in Nat
      /\ DefaultAge \in 0..Ceiling
  BY DEF ConstantsOK, Fields, Bad
<1>2. CASE h.control /\ h.bars
  BY <1>1, <1>2 DEF FreshnessLifetime, Stated
<1>3. CASE h.control /\ ~h.bars /\ h.maxage # NoField
  BY <1>1, <1>3 DEF FreshnessLifetime, Stated, Seconds, Lesser
<1>4. CASE /\ ~(h.control /\ h.bars)
           /\ ~(h.control /\ ~h.bars /\ h.maxage # NoField)
  <2>1. ~(h.control /\ ~h.bars /\ h.maxage >= 0)
    BY <1>1, <1>4
  <2>2. CASE h.expires = NoField
    BY <1>1, <1>4, <2>1, <2>2 DEF FreshnessLifetime, Stated
  <2>3. CASE h.expires = Bad
    BY <1>1, <1>4, <2>1, <2>3 DEF FreshnessLifetime, Stated, ExpiresLifetime
  <2>4. CASE h.expires \in Nat
    <3> DEFINE from == IF h.date \in {NoField, Bad} THEN Now ELSE h.date
               left == h.expires - from
               Lasted(n) == \/ n = left
                            \/ n = 0 /\ h.expires <= from
                            \/ n = Ceiling /\ left > Ceiling
               life == IF left < 0 THEN 0 ELSE Seconds(left)
    <3>1. from \in Int /\ left \in Int /\ from = (IF h.date >= 0 THEN h.date ELSE Now)
      BY <1>1
    <3>2. FreshnessLifetime(h) = life
      BY <1>1, <1>4, <2>4 DEF FreshnessLifetime, ExpiresLifetime
    <3>3. Stated(h) = CHOOSE n \in 0..Ceiling : Lasted(n)
      BY <1>1, <1>4, <2>1, <2>4, <3>1 DEF Stated
    <3>4. life \in 0..Ceiling /\ Lasted(life)
      BY <1>1, <2>4, <3>1 DEF Seconds, Lesser
    <3>5. \A n \in 0..Ceiling : Lasted(n) => n = life
      BY <1>1, <2>4, <3>1 DEF Seconds, Lesser
    <3> HIDE DEF Lasted, life
    <3>6. (CHOOSE n \in 0..Ceiling : Lasted(n)) = life
      BY <3>4, <3>5
    <3> QED BY <3>2, <3>3, <3>4, <3>6
  <2> QED BY <1>1, <2>2, <2>3, <2>4
<1> QED BY <1>2, <1>3, <1>4

\* The policy of a response is faithful.
LEMMA PolicyFaithful ==
  ASSUME ConstantsOK, FreshTypeOK, NEW h \in Headers,
         NEW w \in 0..Ceiling, NEW s \in 0..Ceiling, w <= s
  PROVE  Policy(h, w, s) \in Policies /\ Faithful(Policy(h, w, s))
<1>1. h.age \in Nat \cup {NoField} /\ Ceiling \in Nat /\ NoField \in Int /\ NoField < 0
  BY DEF ConstantsOK, Fields
<1>2. AgeOf(h) \in Nat
  BY <1>1 DEF AgeOf, Seconds, Lesser
<1>3. time \in 0..MaxTime /\ time \in Int /\ shift \in Int
  BY DEF FreshTypeOK, ConstantsOK
<1> QED BY <1>2, <1>3 DEF Policy, Policies, Faithful, Now

\* Nothing is stored, and nothing was used.
LEMMA InitWindows == ASSUME ConstantsOK, FreshInit PROVE WindowsInv
<1>1. NoPolicy \in Policies /\ Faithful(NoPolicy)
  BY DEF NoPolicy, Policies, Faithful, ConstantsOK
<1>2. FreshTypeOK
  BY <1>1 DEF FreshInit, FreshTypeOK, Nothing, ConstantsOK
<1> QED BY <1>1, <1>2 DEF FreshInit, WindowsInv, UsedWithinWindow, Nothing

\* A step after which nothing is in use that was not asked for.
LEMMA IdleStep ==
  ASSUME WindowsInv, FreshTypeOK', used'.how # "fresh", Faithful(page)', Faithful(absent)'
  PROVE  WindowsInv'
BY DEF WindowsInv, UsedWithinWindow

\* What is fresh by the client's clock is within its window by the true one.
LEMMA UseStep ==
  ASSUME ConstantsOK, WindowsInv, NEW p \in {page, absent}, p.there, Usable(p), Use(p)
  PROVE  WindowsInv'
<1>1. /\ p \in Policies /\ Faithful(p) /\ UNCHANGED <<clocks, options, page, absent>>
      /\ used' = [how |-> IF IsFresh(p) THEN "fresh" ELSE IF offline THEN "offline"
                          ELSE "floor", policy |-> p]
  BY DEF WindowsInv, FreshTypeOK, Use
<1>2. FreshTypeOK'
  BY <1>1 DEF WindowsInv, FreshTypeOK, clocks, options
<1>3. Faithful(page)' /\ Faithful(absent)'
  BY <1>1 DEF WindowsInv, Faithful
<1>4. UsedWithinWindow'
  <2>1. used'.policy = p /\ time' = time /\ shift' = shift /\ (used'.how = "fresh" => IsFresh(p))
    BY <1>1 DEF clocks
  <2> SUFFICES ASSUME IsFresh(p)
               PROVE  p.age + (time - p.received)
                        < p.stated + (IF p.shown - shift > 0 THEN p.shown - shift ELSE 0)
    BY <2>1 DEF UsedWithinWindow
  <2>2. p.age \in Int /\ p.received \in Int /\ p.shown \in Int /\ p.start \in Int
    BY <1>1 DEF Policies, ConstantsOK
  <2>3. p.stated \in Int /\ p.window \in Int
    BY <1>1 DEF Policies, ConstantsOK
  <2>4. time \in Int /\ shift \in Int
    BY DEF WindowsInv, FreshTypeOK, ConstantsOK
  <2>5. Now - p.start < p.window
    BY DEF IsFresh
  <2>6. p.start = p.received + p.shown - p.age /\ p.window <= p.stated
    BY <1>1 DEF Faithful
  <2> QED BY <2>2, <2>3, <2>4, <2>5, <2>6 DEF Now
<1> QED BY <1>2, <1>3, <1>4 DEF WindowsInv

\* A response arrives.
LEMMA AskedStep ==
  ASSUME ConstantsOK, WindowsInv, NEW h \in Headers, Ask, Asked,
         \/ page' = Policy(h, FreshnessLifetime(h), Stated(h)) /\ absent' \in {absent, NoPolicy}
         \/ NotFound(h)
         \/ page' = Policy(h, page.window, page.stated) /\ page.there /\ UNCHANGED absent
  PROVE  WindowsInv'
<1>1. NoPolicy \in Policies /\ Faithful(NoPolicy)
  BY DEF NoPolicy, Policies, Faithful, ConstantsOK
<1>2. Now \in Int /\ page \in Policies /\ absent \in Policies
  BY DEF Now, WindowsInv, FreshTypeOK, ConstantsOK
<1>3. FreshnessLifetime(h) \in 0..Ceiling /\ FreshnessLifetime(h) = Stated(h)
  BY <1>2, LifetimeIsStated
<1>4. page' \in Policies /\ Faithful(page)' /\ absent' \in Policies /\ Faithful(absent)'
  <2>1. CASE page' = Policy(h, FreshnessLifetime(h), Stated(h)) /\ absent' \in {absent, NoPolicy}
    <3>1. Policy(h, FreshnessLifetime(h), Stated(h)) \in Policies
          /\ Faithful(Policy(h, FreshnessLifetime(h), Stated(h)))
      BY <1>3, PolicyFaithful DEF WindowsInv
    <3> QED BY <1>1, <1>2, <2>1, <3>1 DEF WindowsInv, Faithful
  <2>2. CASE NotFound(h)
    <3> DEFINE w == Lesser(FreshnessLifetime(h), DefaultAge)
               s == Lesser(Stated(h), DefaultAge)
    <3>1. w \in 0..Ceiling /\ s \in 0..Ceiling /\ w <= s
      BY <1>3 DEF Lesser, ConstantsOK
    <3> HIDE DEF w, s
    <3>2. Policy(h, w, s) \in Policies /\ Faithful(Policy(h, w, s))
      BY <3>1, PolicyFaithful DEF WindowsInv
    <3>3. absent' = Policy(h, w, s) /\ page' = page
      BY <2>2 DEF NotFound, w, s
    <3> QED BY <1>2, <3>2, <3>3 DEF WindowsInv, Faithful
  <2>3. CASE page' = Policy(h, page.window, page.stated) /\ page.there /\ UNCHANGED absent
    <3>1. page.window \in 0..Ceiling /\ page.stated \in 0..Ceiling /\ page.window <= page.stated
      BY <1>2, <2>3 DEF Policies, WindowsInv, Faithful
    <3>2. Policy(h, page.window, page.stated) \in Policies
          /\ Faithful(Policy(h, page.window, page.stated))
      BY <3>1, PolicyFaithful DEF WindowsInv
    <3> QED BY <1>2, <2>3, <3>2 DEF WindowsInv, Faithful
  <2> QED BY <2>1, <2>2, <2>3
<1>5. FreshTypeOK' /\ used'.how # "fresh"
  BY <1>1, <1>4 DEF Ask, Asked, WindowsInv, FreshTypeOK, clocks, options
<1> QED BY <1>4, <1>5, IdleStep

\* The invariant is inductive.
LEMMA NextWindows == ASSUME ConstantsOK, WindowsInv, [FreshNext]_fresh PROVE WindowsInv'
<1>1. NoPolicy \in Policies
  BY DEF NoPolicy, Policies, ConstantsOK
<1>2. ASSUME UNCHANGED <<offline, floor, page, absent>>, used' = Nothing,
             time' \in 0..MaxTime, shift' \in Shifts, sets' \in 0..MaxSets
      PROVE  WindowsInv'
  <2>1. FreshTypeOK' /\ used'.how # "fresh"
    BY <1>1, <1>2 DEF WindowsInv, FreshTypeOK, Nothing
  <2>2. Faithful(page)' /\ Faithful(absent)'
    BY <1>2 DEF WindowsInv, Faithful
  <2> QED BY <2>1, <2>2, IdleStep
<1>3. CASE Tick
  BY <1>2, <1>3 DEF Tick, options, WindowsInv, FreshTypeOK, ConstantsOK
<1>4. ASSUME NEW s \in Shifts, SetClock(s) PROVE WindowsInv'
  BY <1>2, <1>4 DEF SetClock, options, WindowsInv, FreshTypeOK, ConstantsOK
<1>5. CASE ReadOffline
  BY <1>2, <1>5 DEF ReadOffline, clocks, options, WindowsInv, FreshTypeOK
<1>6. CASE ReadPage \/ ReadAbsent
  BY <1>6, UseStep DEF ReadPage, ReadAbsent
<1>7. ASSUME NEW h \in Headers, FetchSimple(h) \/ RevalidateSimple(h) PROVE WindowsInv'
  BY <1>7, AskedStep DEF FetchSimple, RevalidateSimple, NotFound
<1>8. CASE UNCHANGED fresh
  BY <1>8 DEF fresh, clocks, options, WindowsInv, FreshTypeOK, Faithful, UsedWithinWindow
<1> QED BY <1>3, <1>4, <1>5, <1>6, <1>7, <1>8 DEF FreshNext

\* What is used unasked is within the window its last response stated, but for what
\* the clock was set back since: for any responses, clocks and floors.
THEOREM WindowsAlwaysHold == ASSUME ConstantsOK PROVE FreshSpec => []WindowsHold
<1>1. FreshInit => WindowsInv
  BY InitWindows
<1>2. WindowsInv /\ [FreshNext]_fresh => WindowsInv'
  BY NextWindows
<1>3. WindowsInv => WindowsHold
  BY DEF WindowsInv, WindowsHold
<1> QED BY <1>1, <1>2, <1>3, PTL DEF FreshSpec
----------------------------------------------------------------------------
(* MultiIndex. *)

\* A call goes the way its package was routed when it began: nothing else moves the
\* route of a package while a call for it is under way.
CallsFollow ==
  \A w \in Walker : walk[w] # Idle =>
    LET p == walk[w].package IN
    /\ walk[w].mode = "pinned" <=> p \in DOMAIN Pinned
    /\ walk[w].mode = "routed" <=> p \notin DOMAIN Pinned /\ route[p] # Nowhere

OneCallEach ==
  \A v, w \in Walker :
    walk[v] # Idle /\ walk[v].package = walk[w].package => v = w

ServedByRoute == \A p \in Routed : served[p] \in {Nowhere, route[p]}

RoutingInv == RoutingTypeOK /\ PinHolds /\ ServedByRoute /\ CallsFollow /\ OneCallEach

\* The parts of a call under way.
LEMMA CallForm ==
  ASSUME RoutingTypeOK, NEW w \in Walker, walk[w].mode \in {"pinned", "routed", "walk"}
  PROVE  /\ walk[w] \in RoutingCall /\ walk[w] # Idle
         /\ walk[w].package \in Routed /\ walk[w].at \in 1..Len(Order)
BY DEF RoutingTypeOK, Idle, RoutingCall

\* A call under way asks an index that exists.
LEMMA AskedForm ==
  ASSUME RoutingInv, NEW w \in Walker, walk[w].mode \in {"pinned", "routed", "walk"}
  PROVE  /\ AskedIndex(w) \in IndexName
         /\ walk[w].mode = "pinned" => AskedIndex(w) = Pinned[walk[w].package]
         /\ walk[w].mode = "routed" => AskedIndex(w) = route[walk[w].package]
<1> DEFINE p == walk[w].package
<1>1. walk[w] # Idle /\ p \in Routed /\ walk[w].at \in 1..Len(Order)
  BY CallForm DEF RoutingInv
<1>2. CASE walk[w].mode = "pinned"
  <2>1. AskedIndex(w) = Pinned[p] /\ p \in DOMAIN Pinned
    BY <1>1, <1>2 DEF AskedIndex, RoutingInv, CallsFollow
  <2>2. QED BY <1>2, <2>1, RoutingAssumption
<1>3. CASE walk[w].mode = "routed"
  <2>1. AskedIndex(w) = route[p] /\ route[p] # Nowhere
    BY <1>1, <1>3 DEF AskedIndex, RoutingInv, CallsFollow
  <2>2. QED BY <1>1, <1>3, <2>1 DEF RoutingInv, RoutingTypeOK
<1>4. CASE walk[w].mode = "walk"
  <2>1. AskedIndex(w) = Order[walk[w].at]
    BY <1>4 DEF AskedIndex
  <2>2. QED BY <1>1, <1>4, <2>1, RoutingAssumption
<1>5. QED BY <1>2, <1>3, <1>4

LEMMA InitRoutingInv == RoutingInit => RoutingInv
<1> SUFFICES ASSUME RoutingInit PROVE RoutingInv
  OBVIOUS
<1>1. RoutingTypeOK
  BY RoutingAssumption DEF RoutingInit, RoutingTypeOK
<1>2. QED BY <1>1, RoutingAssumption
       DEF RoutingInit, RoutingInv, PinHolds, ServedByRoute, CallsFollow, OneCallEach

\* A call ends: it served the index it asked, if any, and its package is now routed
\* there, or where the walk ended without files.
LEMMA CallEnds ==
  ASSUME RoutingInv, NEW w \in Walker, walk[w].mode \in {"pinned", "routed", "walk"},
         NEW n \in IndexName \cup {Nowhere}, Return(w, n), UNCHANGED <<calls, closed>>,
         NEW r \in IndexName \cup {Nowhere},
         route' = [route EXCEPT ![walk[w].package] = r],
         n \in {Nowhere, r},
         walk[w].mode = "pinned" => r \in {Nowhere, Pinned[walk[w].package]},
         served[walk[w].package] # Nowhere => r = route[walk[w].package]
  PROVE  RoutingInv'
<1> DEFINE p == walk[w].package
<1>1. walk[w] # Idle /\ p \in Routed /\ RoutingTypeOK
  BY CallForm DEF RoutingInv
<1>2. /\ walk'[w] = Idle /\ \A x \in Walker \ {w} : walk'[x] = walk[x]
      /\ walk' \in [Walker -> RoutingCall \cup {Idle}]
  BY <1>1 DEF Return, RoutingTypeOK
<1>3. /\ route'[p] = r /\ \A q \in Routed \ {p} : route'[q] = route[q]
      /\ route' \in [Routed -> IndexName \cup {Nowhere}]
  BY <1>1 DEF RoutingTypeOK
<1>4. /\ served'[p] = (IF n = Nowhere THEN served[p] ELSE n)
      /\ \A q \in Routed \ {p} : served'[q] = served[q]
      /\ served' \in [Routed -> IndexName \cup {Nowhere}]
  BY <1>1 DEF Return, RoutingTypeOK
<1>5. RoutingTypeOK'
  BY <1>1, <1>2, <1>3, <1>4 DEF RoutingTypeOK
<1>6. ServedByRoute'
  BY <1>3, <1>4 DEF RoutingInv, ServedByRoute
<1>7. PinHolds'
  <2>1. SUFFICES ASSUME NEW q \in DOMAIN Pinned
                 PROVE  /\ served'[q] \in {Nowhere, Pinned[q]}
                        /\ route'[q] \in {Nowhere, Pinned[q]}
    BY DEF PinHolds
  <2>2. q \in Routed
    BY RoutingAssumption
  <2>3. q = p => walk[w].mode = "pinned"
    BY <1>1 DEF RoutingInv, CallsFollow
  <2>4. QED BY <1>3, <1>4, <2>2, <2>3 DEF RoutingInv, PinHolds
<1>8. CallsFollow'
  <2>1. SUFFICES ASSUME NEW x \in Walker, walk'[x] # Idle
                 PROVE  /\ x # w /\ walk'[x] = walk[x] /\ walk[x].package # p
                        /\ walk[x].package \in Routed
    BY <1>3 DEF RoutingInv, CallsFollow
  <2>2. x # w /\ walk'[x] = walk[x] /\ walk[x] # Idle
    BY <1>2, <2>1
  <2>3. walk[x].package \in Routed
    BY <1>1, <2>2 DEF RoutingTypeOK, RoutingCall
  <2>4. QED BY <1>1, <2>2, <2>3 DEF RoutingInv, OneCallEach
<1>9. OneCallEach'
  <2>1. SUFFICES ASSUME NEW v \in Walker, NEW x \in Walker, walk'[v] # Idle,
                        walk'[v].package = walk'[x].package
                 PROVE  v = x
    BY DEF OneCallEach
  <2>2. v # w /\ walk'[v] = walk[v] /\ walk[v].package \in Routed
    BY <1>1, <1>2, <2>1 DEF RoutingTypeOK, RoutingCall
  <2>3. x # w
    BY <1>2, <2>1, <2>2, RoutingAssumption DEF Idle
  <2>4. QED BY <1>2, <2>1, <2>2, <2>3 DEF RoutingInv, OneCallEach
<1>10. QED BY <1>5, <1>6, <1>7, <1>8, <1>9 DEF RoutingInv

LEMMA NextRoutingInv == ASSUME RoutingInv, [RoutingNext]_routing PROVE RoutingInv'
<1>1. RoutingTypeOK
  BY DEF RoutingInv
<1>2. ASSUME NEW w \in Walker, NEW p \in Routed, StartCall(w, p) PROVE RoutingInv'
  <2> DEFINE mode == IF p \in DOMAIN Pinned THEN "pinned"
                     ELSE IF route[p] # Nowhere THEN "routed" ELSE "walk"
             call == [mode |-> mode, package |-> p, at |-> 1]
  <2>1. /\ walk'[w] = call /\ \A x \in Walker \ {w} : walk'[x] = walk[x]
        /\ call \in RoutingCall /\ walk[w] = Idle
        /\ \A x \in Walker : walk[x].package # p
        /\ UNCHANGED <<route, served, closed>>
    BY <1>1, <1>2, RoutingAssumption DEF StartCall, Busy, RoutingTypeOK, RoutingCall
  <2>2. RoutingTypeOK'
    <3>1. calls' \in 0..MaxCalls
      BY <1>1, <1>2, RoutingAssumption DEF StartCall, RoutingTypeOK
    <3>2. walk' \in [Walker -> RoutingCall \cup {Idle}]
      <4>1. walk' = [walk EXCEPT ![w] = call]
        BY <1>2 DEF StartCall
      <4>2. QED BY <1>1, <2>1, <4>1 DEF RoutingTypeOK
    <3>3. QED BY <1>1, <2>1, <3>1, <3>2 DEF RoutingTypeOK
  <2>3. CallsFollow'
    BY <2>1 DEF RoutingInv, CallsFollow
  <2>4. OneCallEach'
    BY <2>1 DEF RoutingInv, OneCallEach
  <2>5. QED BY <2>1, <2>2, <2>3, <2>4 DEF RoutingInv, PinHolds, ServedByRoute
<1>3. ASSUME NEW w \in Walker, NEW reply \in IndexReplies, AnswerPinned(w, reply)
      PROVE  RoutingInv'
  <2> DEFINE p == walk[w].package
             n == IF reply = "files" THEN AskedIndex(w) ELSE Nowhere
             r == IF reply \in {"files", "empty"} THEN AskedIndex(w) ELSE route[p]
  <2>1. /\ walk[w].mode = "pinned" /\ Return(w, n) /\ UNCHANGED <<calls, closed>>
    BY <1>3 DEF AnswerPinned
  <2>2. /\ AskedIndex(w) \in IndexName /\ AskedIndex(w) = Pinned[p] /\ p \in Routed
        /\ p \in DOMAIN Pinned
    BY <1>1, <2>1, AskedForm, CallForm DEF RoutingInv, CallsFollow
  <2>3. route' = [route EXCEPT ![p] = r]
    BY <1>1, <1>3 DEF AnswerPinned, RecordRoute, RoutingTypeOK
  <2>4. r \in {Nowhere, Pinned[p]} /\ (served[p] # Nowhere => r = route[p])
    BY <2>2 DEF RoutingInv, PinHolds, ServedByRoute
  <2>5. r \in IndexName \cup {Nowhere} /\ n \in {Nowhere, r} /\ n \in IndexName \cup {Nowhere}
    BY <2>2, <2>4
  <2> HIDE DEF n, r
  <2>6. QED BY <2>1, <2>3, <2>4, <2>5, CallEnds
<1>4. ASSUME NEW w \in Walker, NEW reply \in IndexReplies, AnswerRouted(w, reply)
      PROVE  RoutingInv'
  <2> DEFINE p == walk[w].package
             n == IF reply = "files" THEN AskedIndex(w) ELSE Nowhere
  <2>1. /\ walk[w].mode = "routed" /\ Return(w, n) /\ UNCHANGED <<route, calls, closed>>
    BY <1>4 DEF AnswerRouted
  <2>2. AskedIndex(w) \in IndexName /\ AskedIndex(w) = route[p] /\ p \in Routed
    BY <1>1, <2>1, AskedForm, CallForm
  <2>3. route' = [route EXCEPT ![p] = route[p]]
    BY <1>1, <2>1 DEF RoutingTypeOK
  <2>4. n \in {Nowhere, route[p]} /\ n \in IndexName \cup {Nowhere}
        /\ route[p] \in IndexName \cup {Nowhere}
    BY <2>2
  <2> HIDE DEF n
  <2>5. QED BY <2>1, <2>3, <2>4, CallEnds
<1>5. ASSUME NEW w \in Walker, walk[w].mode = "walk"
      PROVE  served[walk[w].package] = Nowhere
  <2>1. walk[w] # Idle /\ walk[w].package \in Routed
    BY <1>1, <1>5, CallForm
  <2>2. route[walk[w].package] = Nowhere
    BY <1>5, <2>1 DEF RoutingInv, CallsFollow
  <2>3. QED BY <2>1, <2>2 DEF RoutingInv, ServedByRoute
<1>6. ASSUME NEW w \in Walker, NEW reply \in IndexReplies, WalkFinds(w, reply)
      PROVE  RoutingInv'
  <2>1. /\ walk[w].mode = "walk" /\ Return(w, AskedIndex(w)) /\ UNCHANGED <<calls, closed>>
        /\ route' = [route EXCEPT ![walk[w].package] = AskedIndex(w)]
    BY <1>6 DEF WalkFinds, RecordRoute
  <2>2. AskedIndex(w) \in IndexName
    BY <2>1, AskedForm
  <2>3. QED BY <1>5, <2>1, <2>2, CallEnds
<1>7. ASSUME NEW w \in Walker, NEW reply \in IndexReplies, WalkMisses(w, reply)
      PROVE  RoutingInv'
  <2>1. walk[w].mode = "walk" /\ UNCHANGED <<calls, closed>>
    BY <1>7 DEF WalkMisses
  <2>2. CASE walk[w].at < Len(Order)
    <3>1. walk' = [walk EXCEPT ![w].at = @ + 1] /\ UNCHANGED <<route, served>>
      BY <1>7, <2>2 DEF WalkMisses
    <3>2. walk[w] \in RoutingCall /\ walk[w] # Idle
      BY <1>1, <2>1, CallForm
    <3>3. /\ \A x \in Walker \ {w} : walk'[x] = walk[x]
          /\ walk'[w] \in RoutingCall /\ walk'[w].mode = walk[w].mode
          /\ walk'[w].package = walk[w].package
          /\ walk' \in [Walker -> RoutingCall \cup {Idle}]
      <4>1. walk[w].at \in 1..Len(Order) /\ Len(Order) \in Nat
        BY <3>2, RoutingAssumption DEF RoutingCall
      <4>2. walk[w].at + 1 \in 1..Len(Order)
        BY <2>2, <4>1
      <4>3. [walk[w] EXCEPT !.at = @ + 1] \in RoutingCall
        BY <3>2, <4>2 DEF RoutingCall
      <4>4. walk' = [walk EXCEPT ![w] = [walk[w] EXCEPT !.at = @ + 1]]
        BY <3>1
      <4>5. /\ walk'[w] = [walk[w] EXCEPT !.at = @ + 1]
            /\ \A x \in Walker \ {w} : walk'[x] = walk[x]
        BY <1>1, <4>4 DEF RoutingTypeOK
      <4>6. walk' \in [Walker -> RoutingCall \cup {Idle}]
        BY <1>1, <4>3, <4>4 DEF RoutingTypeOK
      <4>7. QED BY <3>2, <4>3, <4>5, <4>6 DEF RoutingCall
    <3>4. RoutingTypeOK'
      BY <1>1, <2>1, <3>1, <3>3 DEF RoutingTypeOK
    <3>5. CallsFollow'
      BY <3>1, <3>2, <3>3 DEF RoutingInv, CallsFollow
    <3>6. OneCallEach'
      BY <3>2, <3>3 DEF RoutingInv, OneCallEach
    <3>7. QED BY <3>1, <3>4, <3>5, <3>6 DEF RoutingInv, PinHolds, ServedByRoute
  <2>3. CASE ~(walk[w].at < Len(Order))
    <3>1. /\ Return(w, Nowhere)
          /\ route' = [route EXCEPT ![walk[w].package] = Order[1]]
      BY <1>7, <2>3 DEF WalkMisses, RecordRoute
    <3>2. Order[1] \in IndexName
      BY RoutingAssumption
    <3>3. QED BY <1>5, <2>1, <3>1, <3>2, CallEnds
  <2>4. QED BY <2>2, <2>3
<1>8. ASSUME NEW w \in Walker, NEW reply \in IndexReplies, WalkFails(w, reply)
      PROVE  RoutingInv'
  <2>1. /\ walk[w].mode = "walk" /\ Return(w, Nowhere) /\ UNCHANGED <<route, calls, closed>>
    BY <1>8 DEF WalkFails
  <2>2. walk[w].package \in Routed
    BY <1>1, <2>1, CallForm
  <2>3. /\ route' = [route EXCEPT ![walk[w].package] = route[walk[w].package]]
        /\ route[walk[w].package] \in IndexName \cup {Nowhere}
    BY <1>1, <2>1, <2>2 DEF RoutingTypeOK
  <2>4. QED BY <2>1, <2>3, CallEnds
<1>9. CASE CloseClients
  <2>1. RoutingTypeOK'
    BY <1>1, <1>9 DEF CloseClients, RoutingTypeOK
  <2>2. QED BY <1>9, <2>1 DEF CloseClients, RoutingInv, PinHolds, ServedByRoute,
            CallsFollow, OneCallEach
<1>10. CASE UNCHANGED routing
  BY <1>10 DEF routing, RoutingInv, RoutingTypeOK, PinHolds, ServedByRoute, CallsFollow,
     OneCallEach
<1>11. QED BY <1>2, <1>3, <1>4, <1>6, <1>7, <1>8, <1>9, <1>10
         DEF RoutingNext, RoutingOver

\* What belongs to a package is asked of the index its files came from, for any
\* indexes, pins and interleaving of calls (multi_index.py, get_files and _client_for).
THEOREM RoutesAlwaysHold == RoutingSpec => []RoutesHold
<1>1. ASSUME RoutingInv PROVE RoutesHold
  <2>1. SUFFICES ASSUME NEW p \in Routed, served[p] # Nowhere
                 PROVE  ClientFor(p) = ClientOf[served[p]]
    BY <1>1 DEF RoutingInv, RoutesHold, FollowsListing
  <2>2. served[p] = route[p] /\ route[p] # Nowhere
    BY <1>1, <2>1 DEF RoutingInv, ServedByRoute
  <2>3. QED BY <2>2 DEF ClientFor
<1>2. QED BY <1>1, InitRoutingInv, NextRoutingInv, PTL DEF RoutingSpec

----------------------------------------------------------------------------
(* Download. *)

\* The tasks are those of the first artefact for each file, and none began when
\* two artefacts for a file are not the same.
Manned ==
  IF crew \in {"out", "refused"} THEN Running = {} ELSE Running = ByFile /\ ~Collide

\* What a task wrote, or found right, stays: no other task has its file.
Delivered ==
  \A i \in Running :
    task[i] \in {"written", "skipped"} => directory[lock[i].file] = lock[i].content

\* The command is over with every task done, and only then is the client closed.
DoneFirst ==
  /\ client = "closed" => Over
  /\ Over => AllDone
  /\ crew = "succeeded" => \A i \in Running : task[i] \in {"written", "skipped"}

DownloadInv ==
  DownloadTypeOK /\ OnlyVerified /\ Manned /\ Delivered /\ DoneFirst
  /\ Cardinality(Fetching) <= MaxFetching

LEMMA LeastIndex ==
  ASSUME NEW S \in SUBSET Nat, S # {}
  PROVE  \E m \in S : \A x \in S : ~(x < m)
<1> DEFINE R == {ss \in Nat \X Nat : ss[1] < ss[2]}
<1>1. IsWellFoundedOn(R, Nat)
  BY NatLessThanWellFounded DEF OpToRel
<1> HIDE DEF R
<1>2. PICK m \in S : \A x \in S : ~(<<x, m>> \in R)
  BY <1>1, WFMin
<1>3. ASSUME NEW x \in S, x < m PROVE FALSE
  <2>1. <<x, m>> \in Nat \X Nat /\ <<x, m>>[1] = x /\ <<x, m>>[2] = m
    OBVIOUS
  <2>2. <<x, m>> \in R
    BY <1>3, <2>1 DEF R
  <2>3. QED BY <1>2, <2>2
<1>4. QED BY <1>3

\* Every artefact is stood for by one that is taken: the first of its URL, and the
\* first for its file.
LEMMA Represented ==
  ASSUME lock \in Locks, ~Collide, NEW i \in DOMAIN lock
  PROVE  \E k \in ByFile : lock[k].file = lock[i].file /\ lock[k].content = lock[i].content
<1>1. DOMAIN lock = 1..Len(lock) /\ Len(lock) \in Nat
  BY DownloadAssumption
<1> DEFINE U == {j \in DOMAIN lock : lock[j].url = lock[i].url}
<1>2. PICK u \in U : \A x \in U : ~(x < u)
  <2>1. U \in SUBSET Nat /\ i \in U
    BY <1>1
  <2> HIDE DEF U
  <2>2. QED BY <2>1, LeastIndex
<1>3. u \in ByUrl
  <2>1. ASSUME NEW j \in 1..(u - 1), lock[j].url = lock[u].url PROVE FALSE
    <3>1. j \in DOMAIN lock /\ j < u
      BY <1>1, <1>2
    <3>2. QED BY <1>2, <2>1, <3>1
  <2>2. QED BY <1>2, <2>1 DEF ByUrl
<1>4. lock[u].file = lock[i].file /\ lock[u].content = lock[i].content
  BY <1>2, DownloadAssumption
<1> DEFINE F == {j \in ByUrl : lock[j].file = lock[u].file}
<1>5. PICK k \in F : \A x \in F : ~(x < k)
  <2>1. F \in SUBSET Nat /\ u \in F
    BY <1>1, <1>3 DEF ByUrl
  <2> HIDE DEF F
  <2>2. QED BY <2>1, LeastIndex
<1>6. k \in ByFile
  BY <1>5 DEF ByFile
<1>7. Identity(lock[k]) = Identity(lock[u])
  BY <1>3, <1>5 DEF Collide
<1>8. lock[k].content = lock[u].content
  BY <1>7 DEF Identity
<1>9. QED BY <1>4, <1>5, <1>6, <1>8

\* Two artefacts that are taken have two files.
LEMMA OwnFiles ==
  ASSUME lock \in Locks, NEW i \in ByFile, NEW j \in ByFile, lock[i].file = lock[j].file
  PROVE  i = j
<1>1. i \in Nat /\ j \in Nat
  BY DownloadAssumption DEF ByFile, ByUrl
<1>2. ~(i < j) /\ ~(j < i)
  BY DEF ByFile
<1>3. QED BY <1>1, <1>2

LEMMA FetchingFinite ==
  ASSUME DownloadTypeOK
  PROVE  IsFiniteSet(Fetching) /\ Cardinality(Fetching) \in Nat
<1>1. DOMAIN lock = 1..Len(lock) /\ Len(lock) \in Nat
  BY DownloadAssumption DEF DownloadTypeOK
<1>2. IsFiniteSet(DOMAIN lock)
  BY <1>1, FS_Interval
<1>3. Fetching \in SUBSET DOMAIN lock
  BY DEF Fetching, DownloadTypeOK
<1>4. QED BY <1>2, <1>3, FS_Subset, FS_CardinalityType

\* Fewer tasks fetch, or the same.
LEMMA FewerFetch ==
  ASSUME DownloadInv, Fetching' \subseteq Fetching
  PROVE  (Cardinality(Fetching) <= MaxFetching)'
<1>1. IsFiniteSet(Fetching) /\ Cardinality(Fetching) \in Nat
  BY FetchingFinite DEF DownloadInv
<1>2. IsFiniteSet(Fetching') /\ Cardinality(Fetching') <= Cardinality(Fetching)
  BY <1>1, FS_Subset
<1>3. Cardinality(Fetching') \in Nat
  BY <1>2, FS_CardinalityType
<1>4. QED BY <1>1, <1>2, <1>3, DownloadAssumption DEF DownloadInv

\* A task that is not done moves on.
LEMMA TaskMoves ==
  ASSUME DownloadInv, NEW i \in Running, task[i] \notin Finished,
         NEW s \in TaskStates, Become(i, s),
         UNCHANGED <<lock, original, crew, disconnected, client>>,
         \/ UNCHANGED directory
         \/ directory' = [directory EXCEPT ![lock[i].file] = lock[i].content]
            /\ lock[i].content \in Contents,
         s \in {"written", "skipped"} => directory'[lock[i].file] = lock[i].content,
         s = "fetching" => Cardinality(Fetching) < MaxFetching
  PROVE  DownloadInv'
<1>1. /\ task' \in [Running -> TaskStates] /\ task'[i] = s /\ Running' = Running
      /\ \A j \in Running \ {i} : task'[j] = task[j]
      /\ Running \subseteq DOMAIN lock /\ lock \in Locks /\ i \in DOMAIN lock
  BY DEF Become, Running, DownloadInv, DownloadTypeOK
<1>2. /\ lock[i].file \in File
      /\ directory' \in [File -> Contents \cup {NoFile}]
      /\ \A f \in File \ {lock[i].file} : directory'[f] = directory[f]
      /\ directory'[lock[i].file] \in {directory[lock[i].file], lock[i].content}
  <2>1. lock[i].file \in File
    BY <1>1, DownloadAssumption
  <2>2. QED BY <2>1 DEF DownloadInv, DownloadTypeOK
<1>3. ~AllDone /\ ~Over
  BY DEF AllDone, DownloadInv, DoneFirst
<1>4. DownloadTypeOK'
  BY <1>1, <1>2 DEF DownloadInv, DownloadTypeOK
<1>5. OnlyVerified'
  BY <1>1, <1>2 DEF DownloadInv, OnlyVerified
<1>6. Manned'
  BY <1>1 DEF DownloadInv, Manned, ByFile, ByUrl, Collide
<1>7. Delivered'
  <2>1. SUFFICES ASSUME NEW j \in Running, task'[j] \in {"written", "skipped"}
                 PROVE  directory'[lock[j].file] = lock[j].content
    BY <1>1 DEF Delivered
  <2>2. CASE j = i
    BY <1>1, <2>1, <2>2
  <2>3. CASE j # i
    <3>1. directory[lock[j].file] = lock[j].content
      BY <1>1, <2>1, <2>3 DEF DownloadInv, Delivered
    <3>2. Running = ByFile
      BY DEF DownloadInv, Manned
    <3>3. lock[j].file # lock[i].file
      BY <1>1, <2>3, <3>2, OwnFiles
    <3>4. lock[j].file \in File
      BY <1>1, DownloadAssumption
    <3>5. QED BY <1>2, <3>1, <3>3, <3>4
  <2>4. QED BY <2>2, <2>3
<1>8. DoneFirst'
  BY <1>3 DEF DownloadInv, DoneFirst, Over
<1>9. (Cardinality(Fetching) <= MaxFetching)'
  <2>1. CASE s # "fetching"
    <3>1. Fetching' \subseteq Fetching
      BY <1>1, <2>1 DEF Fetching
    <3>2. QED BY <3>1, FewerFetch
  <2>2. CASE s = "fetching"
    <3>1. IsFiniteSet(Fetching) /\ Cardinality(Fetching) \in Nat
      BY FetchingFinite DEF DownloadInv
    <3>2. Fetching' = Fetching \cup {i}
      BY <1>1, <2>2 DEF Fetching
    <3>3. /\ Cardinality(Fetching \cup {i}) <= Cardinality(Fetching) + 1
          /\ Cardinality(Fetching \cup {i}) \in Nat
      BY <3>1, FS_AddElement
    <3>4. QED BY <2>2, <3>1, <3>2, <3>3, DownloadAssumption
  <2>3. QED BY <2>1, <2>2
<1>10. QED BY <1>4, <1>5, <1>6, <1>7, <1>8, <1>9 DEF DownloadInv

LEMMA DeliverStep ==
  ASSUME DownloadInv, NEW i \in Running, task[i] \notin Finished,
         NEW got \in Contents, Deliver(i, got),
         UNCHANGED <<lock, original, crew, disconnected, client>>
  PROVE  DownloadInv'
<1>1. CASE Become(i, "failed") /\ UNCHANGED directory
  <2>1. "failed" \in TaskStates
    BY DEF TaskStates
  <2>2. QED BY <1>1, <2>1, TaskMoves
<1>2. CASE /\ got = lock[i].content /\ Become(i, "written")
           /\ directory' = [directory EXCEPT ![lock[i].file] = got]
  <2>1. "written" \in TaskStates
    BY DEF TaskStates
  <2>2. lock[i].file \in DOMAIN directory
    BY DownloadAssumption DEF DownloadInv, DownloadTypeOK
  <2>3. directory'[lock[i].file] = lock[i].content
    BY <1>2, <2>2
  <2>4. QED BY <1>2, <2>1, <2>3, TaskMoves
<1>3. QED BY <1>1, <1>2 DEF Deliver

LEMMA StartStep ==
  ASSUME DownloadInv, NEW i \in Running, StartTask(i) PROVE DownloadInv'
<1>1. /\ task[i] = "waiting" /\ Cardinality(Fetching) < MaxFetching
      /\ UNCHANGED <<lock, original, crew, disconnected, client>>
  BY DEF StartTask
<1>2. task[i] \notin Finished
  BY <1>1 DEF Finished
<1>3. {"failed", "skipped", "fetching"} \subseteq TaskStates
  BY DEF TaskStates
<1>4. CASE Become(i, "failed") /\ UNCHANGED directory
  BY <1>1, <1>2, <1>3, <1>4, TaskMoves
<1>5. CASE /\ directory[lock[i].file] = lock[i].content /\ Become(i, "skipped")
           /\ UNCHANGED directory
  BY <1>1, <1>2, <1>3, <1>5, TaskMoves
<1>6. CASE Become(i, "fetching") /\ UNCHANGED directory
  BY <1>1, <1>2, <1>3, <1>6, TaskMoves
<1>7. CASE \E got \in Contents : Deliver(i, got)
  BY <1>1, <1>2, <1>7, DeliverStep
<1>8. QED BY <1>4, <1>5, <1>6, <1>7 DEF StartTask

LEMMA FetchStep ==
  ASSUME DownloadInv, NEW i \in Running, FetchEnds(i) PROVE DownloadInv'
<1>1. task[i] \notin Finished /\ UNCHANGED <<lock, original, crew, disconnected, client>>
  BY DEF FetchEnds, Finished
<1>2. CASE Become(i, "failed") /\ UNCHANGED directory
  <2>1. "failed" \in TaskStates
    BY DEF TaskStates
  <2>2. QED BY <1>1, <1>2, <2>1, TaskMoves
<1>3. CASE \E got \in Contents : Deliver(i, got)
  BY <1>1, <1>3, DeliverStep
<1>4. QED BY <1>2, <1>3 DEF FetchEnds

LEMMA CancelledStep ==
  ASSUME DownloadInv, NEW i \in Running, TaskCancelled(i) PROVE DownloadInv'
<1>1. /\ task[i] \notin Finished /\ Become(i, "cancelled")
      /\ UNCHANGED <<lock, directory, original, crew, disconnected, client>>
  BY DEF TaskCancelled, Finished
<1>2. "cancelled" \in TaskStates
  BY DEF TaskStates
<1>3. QED BY <1>1, <1>2, TaskMoves

LEMMA BeginDownload == ASSUME DownloadInv, Begin PROVE DownloadInv'
<1>1. /\ crew = "out" /\ Running = {} /\ client \in {"open", "closed"} /\ client # "closed"
      /\ UNCHANGED <<lock, directory, original, disconnected>> /\ lock \in Locks
  BY DEF Begin, DownloadInv, Manned, DownloadTypeOK, DoneFirst, Over
<1>2. OnlyVerified'
  BY <1>1 DEF DownloadInv, OnlyVerified
<1>3. CASE Collide /\ crew' = "refused" /\ client' = "closed" /\ UNCHANGED task
  <2>1. Fetching' \subseteq Fetching
    BY <1>1, <1>3 DEF Fetching, Running
  <2>2. QED BY <1>1, <1>2, <1>3, <2>1, FewerFetch
       DEF DownloadInv, DownloadTypeOK, Crews, Manned, Delivered, DoneFirst, Over,
           AllDone, Running
<1>4. CASE ~Collide /\ crew' = "running" /\ task' = [i \in ByFile |-> "waiting"]
           /\ UNCHANGED client
  <2>1. Running' = ByFile /\ \A i \in ByFile : task'[i] = "waiting"
    BY <1>4 DEF Running
  <2>2. ByFile \subseteq DOMAIN lock
    BY DEF ByFile, ByUrl
  <2>3. DownloadTypeOK'
    BY <1>1, <1>4, <2>1, <2>2 DEF DownloadInv, DownloadTypeOK, Crews, TaskStates
  <2>4. Manned'
    BY <1>1, <1>4, <2>1 DEF Manned, ByFile, ByUrl, Collide
  <2>5. Fetching' \subseteq Fetching
    BY <2>1 DEF Fetching
  <2>6. QED BY <1>1, <1>2, <1>4, <2>1, <2>3, <2>4, <2>5, FewerFetch
       DEF DownloadInv, Delivered, DoneFirst, Over
<1>5. QED BY <1>3, <1>4 DEF Begin

LEMMA CancelStep == ASSUME DownloadInv, CancelRest PROVE DownloadInv'
<1>1. /\ crew = "running" /\ crew' = "cancelling"
      /\ UNCHANGED <<lock, directory, original, disconnected, client>>
  BY DEF CancelRest
<1>2. /\ Running' = Running
      /\ \A i \in Running :
           task'[i] = IF task[i] \in Finished THEN task[i] ELSE "cancelling"
  BY DEF CancelRest, Running
<1>3. task' \in [Running -> TaskStates]
  BY DEF CancelRest, DownloadInv, DownloadTypeOK, TaskStates
<1>4. DownloadTypeOK'
  BY <1>1, <1>2, <1>3 DEF DownloadInv, DownloadTypeOK, Crews
<1>5. OnlyVerified'
  BY <1>1 DEF DownloadInv, OnlyVerified
<1>6. Manned'
  BY <1>1, <1>2 DEF DownloadInv, Manned, ByFile, ByUrl, Collide
<1>7. Delivered'
  BY <1>1, <1>2 DEF DownloadInv, Delivered
<1>8. DoneFirst'
  BY <1>1 DEF DownloadInv, DoneFirst, Over
<1>9. Fetching' \subseteq Fetching
  BY <1>2 DEF Fetching, Finished
<1>10. QED BY <1>4, <1>5, <1>6, <1>7, <1>8, <1>9, FewerFetch DEF DownloadInv

\* The command ends, with every task done.
LEMMA CloseStep ==
  ASSUME DownloadInv, AllDone, NEW c \in {"succeeded", "raised"}, crew' = c,
         crew \in {"running", "cancelling"}, client' = "closed",
         UNCHANGED <<lock, directory, original, task, disconnected>>,
         c = "succeeded" => \A i \in Running : task[i] \in {"written", "skipped"}
  PROVE  DownloadInv'
<1>1. DownloadTypeOK'
  BY DEF DownloadInv, DownloadTypeOK, Crews, Running
<1>2. OnlyVerified'
  BY DEF DownloadInv, OnlyVerified
<1>3. Manned'
  BY DEF DownloadInv, Manned, ByFile, ByUrl, Collide, Running
<1>4. Delivered'
  BY DEF DownloadInv, Delivered, Running
<1>5. DoneFirst'
  BY DEF DoneFirst, Over, AllDone, Running
<1>6. Fetching' \subseteq Fetching
  BY DEF Fetching, Running
<1>7. QED BY <1>1, <1>2, <1>3, <1>4, <1>5, <1>6, FewerFetch DEF DownloadInv

LEMMA InitDownload == DownloadInit => DownloadInv
<1> SUFFICES ASSUME DownloadInit PROVE DownloadInv
  OBVIOUS
<1>1. Running = {} /\ crew = "out" /\ client = "open"
  BY DEF DownloadInit, Running
<1>2. Fetching = {}
  BY <1>1 DEF Fetching
<1>3. task \in [Running -> TaskStates]
  BY <1>1 DEF DownloadInit, Running
<1>4. DownloadTypeOK
  BY <1>1, <1>3, DownloadAssumption DEF DownloadInit, DownloadTypeOK, Crews
<1>5. QED BY <1>1, <1>2, <1>4, FS_EmptySet, DownloadAssumption
     DEF DownloadInit, DownloadInv, OnlyVerified, Manned, Delivered, DoneFirst, Over

LEMMA NextDownload == ASSUME DownloadInv, [DownloadNext]_downloading PROVE DownloadInv'
<1>1. CASE UNCHANGED downloading
  BY <1>1 DEF downloading, DownloadInv, DownloadTypeOK, OnlyVerified, Manned, ByFile,
     ByUrl, Collide, Delivered, DoneFirst, Over, AllDone, Running, Fetching
<1>2. CASE Begin
  BY <1>2, BeginDownload
<1>3. CASE HearFailure \/ Interrupt
  BY <1>3, CancelStep DEF HearFailure, Interrupt
<1>4. CASE CloseAfterFailure
  BY <1>4, CloseStep DEF CloseAfterFailure
<1>5. CASE CloseAfterSuccess
  <2>1. AllDone
    BY <1>5 DEF CloseAfterSuccess, AllDone, Finished
  <2>2. QED BY <1>5, <2>1, CloseStep DEF CloseAfterSuccess
<1>6. ASSUME NEW i \in Running, StartTask(i) \/ FetchEnds(i) \/ TaskCancelled(i)
      PROVE  DownloadInv'
  BY <1>6, StartStep, FetchStep, CancelledStep
<1>7. QED BY <1>1, <1>2, <1>3, <1>4, <1>5, <1>6 DEF DownloadNext, Progress, DownloadOver

\* Whatever fails, and whenever the command is cancelled, the directory holds whole
\* verified files or what it held before, success means all of the lock, and the client
\* outlives its tasks: for any lock and any number of places (download.py,
\* _run_downloads and _one).
THEOREM DownloadsAreSound == DownloadSpec => []DownloadSound
<1>1. ASSUME DownloadInv PROVE DownloadSound
  <2>1. SuccessComplete
    <3>1. SUFFICES ASSUME crew = "succeeded", NEW i \in DOMAIN lock
                   PROVE  directory[lock[i].file] = lock[i].content
      BY DEF SuccessComplete
    <3>2. Running = ByFile /\ ~Collide /\ lock \in Locks
      BY <1>1, <3>1 DEF DownloadInv, Manned, DownloadTypeOK
    <3>3. PICK k \in ByFile : lock[k].file = lock[i].file
                               /\ lock[k].content = lock[i].content
      BY <3>2, Represented
    <3>4. directory[lock[k].file] = lock[k].content
      BY <1>1, <3>1, <3>2 DEF DownloadInv, DoneFirst, Delivered
    <3>5. QED BY <3>3, <3>4
  <2>2. ClosedLast
    BY <1>1 DEF DownloadInv, DoneFirst, ClosedLast
  <2>3. QED BY <1>1, <2>1, <2>2 DEF DownloadInv, DownloadSound
<1>2. QED BY <1>1, InitDownload, NextDownload, PTL DEF DownloadSpec
=============================================================================
