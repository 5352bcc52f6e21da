----------------------------- MODULE StepProofs -----------------------------
(***************************************************************************)
(* Safety of two parts a step runs through, which share no state: the      *)
(* circuit breaker of its action, for any number of callers, any threshold *)
(* and any number of probes; and the flow steps, for any number of         *)
(* branches, rounds, sub-steps and signals.                                *)
(***************************************************************************)
EXTENDS CircuitBreaker, FlowControl, FiniteSetTheorems, TLAPS

(* CircuitBreaker. *)

\* The callers labelled as probes belong to the present half-open episode.
EpisodeOver == state # "half_open" => Probes = {}

\* The counting argument: a probe runs, or has left without an outcome.
Episode == EpisodeOver /\ ProbesDecide

-----------------------------------------------------------------------------

LEMMA CallerSets ==
  ASSUME NEW S \in SUBSET Callers
  PROVE  /\ IsFiniteSet(S)
         /\ Cardinality(S) \in Nat
<1>1. IsFiniteSet(S)
  BY FS_Subset, BreakerAssumption
<1> QED
  BY <1>1, FS_CardinalityType

LEMMA LimitPositive == ProbeLimit \in Nat /\ ProbeLimit >= 1 /\ ProbeLimit >= HalfOpenMax
BY BreakerAssumption DEF ProbeLimit

\* When a caller returns no probe is left in the labels: the outcome ended the
\* episode, or there was none.
LEMMA ReturnsEndsEpisode ==
  ASSUME NEW c \in Callers, BreakerTypeOK, caller' = Returns(c)
  PROVE  /\ caller' \in [Callers -> {"idle", "plain", "probe", "late_probe"}]
         /\ Probes' = {}
<1>1. \A d \in Callers : caller'[d] \in {"idle", "plain", "late_probe"}
  BY DEF Returns, BreakerTypeOK
<1>2. caller' \in [Callers -> {"idle", "plain", "probe", "late_probe"}]
  BY <1>1 DEF Returns
<1> QED
  BY <1>1, <1>2 DEF Probes

-----------------------------------------------------------------------------

LEMMA InitKeeps == BreakerInit => BreakerTypeOK /\ OpenAfterThreshold /\ Episode
<1> SUFFICES ASSUME BreakerInit PROVE BreakerTypeOK /\ OpenAfterThreshold /\ Episode
  OBVIOUS
<1>1. cooled \in BOOLEAN
  BY DEF BreakerInit
<1>2. /\ state \in {"closed", "open", "half_open"}
      /\ consecutiveFailures \in 0..FailureThreshold
      /\ halfOpenAttempts \in Nat
  BY BreakerAssumption DEF BreakerInit
<1>3. caller \in [Callers -> {"idle", "plain", "probe", "late_probe"}]
  BY DEF BreakerInit
<1>4. Probes = {} /\ state = "closed" /\ abandoned \in Nat
  BY DEF BreakerInit, Probes
<1> QED
  BY <1>1, <1>2, <1>3, <1>4
  DEF BreakerTypeOK, OpenAfterThreshold, Episode, EpisodeOver, ProbesDecide

LEMMA NextKeepsTypes == BreakerTypeOK /\ [BreakerNext]_breakerVars => BreakerTypeOK'
<1> SUFFICES ASSUME BreakerTypeOK, [BreakerNext]_breakerVars PROVE BreakerTypeOK'
  OBVIOUS
<1>1. ASSUME NEW c \in Callers, AllowRequest(c) PROVE BreakerTypeOK'
  <2>1. CASE AllowClosed(c)
    BY <2>1 DEF BreakerTypeOK, AllowClosed
  <2>2. CASE AllowCooled(c)
    BY <2>2 DEF BreakerTypeOK, AllowCooled
  <2>3. CASE AllowHalfOpen(c)
    BY <2>3 DEF BreakerTypeOK, AllowHalfOpen
  <2>4. CASE Reject(c)
    BY <2>4 DEF BreakerTypeOK, Reject, breakerVars
  <2> QED
    BY <1>1, <2>1, <2>2, <2>3, <2>4 DEF AllowRequest
<1>2. ASSUME NEW c \in Callers, RecordSuccess(c) PROVE BreakerTypeOK'
  BY <1>2, ReturnsEndsEpisode, BreakerAssumption DEF BreakerTypeOK, RecordSuccess
<1>3. ASSUME NEW c \in Callers, RecordFailure(c) PROVE BreakerTypeOK'
  <2>1. consecutiveFailures' \in 0..FailureThreshold
    BY <1>3, BreakerAssumption DEF BreakerTypeOK, RecordFailure
  <2>2. cooled' \in BOOLEAN
    BY <1>3 DEF RecordFailure
  <2>3. /\ state' \in {"closed", "open", "half_open"}
        /\ halfOpenAttempts' \in Nat
    BY <1>3 DEF BreakerTypeOK, RecordFailure
  <2> QED
    BY <1>3, <2>1, <2>2, <2>3, ReturnsEndsEpisode DEF BreakerTypeOK, RecordFailure
<1>4. ASSUME NEW c \in Callers, Abandon(c) PROVE BreakerTypeOK'
  BY <1>4 DEF BreakerTypeOK, Abandon
<1>5. CASE CooldownElapses
  <2>1. cooled' \in BOOLEAN
    BY <1>5 DEF CooldownElapses
  <2> QED
    BY <1>5, <2>1 DEF BreakerTypeOK, CooldownElapses
<1>6. CASE UNCHANGED breakerVars
  BY <1>6 DEF BreakerTypeOK, breakerVars
<1> QED
  BY <1>1, <1>2, <1>3, <1>4, <1>5, <1>6 DEF BreakerNext, Return

\* A half-open circuit came from an open one, so the count RecordFailure does
\* not look at there is at the threshold already.
LEMMA NextKeepsThreshold ==
  BreakerTypeOK /\ OpenAfterThreshold /\ [BreakerNext]_breakerVars => OpenAfterThreshold'
<1> SUFFICES ASSUME BreakerTypeOK, OpenAfterThreshold, [BreakerNext]_breakerVars
             PROVE  OpenAfterThreshold'
  OBVIOUS
<1>1. ASSUME NEW c \in Callers, AllowRequest(c) PROVE OpenAfterThreshold'
  BY <1>1 DEF OpenAfterThreshold, AllowRequest, AllowClosed, AllowCooled,
              AllowHalfOpen, Reject, breakerVars
<1>2. ASSUME NEW c \in Callers, RecordSuccess(c) \/ Abandon(c)
      PROVE  OpenAfterThreshold'
  BY <1>2 DEF OpenAfterThreshold, RecordSuccess, Abandon
<1>3. ASSUME NEW c \in Callers, RecordFailure(c) PROVE OpenAfterThreshold'
  BY <1>3, BreakerAssumption DEF BreakerTypeOK, OpenAfterThreshold, RecordFailure
<1>4. CASE CooldownElapses \/ UNCHANGED breakerVars
  BY <1>4 DEF OpenAfterThreshold, CooldownElapses, breakerVars
<1> QED
  BY <1>1, <1>2, <1>3, <1>4 DEF BreakerNext, Return

LEMMA NextKeepsEpisode == BreakerTypeOK /\ Episode /\ [BreakerNext]_breakerVars => Episode'
<1> SUFFICES ASSUME BreakerTypeOK, Episode, [BreakerNext]_breakerVars
             PROVE  Episode'
  OBVIOUS
<1> USE DEF Episode
\* Only the labels, the state and the attempts matter.
<1>1. ASSUME UNCHANGED <<state, halfOpenAttempts, caller, abandoned>>
      PROVE  Episode'
  BY <1>1 DEF EpisodeOver, ProbesDecide, Probes
<1>2. ASSUME NEW c \in Callers, AllowClosed(c) PROVE Episode'
  BY <1>2 DEF AllowClosed, EpisodeOver, ProbesDecide, BreakerTypeOK, Probes
<1>3. ASSUME NEW c \in Callers, AllowCooled(c) PROVE Episode'
  <2>1. Probes' = {c}
    BY <1>3 DEF AllowCooled, EpisodeOver, BreakerTypeOK, Probes
  <2>2. Cardinality({c}) = 1
    BY FS_Singleton
  <2> QED
    BY <1>3, <2>1, <2>2, LimitPositive DEF AllowCooled, EpisodeOver, ProbesDecide
<1>4. ASSUME NEW c \in Callers, AllowHalfOpen(c) PROVE Episode'
  <2>1. Probes' = Probes \cup {c} /\ c \notin Probes
    BY <1>4 DEF AllowHalfOpen, BreakerTypeOK, Probes
  <2>2. Cardinality(Probes') = Cardinality(Probes) + 1
    BY <2>1, CallerSets, FS_AddElement DEF Probes
  <2>3. Cardinality(Probes) \in Nat
    BY CallerSets DEF Probes
  <2> QED
    BY <1>4, <2>2, <2>3, LimitPositive, BreakerAssumption
    DEF AllowHalfOpen, EpisodeOver, ProbesDecide, BreakerTypeOK
<1>5. ASSUME NEW c \in Callers, RecordSuccess(c) \/ RecordFailure(c)
      PROVE  Episode'
  <2>1. Probes' = {}
    BY <1>5, ReturnsEndsEpisode DEF RecordSuccess, RecordFailure
  <2>2. state' # "half_open"
    BY <1>5 DEF RecordSuccess, RecordFailure, BreakerTypeOK
  <2> QED
    BY <2>1, <2>2 DEF EpisodeOver, ProbesDecide
<1>6. ASSUME NEW c \in Callers, Abandon(c) PROVE Episode'
  <2>1. CASE caller[c] = "probe"
    <3>1. Probes' = Probes \ {c} /\ c \in Probes
      BY <1>6, <2>1 DEF Abandon, BreakerTypeOK, Probes
    <3>2. Cardinality(Probes') = Cardinality(Probes) - 1
      BY <3>1, CallerSets, FS_RemoveElement DEF Probes
    <3>3. Cardinality(Probes) \in Nat
      BY CallerSets DEF Probes
    <3> QED
      BY <1>6, <2>1, <3>1, <3>2, <3>3
      DEF Abandon, BreakerTypeOK, EpisodeOver, ProbesDecide
  <2>2. CASE caller[c] # "probe"
    <3>1. Probes' = Probes
      BY <1>6, <2>2 DEF Abandon, BreakerTypeOK, Probes
    <3> QED
      BY <1>6, <2>2, <3>1 DEF Abandon, EpisodeOver, ProbesDecide
  <2> QED
    BY <2>1, <2>2
<1>7. CASE CooldownElapses \/ UNCHANGED breakerVars
  BY <1>1, <1>7 DEF CooldownElapses, breakerVars
<1>8. ASSUME NEW c \in Callers, Reject(c) PROVE Episode'
  BY <1>1, <1>8 DEF Reject, breakerVars
<1> QED
  BY <1>2, <1>3, <1>4, <1>5, <1>6, <1>7, <1>8 DEF BreakerNext, AllowRequest, Return

-----------------------------------------------------------------------------

\* The breaker's fields stay in their types, abandoned requests or not.
THEOREM BreakerTypes == BreakerSpec => []BreakerTypeOK
<1>1. BreakerInit => BreakerTypeOK
  BY InitKeeps
<1> QED
  BY <1>1, NextKeepsTypes, PTL DEF BreakerSpec

\* The circuit is never open, nor half-open, before FailureThreshold failures
\* in a row: RecordFailure may reopen it without counting.
THEOREM OpensAtThreshold == BreakerSpec => []OpenAfterThreshold
<1>1. BreakerInit => OpenAfterThreshold
  BY InitKeeps
<1> QED
  BY <1>1, BreakerTypes, NextKeepsThreshold, PTL DEF BreakerSpec

\* A half-open circuit waits for as many running probes as it has counted,
\* less those that left without an outcome, and counts up to its limit.
THEOREM ProbesAlwaysDecide == BreakerSpec => []ProbesDecide
<1>1. BreakerInit => Episode
  BY InitKeeps
<1>2. BreakerTypeOK /\ Episode /\ [BreakerNext]_breakerVars => Episode'
  BY NextKeepsEpisode
<1>3. Episode => ProbesDecide
  BY DEF Episode
<1> QED
  BY <1>1, <1>2, <1>3, BreakerTypes, PTL DEF BreakerSpec

-----------------------------------------------------------------------------
(* FlowControl. *)

\* What a parent's, a branch's and the channel's values say of each other.
Placed ==
  /\ parent.pc \in {"branch", "round"}
       => parent.iter < Width /\ mode \notin {"all", "race"}
  /\ parent.pc = "join" => mode \in {"all", "race"}
  /\ parent.result = "none" <=> parent.pc \notin {"complete", "returned"}
  /\ parent.status = "completed"
       => parent.pc = "returned" /\ parent.result = "ok" /\ ctx = "live"
  /\ Len(signals) <= SignalCap
  /\ \A b \in Branches :
       /\ branch[b].pc \in {"start", "exec", "put_back", "signalled"}
            => branch[b].at <= Length
       /\ At(b, "put_back") <=> branch[b].held # None
       /\ At(b, "done") /\ ~branch[b].err => branch[b].at > Length

\* Only a race that is decided ends the context of its branches before its own.
ContextsAgree ==
  IF mode = "race" /\ parent.result # "none" THEN Dead ELSE subCtx = ctx

\* A context that is alive has let every record through.
WorkRecorded ==
  ~Dead => \A s \in SubSteps : s[2] < branch[s[1]].at => log[s] \in Settled

\* The branches that are not the parent's turn, where it takes one at a time.
Resting(b) ==
  \/ parent.pc \in {"begin", "complete", "returned"}
  \/ parent.pc \in {"branch", "round"} /\ b # parent.iter

OneAtATime ==
  mode # "race" => \A b \in Branches :
    /\ Resting(b) => /\ At(b, "idle") \/ At(b, "done")
                     /\ branch[b].err => parent.result = "error"
    /\ mode = "all" /\ parent.result # "none" => At(b, "done")

\* The branches whose result the parent has taken from the channel of a race.
Waiting == {resultCh[i] : i \in 1..Len(resultCh)}
Heard == {b \in Branches : At(b, "done") /\ b \notin Waiting}

\* The errors counted are those of the branches heard of.
ErrorsCounted ==
  mode = "race" =>
    /\ parent.pc = "begin"
         => /\ resultCh = <<>> /\ parent.iter = 0
            /\ \A b \in Branches : At(b, "idle")
    /\ parent.pc = "join"
         => /\ \A i \in 1..Len(resultCh) : At(resultCh[i], "done")
            /\ \A i, j \in 1..Len(resultCh) : resultCh[i] = resultCh[j] => i = j
            /\ \A b \in Heard : branch[b].err
            /\ Cardinality(Heard) = parent.iter

\* The winner's work is in the log if its result came in time.
WinnerRecorded ==
  mode = "race" /\ parent.result = "ok" /\ ctx = "live"
    => \A s \in SubSteps : s[1] = winner => log[s] \in Settled

FlowInv ==
  /\ FlowTypeOK /\ Placed /\ ContextsAgree /\ WorkRecorded /\ OneAtATime
  /\ ErrorsCounted /\ RaceOutcome /\ WinnerRecorded

-----------------------------------------------------------------------------

LEMMA FlowConstants ==
  /\ Width \in Nat /\ Width >= 1 /\ Length \in Nat /\ SignalCap \in Nat
  /\ None \notin 0..Width /\ Branches \subseteq 0..Width
  /\ \A b \in Branches : b < Width
BY FlowAssumption DEF None, Branches

\* The record of one branch.
BranchType == [pc : BranchLabels, at : 1..(Length + 1), err : BOOLEAN,
               held : (0..Width) \cup {None}]

\* All that a step of branch b does but for the channel of signals: it is at
\* work, moves nothing but itself, writes only with a live context and only of
\* its sub-step, and counts a sub-step as over when that is in the log.
Moves(b) ==
  /\ branch[b].pc \notin {"idle", "done"} /\ branch'[b].pc # "idle"
  /\ branch' = [branch EXCEPT ![b] = branch'[b]]
  /\ branch'[b] \in BranchType
  /\ UNCHANGED <<fixed, parentVars>>
  /\ mem' \in [SubSteps -> Statuses] /\ log' \in [SubSteps -> Statuses]
  /\ Dead => log' = log
  /\ \A s \in SubSteps : s # Sub(b) => log'[s] = log[s]
  /\ log' # log => branch'[b].at >= branch[b].at /\ Sub(b) \in SubSteps
  /\ \/ branch'[b].at = branch[b].at
     \/ /\ branch'[b].at = branch[b].at + 1
        /\ ~Dead => Sub(b) \in SubSteps /\ log'[Sub(b)] \in Settled
  /\ IF branch'[b].pc = "done"
     THEN /\ ~branch'[b].err => branch'[b].at > Length
          /\ resultCh' = IF mode = "race" THEN Append(resultCh, b) ELSE resultCh
     ELSE branch'[b].err = branch[b].err /\ resultCh' = resultCh
  /\ branch'[b].pc \in {"start", "exec", "put_back", "signalled"}
       => branch'[b].at <= Length
  /\ branch'[b].pc = "put_back" <=> branch'[b].held # None

\* The channel as it was.
Quiet(b) == UNCHANGED channel /\ branch'[b].held = branch[b].held

LEMMA Updates ==
  ASSUME NEW f \in [SubSteps -> Statuses], NEW b \in Branches,
         Sub(b) \in SubSteps, NEW v \in Statuses
  PROVE  /\ [f EXCEPT ![Sub(b)] = v] \in [SubSteps -> Statuses]
         /\ [f EXCEPT ![Sub(b)] = v][Sub(b)] = v
         /\ \A s \in SubSteps : s # Sub(b) => [f EXCEPT ![Sub(b)] = v][s] = f[s]
OBVIOUS

\* A sub-step the branch is at is one of the body.
LEMMA SubIsOne ==
  ASSUME FlowTypeOK, NEW b \in Branches, branch[b].at <= Length
  PROVE  Sub(b) \in SubSteps
<1>1. branch[b].at \in 1..(Length + 1)
  BY DEF FlowTypeOK
<1> QED
  BY <1>1, FlowConstants DEF Sub, SubSteps

\* The two ways out of a sub-step.
LEMMA EndsMoves ==
  ASSUME FlowTypeOK, Placed, NEW b \in Branches, NEW failed \in BOOLEAN,
         Ends(b, failed), branch[b].pc \notin {"idle", "done", "put_back"},
         ~failed => branch[b].at > Length,
         UNCHANGED <<fixed, parentVars, channel>>,
         mem' \in [SubSteps -> Statuses], log' \in [SubSteps -> Statuses],
         Dead => log' = log,
         \A s \in SubSteps : s # Sub(b) => log'[s] = log[s],
         log' # log => Sub(b) \in SubSteps
  PROVE  Moves(b) /\ Quiet(b)
<1>1. branch \in [Branches -> BranchType] /\ branch[b] \in BranchType
  BY DEF FlowTypeOK, BranchType
<1>2. /\ branch' = [branch EXCEPT ![b] = branch'[b]]
      /\ branch'[b] = [branch[b] EXCEPT !.pc = "done", !.err = failed]
  BY <1>1 DEF Ends
<1>3. branch'[b] \in BranchType
  BY <1>1, <1>2 DEF BranchType, BranchLabels
<1>4. /\ branch'[b].pc = "done" /\ branch'[b].err = failed
      /\ branch'[b].at = branch[b].at /\ branch'[b].held = branch[b].held
      /\ branch[b].at \in Nat
  BY <1>1, <1>2, FlowConstants DEF BranchType
<1>5. branch[b].held = None
  BY <1>1 DEF Placed, At, BranchType
<1> QED
  BY <1>2, <1>3, <1>4, <1>5 DEF Moves, Quiet, Ends

LEMMA AdvanceMoves ==
  ASSUME FlowTypeOK, Placed, NEW b \in Branches, Advance(b),
         branch[b].pc \in {"exec", "signalled"},
         UNCHANGED <<fixed, parentVars, channel>>,
         mem' \in [SubSteps -> Statuses], log' \in [SubSteps -> Statuses],
         Dead => log' = log,
         \A s \in SubSteps : s # Sub(b) => log'[s] = log[s],
         ~Dead => log'[Sub(b)] \in Settled
  PROVE  Moves(b) /\ Quiet(b)
<1>1. branch \in [Branches -> BranchType] /\ branch[b] \in BranchType
  BY DEF FlowTypeOK, BranchType
<1>2. branch[b].at <= Length /\ branch[b].at \in Nat
  BY <1>1, FlowConstants DEF Placed, BranchType
<1>3. /\ branch' = [branch EXCEPT ![b] = branch'[b]]
      /\ branch'[b] = [branch[b] EXCEPT !.pc = "next", !.at = branch[b].at + 1]
  BY <1>1 DEF Advance
<1>4. branch[b].at + 1 \in 1..(Length + 1) /\ "next" \in BranchLabels
  BY <1>2, <1>1, FlowConstants DEF BranchType, BranchLabels
<1>5. branch'[b] \in BranchType
  BY <1>1, <1>3, <1>4 DEF BranchType
<1>6. /\ branch'[b].pc = "next" /\ branch'[b].err = branch[b].err
      /\ branch'[b].at = branch[b].at + 1 /\ branch'[b].held = branch[b].held
  BY <1>1, <1>3, <1>2 DEF BranchType
<1>7. branch[b].held = None
  BY <1>1 DEF Placed, At, BranchType
<1>8. Sub(b) \in SubSteps
  BY <1>2, SubIsOne
<1> QED
  BY <1>2, <1>3, <1>5, <1>6, <1>7, <1>8 DEF Moves, Quiet, Advance

LEMMA FailsMoves ==
  ASSUME FlowTypeOK, Placed, NEW b \in Branches, Fails(b),
         branch[b].pc \in {"exec", "signalled"},
         UNCHANGED <<fixed, parentVars, channel>>
  PROVE  Moves(b) /\ Quiet(b)
<1>1. Sub(b) \in SubSteps
  BY SubIsOne DEF Placed
<1>2. /\ mem \in [SubSteps -> Statuses] /\ log \in [SubSteps -> Statuses]
      /\ {"completed", "failed"} \subseteq Statuses
      /\ "completed" \in Settled
  BY DEF FlowTypeOK, Statuses, Settled
<1>3. CASE Sub(b) \in IgnoreErrors
  <2>1. Advance(b)
    BY <1>3 DEF Fails
  <2>2. CASE Dead
    <3>1. UNCHANGED stepVars
      BY <1>3, <2>2 DEF Fails
    <3> QED
      BY <1>2, <2>1, <2>2, <3>1, AdvanceMoves DEF stepVars
  <2>3. CASE ~Dead
    <3>1. Settle(b, "completed")
      BY <1>3, <2>3 DEF Fails
    <3>2. /\ mem' \in [SubSteps -> Statuses] /\ log' \in [SubSteps -> Statuses]
          /\ \A s \in SubSteps : s # Sub(b) => log'[s] = log[s]
          /\ log'[Sub(b)] \in Settled
      BY <1>1, <1>2, <3>1, Updates DEF Settle
    <3> QED
      BY <2>1, <2>3, <3>2, AdvanceMoves
  <2> QED
    BY <2>2, <2>3
<1>4. CASE Sub(b) \notin IgnoreErrors
  <2>1. /\ mem' = [mem EXCEPT ![Sub(b)] = "failed"]
        /\ log' = IF Dead THEN log ELSE [log EXCEPT ![Sub(b)] = "failed"]
        /\ Ends(b, TRUE)
    BY <1>4 DEF Fails
  <2>2. /\ mem' \in [SubSteps -> Statuses] /\ log' \in [SubSteps -> Statuses]
        /\ \A s \in SubSteps : s # Sub(b) => log'[s] = log[s]
        /\ Dead => log' = log
    BY <1>1, <1>2, <2>1, Updates
  <2> QED
    BY <1>1, <2>1, <2>2, EndsMoves
<1> QED
  BY <1>3, <1>4

LEMMA CompletesMoves ==
  ASSUME FlowTypeOK, Placed, NEW b \in Branches, Completes(b),
         branch[b].pc \in {"exec", "signalled"},
         UNCHANGED <<fixed, parentVars, channel>>
  PROVE  Moves(b) /\ Quiet(b)
<1>1. Sub(b) \in SubSteps
  BY SubIsOne DEF Placed
<1>2. /\ mem \in [SubSteps -> Statuses] /\ log \in [SubSteps -> Statuses]
      /\ "completed" \in Statuses \cap Settled
  BY DEF FlowTypeOK, Statuses, Settled
<1>3. CASE ~Dead /\ Settle(b, "completed") /\ Advance(b)
  <2>1. /\ mem' \in [SubSteps -> Statuses] /\ log' \in [SubSteps -> Statuses]
        /\ \A s \in SubSteps : s # Sub(b) => log'[s] = log[s]
        /\ log'[Sub(b)] \in Settled
    BY <1>1, <1>2, <1>3, Updates DEF Settle
  <2> QED
    BY <1>3, <2>1, AdvanceMoves
<1>4. CASE Dead /\ Ends(b, TRUE) /\ UNCHANGED stepVars
  BY <1>1, <1>2, <1>4, EndsMoves DEF stepVars
<1>5. CASE Fails(b)
  BY <1>5, FailsMoves
<1> QED
  BY <1>3, <1>4, <1>5 DEF Completes

\* What a wait does with the channel.
Takes(b) ==
  /\ signals # <<>> /\ signals' = Tail(signals) /\ sent' = sent
  /\ branch[b].held = None
  /\ \/ used' = used + 1 /\ branch'[b].held = None
     \/ used' = used /\ branch'[b].held \in 0..Width

PutsBack(b) ==
  /\ branch[b].held \in 0..Width /\ branch'[b].held = None
  /\ UNCHANGED <<used, sent>>
  /\ signals' = IF Len(signals) < SignalCap
                THEN Append(signals, branch[b].held) ELSE signals

\* The two ends of a channel.
LEMMA HeadOf ==
  ASSUME NEW S, NEW q \in Seq(S), q # <<>>
  PROVE  /\ Head(q) \in S /\ Tail(q) \in Seq(S)
         /\ Len(q) \in Nat /\ Len(q) >= 1 /\ Len(Tail(q)) = Len(q) - 1
         /\ Head(q) = q[1]
         /\ \A i \in 1..(Len(q) - 1) : Tail(q)[i] = q[i + 1]
<1>1. Len(q) \in Nat /\ Len(q) # 0
  OBVIOUS
<1>2. q[1] \in S /\ Head(q) = q[1]
  BY <1>1
<1> QED
  BY <1>1, <1>2

LEMMA AppendTo ==
  ASSUME NEW S, NEW q \in Seq(S), NEW x \in S
  PROVE  /\ Append(q, x) \in Seq(S) /\ Len(q) \in Nat
         /\ Len(Append(q, x)) = Len(q) + 1
         /\ Append(q, x)[Len(q) + 1] = x
         /\ \A i \in 1..Len(q) : Append(q, x)[i] = q[i] /\ q[i] \in S
OBVIOUS

LEMMA BranchStepMoves ==
  ASSUME FlowTypeOK, Placed, NEW b \in Branches, BranchStep(b)
  PROVE  Moves(b) /\ (Quiet(b) \/ Takes(b) \/ PutsBack(b))
<1>1. branch \in [Branches -> BranchType] /\ branch[b] \in BranchType
  BY DEF FlowTypeOK, BranchType
<1>2. mem \in [SubSteps -> Statuses] /\ log \in [SubSteps -> Statuses]
  BY DEF FlowTypeOK
<1>3. branch[b].at \in Nat /\ branch[b].at <= Length + 1
  BY <1>1, FlowConstants DEF BranchType
<1>4. {"next", "start", "exec", "signalled", "put_back"} \subseteq BranchLabels
  BY DEF BranchLabels
\* A step that moves the label alone.
<1>5. ASSUME NEW label \in {"start", "exec", "signalled"}, Goto(b, label),
             branch[b].pc \in {"next", "start", "exec"},
             branch[b].at <= Length,
             UNCHANGED <<fixed, parentVars, resultCh>>,
             mem' \in [SubSteps -> Statuses], log' \in [SubSteps -> Statuses],
             Dead => log' = log,
             \A s \in SubSteps : s # Sub(b) => log'[s] = log[s]
      PROVE  Moves(b) /\ branch'[b].held = None /\ branch[b].held = None
  <2>1. /\ branch' = [branch EXCEPT ![b] = branch'[b]]
        /\ branch'[b] = [branch[b] EXCEPT !.pc = label]
    BY <1>1, <1>5 DEF Goto
  <2>2. branch'[b] \in BranchType
    BY <1>1, <1>4, <2>1 DEF BranchType
  <2>3. /\ branch'[b].pc = label /\ branch'[b].err = branch[b].err
        /\ branch'[b].at = branch[b].at /\ branch'[b].held = branch[b].held
    BY <1>1, <2>1 DEF BranchType
  <2>4. branch[b].held = None
    BY <1>5 DEF Placed, At
  <2>5. Sub(b) \in SubSteps
    BY <1>5, SubIsOne
  <2> QED
    BY <1>3, <1>5, <2>1, <2>2, <2>3, <2>4, <2>5 DEF Moves
<1>6. CASE SubNext(b)
  <2> USE <1>6 DEF SubNext
  <2>1. CASE branch[b].at > Length /\ Ends(b, FALSE) /\ UNCHANGED mem
    BY <1>2, <2>1, EndsMoves DEF At
  <2>2. CASE Dead /\ branch[b].at <= Length /\ Ends(b, TRUE) /\ UNCHANGED mem
    BY <1>2, <2>2, EndsMoves DEF At
  <2>3. CASE ~Dead /\ branch[b].at <= Length /\ Goto(b, "start")
    <3>1. Sub(b) \in SubSteps /\ "pending" \in Statuses
      BY <2>3, SubIsOne DEF Statuses
    <3>2. mem' \in [SubSteps -> Statuses]
      <4>1. mem' = mem \/ mem' = [mem EXCEPT ![Sub(b)] = "pending"]
        OBVIOUS
      <4> QED
        BY <1>2, <3>1, <4>1, Updates
    <3>3. UNCHANGED <<fixed, parentVars, resultCh>>
      BY <1>1, <2>3 DEF Ends, Goto, BranchType
    <3> QED
      BY <1>2, <1>5, <2>3, <3>2, <3>3 DEF At, Quiet
  <2> QED
    BY <2>1, <2>2, <2>3
<1>7. CASE SubStart(b)
  <2> USE <1>7 DEF SubStart
  <2>1. Sub(b) \in SubSteps /\ {"scheduled", "running"} \subseteq Statuses
    BY SubIsOne DEF Statuses, Placed, At
  <2>2. CASE Dead
    <3>1. Ends(b, TRUE) /\ UNCHANGED log
      BY <2>2
    <3>2. mem' \in [SubSteps -> Statuses]
      BY <1>2, <2>1, <2>2, Updates
    <3> QED
      BY <1>2, <3>1, <3>2, EndsMoves DEF At
  <2>3. CASE ~Dead
    <3>1. Settle(b, "running") /\ Goto(b, "exec") /\ UNCHANGED resultCh
      BY <2>3
    <3>2. /\ mem' \in [SubSteps -> Statuses] /\ log' \in [SubSteps -> Statuses]
          /\ \A s \in SubSteps : s # Sub(b) => log'[s] = log[s]
      BY <1>2, <2>1, <3>1, Updates DEF Settle
    <3> QED
      BY <1>5, <2>3, <3>1, <3>2 DEF At, Quiet, Placed
  <2> QED
    BY <2>2, <2>3
<1>8. CASE SubActs(b) \/ WaitEnds(b) \/ WaitCancelled(b)
  BY <1>8, CompletesMoves, FailsMoves DEF SubActs, WaitEnds, WaitCancelled, At
<1>9. CASE SubReasons(b)
  <2>1. CASE Completes(b) \/ Fails(b)
    BY <1>9, <2>1, CompletesMoves, FailsMoves DEF SubReasons, At
  <2>2. ASSUME NEW status \in {"suspended", "skipped"}, ~Dead,
               Settle(b, status), Advance(b)
        PROVE  Moves(b) /\ Quiet(b)
    <3>1. Sub(b) \in SubSteps /\ status \in Statuses /\ status \in Settled
      BY <1>9, SubIsOne DEF Statuses, Settled, SubReasons, Placed, At
    <3>2. /\ mem' \in [SubSteps -> Statuses] /\ log' \in [SubSteps -> Statuses]
          /\ \A s \in SubSteps : s # Sub(b) => log'[s] = log[s]
          /\ log'[Sub(b)] \in Settled
      BY <1>2, <2>2, <3>1, Updates DEF Settle
    <3> QED
      BY <1>9, <2>2, <3>2, AdvanceMoves DEF SubReasons, At
  <2> QED
    BY <1>9, <2>1, <2>2 DEF SubReasons
<1>10. CASE WaitReceive(b)
  <2> USE <1>10 DEF WaitReceive
  <2>1. /\ branch[b].pc = "exec" /\ branch[b].at <= Length
        /\ branch[b].held = None /\ signals # <<>>
    BY DEF At, Placed
  <2>2. CASE Head(signals) = b
    BY <1>2, <1>5, <2>1, <2>2 DEF Takes, stepVars
  <2>3. CASE Head(signals) # b
    <3>1. Head(signals) \in 0..Width
      BY <2>1, HeadOf DEF FlowTypeOK
    <3>2. /\ branch' = [branch EXCEPT ![b] = branch'[b]]
          /\ branch'[b] = [branch[b] EXCEPT !.pc = "put_back",
                                            !.held = Head(signals)]
      BY <1>1, <2>3
    <3>3. branch'[b] \in BranchType
      BY <1>1, <1>4, <3>1, <3>2 DEF BranchType
    <3>4. /\ branch'[b].pc = "put_back" /\ branch'[b].err = branch[b].err
          /\ branch'[b].at = branch[b].at /\ branch'[b].held = Head(signals)
      BY <1>1, <3>2 DEF BranchType
    <3>5. branch'[b].held # None
      BY <3>1, <3>4, FlowConstants
    <3>6. Moves(b)
      BY <1>2, <1>3, <2>1, <3>2, <3>3, <3>4, <3>5 DEF Moves, stepVars
    <3> QED
      BY <2>1, <2>3, <3>1, <3>4, <3>6 DEF Takes
  <2> QED
    BY <2>2, <2>3
<1>11. CASE PutBack(b)
  <2> USE <1>11 DEF PutBack
  <2>1. /\ branch[b].pc = "put_back" /\ branch[b].at <= Length
        /\ branch[b].held # None /\ branch[b].held \in (0..Width) \cup {None}
    BY <1>1 DEF At, Placed, BranchType
  <2>2. /\ branch' = [branch EXCEPT ![b] = branch'[b]]
        /\ branch'[b] = [branch[b] EXCEPT !.pc = "exec", !.held = None]
    BY <1>1
  <2>3. branch'[b] \in BranchType
    BY <1>1, <1>4, <2>2 DEF BranchType
  <2>4. /\ branch'[b].pc = "exec" /\ branch'[b].err = branch[b].err
        /\ branch'[b].at = branch[b].at /\ branch'[b].held = None
    BY <1>1, <2>2 DEF BranchType
  <2>5. Moves(b)
    BY <1>2, <1>3, <2>1, <2>2, <2>3, <2>4 DEF Moves, stepVars
  <2> QED
    BY <2>1, <2>4, <2>5 DEF PutsBack
<1> QED
  BY <1>6, <1>7, <1>8, <1>9, <1>10, <1>11 DEF BranchStep

\* A branch moves and the parent does not: what an invariant of the parent and
\* of all branches needs to know.
LEMMA BranchStepKeepsTypes ==
  ASSUME FlowTypeOK, Placed, NEW b \in Branches, BranchStep(b)
  PROVE  FlowTypeOK' /\ Placed'
<1>1. Moves(b) /\ (Quiet(b) \/ Takes(b) \/ PutsBack(b))
  BY BranchStepMoves
<1>2. signals' \in Seq(0..Width) /\ Len(signals') <= SignalCap /\ used' \in Nat /\ sent' \in Nat
  <2>1. /\ signals \in Seq(0..Width) /\ Len(signals) \in Nat
        /\ Len(signals) <= SignalCap /\ used \in Nat /\ sent \in Nat
    BY DEF FlowTypeOK, Placed
  <2>2. CASE Quiet(b)
    BY <2>1, <2>2 DEF Quiet, channel
  <2>3. CASE Takes(b)
    BY <2>1, <2>3, HeadOf, FlowConstants DEF Takes
  <2>4. CASE PutsBack(b)
    <3>1. branch[b].held \in 0..Width /\ used' = used /\ sent' = sent
      BY <2>4 DEF PutsBack
    <3>2. CASE Len(signals) < SignalCap
      <4>1. signals' = Append(signals, branch[b].held)
        BY <2>4, <3>2 DEF PutsBack
      <4>2. signals' \in Seq(0..Width) /\ Len(signals') = Len(signals) + 1
        BY <2>1, <3>1, <4>1, AppendTo
      <4> QED
        BY <2>1, <3>1, <3>2, <4>2, FlowConstants
    <3>3. CASE ~(Len(signals) < SignalCap)
      BY <2>1, <2>4, <3>1, <3>3 DEF PutsBack
    <3> QED
      BY <3>2, <3>3
  <2> QED
    BY <1>1, <2>2, <2>3, <2>4
<1>3. resultCh' \in Seq(Branches)
  <2>1. resultCh' = resultCh \/ resultCh' = Append(resultCh, b)
    BY <1>1 DEF Moves
  <2>2. resultCh \in Seq(Branches)
    BY DEF FlowTypeOK
  <2> QED
    BY <2>1, <2>2, AppendTo
<1>4. branch' \in [Branches -> BranchType]
  BY <1>1 DEF Moves, FlowTypeOK, BranchType
<1>5. FlowTypeOK'
  BY <1>1, <1>2, <1>3, <1>4 DEF FlowTypeOK, BranchType, Moves, fixed, parentVars
<1>6. ASSUME NEW c \in Branches
      PROVE  /\ branch'[c].pc \in {"start", "exec", "put_back", "signalled"}
                  => branch'[c].at <= Length
             /\ branch'[c].pc = "put_back" <=> branch'[c].held # None
             /\ branch'[c].pc = "done" /\ ~branch'[c].err => branch'[c].at > Length
  <2>1. CASE c = b
    BY <1>1, <2>1 DEF Moves
  <2>2. CASE c # b
    <3>1. branch'[c] = branch[c]
      BY <1>1, <2>2 DEF Moves, FlowTypeOK
    <3> QED
      BY <3>1 DEF Placed, At
  <2> QED
    BY <2>1, <2>2
<1>7. UNCHANGED <<parent, mode, ctx>>
  BY <1>1 DEF Moves, fixed, parentVars
<1> QED
  BY <1>2, <1>5, <1>6, <1>7 DEF Placed, At

LEMMA BranchStepKeeps ==
  ASSUME FlowInv, NEW b \in Branches, BranchStep(b)
  PROVE  FlowInv'
<1> USE DEF FlowInv
<1>1. FlowTypeOK' /\ Placed'
  BY BranchStepKeepsTypes
<1>2. Moves(b)
  BY BranchStepMoves
<1>3. /\ UNCHANGED <<parent, winner, ctx, subCtx, mode>> /\ Dead' = Dead
      /\ \A c \in Branches : c # b => branch'[c] = branch[c]
      /\ At(b, "done") = FALSE /\ At(b, "idle") = FALSE
      /\ At(b, "idle")' = FALSE
  BY <1>2 DEF Moves, fixed, parentVars, Dead, At, FlowTypeOK
<1>4. ContextsAgree'
  BY <1>3 DEF ContextsAgree
<1>5. WorkRecorded'
  <2> SUFFICES ASSUME ~Dead, NEW s \in SubSteps, s[2] < branch'[s[1]].at
               PROVE  log'[s] \in Settled
    BY <1>3 DEF WorkRecorded
  <2>1. s[1] \in Branches /\ s[2] \in Nat /\ s = <<s[1], s[2]>>
    <3>1. PICK c \in Branches, k \in 1..Length : s = <<c, k>>
      BY DEF SubSteps
    <3> QED
      BY <3>1, FlowConstants
  <2>2. branch[b].at \in Nat
    BY FlowConstants DEF FlowTypeOK
  <2>3. CASE s = Sub(b) /\ branch'[b].at = branch[b].at + 1
    BY <1>2, <2>3, <2>2 DEF Moves
  <2>4. CASE s = Sub(b) /\ branch'[b].at = branch[b].at
    BY <2>1, <2>4, FlowConstants DEF Sub, FlowTypeOK
  <2>5. CASE s # Sub(b)
    <3>1. log'[s] = log[s]
      BY <1>2, <2>5 DEF Moves
    <3>2. s[2] < branch[s[1]].at
      <4>1. CASE s[1] # b
        BY <1>3, <2>1, <4>1
      <4>2. CASE s[1] = b
        <5>1. s[2] # branch[b].at
          BY <2>1, <2>5, <4>2 DEF Sub
        <5>2. branch[b].at \in Nat /\ branch'[b].at \in {branch[b].at, branch[b].at + 1}
          BY <1>2, FlowConstants DEF Moves, FlowTypeOK
        <5> QED
          BY <2>1, <4>2, <5>1, <5>2
      <4> QED
        BY <4>1, <4>2
    <3> QED
      BY <3>1, <3>2 DEF WorkRecorded
  <2> QED
    BY <1>2, <2>3, <2>4, <2>5 DEF Moves
<1>6. OneAtATime'
  <2> SUFFICES ASSUME mode # "race", NEW c \in Branches
               PROVE  /\ Resting(c) => /\ At(c, "idle")' \/ At(c, "done")'
                                       /\ branch'[c].err => parent.result = "error"
                      /\ mode = "all" /\ parent.result # "none" => At(c, "done")'
    BY <1>3 DEF OneAtATime, Resting
  <2>1. ~Resting(b) /\ (mode = "all" => parent.result = "none")
    BY <1>3 DEF OneAtATime
  <2>2. CASE c = b
    BY <2>1, <2>2
  <2>3. CASE c # b
    BY <1>3, <2>3 DEF OneAtATime, At
  <2> QED
    BY <2>2, <2>3
<1>7. ErrorsCounted'
  <2> SUFFICES ASSUME mode = "race" PROVE ErrorsCounted'
    BY <1>3 DEF ErrorsCounted
  <2>1. parent.pc # "begin"
    BY <1>3 DEF ErrorsCounted
  <2>2. CASE parent.pc # "join"
    BY <1>3, <2>1, <2>2 DEF ErrorsCounted
  <2>3. CASE parent.pc = "join"
    <3>1. b \notin Waiting
      BY <1>3, <2>3 DEF ErrorsCounted, Waiting
    <3>2. resultCh \in Seq(Branches) /\ Len(resultCh) \in Nat
      BY DEF FlowTypeOK
    <3>3. CASE branch'[b].pc = "done"
      <4>1. resultCh' = Append(resultCh, b)
        BY <1>2, <3>3 DEF Moves
      <4>2. /\ Len(resultCh') = Len(resultCh) + 1
            /\ \A i \in 1..Len(resultCh) :
                 resultCh'[i] = resultCh[i] /\ resultCh[i] # b /\ resultCh[i] \in Branches
            /\ resultCh'[Len(resultCh) + 1] = b
        BY <3>1, <3>2, <4>1, AppendTo DEF Waiting
      <4>3. \A i \in 1..Len(resultCh') : i \in 1..Len(resultCh) \/ i = Len(resultCh) + 1
        BY <3>2, <4>2
      <4>4. Waiting' = Waiting \cup {b}
        BY <3>2, <4>2, <4>3 DEF Waiting
      <4>5. Heard' = Heard
        BY <1>3, <3>3, <4>4 DEF Heard, At
      <4>6. \A i \in 1..Len(resultCh') : branch'[resultCh'[i]].pc = "done"
        BY <1>3, <2>3, <3>3, <4>2, <4>3 DEF ErrorsCounted, At
      <4>7. \A i, j \in 1..Len(resultCh') : resultCh'[i] = resultCh'[j] => i = j
        BY <2>3, <4>2, <4>3 DEF ErrorsCounted
      <4>8. \A c \in Heard : branch'[c].err /\ branch'[c] = branch[c]
        BY <1>3, <2>3 DEF ErrorsCounted, Heard
      <4> QED
        BY <1>3, <2>3, <4>5, <4>6, <4>7, <4>8 DEF ErrorsCounted, At
    <3>4. CASE branch'[b].pc # "done"
      <4>1. resultCh' = resultCh
        BY <1>2, <3>4 DEF Moves
      <4>2. Waiting' = Waiting /\ Heard' = Heard
        BY <1>3, <3>4, <4>1 DEF Waiting, Heard, At
      <4>3. \A i \in 1..Len(resultCh) :
              resultCh[i] \in Branches /\ resultCh[i] # b
        BY <3>1, <3>2 DEF Waiting
      <4> QED
        BY <1>3, <2>3, <4>1, <4>2, <4>3 DEF ErrorsCounted, Heard, At
    <3> QED
      BY <3>3, <3>4
  <2> QED
    BY <2>2, <2>3
<1>8. RaceOutcome'
  BY <1>3 DEF RaceOutcome, At, FlowTypeOK
<1>9. WinnerRecorded'
  BY <1>2, <1>3 DEF WinnerRecorded, ContextsAgree, Moves
<1> QED
  BY <1>1, <1>4, <1>5, <1>6, <1>7, <1>8, <1>9

-----------------------------------------------------------------------------
(* The parent. *)

\* The record of the parent.
ParentType == [pc : ParentLabels, iter : 0..Width,
               result : {"none", "ok", "error"},
               status : {"running", "completed", "failed"}]

\* What the two ways of the parent to its result leave behind.
LEMMA ResultKeeps ==
  ASSUME FlowInv, NEW r \in {"ok", "error"}, Result(r),
         parent.pc \in {"begin", "branch", "round", "join"},
         UNCHANGED <<fixed, ctx>>
  PROVE  /\ parent'.pc = "complete" /\ parent'.result = r
         /\ parent'.status = parent.status /\ parent'.iter = parent.iter
         /\ parent' \in ParentType
         /\ subCtx' \in Contexts /\ ContextsAgree' /\ (Dead => Dead')
         /\ mode # "race" => subCtx' = subCtx
         /\ mode = "race" => Dead'
         /\ subCtx = ctx
<1>1. parent.result = "none" /\ subCtx = ctx
  BY DEF FlowInv, Placed, ContextsAgree
<1>2. parent' = [parent EXCEPT !.pc = "complete", !.result = r]
  BY DEF Result
<1>3. /\ parent'.pc = "complete" /\ parent'.result = r
      /\ parent'.status = parent.status /\ parent'.iter = parent.iter
      /\ parent' \in ParentType
  BY <1>2 DEF FlowInv, FlowTypeOK, ParentType, ParentLabels
<1>4. subCtx' = IF mode = "race" /\ ~Dead THEN "cancelled" ELSE subCtx
  BY DEF Result
<1>5. subCtx' \in Contexts /\ (Dead => Dead') /\ (mode = "race" => Dead')
  BY <1>4 DEF FlowInv, FlowTypeOK, Contexts, Dead
<1>6. ContextsAgree'
  BY <1>1, <1>3, <1>4, <1>5 DEF ContextsAgree, fixed
<1> QED
  BY <1>1, <1>3, <1>4, <1>5, <1>6

\* Starting branches that rest.
LEMMA StartKeeps ==
  ASSUME FlowInv, NEW S \in SUBSET Branches, Start(S), parent.pc = "begin"
  PROVE  /\ branch' \in [Branches -> BranchType]
         /\ \A b \in Branches :
              /\ branch'[b].at = branch[b].at /\ branch'[b].err = branch[b].err
              /\ branch'[b].held = branch[b].held
              /\ branch'[b].pc = IF b \in S THEN "next" ELSE branch[b].pc
              /\ b \notin S => branch'[b] = branch[b]
<1>1. branch \in [Branches -> BranchType] /\ "next" \in BranchLabels
  BY DEF FlowInv, FlowTypeOK, BranchType, BranchLabels
<1>2. ASSUME NEW b \in Branches
      PROVE  /\ branch'[b] \in BranchType
             /\ branch'[b].at = branch[b].at /\ branch'[b].err = branch[b].err
             /\ branch'[b].held = branch[b].held
             /\ branch'[b].pc = IF b \in S THEN "next" ELSE branch[b].pc
             /\ b \notin S => branch'[b] = branch[b]
  <2>1. branch[b] \in BranchType
    BY <1>1
  <2>2. CASE b \in S
    <3>1. branch'[b] = [branch[b] EXCEPT !.pc = "next"]
      BY <2>2 DEF Start
    <3> QED
      BY <1>1, <2>1, <2>2, <3>1 DEF BranchType
  <2>3. CASE b \notin S
    BY <2>1, <2>3 DEF Start
  <2> QED
    BY <2>2, <2>3
<1>3. branch' = [b \in Branches |-> branch'[b]]
  BY DEF Start
<1> QED
  BY <1>2, <1>3

\* A branch that goes from rest to work still has nothing in hand, since a
\* branch has that only where it puts a signal back.
LEMMA RestHolds ==
  ASSUME FlowInv, NEW b \in Branches, parent.pc = "begin"
  PROVE  /\ branch[b].held = None
         /\ mode # "race" => branch[b].err = FALSE
         /\ mode = "race" => branch[b].pc = "idle"
<1>1. parent.result = "none"
  BY DEF FlowInv, Placed
<1>2. At(b, "idle") \/ At(b, "done")
  BY DEF FlowInv, OneAtATime, ErrorsCounted, Resting
<1>3. branch[b].held = None
  BY <1>2 DEF FlowInv, Placed, At
<1>4. mode # "race" => branch[b].err = FALSE
  BY <1>1 DEF FlowInv, OneAtATime, Resting, FlowTypeOK
<1> QED
  BY <1>3, <1>4 DEF FlowInv, ErrorsCounted, At

\* The parent starts the branches of S and waits for them.
LEMMA StartStepKeeps ==
  ASSUME FlowInv, NEW S \in SUBSET Branches, Start(S), parent.pc = "begin",
         UNCHANGED <<fixed, stepVars, channel, resultCh, winner, ctx, subCtx>>,
         parent'.pc \in {"branch", "round", "join"},
         parent'.result = parent.result, parent'.status = parent.status,
         parent' \in ParentType,
         parent'.pc = "join"
           => mode \in {"all", "race"} /\ parent'.iter = parent.iter,
         parent'.pc # "join"
           => mode \notin {"all", "race"} /\ parent'.iter < Width /\ S = {parent'.iter}
  PROVE  FlowInv'
<1> USE DEF FlowInv
<1>1. /\ branch' \in [Branches -> BranchType]
      /\ \A b \in Branches :
           /\ branch'[b].at = branch[b].at /\ branch'[b].err = branch[b].err
           /\ branch'[b].held = branch[b].held
           /\ branch'[b].pc = IF b \in S THEN "next" ELSE branch[b].pc
           /\ b \notin S => branch'[b] = branch[b]
  BY StartKeeps
<1>2. /\ \A b \in Branches : branch[b].held = None
      /\ mode # "race" => \A b \in Branches : branch[b].err = FALSE
      /\ mode = "race" => \A b \in Branches : branch[b].pc = "idle"
  BY RestHolds
<1>3. /\ UNCHANGED <<mode, items, maxIter, decision, mem, log, signals, used>>
      /\ UNCHANGED <<sent, resultCh, winner, ctx, subCtx>>
      /\ Dead' = Dead /\ parent.result = "none"
  BY DEF fixed, stepVars, channel, Dead, Placed
<1>4. FlowTypeOK'
  BY <1>1, <1>3 DEF FlowTypeOK, ParentType, BranchType
<1>5. Placed'
  <2>1. parent.status # "completed"
    BY DEF Placed
  <2>2. Len(signals) <= SignalCap
    BY DEF Placed
  <2>3. \A b \in Branches :
          /\ branch'[b].pc \in {"start", "exec", "put_back", "signalled"}
               => branch'[b].at <= Length
          /\ branch'[b].pc = "put_back" <=> branch'[b].held # None
          /\ branch'[b].pc = "done" /\ ~branch'[b].err => branch'[b].at > Length
    BY <1>1, <1>2 DEF Placed, At
  <2> QED
    BY <1>3, <2>1, <2>2, <2>3 DEF Placed, At
<1>6. ContextsAgree' /\ WinnerRecorded' /\ RaceOutcome'
  BY <1>3 DEF ContextsAgree, WinnerRecorded, RaceOutcome
<1>7. WorkRecorded'
  <2>1. \A s \in SubSteps : s[1] \in Branches
    BY DEF SubSteps
  <2> QED
    BY <1>1, <1>3, <2>1 DEF WorkRecorded
<1>8. OneAtATime'
  <2> SUFFICES ASSUME mode # "race", NEW b \in Branches, Resting(b)'
               PROVE  /\ At(b, "idle")' \/ At(b, "done")'
                      /\ ~branch'[b].err
    BY <1>3 DEF OneAtATime
  <2>1. b \notin S
    BY DEF Resting
  <2>2. branch'[b] = branch[b] /\ Resting(b)
    BY <1>1, <2>1 DEF Resting
  <2> QED
    BY <1>2, <2>2 DEF OneAtATime, At
<1>9. ErrorsCounted'
  <2> SUFFICES ASSUME mode = "race" PROVE ErrorsCounted'
    BY <1>3 DEF ErrorsCounted
  <2>1. resultCh = <<>> /\ Len(resultCh) = 0 /\ parent.iter = 0
    BY DEF ErrorsCounted
  <2>2. \A b \in Branches : branch'[b].pc # "done"
    BY <1>1, <1>2
  <2>3. Heard' = {}
    BY <2>2 DEF Heard, At
  <2> QED
    BY <1>3, <2>1, <2>3, FS_EmptySet DEF ErrorsCounted
<1> QED
  BY <1>4, <1>5, <1>6, <1>7, <1>8, <1>9

\* The result of a step that is no race: nothing is at work any more.
LEMMA ResultStepKeeps ==
  ASSUME FlowInv, NEW r \in {"ok", "error"}, Result(r), mode # "race",
         parent.pc \in {"begin", "branch", "round", "join"},
         UNCHANGED <<fixed, stepVars, channel, branch, resultCh, winner, ctx>>,
         \A b \in Branches : /\ At(b, "idle") \/ At(b, "done")
                             /\ branch[b].err => r = "error"
                             /\ mode = "all" => At(b, "done")
  PROVE  FlowInv'
<1> USE DEF FlowInv
<1>1. /\ parent'.pc = "complete" /\ parent'.result = r
      /\ parent'.status = parent.status /\ parent'.iter = parent.iter
      /\ parent' \in ParentType
      /\ ContextsAgree' /\ subCtx' = subCtx
  BY ResultKeeps
<1>2. /\ UNCHANGED <<mode, items, maxIter, decision, mem, log, signals, used>>
      /\ UNCHANGED <<sent, branch, resultCh, winner, ctx>> /\ Dead' = Dead
  BY <1>1 DEF fixed, stepVars, channel, Dead
<1>3. FlowTypeOK'
  BY <1>1, <1>2 DEF FlowTypeOK, ParentType
<1>4. Placed'
  BY <1>1, <1>2 DEF Placed, At
<1>5. WorkRecorded'
  BY <1>2 DEF WorkRecorded
<1>6. OneAtATime'
  BY <1>1, <1>2 DEF OneAtATime, At
<1>7. ErrorsCounted' /\ RaceOutcome' /\ WinnerRecorded'
  BY <1>2 DEF ErrorsCounted, RaceOutcome, WinnerRecorded
<1> QED
  BY <1>1, <1>3, <1>4, <1>5, <1>6, <1>7

LEMMA ConditionKeeps == FlowInv /\ Condition => FlowInv'
<1> SUFFICES ASSUME FlowInv, Condition PROVE FlowInv'
  OBVIOUS
<1> USE DEF Condition
<1>1. parent.pc = "begin" /\ mode = "condition" /\ mode # "race" /\ mode # "all"
  BY DEF ParentAt
<1>2. ASSUME NEW b \in Branches, Start({b}), UNCHANGED subCtx,
             parent' = [parent EXCEPT !.pc = "branch", !.iter = b]
      PROVE  FlowInv'
  <2>1. b \in 0..Width /\ b < Width
    BY FlowConstants
  <2>2. parent'.pc = "branch" /\ parent'.iter = b /\ parent'.iter < Width
        /\ parent'.result = parent.result /\ parent'.status = parent.status
        /\ parent' \in ParentType
    <3>1. parent \in ParentType /\ "branch" \in ParentLabels
      BY DEF FlowInv, FlowTypeOK, ParentType, ParentLabels
    <3> QED
      BY <1>2, <2>1, <3>1 DEF ParentType
  <2> QED
    BY <1>1, <1>2, <2>2, StartStepKeeps
<1>3. ASSUME NEW r \in {"ok", "error"}, Result(r), UNCHANGED branch
      PROVE  FlowInv'
  <2>1. parent.result = "none"
    BY <1>1 DEF FlowInv, Placed
  <2>2. \A b \in Branches : /\ At(b, "idle") \/ At(b, "done")
                            /\ ~branch[b].err
    BY <1>1, <2>1 DEF FlowInv, OneAtATime, Resting
  <2> QED
    BY <1>1, <1>3, <2>2, ResultStepKeeps
<1> QED
  BY <1>2, <1>3

LEMMA ConditionEndsKeeps == FlowInv /\ ConditionEnds => FlowInv'
<1> SUFFICES ASSUME FlowInv, ConditionEnds PROVE FlowInv'
  OBVIOUS
<1> USE DEF ConditionEnds
<1>1. parent.pc = "branch" /\ parent.iter \in Branches /\ parent.result = "none"
  BY FlowConstants
  DEF ParentAt, FlowInv, Placed, FlowTypeOK, Branches
<1> DEFINE r == IF branch[parent.iter].err THEN "error" ELSE "ok"
<1>2. CASE mode \in {"race", "all"}
  BY <1>1, <1>2 DEF FlowInv, Placed
<1>3. CASE mode \notin {"race", "all"}
  <2>1. ASSUME NEW b \in Branches
        PROVE  /\ At(b, "idle") \/ At(b, "done")
               /\ branch[b].err => r = "error"
    BY <1>1, <1>3 DEF FlowInv, OneAtATime, Resting
  <2> QED
    BY <1>1, <1>3, <2>1, ResultStepKeeps
<1> QED
  BY <1>2, <1>3

LEMMA RoundKeeps == FlowInv /\ Round => FlowInv'
<1> SUFFICES ASSUME FlowInv, Round PROVE FlowInv'
  OBVIOUS
<1> USE DEF Round
<1>1. parent.pc = "begin" /\ mode # "race" /\ mode # "all"
  BY DEF ParentAt, LoopModes
<1>2. ASSUME NEW r \in {"ok", "error"}, Result(r), UNCHANGED branch
      PROVE  FlowInv'
  <2>1. parent.result = "none"
    BY <1>1 DEF FlowInv, Placed
  <2>2. \A b \in Branches : /\ At(b, "idle") \/ At(b, "done")
                            /\ ~branch[b].err
    BY <1>1, <2>1 DEF FlowInv, OneAtATime, Resting
  <2> QED
    BY <1>1, <1>2, <2>2, ResultStepKeeps
<1>3. ASSUME parent.iter < Width, Start({parent.iter}), UNCHANGED subCtx,
             parent' = [parent EXCEPT !.pc = "round"]
      PROVE  FlowInv'
  <2>1. {parent.iter} \in SUBSET Branches
    BY <1>3, FlowConstants DEF FlowInv, FlowTypeOK, Branches
  <2>2. /\ parent'.pc = "round" /\ parent'.iter = parent.iter
        /\ parent'.result = parent.result /\ parent'.status = parent.status
        /\ parent' \in ParentType
    BY <1>3 DEF FlowInv, FlowTypeOK, ParentType, ParentLabels
  <2> QED
    BY <1>1, <1>3, <2>1, <2>2, StartStepKeeps
<1> QED
  BY <1>2, <1>3

LEMMA ForkKeeps == FlowInv /\ Fork => FlowInv'
<1> SUFFICES ASSUME FlowInv, Fork PROVE FlowInv'
  OBVIOUS
<1> USE DEF Fork
<1>1. /\ parent'.pc = "join" /\ parent'.iter = parent.iter
      /\ parent'.result = parent.result /\ parent'.status = parent.status
      /\ parent' \in ParentType
  BY DEF FlowInv, FlowTypeOK, ParentType, ParentLabels
<1> QED
  BY <1>1, StartStepKeeps DEF ParentAt

LEMMA JoinKeeps == FlowInv /\ Join => FlowInv'
<1> SUFFICES ASSUME FlowInv, Join PROVE FlowInv'
  OBVIOUS
<1> USE DEF Join
<1> DEFINE r == IF \E b \in Branches : branch[b].err THEN "error" ELSE "ok"
<1>1. r \in {"ok", "error"} /\ Result(r) /\ mode # "race" /\ parent.pc = "join"
  BY DEF ParentAt
<1>2. \A b \in Branches : At(b, "done") /\ (branch[b].err => r = "error")
  OBVIOUS
<1> HIDE DEF r
<1> QED
  BY <1>1, <1>2, ResultStepKeeps

LEMMA RoundEndsKeeps == FlowInv /\ RoundEnds => FlowInv'
<1> SUFFICES ASSUME FlowInv, RoundEnds PROVE FlowInv'
  OBVIOUS
<1> USE DEF RoundEnds
<1>1. /\ parent.pc = "round" /\ parent.iter \in 0..Width /\ parent.iter < Width
      /\ mode \notin {"race", "all"} /\ parent.result = "none"
  BY DEF ParentAt, FlowInv, Placed, FlowTypeOK
<1>2. ASSUME NEW b \in Branches
      PROVE  /\ At(b, "idle") \/ At(b, "done")
             /\ branch[b].err => b = parent.iter
  BY <1>1 DEF FlowInv, OneAtATime, Resting
<1>3. CASE branch[parent.iter].err /\ Result("error")
  BY <1>1, <1>2, <1>3, ResultStepKeeps
<1>4. CASE ~branch[parent.iter].err /\ \E r \in {"ok", "error"} : Result(r)
  BY <1>1, <1>2, <1>4, ResultStepKeeps
<1>5. CASE /\ ~branch[parent.iter].err /\ UNCHANGED subCtx
           /\ parent' = [parent EXCEPT !.pc = "begin", !.iter = @ + 1]
  <2> USE DEF FlowInv
  <2>1. /\ parent'.pc = "begin" /\ parent'.iter = parent.iter + 1
        /\ parent'.result = "none" /\ parent'.status = parent.status
        /\ parent' \in ParentType
    <3>1. parent.iter + 1 \in 0..Width /\ "begin" \in ParentLabels
      BY <1>1, FlowConstants DEF ParentLabels
    <3>2. parent \in ParentType
      BY DEF FlowTypeOK, ParentType
    <3> QED
      BY <1>1, <1>5, <3>1, <3>2 DEF ParentType
  <2>2. /\ UNCHANGED <<mode, items, maxIter, decision, mem, log, signals>>
        /\ UNCHANGED <<used, sent, branch, resultCh, winner, ctx, subCtx>>
        /\ Dead' = Dead
    BY <1>5 DEF fixed, stepVars, channel, Dead
  <2>3. FlowTypeOK'
    BY <2>1, <2>2 DEF FlowTypeOK, ParentType
  <2>4. Placed'
    BY <1>1, <2>1, <2>2 DEF Placed, At
  <2>5. ContextsAgree' /\ WorkRecorded'
    BY <1>1, <2>2 DEF ContextsAgree, WorkRecorded
  <2>6. OneAtATime'
    BY <1>1, <1>2, <1>5, <2>1, <2>2 DEF OneAtATime, At
  <2>7. ErrorsCounted' /\ RaceOutcome' /\ WinnerRecorded'
    BY <1>1, <2>2 DEF ErrorsCounted, RaceOutcome, WinnerRecorded
  <2> QED
    BY <2>3, <2>4, <2>5, <2>6, <2>7
<1> QED
  BY <1>3, <1>4, <1>5

LEMMA CompleteKeeps == FlowInv /\ Complete => FlowInv'
<1> SUFFICES ASSUME FlowInv, Complete PROVE FlowInv'
  OBVIOUS
<1> USE DEF Complete, FlowInv
<1>1. PICK status \in {"completed", "failed", "running"} :
        /\ status = "completed" => parent.result = "ok" /\ ctx = "live"
        /\ parent' = [parent EXCEPT !.pc = "returned", !.status = status]
  OBVIOUS
<1>2. /\ parent'.pc = "returned" /\ parent'.iter = parent.iter
      /\ parent'.result = parent.result /\ parent'.status = status
      /\ parent' \in ParentType
  BY <1>1 DEF FlowTypeOK, ParentType, ParentLabels
<1>3. /\ UNCHANGED <<mode, items, maxIter, decision, mem, log, signals>>
      /\ UNCHANGED <<used, sent, branch, resultCh, winner, ctx, subCtx>>
      /\ Dead' = Dead /\ parent.pc = "complete"
  BY DEF fixed, stepVars, channel, Dead, ParentAt
<1>4. FlowTypeOK'
  BY <1>2, <1>3 DEF FlowTypeOK, ParentType
<1>5. Placed'
  BY <1>1, <1>2, <1>3 DEF Placed, At
<1>6. ContextsAgree' /\ WorkRecorded'
  BY <1>2, <1>3 DEF ContextsAgree, WorkRecorded
<1>7. OneAtATime'
  BY <1>2, <1>3 DEF OneAtATime, Resting, At
<1>8. ErrorsCounted' /\ RaceOutcome' /\ WinnerRecorded'
  BY <1>2, <1>3 DEF ErrorsCounted, RaceOutcome, WinnerRecorded, At
<1> QED
  BY <1>4, <1>5, <1>6, <1>7, <1>8

\* The branches are as many as the race is wide.
LEMMA BranchSets ==
  /\ IsFiniteSet(Branches) /\ Cardinality(Branches) = Width
  /\ \A S \in SUBSET Branches :
       /\ IsFiniteSet(S) /\ Cardinality(S) \in Nat
       /\ Cardinality(S) = Width => S = Branches
       /\ \A b \in Branches \ S : Cardinality(S \cup {b}) = Cardinality(S) + 1
       /\ \A b \in S : Cardinality(S \ {b}) = Cardinality(S) - 1
<1>1. IsFiniteSet(Branches) /\ Cardinality(Branches) = Width
  BY FS_Interval, FlowConstants DEF Branches
<1>2. ASSUME NEW S \in SUBSET Branches
      PROVE  IsFiniteSet(S) /\ Cardinality(S) \in Nat
  BY <1>1, FS_Subset, FS_CardinalityType
<1>3. ASSUME NEW S \in SUBSET Branches, Cardinality(S) = Width
      PROVE  S = Branches
  BY <1>1, <1>3, FS_Subset
<1>4. ASSUME NEW S \in SUBSET Branches
      PROVE  /\ \A b \in Branches \ S : Cardinality(S \cup {b}) = Cardinality(S) + 1
             /\ \A b \in S : Cardinality(S \ {b}) = Cardinality(S) - 1
  BY <1>2, FS_AddElement, FS_RemoveElement
<1> QED
  BY <1>1, <1>2, <1>3, <1>4

LEMMA RaceResultKeeps == FlowInv /\ RaceResult => FlowInv'
<1> SUFFICES ASSUME FlowInv, RaceResult PROVE FlowInv'
  OBVIOUS
<1> USE DEF FlowInv
<1> DEFINE b == Head(resultCh)
<1>1. /\ parent.pc = "join" /\ mode = "race" /\ resultCh # <<>>
      /\ resultCh' = Tail(resultCh) /\ parent.result = "none"
      /\ UNCHANGED <<fixed, stepVars, channel, branch, ctx>>
  BY DEF RaceResult, ParentAt, Placed
<1>2. /\ resultCh \in Seq(Branches) /\ resultCh' \in Seq(Branches)
      /\ Len(resultCh) \in Nat /\ Len(resultCh) >= 1
      /\ Len(resultCh') = Len(resultCh) - 1
      /\ b = resultCh[1] /\ b \in Branches
      /\ \A i \in 1..Len(resultCh') : resultCh'[i] = resultCh[i + 1]
  BY <1>1, HeadOf DEF FlowTypeOK
<1>3. /\ \/ ~branch[b].err /\ winner' = b /\ Result("ok")
         \/ branch[b].err /\ parent.iter + 1 = Width /\ Result("error")
            /\ winner' = winner
         \/ branch[b].err /\ parent.iter + 1 < Width
            /\ parent' = [parent EXCEPT !.iter = @ + 1]
            /\ UNCHANGED <<winner, subCtx>>
  BY DEF RaceResult
<1> HIDE DEF b
<1>4. /\ UNCHANGED <<mode, items, maxIter, decision, mem, log, signals>>
      /\ UNCHANGED <<used, sent, branch, ctx>>
  BY <1>1 DEF fixed, stepVars, channel
\* What the channel says with and without its first result.
<1>5. /\ At(b, "done")
      /\ \A i \in 1..Len(resultCh) : At(resultCh[i], "done")
      /\ \A i, j \in 1..Len(resultCh) : resultCh[i] = resultCh[j] => i = j
      /\ \A c \in Heard : branch[c].err
      /\ Cardinality(Heard) = parent.iter
  BY <1>1, <1>2 DEF ErrorsCounted
<1>6. b \in Waiting /\ Waiting' = Waiting \ {b}
  <2>1. b \in Waiting /\ Waiting' \subseteq Waiting /\ b \notin Waiting'
    <3>1. \A i \in 1..Len(resultCh') :
            /\ i + 1 \in 1..Len(resultCh) /\ i + 1 # 1
            /\ resultCh'[i] = resultCh[i + 1]
      BY <1>2
    <3>2. 1 \in 1..Len(resultCh)
      BY <1>2
    <3> QED
      BY <1>2, <1>5, <3>1, <3>2, SMTT(30) DEF Waiting
  <2>2. ASSUME NEW i \in 1..Len(resultCh), resultCh[i] # b
        PROVE  resultCh[i] \in Waiting'
    <3>1. i - 1 \in 1..Len(resultCh') /\ (i - 1) + 1 = i
      BY <1>2, <2>2
    <3> QED
      BY <1>2, <3>1 DEF Waiting
  <2>3. Waiting \ {b} \subseteq Waiting'
    BY <2>2 DEF Waiting
  <2> QED
    BY <2>1, <2>3
<1>7. Heard' = Heard \cup {b} /\ b \notin Heard
  BY <1>2, <1>4, <1>5, <1>6 DEF Heard, At
<1>8. Heard \in SUBSET Branches /\ Cardinality(Heard') = parent.iter + 1
  <2>1. Heard \in SUBSET Branches
    BY DEF Heard
  <2> QED
    BY <1>2, <1>5, <1>7, <2>1, BranchSets
<1>9. CASE branch[b].err /\ parent.iter + 1 < Width
           /\ parent' = [parent EXCEPT !.iter = @ + 1]
           /\ UNCHANGED <<winner, subCtx>>
  <2>1. /\ parent'.pc = "join" /\ parent'.iter = parent.iter + 1
        /\ parent'.result = "none" /\ parent'.status = parent.status
        /\ parent' \in ParentType /\ Dead' = Dead
    <3>1. parent \in ParentType /\ parent.iter \in Nat
      BY FlowConstants DEF FlowTypeOK, ParentType
    <3>2. parent.iter + 1 \in 0..Width
      BY <1>9, <3>1, FlowConstants
    <3> QED
      BY <1>1, <1>9, <3>1, <3>2 DEF ParentType, Dead
  <2>2. FlowTypeOK'
    BY <1>2, <1>4, <1>9, <2>1 DEF FlowTypeOK, ParentType
  <2>3. Placed'
    BY <1>1, <1>4, <2>1 DEF Placed, At
  <2>4. ContextsAgree' /\ WorkRecorded' /\ OneAtATime'
    BY <1>1, <1>4, <1>9, <2>1 DEF ContextsAgree, WorkRecorded, OneAtATime
  <2>5. ErrorsCounted'
    <3>1. \A i \in 1..Len(resultCh') :
            i + 1 \in 1..Len(resultCh) /\ resultCh'[i] = resultCh[i + 1]
      BY <1>2
    <3>2. \A i \in 1..Len(resultCh') : branch'[resultCh'[i]].pc = "done"
      BY <1>4, <1>5, <3>1 DEF At
    <3>3. \A i, j \in 1..Len(resultCh') : resultCh'[i] = resultCh'[j] => i = j
      <4> SUFFICES ASSUME NEW i \in 1..Len(resultCh'), NEW j \in 1..Len(resultCh'),
                          resultCh'[i] = resultCh'[j]
                   PROVE  i = j
        OBVIOUS
      <4>1. i + 1 = j + 1
        BY <1>5, <3>1
      <4> QED
        BY <1>2, <4>1
    <3>4. \A c \in Heard' : branch'[c].err
      BY <1>4, <1>5, <1>7, <1>9
    <3> QED
      BY <1>8, <2>1, <3>2, <3>3, <3>4 DEF ErrorsCounted, At
  <2>6. RaceOutcome' /\ WinnerRecorded'
    BY <2>1 DEF RaceOutcome, WinnerRecorded
  <2> QED
    BY <2>2, <2>3, <2>4, <2>5, <2>6
\* The race is decided.
<1>10. ASSUME NEW r \in {"ok", "error"}, Result(r),
              winner' \in Branches \cup {None}, RaceOutcome', WinnerRecorded'
       PROVE  FlowInv'
  <2>1. /\ parent'.pc = "complete" /\ parent'.result = r
        /\ parent'.status = parent.status /\ parent'.iter = parent.iter
        /\ parent' \in ParentType
        /\ subCtx' \in Contexts /\ ContextsAgree' /\ Dead'
    BY <1>1, <1>10, ResultKeeps
  <2>2. FlowTypeOK'
    BY <1>2, <1>4, <1>10, <2>1 DEF FlowTypeOK, ParentType
  <2>3. Placed'
    BY <1>1, <1>4, <2>1 DEF Placed, At
  <2>4. WorkRecorded' /\ OneAtATime' /\ ErrorsCounted'
    BY <1>1, <1>4, <2>1 DEF WorkRecorded, OneAtATime, ErrorsCounted
  <2> QED
    BY <1>10, <2>1, <2>2, <2>3, <2>4
<1>11. CASE ~branch[b].err /\ winner' = b /\ Result("ok")
  <2>1. /\ parent'.result = "ok" /\ subCtx = ctx
    BY <1>1, <1>11, ResultKeeps
  <2>2. RaceOutcome'
    BY <1>2, <1>4, <1>5, <1>11, <2>1, FlowConstants DEF RaceOutcome, At
  <2>3. WinnerRecorded'
    <3> SUFFICES ASSUME ctx = "live", NEW s \in SubSteps, s[1] = b
                 PROVE  log[s] \in Settled
      BY <1>4, <1>11 DEF WinnerRecorded
    <3>1. ~Dead /\ branch[b].at > Length /\ branch[b].at \in Nat
      BY <1>2, <1>5, <1>11, <2>1, FlowConstants
      DEF Dead, Placed, FlowTypeOK
    <3>2. PICK c \in Branches, k \in 1..Length : s = <<c, k>>
      BY DEF SubSteps
    <3>3. s[2] < branch[s[1]].at
      BY <3>1, <3>2, FlowConstants
    <3> QED
      BY <3>1, <3>3 DEF WorkRecorded
  <2> QED
    BY <1>2, <1>10, <1>11, <2>2, <2>3
<1>12. CASE branch[b].err /\ parent.iter + 1 = Width /\ Result("error")
            /\ winner' = winner
  <2>1. parent'.result = "error"
    BY <1>1, <1>12, ResultKeeps
  <2>2. Heard' = Branches
    BY <1>2, <1>7, <1>8, <1>12, BranchSets
  <2>3. RaceOutcome'
    <3>1. \A c \in Branches : branch[c].err /\ branch[c].pc = "done"
      BY <1>5, <1>7, <1>12, <2>2 DEF Heard, At
    <3> QED
      BY <1>4, <2>1, <3>1 DEF RaceOutcome, At
  <2>4. WinnerRecorded'
    BY <2>1 DEF WinnerRecorded
  <2> QED
    BY <1>10, <1>12, <2>3, <2>4 DEF FlowTypeOK
<1> QED
  BY <1>3, <1>9, <1>11, <1>12

-----------------------------------------------------------------------------

LEMMA SignalKeeps ==
  ASSUME FlowInv, NEW to \in 0..Width, Signal(to)
  PROVE  FlowInv'
<1> USE DEF FlowInv
<1>1. /\ UNCHANGED <<mode, items, maxIter, decision, mem, log, used>>
      /\ UNCHANGED <<parent, branch, resultCh, winner, ctx, subCtx>>
      /\ sent' = sent + 1 /\ signals' = Append(signals, to)
      /\ Len(signals) < SignalCap /\ Dead' = Dead
  BY DEF Signal, fixed, stepVars, parentVars, Dead
<1>2. /\ signals' \in Seq(0..Width) /\ Len(signals') = Len(signals) + 1
      /\ Len(signals) \in Nat
  BY <1>1, AppendTo DEF FlowTypeOK
<1>3. FlowTypeOK' /\ Placed'
  BY <1>1, <1>2, FlowConstants DEF FlowTypeOK, Placed, At
<1> QED
  BY <1>1, <1>3 DEF ContextsAgree, WorkRecorded, OneAtATime, Resting,
                    ErrorsCounted, Heard, Waiting, RaceOutcome, WinnerRecorded, At

LEMMA ContextDoneKeeps == FlowInv /\ ContextDone => FlowInv'
<1> SUFFICES ASSUME FlowInv, ContextDone PROVE FlowInv'
  OBVIOUS
<1> USE DEF FlowInv
<1>1. /\ UNCHANGED <<mode, items, maxIter, decision, mem, log, signals, used>>
      /\ UNCHANGED <<sent, parent, branch, resultCh, winner>>
      /\ ctx = "live" /\ ctx' \in {"cancelled", "deadline"}
      /\ subCtx' = IF Dead THEN subCtx ELSE ctx'
      /\ parent.pc # "returned"
  BY DEF ContextDone, fixed, stepVars, channel, ParentAt
<1>2. Dead' /\ ctx' \in Contexts /\ subCtx' \in Contexts
  BY <1>1 DEF Dead, Contexts, FlowTypeOK
<1>3. FlowTypeOK' /\ Placed'
  BY <1>1, <1>2 DEF FlowTypeOK, Placed, At
<1>4. ContextsAgree'
  BY <1>1, <1>2 DEF ContextsAgree, Dead
<1> QED
  BY <1>1, <1>2, <1>3, <1>4
  DEF WorkRecorded, OneAtATime, Resting, ErrorsCounted, Heard, Waiting,
      RaceOutcome, WinnerRecorded, At

LEMMA FlowInit == Init => FlowInv
<1> SUFFICES ASSUME Init PROVE FlowInv
  OBVIOUS
<1> USE DEF Init
<1>1. /\ parent.pc = "begin" /\ parent.iter = 0 /\ parent.result = "none"
      /\ parent.status = "running" /\ parent \in ParentType
  BY FlowConstants DEF ParentType, ParentLabels
<1>2. /\ branch \in [Branches -> BranchType]
      /\ \A b \in Branches :
           /\ branch[b].pc = "idle" /\ branch[b].at = 1
           /\ branch[b].err = FALSE /\ branch[b].held = None
  BY FlowConstants DEF BranchType, BranchLabels
<1>3. /\ mem \in [SubSteps -> Statuses] /\ log \in [SubSteps -> Statuses]
      /\ ctx \in Contexts /\ subCtx \in Contexts
  BY DEF Statuses, Contexts
<1>4. mode \in AllModes /\ items \in 0..Width /\ maxIter \in Nat
  BY FlowAssumption, FlowConstants
<1>5. FlowTypeOK
  BY <1>1, <1>2, <1>3, <1>4 DEF FlowTypeOK, ParentType, BranchType
<1>6. Placed
  BY <1>1, <1>2, FlowConstants DEF Placed, At
<1>7. WorkRecorded
  <2>1. \A s \in SubSteps : s[1] \in Branches /\ s[2] \in 1..Length
    BY DEF SubSteps
  <2> QED
    BY <1>2, <2>1, FlowConstants DEF WorkRecorded
<1>8. ErrorsCounted
  BY <1>1, <1>2 DEF ErrorsCounted, At
<1>9. OneAtATime
  BY <1>1, <1>2 DEF OneAtATime, At
<1> QED
  BY <1>1, <1>5, <1>6, <1>7, <1>8, <1>9
  DEF FlowInv, ContextsAgree, RaceOutcome, WinnerRecorded

LEMMA FlowNext == FlowInv /\ [Next]_vars => FlowInv'
<1> SUFFICES ASSUME FlowInv, [Next]_vars PROVE FlowInv'
  OBVIOUS
<1>1. CASE ParentStep
  BY <1>1, ConditionKeeps, ConditionEndsKeeps, RoundKeeps, RoundEndsKeeps,
     ForkKeeps, JoinKeeps, RaceResultKeeps, CompleteKeeps DEF ParentStep
<1>2. CASE \E b \in Branches : BranchStep(b)
  BY <1>2, BranchStepKeeps
<1>3. CASE \E to \in 0..Width : Signal(to)
  BY <1>3, SignalKeeps
<1>4. CASE ContextDone
  BY <1>4, ContextDoneKeeps
<1>5. CASE UNCHANGED vars
  BY <1>5
  DEF vars, fixed, parentVars, stepVars, channel, FlowInv, FlowTypeOK, Placed,
      ContextsAgree, Dead, WorkRecorded, OneAtATime, Resting, ErrorsCounted,
      Heard, Waiting, RaceOutcome, WinnerRecorded, At
<1> QED
  BY <1>1, <1>2, <1>3, <1>4, <1>5 DEF Next, Finished

\* A step that completed stands on work that is in the log: a branch that is
\* over without an error has counted all its sub-steps, and a context that is
\* alive has let each into the log.
LEMMA FlowInvSettles == FlowInv => CompletedMeansSettled
<1> SUFFICES ASSUME FlowInv PROVE CompletedMeansSettled
  OBVIOUS
<1> USE DEF FlowInv
<1>1. ASSUME parent.status = "completed", NEW b \in Needed, NEW k \in 1..Length
      PROVE  log[<<b, k>>] \in Settled
  <2>1. /\ parent.pc = "returned" /\ parent.result = "ok" /\ ctx = "live"
    BY <1>1 DEF Placed
  <2>2. CASE mode = "race"
    <3>1. b = winner /\ winner \in Branches
      BY <2>1, <2>2 DEF Needed, RaceOutcome, FlowTypeOK
    <3>2. <<b, k>> \in SubSteps /\ <<b, k>>[1] = b
      BY <3>1 DEF SubSteps
    <3> QED
      BY <2>1, <2>2, <3>1, <3>2 DEF WinnerRecorded
  <2>3. CASE mode # "race"
    <3>1. b \in Branches /\ ~At(b, "idle")
      BY <2>1, <2>3 DEF Needed, OneAtATime, At
    <3>2. At(b, "done") /\ ~branch[b].err
      BY <2>1, <2>3, <3>1 DEF OneAtATime, Resting
    <3>3. branch[b].at > Length /\ branch[b].at \in Nat
      BY <3>1, <3>2, FlowConstants DEF Placed, FlowTypeOK
    <3>4. ~Dead
      BY <2>1, <2>3 DEF ContextsAgree, Dead
    <3>5. <<b, k>> \in SubSteps /\ <<b, k>>[1] = b /\ <<b, k>>[2] = k
      BY <3>1 DEF SubSteps
    <3> QED
      BY <3>3, <3>4, <3>5, FlowConstants DEF WorkRecorded
  <2> QED
    BY <2>2, <2>3
<1>2. ASSUME parent.pc \in {"complete", "returned"}, mode # "race"
      PROVE  Active = {}
  BY <1>2 DEF OneAtATime, Resting, Active
<1> QED
  BY <1>1, <1>2 DEF CompletedMeansSettled

LEMMA FlowAlways == Spec => []FlowInv
BY FlowInit, FlowNext, PTL DEF Spec

\* The state of a flow step has its type, for any number of branches and of
\* sub-steps.
THEOREM FlowTypes == Spec => []FlowTypeOK
<1>1. FlowInv => FlowTypeOK
  BY DEF FlowInv
<1> QED
  BY <1>1, FlowAlways, PTL

\* A flow step is recorded as completed only over work that is in the log.
THEOREM CompletedOverSettled == Spec => []CompletedMeansSettled
BY FlowAlways, FlowInvSettles, PTL

\* A race fails only when every branch did, and succeeds with one that did not.
THEOREM RacesEndRight == Spec => []RaceOutcome
<1>1. FlowInv => RaceOutcome
  BY DEF FlowInv
<1> QED
  BY <1>1, FlowAlways, PTL

-----------------------------------------------------------------------------

\* Once a race is decided its branches have no context to record with.
LEMMA SilentStep ==
  FlowInv /\ [Next]_vars
    => [mode = "race" /\ parent.pc \in {"complete", "returned"} => log' = log]_vars
<1> SUFFICES ASSUME FlowInv, Next, mode = "race",
                    parent.pc \in {"complete", "returned"}
             PROVE  log' = log
  OBVIOUS
<1>1. Dead
  BY DEF FlowInv, ContextsAgree, Placed
<1>2. ASSUME NEW b \in Branches, BranchStep(b) PROVE log' = log
  BY <1>1, <1>2, BranchStepMoves DEF FlowInv, Moves
<1>3. CASE ParentStep
  BY <1>3 DEF ParentStep, Condition, ConditionEnds, Round, RoundEnds, Fork,
              Join, RaceResult, Complete, stepVars
<1>4. CASE \E to \in 0..Width : Signal(to)
  BY <1>4 DEF Signal, stepVars
<1> QED
  BY <1>2, <1>3, <1>4 DEF Next, ContextDone, Finished, vars, stepVars

\* The losers of a race record no outcome once it is decided.
THEOREM LosersStaySilent == Spec => LosersAreSilent
BY FlowAlways, SilentStep, PTL DEF Spec, LosersAreSilent

\* A signal is lost only where a wait puts it back into a full channel.
LEMMA LostStep ==
  FlowInv /\ [Next]_vars => [Lost' # Lost => Len(signals) = SignalCap]_vars
<1> SUFFICES ASSUME FlowInv, Next, Len(signals) # SignalCap
             PROVE  Lost' = Lost
  OBVIOUS
<1> USE DEF FlowInv
<1>1. /\ signals \in Seq(0..Width) /\ Len(signals) \in Nat
      /\ Len(signals) < SignalCap /\ used \in Nat /\ sent \in Nat
  BY FlowConstants DEF FlowTypeOK, Placed
<1>2. InHand \in SUBSET Branches /\ Cardinality(InHand) \in Nat
  BY BranchSets DEF InHand
<1>3. ASSUME UNCHANGED channel, InHand' = InHand PROVE Lost' = Lost
  BY <1>3 DEF Lost, channel
<1>4. ASSUME NEW b \in Branches, BranchStep(b) PROVE Lost' = Lost
  <2>1. Moves(b) /\ (Quiet(b) \/ Takes(b) \/ PutsBack(b))
    BY <1>4, BranchStepMoves
  <2>2. \A c \in Branches : c # b => branch'[c].held = branch[c].held
    BY <2>1 DEF Moves, FlowTypeOK
  <2>3. CASE Quiet(b)
    BY <1>3, <2>2, <2>3 DEF Quiet, InHand
  <2>4. CASE Takes(b)
    <3>1. /\ signals # <<>> /\ signals' = Tail(signals) /\ sent' = sent
          /\ branch[b].held = None /\ Len(signals') = Len(signals) - 1
      BY <1>1, <2>4, HeadOf DEF Takes
    <3>2. CASE used' = used + 1 /\ branch'[b].held = None
      <4>1. InHand' = InHand
        BY <2>2, <3>1, <3>2 DEF InHand
      <4> QED
        BY <1>1, <1>2, <3>1, <3>2, <4>1 DEF Lost
    <3>3. CASE used' = used /\ branch'[b].held \in 0..Width
      <4>1. InHand' = InHand \cup {b} /\ b \notin InHand
        BY <2>2, <3>1, <3>3, FlowConstants DEF InHand
      <4>2. Cardinality(InHand') = Cardinality(InHand) + 1
        BY <1>2, <4>1, BranchSets
      <4> QED
        BY <1>1, <1>2, <3>1, <3>3, <4>2 DEF Lost
    <3> QED
      BY <2>4, <3>2, <3>3 DEF Takes
  <2>5. CASE PutsBack(b)
    <3>1. /\ branch[b].held \in 0..Width /\ branch'[b].held = None
          /\ used' = used /\ sent' = sent
          /\ signals' = Append(signals, branch[b].held)
      BY <1>1, <2>5 DEF PutsBack
    <3>2. Len(signals') = Len(signals) + 1
      BY <1>1, <3>1, AppendTo
    <3>3. InHand' = InHand \ {b} /\ b \in InHand
      BY <2>2, <3>1, FlowConstants DEF InHand
    <3>4. Cardinality(InHand') = Cardinality(InHand) - 1
      BY <1>2, <3>3, BranchSets
    <3> QED
      BY <1>1, <1>2, <3>1, <3>2, <3>4 DEF Lost
  <2> QED
    BY <2>1, <2>3, <2>4, <2>5
<1>5. ASSUME NEW S \in SUBSET Branches, Start(S), parent.pc = "begin"
      PROVE  InHand' = InHand
  BY <1>5, StartKeeps DEF InHand
<1>6. CASE Condition
  <2>1. UNCHANGED channel /\ parent.pc = "begin"
    BY <1>6 DEF Condition, ParentAt
  <2>2. \/ UNCHANGED branch
        \/ \E b \in Branches : Start({b})
    BY <1>6 DEF Condition
  <2> QED
    BY <1>3, <1>5, <2>1, <2>2 DEF InHand
<1>7. CASE Round
  <2>1. UNCHANGED channel /\ parent.pc = "begin"
    BY <1>7 DEF Round, ParentAt
  <2>2. \/ UNCHANGED branch
        \/ parent.iter < Width /\ Start({parent.iter})
    BY <1>7 DEF Round
  <2>3. parent.iter < Width => {parent.iter} \in SUBSET Branches
    BY FlowConstants DEF FlowTypeOK, Branches
  <2> QED
    BY <1>3, <1>5, <2>1, <2>2, <2>3 DEF InHand
<1>8. CASE Fork
  BY <1>3, <1>5, <1>8 DEF Fork, ParentAt
<1>9. CASE ConditionEnds \/ RoundEnds \/ Join \/ RaceResult \/ Complete
  BY <1>3, <1>9 DEF ConditionEnds, RoundEnds, Join, RaceResult, Complete, InHand
<1>10. ASSUME NEW to \in 0..Width, Signal(to) PROVE Lost' = Lost
  <2>1. /\ signals' = Append(signals, to) /\ sent' = sent + 1
        /\ UNCHANGED <<branch, used>>
    BY <1>10 DEF Signal
  <2>2. Len(signals') = Len(signals) + 1
    BY <1>1, <2>1, AppendTo
  <2> QED
    BY <1>1, <1>2, <2>1, <2>2 DEF Lost, InHand
<1>11. CASE ContextDone \/ Finished
  BY <1>3, <1>11 DEF ContextDone, Finished, InHand, vars
<1> QED
  BY <1>4, <1>6, <1>7, <1>8, <1>9, <1>10, <1>11 DEF Next, ParentStep

\* The waits give back what they take unless the channel is full.
THEOREM SignalsAreKept == Spec => LostOnlyWhenFull
BY FlowAlways, LostStep, PTL DEF Spec, LostOnlyWhenFull
=============================================================================
