---------------------------- MODULE AlgorithmProofs ---------------------------
(*****************************************************************************)
(* What the algorithms of a step compute, for inputs of any size: the graph  *)
(* of a definition, the delay before a retry, what is told of an attempt,    *)
(* and the params with their references put in. Each definition by recursion *)
(* is first shown to exist as a list of values, each made from the one       *)
(* before (DataLemmas); what it computes is then an induction over that      *)
(* list.                                                                     *)
(*****************************************************************************)
EXTENDS StepGraph, Failures, Interpolation, DataLemmas

-----------------------------------------------------------------------------
(* Retry delay. *)

\* What PowerOfTwo computes.
LEMMA Powers ==
  /\ PowerOfTwo \in [Nat -> Nat]
  /\ PowerOfTwo[0] = 1 /\ \A n \in Nat : PowerOfTwo[n + 1] = 2 * PowerOfTwo[n]
<1> DEFINE step == [k \in Nat |-> [v \in Nat |-> 2 * v]]
<1>1. step \in [Nat -> [Nat -> Nat]]
  OBVIOUS
<1> HIDE DEF step
<1>2. PICK f \in [Nat -> Nat] : Follows(f, 1, step)
  BY <1>1, Recursion
<1> USE DEF step, Follows
<1>3. f = [n \in Nat |-> IF n = 0 THEN 1 ELSE 2 * f[n - 1]]
  <2>1. ASSUME NEW n \in Nat
        PROVE  f[n] = IF n = 0 THEN 1 ELSE 2 * f[n - 1]
    <3>1. CASE n = 0
      BY <1>2, <3>1
    <3>2. CASE n # 0
      <4>1. n - 1 \in Nat /\ (n - 1) + 1 = n
        BY <3>2
      <4>2. f[(n - 1) + 1] = 2 * f[n - 1]
        BY <1>2, <4>1
      <4> QED
        BY <3>2, <4>1, <4>2
    <3> QED
      BY <3>1, <3>2
  <2> QED
    BY <2>1
<1>4. PowerOfTwo = [n \in Nat |-> IF n = 0 THEN 1 ELSE 2 * PowerOfTwo[n - 1]]
  BY <1>3 DEF PowerOfTwo
<1>5. PowerOfTwo[0] = 1 /\ \A n \in Nat : PowerOfTwo[n + 1] = 2 * PowerOfTwo[n]
  <2>1. \A n \in Nat : PowerOfTwo[n] = IF n = 0 THEN 1 ELSE 2 * PowerOfTwo[n - 1]
    BY <1>4
  <2>2. \A n \in Nat : n + 1 \in Nat /\ n + 1 # 0 /\ (n + 1) - 1 = n
    OBVIOUS
  <2> QED
    BY <2>1, <2>2
<1> DEFINE H == {n \in Nat : PowerOfTwo[n] \in Nat}
<1>6. H = Nat
  <2>1. 0 \in H /\ \A n \in H : n + 1 \in H
    BY <1>5
  <2> HIDE DEF H
  <2>2. H \in SUBSET Nat
    BY DEF H
  <2> QED
    BY <2>1, <2>2, InductionOverNat
<1>7. PowerOfTwo \in [Nat -> Nat]
  BY <1>4, <1>6
<1> QED
  BY <1>5, <1>7

\* There is a power of two over any number.
LEMMA PowersGrow ==
  \A n \in Nat : n + 1 <= PowerOfTwo[n]
<1> DEFINE H == {n \in Nat : n + 1 <= PowerOfTwo[n]}
<1>1. 0 \in H /\ \A n \in H : n + 1 \in H
  BY Powers
<1> HIDE DEF H
<1>2. H \in SUBSET Nat
  BY DEF H
<1>3. H = Nat
  BY <1>1, <1>2, InductionOverNat
<1> QED
  BY <1>3 DEF H

\* The greatest duration and one.
LEMMA HalfIsNat ==
  Half \in Nat /\ Half >= 1
<1>1. Bits - 1 \in Nat
  BY FailuresAssumption
<1> QED
  BY <1>1, Powers, PowersGrow DEF Half

\* Integers of the width stay as they are, and others become some.
LEMMA WrapKeeps ==
  ASSUME NEW n \in Nat, n < Half
  PROVE  Wrap(n) = n
<1>1. n + Half \in Nat /\ 2 * Half \in Nat /\ n + Half < 2 * Half /\ Half \in Nat
  BY HalfIsNat
<1>2. (n + Half) % (2 * Half) = n + Half
  BY <1>1
<1> QED
  BY <1>1, <1>2 DEF Wrap

\* A product of durations is an integer, wrapped or not.
LEMMA WrapIsInt ==
  ASSUME NEW n \in Int
  PROVE  Wrap(n) \in Int
<1>1. n + Half \in Int /\ 2 * Half \in Nat /\ 2 * Half > 0 /\ Half \in Nat
  BY HalfIsNat
<1>2. (n + Half) % (2 * Half) \in Int
  BY <1>1
<1> QED
  BY <1>1, <1>2 DEF Wrap

\* What the loop of the multiplier computes.
LEMMA DoubledSteps ==
  /\ Doubled(0) = 1
  /\ \A n \in Nat : Doubled(n) \in Int /\ Doubled(n + 1) = Wrap(Doubled(n) * 2)
<1> DEFINE step == [k \in Nat |-> [v \in Int |-> Wrap(v * 2)]]
<1>1. step \in [Nat -> [Int -> Int]]
  BY WrapIsInt
<1> HIDE DEF step
<1>2. PICK f \in [Nat -> Int] : Follows(f, 1, step)
  <2>1. 1 \in Int
    OBVIOUS
  <2> QED
    BY <1>1, <2>1, Recursion, Zenon
<1> USE DEF step, Follows
<1>3. \A n \in Nat : f[n] \in Int /\ f[n + 1] = Wrap(f[n] * 2)
  BY <1>2
<1>4. ASSUME NEW n \in Nat
      PROVE  Doubled(n) = f[n]
  <2> DEFINE times == CHOOSE t : t = [k \in 0..n |-> IF k = 0 THEN 1 ELSE Wrap(t[k - 1] * 2)]
             g == [k \in 0..n |-> f[k]]
  <2>1. g = [k \in 0..n |-> IF k = 0 THEN 1 ELSE Wrap(g[k - 1] * 2)]
    <3>1. ASSUME NEW k \in 0..n
          PROVE  f[k] = IF k = 0 THEN 1 ELSE Wrap(g[k - 1] * 2)
      <4>1. CASE k = 0
        BY <1>2, <4>1
      <4>2. CASE k # 0
        <5>1. k - 1 \in Nat /\ k - 1 \in 0..n /\ (k - 1) + 1 = k
          BY <4>2
        <5>2. f[(k - 1) + 1] = Wrap(f[k - 1] * 2)
          BY <1>3, <5>1
        <5> QED
          BY <4>2, <5>1, <5>2
      <4> QED
        BY <4>1, <4>2
    <3> QED
      BY <3>1
  <2>2. times = [k \in 0..n |-> IF k = 0 THEN 1 ELSE Wrap(times[k - 1] * 2)]
    <3> HIDE DEF g
    <3> QED
      BY <2>1
  <2>3. Doubled(n) = times[n]
    BY DEF Doubled
  <2> HIDE DEF times
  <2> DEFINE H == {k \in Nat : k \in 0..n => times[k] = f[k]}
  <2>4. 0 \in H
    BY <1>2, <2>2
  <2>5. ASSUME NEW k \in H
        PROVE  k + 1 \in H
    <3> SUFFICES ASSUME k + 1 \in 0..n
                 PROVE  times[k + 1] = f[k + 1]
      OBVIOUS
    <3>1. k \in Nat /\ k \in 0..n /\ (k + 1) - 1 = k /\ k + 1 # 0 /\ times[k] = f[k]
      OBVIOUS
    <3>2. times[k + 1] = Wrap(times[k] * 2)
      BY <2>2, <3>1
    <3> QED
      BY <1>3, <3>1, <3>2
  <2> HIDE DEF H
  <2>6. H = Nat
    <3>1. H \in SUBSET Nat
      BY DEF H
    <3> QED
      BY <2>4, <2>5, <3>1, InductionOverNat
  <2> QED
    BY <2>3, <2>6 DEF H
<1> QED
  BY <1>2, <1>3, <1>4

\* The loop of the multiplier (retry.go:83-87) computes the power as long as
\* it fits.
LEMMA DoubledIsPower ==
  \A n \in Nat : PowerOfTwo[n] < Half => Doubled(n) = PowerOfTwo[n]
<1> DEFINE H == {n \in Nat : PowerOfTwo[n] < Half => Doubled(n) = PowerOfTwo[n]}
<1>1. 0 \in H
  BY Powers, DoubledSteps
<1>2. ASSUME NEW n \in H
      PROVE  n + 1 \in H
  <2> SUFFICES ASSUME PowerOfTwo[n + 1] < Half
               PROVE  Doubled(n + 1) = PowerOfTwo[n + 1]
    OBVIOUS
  <2>1. n \in Nat /\ PowerOfTwo[n] \in Nat /\ PowerOfTwo[n + 1] = 2 * PowerOfTwo[n]
    BY Powers
  <2>2. PowerOfTwo[n] < Half /\ 2 * PowerOfTwo[n] \in Nat /\ 2 * PowerOfTwo[n] < Half
    BY <2>1, HalfIsNat
  <2>3. Doubled(n + 1) = Wrap(PowerOfTwo[n] * 2)
    BY <2>1, <2>2, DoubledSteps
  <2>4. PowerOfTwo[n] * 2 = 2 * PowerOfTwo[n]
    BY <2>1
  <2> QED
    BY <2>1, <2>2, <2>3, <2>4, WrapKeeps
<1> HIDE DEF H
<1>3. H \in SUBSET Nat
  BY DEF H
<1>4. H = Nat
  BY <1>1, <1>2, <1>3, InductionOverNat
<1> QED
  BY <1>4 DEF H

\* As long as the product fits, ComputeBackoff is what the policy asks for.
LEMMA BackoffFits ==
  ASSUME NEW p \in Policies, p.delay # NoDuration, p.backoff # "none",
         NEW n \in Nat, Product(p, n) < Half
  PROVE  ComputeBackoff(p, n) = Intended(p, n)
<1> DEFINE d == p.delay
           e == PowerOfTwo[n]
<1>1. d \in Nat /\ p.backoff \in {"constant", "linear", "exponential"}
  BY FailuresAssumption DEF Policies
<1>2. e \in Nat /\ n + 1 <= e
  BY Powers, PowersGrow
<1>3. CASE p.backoff = "constant"
  BY <1>3 DEF ComputeBackoff, Intended, Product
<1>4. CASE p.backoff = "linear"
  <2>1. Product(p, n) = d * (n + 1) /\ d * (n + 1) \in Nat
    BY <1>1, <1>4 DEF Product
  <2> HIDE DEF d
  <2>2. Wrap(d * (n + 1)) = d * (n + 1)
    BY <2>1, WrapKeeps
  <2> QED
    BY <1>4, <2>1, <2>2 DEF ComputeBackoff, Intended, d
<1>5. CASE p.backoff = "exponential"
  <2>1. Product(p, n) = d * e
    BY <1>5 DEF Product
  <2> HIDE DEF d, e
  <2>2. Wrap(d * Doubled(n)) = d * e
    <3>1. CASE d = 0
      <4>1. d * Doubled(n) = 0 /\ d * e = 0
        BY <1>2, <3>1, DoubledSteps
      <4> QED
        BY <4>1, HalfIsNat, WrapKeeps
    <3>2. CASE d # 0
      <4>1. d * e \in Nat /\ e <= d * e
        BY <1>1, <1>2, <3>2
      <4>2. Doubled(n) = e
        BY <1>2, <2>1, <4>1, HalfIsNat, DoubledIsPower DEF e
      <4> QED
        BY <2>1, <4>1, <4>2, WrapKeeps
    <3> QED
      BY <3>1, <3>2
  <2> QED
    BY <1>5, <2>1, <2>2 DEF ComputeBackoff, Intended, d
<1> QED
  BY <1>1, <1>3, <1>4, <1>5

\* The last wait, as the policy and the number of the attempt make it.
WaitInv ==
  /\ policy \in Policies /\ attempt \in Nat
  /\ attempt > 0 => delay = ComputeBackoff(policy, attempt - 1)

\* A wait that fits into a duration is the one the documents promise for its
\* policy, never more than its cap (retry.go:68-106), for any delay, cap, width
\* of a duration and number of attempts.
THEOREM BackoffIsRight == FailuresSpec => []BackoffIsIntended
<1>1. FailuresInit => WaitInv
  BY DEF FailuresInit, WaitInv
<1>2. WaitInv /\ [FailuresNext]_failureVars => WaitInv'
  <2> SUFFICES ASSUME WaitInv, [FailuresNext]_failureVars
               PROVE  WaitInv'
    OBVIOUS
  <2>1. CASE Backoff
    <3>1. (attempt + 1) - 1 = attempt /\ attempt + 1 \in Nat
      BY DEF WaitInv
    <3> QED
      BY <2>1, <3>1 DEF Backoff, WaitInv
  <2>2. CASE UNCHANGED <<policy, attempt, delay>>
    BY <2>2 DEF WaitInv
  <2> QED
    BY <2>1, <2>2 DEF FailuresNext, Attempt, Write, failureVars
<1>3. WaitInv => BackoffIsIntended
  <2> SUFFICES ASSUME WaitInv, Waits, Product(policy, attempt - 1) < Half
               PROVE  delay = Intended(policy, attempt - 1)
    BY DEF BackoffIsIntended
  <2>1. attempt - 1 \in Nat
    BY DEF WaitInv, Waits
  <2> QED
    BY <2>1, BackoffFits DEF WaitInv, Waits
<1> QED
  BY <1>1, <1>2, <1>3, PTL DEF FailuresSpec

-----------------------------------------------------------------------------
(* Report of an attempt. *)

\* What an attempt was told of, and what a command's output is.
ReportInv ==
  /\ \/ outcome = NotRun
     \/ /\ request \in HTTPRequests \cup ShellRequests /\ world \in Worlds
        /\ request.action = "http" => world.stopsAt # "isolation"
        /\ outcome = Execute(request, world)
  /\ written \in Seq(Nat)
  /\ OutputIsPrefix

Cut(s) == SubSeq(s, 1, IF Len(s) > BodyLimit THEN BodyLimit ELSE Len(s))

\* A text under the limit is kept whole ...
LEMMA CutWhole ==
  ASSUME NEW s \in Seq(Nat), Len(s) <= BodyLimit
  PROVE  Cut(s) = s
<1>1. Len(s) \in Nat /\ BodyLimit \in Nat
  BY LenProperties, FailuresAssumption
<1>2. Cut(s) = SubSeq(s, 1, Len(s))
  BY <1>1 DEF Cut
<1> QED
  BY <1>2, SubSeqFull

\* ... and of another one as much as the limit.
LEMMA CutOff ==
  ASSUME NEW s \in Seq(Nat), Len(s) >= BodyLimit
  PROVE  /\ Cut(s) \in Seq(Nat) /\ Len(Cut(s)) = BodyLimit
         /\ \A i \in 1..BodyLimit : Cut(s)[i] = s[i]
<1>1. Len(s) \in Nat /\ BodyLimit \in Nat
  BY LenProperties, FailuresAssumption
<1>2. Cut(s) = SubSeq(s, 1, BodyLimit)
  BY <1>1 DEF Cut
<1> QED
  BY <1>1, <1>2, SubSeqProperties

\* A writer that is full keeps nothing more.
LEMMA KeepNothing ==
  ASSUME NEW w \in Seq(Nat), NEW chunk \in Seq(Nat), Len(w) >= BodyLimit
  PROVE  Keep(Cut(w), chunk) = Cut(w \o chunk)
<1>1. /\ w \o chunk \in Seq(Nat) /\ Len(w \o chunk) = Len(w) + Len(chunk)
      /\ Len(w) \in Nat /\ Len(chunk) \in Nat /\ BodyLimit \in Nat
      /\ \A i \in 1..Len(w) : (w \o chunk)[i] = w[i]
  BY ConcatProperties, LenProperties, FailuresAssumption
<1> DEFINE k == Cut(w)
           all == Cut(w \o chunk)
<1>2. k \in Seq(Nat) /\ Len(k) = BodyLimit /\ \A i \in 1..BodyLimit : k[i] = w[i]
  BY CutOff
<1>3. Len(w \o chunk) >= BodyLimit
  BY <1>1
<1>4. /\ all \in Seq(Nat) /\ Len(all) = BodyLimit
      /\ \A i \in 1..BodyLimit : all[i] = (w \o chunk)[i]
  BY <1>1, <1>3, CutOff
<1> HIDE DEF k, all
<1>5. k = all
  <2>1. ASSUME NEW i \in 1..BodyLimit
        PROVE  k[i] = all[i]
    <3>1. i \in 1..Len(w)
      BY <1>1
    <3>2. k[i] = w[i] /\ all[i] = (w \o chunk)[i]
      BY <1>2, <1>4
    <3> QED
      BY <1>1, <3>1, <3>2
  <2> QED
    BY <1>2, <1>4, <2>1, SeqEqual, Zenon
<1>6. Keep(k, chunk) = k
  BY <1>1, <1>2 DEF Keep
<1> QED
  BY <1>5, <1>6 DEF k, all

\* One that is not keeps as much as there is room for.
LEMMA KeepSome ==
  ASSUME NEW w \in Seq(Nat), NEW chunk \in Seq(Nat), Len(w) < BodyLimit
  PROVE  Keep(w, chunk) = Cut(w \o chunk)
<1> DEFINE remaining == BodyLimit - Len(w)
           room == IF Len(chunk) > remaining THEN remaining ELSE Len(chunk)
           bound == IF Len(w \o chunk) > BodyLimit THEN BodyLimit ELSE Len(w \o chunk)
           all == w \o chunk
           part == SubSeq(chunk, 1, room)
           whole == SubSeq(all, 1, bound)
<1>1. /\ all \in Seq(Nat) /\ Len(all) = Len(w) + Len(chunk)
      /\ Len(w) \in Nat /\ Len(chunk) \in Nat /\ BodyLimit \in Nat
      /\ \A i \in 1..(Len(w) + Len(chunk)) :
           all[i] = IF i <= Len(w) THEN w[i] ELSE chunk[i - Len(w)]
  BY ConcatProperties, LenProperties, FailuresAssumption
<1>2. remaining \in Nat /\ remaining > 0 /\ room \in 0..Len(chunk)
      /\ bound = Len(w) + room
  BY <1>1
<1>3. Keep(w, chunk) = w \o part /\ Cut(w \o chunk) = whole
  BY <1>2, SMTT(30) DEF Keep, Cut
<1> HIDE DEF remaining, room, bound, all
<1>4. part \in Seq(Nat) /\ Len(part) = room /\ \A i \in 1..room : part[i] = chunk[i]
  <2>1. room \in 0..Len(chunk)
    BY <1>2
  <2> QED
    BY <2>1, SubSeqProperties
<1>5. bound \in 0..Len(all)
  BY <1>1, <1>2
<1>6. whole \in Seq(Nat) /\ Len(whole) = bound /\ \A i \in 1..bound : whole[i] = all[i]
  BY <1>1, <1>5, SubSeqProperties
<1> HIDE DEF part, whole
<1>7. /\ w \o part \in Seq(Nat) /\ Len(w \o part) = Len(w) + room
      /\ \A i \in 1..(Len(w) + room) :
           (w \o part)[i] = IF i <= Len(w) THEN w[i] ELSE part[i - Len(w)]
  BY <1>4, ConcatProperties
<1>8. ASSUME NEW i \in 1..bound
      PROVE  (w \o part)[i] = whole[i]
  <2>1. i \in 1..(Len(w) + room) /\ i \in 1..(Len(w) + Len(chunk))
    BY <1>1, <1>2
  <2>2. whole[i] = all[i]
    BY <1>6
  <2>3. CASE i <= Len(w)
    BY <1>1, <1>7, <2>1, <2>2, <2>3
  <2>4. CASE ~(i <= Len(w))
    <3>1. i - Len(w) \in 1..room
      BY <1>1, <1>2, <2>1, <2>4
    <3>2. part[i - Len(w)] = chunk[i - Len(w)]
      BY <1>4, <3>1
    <3> QED
      BY <1>1, <1>7, <2>1, <2>2, <2>4, <3>2
  <2> QED
    BY <2>3, <2>4
<1>9. w \o part = whole
  BY <1>2, <1>6, <1>7, <1>8, SeqEqual, Zenon
<1> QED
  BY <1>3, <1>9

\* Whatever the chunks, limitedWriter (shell.go:268-294) keeps the beginning
\* of what was written.
LEMMA KeptIsPrefix ==
  ASSUME NEW w \in Seq(Nat), NEW chunk \in Seq(Nat)
  PROVE  Keep(Cut(w), chunk) = Cut(w \o chunk)
<1>1. Len(w) \in Nat /\ BodyLimit \in Nat
  BY LenProperties, FailuresAssumption
<1>2. CASE Len(w) < BodyLimit
  BY <1>1, <1>2, CutWhole, KeepSome
<1>3. CASE Len(w) >= BodyLimit
  BY <1>3, KeepNothing
<1> QED
  BY <1>1, <1>2, <1>3

\* The chunk a command writes next.
LEMMA ChunkIsSeq ==
  ASSUME NEW w \in Seq(Nat), NEW n \in Nat
  PROVE  [i \in 1..n |-> Len(w) + i] \in Seq(Nat)
BY LenProperties, IsASeq

\* The inductive invariant of the reports of an attempt.
LEMMA ReportHolds == FailuresSpec => []ReportInv
<1>1. FailuresInit => ReportInv
  <2> SUFFICES ASSUME FailuresInit
               PROVE  ReportInv
    OBVIOUS
  <2>3. written \in Seq(Nat) /\ Len(written) = 0 /\ Len(written) <= BodyLimit
    BY FailuresAssumption, EmptySeq DEF FailuresInit
  <2>4. written = Cut(written)
    BY <2>3, CutWhole
  <2> QED
    BY <2>3, <2>4 DEF FailuresInit, ReportInv, OutputIsPrefix, Cut
<1>2. ReportInv /\ [FailuresNext]_failureVars => ReportInv'
  <2> SUFFICES ASSUME ReportInv, [FailuresNext]_failureVars
               PROVE  ReportInv'
    OBVIOUS
  <2>1. CASE Backoff
    BY <2>1 DEF Backoff, ReportInv, OutputIsPrefix
  <2>2. CASE Attempt
    BY <2>2 DEF Attempt, ReportInv, OutputIsPrefix
  <2>3. CASE Write
    <3>1. PICK n \in Sizes :
            LET chunk == [i \in 1..n |-> Len(written) + i] IN
            /\ written' = written \o chunk
            /\ kept' = Keep(kept, chunk)
      BY <2>3 DEF Write
    <3> DEFINE chunk == [i \in 1..n |-> Len(written) + i]
    <3>2. written \in Seq(Nat) /\ chunk \in Seq(Nat)
      BY FailuresAssumption, ChunkIsSeq DEF ReportInv
    <3>3. written' = written \o chunk /\ kept' = Keep(kept, chunk)
      BY <3>1
    <3> HIDE DEF chunk
    <3>4. OutputIsPrefix'
      BY <3>2, <3>3, KeptIsPrefix DEF ReportInv, OutputIsPrefix, Cut
    <3>5. written' \in Seq(Nat)
      BY <3>2, <3>3, ConcatProperties
    <3> QED
      BY <2>3, <3>4, <3>5 DEF Write, ReportInv
  <2>4. CASE UNCHANGED failureVars
    BY <2>4 DEF failureVars, ReportInv, OutputIsPrefix
  <2> QED
    BY <2>1, <2>2, <2>3, <2>4 DEF FailuresNext
<1> QED
  BY <1>1, <1>2, PTL DEF FailuresSpec

\* The retry policy looks only at what these errors hold.
LEMMA Verdicts ==
  /\ ~IsRetryableError(<<"EXECUTION_ERROR", "canceled">>)
  /\ ~IsRetryableError(<<"ISOLATION_ERROR", "canceled">>)
  /\ IsRetryableError(<<"EXECUTION_ERROR", "deadline">>)
  /\ IsRetryableError(<<"ISOLATION_ERROR", "deadline">>)
  /\ IsRetryableError(<<"EXECUTION_ERROR", "other">>)
  /\ IsRetryableError(<<"ISOLATION_ERROR", "other">>)
  /\ IsRetryableError(<<"EXECUTION_ERROR">>)
  /\ ~IsRetryableError(<<"NON_RETRYABLE">>)
  /\ ~IsRetryableError(<<"VALIDATION_ERROR">>)
  /\ ~IsRetryableError(<<"PATH_DENIED", "PATH_DENIED">>)
<1>1. /\ ~IsRetryableError(<<"EXECUTION_ERROR", "canceled">>)
      /\ ~IsRetryableError(<<"ISOLATION_ERROR", "canceled">>)
  BY DEF IsRetryableError, Has, Outermost, OtherErrors, NonRetryableCodes
<1>2. /\ IsRetryableError(<<"EXECUTION_ERROR", "deadline">>)
      /\ IsRetryableError(<<"ISOLATION_ERROR", "deadline">>)
  BY DEF IsRetryableError, Has, Outermost, OtherErrors, NonRetryableCodes
<1>3. /\ IsRetryableError(<<"EXECUTION_ERROR", "other">>)
      /\ IsRetryableError(<<"ISOLATION_ERROR", "other">>)
      /\ IsRetryableError(<<"EXECUTION_ERROR">>)
  BY DEF IsRetryableError, Has, Outermost, OtherErrors, NonRetryableCodes
<1>4. /\ ~IsRetryableError(<<"NON_RETRYABLE">>)
      /\ ~IsRetryableError(<<"VALIDATION_ERROR">>)
      /\ ~IsRetryableError(<<"PATH_DENIED", "PATH_DENIED">>)
  BY DEF IsRetryableError, Has, Outermost, OtherErrors, NonRetryableCodes
<1> QED
  BY <1>1, <1>2, <1>3, <1>4

\* A hop is refused as soon as the redirects reach the limit.
LEMMA RedirectsReachLimit ==
  ASSUME NEW r \in HTTPRequests \cup ShellRequests, NEW w \in Worlds
  PROVE  TooManyRedirects(r, w) <=> r.follow /\ ~(w.redirects < RedirectLimit(r))
<1> DEFINE hops == w.redirects
           limit == RedirectLimit(r)
<1>0. \A n \in Redirects : n \in Nat
  BY FailuresAssumption
<1>1. hops \in Nat
  <2>1. hops \in Redirects
    BY DEF Worlds
  <2> HIDE DEF hops
  <2> QED
    BY <1>0, <2>1
<1>2. limit \in Nat /\ limit >= 1
  <2> DEFINE m == r.maxRedirects
  <2>1. m \in Nat
    <3>1. m \in Redirects \/ m = 0
      BY DEF HTTPRequests, ShellRequests
    <3> HIDE DEF m
    <3> QED
      BY <1>0, <3>1
  <2>2. limit = IF m > 0 THEN m ELSE 2
    BY DEF RedirectLimit, DefaultRedirects
  <2> HIDE DEF m, limit
  <2> QED
    BY <2>1, <2>2
<1> HIDE DEF hops, limit
<1>3. (\E via \in 1..hops : via >= limit) <=> ~(hops < limit)
  <2>1. CASE hops < limit
    BY <1>1, <1>2, <2>1
  <2>2. CASE ~(hops < limit)
    <3>1. hops \in 1..hops /\ hops >= limit
      BY <1>1, <1>2, <2>2
    <3> QED
      BY <2>2, <3>1
  <2> QED
    BY <2>1, <2>2
<1> QED
  BY <1>3 DEF TooManyRedirects, hops, limit

\* Errors of an attempt that its context, the isolator or the network ended ...
LEMMA StoppedAttempt ==
  ASSUME ReportInv, outcome.kind = "error", world.stopsAt # "end",
         request.valid, ~request.denied
  PROVE  outcome.err \in {<<"EXECUTION_ERROR", ContextErr(world.ctx)>>,
                          <<"ISOLATION_ERROR", ContextErr(world.ctx)>>}
<1>1. /\ outcome = Execute(request, world)
      /\ world.stopsAt \in {"isolation", "request", "body"}
      /\ request.action = "http" => world.stopsAt # "isolation"
  BY DEF ReportInv, NotRun, Worlds
<1>2. CASE request.action = "http"
  BY <1>1, <1>2 DEF Execute, HTTPRequest, Error
<1>3. CASE request.action # "http"
  BY <1>1, <1>3 DEF Execute, ShellExec, Error, Answer
<1> QED
  BY <1>2, <1>3

\* ... of one that ran to its end ...
LEMMA EndedAttempt ==
  ASSUME ReportInv, outcome.kind = "error", world.stopsAt = "end",
         request.valid, ~request.denied
  PROVE  IF TooManyRedirects(request, world)
         THEN outcome.err = <<"EXECUTION_ERROR", ContextErr(world.ctx)>>
         ELSE \/ outcome.err = <<"EXECUTION_ERROR">> /\ world.status # 404
              \/ outcome.err = <<"NON_RETRYABLE">> /\ world.status = 404
<1>1. outcome = Execute(request, world) /\ world.status \in {200, 404, 503}
  BY DEF ReportInv, NotRun, Worlds
<1>2. request.action = "http"
  BY <1>1 DEF Execute, ShellExec, Answer
<1>3. CASE TooManyRedirects(request, world)
  BY <1>1, <1>2, <1>3 DEF Execute, HTTPRequest, Error
<1>4. CASE ~TooManyRedirects(request, world)
  BY <1>1, <1>2, <1>4 DEF Execute, HTTPRequest, Error, Answer
<1> QED
  BY <1>3, <1>4

\* ... and of one that was never begun.
LEMMA RefusedAttempt ==
  ASSUME ReportInv, outcome.kind = "error"
  PROVE  /\ ~request.valid => outcome.err = <<"VALIDATION_ERROR">>
         /\ request.valid /\ request.denied => outcome.err = <<"PATH_DENIED", "PATH_DENIED">>
<1>1. outcome = Execute(request, world) /\ request \in HTTPRequests \cup ShellRequests
  BY DEF ReportInv, NotRun
<1>2. request.denied => request.action # "http"
  BY <1>1 DEF HTTPRequests, ShellRequests
<1> QED
  BY <1>1, <1>2 DEF Execute, HTTPRequest, ShellExec, Error

\* What the executor is told of an attempt is what happened.
THEOREM AttemptsAreTold == FailuresSpec => []AttemptsAreReported
<1>1. ReportInv => CancelledIsNotRetried
  <2> SUFFICES ASSUME ReportInv, world.ctx = "canceled", world.stopsAt # "end",
                      outcome.kind = "error"
               PROVE  ~IsRetryableError(outcome.err)
    BY DEF CancelledIsNotRetried
  <2>1. CASE request.valid /\ ~request.denied
    BY <2>1, StoppedAttempt, Verdicts DEF ContextErr
  <2>2. CASE ~request.valid \/ request.denied
    BY <2>2, RefusedAttempt, Verdicts
  <2> QED
    BY <2>1, <2>2
<1>2. ReportInv => RefusalsAreFinal
  <2> SUFFICES ASSUME ReportInv, request.valid, outcome.kind = "error",
                      world.ctx # "canceled"
               PROVE  IsRetryableError(outcome.err) <=> ~Refused(request, world)
    BY DEF RefusalsAreFinal
  <2>1. world.ctx \in {"live", "deadline"}
    BY DEF ReportInv, NotRun, Worlds
  <2>2. CASE request.denied
    BY <2>2, RefusedAttempt, Verdicts DEF Refused
  <2>3. CASE ~request.denied /\ world.stopsAt # "end"
    BY <2>1, <2>3, StoppedAttempt, Verdicts DEF ContextErr, Refused
  <2>4. CASE ~request.denied /\ world.stopsAt = "end"
    <3>1. TooManyRedirects(request, world)
            <=> request.follow /\ ~(world.redirects < RedirectLimit(request))
      BY RedirectsReachLimit DEF ReportInv, NotRun
    <3> QED
      BY <2>1, <2>4, <3>1, EndedAttempt, Verdicts DEF ContextErr, Refused
  <2> QED
    BY <2>2, <2>3, <2>4
<1>3. ReportInv => AttemptsAreReported
  BY <1>1, <1>2 DEF AttemptsAreReported, ReportInv
<1> QED
  BY <1>3, ReportHolds, PTL

-----------------------------------------------------------------------------
(* Graph of the steps. *)

(* Sequences without a repetition. *)

\* A list is a function of its places.
LEMMA SeqIsFunction ==
  ASSUME NEW S, NEW s \in Seq(S)
  PROVE  /\ Len(s) \in Nat /\ DOMAIN s = 1..Len(s) /\ s \in [1..Len(s) -> S]
         /\ ToSet(s) = {s[i] : i \in 1..Len(s)} /\ ToSet(s) \subseteq S
         /\ s = <<>> <=> Len(s) = 0
         /\ \A x : Contains(s, x) <=> x \in ToSet(s)
<1>1. Len(s) \in Nat /\ DOMAIN s = 1..Len(s) /\ s \in [1..Len(s) -> S]
  BY LenProperties
<1>2. s = <<>> <=> Len(s) = 0
  BY EmptySeq
<1> QED
  BY <1>1, <1>2 DEF ToSet, Contains

\* Two lists without a repetition, of different elements.
LEMMA ConcatOfDistinct ==
  ASSUME NEW S, NEW s \in Seq(S), NEW t \in Seq(S), IsInjective(s), IsInjective(t),
         ToSet(s) \cap ToSet(t) = {}
  PROVE  /\ s \o t \in Seq(S) /\ IsInjective(s \o t)
         /\ ToSet(s \o t) = ToSet(s) \cup ToSet(t)
<1> DEFINE c == s \o t
<1>1. /\ c \in Seq(S) /\ Len(c) = Len(s) + Len(t)
      /\ \A i \in 1..(Len(s) + Len(t)) : c[i] = IF i <= Len(s) THEN s[i] ELSE t[i - Len(s)]
  BY ConcatProperties
<1>2. /\ Len(s) \in Nat /\ DOMAIN s = 1..Len(s) /\ Len(t) \in Nat /\ DOMAIN t = 1..Len(t)
      /\ DOMAIN c = 1..(Len(s) + Len(t))
  BY <1>1, SeqIsFunction
<1> HIDE DEF c
<1>3. \A i \in 1..(Len(s) + Len(t)) : i > Len(s) => i - Len(s) \in 1..Len(t)
  BY <1>2
<1>4. \A i \in 1..(Len(s) + Len(t)) :
        \/ (i <= Len(s) /\ i \in DOMAIN s /\ c[i] = s[i] /\ c[i] \in ToSet(s))
        \/ (i > Len(s) /\ i - Len(s) \in DOMAIN t /\ c[i] = t[i - Len(s)] /\ c[i] \in ToSet(t))
  <2>1. ASSUME NEW i \in 1..(Len(s) + Len(t)), i <= Len(s)
        PROVE  i \in DOMAIN s /\ c[i] = s[i] /\ c[i] \in ToSet(s)
    BY <1>1, <1>2, <2>1 DEF ToSet
  <2>2. ASSUME NEW i \in 1..(Len(s) + Len(t)), ~(i <= Len(s))
        PROVE  i - Len(s) \in DOMAIN t /\ c[i] = t[i - Len(s)] /\ c[i] \in ToSet(t)
    <3>1. i > Len(s)
      BY <1>2, <2>2
    <3>2. i - Len(s) \in DOMAIN t /\ c[i] = t[i - Len(s)]
      BY <1>1, <1>2, <1>3, <2>2, <3>1
    <3> QED
      BY <3>2 DEF ToSet
  <2>3. \A i \in 1..(Len(s) + Len(t)) : i <= Len(s) \/ (~(i <= Len(s)) /\ i > Len(s))
    BY <1>2
  <2> QED
    BY <2>1, <2>2, <2>3
<1>5. ASSUME NEW i \in DOMAIN c, NEW j \in DOMAIN c, c[i] = c[j]
      PROVE  i = j
  <2>1. CASE i <= Len(s)
    <3>1. j <= Len(s) /\ s[i] = s[j] /\ i \in DOMAIN s /\ j \in DOMAIN s
      BY <1>2, <1>4, <1>5, <2>1
    <3> QED
      BY <3>1 DEF IsInjective
  <2>2. CASE ~(i <= Len(s))
    <3>1. /\ t[i - Len(s)] = t[j - Len(s)]
          /\ i - Len(s) \in DOMAIN t /\ j - Len(s) \in DOMAIN t
      BY <1>2, <1>4, <1>5, <2>2
    <3>2. i - Len(s) = j - Len(s)
      BY <3>1 DEF IsInjective
    <3> QED
      BY <1>2, <3>2
  <2> QED
    BY <2>1, <2>2
<1>6. ToSet(c) \subseteq ToSet(s) \cup ToSet(t)
  BY <1>2, <1>4 DEF ToSet
<1>7. ToSet(s) \subseteq ToSet(c)
  <2>1. \A i \in DOMAIN s : i \in DOMAIN c /\ c[i] = s[i]
    BY <1>1, <1>2
  <2> QED
    BY <2>1 DEF ToSet
<1>8. ToSet(t) \subseteq ToSet(c)
  <2>1. ASSUME NEW i \in DOMAIN t
        PROVE  i + Len(s) \in DOMAIN c /\ c[i + Len(s)] = t[i]
    <3>1. i + Len(s) \in 1..(Len(s) + Len(t)) /\ ~(i + Len(s) <= Len(s)) /\ (i + Len(s)) - Len(s) = i
      BY <1>2
    <3> QED
      BY <1>1, <1>2, <3>1
  <2> QED
    BY <2>1 DEF ToSet
<1> QED
  BY <1>1, <1>5, <1>6, <1>7, <1>8 DEF IsInjective, c

\* The head of a queue leaves it once.
LEMMA TailOfDistinct ==
  ASSUME NEW S, NEW s \in Seq(S), s # <<>>, IsInjective(s)
  PROVE  /\ Head(s) \in ToSet(s) /\ Tail(s) \in Seq(S) /\ IsInjective(Tail(s))
         /\ ToSet(Tail(s)) = ToSet(s) \ {Head(s)}
<1> DEFINE t == Tail(s)
<1>1. /\ t \in Seq(S) /\ Len(t) = Len(s) - 1 /\ \A i \in 1..Len(t) : t[i] = s[i + 1]
  BY HeadTailProperties
<1>2. /\ Len(s) \in Nat /\ Len(s) # 0 /\ DOMAIN s = 1..Len(s) /\ DOMAIN t = 1..(Len(s) - 1)
  BY <1>1, SeqIsFunction
<1>3. Head(s) = s[1]
  OBVIOUS
<1> HIDE DEF t
<1>4. \A i \in DOMAIN t : i + 1 \in DOMAIN s /\ t[i] = s[i + 1] /\ i + 1 # 1 /\ i \in Nat
  BY <1>1, <1>2
<1>5. IsInjective(t)
  <2>1. ASSUME NEW i \in DOMAIN t, NEW j \in DOMAIN t, t[i] = t[j]
        PROVE  i = j
    <3>1. i + 1 = j + 1
      BY <1>4, <2>1 DEF IsInjective
    <3> QED
      BY <1>4, <3>1
  <2> QED
    BY <2>1 DEF IsInjective
<1>6. 1 \in DOMAIN s
  BY <1>2
<1>7. ToSet(t) \subseteq ToSet(s) \ {s[1]}
  <2>1. ASSUME NEW i \in DOMAIN t
        PROVE  t[i] \in ToSet(s) /\ t[i] # s[1]
    BY <1>4, <1>6 DEF ToSet, IsInjective
  <2> QED
    BY <2>1 DEF ToSet
<1>8. ToSet(s) \ {s[1]} \subseteq ToSet(t)
  <2>1. ASSUME NEW i \in DOMAIN s, i # 1
        PROVE  s[i] \in ToSet(t)
    <3>1. i - 1 \in DOMAIN t /\ (i - 1) + 1 = i
      BY <1>2, <2>1
    <3>2. t[i - 1] = s[i]
      BY <1>4, <3>1
    <3> QED
      BY <3>1, <3>2 DEF ToSet
  <2> QED
    BY <2>1 DEF ToSet
<1>9. s[1] \in ToSet(s)
  BY <1>6 DEF ToSet
<1> QED
  BY <1>1, <1>3, <1>5, <1>7, <1>8, <1>9 DEF t

\* A new element at the end.
LEMMA AppendOfDistinct ==
  ASSUME NEW S, NEW s \in Seq(S), NEW x \in S, IsInjective(s), x \notin ToSet(s)
  PROVE  /\ Append(s, x) \in Seq(S) /\ IsInjective(Append(s, x))
         /\ ToSet(Append(s, x)) = ToSet(s) \cup {x}
         /\ Len(Append(s, x)) = Len(s) + 1 /\ Append(s, x)[Len(s) + 1] = x
         /\ \A i \in 1..Len(s) : Append(s, x)[i] = s[i]
<1> DEFINE a == Append(s, x)
<1>1. /\ a \in Seq(S) /\ Len(a) = Len(s) + 1 /\ a[Len(s) + 1] = x
      /\ \A i \in 1..Len(s) : a[i] = s[i]
  BY AppendProperties
<1>2. Len(s) \in Nat /\ DOMAIN s = 1..Len(s) /\ DOMAIN a = 1..(Len(s) + 1)
  BY <1>1, SeqIsFunction
<1> HIDE DEF a
<1>3. \A i \in DOMAIN a : (i = Len(s) + 1 /\ a[i] = x) \/ (i \in DOMAIN s /\ a[i] = s[i])
  BY <1>1, <1>2
<1>4. IsInjective(a)
  BY <1>3 DEF IsInjective, ToSet
<1>5. ToSet(a) = ToSet(s) \cup {x}
  <2>1. Len(s) + 1 \in DOMAIN a /\ \A i \in DOMAIN s : i \in DOMAIN a
    BY <1>2
  <2> QED
    BY <1>1, <1>2, <1>3, <2>1 DEF ToSet
<1> QED
  BY <1>1, <1>4, <1>5 DEF a

\* A sequence without a repetition is as long as its elements are many.
LEMMA LengthOfDistinct ==
  ASSUME NEW S, NEW s \in Seq(S), IsInjective(s)
  PROVE  IsFiniteSet(ToSet(s)) /\ Cardinality(ToSet(s)) = Len(s)
<1> DEFINE T == ToSet(s)
<1>1. Len(s) \in Nat /\ DOMAIN s = 1..Len(s) /\ s \in [1..Len(s) -> T] /\ T = {s[i] : i \in 1..Len(s)}
  BY SeqIsFunction
<1> HIDE DEF T
<1>2. IsFiniteSet(1..Len(s)) /\ Cardinality(1..Len(s)) = Len(s)
  <2>1. 1 \in Int /\ Len(s) \in Int
    BY <1>1
  <2>2. /\ IsFiniteSet(1..Len(s))
        /\ Cardinality(1..Len(s)) = IF 1 > Len(s) THEN 0 ELSE Len(s) - 1 + 1
    BY <2>1, FS_Interval
  <2> QED
    BY <1>1, <2>2
<1>3. s \in Bijection(1..Len(s), T)
  BY <1>1 DEF Bijection, Injection, Surjection, IsInjective
<1>4. ExistsBijection(1..Len(s), T)
  BY <1>3 DEF ExistsBijection
<1>5. IsFiniteSet(T) /\ Cardinality(T) = Cardinality(1..Len(s))
  BY <1>2, <1>4, FS_Bijection
<1> QED
  BY <1>2, <1>5 DEF T

\* sortStrings keeps what it sorts.
LEMMA OrderKeepsAll ==
  ASSUME NEW S \in SUBSET Int, IsFiniteSet(S)
  PROVE  InOrder(S) \in Seq(S) /\ IsInjective(InOrder(S)) /\ ToSet(InOrder(S)) = S
<1> DEFINE n == Cardinality(S)
           below(x) == {y \in S : y < x}
           rank == [x \in S |-> Cardinality(below(x)) + 1]
<1>1. n \in Nat
  BY FS_CardinalityType
<1>2. \A x \in S : IsFiniteSet(below(x)) /\ Cardinality(below(x)) \in Nat
  BY FS_Subset, FS_CardinalityType
<1>3. \A x, y \in S : x < y => Cardinality(below(x)) < Cardinality(below(y))
  <2> SUFFICES ASSUME NEW x \in S, NEW y \in S, x < y
               PROVE  Cardinality(below(x)) < Cardinality(below(y))
    OBVIOUS
  <2>1. below(x) \in SUBSET below(y) /\ below(y) # below(x)
    <3>1. x \in below(y) /\ x \notin below(x)
      OBVIOUS
    <3>2. \A z \in below(x) : z \in below(y)
      OBVIOUS
    <3> QED
      BY <3>1, <3>2
  <2>2. IsFiniteSet(below(y)) /\ Cardinality(below(x)) \in Nat /\ Cardinality(below(y)) \in Nat
    BY <1>2
  <2> HIDE DEF below
  <2>3. /\ Cardinality(below(x)) <= Cardinality(below(y))
        /\ Cardinality(below(y)) = Cardinality(below(x)) => below(y) = below(x)
    BY <2>1, <2>2, FS_Subset
  <2> QED
    BY <2>1, <2>2, <2>3
<1>4. \A x \in S : Cardinality(below(x)) < n
  <2> SUFFICES ASSUME NEW x \in S
               PROVE  Cardinality(below(x)) < n
    OBVIOUS
  <2>1. below(x) \in SUBSET S /\ S # below(x) /\ Cardinality(below(x)) \in Nat
    BY <1>2
  <2> HIDE DEF below
  <2>2. Cardinality(below(x)) <= Cardinality(S) /\ (Cardinality(S) = Cardinality(below(x)) => S = below(x))
    BY <2>1, FS_Subset
  <2> QED
    BY <1>1, <2>1, <2>2
<1> HIDE DEF below, n
<1>5. rank \in [S -> 1..n] /\ \A x, y \in S : rank[x] = rank[y] => x = y
  <2>1. \A x \in S : rank[x] \in 1..n
    BY <1>1, <1>2, <1>4
  <2>2. ASSUME NEW x \in S, NEW y \in S, rank[x] = rank[y]
        PROVE  x = y
    <3>1. Cardinality(below(x)) = Cardinality(below(y))
      BY <1>2, <2>2
    <3>2. ~(x < y) /\ ~(y < x)
      BY <1>2, <1>3, <3>1
    <3> QED
      BY <3>2
  <2> QED
    BY <2>1, <2>2
<1> HIDE DEF rank
<1>6. rank \in Injection(S, 1..n)
  BY <1>5 DEF Injection, IsInjective
<1>7. IsFiniteSet(1..n) /\ Cardinality(1..n) = n
  BY <1>1, FS_Interval
<1>8. rank \in Surjection(S, 1..n)
  BY <1>6, <1>7, FS_Injection DEF n
<1>9. \A k \in 1..n : \E x \in S : rank[x] = k
  BY <1>8 DEF Surjection
<1> DEFINE f == InOrder(S)
<1>10. \A k \in 1..n : f[k] \in S /\ rank[f[k]] = k
  <2> SUFFICES ASSUME NEW k \in 1..n
               PROVE  f[k] \in S /\ rank[f[k]] = k
    OBVIOUS
  <2>1. f[k] = CHOOSE x \in S : Cardinality(below(x)) = k - 1
    BY DEF InOrder, below, n
  <2>2. \A x \in S : rank[x] = k <=> Cardinality(below(x)) = k - 1
    BY <1>2 DEF rank
  <2>3. \E x \in S : Cardinality(below(x)) = k - 1
    BY <1>9, <2>2
  <2>4. f[k] \in S /\ Cardinality(below(f[k])) = k - 1
    BY <2>1, <2>3
  <2> QED
    BY <2>2, <2>4
<1>11. DOMAIN f = 1..n /\ f = [k \in 1..n |-> f[k]]
  BY SMTT(30) DEF InOrder, n
<1> HIDE DEF f
<1>12. f \in [1..n -> S]
  BY <1>10, <1>11
<1>13. f \in Seq(S)
  BY <1>1, <1>12, IsASeq
<1>14. IsInjective(f)
  BY <1>10, <1>11 DEF IsInjective
<1>15. S \subseteq ToSet(f)
  <2>1. ASSUME NEW x \in S
        PROVE  f[rank[x]] = x /\ rank[x] \in DOMAIN f
    BY <1>5, <1>10, <1>11
  <2> QED
    BY <2>1 DEF ToSet
<1>16. ToSet(f) \subseteq S
  BY <1>10, <1>11 DEF ToSet
<1> QED
  BY <1>13, <1>14, <1>15, <1>16 DEF f

-----------------------------------------------------------------------------
(* Graphs, and what a step waits for. *)

\* The lists of n steps, without a repetition.
IsGraph(d, n) ==
  /\ n \in Nat /\ d \in [1..n -> Seq(1..n)]
  /\ \A i \in 1..n : IsInjective(d[i])

\* What a graph of n steps is made of.
LEMMA GraphFacts ==
  ASSUME NEW n, NEW d, IsGraph(d, n)
  PROVE  /\ n \in Nat /\ DOMAIN d = 1..n /\ Len(d) = n
         /\ IsFiniteSet(1..n) /\ Cardinality(1..n) = n
         /\ \A i \in 1..n :
              /\ d[i] \in Seq(1..n) /\ IsInjective(d[i]) /\ ToSet(d[i]) \subseteq 1..n
              /\ IsFiniteSet(ToSet(d[i])) /\ Cardinality(ToSet(d[i])) = Len(d[i])
         /\ \A i : Dependents(d, i) = {j \in 1..n : i \in ToSet(d[j])}
<1>1. n \in Nat /\ DOMAIN d = 1..n
  BY DEF IsGraph
<1>2. d \in Seq(Seq(1..n)) /\ Len(d) = n
  <2> DEFINE E == Seq(1..n)
  <2>1. d \in [1..n -> E]
    BY DEF IsGraph
  <2> HIDE DEF E
  <2>2. d \in Seq(E)
    BY <1>1, <2>1, IsASeq
  <2>3. DOMAIN d = 1..Len(d) /\ Len(d) \in Nat
    BY <2>2, SeqIsFunction
  <2>4. Len(d) = n
    BY <1>1, <2>3
  <2> QED
    BY <2>2, <2>4 DEF E
<1>3. IsFiniteSet(1..n) /\ Cardinality(1..n) = n
  <2>1. 1 \in Int /\ n \in Int
    BY <1>1
  <2>2. IsFiniteSet(1..n) /\ Cardinality(1..n) = IF 1 > n THEN 0 ELSE n - 1 + 1
    BY <2>1, FS_Interval
  <2> QED
    BY <1>1, <2>2
<1>4. ASSUME NEW i \in 1..n
      PROVE  /\ d[i] \in Seq(1..n) /\ IsInjective(d[i]) /\ ToSet(d[i]) \subseteq 1..n
             /\ IsFiniteSet(ToSet(d[i])) /\ Cardinality(ToSet(d[i])) = Len(d[i])
  <2>1. d[i] \in Seq(1..n) /\ IsInjective(d[i])
    BY DEF IsGraph
  <2> DEFINE s == d[i]
             S == 1..n
  <2>2. s \in Seq(S) /\ IsInjective(s)
    BY <2>1
  <2> HIDE DEF s, S
  <2>3. ToSet(s) \subseteq S /\ IsFiniteSet(ToSet(s)) /\ Cardinality(ToSet(s)) = Len(s)
    BY <2>2, SeqIsFunction, LengthOfDistinct
  <2> QED
    BY <2>1, <2>3 DEF s, S
<1>5. ASSUME NEW i
      PROVE  Dependents(d, i) = {j \in 1..n : i \in ToSet(d[j])}
  <2>1. \A j \in 1..n : Contains(d[j], i) <=> i \in ToSet(d[j])
    BY <1>4, SeqIsFunction
  <2> QED
    BY <1>1, <2>1 DEF Dependents
<1> QED
  BY <1>1, <1>2, <1>3, <1>4, <1>5

\* Every dependency is waited for, what it waits for too, and nothing else.
LEMMA WaitsForDependencies ==
  ASSUME NEW n, NEW d, IsGraph(d, n), NEW i \in 1..n
  PROVE  /\ ToSet(d[i]) \subseteq WaitsFor(d, i) /\ WaitsFor(d, i) \subseteq 1..n
         /\ \A j \in WaitsFor(d, i) : WaitsFor(d, j) \subseteq WaitsFor(d, i)
         /\ \A C \in SUBSET (1..n) :
              (\A c \in C \cup {i} : ToSet(d[c]) \subseteq C) => WaitsFor(d, i) \subseteq C
<1>0. DOMAIN d = 1..n /\ ToSet(d[i]) \subseteq 1..n
  BY GraphFacts
<1>1. ToSet(d[i]) \subseteq WaitsFor(d, i)
  BY <1>0 DEF WaitsFor
<1>2. WaitsFor(d, i) \subseteq 1..n
  BY <1>0 DEF WaitsFor
<1>3. ASSUME NEW j \in WaitsFor(d, i), NEW k \in WaitsFor(d, j)
      PROVE  k \in WaitsFor(d, i)
  <2>1. ASSUME NEW C \in SUBSET DOMAIN d, \A c \in C \cup {i} : ToSet(d[c]) \subseteq C
        PROVE  k \in C
    <3>1. j \in C
      BY <2>1 DEF WaitsFor
    <3>2. \A c \in C \cup {j} : ToSet(d[c]) \subseteq C
      BY <2>1, <3>1
    <3> QED
      BY <3>2 DEF WaitsFor
  <2>2. k \in DOMAIN d
    BY DEF WaitsFor
  <2> QED
    BY <2>1, <2>2 DEF WaitsFor
<1>4. ASSUME NEW C \in SUBSET (1..n), \A c \in C \cup {i} : ToSet(d[c]) \subseteq C
      PROVE  WaitsFor(d, i) \subseteq C
  BY <1>0, <1>4 DEF WaitsFor
<1> QED
  BY <1>1, <1>2, <1>3, <1>4

\* Steps each of which depends on one of them wait for themselves.
LEMMA DependentStepsCycle ==
  ASSUME NEW n, NEW d, IsGraph(d, n), NEW U \in SUBSET (1..n), U # {},
         \A i \in U : ToSet(d[i]) \cap U # {}
  PROVE  Cyclic(d)
<1> SUFFICES ASSUME ~Cyclic(d)
             PROVE  FALSE
  OBVIOUS
<1> DEFINE R == {p \in U \X U : p[2] \in WaitsFor(d, p[1])}
<1>1. \A x, y \in U : <<x, y>> \in R <=> y \in WaitsFor(d, x)
  OBVIOUS
<1> HIDE DEF R
<1>2. IsFiniteSet(U) /\ DOMAIN d = 1..n
  BY GraphFacts, FS_Subset
<1>3. \A x \in U : <<x, x>> \notin R
  BY <1>1, <1>2 DEF Cyclic
<1>4. \A x, y, z \in U : <<x, y>> \in R /\ <<y, z>> \in R => <<x, z>> \in R
  <2> SUFFICES ASSUME NEW x \in U, NEW y \in U, NEW z \in U, <<x, y>> \in R, <<y, z>> \in R
               PROVE  <<x, z>> \in R
    OBVIOUS
  <2>1. y \in WaitsFor(d, x) /\ z \in WaitsFor(d, y) /\ x \in 1..n
    BY <1>1
  <2>2. z \in WaitsFor(d, x)
    BY <2>1, WaitsForDependencies
  <2> QED
    BY <1>1, <2>2
<1>5. PICK x \in U : \A y \in U : <<x, y>> \notin R
  BY <1>2, <1>3, <1>4, MaximalElement
<1>6. PICK y \in U : y \in ToSet(d[x])
  OBVIOUS
<1>7. y \in WaitsFor(d, x)
  BY <1>6, WaitsForDependencies
<1> QED
  BY <1>1, <1>5, <1>7

-----------------------------------------------------------------------------
(* Kahn's algorithm. *)

\* Every step after the steps it depends on.
InWaitOrder(d, n, sorted) ==
  /\ sorted \in Seq(1..n) /\ IsInjective(sorted)
  /\ \A p \in 1..Len(sorted) : ToSet(d[sorted[p]]) \subseteq {sorted[q] : q \in 1..(p - 1)}

Runs(n) == [queue : Seq(1..n), pending : [1..n -> Int], sorted : Seq(1..n)]

\* The queue has the steps that wait for nothing more, but what is sorted.
KahnInv(d, n, s) ==
  /\ s \in Runs(n) /\ IsInjective(s.queue) /\ InWaitOrder(d, n, s.sorted)
  /\ ToSet(s.queue) \cap ToSet(s.sorted) = {}
  /\ \A i \in 1..n : s.pending[i] = Cardinality(ToSet(d[i]) \ ToSet(s.sorted))
  /\ ToSet(s.queue) \cup ToSet(s.sorted) = {i \in 1..n : s.pending[i] = 0}

KahnStart(d) ==
  [queue |-> InOrder({i \in DOMAIN d : Len(d[i]) = 0}),
   pending |-> [i \in DOMAIN d |-> Len(d[i])], sorted |-> <<>>]

\* The queue begins with the steps that wait for none.
LEMMA KahnStarts ==
  ASSUME NEW n, NEW d, IsGraph(d, n)
  PROVE  KahnInv(d, n, KahnStart(d)) /\ KahnStart(d).sorted = <<>>
<1> DEFINE roots == {i \in DOMAIN d : Len(d[i]) = 0}
           s == KahnStart(d)
<1>1. /\ n \in Nat /\ DOMAIN d = 1..n /\ IsFiniteSet(1..n)
      /\ \A i \in 1..n : Cardinality(ToSet(d[i])) = Len(d[i]) /\ Len(d[i]) \in Nat
  BY GraphFacts, SeqIsFunction
<1>2. roots \in SUBSET (1..n) /\ roots \in SUBSET Int /\ IsFiniteSet(roots)
  BY <1>1, FS_Subset
<1>3. /\ s.queue = InOrder(roots) /\ s.pending = [i \in 1..n |-> Len(d[i])] /\ s.sorted = <<>>
      /\ s = [queue |-> s.queue, pending |-> s.pending, sorted |-> s.sorted]
  BY <1>1 DEF KahnStart
<1> HIDE DEF s
<1>4. InOrder(roots) \in Seq(roots) /\ IsInjective(InOrder(roots)) /\ ToSet(InOrder(roots)) = roots
  BY <1>2, OrderKeepsAll
<1>5. \A i \in 1..n : i \in roots <=> s.pending[i] = 0
  BY <1>1, <1>3
<1> HIDE DEF roots
<1>6. InOrder(roots) \in Seq(1..n)
  <2> DEFINE N == 1..n
  <2>1. roots \subseteq N
    BY <1>2
  <2> HIDE DEF N
  <2>2. Seq(roots) \subseteq Seq(N)
    BY <2>1
  <2> QED
    BY <1>4, <2>2 DEF N
<1>7. /\ <<>> \in Seq(1..n) /\ IsInjective(<<>>) /\ ToSet(<<>>) = {}
      /\ Len(<<>>) = 0
  BY DEF IsInjective, ToSet
<1>8. InWaitOrder(d, n, <<>>)
  BY <1>7 DEF InWaitOrder
<1>9. s \in Runs(n)
  <2>1. [i \in 1..n |-> Len(d[i])] \in [1..n -> Int]
    BY <1>1
  <2>2. s.queue \in Seq(1..n) /\ s.pending \in [1..n -> Int] /\ s.sorted \in Seq(1..n)
    BY <1>3, <1>6, <1>7, <2>1
  <2> QED
    BY <1>3, <2>2 DEF Runs
<1>10. \A i \in 1..n : s.pending[i] = Cardinality(ToSet(d[i]) \ ToSet(s.sorted))
  BY <1>1, <1>3, <1>7
<1>11. ToSet(s.queue) \cup ToSet(s.sorted) = {i \in 1..n : s.pending[i] = 0}
  BY <1>2, <1>3, <1>4, <1>5, <1>7
<1> QED
  BY <1>3, <1>4, <1>7, <1>8, <1>9, <1>10, <1>11 DEF KahnInv, s

\* A turn of the queue (dag.go:121-138) sorts its head and queues what waits
\* for no other.
LEMMA TurnKeeps ==
  ASSUME NEW n, NEW d, IsGraph(d, n), NEW s, KahnInv(d, n, s)
  PROVE  /\ KahnInv(d, n, Turn(d, s))
         /\ Turn(d, s).sorted \in Seq(1..n)
         /\ s.queue # <<>> => Len(Turn(d, s).sorted) = Len(s.sorted) + 1
         /\ s.queue = <<>> => Turn(d, s) = s
<1>1. CASE s.queue = <<>>
  <2>1. Turn(d, s) = s
    BY <1>1 DEF Turn
  <2> QED
    BY <1>1, <2>1 DEF KahnInv, Runs
<1>2. CASE s.queue # <<>>
  <2> DEFINE m == Head(s.queue)
             pending == [i \in 1..n |-> s.pending[i] - (IF i \in Dependents(d, m) THEN 1 ELSE 0)]
             fresh == {i \in Dependents(d, m) : pending[i] = 0}
             t == Turn(d, s)
  <2>1. /\ s.queue \in Seq(1..n) /\ s.sorted \in Seq(1..n) /\ s.pending \in [1..n -> Int]
        /\ IsInjective(s.queue) /\ IsInjective(s.sorted)
    BY DEF KahnInv, Runs, InWaitOrder
  <2>2. /\ n \in Nat /\ DOMAIN d = 1..n /\ IsFiniteSet(1..n)
        /\ \A i \in 1..n : IsFiniteSet(ToSet(d[i])) /\ ToSet(d[i]) \subseteq 1..n
        /\ Dependents(d, m) = {i \in 1..n : m \in ToSet(d[i])}
    BY GraphFacts
  <2>3. /\ t.queue = Tail(s.queue) \o InOrder(fresh) /\ t.pending = pending
        /\ t.sorted = Append(s.sorted, m)
        /\ t = [queue |-> t.queue, pending |-> t.pending, sorted |-> t.sorted]
    BY <1>2, <2>2 DEF Turn, Dequeue
  <2> HIDE DEF t
  <2>4. /\ m \in ToSet(s.queue) /\ Tail(s.queue) \in Seq(1..n) /\ IsInjective(Tail(s.queue))
        /\ ToSet(Tail(s.queue)) = ToSet(s.queue) \ {m}
    <3> DEFINE q == s.queue
               N == 1..n
    <3>1. q \in Seq(N) /\ q # <<>> /\ IsInjective(q)
      BY <1>2, <2>1
    <3> HIDE DEF q, N
    <3>2. /\ Head(q) \in ToSet(q) /\ Tail(q) \in Seq(N) /\ IsInjective(Tail(q))
          /\ ToSet(Tail(q)) = ToSet(q) \ {Head(q)}
      BY <3>1, TailOfDistinct
    <3> QED
      BY <3>2 DEF q, N
  <2>5. m \in 1..n /\ m \notin ToSet(s.sorted) /\ s.pending[m] = 0
    BY <2>4 DEF KahnInv
  <2> HIDE DEF m
  <2>6. ToSet(d[m]) \subseteq ToSet(s.sorted)
    <3>1. Cardinality(ToSet(d[m]) \ ToSet(s.sorted)) = 0
      BY <2>5 DEF KahnInv
    <3>2. IsFiniteSet(ToSet(d[m]) \ ToSet(s.sorted))
      BY <2>2, <2>5, FS_Difference
    <3>3. ToSet(d[m]) \ ToSet(s.sorted) = {}
      BY <3>1, <3>2, FS_EmptySet
    <3> QED
      BY <3>3
  <2>7. /\ t.sorted \in Seq(1..n) /\ IsInjective(t.sorted) /\ Len(t.sorted) = Len(s.sorted) + 1
        /\ ToSet(t.sorted) = ToSet(s.sorted) \cup {m}
        /\ t.sorted[Len(s.sorted) + 1] = m /\ \A i \in 1..Len(s.sorted) : t.sorted[i] = s.sorted[i]
    <3> DEFINE q == s.sorted
               N == 1..n
    <3>1. q \in Seq(N) /\ IsInjective(q) /\ m \in N /\ m \notin ToSet(q)
      BY <2>1, <2>5
    <3> HIDE DEF q, N
    <3>2. /\ Append(q, m) \in Seq(N) /\ IsInjective(Append(q, m))
          /\ ToSet(Append(q, m)) = ToSet(q) \cup {m}
          /\ Len(Append(q, m)) = Len(q) + 1 /\ Append(q, m)[Len(q) + 1] = m
          /\ \A i \in 1..Len(q) : Append(q, m)[i] = q[i]
      BY <3>1, AppendOfDistinct
    <3> QED
      BY <2>3, <3>2 DEF q, N
  <2>8. InWaitOrder(d, n, t.sorted)
    <3>1. Len(s.sorted) \in Nat /\ ToSet(s.sorted) = {s.sorted[i] : i \in 1..Len(s.sorted)}
      BY <2>1, SeqIsFunction
    <3>2. ASSUME NEW p \in 1..(Len(s.sorted) + 1)
          PROVE  ToSet(d[t.sorted[p]]) \subseteq {t.sorted[q] : q \in 1..(p - 1)}
      <4>1. CASE p = Len(s.sorted) + 1
        <5>1. p - 1 = Len(s.sorted) /\ t.sorted[p] = m
          BY <2>7, <3>1, <4>1
        <5>2. {s.sorted[q] : q \in 1..(p - 1)} = {t.sorted[q] : q \in 1..(p - 1)}
          BY <2>7, <5>1
        <5> QED
          BY <2>6, <3>1, <5>1, <5>2
      <4>2. CASE p # Len(s.sorted) + 1
        <5>1. p \in 1..Len(s.sorted) /\ \A q \in 1..(p - 1) : q \in 1..Len(s.sorted)
          BY <3>1, <4>2
        <5>2. {s.sorted[q] : q \in 1..(p - 1)} = {t.sorted[q] : q \in 1..(p - 1)}
          BY <2>7, <5>1
        <5>3. ToSet(d[s.sorted[p]]) \subseteq {s.sorted[q] : q \in 1..(p - 1)}
          BY <5>1 DEF KahnInv, InWaitOrder
        <5> QED
          BY <2>7, <5>1, <5>2, <5>3
      <4> QED
        BY <4>1, <4>2
    <3> QED
      BY <2>7, <3>2 DEF InWaitOrder
  <2>9. \A i \in 1..n : pending[i] = Cardinality(ToSet(d[i]) \ ToSet(t.sorted))
    <3> SUFFICES ASSUME NEW i \in 1..n
                 PROVE  pending[i] = Cardinality(ToSet(d[i]) \ ToSet(t.sorted))
      OBVIOUS
    <3>1. s.pending[i] = Cardinality(ToSet(d[i]) \ ToSet(s.sorted))
      BY DEF KahnInv
    <3>2. ToSet(d[i]) \ ToSet(t.sorted) = (ToSet(d[i]) \ ToSet(s.sorted)) \ {m}
      BY <2>7
    <3> DEFINE left == ToSet(d[i]) \ ToSet(s.sorted)
    <3>3. IsFiniteSet(left) /\ (m \in left <=> m \in ToSet(d[i]))
      BY <2>2, <2>5, FS_Difference
    <3> HIDE DEF left
    <3>4. Cardinality(left \ {m}) = IF m \in left THEN Cardinality(left) - 1 ELSE Cardinality(left)
      BY <3>3, FS_RemoveElement
    <3>5. Cardinality(left) \in Nat
      BY <3>3, FS_CardinalityType
    <3>6. pending[i] = s.pending[i] - (IF m \in ToSet(d[i]) THEN 1 ELSE 0)
      BY <2>2
    <3>7. s.pending[i] = Cardinality(left) /\ ToSet(d[i]) \ ToSet(t.sorted) = left \ {m}
      BY <3>1, <3>2 DEF left
    <3> HIDE DEF pending
    <3>8. CASE m \in ToSet(d[i])
      <4>1. pending[i] = s.pending[i] - 1
        BY <3>6, <3>8
      <4>2. Cardinality(left \ {m}) = Cardinality(left) - 1
        BY <3>3, <3>4, <3>8
      <4> QED
        BY <3>7, <4>1, <4>2
    <3>9. CASE m \notin ToSet(d[i])
      <4>1. pending[i] = s.pending[i] - 0
        BY <3>6, <3>9
      <4>2. Cardinality(left \ {m}) = Cardinality(left)
        BY <3>3, <3>4, <3>9
      <4>3. s.pending[i] \in Nat
        BY <3>5, <3>7
      <4>4. pending[i] = s.pending[i]
        BY <4>1, <4>3
      <4> QED
        BY <3>7, <4>2, <4>4
    <3> QED
      BY <3>8, <3>9
  <2>10. pending \in [1..n -> Int]
    <3>1. ASSUME NEW i \in 1..n
          PROVE  s.pending[i] - (IF i \in Dependents(d, m) THEN 1 ELSE 0) \in Int
      <4>1. s.pending[i] \in Int
        BY <2>1
      <4>2. s.pending[i] - 1 \in Int /\ s.pending[i] - 0 \in Int
        BY <4>1
      <4> QED
        BY <4>2
    <3> QED
      BY <3>1
  <2>11. fresh \subseteq 1..n /\ fresh \in SUBSET Int /\ IsFiniteSet(fresh)
    <3>1. fresh \in SUBSET (1..n)
      BY <2>2
    <3> HIDE DEF fresh
    <3>2. IsFiniteSet(fresh)
      BY <2>2, <3>1, FS_Subset
    <3> QED
      BY <2>2, <3>1, <3>2
  <2>12. fresh \cap (ToSet(s.queue) \cup ToSet(s.sorted)) = {}
    <3>1. ASSUME NEW i \in fresh
          PROVE  s.pending[i] # 0 /\ i \in 1..n
      BY <2>1, <2>2
    <3> QED
      BY <3>1 DEF KahnInv
  <2>13. \A i \in 1..n : pending[i] = 0 <=> (i \in fresh \/ s.pending[i] = 0)
    <3> SUFFICES ASSUME NEW i \in 1..n
                 PROVE  pending[i] = 0 <=> (i \in fresh \/ s.pending[i] = 0)
      OBVIOUS
    <3>1. CASE i \in Dependents(d, m)
      <4>1. i \in fresh <=> pending[i] = 0
        BY <3>1
      <4>2. s.pending[i] # 0
        <5>1. m \in ToSet(d[i]) \ ToSet(s.sorted) /\ IsFiniteSet(ToSet(d[i]) \ ToSet(s.sorted))
          BY <2>2, <2>5, <3>1, FS_Difference
        <5>2. Cardinality(ToSet(d[i]) \ ToSet(s.sorted)) # 0
          BY <5>1, FS_EmptySet
        <5> QED
          BY <5>2 DEF KahnInv
      <4> QED
        BY <4>1, <4>2
    <3>2. CASE i \notin Dependents(d, m)
      <4>1. pending[i] = s.pending[i] /\ i \notin fresh
        <5>1. s.pending[i] \in Int /\ pending[i] = s.pending[i] - 0
          BY <2>1, <3>2
        <5>2. i \notin fresh
          BY <3>2
        <5> QED
          BY <5>1, <5>2
      <4> QED
        BY <4>1
    <3> QED
      BY <3>1, <3>2
  <2> HIDE DEF fresh, pending
  <2>14. /\ t.queue \in Seq(1..n) /\ IsInjective(t.queue)
         /\ ToSet(t.queue) = (ToSet(s.queue) \ {m}) \cup fresh
    <3> DEFINE N == 1..n
               rest == Tail(s.queue)
    <3>1. /\ InOrder(fresh) \in Seq(fresh) /\ IsInjective(InOrder(fresh))
          /\ ToSet(InOrder(fresh)) = fresh
      BY <2>11, OrderKeepsAll
    <3>2. fresh \subseteq N /\ rest \in Seq(N) /\ IsInjective(rest)
          /\ ToSet(rest) = ToSet(s.queue) \ {m} /\ ToSet(rest) \cap fresh = {}
      BY <2>4, <2>11, <2>12
    <3> HIDE DEF N, rest
    <3>3. InOrder(fresh) \in Seq(N)
      BY <3>1, <3>2
    <3>4. /\ rest \o InOrder(fresh) \in Seq(N) /\ IsInjective(rest \o InOrder(fresh))
          /\ ToSet(rest \o InOrder(fresh)) = ToSet(rest) \cup fresh
      BY <3>1, <3>2, <3>3, ConcatOfDistinct
    <3> QED
      BY <2>3, <3>2, <3>4 DEF N, rest
  <2>15. t \in Runs(n)
    BY <2>3, <2>7, <2>10, <2>14 DEF Runs
  <2>16. ToSet(t.queue) \cap ToSet(t.sorted) = {}
    <3>1. m \notin fresh /\ ToSet(s.queue) \cap ToSet(s.sorted) = {}
      BY <2>4, <2>12 DEF KahnInv
    <3> QED
      BY <2>7, <2>12, <2>14, <3>1
  <2>17. ToSet(t.queue) \cup ToSet(t.sorted) = {i \in 1..n : t.pending[i] = 0}
    <3>1. ToSet(s.queue) \cup ToSet(s.sorted) = {i \in 1..n : s.pending[i] = 0}
      BY DEF KahnInv
    <3>2. {i \in 1..n : t.pending[i] = 0} = {i \in 1..n : s.pending[i] = 0} \cup fresh
      BY <2>3, <2>11, <2>13
    <3> QED
      BY <2>4, <2>7, <2>14, <3>1, <3>2
  <2> QED
    BY <1>2, <2>3, <2>7, <2>8, <2>9, <2>14, <2>15, <2>16, <2>17 DEF KahnInv, t
<1> QED
  BY <1>1, <1>2

\* The loop: it starts with the roots, and each turn is one of the queue's.
KahnRuns(d, run) ==
  /\ run[0] = KahnStart(d)
  /\ \A k \in 1..Len(d) : run[k] = Turn(d, run[k - 1])

\* The turns of the queue, one after another.
LEMMA KahnRunExists ==
  ASSUME NEW n, NEW d, IsGraph(d, n)
  PROVE  \E run : KahnRuns(d, run) /\ Kahn(d) = run[Len(d)]
<1> DEFINE S == {s \in Runs(n) : KahnInv(d, n, s)}
           base == KahnStart(d)
           step == [k \in 1..n |-> [s \in S |-> Turn(d, s)]]
<1>0. n \in Nat /\ Len(d) = n
  BY GraphFacts
<1>1. base \in S
  BY KahnStarts DEF KahnInv
<1>2. \A s \in S : Turn(d, s) \in S
  BY TurnKeeps DEF KahnInv
<1>3. \A k \in 1..n : \A s \in S : step[k][s] = Turn(d, s) /\ step[k][s] \in S
  BY <1>2
<1> HIDE DEF S, base, step
<1>4. \E g : Iterates(g, S, base, step, n)
  <2>1. \A k \in 1..n : \A s \in S : step[k][s] \in S
    BY <1>3
  <2> QED
    BY <1>0, <1>1, <2>1, BoundedRecursion
<1>11. PICK g : /\ g \in [0..n -> S] /\ g[0] = base
                /\ \A k \in 1..n : g[k] = step[k][g[k - 1]]
  BY <1>4 DEF Iterates
<1> DEFINE next(r) == [k \in 0..Len(d) |-> IF k = 0 THEN KahnStart(d) ELSE Turn(d, r[k - 1])]
<1>5. g = next(g)
  <2>1. ASSUME NEW k \in 0..n
        PROVE  g[k] = IF k = 0 THEN KahnStart(d) ELSE Turn(d, g[k - 1])
    <3>1. CASE k = 0
      BY <1>11, <3>1 DEF base
    <3>2. CASE k # 0
      <4>1. k \in 1..n /\ k - 1 \in 0..n
        BY <1>0, <3>2
      <4> QED
        BY <1>3, <1>11, <3>2, <4>1
    <3> QED
      BY <3>1, <3>2
  <2> QED
    BY <1>0, <1>11, <2>1
<1> DEFINE run == CHOOSE r : r = [k \in 0..Len(d) |->
                     IF k = 0 THEN [queue |-> InOrder({i \in DOMAIN d : [j \in DOMAIN d |-> Len(d[j])][i] = 0}),
                                    pending |-> [j \in DOMAIN d |-> Len(d[j])], sorted |-> <<>>]
                     ELSE Turn(d, r[k - 1])]
<1>6. /\ KahnStart(d) = [queue |-> InOrder({i \in DOMAIN d : [j \in DOMAIN d |-> Len(d[j])][i] = 0}),
                         pending |-> [j \in DOMAIN d |-> Len(d[j])], sorted |-> <<>>]
  <2>1. {i \in DOMAIN d : Len(d[i]) = 0} = {i \in DOMAIN d : [j \in DOMAIN d |-> Len(d[j])][i] = 0}
    OBVIOUS
  <2> QED
    BY <2>1 DEF KahnStart
<1>7. run = CHOOSE r : r = next(r)
  BY <1>6
<1>8. run = next(run)
  <2> HIDE DEF next, run
  <2> QED
    BY <1>5, <1>7
<1>9. Kahn(d) = run[Len(d)]
  BY DEF Kahn
<1> HIDE DEF run
<1>10. KahnRuns(d, run)
  <2>1. 0 \in 0..Len(d) /\ \A k \in 1..Len(d) : k \in 0..Len(d) /\ k # 0
    BY <1>0
  <2> QED
    BY <1>8, <2>1 DEF KahnRuns
<1> QED
  BY <1>9, <1>10

\* What the loop ends with: every step sorted, or no step to go on with.
LEMMA KahnEnds ==
  ASSUME NEW n, NEW d, IsGraph(d, n)
  PROVE  KahnInv(d, n, Kahn(d)) /\ (Kahn(d).queue = <<>> \/ Len(Kahn(d).sorted) = n)
<1>0. n \in Nat /\ Len(d) = n
  BY GraphFacts
<1>1. PICK run : KahnRuns(d, run) /\ Kahn(d) = run[Len(d)]
  BY KahnRunExists
<1> DEFINE Good(k) == KahnInv(d, n, run[k]) /\ (run[k].queue = <<>> \/ Len(run[k].sorted) = k)
           H == {k \in 0..n : Good(k)}
<1>2. 0 \in H
  <2>1. run[0] = KahnStart(d) /\ 0 \in 0..n
    BY <1>0, <1>1 DEF KahnRuns
  <2>2. KahnInv(d, n, run[0]) /\ run[0].sorted = <<>> /\ Len(<<>>) = 0
    BY <2>1, KahnStarts
  <2> QED
    BY <2>1, <2>2
<1>3. ASSUME NEW k \in 1..n, k - 1 \in H
      PROVE  k \in H
  <2>1. KahnInv(d, n, run[k - 1]) /\ (run[k - 1].queue = <<>> \/ Len(run[k - 1].sorted) = k - 1)
    <3>1. Good(k - 1)
      <4> HIDE DEF Good
      <4> QED
        BY <1>3
    <3> QED
      BY <3>1
  <2>2. run[k] = Turn(d, run[k - 1])
    BY <1>0, <1>1, <1>3 DEF KahnRuns
  <2>3. /\ KahnInv(d, n, run[k])
        /\ run[k - 1].queue # <<>> => Len(run[k].sorted) = Len(run[k - 1].sorted) + 1
        /\ run[k - 1].queue = <<>> => run[k] = run[k - 1]
    BY <2>1, <2>2, TurnKeeps, SMTT(30)
  <2>4. run[k].queue = <<>> \/ Len(run[k].sorted) = k
    BY <1>3, <2>1, <2>3
  <2>5. Good(k)
    BY <2>3, <2>4
  <2> HIDE DEF Good
  <2> QED
    BY <1>0, <2>5
<1> HIDE DEF H, Good
<1>4. n \in H
  <2>1. \A k \in 0..n : k \in H
    BY <1>0, <1>2, <1>3, BoundedInduction
  <2> QED
    BY <1>0, <2>1
<1>5. Good(n)
  BY <1>4 DEF H
<1> QED
  BY <1>0, <1>1, <1>5 DEF Good

\* All steps are sorted exactly if none waits for itself.
LEMMA KahnFindsCycles ==
  ASSUME NEW n, NEW d, IsGraph(d, n)
  PROVE  /\ Len(Kahn(d).sorted) # n <=> Cyclic(d)
         /\ InWaitOrder(d, n, Kahn(d).sorted)
         /\ Len(Kahn(d).sorted) = n => ToSet(Kahn(d).sorted) = 1..n
<1> DEFINE s == Kahn(d)
           all == s.sorted
<1>0. /\ n \in Nat /\ Len(d) = n /\ DOMAIN d = 1..n /\ IsFiniteSet(1..n) /\ Cardinality(1..n) = n
      /\ \A i \in 1..n : IsFiniteSet(ToSet(d[i])) /\ ToSet(d[i]) \subseteq 1..n
  BY GraphFacts
<1>1. KahnInv(d, n, s) /\ (s.queue = <<>> \/ Len(all) = n)
  BY KahnEnds
<1>2. InWaitOrder(d, n, all)
  BY <1>1 DEF KahnInv
<1> HIDE DEF s
<1>3. /\ all \in Seq(1..n) /\ Len(all) \in Nat /\ IsInjective(all)
      /\ ToSet(all) \in SUBSET (1..n) /\ ToSet(all) = {all[p] : p \in 1..Len(all)}
      /\ Cardinality(ToSet(all)) = Len(all)
  <2>1. all \in Seq(1..n) /\ IsInjective(all)
    BY <1>2 DEF InWaitOrder
  <2> DEFINE N == 1..n
  <2> HIDE DEF all, N
  <2>2. all \in Seq(N)
    BY <2>1 DEF N
  <2>3. /\ Len(all) \in Nat /\ ToSet(all) \subseteq N /\ ToSet(all) = {all[p] : p \in 1..Len(all)}
        /\ Cardinality(ToSet(all)) = Len(all)
    BY <2>1, <2>2, SeqIsFunction, LengthOfDistinct
  <2> QED
    BY <2>1, <2>3 DEF N
<1>4. Len(all) = n => ToSet(all) = 1..n
  BY <1>0, <1>3, FS_Subset
<1>5. ASSUME Len(all) # n
      PROVE  Cyclic(d)
  <2> DEFINE U == (1..n) \ ToSet(all)
  <2>1. s.queue = <<>> /\ ToSet(<<>>) = {}
    BY <1>1, <1>5 DEF ToSet
  <2>2. U \in SUBSET (1..n) /\ U # {}
    <3>1. ToSet(all) # 1..n
      BY <1>0, <1>3, <1>5
    <3> QED
      BY <1>3, <3>1
  <2>3. ASSUME NEW i \in U
        PROVE  ToSet(d[i]) \cap U # {}
    <3>1. s.pending[i] # 0
      BY <1>1, <2>1 DEF KahnInv
    <3>2. Cardinality(ToSet(d[i]) \ ToSet(all)) # 0
      BY <1>1, <3>1 DEF KahnInv
    <3>3. ToSet(d[i]) \ ToSet(all) # {}
      BY <3>2, FS_EmptySet
    <3> QED
      BY <1>0, <3>3
  <2> HIDE DEF U
  <2> QED
    BY <2>2, <2>3, DependentStepsCycle
<1>6. ASSUME Len(all) = n, Cyclic(d)
      PROVE  FALSE
  <2>1. PICK i \in 1..n : i \in WaitsFor(d, i)
    BY <1>0, <1>6 DEF Cyclic
  <2>2. PICK p \in 1..n : i = all[p]
    BY <1>3, <1>4, <1>6
  <2> DEFINE C == {all[q] : q \in 1..(p - 1)}
  <2>3. C \in SUBSET (1..n)
    <3>1. \A q \in 1..(p - 1) : q \in 1..Len(all)
      BY <1>6
    <3> QED
      BY <1>3, <3>1
  <2>4. \A c \in C \cup {i} : ToSet(d[c]) \subseteq C
    <3>1. ASSUME NEW q \in 1..p
          PROVE  ToSet(d[all[q]]) \subseteq C
      <4>1. q \in 1..Len(all) /\ \A r \in 1..(q - 1) : r \in 1..(p - 1)
        BY <1>6
      <4>2. ToSet(d[all[q]]) \subseteq {all[r] : r \in 1..(q - 1)}
        BY <1>2, <4>1 DEF InWaitOrder
      <4> QED
        BY <4>1, <4>2
    <3>2. p \in 1..p /\ \A q \in 1..(p - 1) : q \in 1..p
      OBVIOUS
    <3> QED
      BY <2>2, <3>1, <3>2
  <2>5. i \in C
    <3> HIDE DEF C
    <3>1. WaitsFor(d, i) \subseteq C
      BY <2>3, <2>4, WaitsForDependencies
    <3> QED
      BY <2>1, <3>1
  <2>6. PICK q \in 1..(p - 1) : all[q] = all[p]
    BY <2>2, <2>5
  <2>7. q \in DOMAIN all /\ p \in DOMAIN all /\ q # p
    <3>1. DOMAIN all = 1..n
      BY <1>3, <1>6, SeqIsFunction
    <3> QED
      BY <1>0, <3>1
  <2> QED
    BY <1>3, <2>6, <2>7 DEF IsInjective
<1> QED
  BY <1>2, <1>4, <1>5, <1>6 DEF s

-----------------------------------------------------------------------------
(* Levels. *)

\* Max is of a finite set that is not empty.
LEMMA GreatestOf ==
  ASSUME NEW T \in SUBSET Int, IsFiniteSet(T), T # {}
  PROVE  Max(T) \in T /\ \A x \in T : x <= Max(T)
<1>1. \E x \in T : \A y \in T : y <= x
  BY GreatestInteger
<1>2. \E x \in T : \A y \in T : x >= y
  BY <1>1
<1>3. Max(T) \in T /\ \A y \in T : Max(T) >= y
  BY <1>2 DEF Max
<1> QED
  BY <1>3

\* A finite set has finitely many images.
LEMMA ImageIsFinite ==
  ASSUME NEW S, IsFiniteSet(S), NEW f, NEW T, T = {f[x] : x \in S}
  PROVE  IsFiniteSet(T)
<1> DEFINE g == [x \in S |-> f[x]]
<1>1. g \in Surjection(S, T)
  BY DEF Surjection
<1> HIDE DEF g
<1> QED
  BY <1>1, FS_Surjection

\* A step is deeper than what it depends on, by one than one of them.
JustBelow(d, depth, i) ==
  /\ \A m \in ToSet(d[i]) : depth[m] < depth[i]
  /\ depth[i] = 0 \/ \E m \in ToSet(d[i]) : depth[m] = depth[i] - 1

SameBut(n, t, before, i) == \A j \in 1..n : j # i => t[j] = before[j]

\* A depth (dag.go:156-165) is one more than the deepest of the dependencies.
LEMMA DeepenedIsBelow ==
  ASSUME NEW n, NEW d, IsGraph(d, n), NEW before \in [1..n -> Nat], NEW i \in 1..n
  PROVE  /\ Deepened(d, before, i) \in [1..n -> Nat]
         /\ SameBut(n, Deepened(d, before, i), before, i)
         /\ i \notin ToSet(d[i]) => JustBelow(d, Deepened(d, before, i), i)
<1> DEFINE deps == ToSet(d[i])
           T == {before[m] : m \in deps}
           M == Max(T \cup {-1})
           t == Deepened(d, before, i)
<1>1. IsFiniteSet(deps) /\ deps \subseteq 1..n
  BY GraphFacts
<1>2. T \subseteq Nat /\ IsFiniteSet(T)
  <2>1. T \subseteq Nat
    BY <1>1
  <2> HIDE DEF deps
  <2> QED
    BY <1>1, <2>1, ImageIsFinite
<1>3. t = [before EXCEPT ![i] = M + 1]
  BY DEF Deepened
<1> HIDE DEF t
<1>4. M \in T \cup {-1} /\ \A x \in T \cup {-1} : x <= M
  <2> DEFINE V == T \cup {-1}
  <2>1. V \in SUBSET Int /\ V # {}
    BY <1>2
  <2>2. IsFiniteSet(V)
    <3> HIDE DEF T
    <3> QED
      BY <1>2, FS_AddElement
  <2> HIDE DEF V
  <2>3. Max(V) \in V /\ \A x \in V : x <= Max(V)
    BY <2>1, <2>2, GreatestOf
  <2> QED
    BY <2>3 DEF V
<1> HIDE DEF M
<1>5. M \in Int /\ M + 1 \in Nat
  <2>1. M \in Nat \/ M = -1
    BY <1>2, <1>4
  <2> QED
    BY <2>1
<1>6. t \in [1..n -> Nat] /\ t[i] = M + 1 /\ \A j \in 1..n : j # i => t[j] = before[j]
  BY <1>3, <1>5
<1>7. ASSUME i \notin deps
      PROVE  JustBelow(d, t, i)
  <2>1. \A m \in deps : t[m] = before[m] /\ before[m] \in T /\ before[m] \in Nat
    BY <1>1, <1>6, <1>7
  <2>2. \A m \in deps : t[m] < t[i]
    <3> SUFFICES ASSUME NEW m \in deps
                 PROVE  t[m] < t[i]
      OBVIOUS
    <3>1. before[m] <= M /\ t[m] = before[m] /\ before[m] \in Nat
      BY <1>4, <2>1
    <3> QED
      BY <1>5, <1>6, <3>1
  <2>3. t[i] = 0 \/ \E m \in deps : t[m] = t[i] - 1
    <3>1. CASE M = -1
      BY <1>6, <3>1
    <3>2. CASE M # -1
      <4>1. PICK m \in deps : M = before[m]
        BY <1>4, <3>2
      <4>2. t[m] = M /\ t[i] - 1 = M
        BY <1>5, <1>6, <2>1, <4>1
      <4> QED
        BY <4>2
    <3> QED
      BY <3>1, <3>2
  <2> QED
    BY <2>2, <2>3 DEF JustBelow
<1> QED
  BY <1>6, <1>7 DEF t, SameBut

\* The depths, one after another in the order sorted.
LEMMA DepthRunExists ==
  ASSUME NEW n, NEW d, IsGraph(d, n), NEW sorted \in Seq(1..n)
  PROVE  \E run : /\ run[0] = [i \in 1..n |-> 0] /\ Depth(d, sorted) = run[Len(sorted)]
                  /\ \A k \in 1..Len(sorted) : run[k] = Deepened(d, run[k - 1], sorted[k])
<1> DEFINE S == [1..n -> Nat]
           m == Len(sorted)
           base == [i \in DOMAIN d |-> 0]
           step == [k \in 1..m |-> [t \in S |-> Deepened(d, t, sorted[k])]]
<1>0. n \in Nat /\ DOMAIN d = 1..n /\ m \in Nat /\ \A k \in 1..m : sorted[k] \in 1..n
  BY GraphFacts, SeqIsFunction
<1>1. base \in S
  BY <1>0
<1>2. \A k \in 1..m : \A t \in S : Deepened(d, t, sorted[k]) \in S
  BY <1>0, DeepenedIsBelow
<1>3. \A k \in 1..m : \A t \in S : step[k][t] = Deepened(d, t, sorted[k])
  OBVIOUS
<1> HIDE DEF S, base, step, m
<1>4. \E g : Iterates(g, S, base, step, m)
  <2>1. \A k \in 1..m : \A t \in S : step[k][t] \in S
    BY <1>2, <1>3
  <2> QED
    BY <1>0, <1>1, <2>1, BoundedRecursion
<1>5. PICK g : /\ g \in [0..m -> S] /\ g[0] = base
               /\ \A k \in 1..m : g[k] = step[k][g[k - 1]]
  BY <1>4 DEF Iterates
<1> DEFINE next(r) == [k \in 0..m |-> IF k = 0 THEN base ELSE Deepened(d, r[k - 1], sorted[k])]
<1>6. g = next(g)
  <2>1. ASSUME NEW k \in 0..m
        PROVE  g[k] = IF k = 0 THEN base ELSE Deepened(d, g[k - 1], sorted[k])
    <3>1. CASE k = 0
      BY <1>5, <3>1
    <3>2. CASE k # 0
      <4>1. k \in 1..m /\ k - 1 \in 0..m
        BY <1>0, <3>2
      <4> QED
        BY <1>3, <1>5, <3>2, <4>1
    <3> QED
      BY <3>1, <3>2
  <2> QED
    BY <1>5, <2>1
<1> DEFINE run == CHOOSE r : r = next(r)
<1>7. run = next(run)
  <2> HIDE DEF next
  <2> QED
    BY <1>6
<1>8. Depth(d, sorted) = run[m]
  BY DEF Depth, base, m
<1> HIDE DEF run
<1>9. run[0] = base /\ \A k \in 1..m : run[k] = Deepened(d, run[k - 1], sorted[k])
  <2>1. 0 \in 0..m /\ \A k \in 1..m : k \in 0..m /\ k # 0
    BY <1>0
  <2> QED
    BY <1>7, <2>1
<1> QED
  BY <1>0, <1>8, <1>9 DEF base, m

\* In an order of the waits every step gets a depth just below its dependencies.
LEMMA DepthsAreBelow ==
  ASSUME NEW n, NEW d, IsGraph(d, n), NEW sorted, InWaitOrder(d, n, sorted)
  PROVE  /\ Depth(d, sorted) \in [1..n -> Nat]
         /\ \A i \in ToSet(sorted) : JustBelow(d, Depth(d, sorted), i)
<1> DEFINE m == Len(sorted)
<1>0. /\ sorted \in Seq(1..n) /\ m \in Nat /\ n \in Nat /\ DOMAIN sorted = 1..m
      /\ ToSet(sorted) = {sorted[k] : k \in 1..m} /\ \A k \in 1..m : sorted[k] \in 1..n
  BY GraphFacts, SeqIsFunction DEF InWaitOrder
<1>1. PICK run : /\ run[0] = [i \in 1..n |-> 0] /\ Depth(d, sorted) = run[m]
                 /\ \A k \in 1..m : run[k] = Deepened(d, run[k - 1], sorted[k])
  BY <1>0, DepthRunExists, SMTT(30)
<1> DEFINE Good(k) == run[k] \in [1..n -> Nat] /\ \A p \in 1..k : JustBelow(d, run[k], sorted[p])
           H == {k \in 0..m : Good(k)}
<1>2. \A p \in 1..m : ToSet(d[sorted[p]]) \subseteq {sorted[q] : q \in 1..(p - 1)}
  BY DEF InWaitOrder
<1>3. \A p, q \in 1..m : p # q => sorted[p] # sorted[q]
  BY <1>0 DEF InWaitOrder, IsInjective
<1> HIDE DEF m
<1>4. 0 \in H
  <2>1. Good(0)
    BY <1>1
  <2> HIDE DEF Good
  <2> QED
    BY <1>0, <2>1
<1>5. ASSUME NEW k \in 1..m, k - 1 \in H
      PROVE  k \in H
  <2>1. Good(k - 1)
    <3> HIDE DEF Good
    <3> QED
      BY <1>5
  <2> DEFINE before == run[k - 1]
             i == sorted[k]
             t == run[k]
  <2>2. /\ before \in [1..n -> Nat] /\ t = Deepened(d, before, i) /\ i \in 1..n
        /\ \A p \in 1..(k - 1) : JustBelow(d, before, sorted[p])
    BY <1>0, <1>1, <2>1
  <2>3. \A p \in 1..k : \A j \in ToSet(d[sorted[p]]) : j \in 1..n /\ j # i
    <3> SUFFICES ASSUME NEW p \in 1..k, NEW j \in ToSet(d[sorted[p]])
                 PROVE  j \in 1..n /\ j # i
      OBVIOUS
    <3>1. p \in 1..m /\ \A q \in 1..(p - 1) : q \in 1..m /\ q # k
      BY <1>0
    <3>2. PICK q \in 1..(p - 1) : j = sorted[q]
      BY <1>2, <3>1
    <3> QED
      BY <1>0, <1>3, <3>1, <3>2
  <2> HIDE DEF before, i, t
  <2>4. /\ t \in [1..n -> Nat] /\ \A j \in 1..n : j # i => t[j] = before[j]
        /\ i \notin ToSet(d[i]) => JustBelow(d, t, i)
    <3>1. before \in [1..n -> Nat] /\ i \in 1..n
      BY <2>2
    <3>2. Deepened(d, before, i) \in [1..n -> Nat]
      BY ONLY IsGraph(d, n), <3>1, DeepenedIsBelow
    <3>3. SameBut(n, Deepened(d, before, i), before, i)
      BY ONLY IsGraph(d, n), <3>1, DeepenedIsBelow
    <3>4. i \notin ToSet(d[i]) => JustBelow(d, Deepened(d, before, i), i)
      BY ONLY IsGraph(d, n), <3>1, DeepenedIsBelow
    <3> QED
      BY <2>2, <3>2, <3>3, <3>4 DEF SameBut
  <2>5. ASSUME NEW p \in 1..k
        PROVE  JustBelow(d, t, sorted[p])
    <3>1. CASE p = k
      <4>1. i \notin ToSet(d[i])
        BY <2>3, <3>1 DEF i
      <4> QED
        BY <2>4, <3>1, <4>1 DEF i
    <3>2. CASE p # k
      <4>1. p \in 1..(k - 1) /\ p \in 1..m
        BY <1>0, <3>2
      <4>2. sorted[p] # i /\ sorted[p] \in 1..n
        BY <1>0, <1>3, <3>2, <4>1 DEF i
      <4>3. t[sorted[p]] = before[sorted[p]]
        BY <2>4, <4>2
      <4>4. \A j \in ToSet(d[sorted[p]]) : t[j] = before[j]
        BY <2>3, <2>4
      <4>5. JustBelow(d, before, sorted[p])
        BY <2>2, <4>1
      <4> QED
        BY <4>3, <4>4, <4>5 DEF JustBelow
    <3> QED
      BY <3>1, <3>2
  <2>6. Good(k)
    BY <2>4, <2>5 DEF t
  <2> HIDE DEF Good
  <2> QED
    BY <1>0, <2>6
<1> HIDE DEF H, Good
<1>6. m \in H
  <2>1. \A k \in 0..m : k \in H
    BY <1>0, <1>4, <1>5, BoundedInduction
  <2> QED
    BY <1>0, <2>1
<1>7. Good(m)
  BY <1>6 DEF H
<1> QED
  BY <1>0, <1>1, <1>7 DEF Good

\* What is put in the levels with the first k of the order.
Filled(n, sorted, depth, top, f, k) ==
  /\ f \in [1..top -> Seq(1..n)]
  /\ \A l \in 1..top : ToSet(f[l]) = {sorted[p] : p \in {q \in 1..k : depth[sorted[q]] = l - 1}}

\* A step is put in the level of its depth and in no other (dag.go:170-184).
LEMMA OneMoreInItsLevel ==
  ASSUME NEW n \in Nat, NEW sorted \in Seq(1..n), NEW depth \in [1..n -> Nat], NEW top \in Nat,
         NEW k \in 1..Len(sorted), depth[sorted[k]] < top,
         NEW f, Filled(n, sorted, depth, top, f, k - 1)
  PROVE  Filled(n, sorted, depth, top,
                [f EXCEPT ![depth[sorted[k]] + 1] = Append(f[depth[sorted[k]] + 1], sorted[k])], k)
<1> DEFINE i == sorted[k]
           c == depth[i] + 1
           g == [f EXCEPT ![c] = Append(f[c], i)]
<1>0. Len(sorted) \in Nat /\ sorted[k] \in 1..n
  BY SeqIsFunction
<1>1. i \in 1..n /\ depth[i] \in Nat /\ c \in 1..top /\ f \in [1..top -> Seq(1..n)] /\ c - 1 = depth[i]
  <2>1. i \in 1..n /\ depth[i] \in Nat /\ depth[i] < top
    BY <1>0
  <2>2. f \in [1..top -> Seq(1..n)]
    BY DEF Filled
  <2>3. c \in 1..top /\ c - 1 = depth[i]
    <3> HIDE DEF i
    <3> QED
      BY <2>1, SMTT(30)
  <2> QED
    BY <2>1, <2>2, <2>3
<1>2. /\ Append(f[c], i) \in Seq(1..n) /\ ToSet(Append(f[c], i)) = ToSet(f[c]) \cup {i}
  <2> DEFINE N == 1..n
             s == f[c]
  <2>1. s \in Seq(N) /\ i \in N
    BY <1>1
  <2> HIDE DEF N, s, i
  <2>2. /\ Append(s, i) \in Seq(N) /\ Len(Append(s, i)) = Len(s) + 1
        /\ Append(s, i)[Len(s) + 1] = i /\ \A j \in 1..Len(s) : Append(s, i)[j] = s[j]
    BY <2>1, AppendProperties
  <2>3. /\ Len(s) \in Nat /\ ToSet(s) = {s[j] : j \in 1..Len(s)}
        /\ ToSet(Append(s, i)) = {Append(s, i)[j] : j \in 1..(Len(s) + 1)}
    BY <2>1, <2>2, SeqIsFunction
  <2>4. 1..(Len(s) + 1) = (1..Len(s)) \cup {Len(s) + 1}
    BY <2>3, SMTT(30)
  <2>5. ToSet(Append(s, i)) = ToSet(s) \cup {i}
    BY <2>2, <2>3, <2>4, SMTT(30)
  <2> QED
    BY <2>2, <2>5 DEF N, s
<1> HIDE DEF c, g
<1>3. /\ g \in [1..top -> Seq(1..n)] /\ g[c] = Append(f[c], i)
      /\ \A l \in 1..top : l # c => g[l] = f[l]
  BY <1>1, <1>2 DEF g
<1>4. ASSUME NEW l \in 1..top
      PROVE  ToSet(g[l]) = {sorted[p] : p \in {q \in 1..k : depth[sorted[q]] = l - 1}}
  <2>1. ToSet(f[l]) = {sorted[p] : p \in {q \in 1..(k - 1) : depth[sorted[q]] = l - 1}}
    BY DEF Filled
  <2>2. CASE l = c
    <3>1. depth[sorted[k]] = l - 1 /\ 1..k = (1..(k - 1)) \cup {k}
      BY <1>0, <1>1, <2>2, SMTT(30)
    <3>2. {q \in 1..k : depth[sorted[q]] = l - 1} =
            {q \in 1..(k - 1) : depth[sorted[q]] = l - 1} \cup {k}
      BY <3>1
    <3>3. {sorted[p] : p \in {q \in 1..k : depth[sorted[q]] = l - 1}} =
            {sorted[p] : p \in {q \in 1..(k - 1) : depth[sorted[q]] = l - 1}} \cup {sorted[k]}
      BY <3>2
    <3> QED
      BY <1>2, <1>3, <2>1, <2>2, <3>3
  <2>3. CASE l # c
    <3>1. depth[sorted[k]] # l - 1 /\ 1..k = (1..(k - 1)) \cup {k}
      <4>1. depth[i] # l - 1
        <5>1. depth[i] \in Nat /\ l # depth[i] + 1 /\ l \in Int
          BY <1>1, <2>3 DEF c
        <5> HIDE DEF i
        <5> QED
          BY <5>1
      <4>2. 1..k = (1..(k - 1)) \cup {k}
        BY <1>0
      <4> QED
        BY <4>1, <4>2
    <3>2. {q \in 1..k : depth[sorted[q]] = l - 1} = {q \in 1..(k - 1) : depth[sorted[q]] = l - 1}
      BY <3>1
    <3> QED
      BY <1>3, <2>1, <2>3, <3>2
  <2> QED
    BY <2>2, <2>3
<1> QED
  BY <1>3, <1>4 DEF Filled, g, c

\* Every step of the order is in the level of its depth, and in no other.
InLevels(levels, i) == {l \in DOMAIN levels : Contains(levels[l], i)}

\* The levels are by depth.
LEMMA LevelsAreDepths ==
  ASSUME NEW n, NEW d, IsGraph(d, n), n > 0, NEW sorted, InWaitOrder(d, n, sorted),
         ToSet(sorted) = 1..n
  PROVE  \E depth \in [1..n -> Nat] :
           /\ \A i \in 1..n : JustBelow(d, depth, i)
           /\ \A i \in 1..n : InLevels(Levels(d, sorted), i) = {depth[i] + 1}
<1> DEFINE depth == Depth(d, sorted)
           top == Max(ToSet(depth)) + 1
           m == Len(sorted)
<1>0. /\ sorted \in Seq(1..n) /\ m \in Nat /\ n \in Nat /\ IsFiniteSet(1..n)
      /\ ToSet(sorted) = {sorted[k] : k \in 1..m} /\ \A k \in 1..m : sorted[k] \in 1..n
  <2>1. n \in Nat /\ IsFiniteSet(1..n) /\ sorted \in Seq(1..n)
    BY GraphFacts DEF InWaitOrder
  <2>2. /\ m \in Nat /\ sorted \in [1..m -> 1..n]
        /\ ToSet(sorted) = {sorted[k] : k \in 1..m}
    BY <2>1, SeqIsFunction
  <2> QED
    BY <2>1, <2>2
<1>1. depth \in [1..n -> Nat] /\ \A i \in 1..n : JustBelow(d, depth, i)
  BY DepthsAreBelow
<1> HIDE DEF depth
<1>2. top \in Nat /\ \A i \in 1..n : depth[i] < top
  <2> DEFINE T == ToSet(depth)
  <2>1. T = {depth[i] : i \in 1..n}
    BY <1>1 DEF ToSet
  <2>2. T \in SUBSET Int /\ T \subseteq Nat /\ T # {}
    <3>1. 1 \in 1..n
      BY <1>0
    <3> QED
      BY <1>1, <2>1, <3>1
  <2>3. \A i \in 1..n : depth[i] \in T
    BY <2>1
  <2> HIDE DEF T
  <2>4. IsFiniteSet(T)
    BY <1>0, <2>1, ImageIsFinite
  <2>5. Max(T) \in T /\ \A x \in T : x <= Max(T)
    BY <2>2, <2>4, GreatestOf
  <2>6. ASSUME NEW i \in 1..n
        PROVE  depth[i] < Max(T) + 1
    <3>1. depth[i] \in T /\ depth[i] \in Nat
      BY <1>1, <2>3
    <3>2. Max(T) \in Nat /\ depth[i] <= Max(T)
      BY <2>2, <2>5, <3>1
    <3> HIDE DEF T
    <3> QED
      BY <3>1, <3>2
  <2> QED
    BY <2>2, <2>5, <2>6 DEF T
<1> HIDE DEF top, m
<1> DEFINE S == [1..top -> Seq(1..n)]
           base == [l \in 1..top |-> <<>>]
           put(f, k) == [f EXCEPT ![depth[sorted[k]] + 1] = Append(f[depth[sorted[k]] + 1], sorted[k])]
           step == [k \in 1..m |-> [f \in S |-> put(f, k)]]
           next(r) == [k \in 0..m |-> IF k = 0 THEN base ELSE put(r[k - 1], k)]
           run == CHOOSE r : r = next(r)
<1>3. Levels(d, sorted) = run[m]
  BY DEF Levels, depth, top, m
<1>4. base \in S
  OBVIOUS
<1>5. ASSUME NEW k \in 1..m, NEW f \in S
      PROVE  put(f, k) \in S /\ step[k][f] = put(f, k)
  <2>1. /\ depth[sorted[k]] + 1 \in 1..top /\ sorted[k] \in 1..n
    BY <1>0, <1>1, <1>2
  <2> DEFINE c == depth[sorted[k]] + 1
             i == sorted[k]
             N == 1..n
  <2>2. f[c] \in Seq(N) /\ i \in N
    BY <2>1
  <2> HIDE DEF c, i, N
  <2>3. Append(f[c], i) \in Seq(N)
    BY <2>2, AppendProperties
  <2> USE DEF c, i, N
  <2>4. put(f, k) \in S
    BY <2>1, <2>3
  <2> QED
    BY <2>4
<1> HIDE DEF S, base, put, step
<1>6. \E g : Iterates(g, S, base, step, m)
  <2>1. \A k \in 1..m : \A f \in S : step[k][f] \in S
    BY <1>5
  <2> QED
    BY <1>0, <1>4, <2>1, BoundedRecursion
<1>7. PICK g : /\ g \in [0..m -> S] /\ g[0] = base
               /\ \A k \in 1..m : g[k] = step[k][g[k - 1]]
  BY <1>6 DEF Iterates
<1>8. g = next(g)
  <2>1. ASSUME NEW k \in 0..m
        PROVE  g[k] = IF k = 0 THEN base ELSE put(g[k - 1], k)
    <3>1. CASE k = 0
      BY <1>7, <3>1
    <3>2. CASE k # 0
      <4>1. k \in 1..m /\ k - 1 \in 0..m
        BY <1>0, <3>2
      <4> QED
        BY <1>5, <1>7, <3>2, <4>1
    <3> QED
      BY <3>1, <3>2
  <2> QED
    BY <1>7, <2>1
<1>9. run = next(run)
  <2> HIDE DEF next
  <2> QED
    BY <1>8
<1> HIDE DEF run
<1>10. run[0] = base /\ \A k \in 1..m : run[k] = put(run[k - 1], k)
  <2>1. 0 \in 0..m /\ \A k \in 1..m : k \in 0..m /\ k # 0
    BY <1>0
  <2> QED
    BY <1>9, <2>1
<1> HIDE DEF next
<1> DEFINE H == {k \in 0..m : Filled(n, sorted, depth, top, run[k], k)}
<1>11. 0 \in H
  <2>1. Filled(n, sorted, depth, top, base, 0)
    BY <1>4 DEF Filled, base, S, ToSet
  <2> QED
    BY <1>0, <1>10, <2>1
<1>12. ASSUME NEW k \in 1..m, k - 1 \in H
       PROVE  k \in H
  <2>1. Filled(n, sorted, depth, top, run[k - 1], k - 1)
    BY <1>12
  <2>2. depth[sorted[k]] < top /\ k \in 1..Len(sorted)
    BY <1>0, <1>2 DEF m
  <2> DEFINE f == run[k - 1]
  <2> HIDE DEF f, H
  <2>3. Filled(n, sorted, depth, top,
               [f EXCEPT ![depth[sorted[k]] + 1] = Append(f[depth[sorted[k]] + 1], sorted[k])], k)
    BY <1>0, <1>1, <1>2, <2>1, <2>2, OneMoreInItsLevel DEF f
  <2>4. Filled(n, sorted, depth, top, run[k], k)
    BY <1>10, <2>3 DEF put, f
  <2> QED
    BY <1>0, <2>4 DEF H
<1> HIDE DEF H
<1>13. m \in H
  <2>1. \A k \in 0..m : k \in H
    BY <1>0, <1>11, <1>12, BoundedInduction
  <2> QED
    BY <1>0, <2>1
<1> DEFINE levels == Levels(d, sorted)
<1>14. Filled(n, sorted, depth, top, levels, m)
  BY <1>3, <1>13 DEF H
<1> HIDE DEF levels
<1>15. DOMAIN levels = 1..top /\ \A l \in 1..top : levels[l] \in Seq(1..n)
  BY <1>14 DEF Filled
<1>16. ASSUME NEW i \in 1..n
       PROVE  {l \in DOMAIN levels : Contains(levels[l], i)} = {depth[i] + 1}
  <2>1. PICK k \in 1..m : sorted[k] = i
    BY <1>0
  <2>2. ASSUME NEW l \in 1..top
        PROVE  i \in ToSet(levels[l]) <=> depth[i] = l - 1
    <3>1. ToSet(levels[l]) = {sorted[p] : p \in {q \in 1..m : depth[sorted[q]] = l - 1}}
      BY <1>14 DEF Filled
    <3>2. ASSUME depth[i] = l - 1
          PROVE  i \in ToSet(levels[l])
      <4>1. k \in {q \in 1..m : depth[sorted[q]] = l - 1}
        BY <2>1, <3>2
      <4> QED
        BY <2>1, <3>1, <4>1
    <3>3. ASSUME i \in ToSet(levels[l])
          PROVE  depth[i] = l - 1
      BY <3>1, <3>3
    <3> QED
      BY <3>2, <3>3
  <2>3. \A l \in 1..top : Contains(levels[l], i) <=> i \in ToSet(levels[l])
    BY <1>15, SeqIsFunction
  <2>4. depth[i] + 1 \in 1..top /\ depth[i] \in Nat
    BY <1>1, <1>2
  <2>5. \A l \in 1..top : depth[i] = l - 1 <=> l = depth[i] + 1
    BY <2>4
  <2> QED
    BY <1>15, <2>2, <2>3, <2>4, <2>5
<1> QED
  BY <1>1, <1>16 DEF levels, InLevels

-----------------------------------------------------------------------------
(* The search from the roots. *)

\* The rounds of the breadth-first search (dag_check.go:70-94).
LEMMA ReachRunExists ==
  ASSUME NEW n, NEW d, IsGraph(d, n)
  PROVE  \E run : /\ run[0] = {i \in 1..n : d[i] = <<>>} /\ Reached(d) = run[n]
                  /\ \A k \in 1..n : run[k] = run[k - 1] \cup UNION {Dependents(d, i) : i \in run[k - 1]}
                  /\ \A k \in 0..n : run[k] \in SUBSET (1..n)
<1> DEFINE S == SUBSET (1..n)
           base == {i \in DOMAIN d : d[i] = <<>>}
           grown(T) == T \cup UNION {Dependents(d, i) : i \in T}
           step == [k \in 1..n |-> [T \in S |-> grown(T)]]
           next(r) == [k \in 0..n |-> IF k = 0 THEN base ELSE grown(r[k - 1])]
           run == CHOOSE r : r = next(r)
<1>0. /\ n \in Nat /\ DOMAIN d = 1..n /\ Len(d) = n
      /\ \A i : Dependents(d, i) = {j \in 1..n : i \in ToSet(d[j])}
  BY GraphFacts
<1>1. base \in S
  BY <1>0
<1>2. ASSUME NEW T \in S
      PROVE  grown(T) \in S
  <2>1. \A i : Dependents(d, i) \subseteq 1..n
    BY <1>0
  <2>2. T \subseteq 1..n
    OBVIOUS
  <2> QED
    BY <2>1, <2>2
<1>3. \A k \in 1..n : \A T \in S : step[k][T] = grown(T)
  OBVIOUS
<1>4. Reached(d) = run[n]
  BY <1>0 DEF Reached
<1> HIDE DEF S, base, grown, step
<1>5. \E g : Iterates(g, S, base, step, n)
  <2>1. \A k \in 1..n : \A T \in S : step[k][T] \in S
    BY <1>2, <1>3
  <2> QED
    BY <1>0, <1>1, <2>1, BoundedRecursion
<1>6. PICK g : /\ g \in [0..n -> S] /\ g[0] = base
               /\ \A k \in 1..n : g[k] = step[k][g[k - 1]]
  BY <1>5 DEF Iterates
<1>7. g = next(g)
  <2>1. ASSUME NEW k \in 0..n
        PROVE  g[k] = IF k = 0 THEN base ELSE grown(g[k - 1])
    <3>1. CASE k = 0
      BY <1>6, <3>1
    <3>2. CASE k # 0
      <4>1. k \in 1..n /\ k - 1 \in 0..n
        BY <1>0, <3>2
      <4> QED
        BY <1>3, <1>6, <3>2, <4>1
    <3> QED
      BY <3>1, <3>2
  <2> QED
    BY <1>6, <2>1
<1>8. run = next(run)
  <2> HIDE DEF next
  <2> QED
    BY <1>7
<1> HIDE DEF run
<1>9. run[0] = base /\ \A k \in 1..n : run[k] = grown(run[k - 1])
  <2>1. 0 \in 0..n /\ \A k \in 1..n : k \in 0..n /\ k # 0
    BY <1>0
  <2> QED
    BY <1>8, <2>1
<1> HIDE DEF next
<1> DEFINE H == {k \in 0..n : run[k] \in S}
<1>10. 0 \in H
  BY <1>0, <1>1, <1>9
<1>11. ASSUME NEW k \in 1..n, k - 1 \in H
       PROVE  k \in H
  <2>1. run[k - 1] \in S
    BY <1>11
  <2> QED
    BY <1>0, <1>2, <1>9, <2>1
<1> HIDE DEF H
<1>12. \A k \in 0..n : k \in H
  BY <1>0, <1>10, <1>11, BoundedInduction
<1> QED
  BY <1>0, <1>4, <1>9, <1>12 DEF H, S, base, grown

\* A search from the roots reaches all that can be sorted.
LEMMA SortedAreReached ==
  ASSUME NEW n, NEW d, IsGraph(d, n), NEW sorted, InWaitOrder(d, n, sorted),
         ToSet(sorted) = 1..n, Len(sorted) = n
  PROVE  Reached(d) = 1..n
<1>1. PICK run : /\ run[0] = {i \in 1..n : d[i] = <<>>} /\ Reached(d) = run[n]
                 /\ \A k \in 1..n : run[k] = run[k - 1] \cup UNION {Dependents(d, i) : i \in run[k - 1]}
                 /\ \A k \in 0..n : run[k] \in SUBSET (1..n)
  BY ReachRunExists
<1>2. /\ n \in Nat /\ \A i : Dependents(d, i) = {j \in 1..n : i \in ToSet(d[j])}
      /\ \A i \in 1..n : d[i] \in Seq(1..n)
  BY GraphFacts
<1>3. ToSet(sorted) = {sorted[p] : p \in 1..n}
  BY SeqIsFunction DEF InWaitOrder
<1>4. \A p \in 1..n : sorted[p] \in 1..n /\ ToSet(d[sorted[p]]) \subseteq {sorted[q] : q \in 1..(p - 1)}
  BY <1>3 DEF InWaitOrder
<1> DEFINE H == {k \in 0..n : \A p \in 1..k : sorted[p] \in run[k]}
<1>5. 0 \in H
  BY <1>2
<1>6. ASSUME NEW k \in 1..n, k - 1 \in H
      PROVE  k \in H
  <2>1. \A p \in 1..(k - 1) : sorted[p] \in run[k - 1]
    BY <1>6
  <2>2. ASSUME NEW p \in 1..k
        PROVE  sorted[p] \in run[k]
    <3>1. CASE p # k
      <4>1. p \in 1..(k - 1)
        BY <3>1
      <4> QED
        BY <1>1, <2>1, <4>1
    <3>2. CASE p = k /\ ToSet(d[sorted[k]]) # {}
      <4>1. PICK i \in ToSet(d[sorted[k]]) : i \in {sorted[q] : q \in 1..(k - 1)}
        BY <1>4, <3>2
      <4>2. i \in run[k - 1] /\ sorted[k] \in Dependents(d, i)
        BY <1>2, <1>4, <2>1, <4>1
      <4> QED
        BY <1>1, <3>2, <4>2
    <3>3. CASE p = k /\ ToSet(d[sorted[k]]) = {}
      <4>1. d[sorted[k]] = <<>>
        <5>1. d[sorted[k]] \in Seq(1..n)
          BY <1>2, <1>4
        <5> DEFINE s == d[sorted[k]]
                   N == 1..n
        <5>2. s \in Seq(N) /\ ToSet(s) = {}
          BY <3>3, <5>1
        <5> HIDE DEF s, N
        <5>3. Len(s) \in Nat /\ ToSet(s) = {s[i] : i \in 1..Len(s)} /\ (s = <<>> <=> Len(s) = 0)
          BY <5>2, SeqIsFunction
        <5>4. Len(s) = 0
          <6>1. 1 \notin 1..Len(s)
            BY <5>2, <5>3
          <6> QED
            BY <5>3, <6>1
        <5> QED
          BY <5>3, <5>4 DEF s
      <4>2. sorted[k] \in run[0]
        BY <1>1, <1>4, <4>1
      <4> DEFINE G == {j \in 0..n : sorted[k] \in run[j]}
      <4>3. 0 \in G
        BY <1>2, <4>2
      <4>4. ASSUME NEW j \in 1..n, j - 1 \in G
            PROVE  j \in G
        BY <1>1, <1>2, <4>4
      <4> HIDE DEF G
      <4>5. \A j \in 0..n : j \in G
        BY <1>2, <4>3, <4>4, BoundedInduction
      <4>6. k \in G
        BY <1>2, <4>5
      <4> QED
        BY <3>3, <4>6 DEF G
    <3> QED
      BY <3>1, <3>2, <3>3
  <2> QED
    BY <1>2, <2>2
<1> HIDE DEF H
<1>7. n \in H
  <2>1. \A k \in 0..n : k \in H
    BY <1>2, <1>5, <1>6, BoundedInduction
  <2> QED
    BY <1>2, <2>1
<1>8. \A p \in 1..n : sorted[p] \in run[n]
  BY <1>7 DEF H
<1>9. run[n] \subseteq 1..n
  BY <1>1, <1>2
<1>10. ASSUME NEW i \in 1..n
       PROVE  i \in run[n]
  <2>1. i \in {sorted[p] : p \in 1..n}
    BY <1>3
  <2> QED
    BY <1>8, <2>1
<1> QED
  BY <1>1, <1>9, <1>10

-----------------------------------------------------------------------------
(* Definitions. *)

\* Any list of ids, of steps that there are and of one that there is not.
IsDefinition(d, n) == n \in Nat /\ n > 0 /\ d \in [1..n -> Seq(0..n)]

\* The definitions that a run looks at are definitions.
LEMMA DefinitionsAre ==
  ASSUME NEW d \in Definitions
  PROVE  \E n : IsDefinition(d, n)
<1>1. CASE d \in UNION {[1..n -> Lists(0..n)] : n \in 1..MaxSteps}
  <2>1. PICK n \in 1..MaxSteps : d \in [1..n -> Lists(0..n)]
    BY <1>1
  <2>2. n \in Nat /\ n > 0
    BY StepGraphAssumption DEF StepGraphAssumption
  <2>3. ASSUME NEW S, NEW s \in Lists(S)
        PROVE  s \in Seq(S)
    <3>1. PICK k \in 0..MaxDeps : s \in [1..k -> S]
      BY <2>3 DEF Lists
    <3>2. k \in Nat
      BY StepGraphAssumption DEF StepGraphAssumption
    <3> QED
      BY <3>1, <3>2, IsASeq
  <2>4. d \in [1..n -> Seq(0..n)]
    <3>1. \A s \in Lists(0..n) : s \in Seq(0..n)
      BY <2>3
    <3> QED
      BY <2>1, <3>1
  <2> QED
    BY <2>2, <2>4 DEF IsDefinition
<1>2. CASE d \notin UNION {[1..n -> Lists(0..n)] : n \in 1..MaxSteps}
  <2> DEFINE N == 1..MaxLongest
  <2>1. PICK f \in [N -> SUBSET N] : d = [i \in N |-> InOrder(f[i])]
    <3>1. PICK f \in [N -> SUBSET N] : d = Sorted(f)
      BY <1>2 DEF Definitions
    <3> QED
      BY <3>1 DEF Sorted
  <2>2. MaxLongest \in Nat /\ MaxLongest > 0 /\ IsFiniteSet(N) /\ N \subseteq Int
    <3>1. MaxLongest \in Nat /\ MaxLongest > 0 /\ 1 \in Int /\ MaxLongest \in Int
      BY StepGraphAssumption DEF StepGraphAssumption
    <3> QED
      BY <3>1, FS_Interval
  <2>3. ASSUME NEW i \in N
        PROVE  InOrder(f[i]) \in Seq(0..MaxLongest)
    <3>1. f[i] \in SUBSET N /\ f[i] \in SUBSET Int
      BY <2>1, <2>2
    <3> DEFINE T == f[i]
               Z == 0..MaxLongest
    <3>2. T \subseteq Z
      BY <3>1
    <3>3. IsFiniteSet(T) /\ T \in SUBSET Int
      <4> HIDE DEF N, T
      <4> QED
        BY <2>2, <3>1, FS_Subset DEF T
    <3> HIDE DEF T, Z
    <3>4. InOrder(T) \in Seq(T)
      BY <3>3, OrderKeepsAll
    <3>5. InOrder(T) \in Seq(Z)
      BY <3>2, <3>4
    <3> QED
      BY <3>5 DEF T, Z
  <2>4. d \in [N -> Seq(0..MaxLongest)]
    BY <2>1, <2>3
  <2> QED
    BY <2>2, <2>4 DEF IsDefinition
<1> QED
  BY <1>1, <1>2

\* With good references it is a graph; without the others it always is.
LEMMA DefinitionsAreGraphs ==
  ASSUME NEW n, NEW d, IsDefinition(d, n)
  PROVE  /\ DOMAIN d = 1..n /\ Len(d) = n
         /\ ~BadReference(d) => IsGraph(d, n)
         /\ IsGraph(Known(d), n)
<1>1. n \in Nat /\ DOMAIN d = 1..n /\ \A i \in 1..n : d[i] \in Seq(0..n)
  BY DEF IsDefinition
<1>2. Len(d) = n
  <2> DEFINE E == Seq(0..n)
  <2>1. d \in [1..n -> E]
    BY DEF IsDefinition
  <2> HIDE DEF E
  <2>2. d \in Seq(E)
    BY <1>1, <2>1, IsASeq
  <2>3. DOMAIN d = 1..Len(d) /\ Len(d) \in Nat
    BY <2>2, SeqIsFunction
  <2> QED
    BY <1>1, <2>3
<1>3. ASSUME ~BadReference(d)
      PROVE  IsGraph(d, n)
  <2>1. ASSUME NEW i \in 1..n
        PROVE  d[i] \in Seq(1..n) /\ IsInjective(d[i])
    <3> DEFINE s == d[i]
               Z == 0..n
               N == 1..n
    <3>1. s \in Seq(Z) /\ ~Contains(s, 0) /\ \A j, k \in DOMAIN s : ~(j # k /\ s[j] = s[k])
      BY <1>1, <1>3, <2>1 DEF BadReference, Unknown
    <3>2. \A x \in Z : x # 0 => x \in N
      BY <1>1
    <3> HIDE DEF s, Z, N
    <3>3. /\ Len(s) \in Nat /\ DOMAIN s = 1..Len(s) /\ s \in [1..Len(s) -> Z]
          /\ \A k \in 1..Len(s) : s[k] # 0
      <4>1. /\ Len(s) \in Nat /\ DOMAIN s = 1..Len(s) /\ s \in [1..Len(s) -> Z]
        BY <3>1, SeqIsFunction
      <4> QED
        BY <3>1, <4>1 DEF Contains
    <3>4. s \in [1..Len(s) -> N]
      BY <3>2, <3>3
    <3>5. s \in Seq(N)
      BY <3>3, <3>4, IsASeq
    <3>6. IsInjective(s)
      BY <3>1 DEF IsInjective
    <3> QED
      BY <3>5, <3>6 DEF s, N
  <2>2. d \in [1..n -> Seq(1..n)]
    <3>1. d = [i \in 1..n |-> d[i]]
      BY DEF IsDefinition
    <3> QED
      BY <2>1, <3>1
  <2> QED
    BY <1>1, <2>1, <2>2 DEF IsGraph
<1>4. IsGraph(Known(d), n)
  <2>1. ASSUME NEW i \in 1..n
        PROVE  /\ InOrder(ToSet(d[i]) \cap (1..n)) \in Seq(1..n)
               /\ IsInjective(InOrder(ToSet(d[i]) \cap (1..n)))
    <3> DEFINE N == 1..n
               T == ToSet(d[i]) \cap N
    <3>1. IsFiniteSet(N) /\ N \subseteq Int
      <4>1. 1 \in Int /\ n \in Int
        BY <1>1
      <4> QED
        BY <4>1, FS_Interval
    <3>2. T \in SUBSET N
      OBVIOUS
    <3> HIDE DEF N, T
    <3>3. IsFiniteSet(T) /\ T \in SUBSET Int
      BY <3>1, <3>2, FS_Subset
    <3>4. InOrder(T) \in Seq(T) /\ IsInjective(InOrder(T))
      BY <3>3, OrderKeepsAll
    <3>5. InOrder(T) \in Seq(N)
      BY <3>2, <3>4
    <3> QED
      BY <3>4, <3>5 DEF N, T
  <2>2. Known(d) = [i \in 1..n |-> InOrder(ToSet(d[i]) \cap (1..n))]
    BY <1>1 DEF Known, Sorted
  <2> QED
    BY <1>1, <2>1, <2>2 DEF IsGraph
<1> QED
  BY <1>1, <1>2, <1>3, <1>4

-----------------------------------------------------------------------------
(* What ParseDAG and validateDAG return. *)

\* dag.go:81-142: an error for a bad reference, else one for a cycle.
LEMMA ParsedAre ==
  ASSUME NEW n, NEW d, IsDefinition(d, n)
  PROVE  CASE BadReference(d) -> ParseDAG(d).error = "reference"
           [] ~BadReference(d) /\ Cyclic(d) -> ParseDAG(d).error = "cycle"
           [] OTHER -> ParseDAG(d).error = "none"
<1>1. Len(d) = n /\ (~BadReference(d) => IsGraph(d, n))
  BY DefinitionsAreGraphs
<1>2. CASE BadReference(d)
  BY <1>2 DEF ParseDAG, NotParsed
<1>3. CASE ~BadReference(d)
  <2>1. Len(Kahn(d).sorted) # Len(d) <=> Cyclic(d)
    BY <1>1, <1>3, KahnFindsCycles
  <2> QED
    BY <1>3, <2>1 DEF ParseDAG, NotParsed
<1> QED
  BY <1>2, <1>3

\* The levels are by a depth that is more than that of all a step waits for, and
\* one more than that of one of them.
LevelledBy(n, d, levels, depth) ==
  /\ \A i \in 1..n : \A j \in WaitsFor(d, i) : depth[j] < depth[i]
  /\ \A i \in 1..n : depth[i] # 0 => \E j \in WaitsFor(d, i) : depth[j] = depth[i] - 1
  /\ \A i \in 1..n : InLevels(levels, i) = {depth[i] + 1}

\* dag.go:152-184: what a step waits for is in the levels below its own.
LEMMA LevelsAreBelow ==
  ASSUME NEW n, NEW d, IsDefinition(d, n), ParseDAG(d).error = "none"
  PROVE  \E depth \in [1..n -> Nat] : LevelledBy(n, d, ParseDAG(d).levels, depth)
<1> DEFINE sorted == Kahn(d).sorted
<1>1. ~BadReference(d) /\ Len(sorted) = Len(d) /\ ParseDAG(d).levels = Levels(d, sorted)
  BY DEF ParseDAG, NotParsed
<1>2. IsGraph(d, n) /\ Len(d) = n /\ n > 0 /\ n \in Nat
  BY <1>1, DefinitionsAreGraphs DEF IsDefinition
<1>3. InWaitOrder(d, n, sorted) /\ ToSet(sorted) = 1..n
  BY <1>1, <1>2, KahnFindsCycles
<1> HIDE DEF sorted
<1>4. PICK depth \in [1..n -> Nat] :
        /\ \A i \in 1..n : JustBelow(d, depth, i)
        /\ \A i \in 1..n : InLevels(Levels(d, sorted), i) = {depth[i] + 1}
  BY <1>2, <1>3, LevelsAreDepths
<1>5. \A i \in 1..n : depth[i] \in Nat
  BY <1>4
<1>6. ASSUME NEW i \in 1..n, NEW j \in WaitsFor(d, i)
      PROVE  depth[j] < depth[i]
  <2> DEFINE C == {c \in 1..n : depth[c] < depth[i]}
  <2>1. ASSUME NEW c \in C \cup {i}
        PROVE  ToSet(d[c]) \subseteq C
    <3>1. c \in 1..n /\ (depth[c] < depth[i] \/ c = i)
      OBVIOUS
    <3>2. ToSet(d[c]) \subseteq 1..n /\ \A m \in ToSet(d[c]) : depth[m] < depth[c]
      BY <1>2, <1>4, <3>1, GraphFacts DEF JustBelow
    <3> QED
      BY <1>5, <3>1, <3>2
  <2>2. WaitsFor(d, i) \subseteq C
    <3> HIDE DEF C
    <3>1. C \in SUBSET (1..n)
      BY DEF C
    <3> QED
      BY <1>2, <2>1, <3>1, WaitsForDependencies
  <2> QED
    BY <2>2
<1>7. ASSUME NEW i \in 1..n, depth[i] # 0
      PROVE  \E j \in WaitsFor(d, i) : depth[j] = depth[i] - 1
  <2>1. \E m \in ToSet(d[i]) : depth[m] = depth[i] - 1
    BY <1>4, <1>7 DEF JustBelow
  <2>2. ToSet(d[i]) \subseteq WaitsFor(d, i)
    BY <1>2, WaitsForDependencies
  <2> QED
    BY <2>1, <2>2
<1> QED
  BY <1>1, <1>4, <1>6, <1>7 DEF LevelledBy

\* dag_check.go:24-104: over the references it keeps, a cycle is found if there
\* is one, and without one every step is reached from a root.
LEMMA ChecksAre ==
  ASSUME NEW n, NEW d, IsDefinition(d, n)
  PROVE  /\ ValidateDAG(d).cycle = Cyclic(Known(d))
         /\ ValidateDAG(d).unreachable = {}
<1> DEFINE e == Known(d)
           sorted == Kahn(e).sorted
<1>1. IsGraph(e, n) /\ Len(d) = n /\ DOMAIN d = 1..n
  BY DefinitionsAreGraphs
<1>2. /\ Len(sorted) # n <=> Cyclic(e)
      /\ InWaitOrder(e, n, sorted)
      /\ Len(sorted) = n => ToSet(sorted) = 1..n
  <2> HIDE DEF e
  <2> QED
    BY <1>1, KahnFindsCycles
<1>3. Len(sorted) = n => Reached(e) = 1..n
  <2> HIDE DEF e, sorted
  <2> QED
    BY <1>1, <1>2, SortedAreReached
<1>4. Cyclic(e) \in BOOLEAN
  BY DEF Cyclic
<1>5. CASE Len(sorted) # n
  <2>1. ValidateDAG(d) = [done |-> TRUE, cycle |-> TRUE, unreachable |-> {}]
    BY <1>1, <1>5 DEF ValidateDAG
  <2>2. Cyclic(e) = TRUE
    <3> HIDE DEF e, sorted
    <3> QED
      BY <1>2, <1>4, <1>5
  <2>3. ValidateDAG(d).cycle = TRUE /\ ValidateDAG(d).unreachable = {}
    BY <2>1
  <2> QED
    BY <2>2, <2>3
<1>6. CASE Len(sorted) = n
  <2>1. ValidateDAG(d) = [done |-> TRUE, cycle |-> FALSE, unreachable |-> DOMAIN d \ Reached(e)]
    BY <1>1, <1>6 DEF ValidateDAG
  <2>2. Cyclic(e) = FALSE /\ Reached(e) = DOMAIN d
    <3> HIDE DEF e, sorted
    <3> QED
      BY <1>1, <1>2, <1>3, <1>4, <1>6
  <2>3. ValidateDAG(d).cycle = FALSE /\ ValidateDAG(d).unreachable = DOMAIN d \ Reached(e)
    <3> HIDE DEF e
    <3> QED
      BY <2>1
  <2>4. DOMAIN d \ Reached(e) = {}
    <3> HIDE DEF e
    <3> QED
      BY <2>2
  <2> QED
    BY <2>2, <2>3, <2>4
<1> QED
  BY <1>5, <1>6
-----------------------------------------------------------------------------
(* The search for circular references. *)

Painted(s, as) == {i \in DOMAIN s.color : s.color[i] = as}

\* Steps left behind: with what they wait for, and not waiting for themselves.
BlackIsDone(d, s) ==
  \A i \in Painted(s, "black") : ToSet(d[i]) \subseteq Painted(s, "black") /\ i \notin WaitsFor(d, i)

Repainted(n, s, t, i, as) == \A j \in 1..n : t.color[j] = IF j = i THEN as ELSE s.color[j]

\* Coloring a step changes the color of that step.
LEMMA ColoringSearches ==
  ASSUME NEW n, NEW d, IsGraph(d, n), NEW s \in Searches(d), NEW i \in 1..n,
         NEW as \in {"white", "gray", "black"}
  PROVE  /\ Colored(s, i, as) \in Searches(d)
         /\ Colored(s, i, as).circular = s.circular
         /\ Repainted(n, s, Colored(s, i, as), i, as)
<1>1. DOMAIN d = 1..n
  BY GraphFacts
<1> DEFINE E == {"white", "gray", "black"}
           N == 1..n
<1> HIDE DEF E, N
<1>2. s \in [color : [N -> E], circular : BOOLEAN] /\ i \in N /\ as \in E
  BY <1>1 DEF Searches, E, N
<1> DEFINE F == [N -> E]
           C == [s.color EXCEPT ![i] = as]
<1>3. C \in F /\ \A j \in N : C[j] = IF j = i THEN as ELSE s.color[j]
  BY <1>2
<1>4. Colored(s, i, as) = [s EXCEPT !.color = C]
  BY DEF Colored
<1> HIDE DEF C
<1>5. s \in [color : F, circular : BOOLEAN]
  BY <1>2
<1> HIDE DEF F
<1>6. /\ [s EXCEPT !.color = C] \in [color : F, circular : BOOLEAN]
      /\ [s EXCEPT !.color = C].color = C /\ [s EXCEPT !.color = C].circular = s.circular
  BY <1>3, <1>5
<1> QED
  BY <1>1, <1>3, <1>4, <1>6 DEF Repainted, Searches, F, E, N

Paints(n, s) == \A as : Painted(s, as) = {i \in 1..n : s.color[i] = as}

\* The steps by their color.
LEMMA PaintedAre ==
  ASSUME NEW n, NEW d, IsGraph(d, n), NEW s \in Searches(d)
  PROVE  /\ Paints(n, s)
         /\ \A i \in 1..n : s.color[i] \in {"white", "gray", "black"}
         /\ s.circular \in BOOLEAN
         /\ IsFiniteSet(Painted(s, "white"))
<1>1. DOMAIN d = 1..n /\ IsFiniteSet(1..n)
  BY GraphFacts
<1>2. s.color \in [1..n -> {"white", "gray", "black"}] /\ s.circular \in BOOLEAN
  BY <1>1 DEF Searches
<1>3. \A as : Painted(s, as) = {i \in 1..n : s.color[i] = as}
  BY <1>2 DEF Painted
<1>4. IsFiniteSet(Painted(s, "white"))
  <2> DEFINE N == 1..n
  <2>1. Painted(s, "white") \in SUBSET N
    BY <1>3
  <2> HIDE DEF N
  <2> QED
    BY <1>1, <2>1, FS_Subset DEF N
<1> QED
  BY <1>2, <1>3, <1>4 DEF Paints

\* A reference leaves a search.
LEMMA MeetIsASearch ==
  ASSUME NEW n, NEW d, IsGraph(d, n), NEW s \in Searches(d), NEW m \in 1..n,
         NEW visit \in [Visits(d) -> Searches(d)]
  PROVE  Meet(s, m, visit) \in Searches(d)
<1>1. DOMAIN d = 1..n
  BY GraphFacts
<1>2. [s EXCEPT !.circular = TRUE] \in Searches(d)
  BY DEF Searches
<1>3. visit[[step |-> m, search |-> s]] \in Searches(d)
  <2>1. [step |-> m, search |-> s] \in Visits(d)
    BY <1>1 DEF Visits
  <2> HIDE DEF Searches
  <2> QED
    BY <2>1
<1> QED
  BY <1>2, <1>3 DEF Meet

\* The searches between the steps that one names.
Goes(d, i, s, visit, through) ==
  /\ through[0] = Colored(s, i, "gray")
  /\ \A k \in 1..Len(d[i]) : through[k] = Meet(through[k - 1], d[i][k], visit)
  /\ \A k \in 0..Len(d[i]) : through[k] \in Searches(d)

\* A visit (interpolation.go:433-451) goes through the references of a step,
\* one after another.
LEMMA VisitGoes ==
  ASSUME NEW n, NEW d, IsGraph(d, n), NEW s \in Searches(d), NEW i \in 1..n,
         NEW visit \in [Visits(d) -> Searches(d)]
  PROVE  \E through :
           /\ Goes(d, i, s, visit, through)
           /\ Visit(d, [step |-> i, search |-> s], visit) =
                IF through[Len(d[i])].circular THEN through[Len(d[i])]
                ELSE Colored(through[Len(d[i])], i, "black")
<1> DEFINE S == Searches(d)
           m == Len(d[i])
           base == Colored(s, i, "gray")
           onward(t, k) == Meet(t, d[i][k], visit)
           step == [k \in 1..m |-> [t \in S |-> onward(t, k)]]
           next(r) == [k \in 0..m |-> IF k = 0 THEN base ELSE onward(r[k - 1], k)]
           run == CHOOSE r : r = next(r)
<1>0. m \in Nat /\ \A k \in 1..m : d[i][k] \in 1..n
  <2> DEFINE N == 1..n
             l == d[i]
  <2>1. l \in Seq(N)
    BY GraphFacts
  <2> HIDE DEF N, l
  <2>2. Len(l) \in Nat /\ \A k \in 1..Len(l) : l[k] \in N
    BY <2>1, SeqIsFunction
  <2> QED
    BY <2>2 DEF l, N
<1>1. base \in S
  BY ColoringSearches
<1>2. ASSUME NEW t \in S, NEW k \in 1..m
      PROVE  onward(t, k) \in S
  BY <1>0, MeetIsASearch
<1>3. \A k \in 1..m : \A t \in S : step[k][t] = onward(t, k)
  OBVIOUS
<1>4. Visit(d, [step |-> i, search |-> s], visit) =
        IF run[m].circular THEN run[m] ELSE Colored(run[m], i, "black")
  BY DEF Visit
<1> HIDE DEF S, base, onward, step, m
<1>5. \E g : Iterates(g, S, base, step, m)
  <2>1. \A k \in 1..m : \A t \in S : step[k][t] \in S
    BY <1>2, <1>3
  <2> QED
    BY <1>0, <1>1, <2>1, BoundedRecursion
<1>6. PICK g : /\ g \in [0..m -> S] /\ g[0] = base
               /\ \A k \in 1..m : g[k] = step[k][g[k - 1]]
  BY <1>5 DEF Iterates
<1>7. g = next(g)
  <2>1. ASSUME NEW k \in 0..m
        PROVE  g[k] = IF k = 0 THEN base ELSE onward(g[k - 1], k)
    <3>1. CASE k = 0
      BY <1>6, <3>1
    <3>2. CASE k # 0
      <4>1. k \in 1..m /\ k - 1 \in 0..m
        BY <1>0, <3>2
      <4> QED
        BY <1>3, <1>6, <3>2, <4>1
    <3> QED
      BY <3>1, <3>2
  <2> QED
    BY <1>6, <2>1
<1>8. run = next(run)
  <2> HIDE DEF next
  <2> QED
    BY <1>7
<1> HIDE DEF run
<1>9. run[0] = base /\ \A k \in 1..m : run[k] = onward(run[k - 1], k)
  <2>1. 0 \in 0..m /\ \A k \in 1..m : k \in 0..m /\ k # 0
    BY <1>0
  <2> QED
    BY <1>8, <2>1
<1> HIDE DEF next
<1> DEFINE H == {k \in 0..m : run[k] \in S}
<1>10. 0 \in H
  BY <1>0, <1>1, <1>9
<1>11. ASSUME NEW k \in 1..m, k - 1 \in H
       PROVE  k \in H
  <2>1. run[k - 1] \in S
    BY <1>11
  <2> QED
    BY <1>0, <1>2, <1>9, <2>1
<1> HIDE DEF H
<1>12. \A k \in 0..m : k \in H
  BY <1>0, <1>10, <1>11, BoundedInduction
<1>13. \A k \in 0..m : run[k] \in S
  BY <1>12 DEF H
<1>14. Goes(d, i, s, visit, run)
  BY <1>9, <1>13 DEF Goes, m, S, base, onward
<1> QED
  BY <1>4, <1>14 DEF m

\* A visit of a step that is white, with none but the steps that wait for it
\* gray: it finds a cycle that there is, or leaves the step black with those
\* it waits for, and the gray ones as they were.
MayVisit(n, d, i, s, k) ==
  /\ ~s.circular /\ s.color[i] = "white" /\ BlackIsDone(d, s)
  /\ \A j \in Painted(s, "gray") : i \in WaitsFor(d, j)
  /\ Cardinality(Painted(s, "white")) <= k

Visited(d, i, s, r) ==
  /\ r.circular => Cyclic(d)
  /\ ~r.circular => /\ BlackIsDone(d, r)
                    /\ Painted(r, "gray") = Painted(s, "gray")
                    /\ Painted(s, "black") \cup {i} \subseteq Painted(r, "black")

\* It holds of the visits that go at most k deep.
VisitsAreRight(n, d, visit, k) ==
  \A i \in 1..n : \A s \in Searches(d) :
    MayVisit(n, d, i, s, k) => Visited(d, i, s, visit[[step |-> i, search |-> s]])

\* Within a visit, after some of the steps it names.
Within(d, i, s, t, k) ==
  /\ t.circular => Cyclic(d)
  /\ ~t.circular => /\ BlackIsDone(d, t)
                    /\ Painted(t, "gray") = Painted(s, "gray") \cup {i}
                    /\ Painted(s, "black") \subseteq Painted(t, "black")
                    /\ \A p \in 1..k : d[i][p] \in Painted(t, "black")

\* It begins with its step gray ...
LEMMA VisitStarts ==
  ASSUME NEW n, NEW d, IsGraph(d, n), NEW s \in Searches(d), NEW i \in 1..n, NEW k,
         MayVisit(n, d, i, s, k)
  PROVE  Within(d, i, s, Colored(s, i, "gray"), 0)
<1> DEFINE t == Colored(s, i, "gray")
<1>1. /\ t \in Searches(d) /\ t.circular = s.circular
      /\ \A j \in 1..n : t.color[j] = IF j = i THEN "gray" ELSE s.color[j]
  <2>1. Repainted(n, s, t, i, "gray") /\ t \in Searches(d) /\ t.circular = s.circular
    BY ColoringSearches
  <2> HIDE DEF t
  <2> QED
    BY <2>1 DEF Repainted
<1> HIDE DEF t
<1>2. /\ \A as : Painted(s, as) = {j \in 1..n : s.color[j] = as}
      /\ \A as : Painted(t, as) = {j \in 1..n : t.color[j] = as}
  <2>1. Paints(n, s) /\ Paints(n, t)
    BY <1>1, PaintedAre
  <2> QED
    BY <2>1 DEF Paints
<1>3. Painted(t, "gray") = Painted(s, "gray") \cup {i} /\ Painted(t, "black") = Painted(s, "black")
  BY <1>1, <1>2 DEF MayVisit
<1>4. BlackIsDone(d, t)
  BY <1>3 DEF MayVisit, BlackIsDone
<1>5. ~t.circular /\ 1..0 = {}
  BY <1>1 DEF MayVisit
<1> QED
  BY <1>3, <1>4, <1>5 DEF Within, t

\* ... at each reference it finds a cycle that there is, or has the step it
\* names black ...
LEMMA MeetIsRight ==
  ASSUME NEW n, NEW d, IsGraph(d, n), NEW s \in Searches(d), NEW i \in 1..n,
         NEW deep \in Nat, MayVisit(n, d, i, s, deep + 1),
         NEW visit \in [Visits(d) -> Searches(d)], VisitsAreRight(n, d, visit, deep),
         NEW k \in 1..Len(d[i]), NEW t \in Searches(d), Within(d, i, s, t, k - 1)
  PROVE  Within(d, i, s, Meet(t, d[i][k], visit), k)
<1> DEFINE m == d[i][k]
           u == Meet(t, m, visit)
<1>1. /\ n \in Nat /\ Len(d[i]) \in Nat /\ DOMAIN d[i] = 1..Len(d[i])
      /\ ToSet(d[i]) = {d[i][p] : p \in 1..Len(d[i])}
      /\ ToSet(d[i]) \subseteq 1..n
  <2> DEFINE l == d[i]
             N == 1..n
  <2>1. n \in Nat /\ l \in Seq(N)
    BY GraphFacts
  <2> HIDE DEF N, l
  <2> QED
    BY <2>1, SeqIsFunction DEF N, l
<1>2. m \in ToSet(d[i]) /\ m \in 1..n
  BY <1>1
<1>3. m \in WaitsFor(d, i)
  BY <1>2, WaitsForDependencies
<1>4. /\ \A as : /\ Painted(s, as) = {j \in 1..n : s.color[j] = as}
                 /\ Painted(t, as) = {j \in 1..n : t.color[j] = as}
      /\ t.color[m] \in {"white", "gray", "black"} /\ s.circular \in BOOLEAN /\ t.circular \in BOOLEAN
  BY <1>2, PaintedAre DEF Paints
<1>5. \A p \in 1..k : p \in 1..(k - 1) \/ p = k
  BY <1>1
<1> HIDE DEF m
<1>6. CASE t.circular \/ t.color[m] = "black"
  <2>1. u = t
    BY <1>6 DEF Meet
  <2>2. ~t.circular => m \in Painted(t, "black")
    BY <1>2, <1>4, <1>6
  <2> QED
    BY <1>5, <2>1, <2>2 DEF Within, m
<1>7. CASE ~t.circular /\ t.color[m] = "gray"
  <2>1. u.circular = TRUE
    <3>1. u = [t EXCEPT !.circular = TRUE]
      BY <1>7 DEF Meet
    <3> QED
      BY <3>1 DEF Searches
  <2>2. m \in Painted(s, "gray") \cup {i}
    BY <1>2, <1>4, <1>7 DEF Within
  <2>3. i \in WaitsFor(d, i)
    <3>1. CASE m = i
      BY <1>3, <3>1
    <3>2. CASE m \in Painted(s, "gray")
      <4>1. i \in WaitsFor(d, m)
        BY <3>2 DEF MayVisit
      <4>2. WaitsFor(d, m) \subseteq WaitsFor(d, i)
        BY <1>3, WaitsForDependencies
      <4> QED
        BY <4>1, <4>2
    <3> QED
      BY <2>2, <3>1, <3>2
  <2>4. Cyclic(d)
    BY <2>3, GraphFacts DEF Cyclic
  <2> QED
    BY <2>1, <2>4 DEF Within, m
<1>8. CASE ~t.circular /\ t.color[m] = "white"
  <2>1. u = visit[[step |-> m, search |-> t]]
    BY <1>8 DEF Meet
  <2>2. /\ BlackIsDone(d, t) /\ Painted(t, "gray") = Painted(s, "gray") \cup {i}
        /\ Painted(s, "black") \subseteq Painted(t, "black")
        /\ \A p \in 1..(k - 1) : d[i][p] \in Painted(t, "black")
    BY <1>8 DEF Within
  <2>3. ASSUME NEW j \in Painted(t, "gray")
        PROVE  m \in WaitsFor(d, j)
    <3>1. CASE j = i
      BY <1>3, <3>1
    <3>2. CASE j \in Painted(s, "gray")
      <4>1. i \in WaitsFor(d, j) /\ j \in 1..n
        BY <1>4, <3>2 DEF MayVisit
      <4>2. WaitsFor(d, i) \subseteq WaitsFor(d, j)
        BY <4>1, WaitsForDependencies
      <4> QED
        BY <1>3, <4>2
    <3> QED
      BY <2>2, <3>1, <3>2
  <2>4. Cardinality(Painted(t, "white")) <= deep
    <3> DEFINE W == Painted(s, "white")
               V == Painted(t, "white")
    <3>1. i \in W /\ IsFiniteSet(W) /\ Cardinality(W) <= deep + 1
      BY <1>4, PaintedAre DEF MayVisit
    <3>2. V \subseteq W \ {i}
      <4>1. ASSUME NEW j \in V
            PROVE  j \in W /\ j # i
        <5>1. j \in 1..n /\ t.color[j] = "white"
          BY <1>4
        <5>2. j \notin Painted(t, "gray") /\ j \notin Painted(t, "black")
          BY <1>4, <5>1
        <5>3. j # i /\ j \notin Painted(s, "gray") /\ j \notin Painted(s, "black")
          BY <2>2, <5>2
        <5>4. s.color[j] \in {"white", "gray", "black"}
          BY <5>1, PaintedAre
        <5> QED
          BY <1>4, <5>1, <5>3, <5>4
      <4> QED
        BY <4>1
    <3> HIDE DEF W, V
    <3>3. IsFiniteSet(W \ {i}) /\ Cardinality(W \ {i}) = Cardinality(W) - 1
      BY <3>1, FS_RemoveElement
    <3>4. Cardinality(V) <= Cardinality(W \ {i}) /\ Cardinality(W) \in Nat
      BY <3>1, <3>2, <3>3, FS_Subset, FS_CardinalityType
    <3>5. Cardinality(V) \in Nat
      BY <3>2, <3>3, FS_Subset, FS_CardinalityType
    <3> QED
      BY <3>1, <3>3, <3>4, <3>5 DEF V
  <2>5. MayVisit(n, d, m, t, deep)
    BY <1>8, <2>2, <2>3, <2>4 DEF MayVisit
  <2>6. Visited(d, m, t, u)
    BY <1>2, <2>1, <2>5 DEF VisitsAreRight
  <2> HIDE DEF u
  <2>7. ASSUME ~u.circular
        PROVE  /\ BlackIsDone(d, u)
               /\ Painted(u, "gray") = Painted(s, "gray") \cup {i}
               /\ Painted(s, "black") \subseteq Painted(u, "black")
               /\ \A p \in 1..k : d[i][p] \in Painted(u, "black")
    <3>1. /\ BlackIsDone(d, u) /\ Painted(u, "gray") = Painted(t, "gray")
          /\ Painted(t, "black") \cup {m} \subseteq Painted(u, "black")
      BY <2>6, <2>7 DEF Visited
    <3> QED
      BY <1>5, <2>2, <3>1 DEF m
  <2> QED
    BY <2>6, <2>7 DEF Within, Visited, u, m
<1> QED
  BY <1>4, <1>6, <1>7, <1>8

\* ... and at the end its own step is black, with all it waits for.
LEMMA VisitEnds ==
  ASSUME NEW n, NEW d, IsGraph(d, n), NEW s \in Searches(d), NEW i \in 1..n, NEW k,
         MayVisit(n, d, i, s, k),
         NEW t \in Searches(d), Within(d, i, s, t, Len(d[i])), ~t.circular
  PROVE  Visited(d, i, s, Colored(t, i, "black"))
<1> DEFINE r == Colored(t, i, "black")
<1>1. /\ r \in Searches(d) /\ r.circular = t.circular
      /\ \A j \in 1..n : r.color[j] = IF j = i THEN "black" ELSE t.color[j]
  <2>1. Repainted(n, t, r, i, "black") /\ r \in Searches(d) /\ r.circular = t.circular
    BY ColoringSearches
  <2> HIDE DEF r
  <2> QED
    BY <2>1 DEF Repainted
<1> HIDE DEF r
<1>2. /\ \A as : Painted(s, as) = {j \in 1..n : s.color[j] = as}
      /\ \A as : Painted(t, as) = {j \in 1..n : t.color[j] = as}
      /\ \A as : Painted(r, as) = {j \in 1..n : r.color[j] = as}
  <2>1. Paints(n, s) /\ Paints(n, t) /\ Paints(n, r)
    BY <1>1, PaintedAre
  <2> QED
    BY <2>1 DEF Paints
<1>3. /\ BlackIsDone(d, t) /\ Painted(t, "gray") = Painted(s, "gray") \cup {i}
      /\ Painted(s, "black") \subseteq Painted(t, "black")
      /\ \A p \in 1..Len(d[i]) : d[i][p] \in Painted(t, "black")
  BY DEF Within
<1>4. i \in Painted(t, "gray") /\ i \notin Painted(t, "black") /\ i \notin Painted(s, "gray")
  <2>1. s.color[i] = "white"
    BY DEF MayVisit
  <2>2. i \in Painted(t, "gray")
    BY <1>3
  <2> QED
    BY <1>2, <2>1, <2>2
<1>5. /\ Painted(r, "black") = Painted(t, "black") \cup {i}
      /\ Painted(r, "gray") = Painted(t, "gray") \ {i}
  BY <1>1, <1>2
<1>6. ToSet(d[i]) \subseteq Painted(t, "black")
  <2> DEFINE l == d[i]
             N == 1..n
  <2>1. l \in Seq(N)
    BY GraphFacts
  <2> HIDE DEF N, l
  <2>2. ToSet(l) = {l[p] : p \in 1..Len(l)}
    BY <2>1, SeqIsFunction
  <2> QED
    BY <1>3, <2>2 DEF l
<1>7. i \notin WaitsFor(d, i)
  <2> DEFINE C == Painted(t, "black")
  <2>1. C \in SUBSET (1..n)
    BY <1>2
  <2>2. \A c \in C \cup {i} : ToSet(d[c]) \subseteq C
    BY <1>3, <1>6 DEF BlackIsDone
  <2> HIDE DEF C
  <2>3. WaitsFor(d, i) \subseteq C
    BY <2>1, <2>2, WaitsForDependencies
  <2> QED
    BY <1>4, <2>3 DEF C
<1>8. BlackIsDone(d, r)
  BY <1>3, <1>5, <1>6, <1>7 DEF BlackIsDone
<1> QED
  BY <1>1, <1>3, <1>4, <1>5, <1>8, ZenonT(40) DEF Visited, r

\* A call is right when the calls it makes are.
LEMMA VisitIsRight ==
  ASSUME NEW n, NEW d, IsGraph(d, n), NEW s \in Searches(d), NEW i \in 1..n,
         NEW visit \in [Visits(d) -> Searches(d)]
  PROVE  /\ Visit(d, [step |-> i, search |-> s], visit) \in Searches(d)
         /\ \A deep \in Nat :
              MayVisit(n, d, i, s, deep + 1) /\ VisitsAreRight(n, d, visit, deep)
                => Visited(d, i, s, Visit(d, [step |-> i, search |-> s], visit))
<1> DEFINE m == Len(d[i])
           r == Visit(d, [step |-> i, search |-> s], visit)
<1>1. PICK through :
        /\ Goes(d, i, s, visit, through)
        /\ r = IF through[m].circular THEN through[m] ELSE Colored(through[m], i, "black")
  BY VisitGoes
<1>2. m \in Nat
  <2> DEFINE N == 1..n
             l == d[i]
  <2>1. l \in Seq(N)
    BY GraphFacts
  <2> HIDE DEF N, l
  <2> QED
    BY <2>1, SeqIsFunction DEF l
<1>3. /\ through[0] = Colored(s, i, "gray")
      /\ \A k \in 1..m : through[k] = Meet(through[k - 1], d[i][k], visit)
      /\ \A k \in 0..m : through[k] \in Searches(d)
  BY <1>1 DEF Goes
<1> HIDE DEF m, r
<1>4. r \in Searches(d)
  <2>1. m \in 0..m
    BY <1>2
  <2>2. through[m] \in Searches(d) /\ Colored(through[m], i, "black") \in Searches(d)
    BY <1>3, <2>1, ColoringSearches
  <2> QED
    BY <1>1, <2>2
<1>5. ASSUME NEW deep \in Nat, MayVisit(n, d, i, s, deep + 1), VisitsAreRight(n, d, visit, deep)
      PROVE  Visited(d, i, s, r)
  <2> DEFINE H == {k \in 0..m : Within(d, i, s, through[k], k)}
  <2>1. 0 \in H
    <3>1. Within(d, i, s, Colored(s, i, "gray"), 0)
      BY <1>5, VisitStarts
    <3> QED
      BY <1>2, <1>3, <3>1
  <2>2. ASSUME NEW k \in 1..m, k - 1 \in H
        PROVE  k \in H
    <3>1. k - 1 \in 0..m /\ k \in 0..m /\ k \in 1..Len(d[i])
      BY <1>2 DEF m
    <3>2. Within(d, i, s, through[k - 1], k - 1) /\ through[k - 1] \in Searches(d)
      BY <1>3, <2>2, <3>1
    <3>3. Within(d, i, s, Meet(through[k - 1], d[i][k], visit), k)
      BY <1>5, <3>1, <3>2, MeetIsRight
    <3> QED
      BY <1>3, <3>1, <3>3
  <2> HIDE DEF H
  <2>3. \A k \in 0..m : k \in H
    BY <1>2, <2>1, <2>2, BoundedInduction
  <2>4. m \in 0..m
    BY <1>2
  <2>5. Within(d, i, s, through[m], m) /\ through[m] \in Searches(d)
    BY <1>3, <2>3, <2>4 DEF H
  <2>6. CASE through[m].circular
    BY <1>1, <2>5, <2>6 DEF Within, Visited
  <2>7. CASE ~through[m].circular
    <3>1. Visited(d, i, s, Colored(through[m], i, "black"))
      BY <1>5, <2>5, <2>7, VisitEnds DEF m
    <3> QED
      BY <1>1, <2>7, <3>1
  <2> QED
    BY <2>6, <2>7
<1> QED
  BY <1>4, <1>5 DEF r

\* The calls, by how deep they may go.
Deepening(d, n, visit) ==
  /\ \A k \in 0..n : visit[k] \in [Visits(d) -> Searches(d)]
  /\ \A k \in 1..n : \A c \in Visits(d) : visit[k][c] = Visit(d, c, visit[k - 1])

AnyVisit(d) == [c \in Visits(d) |-> c.search]
NextVisit(d, visit) == [c \in Visits(d) |-> Visit(d, c, visit)]

\* The calls and what they return.
LEMMA VisitsAreSearches ==
  ASSUME NEW n, NEW d, IsGraph(d, n)
  PROVE  /\ AnyVisit(d) \in [Visits(d) -> Searches(d)]
         /\ \A visit \in [Visits(d) -> Searches(d)] : NextVisit(d, visit) \in [Visits(d) -> Searches(d)]
         /\ \A c \in Visits(d) : /\ c.step \in 1..n /\ c.search \in Searches(d)
                                 /\ c = [step |-> c.step, search |-> c.search]
<1>1. DOMAIN d = 1..n
  BY GraphFacts
<1>2. ASSUME NEW c \in Visits(d)
      PROVE  c.step \in 1..n /\ c.search \in Searches(d) /\ c = [step |-> c.step, search |-> c.search]
  <2> DEFINE S == Searches(d)
             N == 1..n
  <2> HIDE DEF S, N
  <2>1. c \in [step : N, search : S]
    BY <1>1 DEF Visits, S, N
  <2> QED
    BY <2>1 DEF S, N
<1>3. AnyVisit(d) \in [Visits(d) -> Searches(d)]
  BY <1>2 DEF AnyVisit
<1>4. ASSUME NEW visit \in [Visits(d) -> Searches(d)]
      PROVE  NextVisit(d, visit) \in [Visits(d) -> Searches(d)]
  <2>1. ASSUME NEW c \in Visits(d)
        PROVE  Visit(d, c, visit) \in Searches(d)
    <3>1. c.step \in 1..n /\ c.search \in Searches(d) /\ c = [step |-> c.step, search |-> c.search]
      BY <1>2
    <3>2. Visit(d, [step |-> c.step, search |-> c.search], visit) \in Searches(d)
      BY <3>1, VisitIsRight
    <3> QED
      BY <3>1, <3>2
  <2> QED
    BY <2>1 DEF NextVisit
<1> QED
  BY <1>2, <1>3, <1>4

\* The searches from the steps up to one.
Covers(d, n, visit, upTo) ==
  /\ upTo[0] = [color |-> [i \in DOMAIN d |-> "white"], circular |-> FALSE]
  /\ \A k \in 1..n : upTo[k] = IF upTo[k - 1].circular \/ upTo[k - 1].color[k] # "white" THEN upTo[k - 1]
                               ELSE visit[n][[step |-> k, search |-> upTo[k - 1]]]
  /\ \A k \in 0..n : upTo[k] \in Searches(d)

\* The search (interpolation.go:412-462), as the calls that go deeper and
\* deeper and the steps it starts from.
LEMMA DetectionRuns ==
  ASSUME NEW n, NEW d, IsGraph(d, n)
  PROVE  \E visit, upTo : /\ Deepening(d, n, visit) /\ Covers(d, n, visit, upTo)
                          /\ DetectCircularRefs(d) = upTo[n].circular
<1> DEFINE F == [Visits(d) -> Searches(d)]
           next(r) == [k \in 0..n |-> [c \in Visits(d) |-> IF k = 0 THEN c.search
                                                           ELSE Visit(d, c, r[k - 1])]]
           visit == CHOOSE r : r = next(r)
           first == [color |-> [i \in DOMAIN d |-> "white"], circular |-> FALSE]
           onward(t, k) == IF t.circular \/ t.color[k] # "white" THEN t
                           ELSE visit[n][[step |-> k, search |-> t]]
           after(r) == [k \in 0..n |-> IF k = 0 THEN first ELSE onward(r[k - 1], k)]
           upTo == CHOOSE r : r = after(r)
<1>0. n \in Nat /\ DOMAIN d = 1..n /\ Len(d) = n
  BY GraphFacts
<1>1. DetectCircularRefs(d) = upTo[n].circular
  BY <1>0 DEF DetectCircularRefs
<1> HIDE DEF upTo, visit
<1>2. Deepening(d, n, visit)
  <2> DEFINE step == [k \in 1..n |-> [g \in F |-> NextVisit(d, g)]]
  <2>1. \A g : NextVisit(d, g) = [c \in Visits(d) |-> Visit(d, c, g)]
    BY DEF NextVisit
  <2>2. AnyVisit(d) \in F /\ \A g \in F : NextVisit(d, g) \in F
    BY VisitsAreSearches
  <2> HIDE DEF F
  <2>3. \A k \in 1..n : \A g \in F : step[k][g] = NextVisit(d, g)
    OBVIOUS
  <2> HIDE DEF step
  <2>4. \E g : Iterates(g, F, AnyVisit(d), step, n)
    <3>1. \A k \in 1..n : \A g \in F : step[k][g] \in F
      BY <2>2, <2>3
    <3> QED
      BY <1>0, <2>2, <3>1, BoundedRecursion
  <2>5. PICK g : /\ g \in [0..n -> F] /\ g[0] = AnyVisit(d)
                 /\ \A k \in 1..n : g[k] = step[k][g[k - 1]]
    BY <2>4 DEF Iterates
  <2>6. \A k \in 1..n : g[k] = NextVisit(d, g[k - 1])
    <3> SUFFICES ASSUME NEW k \in 1..n
                 PROVE  g[k] = NextVisit(d, g[k - 1])
      OBVIOUS
    <3>1. k - 1 \in 0..n
      BY <1>0
    <3> QED
      BY <2>3, <2>5, <3>1
  <2>7. g = next(g)
    <3>1. ASSUME NEW k \in 0..n
          PROVE  g[k] = [c \in Visits(d) |-> IF k = 0 THEN c.search ELSE Visit(d, c, g[k - 1])]
      <4>1. CASE k = 0
        BY <2>5, <4>1 DEF AnyVisit
      <4>2. CASE k # 0
        <5>1. k \in 1..n
          BY <1>0, <4>2
        <5>2. g[k] = NextVisit(d, g[k - 1])
          BY <2>6, <5>1
        <5> QED
          BY <4>2, <5>2 DEF NextVisit
      <4> QED
        BY <4>1, <4>2
    <3> QED
      BY <2>5, <3>1
  <2>8. visit = next(visit)
    <3> HIDE DEF next
    <3>1. \E r : r = next(r)
      BY <2>7
    <3> QED
      BY <3>1 DEF visit
  <2>9. /\ visit[0] = AnyVisit(d)
        /\ \A k \in 1..n : visit[k] = NextVisit(d, visit[k - 1])
    <3>1. 0 \in 0..n /\ \A k \in 1..n : k \in 0..n /\ k # 0
      BY <1>0
    <3>2. visit[0] = [c \in Visits(d) |-> c.search]
      BY <2>8, <3>1
    <3>3. ASSUME NEW k \in 1..n
          PROVE  visit[k] = [c \in Visits(d) |-> Visit(d, c, visit[k - 1])]
      BY <2>8, <3>1
    <3> QED
      BY <3>2, <3>3 DEF AnyVisit, NextVisit
  <2> HIDE DEF next
  <2> DEFINE H == {k \in 0..n : visit[k] \in F}
  <2>10. 0 \in H
    BY <1>0, <2>2, <2>9
  <2>11. ASSUME NEW k \in 1..n, k - 1 \in H
         PROVE  k \in H
    <3>1. visit[k - 1] \in F
      BY <2>11
    <3> QED
      BY <1>0, <2>2, <2>9, <3>1
  <2> HIDE DEF H
  <2>12. \A k \in 0..n : k \in H
    BY <1>0, <2>10, <2>11, BoundedInduction
  <2>13. \A k \in 0..n : visit[k] \in F
    BY <2>12 DEF H
  <2>14. \A k \in 1..n : \A c \in Visits(d) : visit[k][c] = Visit(d, c, visit[k - 1])
    BY <2>9 DEF NextVisit
  <2> QED
    BY <2>13, <2>14 DEF Deepening, F
<1>3. Covers(d, n, visit, upTo)
  <2> DEFINE S == Searches(d)
             step == [k \in 1..n |-> [t \in S |-> onward(t, k)]]
  <2>1. first \in S
    BY DEF Searches
  <2>2. ASSUME NEW t \in S, NEW k \in 1..n
        PROVE  onward(t, k) \in S
    <3>1. visit[n] \in [Visits(d) -> Searches(d)]
      BY <1>0, <1>2 DEF Deepening
    <3>2. [step |-> k, search |-> t] \in Visits(d)
      BY <1>0 DEF Visits
    <3> QED
      BY <3>1, <3>2
  <2>3. \A k \in 1..n : \A t \in S : step[k][t] = onward(t, k)
    OBVIOUS
  <2>4. \A t, k : onward(t, k) = IF t.circular \/ t.color[k] # "white" THEN t
                                 ELSE visit[n][[step |-> k, search |-> t]]
    OBVIOUS
  <2> HIDE DEF S, first, onward, step
  <2>5. \E g : Iterates(g, S, first, step, n)
    <3>1. \A k \in 1..n : \A t \in S : step[k][t] \in S
      BY <2>2, <2>3
    <3> QED
      BY <1>0, <2>1, <3>1, BoundedRecursion
  <2>6. PICK g : /\ g \in [0..n -> S] /\ g[0] = first
                 /\ \A k \in 1..n : g[k] = step[k][g[k - 1]]
    BY <2>5 DEF Iterates
  <2>7. g = after(g)
    <3>1. ASSUME NEW k \in 0..n
          PROVE  g[k] = IF k = 0 THEN first ELSE onward(g[k - 1], k)
      <4>1. CASE k = 0
        BY <2>6, <4>1
      <4>2. CASE k # 0
        <5>1. k \in 1..n /\ k - 1 \in 0..n
          BY <1>0, <4>2
        <5> QED
          BY <2>3, <2>6, <4>2, <5>1
      <4> QED
        BY <4>1, <4>2
    <3> QED
      BY <2>6, <3>1
  <2>8. upTo = after(upTo)
    <3> HIDE DEF after
    <3>1. \E r : r = after(r)
      BY <2>7
    <3> QED
      BY <3>1 DEF upTo
  <2>9. upTo[0] = first /\ \A k \in 1..n : upTo[k] = onward(upTo[k - 1], k)
    <3>1. 0 \in 0..n /\ \A k \in 1..n : k \in 0..n /\ k # 0
      BY <1>0
    <3> QED
      BY <2>8, <3>1
  <2> HIDE DEF after
  <2> DEFINE H == {k \in 0..n : upTo[k] \in S}
  <2>10. 0 \in H
    BY <1>0, <2>1, <2>9
  <2>11. ASSUME NEW k \in 1..n, k - 1 \in H
         PROVE  k \in H
    <3>1. upTo[k - 1] \in S
      BY <2>11
    <3> QED
      BY <1>0, <2>2, <2>9, <3>1
  <2> HIDE DEF H
  <2>12. \A k \in 0..n : k \in H
    BY <1>0, <2>10, <2>11, BoundedInduction
  <2>13. \A k \in 0..n : upTo[k] \in S
    BY <2>12 DEF H
  <2> QED
    BY <2>4, <2>9, <2>13 DEF Covers, S, first
<1> QED
  BY <1>1, <1>2, <1>3

\* A visit that may go as deep as there are steps is right.
LEMMA EveryVisitIsRight ==
  ASSUME NEW n, NEW d, IsGraph(d, n), NEW visit, Deepening(d, n, visit)
  PROVE  VisitsAreRight(n, d, visit[n], n)
<1>0. n \in Nat /\ DOMAIN d = 1..n
  BY GraphFacts
<1>1. /\ \A k \in 0..n : visit[k] \in [Visits(d) -> Searches(d)]
      /\ \A k \in 1..n : \A c \in Visits(d) : visit[k][c] = Visit(d, c, visit[k - 1])
  BY DEF Deepening
<1> DEFINE H == {k \in 0..n : VisitsAreRight(n, d, visit[k], k)}
<1>2. 0 \in H
  <2>1. ASSUME NEW i \in 1..n, NEW s \in Searches(d)
        PROVE  ~MayVisit(n, d, i, s, 0)
    <3> SUFFICES ASSUME MayVisit(n, d, i, s, 0)
                 PROVE  FALSE
      OBVIOUS
    <3> DEFINE W == Painted(s, "white")
    <3>1. IsFiniteSet(W) /\ Paints(n, s)
      BY PaintedAre
    <3>2. i \in W
      BY <3>1 DEF Paints, MayVisit
    <3>3. Cardinality(W) <= 0
      BY DEF MayVisit
    <3> HIDE DEF W
    <3>4. Cardinality(W) \in Nat /\ Cardinality(W) # 0
      BY <3>1, <3>2, FS_CardinalityType, FS_EmptySet
    <3> QED
      BY <3>3, <3>4
  <2>2. VisitsAreRight(n, d, visit[0], 0)
    BY <2>1 DEF VisitsAreRight
  <2> QED
    BY <1>0, <2>2
<1>3. ASSUME NEW k \in 1..n, k - 1 \in H
      PROVE  k \in H
  <2>1. k - 1 \in Nat /\ (k - 1) + 1 = k /\ k - 1 \in 0..n /\ k \in 0..n
    BY <1>0
  <2>2. visit[k - 1] \in [Visits(d) -> Searches(d)] /\ VisitsAreRight(n, d, visit[k - 1], k - 1)
    BY <1>1, <1>3, <2>1
  <2>3. ASSUME NEW i \in 1..n, NEW s \in Searches(d), MayVisit(n, d, i, s, k)
        PROVE  Visited(d, i, s, visit[k][[step |-> i, search |-> s]])
    <3>1. [step |-> i, search |-> s] \in Visits(d)
      BY <1>0 DEF Visits
    <3>2. visit[k][[step |-> i, search |-> s]] = Visit(d, [step |-> i, search |-> s], visit[k - 1])
      BY <1>1, <3>1
    <3> DEFINE deep == k - 1
    <3>3. deep \in Nat /\ MayVisit(n, d, i, s, deep + 1) /\ VisitsAreRight(n, d, visit[k - 1], deep)
      BY <2>1, <2>2, <2>3
    <3> HIDE DEF deep
    <3>4. Visited(d, i, s, Visit(d, [step |-> i, search |-> s], visit[k - 1]))
      BY <2>2, <3>3, VisitIsRight
    <3> QED
      BY <3>2, <3>4
  <2> QED
    BY <2>1, <2>3 DEF VisitsAreRight
<1> HIDE DEF H
<1>4. \A k \in 0..n : k \in H
  BY <1>0, <1>2, <1>3, BoundedInduction
<1>5. n \in 0..n
  BY <1>0
<1> QED
  BY <1>4, <1>5 DEF H

\* interpolation.go:412-462: an error is a cycle, and a cycle an error.
LEMMA CircularAreFound ==
  ASSUME NEW n, NEW d, IsGraph(d, n)
  PROVE  DetectCircularRefs(d) <=> Cyclic(d)
<1>0. n \in Nat /\ DOMAIN d = 1..n /\ IsFiniteSet(1..n) /\ Cardinality(1..n) = n
  BY GraphFacts
<1>1. PICK visit, upTo : /\ Deepening(d, n, visit) /\ Covers(d, n, visit, upTo)
                         /\ DetectCircularRefs(d) = upTo[n].circular
  BY DetectionRuns
<1>2. VisitsAreRight(n, d, visit[n], n)
  BY <1>1, EveryVisitIsRight
<1>3. /\ upTo[0] = [color |-> [i \in DOMAIN d |-> "white"], circular |-> FALSE]
      /\ \A k \in 1..n : upTo[k] = IF upTo[k - 1].circular \/ upTo[k - 1].color[k] # "white" THEN upTo[k - 1]
                                   ELSE visit[n][[step |-> k, search |-> upTo[k - 1]]]
      /\ \A k \in 0..n : upTo[k] \in Searches(d)
  BY <1>1 DEF Covers
<1>4. \A k \in 0..n : /\ Painted(upTo[k], "black") = {i \in 1..n : upTo[k].color[i] = "black"}
                      /\ Painted(upTo[k], "gray") = {i \in 1..n : upTo[k].color[i] = "gray"}
                      /\ Painted(upTo[k], "white") \subseteq 1..n
                      /\ \A i \in 1..n : upTo[k].color[i] \in {"white", "gray", "black"}
                      /\ upTo[k].circular \in BOOLEAN
  <2> SUFFICES ASSUME NEW k \in 0..n
               PROVE  /\ Painted(upTo[k], "black") = {i \in 1..n : upTo[k].color[i] = "black"}
                      /\ Painted(upTo[k], "gray") = {i \in 1..n : upTo[k].color[i] = "gray"}
                      /\ Painted(upTo[k], "white") \subseteq 1..n
                      /\ \A i \in 1..n : upTo[k].color[i] \in {"white", "gray", "black"}
                      /\ upTo[k].circular \in BOOLEAN
    OBVIOUS
  <2> DEFINE s == upTo[k]
  <2>1. s \in Searches(d)
    BY <1>3
  <2> HIDE DEF s
  <2>2. Paints(n, s) /\ s.circular \in BOOLEAN
        /\ \A i \in 1..n : s.color[i] \in {"white", "gray", "black"}
    BY <2>1, PaintedAre
  <2>3. Painted(s, "white") \subseteq 1..n
    BY <2>2 DEF Paints
  <2> QED
    BY <2>2, <2>3 DEF Paints, s
<1> DEFINE Good(k) == /\ upTo[k].circular => Cyclic(d)
                      /\ ~upTo[k].circular => /\ BlackIsDone(d, upTo[k])
                                              /\ Painted(upTo[k], "gray") = {}
                                              /\ 1..k \subseteq Painted(upTo[k], "black")
           H == {k \in 0..n : Good(k)}
<1>5. 0 \in H
  <2>1. 0 \in 0..n /\ 1..0 = {}
    BY <1>0
  <2>2. \A i \in 1..n : upTo[0].color[i] = "white"
    BY <1>0, <1>3
  <2>3. upTo[0].circular = FALSE
    BY <1>3
  <2>4. Painted(upTo[0], "black") = {} /\ Painted(upTo[0], "gray") = {}
    BY <1>4, <2>1, <2>2
  <2> QED
    BY <2>1, <2>3, <2>4 DEF BlackIsDone
<1>6. ASSUME NEW k \in 1..n, k - 1 \in H
      PROVE  k \in H
  <2> DEFINE s == upTo[k - 1]
             t == upTo[k]
  <2>1. k - 1 \in 0..n /\ k \in 0..n /\ \A p \in 1..k : p \in 1..(k - 1) \/ p = k
    BY <1>0
  <2>2. /\ s \in Searches(d) /\ t \in Searches(d)
        /\ s.color[k] \in {"white", "gray", "black"} /\ s.circular \in BOOLEAN
    BY <1>3, <1>4, <2>1
  <2>3. Good(k - 1)
    BY <1>6
  <2>4. t = IF s.circular \/ s.color[k] # "white" THEN s ELSE visit[n][[step |-> k, search |-> s]]
    BY <1>3
  <2>5. CASE s.circular
    <3>1. t = s
      BY <2>4, <2>5
    <3>2. Good(k)
      BY <2>3, <2>5, <3>1
    <3> QED
      BY <2>1, <3>2
  <2>6. CASE ~s.circular /\ s.color[k] # "white"
    <3>1. t = s
      BY <2>4, <2>6
    <3>2. Painted(s, "gray") = {} /\ 1..(k - 1) \subseteq Painted(s, "black") /\ BlackIsDone(d, s)
      BY <2>3, <2>6
    <3>3. k \in Painted(s, "black")
      BY <1>4, <2>1, <2>2, <2>6, <3>2
    <3>4. 1..k \subseteq Painted(s, "black")
      BY <2>1, <3>2, <3>3
    <3>5. Good(k)
      BY <2>6, <3>1, <3>2, <3>4
    <3> QED
      BY <2>1, <3>5
  <2>7. CASE ~s.circular /\ s.color[k] = "white"
    <3>1. t = visit[n][[step |-> k, search |-> s]]
      BY <2>4, <2>7
    <3>2. Painted(s, "gray") = {} /\ 1..(k - 1) \subseteq Painted(s, "black") /\ BlackIsDone(d, s)
      BY <2>3, <2>7
    <3>3. Cardinality(Painted(s, "white")) <= n
      <4> DEFINE W == Painted(s, "white")
                 N == 1..n
      <4>1. W \subseteq N /\ IsFiniteSet(N) /\ Cardinality(N) = n
        BY <1>0, <1>4, <2>1
      <4> HIDE DEF W, N
      <4>2. Cardinality(W) <= n
        BY <4>1, FS_Subset
      <4> QED
        BY <4>2 DEF W
    <3> HIDE DEF s, t
    <3>4. MayVisit(n, d, k, s, n)
      BY <2>7, <3>2, <3>3 DEF MayVisit
    <3>5. Visited(d, k, s, t)
      BY <1>2, <2>2, <3>1, <3>4 DEF VisitsAreRight
    <3>6. /\ t.circular => Cyclic(d)
          /\ ~t.circular => /\ BlackIsDone(d, t) /\ Painted(t, "gray") = {}
                            /\ 1..k \subseteq Painted(t, "black")
      BY <2>1, <3>2, <3>5 DEF Visited
    <3> QED
      BY <2>1, <3>6 DEF t
  <2> QED
    BY <2>2, <2>5, <2>6, <2>7
<1> HIDE DEF H
<1>7. \A k \in 0..n : k \in H
  BY <1>0, <1>5, <1>6, BoundedInduction
<1>8. n \in 0..n
  BY <1>0
<1>9. Good(n)
  BY <1>7, <1>8 DEF H
<1>10. CASE upTo[n].circular
  BY <1>1, <1>9, <1>10
<1>11. CASE ~upTo[n].circular
  <2>1. BlackIsDone(d, upTo[n]) /\ 1..n \subseteq Painted(upTo[n], "black")
    BY <1>9, <1>11
  <2>2. ~Cyclic(d)
    BY <1>0, <2>1 DEF Cyclic, BlackIsDone
  <2> QED
    BY <1>1, <1>11, <2>2
<1> QED
  BY <1>10, <1>11

-----------------------------------------------------------------------------

\* What a parse and a check leave is about the definition there is.
GraphInv ==
  /\ definition \in Definitions
  /\ dag = NotParsed \/ dag = ParseDAG(definition)
  /\ checked = NotChecked \/ checked = ValidateDAG(definition)

\* The inductive invariant of the graph.
LEMMA GraphKeeps == GraphSpec => []GraphInv
<1>1. GraphInit => GraphInv
  BY DEF GraphInit, GraphInv
<1>2. GraphInv /\ [GraphNext]_graphVars => GraphInv'
  <2> SUFFICES ASSUME GraphInv, [GraphNext]_graphVars
               PROVE  GraphInv'
    OBVIOUS
  <2>1. CASE Parse
    BY <2>1 DEF GraphInv, Parse
  <2>2. CASE Validate
    BY <2>2 DEF GraphInv, Validate
  <2>3. CASE UNCHANGED graphVars
    BY <2>3 DEF GraphInv, graphVars
  <2> QED
    BY <2>1, <2>2, <2>3 DEF GraphNext
<1> QED
  BY <1>1, <1>2, PTL DEF GraphSpec

\* The three searches for cycles, the engine's, the validator's and the one over
\* params, find those there are and no other, in a definition of any size.
THEOREM CyclesAreAlwaysFound == GraphSpec => []CyclesAreFound
<1>1. ASSUME GraphInv
      PROVE  CyclesAreFound
  <2>1. PICK n : IsDefinition(definition, n)
    BY <1>1, DefinitionsAre DEF GraphInv
  <2>2. AcceptsAcyclic
    <3>1. CASE dag = NotParsed
      BY <3>1 DEF AcceptsAcyclic, Parsed
    <3>2. CASE dag = ParseDAG(definition)
      BY <2>1, <3>2, ParsedAre DEF AcceptsAcyclic
    <3> QED
      BY <1>1, <3>1, <3>2 DEF GraphInv
  <2>3. CheckAgrees
    <3>1. CASE checked = NotChecked
      BY <3>1 DEF CheckAgrees, NotChecked
    <3>2. CASE checked = ValidateDAG(definition)
      BY <2>1, <3>2, ChecksAre DEF CheckAgrees
    <3> QED
      BY <1>1, <3>1, <3>2 DEF GraphInv
  <2>4. CircularMeansCycle
    <3>1. IsGraph(Known(definition), n)
      BY <2>1, DefinitionsAreGraphs
    <3> QED
      BY <3>1, CircularAreFound DEF CircularMeansCycle
  <2> QED
    BY <2>2, <2>3, <2>4 DEF CyclesAreFound
<1> QED
  BY <1>1, GraphKeeps, PTL

\* Every step of a parsed definition is in one level, after all it waits for and
\* right after one of them, whatever the definition's size.
THEOREM LevelsAlwaysRespectWaits == GraphSpec => []LevelsRespectWaits
<1>1. ASSUME GraphInv
      PROVE  LevelsRespectWaits
  <2> SUFFICES ASSUME Parsed, dag.error = "none"
               PROVE  LevelsRespectWaits
    BY DEF LevelsRespectWaits
  <2>1. PICK n : IsDefinition(definition, n)
    BY <1>1, DefinitionsAre DEF GraphInv
  <2>2. dag = ParseDAG(definition) /\ DOMAIN definition = 1..n
    BY <1>1, <2>1 DEF GraphInv, Parsed, IsDefinition
  <2>3. PICK depth \in [1..n -> Nat] :
          /\ \A i \in 1..n : \A j \in WaitsFor(definition, i) : depth[j] < depth[i]
          /\ \A i \in 1..n : depth[i] # 0 =>
               \E j \in WaitsFor(definition, i) : depth[j] = depth[i] - 1
          /\ \A i \in 1..n : InLevels(dag.levels, i) = {depth[i] + 1}
    <3>1. PICK depth \in [1..n -> Nat] : LevelledBy(n, definition, dag.levels, depth)
      BY <2>1, <2>2, LevelsAreBelow
    <3> QED
      BY <3>1 DEF LevelledBy
  <2> DEFINE in(i) == {l \in DOMAIN dag.levels : Contains(dag.levels[l], i)}
             level(i) == CHOOSE l \in in(i) : TRUE
  <2>4. \A i \in 1..n : in(i) = {depth[i] + 1}
    BY <2>3 DEF InLevels
  <2>5. \A i \in 1..n : level(i) = depth[i] + 1
    BY <2>4
  <2>6. \A i \in 1..n : Cardinality(in(i)) = 1
    BY <2>4, FS_Singleton
  <2> HIDE DEF in, level
  <2>7. \A i \in 1..n : WaitsFor(definition, i) \subseteq 1..n
    BY <2>2 DEF WaitsFor
  <2>8. ASSUME NEW i \in DOMAIN definition
        PROVE  /\ Cardinality(in(i)) = 1
               /\ \A j \in WaitsFor(definition, i) : level(j) < level(i)
               /\ level(i) # 1 => \E j \in WaitsFor(definition, i) : level(j) = level(i) - 1
    <3>1. i \in 1..n /\ \A j \in 1..n : depth[j] \in Nat
      BY <2>2, <2>3
    <3>2. \A j \in WaitsFor(definition, i) : level(j) < level(i)
      BY <2>3, <2>5, <2>7, <3>1
    <3>3. ASSUME level(i) # 1
          PROVE  \E j \in WaitsFor(definition, i) : level(j) = level(i) - 1
      <4>1. depth[i] # 0 /\ level(i) = depth[i] + 1
        BY <2>5, <3>1, <3>3
      <4>2. PICK j \in WaitsFor(definition, i) : depth[j] = depth[i] - 1
        BY <2>3, <3>1, <4>1
      <4>3. level(j) = depth[j] + 1
        BY <2>5, <2>7, <3>1, <4>2
      <4> QED
        BY <3>1, <4>1, <4>2, <4>3
    <3> QED
      BY <2>6, <3>1, <3>2, <3>3
  <2> QED
    BY <2>8 DEF LevelsRespectWaits, in, level
<1> QED
  BY <1>1, GraphKeeps, PTL

-----------------------------------------------------------------------------
(* Interpolation. *)

\* A list of tokens, of whatever they are.
LEMMA SequencesAreSeq ==
  ASSUME NEW s
  PROVE  /\ \A S : s \in Seq(S) => IsSeq(s)
         /\ IsSeq(s) => Len(s) \in Nat /\ DOMAIN s = 1..Len(s)
<1>1. ASSUME NEW S, s \in Seq(S)
      PROVE  IsSeq(s)
  <2>1. Len(s) \in Nat /\ DOMAIN s = 1..Len(s) /\ s = [i \in 1..Len(s) |-> s[i]]
    BY <1>1, LenProperties, SeqDef
  <2> DEFINE E == {s[i] : i \in DOMAIN s}
  <2>2. s \in [1..Len(s) -> E]
    BY <2>1
  <2> HIDE DEF E
  <2>3. s \in Seq(E)
    BY <2>1, <2>2, IsASeq
  <2> QED
    BY <2>3 DEF IsSeq, E
<1>2. IsSeq(s) => Len(s) \in Nat /\ DOMAIN s = 1..Len(s)
  BY LenProperties DEF IsSeq
<1> QED
  BY <1>1, <1>2

\* What the traversal of a path passes through (interpolation.go:309-339).
Passes(d, root, path) ==
  d = [n \in 0..Len(path) |-> IF n = 0 THEN root ELSE FieldOf(d[n - 1], path[n])]

\* traversePath (interpolation.go:309-339) passes through a value for each
\* segment, and they are all of its kind.
LEMMA TraversePasses ==
  ASSUME NEW T, NEW root \in T, \A v \in T : \A segment : FieldOf(v, segment) \in T,
         NEW path, IsSeq(path)
  PROVE  \E d : /\ Passes(d, root, path) /\ Traverse(root, path) = d[Len(path)]
                /\ \A n \in 0..Len(path) : d[n] \in T
<1>0. Len(path) \in Nat
  BY SequencesAreSeq
<1> DEFINE field == [k \in Nat |-> [v \in T |-> FieldOf(v, path[k + 1])]]
<1>1. field \in [Nat -> [T -> T]]
  OBVIOUS
<1> DEFINE m == Len(path)
<1> HIDE DEF field, m
<1>2. PICK g : Computes(g, T, root, field, m)
  BY <1>0, <1>1, ComputationExists DEF m
<1>3. Passes(g, root, path)
  <2>1. g \in [0..m -> T] /\ g[0] = root /\ \A k \in 0..(m - 1) : g[k + 1] = field[k][g[k]]
    BY <1>2 DEF Computes
  <2>2. ASSUME NEW n \in 0..m, n # 0
        PROVE  g[n] = FieldOf(g[n - 1], path[n])
    <3>1. n - 1 \in 0..(m - 1) /\ n - 1 \in 0..m /\ n - 1 \in Nat /\ (n - 1) + 1 = n
      BY <1>0, <2>2 DEF m
    <3>2. g[n - 1] \in T /\ g[n] = field[n - 1][g[n - 1]]
      <4>1. g[(n - 1) + 1] = field[n - 1][g[n - 1]]
        BY <2>1, <3>1
      <4> QED
        BY <2>1, <3>1, <4>1
    <3>3. field[n - 1][g[n - 1]] = FieldOf(g[n - 1], path[(n - 1) + 1])
      BY <3>1, <3>2 DEF field
    <3> QED
      BY <3>1, <3>2, <3>3
  <2>3. \A n \in 0..m : g[n] = IF n = 0 THEN root ELSE FieldOf(g[n - 1], path[n])
    BY <2>1, <2>2
  <2>4. g = [n \in 0..m |-> IF n = 0 THEN root ELSE FieldOf(g[n - 1], path[n])]
    BY <2>1, <2>3
  <2> QED
    BY <2>4 DEF Passes, m
<1> DEFINE d == CHOOSE e : e = [n \in 0..Len(path) |->
                              IF n = 0 THEN root ELSE FieldOf(e[n - 1], path[n])]
<1>4. Passes(d, root, path)
  <2>1. \E e : e = [n \in 0..Len(path) |->
                     IF n = 0 THEN root ELSE FieldOf(e[n - 1], path[n])]
    BY <1>3 DEF Passes
  <2>2. d = [n \in 0..Len(path) |-> IF n = 0 THEN root ELSE FieldOf(d[n - 1], path[n])]
    BY <2>1
  <2> QED
    BY <2>2 DEF Passes
<1>5. Traverse(root, path) = d[Len(path)]
  BY DEF Traverse
<1> HIDE DEF d
<1> DEFINE H == {n \in Nat : n \in 0..m => d[n] \in T}
<1>6. 0 \in H
  <2>1. 0 \in 0..m
    BY <1>0 DEF m
  <2> QED
    BY <1>4, <2>1 DEF Passes, m
<1>7. ASSUME NEW n \in H
      PROVE  n + 1 \in H
  <2> SUFFICES ASSUME n + 1 \in 0..m
               PROVE  d[n + 1] \in T
    OBVIOUS
  <2>1. n \in 0..m /\ (n + 1) - 1 = n /\ n + 1 # 0
    BY <1>0 DEF m
  <2>2. d[n + 1] = FieldOf(d[n], path[n + 1])
    BY <1>4, <2>1 DEF Passes, m
  <2> QED
    BY <2>1, <2>2
<1> HIDE DEF H
<1>8. H = Nat
  <2>1. H \in SUBSET Nat
    BY DEF H
  <2> QED
    BY <1>6, <1>7, <2>1, InductionOverNat
<1>9. \A n \in 0..Len(path) : d[n] \in T
  BY <1>0, <1>8 DEF H, m
<1> QED
  BY <1>4, <1>5, <1>9

\* A path that ends at a value has a first segment that does.
LEMMA MissingStaysMissing ==
  ASSUME NEW T, NEW root \in T, \A v \in T : \A segment : FieldOf(v, segment) \in T,
         NEW path, IsSeq(path), Len(path) > 0, Traverse(root, path) # Missing
  PROVE  FieldOf(root, path[1]) # Missing
<1> SUFFICES ASSUME FieldOf(root, path[1]) = Missing
             PROVE  FALSE
  OBVIOUS
<1>0. Len(path) \in Nat
  BY SequencesAreSeq
<1>1. PICK d : Passes(d, root, path) /\ Traverse(root, path) = d[Len(path)]
  BY TraversePasses
<1> DEFINE H == {n \in Nat : n + 1 \in 0..Len(path) => d[n + 1] = Missing}
<1>2. 0 \in H
  <2> SUFFICES ASSUME 1 \in 0..Len(path)
               PROVE  d[1] = Missing
    OBVIOUS
  <2>1. 0 \in 0..Len(path) /\ 1 - 1 = 0
    BY <1>0
  <2>2. d[0] = root /\ d[1] = FieldOf(d[0], path[1])
    BY <1>1, <2>1 DEF Passes
  <2> QED
    BY <2>2
<1>3. ASSUME NEW n \in H
      PROVE  n + 1 \in H
  <2> SUFFICES ASSUME (n + 1) + 1 \in 0..Len(path)
               PROVE  d[(n + 1) + 1] = Missing
    OBVIOUS
  <2>1. n + 1 \in 0..Len(path) /\ ((n + 1) + 1) - 1 = n + 1 /\ (n + 1) + 1 # 0
    BY <1>0
  <2>2. d[(n + 1) + 1] = FieldOf(d[n + 1], path[(n + 1) + 1])
    BY <1>1, <2>1 DEF Passes
  <2>3. d[n + 1] = Missing
    BY <2>1
  <2> QED
    BY <2>2, <2>3 DEF FieldOf, Missing
<1> HIDE DEF H
<1>4. H = Nat
  <2>1. H \in SUBSET Nat
    BY DEF H
  <2> QED
    BY <1>2, <1>3, <2>1, InductionOverNat
<1>5. Len(path) - 1 \in H /\ (Len(path) - 1) + 1 = Len(path) /\ Len(path) \in 0..Len(path)
  BY <1>0, <1>4
<1>6. d[Len(path)] = Missing
  BY <1>5 DEF H
<1> QED
  BY <1>1, <1>6

\* The pieces of a text make a text.
LEMMA FlattenedIsSeq ==
  ASSUME NEW S, NEW seqs \in Seq(Seq(S))
  PROVE  FlattenSeq(seqs) \in Seq(S)
<1> DEFINE m == Len(seqs)
<1>0. m \in Nat /\ \A i \in 1..m : seqs[i] \in Seq(S)
  BY LenProperties, ElementOfSeq
<1>1. CASE m = 0
  <2>1. seqs = <<>> /\ <<>> \in Seq(S)
    BY <1>1, EmptySeq
  <2> QED
    BY <1>1, <2>1 DEF FlattenSeq
<1>2. CASE m # 0
  <2> DEFINE more == [k \in Nat |-> [s \in Seq(S) |->
                        IF k + 2 \in 1..m THEN s \o seqs[k + 2] ELSE s]]
  <2> HIDE DEF m
  <2>1. more \in [Nat -> [Seq(S) -> Seq(S)]]
    <3>1. ASSUME NEW k \in Nat, NEW s \in Seq(S)
          PROVE  (IF k + 2 \in 1..m THEN s \o seqs[k + 2] ELSE s) \in Seq(S)
      <4>1. CASE k + 2 \in 1..m
        BY <1>0, <4>1, ConcatProperties
      <4> QED
        BY <4>1
    <3> QED
      BY <3>1
  <2>2. seqs[1] \in Seq(S) /\ m - 1 \in Nat
    BY <1>0, <1>2
  <2> HIDE DEF more
  <2> DEFINE first == seqs[1]
             last == m - 1
             SS == Seq(S)
  <2>3. first \in SS /\ last \in Nat /\ more \in [Nat -> [SS -> SS]]
    BY <2>1, <2>2
  <2> HIDE DEF first, last, SS
  <2>4. PICK g : Computes(g, SS, first, more, last)
    BY <2>3, ComputationExists
  <2>5. /\ g \in [0..(m - 1) -> Seq(S)] /\ g[0] = seqs[1]
        /\ \A k \in 0..((m - 1) - 1) : g[k + 1] = more[k][g[k]]
    BY <2>4 DEF Computes, first, last, SS
  <2> DEFINE f == [i \in 1..m |-> g[i - 1]]
  <2>6. f = [i \in 1..m |-> IF i = 1 THEN seqs[i] ELSE f[i - 1] \o seqs[i]]
    <3>1. ASSUME NEW i \in 1..m, i # 1
          PROVE  f[i] = f[i - 1] \o seqs[i]
      <4>1. /\ i - 2 \in 0..((m - 1) - 1) /\ (i - 2) + 1 = i - 1 /\ i - 1 \in 1..m
            /\ (i - 1) - 1 = i - 2 /\ (i - 2) + 2 = i /\ i - 2 \in Nat
            /\ i - 2 \in 0..(m - 1)
        BY <1>0, <3>1
      <4>2. f[i] = g[i - 1] /\ f[i - 1] = g[i - 2]
        BY <4>1
      <4>3. g[(i - 2) + 1] = more[i - 2][g[i - 2]] /\ g[i - 2] \in Seq(S)
        BY <2>5, <4>1
      <4>4. more[i - 2][g[i - 2]] = g[i - 2] \o seqs[(i - 2) + 2]
        BY <4>1, <4>3 DEF more
      <4> QED
        BY <4>1, <4>2, <4>3, <4>4
    <3>2. f[1] = seqs[1]
      <4>1. 1 \in 1..m /\ 1 - 1 = 0
        BY <1>0, <1>2
      <4> QED
        BY <2>5, <4>1
    <3>3. \A i \in 1..m : f[i] = IF i = 1 THEN seqs[i] ELSE f[i - 1] \o seqs[i]
      BY <3>1, <3>2
    <3> QED
      BY <3>3
  <2> HIDE DEF f
  <2> DEFINE h == CHOOSE e : e = [i \in 1..m |-> IF i = 1 THEN seqs[i] ELSE e[i - 1] \o seqs[i]]
  <2>7. h = [i \in 1..m |-> IF i = 1 THEN seqs[i] ELSE h[i - 1] \o seqs[i]]
    BY <2>6
  <2>8. FlattenSeq(seqs) = h[m]
    BY <1>2 DEF FlattenSeq, m
  <2> HIDE DEF h
  <2> DEFINE H == {n \in Nat : n + 1 \in 1..m => h[n + 1] \in Seq(S)}
  <2>9. 0 \in H
    BY <1>0, <2>7
  <2>10. ASSUME NEW n \in H
         PROVE  n + 1 \in H
    <3> SUFFICES ASSUME (n + 1) + 1 \in 1..m
                 PROVE  h[(n + 1) + 1] \in Seq(S)
      OBVIOUS
    <3>1. n + 1 \in 1..m /\ ((n + 1) + 1) - 1 = n + 1 /\ (n + 1) + 1 # 1
      BY <1>0
    <3>2. h[(n + 1) + 1] = h[n + 1] \o seqs[(n + 1) + 1]
      BY <2>7, <3>1
    <3>3. h[n + 1] \in Seq(S) /\ seqs[(n + 1) + 1] \in Seq(S)
      BY <1>0, <3>1
    <3> QED
      BY <3>2, <3>3, ConcatProperties
  <2> HIDE DEF H
  <2>11. H = Nat
    <3>1. H \in SUBSET Nat
      BY DEF H
    <3> QED
      BY <2>9, <2>10, <3>1, InductionOverNat
  <2>12. m - 1 \in H /\ (m - 1) + 1 = m /\ m \in 1..m
    BY <1>0, <1>2, <2>11
  <2>13. h[m] \in Seq(S)
    BY <2>12 DEF H
  <2> QED
    BY <2>8, <2>13
<1> QED
  BY <1>1, <1>2

-----------------------------------------------------------------------------
(* What params and values are made of. *)

\* A token of a text that can be resolved or refused.
IsToken(t) ==
  \/ t.kind \in {"text", "unclosed"}
  \/ (t.kind = "ref" /\ IsSeq(t.path) /\ t.path # <<>>)

TextValues == {v \in Values : v.kind = "text"}
ValueTokens == {Bare, Quoted} \cup UNION {{v.tokens[i] : i \in DOMAIN v.tokens} : v \in TextValues}
ParamTokens == UNION {{tokens[i] : i \in DOMAIN tokens} : tokens \in Params}
Tokens == ValueTokens \cup ParamTokens

\* The values a lookup can end at.
Held == Values \cup {Missing, Number, TextValue(<<Bare>>)}

\* What texts are made of are tokens.
LEMMA TokensAreTokens ==
  \A t \in Tokens : IsToken(t)
<1>1. \A tokens : IsText(tokens) => \A i \in DOMAIN tokens : IsToken(tokens[i])
  BY DEF IsText, IsToken
<1>2. ASSUME NEW t \in ParamTokens
      PROVE  IsToken(t)
  BY <1>1, InterpolationAssumption DEF ParamTokens, InterpolationAssumption
<1>3. ASSUME NEW t \in ValueTokens
      PROVE  IsToken(t)
  <2>1. CASE t \in {Bare, Quoted}
    BY <2>1 DEF IsToken, Bare, Quoted
  <2>2. CASE t \notin {Bare, Quoted}
    <3>1. PICK v \in TextValues : t \in {v.tokens[i] : i \in DOMAIN v.tokens}
      BY <1>3, <2>2 DEF ValueTokens
    <3> QED
      BY <1>1, <3>1, InterpolationAssumption DEF TextValues, InterpolationAssumption
  <2> QED
    BY <2>1, <2>2
<1> QED
  BY <1>2, <1>3 DEF Tokens

\* A text is made of its own tokens.
LEMMA TextIsOfItsTokens ==
  ASSUME NEW S, NEW s, IsSeq(s), \A i \in DOMAIN s : s[i] \in S
  PROVE  s \in Seq(S)
<1>1. Len(s) \in Nat /\ DOMAIN s = 1..Len(s) /\ s = [i \in 1..Len(s) |-> s[i]]
  BY LenProperties DEF IsSeq
<1>2. s \in [1..Len(s) -> S]
  BY <1>1
<1> QED
  BY <1>1, <1>2, IsASeq

\* Params are made of the tokens that occur in them.
LEMMA ParamsAreOfTokens ==
  ASSUME NEW tokens \in Params
  PROVE  tokens \in Seq(Tokens)
<1>1. IsSeq(tokens)
  BY InterpolationAssumption DEF InterpolationAssumption, IsText
<1>2. \A i \in DOMAIN tokens : tokens[i] \in Tokens
  BY DEF Tokens, ParamTokens
<1> QED
  BY <1>1, <1>2, TextIsOfItsTokens

\* marshalInline (interpolation.go:349-379) of what is held has only tokens
\* of values.
LEMMA HeldMarshals ==
  ASSUME NEW v, v \in Held \/ v.kind = "object"
  PROVE  Marshalled(v) \in Seq(ValueTokens)
<1>1. <<Bare>> \in Seq(ValueTokens) /\ <<Quoted>> \in Seq(ValueTokens)
  BY DEF ValueTokens
<1>2. CASE v \in Values /\ v.kind = "text"
  <2>1. v \in TextValues /\ IsSeq(v.tokens)
    BY <1>2, InterpolationAssumption DEF TextValues, InterpolationAssumption, IsText
  <2>2. \A i \in DOMAIN v.tokens : v.tokens[i] \in ValueTokens
    BY <2>1 DEF ValueTokens
  <2>3. v.tokens \in Seq(ValueTokens)
    BY <2>1, <2>2, TextIsOfItsTokens
  <2> QED
    BY <1>2, <2>3 DEF Marshalled
<1>3. CASE v = TextValue(<<Bare>>)
  BY <1>1, <1>3 DEF Marshalled, TextValue
<1>4. CASE ~(v \in Values /\ v.kind = "text") /\ v # TextValue(<<Bare>>)
  <2>1. v.kind # "text"
    BY <1>4 DEF Held, Missing, Number
  <2> QED
    BY <1>1, <2>1 DEF Marshalled
<1> QED
  BY <1>2, <1>3, <1>4

\* A field of what is held is held.
LEMMA FieldsAreHeld ==
  ASSUME NEW data, \A k \in DOMAIN data : data[k] \in Held,
         NEW v \in Held \cup {Object(data)}, NEW segment
  PROVE  FieldOf(v, segment) \in Held
<1>1. CASE v.kind = "object" /\ <<segment>> \in DOMAIN v.fields
  <2>1. CASE v = Object(data)
    BY <1>1, <2>1 DEF FieldOf, Object
  <2>2. CASE v # Object(data)
    <3>1. v \in Values
      BY <1>1, <2>2 DEF Held, Missing, Number, TextValue
    <3>2. v.fields[<<segment>>] \in Values
      BY <1>1, <3>1, InterpolationAssumption DEF InterpolationAssumption
    <3> QED
      BY <1>1, <3>2 DEF FieldOf, Held
  <2> QED
    BY <2>1, <2>2
<1>2. CASE ~(v.kind = "object" /\ <<segment>> \in DOMAIN v.fields)
  BY <1>2 DEF FieldOf, Held
<1> QED
  BY <1>1, <1>2

\* So is what a path leads to.
LEMMA TraverseIsHeld ==
  ASSUME NEW v \in Held, NEW path, IsSeq(path)
  PROVE  Traverse(v, path) \in Held
<1> DEFINE none == [k \in {} |-> Missing]
           T == Held \cup {Object(none)}
<1>1. \A k \in DOMAIN none : none[k] \in Held
  OBVIOUS
<1> HIDE DEF none
<1>2. \A w \in T : \A segment : FieldOf(w, segment) \in Held
  BY <1>1, FieldsAreHeld
<1>3. \A w \in Held : \A segment : FieldOf(w, segment) \in Held
  BY <1>2
<1>4. PICK d : /\ Traverse(v, path) = d[Len(path)]
               /\ \A n \in 0..Len(path) : d[n] \in Held
  BY <1>3, TraversePasses
<1>5. Len(path) \in 0..Len(path)
  BY SequencesAreSeq
<1> QED
  BY <1>4, <1>5

\* A path without its first segment.
LEMMA TailOfPath ==
  ASSUME NEW path, IsSeq(path), path # <<>>
  PROVE  /\ IsSeq(Tail(path)) /\ Len(path) \in Nat /\ Len(path) > 0
         /\ Len(Tail(path)) = Len(path) - 1
         /\ \A i \in 1..(Len(path) - 1) : Tail(path)[i] = path[i + 1]
<1> DEFINE S == {path[i] : i \in DOMAIN path}
<1>1. path \in Seq(S)
  BY DEF IsSeq
<1> HIDE DEF S
<1>2. /\ Tail(path) \in Seq(S) /\ Len(Tail(path)) = Len(path) - 1
      /\ \A i \in 1..Len(Tail(path)) : Tail(path)[i] = path[i + 1]
  BY <1>1, HeadTailProperties
<1>3. Len(path) \in Nat /\ Len(path) > 0
  BY <1>1, LenProperties, EmptySeq
<1>4. \A i \in 1..(Len(path) - 1) : Tail(path)[i] = path[i + 1]
  BY <1>2
<1> QED
  BY <1>2, <1>3, <1>4, SequencesAreSeq

\* A path after the step's name and "output".
LEMMA RestOfPath ==
  ASSUME NEW path, IsSeq(path), Len(path) >= 2
  PROVE  /\ IsSeq(SubSeq(path, 3, Len(path)))
         /\ Len(path) > 2 => /\ Len(SubSeq(path, 3, Len(path))) > 0
                             /\ SubSeq(path, 3, Len(path))[1] = path[3]
<1> DEFINE S == {path[i] : i \in DOMAIN path}
<1>1. path \in Seq(S) /\ Len(path) \in Nat
  BY LenProperties DEF IsSeq
<1> HIDE DEF S
<1> DEFINE rest == SubSeq(path, 3, Len(path))
<1>2. \A i \in 3..Len(path) : path[i] \in S
  BY <1>1, ElementOfSeq
<1>3. 3 \in Int /\ Len(path) \in Int
  BY <1>1
<1>4. /\ rest \in Seq(S) /\ Len(rest) = IF 3 <= Len(path) THEN Len(path) - 3 + 1 ELSE 0
      /\ \A i \in 1..(Len(path) - 3 + 1) : rest[i] = path[3 + i - 1]
  BY ONLY <1>2, <1>3, SubSeqProperties
<1>5. IsSeq(rest)
  BY <1>4, SequencesAreSeq
<1> HIDE DEF rest
<1>6. ASSUME Len(path) > 2
      PROVE  Len(rest) > 0 /\ rest[1] = path[3]
  <2>1. 1 \in 1..(Len(path) - 3 + 1) /\ 3 + 1 - 1 = 3
    BY <1>1, <1>6
  <2>2. rest[1] = path[3 + 1 - 1]
    BY <1>4, <2>1
  <2> QED
    BY <1>1, <1>4, <1>6, <2>1, <2>2
<1> QED
  BY <1>5, <1>6 DEF rest

-----------------------------------------------------------------------------
(* What the state is. *)

Outcomes == [status : {"running", "completed", "failed", "skipped"},
             output : Outputs \cup {Missing}]

InterpolationTypeOK ==
  /\ produced \in [Producers -> Outcomes]
  /\ accumulated = <<>> \/ accumulated[1] \in Accumulated
  /\ params \in [Readers -> Params]
  /\ result = [r \in Readers |-> result[r]]
  /\ \A r \in Readers : result[r].loop \in Outputs \cup {Missing}

ReadScope(loop) == Scope(loop, InputData)

\* What steps return is held.
LEMMA OutputsAreHeld ==
  Outputs \cup {Missing} \subseteq Held
BY InterpolationAssumption DEF InterpolationAssumption, Held

\* FromMap ends at a value of the data, or at a field of one.
LEMMA MapsMarshal ==
  ASSUME NEW data, \A k \in DOMAIN data : data[k] \in Held, NEW path, IsSeq(path)
  PROVE  Marshalled(FromMap(data, path)) \in Seq(ValueTokens)
<1> DEFINE T == Held \cup {Object(data)}
<1>1. CASE path = <<>>
  <2>1. FromMap(data, path) \in Held
    BY <1>1 DEF FromMap, Held
  <2> QED
    BY <2>1, HeldMarshals
<1>2. CASE path # <<>> /\ path \in DOMAIN data
  <2>1. FromMap(data, path) \in Held
    BY <1>2 DEF FromMap
  <2> QED
    BY <2>1, HeldMarshals
<1>3. CASE path # <<>> /\ path \notin DOMAIN data
  <2>1. FromMap(data, path) = Traverse(Object(data), path)
    BY <1>3 DEF FromMap
  <2>2. \A v \in T : \A segment : FieldOf(v, segment) \in T
    BY FieldsAreHeld
  <2>3. Object(data) \in T
    OBVIOUS
  <2> DEFINE root == Object(data)
  <2> HIDE DEF T, root
  <2>4. PICK d : /\ Traverse(root, path) = d[Len(path)]
                 /\ \A n \in 0..Len(path) : d[n] \in T
    BY <2>2, <2>3, TraversePasses DEF root
  <2>5. Traverse(root, path) \in T
    BY <2>4, SequencesAreSeq
  <2>6. Traverse(root, path) \in Held \/ Traverse(root, path).kind = "object"
    BY <2>5 DEF T, Object
  <2> QED
    BY <2>1, <2>6, HeldMarshals DEF root
<1> QED
  BY <1>1, <1>2, <1>3

\* steps.* (interpolation.go:159-192) ends at something held.
LEMMA StepsMarshal ==
  ASSUME InterpolationTypeOK, NEW path, IsSeq(path)
  PROVE  FromStep(CompletedOutputs, path) \in Held
<1>1. CASE Len(path) < 2 \/ path[2] # "output" \/ path[1] \notin DOMAIN CompletedOutputs
  BY <1>1 DEF FromStep, Held
<1>2. CASE ~(Len(path) < 2 \/ path[2] # "output" \/ path[1] \notin DOMAIN CompletedOutputs)
  <2>1. Len(path) \in Nat /\ Len(path) >= 2
    BY <1>2, SequencesAreSeq
  <2>2. IsSeq(SubSeq(path, 3, Len(path)))
    BY <2>1, RestOfPath
  <2>3. CompletedOutputs[path[1]] \in Held
    <3>1. path[1] \in Producers /\ CompletedOutputs[path[1]] = produced[path[1]].output
      BY <1>2 DEF CompletedOutputs
    <3>2. produced[path[1]].output \in Outputs \cup {Missing}
      BY <3>1 DEF InterpolationTypeOK, Outcomes
    <3> QED
      BY <3>1, <3>2, OutputsAreHeld
  <2>4. FromStep(CompletedOutputs, path) =
          Traverse(CompletedOutputs[path[1]], SubSeq(path, 3, Len(path)))
    BY <1>2 DEF FromStep
  <2> QED
    BY <2>2, <2>3, <2>4, TraverseIsHeld
<1> QED
  BY <1>1, <1>2

\* So does loop.* (interpolation.go:260-290).
LEMMA LoopsMarshal ==
  ASSUME NEW loop \in Outputs \cup {Missing}, NEW path, IsSeq(path)
  PROVE  FromLoop(loop, path) \in Held
<1>0. loop \in Held /\ Missing \in Held /\ Number \in Held
  BY OutputsAreHeld DEF Held
<1>1. ASSUME path # <<>>
      PROVE  Traverse(loop, Tail(path)) \in Held
  <2>1. IsSeq(Tail(path))
    BY <1>1, TailOfPath
  <2> QED
    BY <1>0, <2>1, TraverseIsHeld
<1> QED
  BY <1>0, <1>1 DEF FromLoop

\* Whatever a reference names, what is put in its place are tokens of values.
LEMMA LookupMarshals ==
  ASSUME InterpolationTypeOK, NEW loop \in Outputs \cup {Missing},
         NEW path, IsSeq(path), path # <<>>
  PROVE  Marshalled(Lookup(ReadScope(loop), path)) \in Seq(ValueTokens)
<1> DEFINE rest == Tail(path)
           scope == ReadScope(loop)
<1>0. IsSeq(rest)
  BY TailOfPath
<1>1. /\ scope.steps = CompletedOutputs /\ scope.inputs = InputData
      /\ scope.workflow = [k \in {<<"run_id">>} |-> TextValue(<<Bare>>)]
      /\ scope.context = ContextData /\ scope.loop = loop
  BY DEF ReadScope, Scope
<1> HIDE DEF rest, scope
<1>2. Marshalled(FromStep(scope.steps, rest)) \in Seq(ValueTokens)
  <2>1. FromStep(CompletedOutputs, rest) \in Held
    BY <1>0, StepsMarshal
  <2> QED
    BY <1>1, <2>1, HeldMarshals
<1>3. Marshalled(FromMap(scope.inputs, rest)) \in Seq(ValueTokens)
  <2>1. \A k \in DOMAIN InputData : InputData[k] \in Held
    BY InterpolationAssumption DEF InterpolationAssumption, Held
  <2> QED
    BY <1>0, <1>1, <2>1, MapsMarshal
<1>4. Marshalled(FromMap(scope.workflow, rest)) \in Seq(ValueTokens)
  <2>1. \A k \in DOMAIN scope.workflow : scope.workflow[k] \in Held
    BY <1>1 DEF Held
  <2> QED
    BY <1>0, <2>1, MapsMarshal
<1>5. Marshalled(FromMap(scope.context, rest)) \in Seq(ValueTokens)
  <2>1. ASSUME NEW k \in DOMAIN ContextData
        PROVE  ContextData[k] \in Held
    <3>1. accumulated # <<>>
      BY <2>1 DEF ContextData
    <3>2. /\ k \in {<<"intent">>, <<"agent_id">>} \cup DOMAIN accumulated[1]
          /\ ContextData[k] = IF k \in DOMAIN accumulated[1] THEN accumulated[1][k]
                              ELSE TextValue(<<Bare>>)
      BY <2>1, <3>1 DEF ContextData
    <3>3. \A j \in DOMAIN accumulated[1] : accumulated[1][j] \in Values
      BY <3>1, InterpolationAssumption DEF InterpolationAssumption, InterpolationTypeOK
    <3> QED
      BY <3>2, <3>3 DEF Held
  <2> QED
    BY <1>0, <1>1, <2>1, MapsMarshal
<1>6. Marshalled(FromLoop(scope.loop, rest)) \in Seq(ValueTokens)
  <2>1. FromLoop(loop, rest) \in Held
    BY <1>0, LoopsMarshal
  <2> QED
    BY <1>1, <2>1, HeldMarshals
<1>7. Marshalled(IF rest \in DOMAIN Vault THEN Vault[rest] ELSE Missing) \in Seq(ValueTokens)
  <2>1. (IF rest \in DOMAIN Vault THEN Vault[rest] ELSE Missing) \in Held
    BY InterpolationAssumption DEF InterpolationAssumption, Held
  <2> QED
    BY <2>1, HeldMarshals
<1>8. Marshalled(Missing) \in Seq(ValueTokens)
  BY HeldMarshals DEF Held
<1> QED
  BY <1>2, <1>3, <1>4, <1>5, <1>6, <1>7, <1>8 DEF Lookup, rest, scope

-----------------------------------------------------------------------------
(* The passes. *)

\* A pass puts values in the place of the references it is about, and leaves
\* the others.
LEMMA PieceOfFirstPass ==
  ASSUME NEW token, NEW scope
  PROVE  Piece(token, scope, FALSE) =
           IF token.kind = "text" \/ IsSecret(token.path) THEN <<token>>
           ELSE Marshalled(Lookup(scope, token.path))
<1>1. CASE IsSecret(token.path)
  <2>1. IsSecret(token.path) # FALSE
    BY <1>1
  <2> QED
    BY <1>1, <2>1 DEF Piece
<1>2. CASE ~IsSecret(token.path)
  <2>1. IsSecret(token.path) = FALSE
    BY <1>2 DEF IsSecret
  <2> QED
    BY <1>2, <2>1 DEF Piece
<1> QED
  BY <1>1, <1>2

\* The second pass (interpolation.go:104-127) replaces the secrets.
LEMMA PieceOfSecondPass ==
  ASSUME NEW token, NEW scope
  PROVE  Piece(token, scope, TRUE) =
           IF token.kind = "text" \/ ~IsSecret(token.path) THEN <<token>>
           ELSE Marshalled(Lookup(scope, token.path))
<1>1. CASE IsSecret(token.path)
  <2>1. IsSecret(token.path) = TRUE
    BY <1>1 DEF IsSecret
  <2> QED
    BY <1>1, <2>1 DEF Piece
<1>2. CASE ~IsSecret(token.path)
  <2>1. IsSecret(token.path) # TRUE
    BY <1>2
  <2> QED
    BY <1>2, <2>1 DEF Piece
<1> QED
  BY <1>1, <1>2

\* What a pass refuses: half a marker, or a reference of its own to nothing.
LEMMA RefusedByAPass ==
  ASSUME NEW token, NEW scope
  PROVE  /\ CannotResolve(token, scope, FALSE) <=>
              \/ token.kind = "unclosed"
              \/ (/\ token.kind = "ref" /\ ~IsSecret(token.path)
                  /\ Lookup(scope, token.path) = Missing)
         /\ CannotResolve(token, scope, TRUE) <=>
              \/ token.kind = "unclosed"
              \/ (/\ token.kind = "ref" /\ IsSecret(token.path)
                  /\ Lookup(scope, token.path) = Missing)
<1>1. IsSecret(token.path) \in BOOLEAN
  BY DEF IsSecret
<1>2. CASE IsSecret(token.path)
  BY <1>1, <1>2 DEF CannotResolve
<1>3. CASE ~IsSecret(token.path)
  BY <1>1, <1>3 DEF CannotResolve
<1> QED
  BY <1>2, <1>3

\* What a pass returns, when it does not refuse: the pieces, one after another.
LEMMA PassGives ==
  ASSUME NEW S, NEW tokens, IsSeq(tokens), NEW scope, NEW secretPass \in BOOLEAN,
         \A i \in DOMAIN tokens : ~CannotResolve(tokens[i], scope, secretPass)
                                  => Piece(tokens[i], scope, secretPass) \in Seq(S),
         Pass(tokens, scope, secretPass) # Unresolved
  PROVE  Pass(tokens, scope, secretPass) \in Seq(S)
<1>1. /\ tokens # Unresolved
      /\ \A i \in DOMAIN tokens : ~CannotResolve(tokens[i], scope, secretPass)
      /\ Pass(tokens, scope, secretPass) =
           FlattenSeq([i \in DOMAIN tokens |-> Piece(tokens[i], scope, secretPass)])
  BY DEF Pass
<1> DEFINE pieces == [i \in DOMAIN tokens |-> Piece(tokens[i], scope, secretPass)]
<1>2. Len(tokens) \in Nat /\ DOMAIN tokens = 1..Len(tokens)
  BY SequencesAreSeq
<1>3. pieces \in [1..Len(tokens) -> Seq(S)]
  BY <1>1, <1>2
<1> DEFINE SS == Seq(S)
<1> HIDE DEF pieces, SS
<1>4. pieces \in Seq(SS)
  BY <1>2, <1>3, IsASeq DEF SS
<1>5. FlattenSeq(pieces) \in Seq(S)
  BY <1>4, FlattenedIsSeq DEF SS
<1> QED
  BY <1>1, <1>5 DEF pieces

\* A secret that is left comes from the value of another.
OfVault(t) ==
  \E k \in DOMAIN Vault : \E j \in DOMAIN Marshalled(Vault[k]) : Marshalled(Vault[k])[j] = t

FinalTokens == {t \in Tokens : t.kind = "ref" /\ IsSecret(t.path) => OfVault(t)}

\* The first pass leaves tokens of the params and of values.
LEMMA FirstPassGives ==
  ASSUME InterpolationTypeOK, NEW loop \in Outputs \cup {Missing}, NEW tokens \in Params,
         Pass(tokens, ReadScope(loop), FALSE) # Unresolved
  PROVE  Pass(tokens, ReadScope(loop), FALSE) \in Seq(Tokens)
<1>1. tokens \in Seq(Tokens) /\ IsSeq(tokens)
  BY ParamsAreOfTokens, SequencesAreSeq
<1>2. ASSUME NEW i \in DOMAIN tokens, ~CannotResolve(tokens[i], ReadScope(loop), FALSE)
      PROVE  Piece(tokens[i], ReadScope(loop), FALSE) \in Seq(Tokens)
  <2> DEFINE token == tokens[i]
  <2>1. token \in Tokens /\ IsToken(token)
    <3>1. token \in Tokens
      BY <1>1, ElementOfSeq, SequencesAreSeq
    <3> QED
      BY <3>1, TokensAreTokens
  <2>2. CASE token.kind = "text" \/ IsSecret(token.path)
    <3>1. Piece(token, ReadScope(loop), FALSE) = <<token>>
      BY <2>2, PieceOfFirstPass
    <3> HIDE DEF token
    <3>2. <<token>> \in Seq(Tokens)
      BY <2>1
    <3> QED
      BY <3>1, <3>2 DEF token
  <2>3. CASE ~(token.kind = "text" \/ IsSecret(token.path))
    <3>1. Piece(token, ReadScope(loop), FALSE) = Marshalled(Lookup(ReadScope(loop), token.path))
      BY <2>3, PieceOfFirstPass
    <3>2. token.kind # "unclosed"
      BY <1>2, RefusedByAPass
    <3>3. IsSeq(token.path) /\ token.path # <<>>
      BY <2>1, <2>3, <3>2 DEF IsToken
    <3> DEFINE path == token.path
    <3>4. IsSeq(path) /\ path # <<>>
      BY <3>3
    <3> HIDE DEF path
    <3>5. Marshalled(Lookup(ReadScope(loop), path)) \in Seq(ValueTokens)
      BY <3>4, LookupMarshals
    <3>6. \A s \in Seq(ValueTokens) : s \in Seq(Tokens)
      BY DEF Tokens
    <3> QED
      BY <3>1, <3>5, <3>6 DEF path
  <2> QED
    BY <2>2, <2>3
<1> DEFINE scope == ReadScope(loop)
<1>3. /\ FALSE \in BOOLEAN /\ Pass(tokens, scope, FALSE) # Unresolved
      /\ \A i \in DOMAIN tokens : ~CannotResolve(tokens[i], scope, FALSE)
                                  => Piece(tokens[i], scope, FALSE) \in Seq(Tokens)
  BY <1>2
<1> HIDE DEF scope
<1>4. Pass(tokens, scope, FALSE) \in Seq(Tokens)
  BY <1>1, <1>3, PassGives
<1> QED
  BY <1>4 DEF scope

\* What Resolve gives has no reference left but those that values brought.
LEMMA ResolvedIsFinal ==
  ASSUME InterpolationTypeOK, NEW loop \in Outputs \cup {Missing}, NEW tokens \in Params,
         Resolve(tokens, ReadScope(loop)) # Unresolved
  PROVE  /\ Pass(tokens, ReadScope(loop), FALSE) # Unresolved
         /\ Resolve(tokens, ReadScope(loop)) \in Seq(FinalTokens)
<1> DEFINE scope == ReadScope(loop)
           first == Pass(tokens, scope, FALSE)
<1>1. first # Unresolved /\ Pass(first, scope, TRUE) # Unresolved
  BY DEF Resolve, Pass
<1>2. first \in Seq(Tokens) /\ IsSeq(first)
  BY <1>1, FirstPassGives, SequencesAreSeq
<1>3. ASSUME NEW token \in Tokens, ~CannotResolve(token, scope, TRUE)
      PROVE  Piece(token, scope, TRUE) \in Seq(FinalTokens)
  <2>1. IsToken(token)
    BY TokensAreTokens
  <2>2. CASE token.kind = "text" \/ ~IsSecret(token.path)
    <3>1. Piece(token, scope, TRUE) = <<token>>
      BY <2>2, PieceOfSecondPass
    <3>2. token \in FinalTokens
      BY <2>2 DEF FinalTokens
    <3>3. <<token>> \in Seq(FinalTokens)
      BY <3>2
    <3> HIDE DEF scope
    <3> QED
      BY <3>1, <3>3
  <2>3. CASE ~(token.kind = "text" \/ ~IsSecret(token.path))
    <3>1. Piece(token, scope, TRUE) = Marshalled(Lookup(scope, token.path))
      BY <2>3, PieceOfSecondPass
    <3>2. token.kind # "unclosed"
      BY <1>3, RefusedByAPass
    <3>3. token.kind = "ref" /\ IsSeq(token.path) /\ token.path # <<>>
      BY <2>1, <2>3, <3>2 DEF IsToken
    <3>4. Lookup(scope, token.path) # Missing
      BY <1>3, <2>3, <3>3, RefusedByAPass
    <3>5. token.path[1] = "secrets"
      BY <2>3 DEF IsSecret
    <3> DEFINE path == token.path
               value == Lookup(scope, path)
    <3>6. Tail(path) \in DOMAIN Vault /\ value = Vault[Tail(path)]
      BY <3>4, <3>5 DEF Lookup
    <3>7. Marshalled(value) \in Seq(ValueTokens)
      <4>1. IsSeq(path) /\ path # <<>>
        BY <3>3
      <4> HIDE DEF path
      <4>2. Marshalled(Lookup(ReadScope(loop), path)) \in Seq(ValueTokens)
        BY <4>1, LookupMarshals
      <4> QED
        BY <4>2
    <3> HIDE DEF path, value
    <3>8. ASSUME NEW j \in DOMAIN Marshalled(value)
          PROVE  Marshalled(value)[j] \in FinalTokens
      <4>1. Marshalled(value)[j] \in ValueTokens
        BY <3>7, ElementOfSeq, SequencesAreSeq
      <4>2. OfVault(Marshalled(value)[j])
        BY <3>6, <3>8 DEF OfVault
      <4> QED
        BY <4>1, <4>2 DEF FinalTokens, Tokens
    <3> DEFINE s == Marshalled(value)
    <3>9. IsSeq(s)
      BY <3>7, SequencesAreSeq
    <3>10. \A j \in DOMAIN s : s[j] \in FinalTokens
      BY <3>8
    <3> HIDE DEF s
    <3>11. s \in Seq(FinalTokens)
      BY <3>9, <3>10, TextIsOfItsTokens
    <3> QED
      BY <3>1, <3>11 DEF s, value, path
  <2> QED
    BY <2>2, <2>3
<1> HIDE DEF scope, first
<1>4. ASSUME NEW i \in DOMAIN first, ~CannotResolve(first[i], scope, TRUE)
      PROVE  Piece(first[i], scope, TRUE) \in Seq(FinalTokens)
  <2>1. first[i] \in Tokens
    BY <1>2, ElementOfSeq, SequencesAreSeq
  <2> QED
    BY <1>3, <1>4, <2>1
<1>5. TRUE \in BOOLEAN
  OBVIOUS
<1>6. Pass(first, scope, TRUE) \in Seq(FinalTokens)
  BY <1>1, <1>2, <1>4, <1>5, PassGives
<1>7. Resolve(tokens, ReadScope(loop)) = Pass(first, scope, TRUE)
  BY DEF Resolve, first, scope
<1> QED
  BY <1>1, <1>6, <1>7 DEF first, scope

\* What is read exists: an output of a completed step, with the field.
LEMMA WhatIsReadExists ==
  ASSUME InterpolationTypeOK, NEW loop \in Outputs \cup {Missing},
         NEW path, IsSeq(path), path # <<>>, path[1] = "steps",
         Lookup(ReadScope(loop), path) # Missing
  PROVE  /\ path[2] \in Producers
         /\ produced[path[2]].status = "completed" /\ produced[path[2]].output # Missing
         /\ Len(path) > 3 => /\ produced[path[2]].output.kind = "object"
                             /\ <<path[4]>> \in DOMAIN produced[path[2]].output.fields
<1> DEFINE rest == Tail(path)
<1>1. /\ IsSeq(rest) /\ Len(path) \in Nat /\ Len(rest) = Len(path) - 1
      /\ \A i \in 1..(Len(path) - 1) : rest[i] = path[i + 1]
  BY TailOfPath
<1>2. Lookup(ReadScope(loop), path) = FromStep(CompletedOutputs, rest)
  BY DEF Lookup, ReadScope, Scope
<1> HIDE DEF rest
<1>3. /\ ~(Len(rest) < 2) /\ rest[1] \in DOMAIN CompletedOutputs
      /\ FromStep(CompletedOutputs, rest) =
           Traverse(CompletedOutputs[rest[1]], SubSeq(rest, 3, Len(rest)))
  BY <1>2 DEF FromStep
<1>4. rest[1] = path[2]
  <2>1. 1 \in 1..(Len(path) - 1) /\ 1 + 1 = 2
    BY <1>1, <1>3
  <2>2. rest[1] = path[1 + 1]
    BY <1>1, <2>1
  <2> QED
    BY <2>1, <2>2
<1>5. /\ path[2] \in Producers /\ produced[path[2]].status = "completed"
      /\ produced[path[2]].output # Missing
      /\ CompletedOutputs[rest[1]] = produced[path[2]].output
  BY <1>3, <1>4 DEF CompletedOutputs
<1>6. ASSUME Len(path) > 3
      PROVE  /\ produced[path[2]].output.kind = "object"
             /\ <<path[4]>> \in DOMAIN produced[path[2]].output.fields
  <2> DEFINE more == SubSeq(rest, 3, Len(rest))
             output == produced[path[2]].output
  <2>1. Len(rest) > 2 /\ Len(rest) >= 2
    BY <1>1, <1>6
  <2>2. IsSeq(more) /\ Len(more) > 0 /\ more[1] = rest[3]
    BY <1>1, <2>1, RestOfPath
  <2>3. rest[3] = path[4]
    <3>1. 3 \in 1..(Len(path) - 1) /\ 3 + 1 = 4
      BY <1>1, <1>6
    <3>2. rest[3] = path[3 + 1]
      BY <1>1, <3>1
    <3> QED
      BY <3>1, <3>2
  <2>4. output \in Held
    BY <1>5, OutputsAreHeld DEF InterpolationTypeOK, Outcomes
  <2>5. Traverse(output, more) # Missing
    BY <1>2, <1>3, <1>5
  <2>6. \A v \in Held : \A segment : FieldOf(v, segment) \in Held
    <3> DEFINE none == [k \in {} |-> Missing]
    <3>1. \A k \in DOMAIN none : none[k] \in Held
      OBVIOUS
    <3> HIDE DEF none
    <3> QED
      BY <3>1, FieldsAreHeld
  <2> HIDE DEF more, output
  <2>7. FieldOf(output, more[1]) # Missing
    BY <2>2, <2>4, <2>5, <2>6, MissingStaysMissing
  <2>8. output.kind = "object" /\ <<more[1]>> \in DOMAIN output.fields
    BY <2>7 DEF FieldOf
  <2> QED
    BY <2>2, <2>3, <2>8 DEF output
<1> QED
  BY <1>5, <1>6

-----------------------------------------------------------------------------
(* The same values at a later read. *)

\* A later scope has every output of an earlier one; only workflow.context
\* may have changed, which is no matter to params that do not name it.
LaterScope(old, new, tokens) ==
  /\ \A q \in DOMAIN old.steps : q \in DOMAIN new.steps /\ new.steps[q] = old.steps[q]
  /\ new.inputs = old.inputs /\ new.workflow = old.workflow /\ new.loop = old.loop
  /\ \/ new.context = old.context
     \/ \A i \in DOMAIN tokens : tokens[i].kind = "ref" => tokens[i].path[1] # "context"

\* A reference that leads to a value leads to the same one later.
LEMMA LookupIsStable ==
  ASSUME NEW old, NEW new, NEW tokens, LaterScope(old, new, tokens),
         NEW i \in DOMAIN tokens, tokens[i].kind = "ref",
         Lookup(old, tokens[i].path) # Missing
  PROVE  Lookup(new, tokens[i].path) = Lookup(old, tokens[i].path)
<1> DEFINE path == tokens[i].path
           rest == Tail(path)
<1>1. path[1] = "context" => new.context = old.context
  BY DEF LaterScope
<1>2. /\ new.inputs = old.inputs /\ new.workflow = old.workflow /\ new.loop = old.loop
      /\ \A q \in DOMAIN old.steps : q \in DOMAIN new.steps /\ new.steps[q] = old.steps[q]
  BY DEF LaterScope
<1> HIDE DEF rest, path
<1>3. ASSUME path[1] = "steps"
      PROVE  Lookup(new, path) = Lookup(old, path)
  <2>1. Lookup(new, path) = FromStep(new.steps, rest) /\ Lookup(old, path) = FromStep(old.steps, rest)
    BY <1>3 DEF Lookup, rest
  <2>2. FromStep(old.steps, rest) # Missing
    BY <2>1 DEF path
  <2>3. ~(Len(rest) < 2) /\ rest[2] = "output" /\ rest[1] \in DOMAIN old.steps
    BY <2>2 DEF FromStep
  <2> QED
    BY <1>2, <2>1, <2>3 DEF FromStep
<1>4. CASE path[1] # "steps"
  BY <1>1, <1>2, <1>4 DEF Lookup, rest, path
<1> QED
  BY <1>3, <1>4 DEF path

\* So params that were resolved are resolved to the same text later.
LEMMA ResolveIsStable ==
  ASSUME NEW old, NEW new, NEW tokens \in Params, LaterScope(old, new, tokens),
         Resolve(tokens, old) # Unresolved
  PROVE  Resolve(tokens, new) = Resolve(tokens, old)
<1> DEFINE first == Pass(tokens, old, FALSE)
<1>1. first # Unresolved /\ tokens # Unresolved
  BY DEF Resolve, Pass
<1>2. ASSUME NEW i \in DOMAIN tokens
      PROVE  /\ ~CannotResolve(tokens[i], old, FALSE) /\ ~CannotResolve(tokens[i], new, FALSE)
             /\ Piece(tokens[i], new, FALSE) = Piece(tokens[i], old, FALSE)
  <2>1. IsToken(tokens[i])
    <3>1. tokens[i] \in Tokens
      BY DEF Tokens, ParamTokens
    <3> QED
      BY <3>1, TokensAreTokens
  <2>2. ~CannotResolve(tokens[i], old, FALSE)
    BY <1>1 DEF Pass
  <2>3. tokens[i].kind # "unclosed"
    BY <2>2, RefusedByAPass
  <2>4. CASE tokens[i].kind = "text" \/ IsSecret(tokens[i].path)
    <3>1. ~CannotResolve(tokens[i], new, FALSE)
      BY <2>3, <2>4, RefusedByAPass
    <3> QED
      BY <2>2, <2>4, <3>1, PieceOfFirstPass
  <2>5. CASE ~(tokens[i].kind = "text" \/ IsSecret(tokens[i].path))
    <3>1. tokens[i].kind = "ref"
      BY <2>1, <2>3, <2>5 DEF IsToken
    <3>2. Lookup(old, tokens[i].path) # Missing
      BY <2>2, <2>5, <3>1, RefusedByAPass
    <3>3. Lookup(new, tokens[i].path) = Lookup(old, tokens[i].path)
      BY <3>1, <3>2, LookupIsStable
    <3>4. ~CannotResolve(tokens[i], new, FALSE)
      BY <2>3, <3>2, <3>3, RefusedByAPass
    <3> QED
      BY <2>2, <2>5, <3>3, <3>4, PieceOfFirstPass
  <2> QED
    BY <2>4, <2>5
<1>3. Pass(tokens, new, FALSE) = first
  <2>1. [i \in DOMAIN tokens |-> Piece(tokens[i], new, FALSE)] =
          [i \in DOMAIN tokens |-> Piece(tokens[i], old, FALSE)]
    BY <1>2
  <2>2. /\ Pass(tokens, new, FALSE) =
             FlattenSeq([i \in DOMAIN tokens |-> Piece(tokens[i], new, FALSE)])
        /\ first = FlattenSeq([i \in DOMAIN tokens |-> Piece(tokens[i], old, FALSE)])
    BY <1>1, <1>2 DEF Pass
  <2> QED
    BY <2>1, <2>2
<1> HIDE DEF first
<1>4. ASSUME NEW token
      PROVE  /\ CannotResolve(token, new, TRUE) <=> CannotResolve(token, old, TRUE)
             /\ Piece(token, new, TRUE) = Piece(token, old, TRUE)
  <2>1. CASE IsSecret(token.path)
    <3>1. token.path[1] = "secrets"
      BY <2>1 DEF IsSecret
    <3>2. Lookup(new, token.path) = Lookup(old, token.path)
      BY <3>1 DEF Lookup
    <3> QED
      BY <2>1, <3>2, RefusedByAPass, PieceOfSecondPass
  <2>2. CASE ~IsSecret(token.path)
    BY <2>2, RefusedByAPass, PieceOfSecondPass
  <2> QED
    BY <2>1, <2>2
<1>5. Pass(first, new, TRUE) = Pass(first, old, TRUE)
  <2>1. [i \in DOMAIN first |-> Piece(first[i], new, TRUE)] =
          [i \in DOMAIN first |-> Piece(first[i], old, TRUE)]
    BY <1>4
  <2>2. (\E i \in DOMAIN first : CannotResolve(first[i], new, TRUE)) <=>
          (\E i \in DOMAIN first : CannotResolve(first[i], old, TRUE))
    BY <1>4
  <2> QED
    BY <2>1, <2>2 DEF Pass
<1> QED
  BY <1>3, <1>5 DEF Resolve, first

-----------------------------------------------------------------------------
(* The invariant. *)

\* The ids that an attempt's params name are of steps.
ReadsNameSteps ==
  \A r \in Readers : Interpolated(r) =>
    \A i \in DOMAIN params[r] :
      params[r][i].kind = "ref" /\ params[r][i].path[1] = "steps" =>
        params[r][i].path[2] \in Producers

InterpolationInv == InterpolationTypeOK /\ ReadsNameSteps /\ ReadsAreFinal

\* Nothing is produced or read at first.
LEMMA InterpolationInitHolds ==
  InterpolationInit => InterpolationInv
<1> SUFFICES ASSUME InterpolationInit
             PROVE  InterpolationInv
  OBVIOUS
<1>1. \A r \in Readers : ~Interpolated(r)
  BY DEF InterpolationInit, Interpolated, NotRead
<1>2. InterpolationTypeOK
  BY DEF InterpolationInit, InterpolationTypeOK, Outcomes, Running, NotRead
<1> QED
  BY <1>1, <1>2 DEF InterpolationInv, ReadsNameSteps, ReadsAreFinal, ReadsAreStable,
                    SecretsComeLast, ReadsExist

\* A step's output is stored once (executor.go:828-849) ...
LEMMA ProduceKeeps ==
  ASSUME InterpolationInv, NEW s \in Producers, Produce(s)
  PROVE  InterpolationInv'
<1>1. UNCHANGED <<accumulated, params, result>> /\ produced[s] = Running
  BY DEF Produce
<1>2. /\ produced' \in [Producers -> Outcomes]
      /\ \A q \in Producers \ {s} : produced'[q] = produced[q]
  <2>1. produced \in [Producers -> Outcomes]
    BY DEF InterpolationInv, InterpolationTypeOK
  <2>2. PICK o \in Outcomes : produced' = [produced EXCEPT ![s] = o]
    BY DEF Produce, Outcomes
  <2> QED
    BY <2>1, <2>2
<1>3. InterpolationTypeOK'
  BY <1>1, <1>2 DEF InterpolationInv, InterpolationTypeOK
<1>4. \A q \in DOMAIN CompletedOutputs :
        q \in DOMAIN CompletedOutputs' /\ CompletedOutputs'[q] = CompletedOutputs[q]
  <2>1. ASSUME NEW q \in DOMAIN CompletedOutputs
        PROVE  q \in DOMAIN CompletedOutputs' /\ CompletedOutputs'[q] = CompletedOutputs[q]
    <3>1. /\ q \in Producers /\ produced[q].status = "completed" /\ produced[q].output # Missing
          /\ CompletedOutputs[q] = produced[q].output
      BY DEF CompletedOutputs
    <3>2. q # s
      BY <1>1, <3>1 DEF Running
    <3>3. produced'[q] = produced[q]
      BY <1>2, <3>1, <3>2
    <3> QED
      BY <3>1, <3>3 DEF CompletedOutputs
  <2> QED
    BY <2>1
<1>5. \A r : Interpolated(r)' <=> Interpolated(r)
  BY <1>1 DEF Interpolated
<1>6. ReadsAreStable'
  <2> SUFFICES ASSUME NEW r \in Readers, Interpolated(r), ~RefersTo(r, "context")'
               PROVE  Resolve(params[r], Scope(result[r].loop, InputData))' = result'[r].tokens
    BY <1>5 DEF ReadsAreStable
  <2>1. ~RefersTo(r, "context")
    BY <1>1 DEF RefersTo
  <2>2. PICK old : old = Scope(result[r].loop, InputData)
    OBVIOUS
  <2>3. PICK new : new = Scope(result[r].loop, InputData)'
    OBVIOUS
  <2>4. PICK tokens : tokens = params[r]
    OBVIOUS
  <2>5. Resolve(tokens, old) = result[r].tokens /\ Resolve(tokens, old) # Unresolved
    BY <2>1, <2>2, <2>4 DEF InterpolationInv, ReadsAreFinal, ReadsAreStable, Interpolated
  <2>6. LaterScope(old, new, tokens)
    BY <1>1, <1>4, <2>2, <2>3 DEF LaterScope, Scope, ContextData
  <2>7. tokens \in Params
    BY <2>4 DEF InterpolationInv, InterpolationTypeOK
  <2>8. Resolve(tokens, new) = Resolve(tokens, old)
    BY <2>5, <2>6, <2>7, ResolveIsStable
  <2>9. Resolve(params[r], Scope(result[r].loop, InputData))' = Resolve(tokens, new)
    BY <1>1, <2>3, <2>4
  <2> QED
    BY <1>1, <2>5, <2>8, <2>9
<1>7. SecretsComeLast'
  BY <1>1, <1>5 DEF InterpolationInv, ReadsAreFinal, SecretsComeLast
<1>8. ReadsNameSteps'
  BY <1>1, <1>5 DEF InterpolationInv, ReadsNameSteps
<1>9. ReadsExist'
  <2> SUFFICES ASSUME NEW r \in Readers, Interpolated(r), NEW i \in DOMAIN params[r],
                      params[r][i].kind = "ref", params[r][i].path[1] = "steps"
               PROVE  LET path == params[r][i].path
                          step == produced'[path[2]]
                      IN  /\ step.status = "completed" /\ step.output # Missing
                          /\ Len(path) > 3 => /\ step.output.kind = "object"
                                              /\ <<path[4]>> \in DOMAIN step.output.fields
    BY <1>1, <1>5 DEF ReadsExist
  <2>1. PICK q : q = params[r][i].path[2]
    OBVIOUS
  <2>2. q \in Producers /\ produced[q].status = "completed"
    BY <2>1 DEF InterpolationInv, ReadsNameSteps, ReadsAreFinal, ReadsExist
  <2>3. produced'[q] = produced[q]
    BY <1>1, <1>2, <2>2 DEF Running
  <2> QED
    BY <2>1, <2>3 DEF InterpolationInv, ReadsAreFinal, ReadsExist
<1> QED
  BY <1>3, <1>6, <1>7, <1>8, <1>9 DEF InterpolationInv, ReadsAreFinal

\* ... the accumulated context changes no value that steps and inputs have
\* ...
LEMMA UpdateKeeps ==
  ASSUME InterpolationInv, UpdateAccumulated
  PROVE  InterpolationInv'
<1>1. UNCHANGED <<produced, params, result>>
  BY DEF UpdateAccumulated
<1>2. InterpolationTypeOK'
  BY <1>1 DEF UpdateAccumulated, InterpolationInv, InterpolationTypeOK
<1>3. \A r : Interpolated(r)' <=> Interpolated(r)
  BY <1>1 DEF Interpolated
<1>4. CompletedOutputs' = CompletedOutputs
  BY <1>1 DEF CompletedOutputs
<1>5. ReadsAreStable'
  <2> SUFFICES ASSUME NEW r \in Readers, Interpolated(r), ~RefersTo(r, "context")'
               PROVE  Resolve(params[r], Scope(result[r].loop, InputData))' = result'[r].tokens
    BY <1>3 DEF ReadsAreStable
  <2>1. ~RefersTo(r, "context")
    BY <1>1 DEF RefersTo
  <2>2. PICK old : old = Scope(result[r].loop, InputData)
    OBVIOUS
  <2>3. PICK new : new = Scope(result[r].loop, InputData)'
    OBVIOUS
  <2>4. PICK tokens : tokens = params[r]
    OBVIOUS
  <2>5. Resolve(tokens, old) = result[r].tokens /\ Resolve(tokens, old) # Unresolved
    BY <2>1, <2>2, <2>4 DEF InterpolationInv, ReadsAreFinal, ReadsAreStable, Interpolated
  <2>6. LaterScope(old, new, tokens)
    <3>1. \A i \in DOMAIN tokens : tokens[i].kind = "ref" => tokens[i].path[1] # "context"
      BY <2>1, <2>4 DEF RefersTo
    <3>2. /\ new.steps = old.steps /\ new.inputs = old.inputs
          /\ new.workflow = old.workflow /\ new.loop = old.loop
      BY <1>1, <1>4, <2>2, <2>3 DEF Scope
    <3> QED
      BY <3>1, <3>2 DEF LaterScope
  <2>7. tokens \in Params
    BY <2>4 DEF InterpolationInv, InterpolationTypeOK
  <2>8. Resolve(tokens, new) = Resolve(tokens, old)
    BY <2>5, <2>6, <2>7, ResolveIsStable
  <2>9. Resolve(params[r], Scope(result[r].loop, InputData))' = Resolve(tokens, new)
    BY <1>1, <2>3, <2>4
  <2> QED
    BY <1>1, <2>5, <2>8, <2>9
<1>6. SecretsComeLast' /\ ReadsNameSteps' /\ ReadsExist'
  BY <1>1, <1>3 DEF InterpolationInv, ReadsAreFinal, SecretsComeLast, ReadsNameSteps, ReadsExist
<1> QED
  BY <1>2, <1>5, <1>6 DEF InterpolationInv, ReadsAreFinal

\* ... a read of a scope is not yet a read of a value ...
LEMMA InjectKeeps ==
  ASSUME InterpolationInv, NEW r \in Readers, Inject(r)
  PROVE  InterpolationInv'
<1>1. UNCHANGED <<produced, accumulated, params>>
  BY DEF Inject
<1>2. PICK t : result' = [result EXCEPT ![r] =
                 [tokens |-> t, loop |-> Missing, by |-> "inject"]]
  BY DEF Inject
<1>3. /\ result' = [q \in Readers |-> result'[q]]
      /\ \A q \in Readers \ {r} : result'[q] = result[q]
      /\ result'[r] = [tokens |-> t, loop |-> Missing, by |-> "inject"]
  <2>1. result = [q \in Readers |-> result[q]]
    BY DEF InterpolationInv, InterpolationTypeOK
  <2> QED
    BY <1>2, <2>1
<1>4. InterpolationTypeOK'
  BY <1>1, <1>3 DEF InterpolationInv, InterpolationTypeOK
<1>5. ASSUME NEW q \in Readers, Interpolated(q)'
      PROVE  q # r /\ Interpolated(q) /\ result'[q] = result[q]
  BY <1>3, <1>5 DEF Interpolated
<1>6. CompletedOutputs' = CompletedOutputs /\ ContextData' = ContextData
  BY <1>1 DEF CompletedOutputs, ContextData
<1>7. ReadsAreStable'
  <2> SUFFICES ASSUME NEW q \in Readers, Interpolated(q)', ~RefersTo(q, "context")'
               PROVE  Resolve(params[q], Scope(result[q].loop, InputData))' = result'[q].tokens
    BY DEF ReadsAreStable
  <2>1. ~RefersTo(q, "context") /\ Interpolated(q) /\ result'[q] = result[q]
    BY <1>1, <1>5 DEF RefersTo
  <2>2. Scope(result[q].loop, InputData)' = Scope(result[q].loop, InputData)
    BY <1>6, <2>1 DEF Scope
  <2>3. Resolve(params[q], Scope(result[q].loop, InputData)) = result[q].tokens
    BY <2>1 DEF InterpolationInv, ReadsAreFinal, ReadsAreStable
  <2>4. Resolve(params[q], Scope(result[q].loop, InputData))' =
          Resolve(params[q], Scope(result[q].loop, InputData))
    BY <1>1, <2>2
  <2> QED
    BY <2>1, <2>3, <2>4
<1>8. SecretsComeLast'
  BY <1>5 DEF InterpolationInv, ReadsAreFinal, SecretsComeLast
<1>9. ReadsNameSteps' /\ ReadsExist'
  BY <1>1, <1>5 DEF InterpolationInv, ReadsAreFinal, ReadsNameSteps, ReadsExist
<1> QED
  BY <1>4, <1>7, <1>8, <1>9 DEF InterpolationInv, ReadsAreFinal

\* What an attempt reads is what it would read again, is final, and exists.
LEMMA AttemptReads ==
  ASSUME InterpolationTypeOK, NEW loop \in Outputs \cup {Missing}, NEW tokens \in Params,
         NEW t, t = Unmarshalled(Resolve(tokens, ReadScope(loop))),
         t \notin {Unresolved, Unreadable}
  PROVE  /\ t = Resolve(tokens, ReadScope(loop))
         /\ \A i \in DOMAIN t : t[i].kind = "ref" /\ IsSecret(t[i].path) => OfVault(t[i])
         /\ \A i \in DOMAIN tokens : tokens[i].kind = "ref" /\ tokens[i].path[1] = "steps" =>
              LET path == tokens[i].path
                  step == produced[path[2]]
              IN  /\ path[2] \in Producers
                  /\ step.status = "completed" /\ step.output # Missing
                  /\ Len(path) > 3 => /\ step.output.kind = "object"
                                      /\ <<path[4]>> \in DOMAIN step.output.fields
<1>1. t = Resolve(tokens, ReadScope(loop)) /\ t # Unresolved
  BY DEF Unmarshalled
<1>2. Pass(tokens, ReadScope(loop), FALSE) # Unresolved /\ t \in Seq(FinalTokens)
  BY <1>1, ResolvedIsFinal
<1>3. \A i \in DOMAIN t : t[i].kind = "ref" /\ IsSecret(t[i].path) => OfVault(t[i])
  <2>1. \A i \in DOMAIN t : t[i] \in FinalTokens
    BY <1>2, ElementOfSeq, SequencesAreSeq
  <2> QED
    BY <2>1 DEF FinalTokens
<1>4. ASSUME NEW i \in DOMAIN tokens, tokens[i].kind = "ref", tokens[i].path[1] = "steps"
      PROVE  LET path == tokens[i].path
                 step == produced[path[2]]
             IN  /\ path[2] \in Producers
                 /\ step.status = "completed" /\ step.output # Missing
                 /\ Len(path) > 3 => /\ step.output.kind = "object"
                                     /\ <<path[4]>> \in DOMAIN step.output.fields
  <2> DEFINE path == tokens[i].path
  <2>1. IsSeq(path) /\ path # <<>>
    <3>1. tokens[i] \in Tokens
      BY DEF Tokens, ParamTokens
    <3>2. IsToken(tokens[i])
      BY <3>1, TokensAreTokens
    <3> QED
      BY <1>4, <3>2 DEF IsToken
  <2>2. ~CannotResolve(tokens[i], ReadScope(loop), FALSE)
    BY <1>2 DEF Pass
  <2>3. ~IsSecret(path)
    BY <1>4 DEF IsSecret
  <2>4. Lookup(ReadScope(loop), path) # Missing
    BY <1>4, <2>2, <2>3, RefusedByAPass
  <2>5. path[1] = "steps"
    BY <1>4
  <2> HIDE DEF path
  <2>6. /\ path[2] \in Producers
        /\ produced[path[2]].status = "completed" /\ produced[path[2]].output # Missing
        /\ Len(path) > 3 => /\ produced[path[2]].output.kind = "object"
                            /\ <<path[4]>> \in DOMAIN produced[path[2]].output.fields
    BY <2>1, <2>4, <2>5, WhatIsReadExists
  <2> QED
    BY <2>6 DEF path
<1> QED
  BY <1>1, <1>3, <1>4

\* ... and params are read from the outputs there are.
LEMMA InterpolateKeeps ==
  ASSUME InterpolationInv, NEW r \in Readers, Interpolate(r)
  PROVE  InterpolationInv'
<1>1. UNCHANGED <<produced, accumulated, params>>
  BY DEF Interpolate
<1>2. PICK loop \in Outputs \cup {Missing} :
        result' = [result EXCEPT ![r] =
          [tokens |-> Unmarshalled(Resolve(params[r], Scope(loop, InputData))),
           loop |-> loop, by |-> "attempt"]]
  BY DEF Interpolate
<1>3. PICK t : t = Unmarshalled(Resolve(params[r], ReadScope(loop)))
  OBVIOUS
<1>4. /\ result' = [q \in Readers |-> result'[q]]
      /\ \A q \in Readers \ {r} : result'[q] = result[q]
      /\ result'[r] = [tokens |-> t, loop |-> loop, by |-> "attempt"]
  <2>1. result = [q \in Readers |-> result[q]]
    BY DEF InterpolationInv, InterpolationTypeOK
  <2>2. result' = [result EXCEPT ![r] = [tokens |-> t, loop |-> loop, by |-> "attempt"]]
    BY <1>2, <1>3 DEF ReadScope
  <2> QED
    BY <2>1, <2>2
<1>5. InterpolationTypeOK'
  BY <1>1, <1>4 DEF InterpolationInv, InterpolationTypeOK
<1>6. params[r] \in Params /\ InterpolationTypeOK
  BY DEF InterpolationInv, InterpolationTypeOK
<1>7. CompletedOutputs' = CompletedOutputs /\ ContextData' = ContextData
  BY <1>1 DEF CompletedOutputs, ContextData
<1>8. PICK tokens : tokens = params[r]
  OBVIOUS
<1>9. ASSUME Interpolated(r)'
      PROVE  /\ t = Resolve(tokens, ReadScope(loop))
             /\ \A i \in DOMAIN t : t[i].kind = "ref" /\ IsSecret(t[i].path) => OfVault(t[i])
             /\ \A i \in DOMAIN tokens : tokens[i].kind = "ref" /\ tokens[i].path[1] = "steps" =>
                  LET path == tokens[i].path
                      step == produced[path[2]]
                  IN  /\ path[2] \in Producers
                      /\ step.status = "completed" /\ step.output # Missing
                      /\ Len(path) > 3 => /\ step.output.kind = "object"
                                          /\ <<path[4]>> \in DOMAIN step.output.fields
  <2>1. t \notin {Unresolved, Unreadable}
    BY <1>4, <1>9 DEF Interpolated
  <2>2. tokens \in Params /\ t = Unmarshalled(Resolve(tokens, ReadScope(loop)))
    BY <1>3, <1>6, <1>8
  <2> QED
    BY <1>6, <2>1, <2>2, AttemptReads
<1>10. ASSUME NEW q \in Readers, q # r, Interpolated(q)'
       PROVE  Interpolated(q) /\ result'[q] = result[q]
  BY <1>4, <1>10 DEF Interpolated
<1>11. ReadsAreStable'
  <2> SUFFICES ASSUME NEW q \in Readers, Interpolated(q)', ~RefersTo(q, "context")'
               PROVE  Resolve(params[q], Scope(result[q].loop, InputData))' = result'[q].tokens
    BY DEF ReadsAreStable
  <2>1. CASE q = r
    <3>1. Scope(result[r].loop, InputData)' = ReadScope(loop)
      BY <1>4, <1>7 DEF Scope, ReadScope
    <3>2. Resolve(params[r], Scope(result[r].loop, InputData))' = Resolve(tokens, ReadScope(loop))
      BY <1>1, <1>8, <3>1
    <3> QED
      BY <1>4, <1>9, <2>1, <3>2
  <2>2. CASE q # r
    <3>1. ~RefersTo(q, "context") /\ Interpolated(q) /\ result'[q] = result[q]
      BY <1>1, <1>10, <2>2 DEF RefersTo
    <3>2. Scope(result[q].loop, InputData)' = Scope(result[q].loop, InputData)
      BY <1>7, <3>1 DEF Scope
    <3>3. Resolve(params[q], Scope(result[q].loop, InputData)) = result[q].tokens
      BY <3>1 DEF InterpolationInv, ReadsAreFinal, ReadsAreStable
    <3>4. Resolve(params[q], Scope(result[q].loop, InputData))' =
            Resolve(params[q], Scope(result[q].loop, InputData))
      BY <1>1, <3>2
    <3> QED
      BY <3>1, <3>3, <3>4
  <2> QED
    BY <2>1, <2>2
<1>12. SecretsComeLast'
  <2> SUFFICES ASSUME NEW q \in Readers, Interpolated(q)'
               PROVE  \A i \in DOMAIN result'[q].tokens :
                        result'[q].tokens[i].kind = "ref" /\ IsSecret(result'[q].tokens[i].path)
                          => OfVault(result'[q].tokens[i])
    BY DEF SecretsComeLast, OfVault
  <2>1. CASE q = r
    BY <1>4, <1>9, <2>1
  <2>2. CASE q # r
    BY <1>10, <2>2 DEF InterpolationInv, ReadsAreFinal, SecretsComeLast, OfVault
  <2> QED
    BY <2>1, <2>2
<1>13. ReadsNameSteps' /\ ReadsExist'
  <2>1. ASSUME NEW q \in Readers, Interpolated(q)', NEW i \in DOMAIN params[q],
               params[q][i].kind = "ref", params[q][i].path[1] = "steps"
        PROVE  LET path == params[q][i].path
                   step == produced[path[2]]
               IN  /\ path[2] \in Producers
                   /\ step.status = "completed" /\ step.output # Missing
                   /\ Len(path) > 3 => /\ step.output.kind = "object"
                                       /\ <<path[4]>> \in DOMAIN step.output.fields
    <3>1. CASE q = r
      BY <1>8, <1>9, <2>1, <3>1
    <3>2. CASE q # r
      BY <1>10, <2>1, <3>2 DEF InterpolationInv, ReadsAreFinal, ReadsNameSteps, ReadsExist
    <3> QED
      BY <3>1, <3>2
  <2> QED
    BY <1>1, <2>1 DEF ReadsNameSteps, ReadsExist
<1> QED
  BY <1>5, <1>11, <1>12, <1>13 DEF InterpolationInv, ReadsAreFinal

\* Nothing happens to the reads of others.
LEMMA StutterKeepsReads ==
  ASSUME InterpolationInv, UNCHANGED interpolationVars
  PROVE  InterpolationInv'
<1>1. /\ produced' = produced /\ accumulated' = accumulated /\ params' = params
      /\ result' = result
  BY DEF interpolationVars
<1>2. InterpolationTypeOK'
  BY <1>1 DEF InterpolationInv, InterpolationTypeOK
<1>3. \A r : Interpolated(r)' <=> Interpolated(r)
  BY <1>1 DEF Interpolated
<1>4. \A loop : Scope(loop, InputData)' = Scope(loop, InputData)
  BY <1>1 DEF Scope, CompletedOutputs, ContextData
<1>5. ReadsAreStable'
  <2>1. \A r : Scope(result[r].loop, InputData)' = Scope(result[r].loop, InputData)
    BY <1>1, <1>4 DEF Scope, CompletedOutputs, ContextData
  <2>2. \A r : RefersTo(r, "context")' <=> RefersTo(r, "context")
    BY <1>1 DEF RefersTo
  <2> QED
    BY <1>1, <1>3, <2>1, <2>2 DEF InterpolationInv, ReadsAreFinal, ReadsAreStable
<1>6. SecretsComeLast' /\ ReadsNameSteps' /\ ReadsExist'
  BY <1>1, <1>3 DEF InterpolationInv, ReadsAreFinal, SecretsComeLast, ReadsNameSteps, ReadsExist
<1> QED
  BY <1>2, <1>5, <1>6 DEF InterpolationInv, ReadsAreFinal

\* An attempt's params are read from completed steps, with no secret of their
\* own left to put in, and are the same for a retry (executor.go:863-882),
\* for any params, values and number of attempts.
THEOREM ReadsStayFinal == InterpolationSpec => []ReadsAreFinal
<1>1. InterpolationInit => InterpolationInv
  BY InterpolationInitHolds
<1>2. InterpolationInv /\ [InterpolationNext]_interpolationVars => InterpolationInv'
  BY ProduceKeeps, InterpolateKeeps, InjectKeeps, UpdateKeeps, StutterKeepsReads
     DEF InterpolationNext
<1>3. InterpolationInv => ReadsAreFinal
  BY DEF InterpolationInv
<1> QED
  BY <1>1, <1>2, <1>3, PTL DEF InterpolationSpec

=============================================================================
