--------------------------- MODULE CircuitBreaker ---------------------------
(***************************************************************************)
(* internal/engine/circuit_breaker.go and its use by executeActionStep:    *)
(* the breaker of one action, shared by every step of every workflow that  *)
(* runs the action.  A caller is one such step: AllowRequest admits or     *)
(* rejects it, the action runs without any lock, and the outcome is        *)
(* recorded when the action returns, however the breaker has moved since.  *)
(*                                                                         *)
(* GetState, which also moves the breaker, has no caller in the program.   *)
(***************************************************************************)
EXTENDS Integers, FiniteSets

CONSTANTS
  Callers,           \* steps that run the action
  FailureThreshold,  \* consecutive failures that open the circuit
  HalfOpenMax,       \* requests let through while half-open
  MayAbandon         \* callers that may leave without recording an outcome

ASSUME BreakerAssumption ==
  /\ IsFiniteSet(Callers)
  /\ FailureThreshold \in Nat
  /\ HalfOpenMax \in Nat
  /\ MayAbandon \subseteq Callers

VARIABLES
  state,                \* CircuitState
  consecutiveFailures,  \* counted up to FailureThreshold
  halfOpenAttempts,     \* requests let through in this half-open episode
  cooled,               \* Cooldown has elapsed since lastFailureTime
  caller,               \* "idle", or what each running caller was admitted as
  abandoned             \* probes of this episode that recorded no outcome

breakerVars ==
  <<state, consecutiveFailures, halfOpenAttempts, cooled, caller, abandoned>>

BreakerInit ==
  /\ state = "closed"
  /\ consecutiveFailures = 0
  /\ halfOpenAttempts = 0
  /\ cooled = TRUE          \* lastFailureTime is the zero time
  /\ caller = [c \in Callers |-> "idle"]
  /\ abandoned = 0

\* Probes that still run are late once their half-open episode is over.
Returns(c) ==
  [d \in Callers |-> IF d = c THEN "idle"
                     ELSE IF caller[d] = "probe" THEN "late_probe"
                     ELSE caller[d]]

-----------------------------------------------------------------------------
(* AllowRequest. *)

AllowClosed(c) ==
  /\ caller[c] = "idle" /\ state = "closed"
  /\ caller' = [caller EXCEPT ![c] = "plain"]
  /\ UNCHANGED <<state, consecutiveFailures, halfOpenAttempts, cooled, abandoned>>

\* The first request after the cooldown is the first probe.
AllowCooled(c) ==
  /\ caller[c] = "idle" /\ state = "open" /\ cooled
  /\ state' = "half_open"
  /\ halfOpenAttempts' = 1
  /\ abandoned' = 0
  /\ caller' = [caller EXCEPT ![c] = "probe"]
  /\ UNCHANGED <<consecutiveFailures, cooled>>

\* Faulty: one probe too many.
AllowOneMore(c) ==
  /\ caller[c] = "idle" /\ state = "half_open"
  /\ halfOpenAttempts <= HalfOpenMax
  /\ halfOpenAttempts' = halfOpenAttempts + 1
  /\ caller' = [caller EXCEPT ![c] = "probe"]
  /\ UNCHANGED <<state, consecutiveFailures, cooled, abandoned>>

AllowHalfOpen(c) ==
  /\ caller[c] = "idle" /\ state = "half_open"
  /\ halfOpenAttempts < HalfOpenMax
  /\ halfOpenAttempts' = halfOpenAttempts + 1
  /\ caller' = [caller EXCEPT ![c] = "probe"]
  /\ UNCHANGED <<state, consecutiveFailures, cooled, abandoned>>

\* CIRCUIT_OPEN: the step fails, the breaker stays as it is.
Reject(c) ==
  /\ caller[c] = "idle"
  /\ \/ state = "open" /\ ~cooled
     \/ state = "half_open" /\ halfOpenAttempts >= HalfOpenMax
  /\ UNCHANGED breakerVars

AllowRequest(c) ==
  AllowClosed(c) \/ AllowCooled(c) \/ AllowHalfOpen(c) \/ Reject(c)

-----------------------------------------------------------------------------
(* The outcome of the action. *)

\* Whoever succeeds closes the circuit, a caller from before it opened too.
RecordSuccess(c) ==
  /\ caller[c] # "idle"
  /\ state' = "closed"
  /\ consecutiveFailures' = 0
  /\ halfOpenAttempts' = 0
  /\ caller' = Returns(c)
  /\ UNCHANGED <<cooled, abandoned>>

\* Faulty: the circuit opens one failure early.
FailureOpensEarly(c) ==
  /\ caller[c] # "idle"
  /\ consecutiveFailures' =
       IF consecutiveFailures < FailureThreshold
       THEN consecutiveFailures + 1 ELSE consecutiveFailures
  /\ cooled' = FALSE
  /\ state' = IF state = "half_open"
                 \/ consecutiveFailures' + 1 >= FailureThreshold
              THEN "open" ELSE state
  /\ caller' = Returns(c)
  /\ UNCHANGED <<halfOpenAttempts, abandoned>>

\* Every failure restarts the cooldown, a late one too.
RecordFailure(c) ==
  /\ caller[c] # "idle"
  /\ consecutiveFailures' =
       IF consecutiveFailures < FailureThreshold
       THEN consecutiveFailures + 1 ELSE consecutiveFailures
  /\ cooled' = FALSE
  /\ state' = IF state = "half_open" \/ consecutiveFailures' >= FailureThreshold
              THEN "open" ELSE state
  /\ caller' = Returns(c)
  /\ UNCHANGED <<halfOpenAttempts, abandoned>>

\* executeActionStep returns before it calls the action (unknown action,
\* failed interpolation, params that do not parse), or the action panics.
Abandon(c) ==
  /\ caller[c] # "idle" /\ c \in MayAbandon
  /\ abandoned' = IF caller[c] = "probe" THEN abandoned + 1 ELSE abandoned
  /\ caller' = [caller EXCEPT ![c] = "idle"]
  /\ UNCHANGED <<state, consecutiveFailures, halfOpenAttempts, cooled>>

CooldownElapses ==
  /\ ~cooled
  /\ cooled' = TRUE
  /\ UNCHANGED <<state, consecutiveFailures, halfOpenAttempts, caller,
                 abandoned>>

Return(c) == RecordSuccess(c) \/ RecordFailure(c) \/ Abandon(c)

BreakerNext ==
  \/ \E c \in Callers : AllowRequest(c) \/ Return(c)
  \/ CooldownElapses

BreakerSpec == BreakerInit /\ [][BreakerNext]_breakerVars

\* An action returns: it carries the step's context and a timeout of its own
\* (actions/http.go:267, actions/shell.go:199).  Time passes.
BreakerFairness ==
  /\ \A c \in Callers : WF_breakerVars(Return(c))
  /\ WF_breakerVars(CooldownElapses)

FairBreaker == BreakerSpec /\ BreakerFairness

\* Workflows keep running the action.
BusyBreaker ==
  /\ FairBreaker
  /\ \A c \in Callers : WF_breakerVars(AllowRequest(c))

-----------------------------------------------------------------------------
(* Properties. *)

BreakerTypeOK ==
  /\ state \in {"closed", "open", "half_open"}
  /\ consecutiveFailures \in 0..FailureThreshold
  /\ halfOpenAttempts \in Nat
  /\ cooled \in BOOLEAN
  /\ caller \in [Callers -> {"idle", "plain", "probe", "late_probe"}]
  /\ abandoned \in Nat

\* The callers let through in the present half-open episode, still running.
Probes == {c \in Callers : caller[c] = "probe"}

\* What AllowRequest lets through per episode: the first request unasked.
ProbeLimit == IF HalfOpenMax > 1 THEN HalfOpenMax ELSE 1

\* halfOpenAttempts is only counted up while half-open, by AllowRequest, and
\* never given back: every counted probe still runs, so that its outcome will
\* end the episode, or left through one of the returns of executeActionStep
\* that record nothing.  Late outcomes of earlier requests arrive in between.
ProbesDecide ==
  state = "half_open" =>
    /\ Cardinality(Probes) + abandoned = halfOpenAttempts
    /\ halfOpenAttempts \in 1..ProbeLimit

\* A half-open circuit goes on to open or closed: it does not reject requests
\* for ever (README.md:584, the next request is a probe).
HalfOpenEnds == state = "half_open" ~> state # "half_open"

\* The circuit rejects only after FailureThreshold failures with no success in
\* between (circuit_breaker.go:34), whichever callers' outcomes mix: RecordFailure
\* reopens a half-open circuit without looking at the count.
OpenAfterThreshold ==
  state # "closed" => consecutiveFailures = FailureThreshold
=============================================================================
