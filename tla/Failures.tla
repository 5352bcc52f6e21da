------------------------------- MODULE Failures -------------------------------
(***************************************************************************)
(* What an attempt of an action step comes to and what the retry policy    *)
(* makes of it: http.request and shell.exec of internal/actions, the       *)
(* errors of pkg/schema, and IsRetryableError and ComputeBackoff of        *)
(* internal/engine.  An error is the sequence of what Unwrap goes through: *)
(* codes of OpcodeErrors, "canceled" and "deadline" for the two errors of  *)
(* a context, "other" for any other.  Durations are integers of Bits bits.*)
(***************************************************************************)
EXTENDS Integers, Sequences

CONSTANTS Bits,      \* bits of a time.Duration
          Delays,     \* values of the policy's delay
          MaxDelays,  \* values of its max_delay
          MaxAttempts,\* bound: retries
          BodyLimit,  \* MaxResponseBody, and MaxOutputSize of a command
          Sizes,      \* bytes a server or a command sends at a time
          Redirects   \* redirects a server asks for, and limits of a request

NoDuration == -1
DefaultRedirects == 2 \* of net/http, ten in the library

ASSUME FailuresAssumption ==
  /\ Bits \in Nat \ {0} /\ BodyLimit \in Nat
  /\ Delays \subseteq Nat /\ MaxDelays \subseteq Nat /\ Sizes \subseteq Nat
  /\ Redirects \subseteq Nat /\ MaxAttempts \in Nat

VARIABLES
  policy,  \* the RetryPolicy
  attempt, \* retryCount
  delay,   \* what ComputeBackoff returned last
  request, \* of the action
  world,   \* what the action meets
  outcome, \* [kind, err, body] of the attempt
  written, \* a command's output so far
  kept     \* limitedWriter: what is kept of it

failureVars ==
  <<policy, attempt, delay, request, world, outcome, written, kept>>

-----------------------------------------------------------------------------
(* ComputeBackoff. *)

PowerOfTwo[n \in Nat] == IF n = 0 THEN 1 ELSE 2 * PowerOfTwo[n - 1]
Half == PowerOfTwo[Bits - 1]

Wrap(n) == ((n + Half) % (2 * Half)) - Half

\* Faulty: the loop runs once more.
DoubledOnceMore(n) == LET times[k \in 0..(n + 1)] ==
                            IF k = 0 THEN 1 ELSE Wrap(times[k - 1] * 2)
                      IN  times[n + 1]

Doubled(n) == LET times[k \in 0..n] == IF k = 0 THEN 1 ELSE Wrap(times[k - 1] * 2)
              IN  times[n]

ComputeBackoff(p, n) ==
  LET uncapped == CASE p.backoff = "exponential" -> Wrap(p.delay * Doubled(n))
                    [] p.backoff = "linear" -> Wrap(p.delay * (n + 1))
                    [] OTHER -> p.delay
  IN  IF p.delay = NoDuration THEN 0
      ELSE IF p.maxDelay # NoDuration /\ uncapped > p.maxDelay THEN p.maxDelay
      ELSE uncapped

NoPolicy == [delay |-> NoDuration, maxDelay |-> NoDuration, backoff |-> "none"]
Policies == [delay : Delays \cup {NoDuration}, maxDelay : MaxDelays \cup {NoDuration},
             backoff : {"none", "constant", "linear", "exponential"}]

-----------------------------------------------------------------------------
(* IsRetryableError. *)

NonRetryableCodes ==
  {"VALIDATION_ERROR", "NOT_FOUND", "CONFLICT", "INVALID_TRANSITION",
   "CYCLE_DETECTED", "NON_RETRYABLE", "PERMISSION_DENIED", "CIRCUIT_OPEN",
   "ASSERTION_FAILED", "PATH_DENIED"}

OtherErrors == {"canceled", "deadline", "other"}
Has(err, layer) == \E i \in DOMAIN err : err[i] = layer

\* Where errors.As finds an OpcodeError.
Outermost(err, i) == err[i] \notin OtherErrors /\ \A j \in 1..(i - 1) : err[j] \in OtherErrors

\* Errors of the context first, then the outermost code; whatever has none is
\* worth another attempt.
IsRetryableError(err) ==
  /\ err # <<>>
  /\ \/ Has(err, "deadline")
     \/ /\ ~Has(err, "canceled")
        /\ \A i \in DOMAIN err : Outermost(err, i) => err[i] \notin NonRetryableCodes

-----------------------------------------------------------------------------
(* The actions. *)

Answer(kind, body) == [kind |-> kind, err |-> <<>>, body |-> body]
Error(err) == [kind |-> "error", err |-> err, body |-> "none"]

\* The error a call under a context ends with.
ContextErr(ctx) == IF ctx = "live" THEN "other" ELSE ctx

\* CheckRedirect is asked before each hop, with the requests made so far, and
\* refuses the hop that would be the limit's; a limit of zero leaves net/http's
\* own, which compares in the same way.
RedirectLimit(r) == IF r.maxRedirects > 0 THEN r.maxRedirects ELSE DefaultRedirects
TooManyRedirects(r, w) ==
  r.follow /\ \E via \in 1..w.redirects : via >= RedirectLimit(r)

HTTPRequest(r, w) ==
  IF ~r.valid THEN Error(<<"VALIDATION_ERROR">>)
  ELSE IF w.stopsAt = "request" \/ TooManyRedirects(r, w)
  THEN Error(<<"EXECUTION_ERROR", ContextErr(w.ctx)>>)
  ELSE IF w.stopsAt = "body" THEN Error(<<"EXECUTION_ERROR", ContextErr(w.ctx)>>)
  ELSE LET status == IF w.redirects > 0 /\ ~r.follow THEN 300 ELSE w.status IN
       IF r.failOnStatus /\ status >= 400
       THEN Error(<<IF status >= 500 THEN "EXECUTION_ERROR" ELSE "NON_RETRYABLE">>)
       ELSE Answer("answer",
              CASE w.size = 0 -> "nil"
                [] w.size > 0 /\ w.json /\ w.size <= BodyLimit -> "value"
                [] OTHER -> "text")

\* Faulty: the error of the isolator's Wrap is not kept as the cause.
ShellWithoutCause(r, w) ==
  IF ~r.valid THEN Error(<<"VALIDATION_ERROR">>)
  ELSE IF r.denied THEN Error(<<"PATH_DENIED", "PATH_DENIED">>)
  ELSE CASE w.stopsAt = "isolation" -> Error(<<"ISOLATION_ERROR">>)
         [] w.stopsAt = "request" -> Error(<<"EXECUTION_ERROR", ContextErr(w.ctx)>>)
         [] OTHER -> Answer("exit", "value")

\* A directory the limits deny, an isolator that cannot wrap the command, the
\* context being over one of its reasons, a command that cannot be started or
\* exits well while it is being killed, and everything else, an exit status or
\* a kill, which is an answer.
ShellExec(r, w) ==
  IF ~r.valid THEN Error(<<"VALIDATION_ERROR">>)
  ELSE IF r.denied THEN Error(<<"PATH_DENIED", "PATH_DENIED">>)
  ELSE CASE w.stopsAt = "isolation" -> Error(<<"ISOLATION_ERROR", ContextErr(w.ctx)>>)
         [] w.stopsAt = "request" -> Error(<<"EXECUTION_ERROR", ContextErr(w.ctx)>>)
         [] OTHER -> Answer("exit", IF w.stopsAt = "body" /\ w.ctx = "deadline"
                                    THEN "killed" ELSE "value")

Execute(r, w) == IF r.action = "http" THEN HTTPRequest(r, w) ELSE ShellExec(r, w)

\* limitedWriter.Write.
Keep(k, chunk) ==
  LET remaining == BodyLimit - Len(k) IN
  IF remaining <= 0 THEN k
  ELSE k \o SubSeq(chunk, 1, IF Len(chunk) > remaining THEN remaining ELSE Len(chunk))

-----------------------------------------------------------------------------

HTTPRequests == [action : {"http"}, valid : BOOLEAN, denied : {FALSE},
                 follow : BOOLEAN, maxRedirects : Redirects, failOnStatus : BOOLEAN]
ShellRequests == [action : {"shell"}, valid : BOOLEAN, denied : BOOLEAN,
                  follow : {FALSE}, maxRedirects : {0}, failOnStatus : {FALSE}]
\* A context that is over stops what runs, wherever it has come to.
Worlds == {w \in [ctx : {"live", "canceled", "deadline"},
                  stopsAt : {"isolation", "request", "body", "end"},
                  redirects : Redirects, status : {200, 404, 503}, size : Sizes, json : BOOLEAN] :
             w.ctx # "live" => w.stopsAt # "end"}

NotRun == [kind |-> "none", err |-> <<>>, body |-> "none"]

FirstRequest == [action |-> "shell", valid |-> TRUE, denied |-> FALSE,
                 follow |-> FALSE, maxRedirects |-> 0, failOnStatus |-> FALSE]

\* The attempts do not depend on the policy, nor the waits on the attempts.
FailuresInit ==
  /\ policy \in Policies /\ attempt = 0 /\ delay = 0
  /\ request = FirstRequest
  /\ world = [ctx |-> "live", stopsAt |-> "end", redirects |-> 0,
              status |-> 200, size |-> 0, json |-> FALSE]
  /\ outcome = NotRun
  /\ written = <<>> /\ kept = <<>>

\* The next wait of a step that goes on failing.
Backoff ==
  /\ attempt < MaxAttempts
  /\ attempt' = attempt + 1
  /\ delay' = ComputeBackoff(policy, attempt)
  /\ UNCHANGED <<policy, request, world, outcome, written, kept>>

Attempt ==
  /\ policy = NoPolicy /\ attempt = 0 /\ written = <<>> /\ outcome = NotRun
  /\ request' \in HTTPRequests \cup ShellRequests /\ world' \in Worlds
  /\ request'.action = "http" => world'.stopsAt # "isolation"
  /\ outcome' = Execute(request', world')
  /\ UNCHANGED <<policy, attempt, delay, written, kept>>

\* A command writes some of its output.
Write ==
  /\ policy = NoPolicy /\ attempt = 0 /\ outcome = NotRun
  /\ Len(written) <= BodyLimit
  /\ \E n \in Sizes :
       LET chunk == [i \in 1..n |-> Len(written) + i] IN
       /\ written' = written \o chunk
       /\ kept' = Keep(kept, chunk)
  /\ UNCHANGED <<policy, attempt, delay, request, world, outcome>>

FailuresNext == Backoff \/ Attempt \/ Write

FailuresSpec == FailuresInit /\ [][FailuresNext]_failureVars

-----------------------------------------------------------------------------

\* The delay before the retry that follows `attempt' of them, as the documents
\* have it, without a limit of the integers: nothing, the delay, the delay times
\* the attempt, or times two to its number.
Product(p, n) == CASE p.backoff = "none" -> 0
                   [] p.backoff = "constant" -> p.delay
                   [] p.backoff = "linear" -> p.delay * (n + 1)
                   [] p.backoff = "exponential" -> p.delay * PowerOfTwo[n]
Intended(p, n) ==
  IF p.maxDelay # NoDuration /\ Product(p, n) > p.maxDelay THEN p.maxDelay
  ELSE Product(p, n)

\* The code waits the full delay for `none' (NoneIsImmediate), so the others.
Waits == attempt > 0 /\ policy.delay # NoDuration /\ policy.backoff # "none"

\* A wait is what the policy asks for, never more than its cap, up to the last
\* product that fits into a duration (retry.go:70-106, the table of
\* error-handling.md:16-21).
BackoffIsIntended ==
  Waits /\ Product(policy, attempt - 1) < Half => delay = Intended(policy, attempt - 1)

\* The max_delay caps the computed backoff (error-handling.md:23) after any
\* number of attempts.  The code does not keep it: a product that does not fit
\* wraps below the cap (retry.go:82-88).
BackoffIsCapped ==
  Waits /\ policy.maxDelay # NoDuration => delay = Intended(policy, attempt - 1)

\* Backoff `none' is an immediate retry (docs/workflow-reference.md:27,
\* error-handling.md:18).  The code does not keep it: its case is that of
\* `constant' (retry.go:93-94).
NoneIsImmediate == attempt > 0 /\ policy.backoff = "none" => delay = 0

\* Up to max_redirects hops are followed (actions.md:21).  The code does not
\* keep it: the hop that reaches the limit is refused (http.go:324).
HopsAreFollowed ==
  /\ outcome.kind = "error" /\ request.follow /\ request.maxRedirects > 0
  /\ world.stopsAt = "end" /\ world.redirects <= request.maxRedirects
  => ~Has(outcome.err, "other")

\* An attempt that ended because the workflow was cancelled is not made again
\* (retry.go:26-29): every action keeps the context's error as the cause of
\* its own, or answers.
CancelledIsNotRetried ==
  world.ctx = "canceled" /\ world.stopsAt # "end" /\ outcome.kind = "error"
    => ~IsRetryableError(outcome.err)

\* What refuses an attempt for good: the limits a command's directory, or the
\* server, when it was reached in fewer redirects than are allowed.
Refused(r, w) ==
  \/ r.denied
  \/ /\ w.stopsAt = "end" /\ w.status = 404
     /\ r.follow => w.redirects < RedirectLimit(r)

\* A refusal is final and a failure is not: the server's (http.go:378-386) only
\* when the request says so, and a deadline or one redirect too many is always
\* worth another attempt.
RefusalsAreFinal ==
  request.valid /\ outcome.kind = "error" /\ world.ctx # "canceled" =>
    (IsRetryableError(outcome.err) <=> ~Refused(request, world))

\* What is kept of a command's output is its beginning, as much as the limit
\* allows, however the pipe cuts it (shell.go:279-294).
OutputIsPrefix ==
  kept = SubSeq(written, 1, IF Len(written) > BodyLimit THEN BodyLimit ELSE Len(written))

\* What the executor is told of an attempt is what happened: the retry policy
\* tells a cancellation, a refusal and a failure apart, and an output that is
\* cut is the beginning of what the command wrote.
AttemptsAreReported == CancelledIsNotRetried /\ RefusalsAreFinal /\ OutputIsPrefix
=============================================================================
