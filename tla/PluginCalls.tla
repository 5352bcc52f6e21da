------------------------------ MODULE PluginCalls ------------------------------
(***************************************************************************)
(* The requests to one plugin process: every tools/call and tools/list     *)
(* writes a line to the shared stdin and reads its answer with a goroutine *)
(* and a buffer of its own from the shared stdout, without looking at the  *)
(* ids.  A goroutine outlives the timeout of its call.  The plugin is      *)
(* external: it answers each line with one line, in order.                 *)
(***************************************************************************)
EXTENDS Integers, Sequences

CONSTANT Calls \* each made once

VARIABLES
  stdin, stdout, \* lines, each named after its call
  request,       \* the calls: where they are and the answer they took
  readers,       \* the calls whose goroutine waits for a line
  shared         \* history: a call was made while another's goroutine read

callVars == <<stdin, stdout, request, readers, shared>>

NoAnswer == "no answer"

CallsInit ==
  /\ stdin = <<>> /\ stdout = <<>> /\ readers = {} /\ shared = FALSE
  /\ request = [c \in Calls |-> [at |-> "new", answer |-> NoAnswer]]

CallWrite(c) ==
  /\ request[c].at = "new"
  /\ stdin' = Append(stdin, c)
  /\ request' = [request EXCEPT ![c].at = "waiting"]
  /\ readers' = readers \cup {c}
  /\ shared' = (shared \/ readers # {})
  /\ UNCHANGED stdout

PluginAnswers ==
  /\ stdin # <<>>
  /\ stdout' = Append(stdout, Head(stdin)) /\ stdin' = Tail(stdin)
  /\ UNCHANGED <<request, readers, shared>>

\* A goroutine fills its buffer with the lines there are and takes the first;
\* the others are lost with the buffer, and all of them if its call has ended.
CallRead(c) ==
  /\ c \in readers /\ stdout # <<>>
  /\ readers' = readers \ {c}
  /\ \E k \in 1..Len(stdout) : stdout' = SubSeq(stdout, k + 1, Len(stdout))
  /\ request' = IF request[c].at = "waiting"
                THEN [request EXCEPT ![c] =
                        [at |-> "answered", answer |-> Head(stdout)]]
                ELSE request
  /\ UNCHANGED <<stdin, shared>>

\* Faulty: the goroutine ends with its call, and a late line is left to the next.
TimeoutEndsReading(c) ==
  /\ request[c].at = "waiting"
  /\ request' = [request EXCEPT ![c].at = "timeout"]
  /\ readers' = readers \ {c}
  /\ UNCHANGED <<stdin, stdout, shared>>

\* Thirty seconds, or the context of the step.
CallTimeout(c) ==
  /\ request[c].at = "waiting"
  /\ request' = [request EXCEPT ![c].at = "timeout"]
  /\ UNCHANGED <<stdin, stdout, readers, shared>>

CallsNext ==
  \/ \E c \in Calls : CallWrite(c) \/ CallRead(c) \/ CallTimeout(c)
  \/ PluginAnswers

CallsSpec == CallsInit /\ [][CallsNext]_callVars

-----------------------------------------------------------------------------

Answered(c) == request[c].at = "answered"

\* No answer is taken by two calls, and a call takes another's only if the
\* goroutine of another was still reading when one of them was made
\* (manager.go:480-491).
AnswersAreNotMixed ==
  /\ \A c, d \in Calls :
       Answered(c) /\ Answered(d) /\ c # d => request[c].answer # request[d].answer
  /\ ~shared => \A c \in Calls : Answered(c) => request[c].answer = c
=============================================================================
