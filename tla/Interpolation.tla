---------------------------- MODULE Interpolation ----------------------------
(***************************************************************************)
(* How a step's params get the values they refer to: Resolve of            *)
(* internal/expressions/interpolation.go, on the scope that                *)
(* buildInterpolationScope makes while the other steps of the level run,   *)
(* and the data_inject of a reasoning step.                                *)
(*                                                                         *)
(* Params, and every text, are sequences of tokens: a reference with its   *)
(* path, a text, or a marker that is not closed.  A text is "bare" when it *)
(* can stand between the quotes of a JSON string as it is.  A key is a     *)
(* sequence too, of the segments between its dots.                         *)
(***************************************************************************)
EXTENDS Naturals, Sequences, SequencesExt

CONSTANTS
  Readers,      \* attempts that interpolate, and reasoning steps that inject
  Producers,    \* the other steps, which are also the ids params may name
  Values,       \* the values that params can refer to, with their fields
  Outputs,      \* values a step may return
  Params,       \* what a reader's params may be
  InputData,    \* the workflow's params: a function of keys
  Accumulated,  \* values of workflow.context's accumulated_data
  Vault         \* secrets, a function of keys

VARIABLES
  produced, \* run.stepStates: [status, output]
  accumulated, \* the row of workflow_context: none, or its accumulated_data
  params,   \* of each reader
  result    \* [tokens, loop, by]: what Resolve returned to it, and for what

interpolationVars == <<produced, accumulated, params, result>>

-----------------------------------------------------------------------------
(* Values and tokens. *)

Ref(path) == [kind |-> "ref", path |-> path]
Bare == [kind |-> "text", bare |-> TRUE]
Quoted == [kind |-> "text", bare |-> FALSE]
Unclosed == [kind |-> "unclosed"]

TextValue(tokens) == [kind |-> "text", tokens |-> tokens]
Number == [kind |-> "number"]
Object(fields) == [kind |-> "object", fields |-> fields]
List(items) == [kind |-> "list", items |-> items]
Missing == [kind |-> "missing"]

\* The error of Resolve, told from every text.
Unresolved == <<[kind |-> "error"]>>
\* The error of executeAction when the params are no longer JSON.
Unreadable == <<[kind |-> "invalid"]>>
NotRead == [tokens |-> <<>>, loop |-> Missing, by |-> "none"]

IsSeq(s) == s \in Seq({s[i] : i \in DOMAIN s})
\* A reference is not empty, which resolvePass would refuse.
IsText(tokens) ==
  /\ IsSeq(tokens)
  /\ \A i \in DOMAIN tokens :
       \/ tokens[i].kind \in {"text", "unclosed"}
       \/ tokens[i].kind = "ref" /\ IsSeq(tokens[i].path) /\ tokens[i].path # <<>>

ASSUME InterpolationAssumption ==
  /\ Outputs \subseteq Values
  /\ \A data \in {InputData, Vault} \cup Accumulated :
       \A k \in DOMAIN data : data[k] \in Values
  /\ \A tokens \in Params : IsText(tokens)
  /\ \A v \in Values : v.kind = "text" => IsText(v.tokens)
  /\ \A v \in Values : v.kind = "object" =>
       \A k \in DOMAIN v.fields : v.fields[k] \in Values

\* marshalInline: texts as they are, objects and lists as JSON.
Marshalled(v) ==
  CASE v.kind = "text" -> v.tokens
    [] v.kind = "number" -> <<Bare>>
    [] OTHER -> <<Quoted>>

-----------------------------------------------------------------------------
(* Paths. *)

FieldOf(v, segment) ==
  IF v.kind = "object" /\ <<segment>> \in DOMAIN v.fields
  THEN v.fields[<<segment>>] ELSE Missing

Traverse(root, path) ==
  LET at[n \in 0..Len(path)] ==
        IF n = 0 THEN root ELSE FieldOf(at[n - 1], path[n])
  IN  at[Len(path)]

FromMap(data, path) ==
  IF path = <<>> THEN Missing
  ELSE IF path \in DOMAIN data THEN data[path]
  ELSE Traverse(Object(data), path)

FromStep(steps, path) ==
  IF Len(path) < 2 \/ path[2] # "output" \/ path[1] \notin DOMAIN steps
  THEN Missing
  ELSE Traverse(steps[path[1]], SubSeq(path, 3, Len(path)))

FromLoop(loop, path) ==
  IF path = <<>> \/ loop = Missing THEN Missing
  ELSE IF path = <<"index">> THEN Number
  ELSE IF path[1] = "item" THEN Traverse(loop, Tail(path))
  ELSE Missing

IsSecret(path) == Len(path) > 1 /\ path[1] = "secrets"

Lookup(scope, path) ==
  LET rest == Tail(path)
  IN  CASE path[1] = "steps" -> FromStep(scope.steps, rest)
        [] path[1] = "inputs" -> FromMap(scope.inputs, rest)
        [] path[1] = "workflow" -> FromMap(scope.workflow, rest)
        [] path[1] = "context" -> FromMap(scope.context, rest)
        [] path[1] = "loop" -> FromLoop(scope.loop, rest)
        [] path[1] = "secrets" ->
             IF rest \in DOMAIN Vault THEN Vault[rest] ELSE Missing
        [] OTHER -> Missing

-----------------------------------------------------------------------------
(* The two passes. *)

Piece(token, scope, secretPass) ==
  IF token.kind = "text" THEN <<token>>
  ELSE IF IsSecret(token.path) # secretPass THEN <<token>>
  ELSE Marshalled(Lookup(scope, token.path))

CannotResolve(token, scope, secretPass) ==
  \/ token.kind = "unclosed"
  \/ /\ token.kind = "ref"
     /\ IsSecret(token.path) = secretPass
     /\ Lookup(scope, token.path) = Missing

Pass(tokens, scope, secretPass) ==
  IF tokens = Unresolved \/ \E i \in DOMAIN tokens : CannotResolve(tokens[i], scope, secretPass)
  THEN Unresolved
  ELSE FlattenSeq([i \in DOMAIN tokens |-> Piece(tokens[i], scope, secretPass)])

Resolve(tokens, scope) == Pass(Pass(tokens, scope, FALSE), scope, TRUE)

\* json.Unmarshal of what Resolve returned: a text that is not bare ends the
\* JSON string it stands in.
Unmarshalled(tokens) ==
  IF \E i \in DOMAIN tokens : tokens[i] = Quoted THEN Unreadable ELSE tokens

-----------------------------------------------------------------------------
(* The scope. *)

\* Faulty: the status is not looked at.
AnyOutput == [s \in Producers |->
                IF produced[s].output = Missing THEN Number ELSE produced[s].output]

CompletedOutputs ==
  LET completed == {s \in Producers : produced[s].status = "completed"
                                      /\ produced[s].output # Missing}
  IN  [s \in completed |-> produced[s].output]

\* Nothing before the first workflow.context update; then the intent and the
\* agent, which accumulated data of the same name replace.
ContextData ==
  LET data == accumulated[1]
      own == {<<"intent">>, <<"agent_id">>}
  IN  IF accumulated = <<>> THEN <<>>
      ELSE [k \in own \cup DOMAIN data |->
              IF k \in DOMAIN data THEN data[k] ELSE TextValue(<<Bare>>)]

\* A reader in a loop body has its item; data_inject has no inputs.
Scope(loop, inputs) ==
  [steps |-> CompletedOutputs, inputs |-> inputs,
   workflow |-> [k \in {<<"run_id">>} |-> TextValue(<<Bare>>)],
   context |-> ContextData, loop |-> loop]

-----------------------------------------------------------------------------
Running == [status |-> "running", output |-> Missing]

InterpolationInit ==
  /\ produced = [s \in Producers |-> Running]
  /\ accumulated = <<>>
  /\ params \in [Readers -> Params]
  /\ result = [r \in Readers |-> NotRead]

\* A step of the level ends: with an output, with an empty one, or failed.
Produce(s) ==
  /\ produced[s] = Running
  /\ \/ \E v \in Outputs : produced' = [produced EXCEPT
            ![s] = [status |-> "completed", output |-> v]]
     \/ \E status \in {"completed", "failed", "skipped"} :
          produced' = [produced EXCEPT ![s] = [status |-> status, output |-> Missing]]
  /\ UNCHANGED <<accumulated, params, result>>

\* An attempt of executeAction, the first or a retry.
Interpolate(r) ==
  /\ \E loop \in Outputs \cup {Missing} :
       result' = [result EXCEPT ![r] =
         [tokens |-> Unmarshalled(Resolve(params[r], Scope(loop, InputData))),
          loop |-> loop, by |-> "attempt"]]
  /\ UNCHANGED <<produced, accumulated, params>>

\* The data_inject of a reasoning step: without inputs, and as it is when it
\* cannot be resolved; what is not JSON is injected as a text.
Inject(r) ==
  LET resolved == Resolve(params[r], Scope(Missing, <<>>))
  IN  /\ result' = [result EXCEPT ![r] =
           [tokens |-> IF resolved = Unresolved THEN params[r] ELSE resolved,
            loop |-> Missing, by |-> "inject"]]
      /\ UNCHANGED <<produced, accumulated, params>>

\* workflow.context with action "update", of any step.
UpdateAccumulated ==
  /\ \E data \in Accumulated : accumulated' = <<data>>
  /\ UNCHANGED <<produced, params, result>>

InterpolationNext ==
  \/ \E s \in Producers : Produce(s)
  \/ \E r \in Readers : Interpolate(r) \/ Inject(r)
  \/ UpdateAccumulated

InterpolationSpec == InterpolationInit /\ [][InterpolationNext]_interpolationVars

-----------------------------------------------------------------------------
(* Properties. *)

Interpolated(r) == /\ result[r].by = "attempt"
                   /\ result[r].tokens \notin {Unresolved, Unreadable}

RefersTo(r, namespace) ==
  \E i \in DOMAIN params[r] : params[r][i].kind = "ref"
                              /\ params[r][i].path[1] = namespace

\* What an attempt read stays what it would read: the order in which the
\* other steps of the level end makes an attempt fail, and never gives it
\* other values (executeAction builds the scope again at each retry).  Data
\* of workflow.context may change in between.
ReadsAreStable ==
  \A r \in Readers :
    Interpolated(r) /\ ~RefersTo(r, "context") =>
      Resolve(params[r], Scope(result[r].loop, InputData)) = result[r].tokens

\* No secret is left to resolve: one that a value refers to is resolved like
\* one of the params, because secrets come last.  What reads like a reference
\* in a secret's own value stays as it is.
SecretsComeLast ==
  \A r \in Readers : Interpolated(r) =>
    \A i \in DOMAIN result[r].tokens :
      LET token == result[r].tokens[i] IN
      token.kind = "ref" /\ IsSecret(token.path) =>
        \E k \in DOMAIN Vault : \E j \in DOMAIN Marshalled(Vault[k]) :
          Marshalled(Vault[k])[j] = token

\* An attempt that starts has read what steps returned: each step its params
\* name completed with an output that has the field.
ReadsExist ==
  \A r \in Readers : Interpolated(r) =>
    \A i \in DOMAIN params[r] :
      params[r][i].kind = "ref" /\ params[r][i].path[1] = "steps" =>
        LET path == params[r][i].path
            step == produced[path[2]]
        IN  /\ step.status = "completed" /\ step.output # Missing
            /\ Len(path) > 3 => /\ step.output.kind = "object"
                                /\ <<path[4]>> \in DOMAIN step.output.fields

\* An attempt's params are final when it starts: read from completed steps,
\* with no secret left, and the same for a retry (executor.go:863-882).
ReadsAreFinal == ReadsAreStable /\ SecretsComeLast /\ ReadsExist

\* docs/workflow-reference.md:130, "Workflow context (intent, agent_id,
\* accumulated data)": context.intent can be read.  Not kept before the first
\* update, which then stores an empty one.
IntentIsRead ==
  \A r \in Readers :
    params[r] = <<Ref(<<"context", "intent">>)>> => result[r].tokens # Unresolved

\* docs/workflow-reference.md:112, an example of params:
\* "data": "${{steps.process.output}}" .
WholeOutputIsRead ==
  \A r \in Readers : \A s \in Producers :
    params[r] = <<Ref(<<"steps", s, "output">>)>> => result[r].tokens # Unreadable
=============================================================================
