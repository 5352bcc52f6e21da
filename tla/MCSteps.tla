------------------------------- MODULE MCSteps -------------------------------
(***************************************************************************)
(* The parts a step runs through, for TLC: the graph its level comes from, *)
(* the interpolation of its params, the breaker of its action, the outcome *)
(* of an attempt with its retry, the flow steps, and the hub that a        *)
(* workflow.emit publishes to.  They share no state: one part moves in a   *)
(* behaviour and the others stay as they are, so that the states add up    *)
(* and do not multiply.                                                    *)
(***************************************************************************)
EXTENDS CircuitBreaker, FlowControl, StepGraph, Failures, Interpolation,
        EventHub

CONSTANTS c1, c2, c3, c4

VARIABLE part

parts == <<breakerVars, vars, graphVars, failureVars, interpolationVars,
           hubVars>>

-----------------------------------------------------------------------------
(* Values of the constants. *)

\* Two waits that share the channel, after an action and before a decision.
\* In a loop the first body is that of every round.
MCBody == [b \in Branches |-> IF b = 0 THEN <<"action", "wait">>
                              ELSE <<"wait", "reasoning">>]

MCMayFail == {<<0, 1>>, <<1, 1>>}
MCIgnored == {<<1, 1>>}

\* What a step may return: an object, a text that mentions a secret, and a
\* text with half a marker.
MCOutputs ==
  {Object([k \in {<<"f">>, <<"items">>} |->
             IF k = <<"f">> THEN TextValue(<<Quoted>>) ELSE List(<<Number>>)]),
   TextValue(<<Bare, Ref(<<"secrets", "k">>)>>), TextValue(<<Unclosed>>)}

MCParams ==
  {<<Ref(<<"steps", "s", "output">>)>>,
   <<Bare, Ref(<<"steps", "s", "output", "f">>), Ref(<<"steps", "t", "output">>)>>,
   <<Ref(<<"steps", "s", "output", "items[0]">>)>>,
   <<Ref(<<"inputs", "a", "b">>), Ref(<<"secrets", "k">>)>>,
   <<Ref(<<"context", "intent">>), Ref(<<"loop", "item", "f">>)>>,
   <<Ref(<<"loop", "index">>), Ref(<<"workflow", "run_id">>)>>,
   <<Ref(<<"steps", "s">>)>>, <<Ref(<<"env", "x">>)>>}

MCValues == MCOutputs \cup
  {Number, List(<<Number>>), TextValue(<<Bare>>), TextValue(<<Quoted>>)}

\* A key with a dot next to a key that is its beginning.
MCInputData == [k \in {<<"a", "b">>, <<"a">>} |->
                  IF k = <<"a">> THEN Number ELSE TextValue(<<Bare>>)]
MCAccumulated == {[k \in {<<"intent">>} |-> Number]}
MCVault == [k \in {<<"k">>} |-> TextValue(<<Bare>>)]

-----------------------------------------------------------------------------

StepsInit ==
  /\ part \in {"breaker", "flow", "graph", "failures", "interpolation", "hub"}
  /\ BreakerInit
  /\ Init
  /\ IF part = "flow" THEN TRUE
     ELSE mode = "condition" /\ decision = "none" /\ maxIter = 0
  /\ IF part = "graph" THEN TRUE ELSE definition = <<<<>>>>
  /\ GraphInit
  /\ IF part = "failures" THEN TRUE ELSE policy = NoPolicy
  /\ FailuresInit
  /\ InterpolationInit /\ HubInit
  /\ IF part = "interpolation" THEN TRUE
     ELSE \A r \in Readers : params[r] = <<Ref(<<"env", "x">>)>>

\* A function has given its answer, or the events of the hub are used up.
Rest == part \in {"graph", "failures", "hub"} /\ UNCHANGED <<part, parts>>

StepsNext ==
  \/ /\ part = "breaker" /\ BreakerNext
     /\ UNCHANGED <<part, vars, graphVars, failureVars, interpolationVars,
                    hubVars>>
  \/ /\ part = "flow" /\ Next
     /\ UNCHANGED <<part, breakerVars, graphVars, failureVars,
                    interpolationVars, hubVars>>
  \/ /\ part = "graph" /\ GraphNext
     /\ UNCHANGED <<part, breakerVars, vars, failureVars, interpolationVars,
                    hubVars>>
  \/ /\ part = "failures" /\ FailuresNext
     /\ UNCHANGED <<part, breakerVars, vars, graphVars, interpolationVars,
                    hubVars>>
  \/ /\ part = "interpolation" /\ InterpolationNext
     /\ UNCHANGED <<part, breakerVars, vars, graphVars, failureVars, hubVars>>
  \/ /\ part = "hub" /\ HubNext
     /\ UNCHANGED <<part, breakerVars, vars, graphVars, failureVars,
                    interpolationVars>>
  \/ Rest

StepsSpec ==
  /\ StepsInit /\ [][StepsNext]_<<part, parts>>
  /\ part = "flow" => FlowFairness
=============================================================================
