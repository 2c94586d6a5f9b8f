----------------------------- MODULE MCDecisions -----------------------------
(***************************************************************************)
(* The parts of the agent that decide and compute, for TLC: the breaker,   *)
(* the security gateway, the context window, the parallel executor, the    *)
(* dead-loop detection, the LLM router and the way of tool calls.  In one  *)
(* behaviour one of them moves and the others stay in a single initial     *)
(* state.                                                                  *)
(***************************************************************************)
EXTENDS CircuitBreaker, SecurityGateway, ContextWindow, ParallelExecutor, DeadLoop,
        Router, ToolCalls

VARIABLE part

MCVars == <<breakerVars, gatewayVars, contextVars, parallelVars, deadLoopVars,
            routerVars, toolCallVars, part>>

(* Two configurations of three providers, one with a name that comes twice,   *)
(* and none at all.                                                           *)
Config(name, model, priority, timeout) ==
  [name |-> name, model |-> model, priority |-> priority, timeout |-> timeout]

SomeConfigurations ==
  {<<>>,
   <<Config("ollama", "m1", 1, FALSE), Config("openai", "m2", 0, TRUE), Config("claude", "m3", 1, TRUE)>>,
   <<Config("openai", "m2", 1, TRUE), Config("claude", "m3", 0, TRUE), Config("openai", "m4", 0, FALSE)>>,
   <<Config("claude", "m3", 0, FALSE), Config("ollama", "m1", 1, FALSE)>>}

StillRequest == [tool |-> "k8s_get", resource |-> "pod", environment |-> "",
                 namespace |-> "default", onCall |-> FALSE, window |-> FALSE]
StillCalls   == <<[name |-> CHOOSE n \in ToolNames : TRUE, object |-> CHOOSE o \in Objects : TRUE]>>

StillGateway  == request = StillRequest /\ GatewayInit
StillContext  == strategy = "preserve_key" /\ ContextInit
StillParallel == calls = StillCalls /\ execution = "parallel" /\ ParallelInit
StillRouter   == configs = <<>> /\ RouterInit
StillAnswer   == provider = "ollama" /\ answer = <<>> /\ ToolCallsInit

Parts == {"breaker", "gateway", "context", "parallel", "dead loop", "router", "answer"}

MCDecisionsInit ==
  /\ part \in Parts /\ BreakerInit /\ DeadLoopInit
  /\ IF part = "gateway" THEN GatewayInit ELSE StillGateway
  /\ IF part = "context" THEN ContextInit ELSE StillContext
  /\ IF part = "parallel" THEN ParallelInit ELSE StillParallel
  /\ IF part = "router" THEN RouterInit ELSE StillRouter
  /\ IF part = "answer" THEN ToolCallsInit ELSE StillAnswer

Still(p) ==
  /\ UNCHANGED part
  /\ p # "breaker" => UNCHANGED breakerVars
  /\ p # "gateway" => UNCHANGED gatewayVars
  /\ p # "context" => UNCHANGED contextVars
  /\ p # "parallel" => UNCHANGED parallelVars
  /\ p # "dead loop" => UNCHANGED deadLoopVars
  /\ p # "router" => UNCHANGED routerVars
  /\ p # "answer" => UNCHANGED toolCallVars

MCDecisionsNext ==
  \/ part = "breaker" /\ BreakerNext /\ Still("breaker")
  \/ part = "gateway" /\ GatewayNext /\ Still("gateway")
  \/ part = "context" /\ ContextNext /\ Still("context")
  \/ part = "parallel" /\ ParallelNext /\ Still("parallel")
  \/ part = "dead loop" /\ DeadLoopNext /\ Still("dead loop")
  \/ part = "router" /\ RouterNext /\ Still("router")
  \/ part = "answer" /\ ToolCallsNext /\ Still("answer")

MCDecisionsSpec == MCDecisionsInit /\ [][MCDecisionsNext]_MCVars
=============================================================================
