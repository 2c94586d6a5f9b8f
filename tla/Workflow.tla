------------------------------ MODULE Workflow ------------------------------
(***************************************************************************)
(* The workflow engine (pkg/workflow): one execution of a built-in         *)
(* workflow, called by the k8s_workflow tool.  The caller's context may    *)
(* end between any two steps; a tool that fails ends the execution.        *)
(***************************************************************************)
EXTENDS Naturals, Sequences, FiniteSets

VARIABLES
  wf,        (* the workflow's ID                                             *)
  at,        (* instance.CurrentStep, Blank at the end                        *)
  step,      (* the step whose actions run, Blank between steps               *)
  k,         (* the next action of that step                                  *)
  vars,      (* instance.Variables: those that conditions read                *)
  results,   (* the tools with an entry in instance.Results                   *)
  status,    (* instance.Status                                               *)
  cancelled  (* the caller's context has ended                                *)

workflowVars == <<wf, at, step, k, vars, results, status, cancelled>>

-----------------------------------------------------------------------------
(* The built-in workflows.                                                    *)

(* A string that was never set: no step, no variable, no value.               *)
Blank == ""

Tool(t)       == [type |-> "tool_call", tool |-> t]
SetTrue(v)    == [type |-> "set_variable", variable |-> v]
Log           == [type |-> "log"]
Exit          == [type |-> "exit"]
Condition(type, variable, expected) ==
  [type |-> type, variable |-> variable, expected |-> expected]
Always        == Condition("always", Blank, Blank)
Step(when, actions, next) == [when |-> when, actions |-> actions, next |-> next]

PodRestartDiagnosis == [
  get_pod_status      |-> Step(Always, <<Tool("k8s_get")>>, "check_restart_count"),
  check_restart_count |-> Step(Condition("greater_than", "restart_count", "0"),
                               <<SetTrue("has_issues"), Log>>, "get_pod_logs"),
  get_pod_logs        |-> Step(Condition("equals", "has_issues", "true"),
                               <<Tool("k8s_logs")>>, "get_pod_events"),
  get_pod_events      |-> Step(Always, <<Tool("k8s_events")>>, "describe_pod"),
  describe_pod        |-> Step(Always, <<Tool("k8s_describe")>>, "check_memory_issue"),
  check_memory_issue  |-> Step(Condition("contains", "last_logs", "OOMKilled"),
                               <<Log>>, "suggest_fix"),
  check_crash_loop    |-> Step(Condition("contains", "pod_status", "CrashLoopBackOff"),
                               <<Log>>, "suggest_fix"),
  suggest_fix         |-> Step(Always, <<Log, Exit>>, Blank),
  no_issues           |-> Step(Always, <<Log, Exit>>, Blank)]

(* Only the parameters of tools are expanded: this text in a condition stays  *)
(* as it is and equals no number of replicas.                                 *)
Unexpanded == "{{desired_replicas}}"

DeploymentHealthCheck == [
  get_deployment     |-> Step(Always, <<Tool("k8s_get")>>, "check_availability"),
  check_availability |-> Step(Condition("not_equals", "ready_replicas", Unexpanded),
                              <<Log>>, "get_events"),
  get_events         |-> Step(Always, <<Tool("k8s_events")>>, "exit"),
  health_ok          |-> Step(Always, <<Log, Exit>>, Blank),
  exit               |-> Step(Always, <<Exit>>, Blank)]

NodeResourceAlert == [
  get_top_nodes   |-> Step(Always, <<Tool("k8s_top")>>, "check_resources"),
  check_resources |-> Step(Always, <<Log, Exit>>, Blank)]

BuiltIn == [
  pod_restart_diagnosis   |-> [steps |-> PodRestartDiagnosis, start |-> "get_pod_status"],
  deployment_health_check |-> [steps |-> DeploymentHealthCheck, start |-> "get_deployment"],
  node_resource_alert     |-> [steps |-> NodeResourceAlert, start |-> "get_top_nodes"]]

Steps == BuiltIn[wf].steps

(* The caller's parameters replace or add variables; "unset" is no entry.     *)
Values == [restart_count  : {"0", "3"},
           has_issues     : {"false", "true"},
           last_logs      : {"unset", "ok", "OOMKilled"},
           pod_status     : {"unset", "Running", "CrashLoopBackOff"},
           ready_replicas : {"0", "3"}]

-----------------------------------------------------------------------------
WorkflowInit ==
  /\ wf \in DOMAIN BuiltIn /\ at = BuiltIn[wf].start /\ step = Blank /\ k = 1
  /\ vars \in Values /\ results = {} /\ status = "running" /\ cancelled = FALSE

(* ConditionContains, on the values above: the text itself.  Greater compares *)
(* as numbers, and the only number expected is 0.                             *)
EvaluateCondition(c) ==
  IF c.type = "always" THEN TRUE
  ELSE /\ vars[c.variable] # "unset"
       /\ \/ c.type \in {"equals", "contains"} /\ vars[c.variable] = c.expected
          \/ c.type = "not_equals" /\ vars[c.variable] # c.expected
          \/ c.type = "greater_than" /\ vars[c.variable] # "0"

Running == status = "running" /\ ~cancelled

(* The caller's context ends: seen at the head of the loop and before each    *)
(* action.                                                                    *)
Cancel ==
  /\ Running /\ cancelled' = TRUE
  /\ UNCHANGED <<wf, at, step, k, vars, results, status>>

SeesCancel ==
  /\ status = "running" /\ cancelled /\ status' = "cancelled"
  /\ UNCHANGED <<wf, at, step, k, vars, results, cancelled>>

(* Mutant: a condition that does not hold ends the workflow.                  *)
PassAndEnd ==
  /\ Running /\ step = Blank /\ at \in DOMAIN Steps
  /\ ~EvaluateCondition(Steps[at].when) /\ at' = Blank /\ status' = "completed"
  /\ UNCHANGED <<wf, step, k, vars, results, cancelled>>

(* The head of the loop.  A step whose condition does not hold is passed over *)
(* to its NextStep, which no such step lacks; OnFailure is read nowhere.      *)
PassOver ==
  /\ Running /\ step = Blank /\ at \in DOMAIN Steps
  /\ ~EvaluateCondition(Steps[at].when) /\ at' = Steps[at].next
  /\ UNCHANGED <<wf, step, k, vars, results, status, cancelled>>

Enter ==
  /\ Running /\ step = Blank /\ at \in DOMAIN Steps /\ EvaluateCondition(Steps[at].when)
  /\ step' = at /\ k' = 1 /\ UNCHANGED <<wf, at, vars, results, status, cancelled>>

(* After an action that left CurrentStep at here: the next action, or after   *)
(* the last one the next step.  No built-in action names a step of its own.   *)
Advance(here) ==
  LET next == IF here = step THEN Steps[step].next ELSE here
  IN  IF k < Len(Steps[step].actions)
      THEN at' = here /\ k' = k + 1 /\ UNCHANGED <<step, status>>
      ELSE /\ at' = next /\ step' = Blank /\ k' = 1
           /\ status' = IF next = Blank THEN "completed" ELSE status

(* A tool that is missing or returns an error fails the whole workflow.  The  *)
(* results of the tools are bytes and add no variables.                       *)
ExecuteToolCall(action) ==
  \/ results' = results \cup {action.tool} /\ Advance(at) /\ UNCHANGED vars
  \/ status' = "failed" /\ UNCHANGED <<at, step, k, vars, results>>

ExecuteAction ==
  /\ Running /\ step # Blank /\ UNCHANGED <<wf, cancelled>>
  /\ LET action == Steps[step].actions[k]
     IN  \/ action.type = "tool_call" /\ ExecuteToolCall(action)
         \/ action.type = "log" /\ Advance(at) /\ UNCHANGED <<vars, results>>
         \/ /\ action.type = "set_variable" /\ Advance(at) /\ UNCHANGED results
            /\ vars' = [vars EXCEPT ![action.variable] = "true"]
         \/ action.type = "exit" /\ Advance(Blank) /\ UNCHANGED <<vars, results>>

EngineStep   == SeesCancel \/ PassOver \/ Enter \/ ExecuteAction
WorkflowNext == Cancel \/ EngineStep
WorkflowSpec == WorkflowInit /\ [][WorkflowNext]_workflowVars

-----------------------------------------------------------------------------
(* The tools of the steps from the start on that have no condition.           *)
Chain ==
  LET steps == Steps
      reached[n \in 0..Cardinality(DOMAIN steps)] ==
        IF n = 0 THEN {BuiltIn[wf].start}
        ELSE reached[n - 1] \cup {steps[s].next : s \in reached[n - 1] \cap DOMAIN steps}
  IN  reached[Cardinality(DOMAIN steps)] \cap DOMAIN steps

Unconditional ==
  {a.tool : a \in {b \in UNION {{Steps[s].actions[i] : i \in 1..Len(Steps[s].actions)} :
                                s \in {u \in Chain : Steps[u].when = Always}} :
                     b.type = "tool_call"}}

(* A workflow that reports "completed" has run all it was to run: every tool  *)
(* of an unconditional step on its way has a result, and so have the logs of  *)
(* a pod with restarts, whatever conditions were passed over between          *)
(* (engine.go:100-129).                                                       *)
CompletedIsComplete ==
  status = "completed" =>
    /\ Unconditional \subseteq results
    /\ wf = "pod_restart_diagnosis" /\ vars.restart_count # "0" => "k8s_logs" \in results
=============================================================================
