---------------------------- MODULE MCOperations ----------------------------
(***************************************************************************)
(* The tools that change the cluster and the workflow engine for TLC: in   *)
(* one behaviour one of the two moves and the other stays in a single      *)
(* initial state.                                                          *)
(***************************************************************************)
EXTENDS K8sTools, Workflow

VARIABLE part

MCVars == <<k8sVars, workflowVars, part>>

SomeNumbers == {-1, 0, 2}

Still == [restart_count |-> "0", has_issues |-> "false", last_logs |-> "unset",
          pod_status |-> "unset", ready_replicas |-> "0"]

MCOperationsInit ==
  /\ K8sInit /\ WorkflowInit
  /\ \/ part = "tools" /\ wf = "node_resource_alert" /\ vars = Still
     \/ part = "workflow" /\ kind = CHOOSE x \in Kinds : TRUE

MCOperationsNext ==
  \/ part = "tools" /\ K8sNext /\ UNCHANGED <<workflowVars, part>>
  \/ part = "workflow" /\ WorkflowNext /\ UNCHANGED <<k8sVars, part>>

MCOperationsSpec ==
  /\ MCOperationsInit /\ [][MCOperationsNext]_MCVars
  /\ \A c \in Callers : WF_k8sVars(part = "tools" /\ RunStep(c))
=============================================================================
