--------------------------- MODULE SecurityGateway ---------------------------
(***************************************************************************)
(* The security gateway (pkg/security) as the agent loop asks it about one *)
(* tool call: evaluate the risk, check that it is allowed, ask the user.   *)
(* The loop sees the gateway through an adapter (tui_model.go:297-357,     *)
(* main.go:460-500).                                                       *)
(***************************************************************************)
EXTENDS Naturals

CONSTANTS
  Tools,        (* names of tools                                            *)
  Resources,    (* values of resource_type                                   *)
  Environments  (* values of the context's environment                       *)

VARIABLES
  request,     (* the tool call and the values in the caller's context        *)
  evaluation,  (* what EvaluateRisk has returned through the adapter          *)
  confirmed,   (* the user's answer                                           *)
  stage        (* where the call is in executeTools                           *)

gatewayVars == <<request, evaluation, confirmed, stage>>

Requests == [tool : Tools, resource : Resources, environment : Environments,
             namespace : {"default", "kube-system", "kube-public"},
             onCall : BOOLEAN, window : BOOLEAN]

GatewayInit ==
  /\ request \in Requests /\ stage = "asked" /\ confirmed = FALSE
  /\ evaluation = [level |-> 0, blocked |-> FALSE, double |-> FALSE]

-----------------------------------------------------------------------------
(* The evaluators' scores.                                                    *)
Reads == {"k8s_get", "k8s_describe", "k8s_logs", "k8s_events", "k8s_status", "k8s_top"}

ToolRisk ==
  CASE request.tool \in Reads         -> 0
    [] request.tool = "k8s_restart"   -> 30
    [] request.tool = "k8s_scale"     -> 25
    [] request.tool = "k8s_patch"     -> 40
    [] request.tool = "k8s_rollout"   -> 35
    [] request.tool = "k8s_delete"    -> 80
    [] OTHER                          -> 20

EnvironmentRisk ==
  (CASE request.environment \in {"production", "prod"} -> 20
     [] request.environment \in {"staging", "stage"}   -> 10
     [] request.environment \in {"development", "dev"} -> 0
     [] OTHER                                          -> 5)
  + (CASE request.namespace = "kube-system" -> 30
       [] request.namespace = "kube-public" -> 20
       [] OTHER                             -> 0)

ResourceRisk ==
  CASE request.resource \in {"clusterrole", "clusterrolebinding"} -> 50
    [] request.resource = "namespace"                             -> 40
    [] request.resource \in {"persistentvolume", "pv"}            -> 35
    [] request.resource = "secret"                                -> 30
    [] request.resource \in {"deployment", "statefulset"}         -> 20
    [] OTHER                                                      -> 10

ScoreToRiskLevel(score) ==
  IF score < 10 THEN 0 ELSE IF score < 30 THEN 1 ELSE IF score < 50 THEN 2
  ELSE IF score < 70 THEN 3 ELSE 4

(* The rules: deletions in production, all but get and describe in            *)
(* kube-system, cluster-wide RBAC.  "prod" scores as production but is not    *)
(* production to the rules.                                                   *)
ProductionBlock == request.environment = "production" /\ request.tool = "k8s_delete"
NamespaceBlock  == /\ request.namespace = "kube-system"
                   /\ request.tool \notin {"k8s_get", "k8s_describe"}
ClusterBlock    == request.resource \in {"clusterrole", "clusterrolebinding"}

EvaluateRisk ==
  LET level == ScoreToRiskLevel(ToolRisk + EnvironmentRisk + ResourceRisk)
  IN  [level |-> level, double |-> level >= 3,
       blocked |-> ProductionBlock \/ NamespaceBlock \/ ClusterBlock]

(* The adapters hand on the level and the score; the blocking rules and the   *)
(* demand of a second person get lost.                                        *)
Adapted(e) == [level |-> e.level, blocked |-> FALSE, double |-> FALSE]

IsAllowed(e) ==
  /\ ~e.blocked
  /\ ~(request.environment = "production" /\ e.level >= 3)
  /\ e.double => request.onCall
  /\ e.level >= 3 => request.window

(* Mutant. *)
ConfirmFromL3(e) == e.level >= 3

RequiresConfirmation(e) == e.level >= 2

-----------------------------------------------------------------------------
(* The loop's steps for the call.                                             *)

Evaluate ==
  /\ stage = "asked" /\ evaluation' = Adapted(EvaluateRisk) /\ stage' = "evaluated"
  /\ UNCHANGED <<request, confirmed>>

Decide ==
  /\ stage = "evaluated"
  /\ \/ ~IsAllowed(evaluation) /\ stage' = "refused"
     \/ /\ IsAllowed(evaluation)
        /\ stage' = IF RequiresConfirmation(evaluation) THEN "confirming" ELSE "executed"
  /\ UNCHANGED <<request, evaluation, confirmed>>

(* Without a ConfirmationHandler the answer is no.                            *)
Confirm ==
  /\ stage = "confirming" /\ confirmed' \in BOOLEAN
  /\ stage' = IF confirmed' THEN "executed" ELSE "refused"
  /\ UNCHANGED <<request, evaluation>>

GatewayNext == Evaluate \/ Decide \/ Confirm
GatewaySpec == GatewayInit /\ [][GatewayNext]_gatewayVars

-----------------------------------------------------------------------------
(* The evaluation and the stage of the call have their types.                 *)
GatewayTypeOK ==
  /\ request \in Requests /\ confirmed \in BOOLEAN
  /\ evaluation \in [level : 0..4, blocked : BOOLEAN, double : BOOLEAN]
  /\ stage \in {"asked", "evaluated", "confirming", "refused", "executed"}

(* However the scores of tool, environment, namespace and resource add up, no *)
(* tool but the reads is executed before the user has said yes, none of level *)
(* L3 or L4 outside a change window, and none of these in production at all   *)
(* (gateway.go:248-291).                                                      *)
MutationsAreAsked ==
  stage = "executed" =>
    /\ request.tool \notin Reads => confirmed
    /\ evaluation.level >= 3 => request.window /\ request.environment # "production"
=============================================================================
