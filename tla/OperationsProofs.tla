--------------------------- MODULE OperationsProofs ---------------------------
(***************************************************************************)
(* That the update of a tool changes only what its call is about, for any  *)
(* number of runs, calls and other writes: the API server takes a copy     *)
(* only while it differs from the object in nothing else.  And that a      *)
(* workflow which says it is completed has run what it had to run: the     *)
(* invariant says, for every step an execution can stand before, what has  *)
(* been run by then.                                                       *)
(***************************************************************************)
EXTENDS K8sTools, Workflow, TLAPS

(* ---- The tools that change the cluster.                                    *)

CallRecords == [op : Ops \cup {"none"}, origin : Origins \cup {"go"}, number : Int]

ClusterTypes ==
  /\ kind \in Kinds /\ object \in Object /\ object.template > 0
  /\ replicaSets \in [1..MaxTemplates -> Nat]

RunTypes ==
  /\ pc \in [Callers -> {"idle", "execute", "update", "restore"}]
  /\ call \in [Callers -> CallRecords] /\ copy \in [Callers -> Object]
  /\ saved \subseteq Callers /\ current \subseteq Callers
  /\ \A c \in saved : pc[c] # "idle"

(* What the tools have checked before they send an update.                    *)
Checked ==
  \A c \in Callers :
    /\ pc[c] = "execute" => call[c].op \in Ops
    /\ pc[c] = "update"  => /\ call[c].op \in Updates
                            /\ call[c].op = "scale" => IntArgument(call[c]) \in Nat

(* A copy with the object's resourceVersion is the object.                    *)
Fits == \A c \in current : pc[c] = "update" /\ copy[c] = object

K8sInv == ClusterTypes /\ RunTypes /\ Checked /\ Fits

-----------------------------------------------------------------------------
LEMMA K8sStarts == K8sInit => K8sInv
<1> SUFFICES ASSUME K8sInit PROVE K8sInv
  OBVIOUS
<1>1. object \in Object /\ object.template > 0
  BY K8sConstants DEF K8sInit, Object
<1>2. replicaSets \in [1..MaxTemplates -> Nat]
  BY DEF K8sInit
<1>3. NoCall \in CallRecords /\ NoObject \in Object
  BY K8sConstants DEF NoCall, NoObject, CallRecords, Object
<1>4. RunTypes
  BY <1>3 DEF K8sInit, RunTypes
<1>5. Checked /\ Fits
  BY DEF K8sInit, Checked, Fits
<1> QED BY <1>1, <1>2, <1>4, <1>5 DEF K8sInit, ClusterTypes, K8sInv

(* The end of a call, with its rollback still to come or not, concerns its    *)
(* run alone.                                                                 *)
LEMMA CallEnds ==
  ASSUME K8sInv, NEW c \in Callers, End(c) \/ Failed(c)
  PROVE  /\ pc' \in [Callers -> {"idle", "execute", "update", "restore"}]
         /\ call' \in [Callers -> CallRecords] /\ copy' \in [Callers -> Object]
         /\ saved' \subseteq saved /\ pc'[c] \in {"idle", "restore"}
         /\ c \in saved' => pc'[c] # "idle"
         /\ \A d \in Callers \ {c} :
              pc'[d] = pc[d] /\ call'[d] = call[d] /\ copy'[d] = copy[d]
<1> USE DEF K8sInv, RunTypes
<1>1. NoCall \in CallRecords /\ NoObject \in Object
  BY K8sConstants DEF NoCall, NoObject, CallRecords, Object
<1>2. CASE End(c)
  BY <1>1, <1>2 DEF End, Go
<1>3. CASE c \in saved /\ Go(c, "restore") /\ UNCHANGED <<call, copy, saved>>
  BY <1>3 DEF Go
<1> QED BY <1>2, <1>3 DEF Failed

(* A run that ends, and whatever it has done to the object: no other run has  *)
(* a current copy of an object that is no more.                               *)
LEMMA RunEnds ==
  ASSUME K8sInv, NEW c \in Callers, End(c) \/ Failed(c),
         current' \subseteq current \ {c}, object' # object => current' = {}
  PROVE  RunTypes' /\ Checked' /\ Fits'
<1>1. RunTypes'
  BY CallEnds DEF K8sInv, RunTypes
<1>2. Checked'
  BY CallEnds DEF K8sInv, Checked, IntArgument
<1>3. Fits'
  BY CallEnds DEF K8sInv, RunTypes, Fits
<1> QED BY <1>1, <1>2, <1>3

LEMMA FreshTemplates == \A t \in Fresh : t \in 1..MaxTemplates
BY DEF Fresh

(* What a run sends has the object's type, and is the object but for the      *)
(* fields that the call is about.                                             *)
LEMMA ChangedFields ==
  ASSUME K8sInv, NEW c \in Callers, pc[c] = "update", NEW o \in Changed(c)
  PROVE  /\ o \in Object /\ (copy[c].template > 0 => o.template > 0)
         /\ \A f \in DOMAIN copy[c] \ About(call[c].op) : o[f] = copy[c][f]
<1>1. copy[c] \in Object /\ call[c].op \in Updates
      /\ (call[c].op = "scale" => IntArgument(call[c]) \in Nat)
  BY DEF K8sInv, RunTypes, Checked
<1>2. DOMAIN copy[c] = {"replicas", "paused", "template", "min", "max"}
  BY <1>1 DEF Object
<1>3. CASE call[c].op = "scale" /\ kind = "hpa"
  <2> DEFINE n == IntArgument(call[c])
  <2>1. o = [copy[c] EXCEPT !.min = IF n > 0 THEN n ELSE @, !.max = IF n > 0 THEN n ELSE @]
    BY <1>3 DEF Changed, Restarts
  <2>2. n \in Nat
    BY <1>1, <1>3
  <2> HIDE DEF n
  <2> QED BY <1>1, <1>2, <1>3, <2>1, <2>2 DEF Object, About
<1>4. CASE call[c].op = "scale" /\ kind # "hpa"
  <2> DEFINE n == IntArgument(call[c])
  <2>1. o = [copy[c] EXCEPT !.replicas = n] /\ n \in Nat
    BY <1>1, <1>4 DEF Changed, Restarts
  <2> HIDE DEF n
  <2> QED BY <1>1, <1>2, <1>4, <2>1 DEF Object, About
<1>5. CASE call[c].op \in {"pause", "resume"}
  <2>1. \E b \in BOOLEAN : o = [copy[c] EXCEPT !.paused = b]
    BY <1>5 DEF Changed, Restarts
  <2> QED BY <1>1, <1>2, <1>5, <2>1 DEF Object, About
<1>6. CASE call[c].op \in Restarts \cup {"undo"}
  <2>1. \E t \in 1..MaxTemplates : o = [copy[c] EXCEPT !.template = t]
    BY <1>6, FreshTemplates DEF Changed, Restarts, Targets
  <2>2. About(call[c].op) = {"template"}
    BY <1>6 DEF About, Restarts
  <2>3. PICK t \in 1..MaxTemplates : o = [copy[c] EXCEPT !.template = t]
    BY <2>1
  <2>4. t \in 0..MaxTemplates /\ t > 0
    BY K8sConstants
  <2>5. o \in Object /\ o.template = t
    BY <1>1, <2>3, <2>4 DEF Object
  <2>6. \A f \in DOMAIN copy[c] \ {"template"} : o[f] = copy[c][f]
    BY <1>1, <1>2, <2>3 DEF Object
  <2> QED BY <2>2, <2>4, <2>5, <2>6
<1> QED BY <1>1, <1>3, <1>4, <1>5, <1>6 DEF Updates, Restarts

(* What a patch or another client writes has the object's type.               *)
LEMMA WritesAreObjects ==
  ASSUME K8sInv,
         \/ \E n \in Numbers \cap Nat : Write([object EXCEPT !.replicas = n])
         \/ Write([object EXCEPT !.paused = ~@])
         \/ \E t \in Fresh : Write([object EXCEPT !.template = t])
  PROVE  /\ object' \in Object /\ object'.template > 0
         /\ current' \subseteq current /\ (object' # object => current' = {})
<1> USE DEF K8sInv, ClusterTypes
<1>1. ASSUME NEW n \in Nat, Write([object EXCEPT !.replicas = n])
      PROVE  object' \in Object /\ object'.template > 0
  BY <1>1 DEF Write, Object
<1>2. ASSUME Write([object EXCEPT !.paused = ~@])
      PROVE  object' \in Object /\ object'.template > 0
  BY <1>2 DEF Write, Object
<1>3. ASSUME NEW t \in 1..MaxTemplates, Write([object EXCEPT !.template = t])
      PROVE  object' \in Object /\ object'.template > 0
  BY <1>3 DEF Write, Object
<1>4. current' \subseteq current /\ (object' # object => current' = {})
  BY DEF Write
<1> QED BY <1>1, <1>2, <1>3, <1>4, FreshTemplates

-----------------------------------------------------------------------------
LEMMA SentFields ==
  ASSUME K8sInv, NEW c \in Callers, Update(c)
  PROVE  /\ object' \in Object /\ object'.template > 0
         /\ \A f \in DOMAIN object \ About(call[c].op) : object'[f] = object[f]
         /\ current' \subseteq current \ {c} /\ (object' # object => current' = {})
         /\ (End(c) \/ Failed(c)) /\ UNCHANGED <<kind, replicaSets, first, budget>>
<1>1. pc[c] = "update" /\ copy[c] = object
  BY DEF Update, K8sInv, Fits
<1>2. PICK o \in Changed(c) :
        object' = o /\ current' = (IF o = object THEN current ELSE {}) \ {c}
  BY DEF Update, Send
<1>3. (End(c) \/ Failed(c)) /\ UNCHANGED <<kind, replicaSets, first, budget>>
  BY DEF Update, Send
<1> QED BY <1>1, <1>2, <1>3, ChangedFields DEF K8sInv, ClusterTypes

LEMMA BeginKeeps ==
  ASSUME K8sInv, NEW c \in Callers, Begin(c) PROVE K8sInv'
<1> USE DEF K8sInv, RunTypes
<1>1. PICK new \in Calls : call' = [call EXCEPT ![c] = new]
  BY DEF Begin
<1>2. new \in CallRecords /\ new.op \in Ops
  <2>1. CASE new \in [op : Numbered, origin : Origins, number : Numbers]
    BY <2>1, K8sConstants DEF CallRecords, Numbered, Ops, Updates
  <2>2. CASE new \in [op : Ops \ Numbered, origin : {"go"}, number : {0}]
    <3>1. new.op \in Ops /\ new.origin \in Origins \cup {"go"} /\ new.number \in Int
      BY <2>2
    <3>2. new = [op |-> new.op, origin |-> new.origin, number |-> new.number]
      BY <2>2
    <3> QED BY <3>1, <3>2 DEF CallRecords
  <2> QED BY <2>1, <2>2 DEF Calls
<1>3. pc[c] = "idle" /\ pc' = [pc EXCEPT ![c] = "execute"] /\ saved' \subseteq saved \cup {c}
      /\ UNCHANGED <<kind, object, replicaSets, first, copy, current>>
  BY DEF Begin, Go
<1>4. ClusterTypes'
  BY <1>3 DEF ClusterTypes
<1>5. RunTypes'
  BY <1>1, <1>2, <1>3
<1>6. Checked' /\ Fits'
  BY <1>1, <1>2, <1>3 DEF Checked, Fits, IntArgument
<1> QED BY <1>4, <1>5, <1>6

LEMMA GetKeeps ==
  ASSUME K8sInv, NEW c \in Callers, Get(c) PROVE K8sInv'
<1> USE DEF K8sInv
<1>1. /\ pc' = [pc EXCEPT ![c] = "update"] /\ copy' = [copy EXCEPT ![c] = object]
      /\ current' = current \cup {c}
      /\ UNCHANGED <<kind, object, replicaSets, first, call, saved, budget>>
  BY DEF Get, Go
<1>2. ClusterTypes' /\ RunTypes'
  BY <1>1 DEF ClusterTypes, RunTypes
<1>3. call[c].op \in Updates /\ (call[c].op = "scale" => IntArgument(call[c]) \in Nat)
  <2>1. call[c] \in CallRecords /\ kind \in Supported(call[c].op) /\ call[c].op # "patch"
        /\ call[c].op \notin Reads /\ ~(call[c].op = "scale" /\ IntArgument(call[c]) < 0)
    BY DEF Get, Refused, NothingToDo, RunTypes
  <2>3. call[c].op \in Ops
    BY DEF Get, Checked
  <2>2. IntArgument(call[c]) \in Int
    BY <2>1 DEF IntArgument, CallRecords
  <2> QED BY <2>1, <2>2, <2>3 DEF Ops
<1>4. Checked'
  BY <1>1, <1>3 DEF Checked, RunTypes, IntArgument
<1>5. Fits'
  BY <1>1 DEF Fits, RunTypes
<1> QED BY <1>2, <1>4, <1>5

LEMMA K8sSteps == K8sInv /\ [K8sNext]_k8sVars => K8sInv'
<1> SUFFICES ASSUME K8sInv, [K8sNext]_k8sVars PROVE K8sInv'
  OBVIOUS
<1>1. ASSUME NEW c \in Callers, Begin(c) PROVE K8sInv'
  BY <1>1, BeginKeeps
<1>2. ASSUME NEW c \in Callers, Get(c) PROVE K8sInv'
  BY <1>2, GetKeeps
<1>3. ASSUME NEW c \in Callers, Fail(c) \/ GetAndReturn(c) \/ UpdateFails(c) \/ Restore(c)
      PROVE  K8sInv'
  <2>1. (End(c) \/ Failed(c)) /\ UNCHANGED <<kind, object, replicaSets>>
    BY <1>3 DEF Fail, GetAndReturn, UpdateFails, Restore
  <2>2. current' \subseteq current \ {c}
    BY <1>3 DEF Fail, GetAndReturn, UpdateFails, Restore, K8sInv, Fits
  <2> QED BY <2>1, <2>2, RunEnds DEF K8sInv, ClusterTypes
<1>4. ASSUME NEW c \in Callers, Update(c) PROVE K8sInv'
  BY <1>4, SentFields, RunEnds DEF K8sInv, ClusterTypes
<1>5. ASSUME NEW c \in Callers, Patch(c) PROVE K8sInv'
  <2>1. /\ object' \in Object /\ object'.template > 0
        /\ current' \subseteq current /\ (object' # object => current' = {})
    BY <1>5, WritesAreObjects DEF Patch
  <2>2. pc[c] = "execute" /\ (End(c) \/ Failed(c)) /\ UNCHANGED <<kind, replicaSets>>
    BY <1>5 DEF Patch
  <2>3. current' \subseteq current \ {c}
    BY <2>1, <2>2 DEF K8sInv, Fits
  <2> QED BY <2>1, <2>2, <2>3, RunEnds DEF K8sInv, ClusterTypes
<1>6. CASE OtherWrite
  <2>1. /\ object' \in Object /\ object'.template > 0
        /\ current' \subseteq current /\ (object' # object => current' = {})
    BY <1>6, WritesAreObjects DEF OtherWrite
  <2>2. UNCHANGED <<kind, replicaSets, first, pc, call, copy, saved>>
    BY <1>6 DEF OtherWrite
  <2> QED BY <2>1, <2>2 DEF K8sInv, ClusterTypes, RunTypes, Checked, Fits, IntArgument
<1>7. CASE NewRevision
  <2>1. PICK last \in 1..MaxTemplates :
          replicaSets' = [replicaSets EXCEPT ![object.template] = replicaSets[last] + 1]
    BY <1>7 DEF NewRevision
  <2>3. replicaSets \in [1..MaxTemplates -> Nat] /\ replicaSets[last] + 1 \in Nat
    BY DEF K8sInv, ClusterTypes
  <2>4. replicaSets' \in [1..MaxTemplates -> Nat]
    BY <2>1, <2>3
  <2>2. UNCHANGED <<kind, object, first, pc, call, copy, current, saved, budget>>
    BY <1>7 DEF NewRevision
  <2> QED BY <2>2, <2>4 DEF K8sInv, ClusterTypes, RunTypes, Checked, Fits, IntArgument
<1>8. CASE UNCHANGED k8sVars
  BY <1>8 DEF k8sVars, K8sInv, ClusterTypes, RunTypes, Checked, Fits, IntArgument
<1> QED BY <1>1, <1>2, <1>3, <1>4, <1>5, <1>6, <1>7, <1>8 DEF K8sNext, RunStep

LEMMA K8sInvariant == K8sSpec => []K8sInv
BY K8sStarts, K8sSteps, PTL DEF K8sSpec

-----------------------------------------------------------------------------
(* Object, ReplicaSets and runs keep their types, and a copy that the API     *)
(* server would take is the object as it is.                                  *)
THEOREM K8sTypeCorrect == K8sSpec => []K8sTypeOK
<1>1. K8sInv => K8sTypeOK
  BY DEF K8sInv, ClusterTypes, RunTypes, Fits, K8sTypeOK
<1> QED BY <1>1, K8sInvariant, PTL

(* A run leaves the place of its update by an update that changes what the    *)
(* call is about, or with the object as it was.                               *)
LEMMA OnlyUpdatesLeave ==
  ASSUME K8sInv, [K8sNext]_k8sVars, NEW c \in Callers, pc[c] = "update", pc'[c] # pc[c]
  PROVE  \A f \in DOMAIN object \ About(call[c].op) : object'[f] = object[f]
<1>1. Update(c) \/ UpdateFails(c)
  <2>1. ASSUME NEW d \in Callers, Begin(d) \/ Get(d) PROVE FALSE
    BY <2>1 DEF Begin, Get, Go, K8sInv, RunTypes
  <2>2. ASSUME NEW d \in Callers, Fail(d) \/ GetAndReturn(d) \/ Restore(d) \/ Patch(d) PROVE FALSE
    <3>1. (End(d) \/ Failed(d)) /\ pc[d] # "update"
      BY <2>2 DEF Fail, GetAndReturn, Restore, Patch
    <3> QED BY <3>1, CallEnds
  <2>3. ASSUME NEW d \in Callers, Update(d) \/ UpdateFails(d) PROVE d = c
    BY <2>3, CallEnds DEF Update, Send, UpdateFails
  <2>4. CASE OtherWrite \/ NewRevision \/ UNCHANGED k8sVars
    BY <2>4 DEF OtherWrite, NewRevision, k8sVars
  <2> QED BY <2>1, <2>2, <2>3, <2>4 DEF K8sNext, RunStep
<1>2. CASE Update(c)
  BY <1>2, SentFields
<1>3. CASE UpdateFails(c)
  BY <1>3 DEF UpdateFails
<1> QED BY <1>1, <1>2, <1>3

(* What others have written to the object survives the update of a tool.      *)
THEOREM OnlyItsFieldsHolds == K8sSpec => OnlyItsFields
<1>1. K8sInv /\ [K8sNext]_k8sVars =>
        [\A c \in Callers : pc[c] = "update" /\ pc'[c] # pc[c] =>
           \A f \in DOMAIN object \ About(call[c].op) : object'[f] = object[f]]_k8sVars
  BY OnlyUpdatesLeave
<1> QED BY <1>1, K8sInvariant, PTL DEF K8sSpec, OnlyItsFields

-----------------------------------------------------------------------------
(* ---- The workflow engine.                                                  *)


(* What has been run when the execution stands before a step, and of the step *)
(* itself when its actions run.                                               *)
Noticed == vars["restart_count"] # "0" => vars["has_issues"] = "true"
Logged  == vars["restart_count"] # "0" => "k8s_logs" \in results

PodFlow ==
  \/ at = "get_pod_status" /\ k = 1
  \/ at = "check_restart_count" /\ "k8s_get" \in results /\ k \in {1, 2} /\ (step = at /\ k = 2 => Noticed)
  \/ at = "get_pod_logs" /\ "k8s_get" \in results /\ k = 1 /\ Noticed
  \/ at = "get_pod_events" /\ "k8s_get" \in results /\ k = 1 /\ Logged
  \/ at = "describe_pod" /\ {"k8s_get", "k8s_events"} \subseteq results /\ k = 1 /\ Logged
  \/ /\ at \in {"check_memory_issue", "suggest_fix", Blank} /\ k \in {1, 2}
     /\ at = "check_memory_issue" => k = 1
     /\ {"k8s_get", "k8s_events", "k8s_describe"} \subseteq results /\ Logged

DeploymentFlow ==
  \/ at = "get_deployment" /\ k = 1
  \/ at \in {"check_availability", "get_events"} /\ "k8s_get" \in results /\ k = 1
  \/ at \in {"exit", Blank} /\ {"k8s_get", "k8s_events"} \subseteq results /\ k = 1

NodeFlow ==
  \/ at = "get_top_nodes" /\ k = 1
  \/ at \in {"check_resources", Blank} /\ "k8s_top" \in results /\ k \in {1, 2}

Flow ==
  /\ wf \in DOMAIN BuiltIn /\ step \in {Blank, at} /\ vars \in Values
  /\ step = Blank => k = 1
  /\ wf = "pod_restart_diagnosis" => PodFlow
  /\ wf = "deployment_health_check" => DeploymentFlow
  /\ wf = "node_resource_alert" => NodeFlow
  /\ status = "completed" => at = Blank

-----------------------------------------------------------------------------
LEMMA PodSteps ==
  ASSUME wf = "pod_restart_diagnosis"
  PROVE  /\ Steps["get_pod_status"] = Step(Always, <<Tool("k8s_get")>>, "check_restart_count")
         /\ Steps["check_restart_count"] = Step(Condition("greater_than", "restart_count", "0"),
                                                <<SetTrue("has_issues"), Log>>, "get_pod_logs")
         /\ Steps["get_pod_logs"] = Step(Condition("equals", "has_issues", "true"),
                                         <<Tool("k8s_logs")>>, "get_pod_events")
         /\ Steps["get_pod_events"] = Step(Always, <<Tool("k8s_events")>>, "describe_pod")
         /\ Steps["describe_pod"] = Step(Always, <<Tool("k8s_describe")>>, "check_memory_issue")
         /\ Steps["check_memory_issue"] = Step(Condition("contains", "last_logs", "OOMKilled"), <<Log>>, "suggest_fix")
         /\ Steps["suggest_fix"] = Step(Always, <<Log, Exit>>, Blank)
<1>1. Steps = PodRestartDiagnosis
  BY DEF Steps, BuiltIn
<1> QED BY <1>1 DEF PodRestartDiagnosis

LEMMA DeploymentSteps ==
  ASSUME wf = "deployment_health_check"
  PROVE  /\ Steps["get_deployment"] = Step(Always, <<Tool("k8s_get")>>, "check_availability")
         /\ Steps["check_availability"] =
              Step(Condition("not_equals", "ready_replicas", Unexpanded), <<Log>>, "get_events")
         /\ Steps["get_events"] = Step(Always, <<Tool("k8s_events")>>, "exit")
         /\ Steps["exit"] = Step(Always, <<Exit>>, Blank)
<1>1. Steps = DeploymentHealthCheck
  BY DEF Steps, BuiltIn
<1> QED BY <1>1 DEF DeploymentHealthCheck

LEMMA NodeSteps ==
  ASSUME wf = "node_resource_alert"
  PROVE  /\ Steps["get_top_nodes"] = Step(Always, <<Tool("k8s_top")>>, "check_resources")
         /\ Steps["check_resources"] = Step(Always, <<Log, Exit>>, Blank)
<1>1. Steps = NodeResourceAlert
  BY DEF Steps, BuiltIn
<1> QED BY <1>1 DEF NodeResourceAlert

(* No step is called Blank.                                                   *)
LEMMA BlankIsNoStep ==
  /\ Blank \notin {"get_pod_status", "check_restart_count", "get_pod_logs", "get_pod_events",
                   "describe_pod", "check_memory_issue", "check_crash_loop", "suggest_fix", "no_issues",
                   "get_deployment", "check_availability", "get_events", "health_ok", "exit",
                   "get_top_nodes", "check_resources"}
BY Zenon DEF Blank

LEMMA StepFields ==
  ASSUME NEW w, NEW a, NEW n
  PROVE  Step(w, a, n).when = w /\ Step(w, a, n).actions = a /\ Step(w, a, n).next = n
BY DEF Step

LEMMA ActionKinds ==
  ASSUME NEW t
  PROVE  /\ Tool(t).type = "tool_call" /\ Tool(t).tool = t /\ Log.type = "log" /\ Exit.type = "exit"
         /\ SetTrue(t).type = "set_variable" /\ SetTrue(t).variable = t
         /\ Always.type = "always"
BY DEF Tool, Log, Exit, SetTrue, Always, Condition

(* The last action of a step, and one before the last.                        *)
LEMMA LastAction ==
  ASSUME NEW here, Advance(here), k = Len(Steps[step].actions), NEW n, Steps[step].next = n
  PROVE  /\ at' = (IF here = step THEN n ELSE here) /\ step' = Blank /\ k' = 1
         /\ status' = (IF at' = Blank THEN "completed" ELSE status)
BY DEF Advance

LEMMA OneTool ==
  ASSUME NEW w, NEW t, NEW n, Steps[step] = Step(w, <<Tool(t)>>, n), n # Blank,
         ExecuteAction, at = step, k = 1
  PROVE  /\ vars' = vars
         /\ \/ status' = "failed" /\ at' = at /\ step' = step /\ k' = 1 /\ results' = results
            \/ /\ results' = results \cup {t} /\ at' = n /\ step' = Blank /\ k' = 1
               /\ status' = "running"
<1>1. Steps[step].actions = <<Tool(t)>> /\ Steps[step].next = n
  BY StepFields
<1>2. Steps[step].actions[k] = Tool(t) /\ Len(Steps[step].actions) = 1 /\ status = "running"
  BY <1>1 DEF ExecuteAction, Running
<1>3. ExecuteToolCall(Tool(t))
  BY <1>2, ActionKinds DEF ExecuteAction
<1> QED BY <1>1, <1>2, <1>3, ActionKinds, LastAction DEF ExecuteToolCall

(* A log writes nothing here; it is the last action of its step, or another   *)
(* one follows.                                                               *)
LEMMA LogAction ==
  ASSUME ExecuteAction, Steps[step].actions[k] = Log
  PROVE  Advance(at) /\ vars' = vars /\ results' = results
BY ActionKinds DEF ExecuteAction

LEMMA ExitAction ==
  ASSUME ExecuteAction, Steps[step].actions[k] = Exit, k = Len(Steps[step].actions)
  PROVE  at' = Blank /\ step' = Blank /\ k' = 1 /\ status' = "completed" /\ vars' = vars /\ results' = results
<1>1. Advance(Blank) /\ step # Blank /\ vars' = vars /\ results' = results
  BY ActionKinds DEF ExecuteAction
<1> QED BY <1>1 DEF Advance

LEMMA OneLog ==
  ASSUME NEW w, NEW n, Steps[step] = Step(w, <<Log>>, n), ExecuteAction, at = step, k = 1
  PROVE  /\ vars' = vars /\ results' = results /\ at' = n /\ step' = Blank /\ k' = 1
         /\ status' = (IF n = Blank THEN "completed" ELSE status)
<1>1. Steps[step].actions = <<Log>> /\ Steps[step].next = n
  BY StepFields
<1>2. Steps[step].actions[k] = Log /\ Len(Steps[step].actions) = 1
  BY <1>1
<1> QED BY <1>1, <1>2, LogAction, LastAction

LEMMA OneExit ==
  ASSUME NEW w, NEW n, Steps[step] = Step(w, <<Exit>>, n), ExecuteAction, k = 1
  PROVE  at' = Blank /\ step' = Blank /\ k' = 1 /\ status' = "completed" /\ vars' = vars /\ results' = results
<1>1. Steps[step].actions = <<Exit>>
  BY StepFields
<1>2. Steps[step].actions[k] = Exit /\ Len(Steps[step].actions) = 1
  BY <1>1
<1> QED BY <1>2, ExitAction

LEMMA LogThenExit ==
  ASSUME NEW w, NEW n, Steps[step] = Step(w, <<Log, Exit>>, n), ExecuteAction, at = step, k \in {1, 2}
  PROVE  /\ vars' = vars /\ results' = results
         /\ \/ at' = at /\ step' = step /\ k' = 2 /\ status' = status
            \/ at' = Blank /\ step' = Blank /\ k' = 1 /\ status' = "completed"
<1>1. Steps[step].actions = <<Log, Exit>>
  BY StepFields
<1>2. Steps[step].actions[1] = Log /\ Steps[step].actions[2] = Exit /\ Len(Steps[step].actions) = 2
  BY <1>1
<1>3. CASE k = 1
  BY <1>2, <1>3, LogAction DEF Advance
<1>4. CASE k = 2
  BY <1>2, <1>4, ExitAction
<1> QED BY <1>3, <1>4

LEMMA SetThenLog ==
  ASSUME NEW w, NEW v, NEW n, Steps[step] = Step(w, <<SetTrue(v), Log>>, n),
         ExecuteAction, at = step, k \in {1, 2}
  PROVE  /\ results' = results
         /\ \/ /\ k = 1 /\ at' = at /\ step' = step /\ k' = 2 /\ status' = status
               /\ vars' = [vars EXCEPT ![v] = "true"]
            \/ /\ k = 2 /\ vars' = vars /\ at' = n /\ step' = Blank /\ k' = 1
               /\ status' = (IF n = Blank THEN "completed" ELSE status)
<1>1. Steps[step].actions = <<SetTrue(v), Log>> /\ Steps[step].next = n
  BY StepFields
<1>2. Steps[step].actions[1] = SetTrue(v) /\ Steps[step].actions[2] = Log /\ Len(Steps[step].actions) = 2
  BY <1>1
<1>3. CASE k = 1
  <2>1. Advance(at) /\ results' = results /\ vars' = [vars EXCEPT ![v] = "true"]
    BY <1>2, <1>3, ActionKinds DEF ExecuteAction
  <2> QED BY <1>2, <1>3, <2>1 DEF Advance
<1>4. CASE k = 2
  BY <1>1, <1>2, <1>4, LogAction, LastAction
<1> QED BY <1>3, <1>4

-----------------------------------------------------------------------------
LEMMA ToolsOfPod ==
  ASSUME NEW s \in DOMAIN PodRestartDiagnosis, NEW a, a = PodRestartDiagnosis[s],
         a.when = Always, NEW i \in 1..Len(a.actions), a.actions[i].type = "tool_call"
  PROVE  a.actions[i].tool \in {"k8s_get", "k8s_events", "k8s_describe"}
<1>1. CASE s \in {"check_restart_count", "get_pod_logs", "check_memory_issue", "check_crash_loop"}
  <2>1. a.when.type # "always"
    BY <1>1, StepFields DEF PodRestartDiagnosis, Condition
  <2> QED BY <2>1, ActionKinds
<1>2. CASE s \in {"suggest_fix", "no_issues"}
  <2>1. a.actions = <<Log, Exit>>
    BY <1>2, StepFields DEF PodRestartDiagnosis
  <2> QED BY <2>1, ActionKinds
<1>3. CASE s \in {"get_pod_status", "get_pod_events", "describe_pod"}
  <2>1. \E t \in {"k8s_get", "k8s_events", "k8s_describe"} : a.actions = <<Tool(t)>>
    BY <1>3, StepFields DEF PodRestartDiagnosis
  <2> QED BY <2>1, ActionKinds
<1> QED BY <1>1, <1>2, <1>3 DEF PodRestartDiagnosis

LEMMA WhenType ==
  ASSUME NEW t, NEW v, NEW e, NEW a, NEW n
  PROVE  Step(Condition(t, v, e), a, n).when.type = t
BY DEF Step, Condition

LEMMA ToolsOfDeployment ==
  ASSUME NEW s \in DOMAIN DeploymentHealthCheck, NEW a, a = DeploymentHealthCheck[s],
         a.when = Always, NEW i \in 1..Len(a.actions), a.actions[i].type = "tool_call"
  PROVE  a.actions[i].tool \in {"k8s_get", "k8s_events"}
<1>1. CASE s = "check_availability"
  <2>1. a = Step(Condition("not_equals", "ready_replicas", Unexpanded), <<Log>>, "get_events")
    BY <1>1 DEF DeploymentHealthCheck
  <2>2. a.when.type = "not_equals"
    BY <2>1, WhenType
  <2> QED BY <2>2, ActionKinds
<1>2. CASE s = "health_ok"
  <2>1. a.actions = <<Log, Exit>>
    BY <1>2, StepFields DEF DeploymentHealthCheck
  <2> QED BY <2>1, ActionKinds
<1>3. CASE s = "exit"
  <2>1. a.actions = <<Exit>>
    BY <1>3, StepFields DEF DeploymentHealthCheck
  <2> QED BY <2>1, ActionKinds
<1>4. CASE s = "get_deployment"
  <2>1. a.actions = <<Tool("k8s_get")>>
    BY <1>4, StepFields DEF DeploymentHealthCheck
  <2> QED BY <2>1, ActionKinds
<1>5. CASE s = "get_events"
  <2>1. a.actions = <<Tool("k8s_events")>>
    BY <1>5, StepFields DEF DeploymentHealthCheck
  <2> QED BY <2>1, ActionKinds
<1> QED BY <1>1, <1>2, <1>3, <1>4, <1>5 DEF DeploymentHealthCheck

LEMMA ToolsOfNode ==
  ASSUME NEW s \in DOMAIN NodeResourceAlert, NEW a, a = NodeResourceAlert[s],
         NEW i \in 1..Len(a.actions), a.actions[i].type = "tool_call"
  PROVE  a.actions[i].tool = "k8s_top"
<1>1. CASE s = "check_resources"
  <2>1. a.actions = <<Log, Exit>>
    BY <1>1, StepFields DEF NodeResourceAlert
  <2> QED BY <2>1, ActionKinds
<1>2. CASE s = "get_top_nodes"
  <2>1. a.actions = <<Tool("k8s_top")>>
    BY <1>2, StepFields DEF NodeResourceAlert
  <2> QED BY <2>1, ActionKinds
<1> QED BY <1>1, <1>2 DEF NodeResourceAlert

(* The tools a workflow must have run lie among those of its unconditional    *)
(* steps, whichever of these its chain reaches.                               *)
LEMMA UnconditionalTools ==
  ASSUME wf \in DOMAIN BuiltIn
  PROVE  Unconditional \subseteq (IF wf = "pod_restart_diagnosis" THEN {"k8s_get", "k8s_events", "k8s_describe"}
                                  ELSE IF wf = "deployment_health_check" THEN {"k8s_get", "k8s_events"}
                                  ELSE {"k8s_top"})
<1>1. Chain \subseteq DOMAIN Steps
  BY DEF Chain
<1>2. ASSUME NEW t \in Unconditional
      PROVE  \E s \in DOMAIN Steps : \E i \in 1..Len(Steps[s].actions) :
               Steps[s].when = Always /\ Steps[s].actions[i].type = "tool_call" /\ t = Steps[s].actions[i].tool
  BY <1>1, <1>2 DEF Unconditional
<1>3. CASE wf = "pod_restart_diagnosis"
  <2>1. Steps = PodRestartDiagnosis
    BY <1>3 DEF Steps, BuiltIn
  <2> QED BY <1>2, <1>3, <2>1, ToolsOfPod
<1>4. CASE wf = "deployment_health_check"
  <2>1. Steps = DeploymentHealthCheck
    BY <1>4 DEF Steps, BuiltIn
  <2> QED BY <1>2, <1>4, <2>1, ToolsOfDeployment
<1>5. CASE wf = "node_resource_alert"
  <2>1. Steps = NodeResourceAlert
    BY <1>5 DEF Steps, BuiltIn
  <2> QED BY <1>2, <1>5, <2>1, ToolsOfNode
<1> QED BY <1>3, <1>4, <1>5 DEF BuiltIn

-----------------------------------------------------------------------------
LEMMA AlwaysHolds ==
  ASSUME NEW s, NEW a, NEW n, Steps[s] = Step(Always, a, n)
  PROVE  EvaluateCondition(Steps[s].when)
BY StepFields, ActionKinds DEF EvaluateCondition

LEMMA ConditionFields ==
  ASSUME NEW t, NEW v, NEW e
  PROVE  Condition(t, v, e).type = t /\ Condition(t, v, e).variable = v /\ Condition(t, v, e).expected = e
BY DEF Condition

LEMMA VarsFacts ==
  ASSUME vars \in Values
  PROVE  /\ vars["restart_count"] \in {"0", "3"} /\ vars["has_issues"] \in {"false", "true"}
         /\ LET v == [vars EXCEPT !["has_issues"] = "true"]
            IN  v \in Values /\ v["has_issues"] = "true" /\ v["restart_count"] = vars["restart_count"]
BY DEF Values

LEMMA FlowInit == WorkflowInit => Flow
<1> SUFFICES ASSUME WorkflowInit PROVE Flow
  OBVIOUS
<1>1. BuiltIn["pod_restart_diagnosis"].start = "get_pod_status"
      /\ BuiltIn["deployment_health_check"].start = "get_deployment"
      /\ BuiltIn["node_resource_alert"].start = "get_top_nodes"
  BY DEF BuiltIn
<1> QED BY <1>1 DEF WorkflowInit, Flow, PodFlow, DeploymentFlow, NodeFlow

(* The call context ends, or the engine sees that it has.                     *)
LEMMA StopKeepsFlow ==
  ASSUME Flow, Cancel \/ SeesCancel
  PROVE  Flow'
BY DEF Flow, Cancel, SeesCancel, PodFlow, DeploymentFlow, NodeFlow, Noticed, Logged, BuiltIn

(* A step is entered: its actions run from the first on.                      *)
LEMMA EnterKeepsFlow ==
  ASSUME Flow, Enter
  PROVE  Flow'
<1>1. k = 1 /\ k' = 1 /\ step' = at /\ at' = at /\ wf' = wf /\ vars' = vars /\ results' = results /\ status' = status
  BY DEF Flow, Enter
<1>2. PodFlow => PodFlow'
  BY <1>1 DEF PodFlow, Noticed, Logged
<1>3. (DeploymentFlow => DeploymentFlow') /\ (NodeFlow => NodeFlow')
  BY <1>1 DEF DeploymentFlow, NodeFlow
<1> QED BY <1>1, <1>2, <1>3 DEF Flow

(* A step is passed over only when its condition fails: there was then        *)
(* nothing to notice, or nothing noticed.                                     *)
LEMMA PassOverPod ==
  ASSUME Flow, PassOver, wf = "pod_restart_diagnosis"
  PROVE  PodFlow' /\ at' # Blank
<1>1. /\ k = 1 /\ k' = 1 /\ step = Blank /\ step' = Blank /\ at' = Steps[at].next /\ vars' = vars /\ results' = results
      /\ ~EvaluateCondition(Steps[at].when) /\ at # Blank /\ PodFlow
  <2>1. at \in DOMAIN PodRestartDiagnosis
    BY DEF PassOver, Steps, BuiltIn
  <2>2. at # Blank
    BY <2>1, BlankIsNoStep DEF PodRestartDiagnosis
  <2> QED BY <2>2 DEF PassOver, Flow
<1>2. at \notin {"get_pod_status", "get_pod_events", "describe_pod", "suggest_fix"}
  BY <1>1, PodSteps, AlwaysHolds
<1>3. CASE at = "check_restart_count"
  <2>1. at' = "get_pod_logs"
    BY <1>1, <1>3, PodSteps, StepFields
  <2>2. ~EvaluateCondition(Condition("greater_than", "restart_count", "0"))
    BY <1>1, <1>3, PodSteps, StepFields
  <2>3. vars["restart_count"] = "0"
    BY <2>2, ConditionFields, VarsFacts DEF EvaluateCondition, Flow
  <2> QED BY <1>1, <1>3, <2>1, <2>3, BlankIsNoStep DEF PodFlow, Noticed
<1>4. CASE at = "get_pod_logs"
  <2>1. at' = "get_pod_events"
    BY <1>1, <1>4, PodSteps, StepFields
  <2>2. ~EvaluateCondition(Condition("equals", "has_issues", "true"))
    BY <1>1, <1>4, PodSteps, StepFields
  <2>3. vars["has_issues"] # "true"
    BY <2>2, ConditionFields, VarsFacts DEF EvaluateCondition, Flow
  <2> QED BY <1>1, <1>4, <2>1, <2>3, BlankIsNoStep DEF PodFlow, Noticed, Logged
<1>5. CASE at = "check_memory_issue"
  <2>1. at' = "suggest_fix"
    BY <1>1, <1>5, PodSteps, StepFields
  <2> QED BY <1>1, <1>5, <2>1, BlankIsNoStep DEF PodFlow, Logged
<1> QED BY <1>1, <1>2, <1>3, <1>4, <1>5 DEF PodFlow

LEMMA PassOverDeployment ==
  ASSUME Flow, PassOver, wf = "deployment_health_check"
  PROVE  DeploymentFlow' /\ at' # Blank
<1>1. /\ k = 1 /\ k' = 1 /\ at' = Steps[at].next /\ results' = results
      /\ ~EvaluateCondition(Steps[at].when) /\ at # Blank /\ DeploymentFlow
  <2>1. at \in DOMAIN DeploymentHealthCheck
    BY DEF PassOver, Steps, BuiltIn
  <2>2. at # Blank
    BY <2>1, BlankIsNoStep DEF DeploymentHealthCheck
  <2> QED BY <2>2 DEF PassOver, Flow
<1>2. at \notin {"get_deployment", "get_events", "exit"}
  BY <1>1, DeploymentSteps, AlwaysHolds
<1>3. at = "check_availability"
  BY <1>1, <1>2 DEF DeploymentFlow
<1>4. at' = "get_events"
  BY <1>1, <1>3, DeploymentSteps, StepFields
<1> QED BY <1>1, <1>3, <1>4, BlankIsNoStep DEF DeploymentFlow

LEMMA PassOverNode ==
  ASSUME Flow, PassOver
  PROVE  wf # "node_resource_alert"
<1> SUFFICES ASSUME wf = "node_resource_alert" PROVE FALSE
  OBVIOUS
<1>1. at \in DOMAIN NodeResourceAlert
  BY DEF PassOver, Steps, BuiltIn
<1> QED BY <1>1, NodeSteps, AlwaysHolds DEF PassOver, NodeResourceAlert

LEMMA PassOverKeepsFlow ==
  ASSUME Flow, PassOver
  PROVE  Flow'
<1>1. k' = 1 /\ step = Blank /\ step' = Blank /\ wf' = wf /\ vars' = vars /\ status' = "running"
  BY DEF PassOver, Flow, Running
<1> QED BY <1>1, PassOverPod, PassOverDeployment, PassOverNode DEF Flow

-----------------------------------------------------------------------------
LEMMA ExecutePod ==
  ASSUME Flow, ExecuteAction, wf = "pod_restart_diagnosis"
  PROVE  /\ PodFlow' /\ vars' \in Values /\ step' \in {Blank, at'} /\ (step' = Blank => k' = 1)
         /\ (status' = "completed" => at' = Blank)
<1>1. step = at /\ at # Blank /\ status = "running" /\ PodFlow /\ vars \in Values /\ Steps[step] = Steps[at]
  BY DEF Flow, ExecuteAction, Running
<1>2. CASE at = "get_pod_status" /\ k = 1
  <2>1. Steps[step] = Step(Always, <<Tool("k8s_get")>>, "check_restart_count")
    BY <1>1, <1>2, PodSteps
  <2>3. /\ vars' = vars
        /\ \/ status' = "failed" /\ at' = at /\ step' = step /\ k' = 1 /\ results' = results
           \/ /\ results' = results \cup {"k8s_get"} /\ at' = "check_restart_count" /\ step' = Blank /\ k' = 1
              /\ status' = "running"
    BY <1>1, <1>2, <2>1, OneTool, BlankIsNoStep, Zenon
  <2> QED BY <1>1, <1>2, <2>3 DEF PodFlow
<1>3. CASE at = "check_restart_count"
  <2>1. Steps[step] = Step(Condition("greater_than", "restart_count", "0"),
                           <<SetTrue("has_issues"), Log>>, "get_pod_logs")
    BY <1>1, <1>3, PodSteps
  <2>2. k \in {1, 2} /\ "k8s_get" \in results /\ (k = 2 => Noticed)
    BY <1>1, <1>3, BlankIsNoStep DEF PodFlow
  <2>3. CASE k = 1
    <3>1. /\ at' = at /\ step' = step /\ k' = 2 /\ status' = status /\ results' = results
          /\ vars' = [vars EXCEPT !["has_issues"] = "true"]
      BY <1>1, <2>1, <2>2, <2>3, SetThenLog
    <3>2. vars' \in Values /\ Noticed'
      BY <1>1, <3>1, VarsFacts DEF Noticed
    <3> QED BY <1>1, <1>3, <2>2, <3>1, <3>2, BlankIsNoStep DEF PodFlow
  <2>4. CASE k = 2
    <3>1. at' = "get_pod_logs" /\ step' = Blank /\ k' = 1 /\ results' = results /\ vars' = vars
          /\ status' = "running"
      BY <1>1, <2>1, <2>2, <2>4, SetThenLog, BlankIsNoStep
    <3> QED BY <1>1, <2>2, <2>4, <3>1 DEF PodFlow, Noticed
  <2> QED BY <2>2, <2>3, <2>4
<1>4. CASE at = "get_pod_logs"
  <2>1. Steps[step] = Step(Condition("equals", "has_issues", "true"), <<Tool("k8s_logs")>>, "get_pod_events")
    BY <1>1, <1>4, PodSteps
  <2>2. k = 1 /\ "k8s_get" \in results /\ Noticed
    BY <1>1, <1>4, BlankIsNoStep DEF PodFlow
  <2>3. /\ vars' = vars
        /\ \/ status' = "failed" /\ at' = at /\ step' = step /\ k' = 1 /\ results' = results
           \/ /\ results' = results \cup {"k8s_logs"} /\ at' = "get_pod_events" /\ step' = Blank /\ k' = 1
              /\ status' = "running"
    BY <1>1, <1>4, <2>1, <2>2, OneTool, BlankIsNoStep, Zenon
  <2> QED BY <1>1, <1>4, <2>2, <2>3 DEF PodFlow, Noticed, Logged
<1>5. CASE at = "get_pod_events"
  <2>1. Steps[step] = Step(Always, <<Tool("k8s_events")>>, "describe_pod")
    BY <1>1, <1>5, PodSteps
  <2>2. k = 1 /\ "k8s_get" \in results /\ Logged
    BY <1>1, <1>5, BlankIsNoStep DEF PodFlow
  <2>3. /\ vars' = vars
        /\ \/ status' = "failed" /\ at' = at /\ step' = step /\ k' = 1 /\ results' = results
           \/ /\ results' = results \cup {"k8s_events"} /\ at' = "describe_pod" /\ step' = Blank /\ k' = 1
              /\ status' = "running"
    BY <1>1, <1>5, <2>1, <2>2, OneTool, BlankIsNoStep, Zenon
  <2> QED BY <1>1, <1>5, <2>2, <2>3 DEF PodFlow, Logged
<1>6. CASE at = "describe_pod"
  <2>1. Steps[step] = Step(Always, <<Tool("k8s_describe")>>, "check_memory_issue")
    BY <1>1, <1>6, PodSteps
  <2>2. k = 1 /\ {"k8s_get", "k8s_events"} \subseteq results /\ Logged
    BY <1>1, <1>6, BlankIsNoStep DEF PodFlow
  <2>3. /\ vars' = vars
        /\ \/ status' = "failed" /\ at' = at /\ step' = step /\ k' = 1 /\ results' = results
           \/ /\ results' = results \cup {"k8s_describe"} /\ at' = "check_memory_issue" /\ step' = Blank /\ k' = 1
              /\ status' = "running"
    BY <1>1, <1>6, <2>1, <2>2, OneTool, BlankIsNoStep, Zenon
  <2> QED BY <1>1, <1>6, <2>2, <2>3 DEF PodFlow, Logged
<1>7. CASE at \in {"check_memory_issue", "suggest_fix"}
  <2>1. /\ {"k8s_get", "k8s_events", "k8s_describe"} \subseteq results /\ Logged /\ k \in {1, 2}
        /\ at = "check_memory_issue" => k = 1
    BY <1>1, <1>7, BlankIsNoStep DEF PodFlow
  <2>2. CASE at = "check_memory_issue"
    <3>1. Steps[step] = Step(Condition("contains", "last_logs", "OOMKilled"), <<Log>>, "suggest_fix")
      BY <1>1, <2>2, PodSteps
    <3> QED BY <1>1, <2>1, <2>2, <3>1, OneLog, BlankIsNoStep DEF PodFlow, Logged
  <2>3. CASE at = "suggest_fix"
    <3>1. Steps[step] = Step(Always, <<Log, Exit>>, Blank)
      BY <1>1, <2>3, PodSteps
    <3>2. /\ vars' = vars /\ results' = results
          /\ \/ at' = at /\ step' = step /\ k' = 2 /\ status' = "running"
             \/ at' = Blank /\ step' = Blank /\ k' = 1 /\ status' = "completed"
      BY <1>1, <2>1, <3>1, LogThenExit
    <3> QED BY <1>1, <2>1, <2>3, <3>2, BlankIsNoStep DEF PodFlow, Logged
  <2> QED BY <1>7, <2>2, <2>3
<1> QED BY <1>1, <1>2, <1>3, <1>4, <1>5, <1>6, <1>7, BlankIsNoStep DEF PodFlow

LEMMA ExecuteDeployment ==
  ASSUME Flow, ExecuteAction, wf = "deployment_health_check"
  PROVE  /\ DeploymentFlow' /\ vars' = vars /\ step' \in {Blank, at'} /\ (step' = Blank => k' = 1)
         /\ (status' = "completed" => at' = Blank)
<1>1. step = at /\ at # Blank /\ status = "running" /\ DeploymentFlow /\ k = 1 /\ Steps[step] = Steps[at]
  BY DEF Flow, ExecuteAction, Running, DeploymentFlow
<1>2. CASE at = "get_deployment"
  <2>1. Steps[step] = Step(Always, <<Tool("k8s_get")>>, "check_availability")
    BY <1>1, <1>2, DeploymentSteps
  <2>2. /\ vars' = vars
        /\ \/ status' = "failed" /\ at' = at /\ step' = step /\ k' = 1 /\ results' = results
           \/ /\ results' = results \cup {"k8s_get"} /\ at' = "check_availability" /\ step' = Blank /\ k' = 1
              /\ status' = "running"
    BY <1>1, <2>1, OneTool, BlankIsNoStep, Zenon
  <2> QED BY <1>1, <1>2, <2>2 DEF DeploymentFlow
<1>3. CASE at = "check_availability"
  <2>1. Steps[step] = Step(Condition("not_equals", "ready_replicas", Unexpanded), <<Log>>, "get_events")
    BY <1>1, <1>3, DeploymentSteps
  <2>2. vars' = vars /\ results' = results /\ at' = "get_events" /\ step' = Blank /\ k' = 1 /\ status' = "running"
    BY <1>1, <2>1, OneLog, BlankIsNoStep
  <2> QED BY <1>1, <1>3, <2>2, BlankIsNoStep DEF DeploymentFlow
<1>4. CASE at = "get_events"
  <2>1. Steps[step] = Step(Always, <<Tool("k8s_events")>>, "exit")
    BY <1>1, <1>4, DeploymentSteps
  <2>3. /\ vars' = vars
        /\ \/ status' = "failed" /\ at' = at /\ step' = step /\ k' = 1 /\ results' = results
           \/ /\ results' = results \cup {"k8s_events"} /\ at' = "exit" /\ step' = Blank /\ k' = 1
              /\ status' = "running"
    BY <1>1, <1>4, <2>1, OneTool, BlankIsNoStep, Zenon
  <2> QED BY <1>1, <1>4, <2>3 DEF DeploymentFlow
<1>5. CASE at = "exit"
  <2>1. Steps[step] = Step(Always, <<Exit>>, Blank)
    BY <1>1, <1>5, DeploymentSteps
  <2>2. vars' = vars /\ results' = results /\ at' = Blank /\ step' = Blank /\ k' = 1 /\ status' = "completed"
    BY <1>1, <2>1, OneExit
  <2> QED BY <1>1, <1>5, <2>2, BlankIsNoStep DEF DeploymentFlow
<1> QED BY <1>1, <1>2, <1>3, <1>4, <1>5 DEF DeploymentFlow

LEMMA ExecuteNode ==
  ASSUME Flow, ExecuteAction, wf = "node_resource_alert"
  PROVE  /\ NodeFlow' /\ vars' = vars /\ step' \in {Blank, at'} /\ (step' = Blank => k' = 1)
         /\ (status' = "completed" => at' = Blank)
<1>1. step = at /\ at # Blank /\ status = "running" /\ NodeFlow /\ Steps[step] = Steps[at]
  BY DEF Flow, ExecuteAction, Running
<1>2. CASE at = "get_top_nodes" /\ k = 1
  <2>1. Steps[step] = Step(Always, <<Tool("k8s_top")>>, "check_resources")
    BY <1>1, <1>2, NodeSteps
  <2>3. /\ vars' = vars
        /\ \/ status' = "failed" /\ at' = at /\ step' = step /\ k' = 1 /\ results' = results
           \/ /\ results' = results \cup {"k8s_top"} /\ at' = "check_resources" /\ step' = Blank /\ k' = 1
              /\ status' = "running"
    BY <1>1, <1>2, <2>1, OneTool, BlankIsNoStep, Zenon
  <2> QED BY <1>1, <1>2, <2>3 DEF NodeFlow
<1>3. CASE at = "check_resources" /\ "k8s_top" \in results /\ k \in {1, 2}
  <2>1. Steps[step] = Step(Always, <<Log, Exit>>, Blank)
    BY <1>1, <1>3, NodeSteps
  <2>2. /\ vars' = vars /\ results' = results
        /\ \/ at' = at /\ step' = step /\ k' = 2 /\ status' = "running"
           \/ at' = Blank /\ step' = Blank /\ k' = 1 /\ status' = "completed"
    BY <1>1, <1>3, <2>1, LogThenExit
  <2> QED BY <1>1, <1>3, <2>2, BlankIsNoStep DEF NodeFlow
<1> QED BY <1>1, <1>2, <1>3 DEF NodeFlow

LEMMA ExecuteKeepsFlow ==
  ASSUME Flow, ExecuteAction
  PROVE  Flow'
<1>1. wf' = wf /\ wf \in DOMAIN BuiltIn /\ vars \in Values
  BY DEF ExecuteAction, Flow
<1>2. wf \in {"pod_restart_diagnosis", "deployment_health_check", "node_resource_alert"}
  BY <1>1 DEF BuiltIn
<1> QED BY <1>1, <1>2, ExecutePod, ExecuteDeployment, ExecuteNode DEF Flow

LEMMA FlowIsKept == Flow /\ [WorkflowNext]_workflowVars => Flow'
<1> SUFFICES ASSUME Flow, [WorkflowNext]_workflowVars PROVE Flow'
  OBVIOUS
<1>1. CASE UNCHANGED workflowVars
  BY <1>1 DEF workflowVars, Flow, PodFlow, DeploymentFlow, NodeFlow, Noticed, Logged, BuiltIn
<1> QED BY <1>1, StopKeepsFlow, EnterKeepsFlow, PassOverKeepsFlow, ExecuteKeepsFlow DEF WorkflowNext, EngineStep

LEMMA FlowIsComplete == Flow => CompletedIsComplete
<1> SUFFICES ASSUME Flow, status = "completed" PROVE CompletedIsComplete
  BY DEF CompletedIsComplete
<1>1. at = Blank /\ wf \in DOMAIN BuiltIn
  BY DEF Flow
<1>2. wf = "pod_restart_diagnosis" => {"k8s_get", "k8s_events", "k8s_describe"} \subseteq results /\ Logged
  BY <1>1, BlankIsNoStep DEF Flow, PodFlow
<1>3. wf = "deployment_health_check" => {"k8s_get", "k8s_events"} \subseteq results
  BY <1>1, BlankIsNoStep DEF Flow, DeploymentFlow
<1>4. wf = "node_resource_alert" => "k8s_top" \in results
  BY <1>1, BlankIsNoStep DEF Flow, NodeFlow
<1>5. wf \in {"pod_restart_diagnosis", "deployment_health_check", "node_resource_alert"}
  BY <1>1 DEF BuiltIn
<1>6. Unconditional \subseteq results
  BY <1>1, <1>2, <1>3, <1>4, <1>5, UnconditionalTools
<1> QED BY <1>2, <1>6 DEF CompletedIsComplete, Logged

(* A workflow that reports "completed" has the results of every tool of its   *)
(* unconditional steps, and of the logs of a pod with restarts, whatever was  *)
(* passed over and whenever its context ended (engine.go:100-129).            *)
THEOREM CompletedIsCompleteHolds == WorkflowSpec => []CompletedIsComplete
<1>1. WorkflowSpec => []Flow
  BY FlowInit, FlowIsKept, PTL DEF WorkflowSpec
<1> QED BY <1>1, FlowIsComplete, PTL
=============================================================================
