------------------------------ MODULE K8sTools ------------------------------
(***************************************************************************)
(* The L2 tools (pkg/tools/l2) on one object of the cluster, each call     *)
(* with the snapshot before it and the rollback after its failure, as the  *)
(* agent loop makes them (loop.go:521-568, pkg/snapshot).  All tools but   *)
(* patch read the object, change their copy and send it back whole; the    *)
(* API server refuses it when the object has changed since it was read.    *)
(* Calls of several runs, other clients and the deployment controller      *)
(* interleave.                                                             *)
(***************************************************************************)
EXTENDS Integers

CONSTANTS
  Callers,      (* runs that call tools                                       *)
  Kinds,        (* kinds the object may be of                                 *)
  Origins,      (* where the arguments of calls come from: "llm" (JSON of the *)
                (* model), "text" (the fallback parser), "go" (Go values)      *)
  Numbers,      (* replicas or revisions that calls ask for                   *)
  MaxTemplates, (* bound: pod templates the object goes through               *)
  MaxCalls,     (* bound: tool calls                                          *)
  MaxOthers     (* bound: writes of other clients                             *)

ASSUME K8sConstants ==
  /\ Numbers \subseteq Int /\ MaxTemplates \in Nat \ {0}
  /\ MaxCalls \in Nat /\ MaxOthers \in Nat

VARIABLES
  kind,        (* of the object                                               *)
  object,      (* its spec in the API server                                  *)
  replicaSets, (* per template the revision annotated on its ReplicaSet, or 0 *)
  first,       (* the template that comes first in the list of ReplicaSets    *)
  pc, call,    (* of each run: its place and the tool call it makes           *)
  copy,        (* of each run: the object as it has read it                   *)
  current,     (* the runs whose copy has the object's resourceVersion        *)
  saved,       (* the runs whose call has a snapshot                          *)
  budget       (* calls and other writes still to come                        *)

k8sVars == <<kind, object, replicaSets, first, pc, call, copy, current, saved, budget>>

NoCall   == [op |-> "none", origin |-> "go", number |-> 0]
NoObject == [replicas |-> 0, paused |-> FALSE, template |-> 0, min |-> 0, max |-> 0]

Reads    == {"status", "history"}
Updates  == {"scale", "restart", "undo", "pause", "resume", "rollout restart"}
Ops      == Reads \cup Updates \cup {"patch"}
Restarts == {"restart", "rollout restart"}
Numbered == {"scale", "undo"}

Supported(op) ==
  CASE op = "scale"   -> {"deployment", "statefulset", "replicaset", "hpa"}
    [] op = "restart" -> {"deployment", "statefulset", "daemonset"}
    [] op = "patch"   -> {"deployment", "pod", "service", "configmap"}
    [] OTHER          -> {"deployment"}

(* A number is read by a type assertion to int, which gives 0 for the float64 *)
(* of a JSON number and for the string the fallback parser leaves.            *)
IntArgument(c) == IF c.origin = "go" THEN c.number ELSE 0

K8sInit ==
  /\ kind \in Kinds /\ first \in 1..MaxTemplates
  /\ object = [replicas |-> 1, paused |-> FALSE, template |-> 1, min |-> 1, max |-> 1]
  /\ replicaSets = [t \in 1..MaxTemplates |-> IF t = 1 THEN 1 ELSE 0]
  /\ pc = [c \in Callers |-> "idle"] /\ call = [c \in Callers |-> NoCall]
  /\ copy = [c \in Callers |-> NoObject] /\ current = {} /\ saved = {}
  /\ budget = [calls |-> MaxCalls, others |-> MaxOthers]

-----------------------------------------------------------------------------
(* An update that changes nothing does not give a new resourceVersion.        *)
Write(o) == object' = o /\ current' = IF o = object THEN current ELSE {}

Go(c, place) == pc' = [pc EXCEPT ![c] = place]

End(c) ==
  /\ Go(c, "idle") /\ call' = [call EXCEPT ![c] = NoCall]
  /\ copy' = [copy EXCEPT ![c] = NoObject] /\ saved' = saved \ {c}

(* A call that fails is rolled back when it has a snapshot.                   *)
Failed(c) ==
  IF c \in saved THEN Go(c, "restore") /\ UNCHANGED <<call, copy, saved>> ELSE End(c)

(* A run calls a tool, after a snapshot of the object.  A type named in       *)
(* short, such as deploy, a kind without a mapping and any error give no      *)
(* snapshot; the call goes on all the same.                                   *)
Calls ==
  [op : Numbered, origin : Origins, number : Numbers]
    \cup [op : Ops \ Numbered, origin : {"go"}, number : {0}]

ResolveGVR == {"deployment", "statefulset", "daemonset", "replicaset", "pod", "service", "configmap"}

Begin(c) ==
  /\ pc[c] = "idle" /\ budget.calls > 0
  /\ \E new \in Calls : call' = [call EXCEPT ![c] = new]
  /\ saved' \in {saved} \cup (IF kind \in ResolveGVR THEN {saved \cup {c}} ELSE {})
  /\ Go(c, "execute") /\ budget' = [budget EXCEPT !.calls = @ - 1]
  /\ UNCHANGED <<kind, object, replicaSets, first, copy, current>>

(* RestoreByID decodes one YAML document, and the file's first one is the     *)
(* metadata that save puts before the object: it has no apiVersion, so every  *)
(* restore ends with an error and the cluster stays as it is.                 *)
Restore(c) ==
  /\ pc[c] = "restore" /\ End(c) /\ current' = current \ {c}
  /\ UNCHANGED <<kind, object, replicaSets, first, budget>>

-----------------------------------------------------------------------------
(* Execute of the tools.                                                      *)

Refused(c) ==
  \/ kind \notin Supported(call[c].op)
  \/ call[c].op = "scale" /\ IntArgument(call[c]) < 0

(* Arguments that no tool takes, and errors of the API server before a write. *)
Fail(c) ==
  /\ pc[c] = "execute" /\ Failed(c)
  /\ UNCHANGED <<kind, object, replicaSets, first, current, budget>>

(* status and history only read; pause of a paused deployment and resume of a *)
(* running one return at once.                                                *)
NothingToDo(op) ==
  \/ op \in Reads
  \/ op = "pause" /\ object.paused
  \/ op = "resume" /\ ~object.paused

GetAndReturn(c) ==
  /\ pc[c] = "execute" /\ ~Refused(c) /\ NothingToDo(call[c].op) /\ End(c)
  /\ UNCHANGED <<kind, object, replicaSets, first, current, budget>>

Get(c) ==
  /\ pc[c] = "execute" /\ ~Refused(c) /\ call[c].op # "patch" /\ ~NothingToDo(call[c].op)
  /\ copy' = [copy EXCEPT ![c] = object] /\ current' = current \cup {c} /\ Go(c, "update")
  /\ UNCHANGED <<kind, object, replicaSets, first, call, saved, budget>>

(* The ReplicaSets of the template in list order: undo takes the first whose  *)
(* revision is the one asked for, and with revision 0 simply the first.       *)
Targets(c) ==
  LET revision == IntArgument(call[c])
      matching == {t \in 1..MaxTemplates :
                     replicaSets[t] > 0 /\ (revision = 0 \/ replicaSets[t] = revision)}
  IN  IF first \in matching THEN {first} ELSE matching

(* A restart's timestamp makes a template the controller has not seen.        *)
Fresh == {t \in 1..MaxTemplates : replicaSets[t] = 0 /\ t # object.template}

(* The copies a run may send: its own, changed.                               *)
Changed(c) ==
  LET o == copy[c]  op == call[c].op  n == IntArgument(call[c])
  IN  CASE op = "scale" /\ kind = "hpa" -> {[o EXCEPT !.min = IF n > 0 THEN n ELSE @,
                                                     !.max = IF n > 0 THEN n ELSE @]}
        [] op = "scale" /\ kind # "hpa" -> {[o EXCEPT !.replicas = n]}
        [] op = "pause"    -> {[o EXCEPT !.paused = TRUE]}
        [] op = "resume"   -> {[o EXCEPT !.paused = FALSE]}
        [] op = "undo"     -> {[o EXCEPT !.template = t] : t \in Targets(c)}
        [] op \in Restarts -> {[o EXCEPT !.template = t] : t \in Fresh}

(* The answer to an update that took effect may be lost: the tool then fails. *)
Send(c) ==
  /\ \E o \in Changed(c) :
       /\ object' = o /\ current' = (IF o = object THEN current ELSE {}) \ {c}
  /\ End(c) \/ Failed(c)
  /\ UNCHANGED <<kind, replicaSets, first, budget>>

(* Mutant: the resourceVersion is not compared.                               *)
SendUnchecked(c) == pc[c] = "update" /\ Send(c)

Update(c) == pc[c] = "update" /\ c \in current /\ Send(c)

(* Mutant: a conflict is tried again with the same copy.                      *)
TryAgain(c) ==
  /\ pc[c] = "update" /\ c \in current /\ Failed(c)
  /\ current' = current \ {c} /\ UNCHANGED <<kind, object, replicaSets, first, budget>>

(* Another write came between, no ReplicaSet has the revision, or an error.   *)
UpdateFails(c) ==
  /\ pc[c] = "update" /\ Failed(c)
  /\ current' = current \ {c} /\ UNCHANGED <<kind, object, replicaSets, first, budget>>

(* A patch is applied to the object as it is.                                 *)
Patch(c) ==
  /\ pc[c] = "execute" /\ ~Refused(c) /\ call[c].op = "patch"
  /\ \/ \E n \in Numbers \cap Nat : Write([object EXCEPT !.replicas = n])
     \/ \E t \in Fresh : Write([object EXCEPT !.template = t])
  /\ End(c) \/ Failed(c)
  /\ UNCHANGED <<kind, replicaSets, first, budget>>

-----------------------------------------------------------------------------
(* Other clients of the cluster, and the deployment controller, which gives   *)
(* the ReplicaSet of the current template the highest revision.               *)

OtherWrite ==
  /\ budget.others > 0 /\ budget' = [budget EXCEPT !.others = @ - 1]
  /\ \/ \E n \in Numbers \cap Nat : Write([object EXCEPT !.replicas = n])
     \/ Write([object EXCEPT !.paused = ~@])
     \/ \E t \in Fresh : Write([object EXCEPT !.template = t])
  /\ UNCHANGED <<kind, replicaSets, first, pc, call, copy, saved>>

NewRevision ==
  /\ kind = "deployment"
  /\ \E last \in 1..MaxTemplates :
       /\ \A t \in 1..MaxTemplates : replicaSets[t] <= replicaSets[last]
       /\ replicaSets[object.template] < replicaSets[last]
       /\ replicaSets' = [replicaSets EXCEPT ![object.template] = replicaSets[last] + 1]
  /\ UNCHANGED <<kind, object, first, pc, call, copy, current, saved, budget>>

RunStep(c) ==
  \/ Fail(c) \/ GetAndReturn(c) \/ Get(c) \/ Patch(c)
  \/ Update(c) \/ UpdateFails(c) \/ Restore(c)

K8sNext == OtherWrite \/ NewRevision \/ \E c \in Callers : Begin(c) \/ RunStep(c)

K8sSpec == K8sInit /\ [][K8sNext]_k8sVars /\ \A c \in Callers : WF_k8sVars(RunStep(c))

-----------------------------------------------------------------------------
(* The object and the runs keep their types; a copy is current only while its *)
(* run has yet to return.                                                     *)
Object == [replicas : Nat, paused : BOOLEAN, template : 0..MaxTemplates, min : Nat, max : Nat]

K8sTypeOK ==
  /\ kind \in Kinds /\ object \in Object /\ object.template > 0
  /\ replicaSets \in [1..MaxTemplates -> Nat]
  /\ pc \in [Callers -> {"idle", "execute", "update", "restore"}]
  /\ copy \in [Callers -> Object] /\ saved \subseteq Callers /\ current \subseteq Callers
  /\ \A c \in Callers :
       (c \in current => copy[c] = object /\ pc[c] = "update") /\ (c \in saved => pc[c] # "idle")

(* What another run or client has written to the object since a tool read it  *)
(* survives the tool's update: the update of a call changes nothing but what  *)
(* the call is about (scale.go:166-170, rollout.go:290-296 and the others).   *)
About(op) ==
  CASE op = "scale" -> {"replicas", "min", "max"}
    [] op \in {"pause", "resume"} -> {"paused"}
    [] op = "patch" -> {"replicas", "template"}
    [] OTHER -> {"template"}

OnlyItsFields ==
  [][\A c \in Callers : pc[c] = "update" /\ pc'[c] # pc[c] =>
       \A f \in DOMAIN object \ About(call[c].op) : object'[f] = object[f]]_k8sVars

(* Whatever else writes to the object, every call of a tool returns: a        *)
(* conflict is a failure and is not tried again with the same copy.           *)
CallsReturn == \A c \in Callers : pc[c] # "idle" ~> pc[c] = "idle"

(* "Target number of replicas" (scale.go:51): a scale that takes effect       *)
(* leaves the object with the number its call asked for.                      *)
ScaleReachesTarget ==
  [][\A c \in Callers : pc[c] = "update" /\ pc'[c] # pc[c] /\ object' # object =>
       call[c].op # "scale" \/ kind = "hpa" \/ object'.replicas = call[c].number]_k8sVars
=============================================================================
