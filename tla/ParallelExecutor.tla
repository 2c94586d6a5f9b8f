--------------------------- MODULE ParallelExecutor ---------------------------
(***************************************************************************)
(* The parallel executor (pkg/agent/parallel.go): one Execute of a list of *)
(* tool calls by a strategy.  Calls run in batches, each call of a batch in *)
(* a goroutine of its own; the caller's context may end at any time.       *)
(***************************************************************************)
EXTENDS Integers, FiniteSets, SequencesExt

CONSTANTS
  ToolNames,   (* names of tools                                             *)
  Objects,     (* values of the arguments name and pod_name; "" for none     *)
  MaxParallel, (* maxParallel                                                *)
  MaxCalls     (* bound: tool calls in the list                              *)

ASSUME MaxParallelAssumption == MaxParallel \in Nat \ {0}

VARIABLES
  calls,    (* the list of tool calls                                        *)
  execution, (* the ExecutionStrategy                                        *)
  phase,    (* "plan", "sort", "run" or "done"                               *)
  degree,   (* inDegree of topologicalSort, by tool name                     *)
  queue,    (* its queue of names                                            *)
  order,    (* the calls in the order they are to be executed in             *)
  running,  (* places in order of the calls whose goroutine runs             *)
  slots,    (* the batch's results: the call each is of, 0 for none yet      *)
  results,  (* the calls the results so far are of                           *)
  ended     (* the caller's context has ended                                *)

parallelVars ==
  <<calls, execution, phase, degree, queue, order, running, slots, results, ended>>

Calls == [name : ToolNames, object : Objects]
Names == {calls[i].name : i \in DOMAIN calls}

ParallelInit ==
  /\ calls \in UNION {[1..n -> Calls] : n \in 1..MaxCalls}
  /\ execution \in {"parallel", "sequential", "batch", "dependent"} /\ phase = "plan"
  /\ degree = [n \in ToolNames |-> 0] /\ queue = <<>> /\ order = <<>>
  /\ running = {} /\ slots = <<>> /\ results = <<>> /\ ended = FALSE

-----------------------------------------------------------------------------
(* The dependency graph: a change waits for reads of the same object, logs    *)
(* wait for the events of their pod.                                          *)
NoObject == ""

Changes == {"k8s_scale", "k8s_restart", "k8s_patch", "k8s_rollout"}
Looks   == {"k8s_get", "k8s_describe", "k8s_status"}

HasDependency(call, other) ==
  /\ call.object = other.object /\ call.object # NoObject
  /\ \/ call.name \in Changes /\ other.name \in Looks
     \/ call.name = "k8s_logs" /\ other.name = "k8s_events"

(* Calls of one name are one node of the sort, the last call's; what it       *)
(* waits for counts once for every call it depends on.                        *)
DependsOn(call) ==
  {j \in DOMAIN calls : calls[j].name # call.name /\ HasDependency(call, calls[j])}

LastOf(name) == Max({i \in DOMAIN calls : calls[i].name = name})

(* How often node is in adj[name]: once for every call of its name and every  *)
(* call named name that this one depends on.                                  *)
Edges(name, node) ==
  Cardinality({e \in (DOMAIN calls) \X (DOMAIN calls) :
                 /\ calls[e[1]].name = node /\ calls[e[2]].name = name
                 /\ e[2] \in DependsOn(calls[e[1]])})

Degrees ==
  [n \in ToolNames |-> IF n \in Names THEN Cardinality(DependsOn(calls[LastOf(n)])) ELSE 0]

(* Mutant. *)
AllNodes(d) == Names

(* The nodes without dependencies are queued in the order of a map, any.      *)
Roots(d) == {n \in Names : d[n] = 0}

Plan ==
  /\ phase = "plan"
  /\ IF execution = "dependent"
     THEN /\ degree' = Degrees /\ queue' \in SetToSeqs(Roots(Degrees))
          /\ phase' = "sort" /\ UNCHANGED order
     ELSE order' = [i \in DOMAIN calls |-> i] /\ phase' = "run" /\ UNCHANGED <<degree, queue>>
  /\ UNCHANGED <<calls, execution, running, slots, results, ended>>

(* One turn of Kahn's loop.  The nodes whose degree comes down to 0 join the  *)
(* queue; their order is left open.                                           *)
Visit ==
  LET current == Head(queue)
      ready   == {n \in Names : degree[n] > 0 /\ degree[n] <= Edges(current, n)}
  IN  /\ phase = "sort" /\ queue # <<>>
      /\ order' = Append(order, LastOf(current))
      /\ degree' = [n \in ToolNames |-> degree[n] - Edges(current, n)]
      /\ \E q \in SetToSeqs(ready) : queue' = Tail(queue) \o q
      /\ UNCHANGED <<calls, execution, phase, running, slots, results, ended>>

Sorted ==
  /\ phase = "sort" /\ queue = <<>> /\ phase' = "run"
  /\ UNCHANGED <<calls, execution, degree, queue, order, running, slots, results, ended>>

-----------------------------------------------------------------------------
(* The batches.  One call at a time is a batch of one; the first batch starts *)
(* even in a context that has ended.                                          *)
Size == IF execution \in {"parallel", "batch"} THEN MaxParallel ELSE 1

StartBatch ==
  /\ phase = "run" /\ slots = <<>>
  /\ LET n == Min({Size, Len(order) - Len(results)})
     IN  slots' = [i \in 1..n |-> 0] /\ running' = {Len(results) + i : i \in 1..n}
  /\ UNCHANGED <<calls, execution, phase, degree, queue, order, results, ended>>

(* Mutant: results are appended as they come.                                 *)
NextFree(i) == SelectInSeq(slots, LAMBDA c : c = 0)

(* A goroutine ends, with the tool's result, its error or its timeout.        *)
InSlot(i) == i - Len(results)

ExecuteSingle(i) ==
  /\ i \in running /\ running' = running \ {i}
  /\ slots' = [slots EXCEPT ![InSlot(i)] = order[i]]
  /\ UNCHANGED <<calls, execution, phase, degree, queue, order, results, ended>>

EndBatch ==
  /\ phase = "run" /\ slots # <<>> /\ running = {}
  /\ results' = results \o slots /\ slots' = <<>>
  /\ phase' = IF ended \/ Len(results') = Len(order) THEN "done" ELSE "run"
  /\ UNCHANGED <<calls, execution, degree, queue, order, running, ended>>

ContextEnds ==
  /\ ~ended /\ phase # "done" /\ ended' = TRUE
  /\ UNCHANGED <<calls, execution, phase, degree, queue, order, running, slots, results>>

ParallelNext ==
  \/ Plan \/ Visit \/ Sorted \/ StartBatch \/ EndBatch \/ ContextEnds
  \/ \E i \in 1..MaxCalls : ExecuteSingle(i)

ParallelSpec == ParallelInit /\ [][ParallelNext]_parallelVars

-----------------------------------------------------------------------------
(* The results stand in the order of the calls, whichever goroutine was first *)
(* to end; when all is done and the context has not ended, every tool named   *)
(* has a result, and every call has one unless calls of one name were sorted  *)
(* by dependency (parallel.go:58-70, 84-94, 307-341).                         *)
Distinct == \A i, j \in DOMAIN calls : calls[i].name = calls[j].name => i = j

ResultsAreTheCalls ==
  /\ results = SubSeq(order, 1, Len(results))
  /\ phase = "done" /\ ~ended =>
       /\ {calls[results[i]].name : i \in DOMAIN results} = Names
       /\ execution # "dependent" \/ Distinct => ToSet(results) = DOMAIN calls

(* A change runs only after a read of its object that was asked for with it   *)
(* has its result, in whatever order the calls and the sort's map come: the   *)
(* very read, if it is the last call of its name.  The earlier calls of a     *)
(* name are no nodes of the sort, never run, and nothing waits for them       *)
(* (parallel.go:206-224, 276-298, 302-313).                                   *)
DependenciesFirst ==
  execution = "dependent" =>
    \A i \in running, j \in DOMAIN calls :
      HasDependency(calls[order[i]], calls[j]) /\ j = LastOf(calls[j].name)
        => j \in ToSet(results)

(* Not so: a change runs only after every read of its object that was asked   *)
(* for with it.  Of k8s_get of a, k8s_get of b and k8s_scale of a the first   *)
(* is dropped, and the change runs though its object was never read           *)
(* (parallel.go:308-313).                                                     *)
EveryReadFirst ==
  execution = "dependent" =>
    \A i \in running, j \in DOMAIN calls :
      HasDependency(calls[order[i]], calls[j]) => j \in ToSet(results)
=============================================================================
