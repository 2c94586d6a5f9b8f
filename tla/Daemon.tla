------------------------------- MODULE Daemon -------------------------------
(***************************************************************************)
(* lingshu --serve (cmd/lingshu/serve.go): one process in which the main   *)
(* goroutine reads commands and then shuts everything down, alertd's HTTP  *)
(* handlers queue the alerts of webhooks (pkg/alertd/server.go), workers   *)
(* take them and run the agent on each (HandleAlert of                     *)
(* pkg/agent/autonomous.go), and the cluster watcher runs it on each issue *)
(* it has not seen (watcher.go).  A run of the agent, AgentLoop, takes any *)
(* time and ends with a result, an error, or neither after a panic: then   *)
(* the caller dereferences a nil result and the process dies.              *)
(***************************************************************************)
EXTENDS Integers, Sequences, FiniteSets

CONSTANTS
  Posts,       (* the webhooks that are posted: the alerts in each             *)
  Workers,     (* alertd's workers                                             *)
  Issues,      (* container failures that may appear in the cluster            *)
  QueueSize,   (* the capacity of alertQueue                                   *)
  Waiting, Ended   (* a worker that selects, a worker that has returned        *)

ASSUME DaemonConstants ==
  /\ Posts \in Seq(Seq(Nat)) /\ QueueSize \in Nat \ {0}
  /\ Waiting \notin Nat /\ Ended \notin Nat /\ Waiting # Ended /\ IsFiniteSet(Workers)

(* A number stands for one sending of an alert.                               *)
ASSUME DistinctAlerts ==
  \A p, q \in 1..Len(Posts) : \A i \in 1..Len(Posts[p]), j \in 1..Len(Posts[q]) :
    Posts[p][i] = Posts[q][j] => p = q /\ i = j

Alerts   == UNION {{Posts[p][i] : i \in 1..Len(Posts[p])} : p \in 1..Len(Posts)}
Requests == 1..Len(Posts)

VARIABLES
  main,       (* where the main goroutine is                                   *)
  signalled,  (* sigCh holds a signal                                          *)
  request,    (* of each webhook: its alerts not yet queued, and its place     *)
  queue,      (* alertQueue                                                    *)
  worker,     (* what each worker does: the alert it diagnoses                 *)
  stopCh,     (* closed                                                        *)
  present,    (* the issues in the cluster                                     *)
  seen,       (* seenIssues                                                    *)
  watcher,    (* the watcher: its place, the issues left to look at, the one   *)
              (* it diagnoses, as a set                                        *)
  watcherStop,(* closed                                                        *)
  audit,      (* the audit manager takes events                                *)
  accepted, handled, dropped, (* history: alerts                               *)
  outcome     (* history: what the last diagnosis of an issue came to          *)

http    == <<request, accepted, dropped>>
alertd  == <<http, queue, worker, stopCh, handled>>
watch   == <<present, seen, watcher, outcome>>
control == <<main, signalled, watcherStop, audit>>
daemonVars == <<alertd, watch, control>>

Dead    == main \in {"exited", "crashed"}
Stopped == {"closing", "closed", "draining", "waiting", "stopped", "exited"}

DaemonInit ==
  /\ main = "check" /\ signalled = FALSE /\ watcherStop = FALSE /\ audit = TRUE
  /\ request = [r \in Requests |-> [at |-> "new", left |-> Posts[r]]]
  /\ queue = <<>> /\ worker = [w \in Workers |-> Waiting] /\ stopCh = FALSE
  /\ accepted = {} /\ handled = {} /\ dropped = {}
  /\ present = {} /\ seen = {} /\ watcher = [at |-> "off", left |-> {}, on |-> {}]
  /\ outcome = [i \in Issues |-> "none"]

-----------------------------------------------------------------------------
(* The main goroutine.  The startup check is skipped without tools, the       *)
(* watcher without a cluster.  Until signal.Notify a signal ends the process. *)

Crash ==
  /\ main' = "crashed"
  /\ UNCHANGED <<alertd, watch, signalled, watcherStop, audit>>

StartupCheck ==
  /\ main = "check"
  /\ main' = "prompt"
  /\ watcher' \in {watcher, [watcher EXCEPT !.at = "scan", !.left = present]}
  /\ UNCHANGED <<alertd, present, seen, outcome, signalled, watcherStop, audit>>

Signal ==
  /\ ~Dead
  /\ IF main = "check" THEN Crash
     ELSE signalled' = TRUE /\ UNCHANGED <<alertd, watch, main, watcherStop, audit>>

(* Scan returns a line or the end of the input; only then sigCh is looked at. *)
(* An empty line, help and status change nothing.                             *)
Input ==
  /\ main = "prompt"
  /\ main' \in IF signalled THEN {"closing"} ELSE {"prompt", "query", "closing"}
  /\ signalled' = FALSE
  /\ UNCHANGED <<alertd, watch, watcherStop, audit>>

QueryReturns ==
  /\ main = "query" /\ main' = "prompt"
  /\ UNCHANGED <<alertd, watch, signalled, watcherStop, audit>>

NilResult == main \in {"check", "query"} /\ Crash

-----------------------------------------------------------------------------
(* The shutdown: the watcher is told to stop and not awaited; Stop of alertd  *)
(* closes stopCh, closes the listener, waits for the requests under way, at   *)
(* most 10 s, and then for its workers.                                       *)

CloseWatcher ==
  /\ main = "closing" /\ main' = "closed" /\ watcherStop' = TRUE
  /\ UNCHANGED <<alertd, watch, signalled, audit>>

CloseStopCh ==
  /\ main = "closed" /\ main' = "draining" /\ stopCh' = TRUE
  /\ UNCHANGED <<http, queue, worker, handled, watch, signalled, watcherStop, audit>>

Active(r) == request[r].at = "queueing"

(* The requests under way have returned, or 10 s have passed.                 *)
Shutdown ==
  /\ main = "draining" /\ main' = "waiting"
  /\ UNCHANGED <<alertd, watch, signalled, watcherStop, audit>>

(* Mutant. *)
StopDoesNotWait ==
  /\ main = "waiting" /\ main' = "stopped"
  /\ UNCHANGED <<alertd, watch, signalled, watcherStop, audit>>

WorkersDone ==
  /\ main = "waiting" /\ \A w \in Workers : worker[w] = Ended
  /\ main' = "stopped"
  /\ UNCHANGED <<alertd, watch, signalled, watcherStop, audit>>

(* The scheduler is stopped, and the deferred Close of the audit manager      *)
(* flushes what it holds.                                                     *)
CloseAudit ==
  /\ main = "stopped" /\ audit
  /\ audit' = FALSE
  /\ UNCHANGED <<alertd, watch, main, signalled, watcherStop>>

Exit ==
  /\ main = "stopped" /\ ~audit /\ main' = "exited"
  /\ UNCHANGED <<alertd, watch, signalled, watcherStop, audit>>

MainStep ==
  \/ StartupCheck \/ QueryReturns \/ CloseWatcher \/ CloseStopCh \/ Shutdown
  \/ WorkersDone \/ CloseAudit \/ Exit

-----------------------------------------------------------------------------
(* The webhooks.  A body that does not parse is refused and changes nothing.  *)
(* A full queue drops the alert, and the sender is told success all the same. *)

Post(r) ==
  /\ ~Dead /\ main \notin {"waiting", "stopped"}
  /\ request[r].at = "new"
  /\ request' = [request EXCEPT ![r].at = "queueing"]
  /\ UNCHANGED <<accepted, dropped, queue, worker, stopCh, handled, watch, control>>

Next1(r) == request' = [request EXCEPT ![r].left = Tail(@)]

Enqueue(r) ==
  /\ ~Dead /\ Active(r) /\ request[r].left # <<>> /\ Len(queue) < QueueSize
  /\ queue' = Append(queue, Head(request[r].left))
  /\ accepted' = accepted \cup {Head(request[r].left)} /\ Next1(r)
  /\ UNCHANGED <<dropped, worker, stopCh, handled, watch, control>>

DropFull(r) ==
  /\ ~Dead /\ Active(r) /\ request[r].left # <<>> /\ Len(queue) >= QueueSize
  /\ dropped' = dropped \cup {Head(request[r].left)} /\ Next1(r)
  /\ UNCHANGED <<accepted, queue, worker, stopCh, handled, watch, control>>

Answer(r) ==
  /\ ~Dead /\ Active(r) /\ request[r].left = <<>>
  /\ request' = [request EXCEPT ![r].at = "answered"]
  /\ UNCHANGED <<accepted, dropped, queue, worker, stopCh, handled, watch, control>>

Webhook(r) == Enqueue(r) \/ DropFull(r) \/ Answer(r)

-----------------------------------------------------------------------------
(* processAlerts: select takes either ready branch.  HandleAlert runs the     *)
(* agent; an error is logged and the alert is done with.                      *)

Busy(w) == worker[w] \notin {Waiting, Ended}

Become(w, x) == worker' = [worker EXCEPT ![w] = x]

(* Mutant: stopCh is looked at again after the receive.                       *)
TakeUnlessStopped(w) ==
  /\ ~Dead /\ worker[w] = Waiting /\ queue # <<>>
  /\ queue' = Tail(queue) /\ Become(w, IF stopCh THEN Ended ELSE Head(queue))
  /\ UNCHANGED <<http, stopCh, handled, watch, control>>

TakeAlert(w) ==
  /\ ~Dead /\ worker[w] = Waiting /\ queue # <<>>
  /\ queue' = Tail(queue) /\ Become(w, Head(queue))
  /\ UNCHANGED <<http, stopCh, handled, watch, control>>

(* Mutant: an error of the handler ends the worker.                           *)
ErrorEndsWorker(w) ==
  /\ ~Dead /\ Busy(w)
  /\ handled' = handled \cup {worker[w]}
  /\ \/ Become(w, Waiting) \/ Become(w, Ended)
  /\ UNCHANGED <<http, queue, stopCh, watch, control>>

Diagnosed(w) ==
  /\ ~Dead /\ Busy(w)
  /\ handled' = handled \cup {worker[w]} /\ Become(w, Waiting)
  /\ UNCHANGED <<http, queue, stopCh, watch, control>>

NilDiagnosis(w) == ~Dead /\ Busy(w) /\ Crash

(* Mutant: Stop sends one token instead of closing the channel.               *)
OneWorkerEnds(w) ==
  /\ ~Dead /\ worker[w] = Waiting /\ stopCh /\ \A v \in Workers : worker[v] # Ended
  /\ Become(w, Ended)
  /\ UNCHANGED <<http, queue, stopCh, handled, watch, control>>

WorkerEnds(w) ==
  /\ ~Dead /\ worker[w] = Waiting /\ stopCh
  /\ Become(w, Ended)
  /\ UNCHANGED <<http, queue, stopCh, handled, watch, control>>

WorkerStep(w) == TakeAlert(w) \/ Diagnosed(w) \/ WorkerEnds(w)

-----------------------------------------------------------------------------
(* The watcher scans when it starts and at every tick.  An issue is marked as *)
(* seen before the agent runs on it, within the scan, and never again.        *)

Appear(i) ==
  /\ ~Dead /\ i \notin present
  /\ present' = present \cup {i}
  /\ UNCHANGED <<alertd, seen, watcher, outcome, control>>

Vanish(i) ==
  /\ ~Dead /\ i \in present
  /\ present' = present \ {i}
  /\ UNCHANGED <<alertd, seen, watcher, outcome, control>>

(* A list that fails is an empty scan.                                        *)
Scan ==
  /\ ~Dead /\ watcher.at = "select"
  /\ \/ watcher' = [at |-> "scan", left |-> present, on |-> {}]
     \/ UNCHANGED watcher
  /\ UNCHANGED <<alertd, present, seen, outcome, control>>

Mark(i) ==
  /\ ~Dead /\ watcher.at = "scan" /\ i \in watcher.left \ seen
  /\ seen' = seen \cup {i}
  /\ watcher' = [at |-> "diagnose", left |-> watcher.left \ {i}, on |-> {i}]
  /\ UNCHANGED <<alertd, present, outcome, control>>

(* The error of a diagnosis is ignored.                                       *)
WatcherDiagnosed ==
  /\ ~Dead /\ watcher.at = "diagnose"
  /\ watcher' = [watcher EXCEPT !.at = "scan", !.on = {}]
  /\ \E end \in {"answer", "error"} :
       outcome' = [i \in Issues |-> IF i \in watcher.on THEN end ELSE outcome[i]]
  /\ UNCHANGED <<alertd, present, seen, control>>

NilWatch == ~Dead /\ watcher.at = "diagnose" /\ Crash

ScanEnds ==
  /\ ~Dead /\ watcher.at = "scan" /\ watcher.left \subseteq seen
  /\ watcher' = [at |-> "select", left |-> {}, on |-> {}]
  /\ UNCHANGED <<alertd, present, seen, outcome, control>>

WatcherEnds ==
  /\ ~Dead /\ watcher.at = "select" /\ watcherStop
  /\ watcher' = [watcher EXCEPT !.at = "ended"]
  /\ UNCHANGED <<alertd, present, seen, outcome, control>>

Tick        == Scan /\ watcher' # watcher
WatcherStep == (\E i \in Issues : Mark(i)) \/ WatcherDiagnosed \/ ScanEnds

DaemonNext ==
  \/ MainStep \/ Signal \/ Input \/ NilResult
  \/ \E r \in Requests : Post(r) \/ Webhook(r)
  \/ \E w \in Workers : WorkerStep(w) \/ NilDiagnosis(w)
  \/ \E i \in Issues : Appear(i) \/ Vanish(i)
  \/ Scan \/ WatcherStep \/ NilWatch \/ WatcherEnds

DaemonSpec == DaemonInit /\ [][DaemonNext]_daemonVars

(* Every goroutine goes on and every run of the agent returns, as RunsReturn  *)
(* of AgentLoop has it: assumed is that no job which a run was told to run    *)
(* now holds it for ever.  Nobody has to type, post or signal anything.  A    *)
(* list that is asked for again and again is answered at last.                *)
FairDaemonSpec ==
  /\ DaemonSpec /\ WF_daemonVars(MainStep)
  /\ \A r \in Requests : WF_daemonVars(Webhook(r))
  /\ \A w \in Workers : WF_daemonVars(WorkerStep(w))
  /\ WF_daemonVars(Tick) /\ WF_daemonVars(WatcherStep)

-----------------------------------------------------------------------------
(* Properties                                                                 *)

Queued    == {queue[i] : i \in 1..Len(queue)}
InProcess == {worker[w] : w \in {v \in Workers : Busy(v)}}

(* The main goroutine, requests, workers and watcher are in one of their      *)
(* places, the queue fits its channel, and workers end only once Stop has     *)
(* closed stopCh.                                                             *)
DaemonTypeOK ==
  /\ main \in {"check", "prompt", "query", "crashed"} \cup Stopped
  /\ signalled \in BOOLEAN /\ stopCh \in BOOLEAN /\ watcherStop \in BOOLEAN
  /\ audit \in BOOLEAN
  /\ request \in [Requests -> [at : {"new", "queueing", "answered"}, left : Seq(Alerts)]]
  /\ queue \in Seq(Alerts) /\ Len(queue) <= QueueSize
  /\ worker \in [Workers -> Alerts \cup {Waiting, Ended}]
  /\ (\E w \in Workers : worker[w] = Ended) => stopCh
  /\ present \subseteq Issues /\ seen \subseteq Issues
  /\ watcher \in [at : {"off", "select", "scan", "diagnose", "ended"},
                  left : SUBSET Issues, on : SUBSET Issues]
  /\ outcome \in [Issues -> {"none", "answer", "error"}]
  /\ accepted \subseteq Alerts /\ handled \subseteq Alerts /\ dropped \subseteq Alerts

(* An alert that entered the queue is in it, with a worker, or diagnosed, and *)
(* in one of these only, also while Stop makes the workers leave.             *)
AlertsAccounted == accepted = Queued \cup InProcess \cup handled

NoAlertVanishes ==
  /\ AlertsAccounted
  /\ Cardinality(accepted) = Len(queue) + Cardinality({w \in Workers : Busy(w)})
                               + Cardinality(handled)

(* The audit manager closes only when no worker is at an alert, whose         *)
(* diagnosis it would otherwise not record.                                   *)
AuditOutlivesWorkers == ~audit => \A w \in Workers : worker[w] = Ended

(* While the daemon serves, every alert it has queued comes to the end of a   *)
(* diagnosis, and so does every issue that stays: lists that fail, other      *)
(* alerts and other issues only delay it.  The end may be an error, and that  *)
(* is then the end of it: the next property does not hold (server.go:412-431, *)
(* watcher.go:26-34, 82-120).                                                 *)
EverythingDiagnosed ==
  /\ \A a \in Alerts : a \in accepted ~> a \in handled \/ stopCh \/ Dead
  /\ \A i \in Issues :
       (main = "prompt" /\ watcher.at # "off" /\ i \in present)
         ~> outcome[i] # "none" \/ i \notin present \/ watcherStop \/ Dead

(* Not so: an issue that stays although its diagnosis failed is diagnosed     *)
(* again.  It is in seenIssues since before that diagnosis (watcher.go:83-86, *)
(* 120).                                                                      *)
FailureRetried ==
  \A i \in Issues :
    (outcome[i] = "error" /\ i \in present)
      ~> i \in watcher.on \/ i \notin present \/ watcherStop \/ Dead

(* A shutdown ends: intake stops, the workers leave whatever is queued, and   *)
(* the process exits, or dies of a nil result.                                *)
ShutdownEnds == main = "closing" ~> Dead

(* "Ctrl+C exits safely" (serve.go): a signal ends a daemon that is ready.    *)
SignalEnds == signalled ~> Dead
=============================================================================
