---------------------------- MODULE DaemonProofs ----------------------------
(***************************************************************************)
(* That the shutdown of the daemon closes the audit manager last, and that *)
(* no alert the daemon has queued gets lost, for every number of workers,  *)
(* requests and alerts and every capacity of the queue.                    *)
(***************************************************************************)
EXTENDS Daemon, FiniteSetTheorems, SequenceTheorems, TLAPS

-----------------------------------------------------------------------------
(* The inductive invariant, by the parts of the process that own the state.   *)

RequestRecords == [at : {"new", "queueing", "answered"}, left : Seq(Alerts)]
WatcherRecords == [at : {"off", "select", "scan", "diagnose", "ended"},
                   left : SUBSET Issues, on : SUBSET Issues]

ControlTypes ==
  /\ main \in {"check", "prompt", "query", "crashed"} \cup Stopped
  /\ signalled \in BOOLEAN /\ watcherStop \in BOOLEAN /\ audit \in BOOLEAN

AlertdTypes ==
  /\ request \in [Requests -> RequestRecords]
  /\ queue \in Seq(Alerts) /\ Len(queue) <= QueueSize
  /\ worker \in [Workers -> Alerts \cup {Waiting, Ended}]
  /\ accepted \subseteq Alerts /\ handled \subseteq Alerts /\ dropped \subseteq Alerts

WatchTypes ==
  /\ present \subseteq Issues /\ seen \subseteq Issues /\ watcher \in WatcherRecords
  /\ outcome \in [Issues -> {"none", "answer", "error"}]

(* Workers leave only through the closed channel, and Stop returns only when  *)
(* all have left; none comes back, so this stays true while the rest closes.  *)
WorkersLeave ==
  /\ stopCh \in BOOLEAN
  /\ (\E w \in Workers : worker[w] = Ended) => stopCh
  /\ main \in {"stopped", "exited"} \/ ~audit => \A w \in Workers : worker[w] = Ended

DaemonInv == ControlTypes /\ AlertdTypes /\ WatchTypes /\ WorkersLeave

-----------------------------------------------------------------------------
(* Alerts are numbers, which the two idle places of a worker are not.         *)
LEMMA AlertsAreNat ==
  /\ Alerts \subseteq Nat /\ Waiting \notin Alerts /\ Ended \notin Alerts
<1>1. \A p \in 1..Len(Posts) : Posts[p] \in Seq(Nat)
  BY DaemonConstants
<1>2. \A p \in 1..Len(Posts) : \A i \in 1..Len(Posts[p]) : Posts[p][i] \in Nat
  BY <1>1
<1>3. Alerts \subseteq Nat
  BY <1>2 DEF Alerts
<1> QED BY <1>3, DaemonConstants

LEMMA PostsHoldAlerts == \A p \in Requests : Posts[p] \in Seq(Alerts)
<1> SUFFICES ASSUME NEW p \in Requests PROVE Posts[p] \in Seq(Alerts)
  OBVIOUS
<1>1. Posts[p] \in Seq(Nat)
  BY DaemonConstants DEF Requests
<1>2. /\ Len(Posts[p]) \in Nat
      /\ Posts[p] \in [1..Len(Posts[p]) -> Nat]
  BY <1>1
<1>3. \A i \in 1..Len(Posts[p]) : Posts[p][i] \in Alerts
  BY DEF Alerts, Requests
<1>4. Posts[p] \in [1..Len(Posts[p]) -> Alerts]
  BY <1>2, <1>3
<1> QED BY <1>2, <1>4, SeqDef

LEMMA DaemonStarts == DaemonInit => DaemonInv
<1> SUFFICES ASSUME DaemonInit PROVE DaemonInv
  OBVIOUS
<1>1. ControlTypes
  BY DEF DaemonInit, ControlTypes
<1>2. AlertdTypes
  <2>1. request \in [Requests -> RequestRecords]
    BY PostsHoldAlerts DEF DaemonInit, RequestRecords
  <2>2. queue \in Seq(Alerts) /\ Len(queue) <= QueueSize
    BY DaemonConstants DEF DaemonInit
  <2>3. worker \in [Workers -> Alerts \cup {Waiting, Ended}]
    BY DEF DaemonInit
  <2> QED BY <2>1, <2>2, <2>3 DEF DaemonInit, AlertdTypes
<1>3. WatchTypes
  BY DEF DaemonInit, WatchTypes, WatcherRecords
<1>4. WorkersLeave
  <2>1. \A w \in Workers : worker[w] # Ended
    BY DaemonConstants DEF DaemonInit
  <2> QED BY <2>1 DEF DaemonInit, WorkersLeave
<1> QED BY <1>1, <1>2, <1>3, <1>4 DEF DaemonInv

-----------------------------------------------------------------------------
(* Every step that does not belong to a part leaves its variables alone.      *)

LEMMA ControlKept ==
  ASSUME DaemonInv, DaemonNext PROVE ControlTypes'
<1> USE DEF DaemonInv, ControlTypes, Stopped, control
<1>1. CASE MainStep
  BY <1>1 DEF MainStep, StartupCheck, QueryReturns, CloseWatcher, CloseStopCh,
              Shutdown, WorkersDone, CloseAudit, Exit
<1>2. CASE Signal \/ Input \/ NilResult
  BY <1>2 DEF Signal, Input, NilResult, Crash
<1>3. CASE \E r \in Requests : Post(r) \/ Webhook(r)
  BY <1>3 DEF Post, Webhook, Enqueue, DropFull, Answer
<1>4. CASE \E w \in Workers : WorkerStep(w) \/ NilDiagnosis(w)
  BY <1>4 DEF WorkerStep, TakeAlert, Diagnosed, WorkerEnds, NilDiagnosis, Crash
<1>5. CASE \E i \in Issues : Appear(i) \/ Vanish(i)
  BY <1>5 DEF Appear, Vanish
<1>6. CASE Scan \/ WatcherStep \/ NilWatch \/ WatcherEnds
  BY <1>6 DEF Scan, WatcherStep, Mark, WatcherDiagnosed, ScanEnds, NilWatch, Crash, WatcherEnds
<1> QED BY <1>1, <1>2, <1>3, <1>4, <1>5, <1>6 DEF DaemonNext

LEMMA WatchKept ==
  ASSUME DaemonInv, DaemonNext PROVE WatchTypes'
<1> USE DEF DaemonInv, WatchTypes, WatcherRecords, watch
<1>1. CASE StartupCheck
  BY <1>1 DEF StartupCheck
<1>2. CASE Scan
  BY <1>2 DEF Scan
<1>3. CASE \E i \in Issues : Mark(i)
  BY <1>3 DEF Mark
<1>4. CASE WatcherDiagnosed
  <2>1. PICK end \in {"answer", "error"} :
          outcome' = [i \in Issues |-> IF i \in watcher.on THEN end ELSE outcome[i]]
    BY <1>4 DEF WatcherDiagnosed
  <2>2. outcome' \in [Issues -> {"none", "answer", "error"}]
    BY <2>1
  <2>3. watcher' \in WatcherRecords /\ present' = present /\ seen' = seen
    BY <1>4 DEF WatcherDiagnosed
  <2> QED BY <2>2, <2>3
<1>8. CASE ScanEnds \/ WatcherEnds
  BY <1>8 DEF ScanEnds, WatcherEnds
<1>5. CASE \E i \in Issues : Appear(i) \/ Vanish(i)
  BY <1>5 DEF Appear, Vanish
<1>6. CASE UNCHANGED watch
  BY <1>6
<1>7. StartupCheck \/ Scan \/ (\E i \in Issues : Mark(i))
      \/ WatcherDiagnosed \/ ScanEnds \/ WatcherEnds
      \/ (\E i \in Issues : Appear(i) \/ Vanish(i)) \/ UNCHANGED watch
  BY DEF DaemonNext, MainStep, QueryReturns, CloseWatcher, CloseStopCh, Shutdown,
         WorkersDone, CloseAudit, Exit, Signal, Input, NilResult, Crash,
         Post, Webhook, Enqueue, DropFull, Answer,
         WorkerStep, TakeAlert, Diagnosed, WorkerEnds, NilDiagnosis, WatcherStep, NilWatch
<1> QED BY <1>1, <1>2, <1>3, <1>4, <1>5, <1>6, <1>7, <1>8

LEMMA RequestsKept ==
  ASSUME DaemonInv, NEW r \in Requests, Post(r) \/ Webhook(r)
  PROVE  /\ request' \in [Requests -> RequestRecords]
         /\ queue' \in Seq(Alerts) /\ Len(queue') <= QueueSize
         /\ accepted' \subseteq Alerts /\ dropped' \subseteq Alerts
         /\ UNCHANGED <<worker, handled, stopCh, watch, control>>
<1> USE DEF DaemonInv, AlertdTypes
<1>1. /\ request \in [Requests -> RequestRecords]
      /\ request[r].at \in {"new", "queueing", "answered"} /\ request[r].left \in Seq(Alerts)
  BY DEF RequestRecords
<1>2. CASE Post(r) \/ Answer(r)
  <2>1. \E p \in {"queueing", "answered"} : request' = [request EXCEPT ![r].at = p]
    BY <1>2 DEF Post, Answer
  <2>2. request' \in [Requests -> RequestRecords]
    BY <1>1, <2>1 DEF RequestRecords
  <2>3. UNCHANGED <<queue, accepted, dropped, worker, handled, stopCh, watch, control>>
    BY <1>2 DEF Post, Answer
  <2> QED BY <2>2, <2>3
<1>3. CASE Enqueue(r) \/ DropFull(r)
  <2>1. request[r].left # <<>>
    BY <1>3 DEF Enqueue, DropFull
  <2>2. Head(request[r].left) \in Alerts /\ Tail(request[r].left) \in Seq(Alerts)
    BY <1>1, <2>1
  <2>3. request' = [request EXCEPT ![r].left = Tail(@)]
    BY <1>3 DEF Enqueue, DropFull, Next1
  <2>4. request' \in [Requests -> RequestRecords]
    BY <1>1, <2>2, <2>3 DEF RequestRecords
  <2>5. CASE Enqueue(r)
    <3>1. queue' = Append(queue, Head(request[r].left)) /\ Len(queue) < QueueSize
      BY <2>5 DEF Enqueue
    <3>2. queue' \in Seq(Alerts) /\ Len(queue') = Len(queue) + 1
      BY <2>2, <3>1
    <3>3. Len(queue') <= QueueSize
      BY <3>1, <3>2, DaemonConstants
    <3> QED BY <2>2, <2>4, <2>5, <3>2, <3>3 DEF Enqueue
  <2>6. CASE DropFull(r)
    BY <2>2, <2>4, <2>6 DEF DropFull
  <2> QED BY <1>3, <2>5, <2>6
<1> QED BY <1>2, <1>3 DEF Webhook

LEMMA WorkersKept ==
  ASSUME DaemonInv, NEW w \in Workers, WorkerStep(w)
  PROVE  /\ queue' \in Seq(Alerts) /\ Len(queue') <= QueueSize
         /\ handled' \subseteq Alerts
         /\ worker[w] # Ended /\ UNCHANGED <<http, stopCh, watch, control>>
         /\ \E x \in Alerts \cup {Waiting, Ended} :
              worker' = [worker EXCEPT ![w] = x] /\ (x = Ended => stopCh)
<1> USE DEF DaemonInv, AlertdTypes
<1>1. CASE TakeAlert(w)
  <2>1. queue # <<>> /\ worker[w] = Waiting /\ queue' = Tail(queue)
        /\ worker' = [worker EXCEPT ![w] = Head(queue)]
        /\ UNCHANGED <<http, stopCh, handled, watch, control>>
    BY <1>1 DEF TakeAlert, Become
  <2>2. Head(queue) \in Alerts /\ Tail(queue) \in Seq(Alerts) /\ Len(Tail(queue)) = Len(queue) - 1
    BY <2>1
  <2>3. Len(queue') <= QueueSize
    BY <2>1, <2>2, DaemonConstants
  <2> QED BY <2>1, <2>2, <2>3, AlertsAreNat, DaemonConstants
<1>2. CASE Diagnosed(w)
  <2>1. worker[w] \in Alerts /\ worker[w] # Ended
    BY <1>2 DEF Diagnosed, Busy
  <2> QED BY <1>2, <2>1, DaemonConstants DEF Diagnosed, Become
<1>3. CASE WorkerEnds(w)
  BY <1>3, DaemonConstants DEF WorkerEnds, Become
<1> QED BY <1>1, <1>2, <1>3 DEF WorkerStep

LEMMA AlertdKept ==
  ASSUME DaemonInv, DaemonNext PROVE AlertdTypes'
<1>1. CASE \E r \in Requests : Post(r) \/ Webhook(r)
  BY <1>1, RequestsKept DEF DaemonInv, AlertdTypes
<1>2. CASE \E w \in Workers : WorkerStep(w)
  BY <1>2, WorkersKept DEF DaemonInv, AlertdTypes, http
<1>3. CASE UNCHANGED <<http, queue, worker, handled>>
  BY <1>3 DEF DaemonInv, AlertdTypes, http
<1>4. \/ \E r \in Requests : Post(r) \/ Webhook(r)
      \/ \E w \in Workers : WorkerStep(w)
      \/ UNCHANGED <<http, queue, worker, handled>>
  BY DEF DaemonNext, MainStep, StartupCheck, QueryReturns, CloseWatcher, CloseStopCh,
         Shutdown, WorkersDone, CloseAudit, Exit, Signal, Input, NilResult, Crash,
         NilDiagnosis, Appear, Vanish, Scan, WatcherStep, Mark, WatcherDiagnosed,
         ScanEnds, NilWatch, WatcherEnds, alertd
<1> QED BY <1>1, <1>2, <1>3, <1>4

LEMMA WorkersLeaveKept ==
  ASSUME DaemonInv, DaemonNext PROVE WorkersLeave'
<1> USE DEF DaemonInv
<1>1. CASE \E r \in Requests : Post(r) \/ Webhook(r)
  BY <1>1, RequestsKept DEF WorkersLeave, control
<1>2. CASE \E w \in Workers : WorkerStep(w)
  <2>1. PICK w \in Workers : WorkerStep(w)
    BY <1>2
  <2>2. PICK x \in Alerts \cup {Waiting, Ended} :
          worker' = [worker EXCEPT ![w] = x] /\ (x = Ended => stopCh)
    BY <2>1, WorkersKept
  <2>3. worker[w] # Ended /\ UNCHANGED <<stopCh, main, audit>>
    BY <2>1, WorkersKept DEF control
  <2>4. ~(main \in {"stopped", "exited"} \/ ~audit)
    BY <2>3 DEF WorkersLeave
  <2>5. \A v \in Workers : worker'[v] = Ended => worker[v] = Ended \/ x = Ended
    BY <2>2 DEF AlertdTypes
  <2> QED BY <2>2, <2>3, <2>4, <2>5 DEF WorkersLeave
<1>3. CASE CloseStopCh
  BY <1>3 DEF CloseStopCh, WorkersLeave, ControlTypes
<1>4. CASE WorkersDone
  BY <1>4 DEF WorkersDone, WorkersLeave, alertd
<1>5. CASE CloseAudit \/ Exit
  BY <1>5 DEF CloseAudit, Exit, WorkersLeave, alertd
<1>6. CASE UNCHANGED <<worker, stopCh, audit>> /\ main' \notin {"stopped", "exited"}
  BY <1>6 DEF WorkersLeave
<1>7. CASE UNCHANGED <<worker, stopCh, audit, main>>
  BY <1>7 DEF WorkersLeave
<1>8. \/ \E r \in Requests : Post(r) \/ Webhook(r)
      \/ \E w \in Workers : WorkerStep(w)
      \/ CloseStopCh \/ WorkersDone \/ CloseAudit \/ Exit
      \/ UNCHANGED <<worker, stopCh, audit>> /\ main' \notin {"stopped", "exited"}
      \/ UNCHANGED <<worker, stopCh, audit, main>>
  BY DEF DaemonNext, MainStep, StartupCheck, QueryReturns, CloseWatcher,
         Shutdown, Signal, Input, NilResult, Crash,
         NilDiagnosis, Appear, Vanish, Scan, WatcherStep, Mark, WatcherDiagnosed,
         ScanEnds, NilWatch, WatcherEnds, alertd, control
<1> QED BY <1>1, <1>2, <1>3, <1>4, <1>5, <1>6, <1>7, <1>8

LEMMA DaemonSteps == DaemonInv /\ [DaemonNext]_daemonVars => DaemonInv'
<1>1. DaemonInv /\ DaemonNext => DaemonInv'
  BY ControlKept, WatchKept, AlertdKept, WorkersLeaveKept DEF DaemonInv
<1>2. DaemonInv /\ UNCHANGED daemonVars => DaemonInv'
  BY DEF DaemonInv, ControlTypes, AlertdTypes, WatchTypes, WorkersLeave,
         daemonVars, alertd, http, watch, control
<1> QED BY <1>1, <1>2

-----------------------------------------------------------------------------
(* Where an alert may be.                                                     *)

LEMMA QueueOfAppend ==
  ASSUME NEW s \in Seq(Alerts), NEW a \in Alerts
  PROVE  {Append(s, a)[i] : i \in 1..Len(Append(s, a))} = {s[i] : i \in 1..Len(s)} \cup {a}
<1>1. Len(Append(s, a)) = Len(s) + 1 /\ Append(s, a)[Len(s) + 1] = a
      /\ Len(s) \in Nat /\ \A i \in 1..Len(s) : Append(s, a)[i] = s[i]
  OBVIOUS
<1>2. 1..(Len(s) + 1) = 1..Len(s) \cup {Len(s) + 1}
  BY <1>1
<1> QED BY <1>1, <1>2

LEMMA QueueOfTail ==
  ASSUME NEW s \in Seq(Alerts), s # <<>>
  PROVE  {s[i] : i \in 1..Len(s)} = {Tail(s)[i] : i \in 1..Len(Tail(s))} \cup {Head(s)}
<1>1. Len(Tail(s)) = Len(s) - 1 /\ Len(s) \in Nat \ {0} /\ Head(s) = s[1]
      /\ \A i \in 1..Len(Tail(s)) : Tail(s)[i] = s[i + 1]
  OBVIOUS
<1>2. \A i \in 1..Len(s) : i = 1 \/ (i - 1 \in 1..Len(Tail(s)) /\ (i - 1) + 1 = i)
  BY <1>1
<1>3. \A i \in 1..Len(Tail(s)) : i + 1 \in 1..Len(s)
  BY <1>1
<1> QED BY <1>1, <1>2, <1>3

LEMMA AccountedKept ==
  ASSUME DaemonInv, AlertsAccounted, DaemonNext PROVE AlertsAccounted'
<1> USE DEF DaemonInv, AlertdTypes
<1>1. CASE \E r \in Requests : Enqueue(r)
  <2>1. PICK r \in Requests : Enqueue(r)
    BY <1>1
  <2>2. request[r].left \in Seq(Alerts) /\ request[r].left # <<>>
    BY <2>1 DEF Enqueue, RequestRecords
  <2>3. /\ Head(request[r].left) \in Alerts
        /\ queue' = Append(queue, Head(request[r].left))
        /\ accepted' = accepted \cup {Head(request[r].left)}
        /\ worker' = worker /\ handled' = handled
    BY <2>1, <2>2 DEF Enqueue
  <2>4. Queued' = Queued \cup {Head(request[r].left)}
    BY <2>3, QueueOfAppend DEF Queued
  <2>5. InProcess' = InProcess
    BY <2>3 DEF InProcess, Busy
  <2> QED BY <2>3, <2>4, <2>5 DEF AlertsAccounted
<1>2. CASE \E w \in Workers : TakeAlert(w)
  <2>1. PICK w \in Workers : TakeAlert(w)
    BY <1>2
  <2>2. /\ queue # <<>> /\ worker[w] = Waiting /\ queue' = Tail(queue)
        /\ worker' = [worker EXCEPT ![w] = Head(queue)]
        /\ accepted' = accepted /\ handled' = handled
    BY <2>1 DEF TakeAlert, Become, http
  <2>3. Queued = Queued' \cup {Head(queue)} /\ Head(queue) \in Alerts
    <3>1. queue \in Seq(Alerts) /\ queue # <<>>
      BY <2>2
    <3>2. Head(queue) \in Alerts
      BY <3>1
    <3>3. Queued' = {Tail(queue)[i] : i \in 1..Len(Tail(queue))}
      BY <2>2 DEF Queued
    <3> QED BY <3>1, <3>2, <3>3, QueueOfTail DEF Queued
  <2>4. \A v \in Workers : worker'[v] = IF v = w THEN Head(queue) ELSE worker[v]
    BY <2>2
  <2>5. InProcess' = InProcess \cup {Head(queue)}
    <3>1. Busy(w)' /\ ~Busy(w)
      BY <2>2, <2>3, <2>4, AlertsAreNat DEF Busy
    <3>2. \A v \in Workers \ {w} : Busy(v)' <=> Busy(v)
      BY <2>4 DEF Busy
    <3> QED BY <2>4, <3>1, <3>2 DEF InProcess
  <2> QED BY <2>2, <2>3, <2>5 DEF AlertsAccounted
<1>3. CASE \E w \in Workers : Diagnosed(w)
  <2>1. PICK w \in Workers : Diagnosed(w)
    BY <1>3
  <2>2. /\ Busy(w) /\ worker' = [worker EXCEPT ![w] = Waiting]
        /\ handled' = handled \cup {worker[w]}
        /\ accepted' = accepted /\ queue' = queue
    BY <2>1 DEF Diagnosed, Become, http
  <2>3. \A v \in Workers : worker'[v] = IF v = w THEN Waiting ELSE worker[v]
    BY <2>2
  <2>4. InProcess \cup {worker[w]} = InProcess' \cup {worker[w]} /\ worker[w] \in InProcess
    <3>1. \A v \in Workers \ {w} : Busy(v)' <=> Busy(v)
      BY <2>3 DEF Busy
    <3>2. ~Busy(w)'
      BY <2>3 DEF Busy
    <3> QED BY <2>2, <2>3, <3>1, <3>2 DEF InProcess
  <2>5. Queued' = Queued
    BY <2>2 DEF Queued
  <2> QED BY <2>2, <2>4, <2>5 DEF AlertsAccounted
<1>4. CASE \E w \in Workers : WorkerEnds(w)
  <2>1. PICK w \in Workers : WorkerEnds(w)
    BY <1>4
  <2>2. worker[w] = Waiting /\ worker' = [worker EXCEPT ![w] = Ended]
        /\ UNCHANGED <<accepted, handled, queue>>
    BY <2>1 DEF WorkerEnds, Become, http
  <2>3. \A v \in Workers : (Busy(v)' <=> Busy(v)) /\ (Busy(v) => worker'[v] = worker[v])
    BY <2>2 DEF Busy
  <2> QED BY <2>2, <2>3 DEF AlertsAccounted, Queued, InProcess
<1>5. CASE UNCHANGED <<accepted, handled, queue, worker>>
  BY <1>5 DEF AlertsAccounted, Queued, InProcess, Busy
<1>6. \/ \E r \in Requests : Enqueue(r)
      \/ \E w \in Workers : TakeAlert(w) \/ Diagnosed(w) \/ WorkerEnds(w)
      \/ UNCHANGED <<accepted, handled, queue, worker>>
  BY DEF DaemonNext, MainStep, StartupCheck, QueryReturns, CloseWatcher, CloseStopCh,
         Shutdown, WorkersDone, CloseAudit, Exit, Signal, Input, NilResult, Crash,
         Post, Webhook, DropFull, Answer, WorkerStep, NilDiagnosis, Appear, Vanish, Scan,
         WatcherStep, Mark, WatcherDiagnosed, ScanEnds, NilWatch, WatcherEnds, alertd, http
<1> QED BY <1>1, <1>2, <1>3, <1>4, <1>5, <1>6

-----------------------------------------------------------------------------
(* An alert is in one place only: not yet sent, queued, with one worker or    *)
(* diagnosed.                                                                 *)

Unsent ==
  \A r, q \in Requests :
    \A i \in 1..Len(request[r].left), j \in 1..Len(request[q].left) :
      /\ request[r].left[i] \notin accepted
      /\ request[r].left[i] = request[q].left[j] => r = q /\ i = j

Apart ==
  /\ \A i, j \in 1..Len(queue) : queue[i] = queue[j] => i = j
  /\ \A v, w \in Workers : Busy(v) /\ Busy(w) /\ worker[v] = worker[w] => v = w
  /\ \A i \in 1..Len(queue) : queue[i] \notin handled
  /\ \A i \in 1..Len(queue), w \in Workers : Busy(w) => queue[i] # worker[w]
  /\ \A w \in Workers : Busy(w) => worker[w] \notin handled

BusyWorkers == {w \in Workers : Busy(w)}

Counted ==
  /\ IsFiniteSet(accepted) /\ IsFiniteSet(handled)
  /\ Cardinality(accepted) = Len(queue) + Cardinality(BusyWorkers) + Cardinality(handled)

OnceInv == AlertsAccounted /\ Unsent /\ Apart /\ Counted

LEMMA BusyAreFinite == IsFiniteSet(BusyWorkers) /\ Cardinality(BusyWorkers) \in Nat
BY FS_Subset, FS_CardinalityType, DaemonConstants DEF BusyWorkers

(* What is left of the requests when one of them has taken its next alert.    *)
LEMMA LeftOfNext ==
  ASSUME request \in [Requests -> RequestRecords], NEW r \in Requests,
         request[r].left # <<>>, request' = [request EXCEPT ![r].left = Tail(@)],
         NEW p \in Requests, NEW i \in 1..Len(request'[p].left)
  PROVE  \E k \in 1..Len(request[p].left) :
           request'[p].left[i] = request[p].left[k] /\ k = IF p = r THEN i + 1 ELSE i
<1>1. request[r].left \in Seq(Alerts)
  BY DEF RequestRecords
<1>2. request'[p].left = IF p = r THEN Tail(request[r].left) ELSE request[p].left
  BY DEF RequestRecords
<1>3. \A j \in 1..Len(Tail(request[r].left)) :
        j + 1 \in 1..Len(request[r].left) /\ Tail(request[r].left)[j] = request[r].left[j + 1]
  BY <1>1
<1> QED BY <1>2, <1>3

LEMMA OnceEnqueued ==
  ASSUME DaemonInv, OnceInv, NEW r \in Requests, Enqueue(r)
  PROVE  Unsent' /\ Apart' /\ Counted'
<1> DEFINE a == Head(request[r].left)
<1>1. /\ request \in [Requests -> RequestRecords] /\ queue \in Seq(Alerts)
      /\ request[r].left \in Seq(Alerts) /\ request[r].left # <<>>
  BY DEF DaemonInv, AlertdTypes, RequestRecords, Enqueue
<1>2. /\ queue' = Append(queue, a) /\ accepted' = accepted \cup {a}
      /\ worker' = worker /\ handled' = handled
      /\ request' = [request EXCEPT ![r].left = Tail(@)]
  BY DEF Enqueue, Next1
<1>3. a = request[r].left[1] /\ a \in Alerts /\ 1 \in 1..Len(request[r].left)
  BY <1>1
<1>4. a \notin accepted
  BY <1>3 DEF OnceInv, Unsent
<1>5. a \notin handled /\ a \notin Queued /\ a \notin InProcess
  BY <1>4 DEF OnceInv, AlertsAccounted
<1>6. Unsent'
  <2> SUFFICES ASSUME NEW p \in Requests, NEW q \in Requests,
                      NEW i \in 1..Len(request'[p].left), NEW j \in 1..Len(request'[q].left)
               PROVE  /\ request'[p].left[i] \notin accepted'
                      /\ request'[p].left[i] = request'[q].left[j] => p = q /\ i = j
    BY DEF Unsent
  <2>1. PICK k \in 1..Len(request[p].left) :
          request'[p].left[i] = request[p].left[k] /\ k = IF p = r THEN i + 1 ELSE i
    BY <1>1, <1>2, LeftOfNext
  <2>2. PICK l \in 1..Len(request[q].left) :
          request'[q].left[j] = request[q].left[l] /\ l = IF q = r THEN j + 1 ELSE j
    BY <1>1, <1>2, LeftOfNext
  <2>3. request[p].left[k] \notin accepted /\ (request[p].left[k] = a => p = r /\ k = 1)
    BY <1>3 DEF OnceInv, Unsent
  <2>4. request[p].left[k] # a
    BY <2>1, <2>3
  <2>5. request[p].left[k] = request[q].left[l] => p = q /\ k = l
    BY DEF OnceInv, Unsent
  <2> QED BY <1>2, <2>1, <2>2, <2>3, <2>4, <2>5
<1>7. /\ Len(queue') = Len(queue) + 1 /\ Len(queue) \in Nat
      /\ \A i \in 1..Len(queue') :
           IF i = Len(queue) + 1 THEN queue'[i] = a
           ELSE i \in 1..Len(queue) /\ queue'[i] = queue[i]
  BY <1>1, <1>2, <1>3
<1>8. \A w \in Workers : Busy(w)' <=> Busy(w)
  BY <1>2 DEF Busy
<1>9. Apart'
  <2>1. \A i \in 1..Len(queue) : queue[i] # a
    BY <1>5 DEF Queued
  <2>2. \A w \in Workers : Busy(w) => worker[w] # a
    BY <1>5 DEF InProcess
  <2> QED BY <1>2, <1>5, <1>7, <1>8, <2>1, <2>2 DEF OnceInv, Apart
<1>10. Counted'
  <2>1. IsFiniteSet(accepted') /\ Cardinality(accepted') = Cardinality(accepted) + 1
    BY <1>2, <1>4, FS_AddElement DEF OnceInv, Counted
  <2>2. BusyWorkers' = BusyWorkers
    BY <1>8 DEF BusyWorkers
  <2>3. Cardinality(handled) \in Nat
    BY FS_CardinalityType DEF OnceInv, Counted
  <2> QED BY <1>2, <1>7, <2>1, <2>2, <2>3, BusyAreFinite DEF OnceInv, Counted
<1> QED BY <1>6, <1>9, <1>10

LEMMA OnceTaken ==
  ASSUME DaemonInv, OnceInv, NEW w \in Workers, TakeAlert(w)
  PROVE  Unsent' /\ Apart' /\ Counted'
<1>1. /\ queue \in Seq(Alerts) /\ queue # <<>> /\ worker \in [Workers -> Alerts \cup {Waiting, Ended}]
      /\ worker[w] = Waiting /\ queue' = Tail(queue)
      /\ worker' = [worker EXCEPT ![w] = Head(queue)]
      /\ UNCHANGED <<accepted, handled, request>>
  BY DEF DaemonInv, AlertdTypes, TakeAlert, Become, http
<1>2. /\ Head(queue) = queue[1] /\ Head(queue) \in Alerts /\ 1 \in 1..Len(queue)
      /\ Len(queue') = Len(queue) - 1 /\ Len(queue) \in Nat
      /\ \A i \in 1..Len(queue') : i + 1 \in 1..Len(queue) /\ i + 1 # 1 /\ queue'[i] = queue[i + 1]
  BY <1>1
<1>3. \A v \in Workers : worker'[v] = IF v = w THEN queue[1] ELSE worker[v]
  BY <1>1, <1>2
<1>4. ~Busy(w) /\ Busy(w)' /\ \A v \in Workers \ {w} : Busy(v)' <=> Busy(v)
  BY <1>1, <1>2, <1>3, AlertsAreNat DEF Busy
<1>5. Unsent'
  BY <1>1 DEF OnceInv, Unsent
<1>6. Apart'
  <2>1. \A i, j \in 1..Len(queue') : queue'[i] = queue'[j] => i = j
    <3> SUFFICES ASSUME NEW i \in 1..Len(queue'), NEW j \in 1..Len(queue'), queue'[i] = queue'[j]
                 PROVE  i = j
      OBVIOUS
    <3>1. i + 1 = j + 1
      BY <1>2 DEF OnceInv, Apart
    <3> QED BY <3>1
  <2>2. \A u, v \in Workers : Busy(u)' /\ Busy(v)' /\ worker'[u] = worker'[v] => u = v
    BY <1>2, <1>3, <1>4 DEF OnceInv, Apart
  <2>3. \A i \in 1..Len(queue') : queue'[i] \notin handled'
    BY <1>1, <1>2 DEF OnceInv, Apart
  <2>4. \A i \in 1..Len(queue'), v \in Workers : Busy(v)' => queue'[i] # worker'[v]
    <3> SUFFICES ASSUME NEW i \in 1..Len(queue'), NEW v \in Workers, Busy(v)'
                 PROVE  queue'[i] # worker'[v]
      OBVIOUS
    <3>1. CASE v = w
      BY <1>2, <1>3, <3>1 DEF OnceInv, Apart
    <3>2. CASE v # w
      BY <1>2, <1>3, <1>4, <3>2 DEF OnceInv, Apart
    <3> QED BY <3>1, <3>2
  <2>5. \A v \in Workers : Busy(v)' => worker'[v] \notin handled'
    BY <1>1, <1>2, <1>3, <1>4 DEF OnceInv, Apart
  <2> QED BY <2>1, <2>2, <2>3, <2>4, <2>5 DEF Apart
<1>7. Counted'
  <2>1. BusyWorkers' = BusyWorkers \cup {w} /\ w \notin BusyWorkers
    BY <1>4 DEF BusyWorkers
  <2>2. Cardinality(BusyWorkers') = Cardinality(BusyWorkers) + 1
    BY <2>1, BusyAreFinite, FS_AddElement
  <2>3. Cardinality(handled) \in Nat
    BY FS_CardinalityType DEF OnceInv, Counted
  <2> QED BY <1>1, <1>2, <2>2, <2>3, BusyAreFinite DEF OnceInv, Counted
<1> QED BY <1>5, <1>6, <1>7

LEMMA OnceDiagnosed ==
  ASSUME DaemonInv, OnceInv, NEW w \in Workers, Diagnosed(w)
  PROVE  Unsent' /\ Apart' /\ Counted'
<1>1. /\ Busy(w) /\ worker \in [Workers -> Alerts \cup {Waiting, Ended}]
      /\ worker' = [worker EXCEPT ![w] = Waiting]
      /\ handled' = handled \cup {worker[w]}
      /\ UNCHANGED <<accepted, queue, request>>
  BY DEF DaemonInv, AlertdTypes, Diagnosed, Become, http
<1>2. \A v \in Workers : worker'[v] = IF v = w THEN Waiting ELSE worker[v]
  BY <1>1
<1>3. ~Busy(w)' /\ \A v \in Workers \ {w} : Busy(v)' <=> Busy(v)
  BY <1>2 DEF Busy
<1>4. Unsent'
  BY <1>1 DEF OnceInv, Unsent
<1>5. Apart'
  BY <1>1, <1>2, <1>3 DEF OnceInv, Apart
<1>6. Counted'
  <2>1. BusyWorkers' = BusyWorkers \ {w} /\ w \in BusyWorkers
    BY <1>1, <1>3 DEF BusyWorkers
  <2>2. Cardinality(BusyWorkers') = Cardinality(BusyWorkers) - 1
    BY <2>1, BusyAreFinite, FS_RemoveElement
  <2>3. /\ IsFiniteSet(handled') /\ Cardinality(handled') = Cardinality(handled) + 1
        /\ Cardinality(handled) \in Nat
    BY <1>1, FS_AddElement, FS_CardinalityType DEF OnceInv, Counted, Apart
  <2>4. Len(queue) \in Nat
    BY DEF DaemonInv, AlertdTypes
  <2> QED BY <1>1, <2>2, <2>3, <2>4, BusyAreFinite DEF OnceInv, Counted
<1> QED BY <1>4, <1>5, <1>6

LEMMA OnceKept ==
  ASSUME DaemonInv, OnceInv, DaemonNext PROVE OnceInv'
<1>1. CASE \E r \in Requests : Enqueue(r)
  BY <1>1, OnceEnqueued, AccountedKept DEF OnceInv
<1>2. CASE \E w \in Workers : TakeAlert(w)
  BY <1>2, OnceTaken, AccountedKept DEF OnceInv
<1>3. CASE \E w \in Workers : Diagnosed(w)
  BY <1>3, OnceDiagnosed, AccountedKept DEF OnceInv
<1>4. CASE \E w \in Workers : WorkerEnds(w)
  <2>1. PICK w \in Workers : WorkerEnds(w)
    BY <1>4
  <2>2. worker[w] = Waiting /\ worker' = [worker EXCEPT ![w] = Ended]
        /\ worker \in [Workers -> Alerts \cup {Waiting, Ended}]
        /\ UNCHANGED <<accepted, handled, queue, request>>
    BY <2>1 DEF WorkerEnds, Become, http, DaemonInv, AlertdTypes
  <2>3. \A v \in Workers : (Busy(v)' <=> Busy(v)) /\ (Busy(v) => worker'[v] = worker[v])
    BY <2>2 DEF Busy
  <2>4. BusyWorkers' = BusyWorkers
    BY <2>3 DEF BusyWorkers
  <2>5. Unsent' /\ Apart' /\ Counted'
    BY <2>2, <2>3, <2>4 DEF OnceInv, Unsent, Apart, Counted
  <2> QED BY <2>5, AccountedKept DEF OnceInv
<1>5. CASE \E r \in Requests : DropFull(r)
  <2>1. PICK r \in Requests : DropFull(r)
    BY <1>5
  <2>2. /\ request \in [Requests -> RequestRecords]
        /\ request[r].left \in Seq(Alerts) /\ request[r].left # <<>>
        /\ request' = [request EXCEPT ![r].left = Tail(@)]
        /\ UNCHANGED <<accepted, handled, queue, worker>>
    BY <2>1 DEF DropFull, Next1, DaemonInv, AlertdTypes, RequestRecords
  <2>5. Unsent'
    <3> SUFFICES ASSUME NEW p \in Requests, NEW q \in Requests,
                        NEW i \in 1..Len(request'[p].left), NEW j \in 1..Len(request'[q].left)
                 PROVE  /\ request'[p].left[i] \notin accepted'
                        /\ request'[p].left[i] = request'[q].left[j] => p = q /\ i = j
      BY DEF Unsent
    <3>1. PICK k \in 1..Len(request[p].left) :
            request'[p].left[i] = request[p].left[k] /\ k = IF p = r THEN i + 1 ELSE i
      BY <2>2, LeftOfNext
    <3>2. PICK l \in 1..Len(request[q].left) :
            request'[q].left[j] = request[q].left[l] /\ l = IF q = r THEN j + 1 ELSE j
      BY <2>2, LeftOfNext
    <3>3. /\ request[p].left[k] \notin accepted
          /\ request[p].left[k] = request[q].left[l] => p = q /\ k = l
      BY DEF OnceInv, Unsent
    <3> QED BY <2>2, <3>1, <3>2, <3>3
  <2>6. Apart' /\ Counted'
    BY <2>2 DEF OnceInv, Apart, Counted, Busy, BusyWorkers
  <2> QED BY <2>5, <2>6, AccountedKept DEF OnceInv
<1>6. CASE \E r \in Requests : Post(r) \/ Answer(r)
  <2>1. PICK r \in Requests : Post(r) \/ Answer(r)
    BY <1>6
  <2>2. request \in [Requests -> RequestRecords] /\ UNCHANGED <<accepted, handled, queue, worker>>
        /\ \E p \in {"queueing", "answered"} : request' = [request EXCEPT ![r].at = p]
    BY <2>1 DEF Post, Answer, DaemonInv, AlertdTypes
  <2>3. \A q \in Requests : request'[q].left = request[q].left
    BY <2>2 DEF RequestRecords
  <2>4. Unsent' /\ Apart' /\ Counted'
    BY <2>2, <2>3 DEF OnceInv, Unsent, Apart, Counted, Busy, BusyWorkers
  <2> QED BY <2>4, AccountedKept DEF OnceInv
<1>7. CASE UNCHANGED <<accepted, handled, queue, worker, request>>
  <2>1. Unsent' /\ Apart' /\ Counted'
    BY <1>7 DEF OnceInv, Unsent, Apart, Counted, Busy, BusyWorkers
  <2> QED BY <2>1, AccountedKept DEF OnceInv
<1>8. \/ \E r \in Requests : Enqueue(r) \/ DropFull(r) \/ Post(r) \/ Answer(r)
      \/ \E w \in Workers : TakeAlert(w) \/ Diagnosed(w) \/ WorkerEnds(w)
      \/ UNCHANGED <<accepted, handled, queue, worker, request>>
  BY DEF DaemonNext, MainStep, StartupCheck, QueryReturns, CloseWatcher, CloseStopCh,
         Shutdown, WorkersDone, CloseAudit, Exit, Signal, Input, NilResult, Crash,
         Webhook, WorkerStep, NilDiagnosis, Appear, Vanish, Scan,
         WatcherStep, Mark, WatcherDiagnosed, ScanEnds, NilWatch, WatcherEnds, alertd, http
<1> QED BY <1>1, <1>2, <1>3, <1>4, <1>5, <1>6, <1>7, <1>8

LEMMA OnceStarts == DaemonInit => OnceInv
<1> SUFFICES ASSUME DaemonInit PROVE OnceInv
  OBVIOUS
<1>1. /\ queue = <<>> /\ accepted = {} /\ handled = {} /\ worker = [w \in Workers |-> Waiting]
      /\ request = [r \in Requests |-> [at |-> "new", left |-> Posts[r]]]
  BY DEF DaemonInit
<1>2. \A w \in Workers : ~Busy(w)
  BY <1>1 DEF Busy
<1>3. Queued = {} /\ InProcess = {} /\ BusyWorkers = {}
  BY <1>1, <1>2 DEF Queued, InProcess, BusyWorkers
<1>4. AlertsAccounted /\ Apart
  BY <1>1, <1>2, <1>3 DEF AlertsAccounted, Apart
<1>5. Unsent
  BY <1>1, DistinctAlerts DEF Unsent, Requests
<1>6. Counted
  BY <1>1, <1>3, FS_EmptySet DEF Counted
<1> QED BY <1>4, <1>5, <1>6 DEF OnceInv

-----------------------------------------------------------------------------
LEMMA DaemonInvariant == DaemonSpec => []DaemonInv
BY DaemonStarts, DaemonSteps, PTL DEF DaemonSpec

(* The state of the daemon keeps its types, whatever the goroutines do.       *)
THEOREM DaemonTypeCorrect == DaemonSpec => []DaemonTypeOK
<1>1. DaemonInv => DaemonTypeOK
  BY DEF DaemonInv, ControlTypes, AlertdTypes, WatchTypes, WorkersLeave, DaemonTypeOK,
         RequestRecords, WatcherRecords
<1> QED BY <1>1, DaemonInvariant, PTL

(* The audit manager is open while any worker is at an alert, with any number *)
(* of workers and also when the requests under way are not waited for.        *)
THEOREM AuditOutlivesWorkersHolds == DaemonSpec => []AuditOutlivesWorkers
<1>1. DaemonInv => AuditOutlivesWorkers
  BY DEF DaemonInv, WorkersLeave, AuditOutlivesWorkers
<1> QED BY <1>1, DaemonInvariant, PTL

(* No alert that the daemon has queued gets lost between the queue and a      *)
(* diagnosis, and none is diagnosed twice, with any number of alerts, requests*)
(* and workers.                                                               *)
THEOREM NoAlertVanishesHolds == DaemonSpec => []NoAlertVanishes
<1>1. DaemonInv /\ OnceInv /\ [DaemonNext]_daemonVars => OnceInv'
  <2>1. CASE UNCHANGED daemonVars
    BY <2>1 DEF OnceInv, AlertsAccounted, Unsent, Apart, Counted, BusyWorkers, Queued, InProcess,
                Busy, daemonVars, alertd, http
  <2> QED BY <2>1, OnceKept
<1>2. OnceInv => NoAlertVanishes
  BY DEF OnceInv, Counted, BusyWorkers, NoAlertVanishes
<1> QED BY <1>1, <1>2, OnceStarts, DaemonInvariant, PTL DEF DaemonSpec
=============================================================================
