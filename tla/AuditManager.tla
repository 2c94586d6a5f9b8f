---------------------------- MODULE AuditManager ----------------------------
(***************************************************************************)
(* pkg/audit/audit.go: Log, called by any number of goroutines, chains an  *)
(* event and offers it to a bounded queue; run() collects batches and      *)
(* flushes them to the database, or to the fallback file; Stop ends run()  *)
(* and drains the queue.  The process may crash and be started again.      *)
(***************************************************************************)
EXTENDS Integers, Sequences, FiniteSets, SequencesExt

CONSTANTS
  Callers,         (* goroutines that log                                      *)
  Keys,            (* chains: session ids, or "global"                         *)
  Contents,        (* what hashEventContent distinguishes                      *)
  QueueSize,       (* DefaultQueueSize                                         *)
  BatchSize,       (* batchSize                                                *)
  HasFallback,     (* NewFileFallback succeeded                                *)
  MaxEvents,       (* bounds the calls of Log                                  *)
  MaxStarts,       (* bounds the calls of Start                                *)
  MaxCrashes       (* bounds the crashes                                       *)

ASSUME AuditConstants ==
  /\ IsFiniteSet(Callers)
  /\ QueueSize \in Nat \ {0} /\ BatchSize \in Nat \ {0}
  /\ HasFallback \in BOOLEAN
  /\ MaxEvents \in Nat /\ MaxStarts \in Nat /\ MaxCrashes \in Nat

VARIABLES
  step, event,     (* a caller's place in Log and the event it builds          *)
  clock,           (* CreatedAt of the next event, which identifies it         *)
  heads,           (* sessionLastHash                                          *)
  queue, batch,    (* eventQueue; the batch of run() or flushRemaining()       *)
  phase,           (* stopped, running, stopping (stopCh closed)               *)
  flusher,         (* run(): off, select; flushRemaining: fill, flush          *)
  db, file,        (* audit_events in insertion order; the fallback lines      *)
  totalEvents, flushedEvents, fallbackEvents, droppedEvents,
  accepted,        (* history: the events enqueued, in order                   *)
  lost,            (* history: accepted events that were dropped or crashed    *)
  beforeStop,      (* history: how many were accepted when Stop was called     *)
  starts, crashes

callers  == <<step, event, clock, heads>>
memory   == <<queue, batch>>
control  == <<phase, flusher, beforeStop, starts>>
stores   == <<db, file>>
counters == <<totalEvents, flushedEvents, fallbackEvents, droppedEvents>>
auditVars == <<callers, memory, control, stores, counters, accepted, lost, crashes>>

(* A chain hash stands for the contents it was computed from: SHA-256 taken   *)
(* as injective.                                                              *)
Extend(hash, content) == Append(hash, content)
NoHash == <<>>
NoEvent == [id |-> 0]

AuditInit ==
  /\ step = [c \in Callers |-> "idle"] /\ event = [c \in Callers |-> NoEvent]
  /\ clock = 1 /\ heads = [k \in Keys |-> NoHash]
  /\ queue = <<>> /\ batch = <<>>
  /\ phase = "stopped" /\ flusher = "off" /\ beforeStop = 0 /\ starts = 0
  /\ db = <<>> /\ file = <<>>
  /\ totalEvents = 0 /\ flushedEvents = 0 /\ fallbackEvents = 0 /\ droppedEvents = 0
  /\ accepted = <<>> /\ lost = {} /\ crashes = 0

-----------------------------------------------------------------------------
(* Log: the head is read under one lock and replaced under another.           *)

Advance(c, place) == step' = [step EXCEPT ![c] = place]

Return(c) ==
  step' = [step EXCEPT ![c] = "idle"] /\ event' = [event EXCEPT ![c] = NoEvent]

Begin(c, k, x) ==
  /\ step[c] = "idle" /\ clock <= MaxEvents
  /\ event' = [event EXCEPT ![c] = [id |-> clock, key |-> k, content |-> x, hash |-> NoHash]]
  /\ clock' = clock + 1
  /\ Advance(c, "read")
  /\ UNCHANGED <<heads, memory, control, stores, counters, accepted, lost, crashes>>

ReadHead(c) ==
  /\ step[c] = "read" /\ Advance(c, "store")
  /\ event' = [event EXCEPT ![c].hash = Extend(heads[event[c].key], event[c].content)]
  /\ UNCHANGED <<clock, heads, memory, control, stores, counters, accepted, lost, crashes>>

StoreHead(c) ==
  /\ step[c] = "store" /\ Advance(c, "count")
  /\ heads' = [heads EXCEPT ![event[c].key] = event[c].hash]
  /\ UNCHANGED <<event, clock, memory, control, stores, counters, accepted, lost, crashes>>

Count(c) ==
  /\ step[c] = "count" /\ Advance(c, "offer")
  /\ totalEvents' = totalEvents + 1
  /\ UNCHANGED <<event, clock, heads, memory, control, stores, flushedEvents,
                 fallbackEvents, droppedEvents, accepted, lost, crashes>>

Enqueue(c) ==
  /\ step[c] = "offer" /\ Len(queue) < QueueSize /\ Return(c)
  /\ queue' = Append(queue, event[c])
  /\ accepted' = Append(accepted, event[c].id)
  /\ UNCHANGED <<clock, heads, batch, control, stores, counters, lost, crashes>>

(* Mutant. *)
DropUncounted(c) ==
  /\ step[c] = "offer" /\ Len(queue) >= QueueSize /\ Return(c)
  /\ UNCHANGED <<clock, heads, memory, control, stores, counters, accepted,
                 lost, crashes>>

(* Log returns "audit event queue full", which its callers ignore.            *)
DropFull(c) ==
  /\ step[c] = "offer" /\ Len(queue) >= QueueSize /\ Return(c)
  /\ droppedEvents' = droppedEvents + 1
  /\ UNCHANGED <<clock, heads, memory, control, stores, totalEvents,
                 flushedEvents, fallbackEvents, accepted, lost, crashes>>

Log(c) ==
  \/ \E k \in Keys, x \in Contents : Begin(c, k, x)
  \/ ReadHead(c) \/ StoreHead(c) \/ Count(c) \/ Enqueue(c) \/ DropFull(c)

-----------------------------------------------------------------------------
(* flushBatch.  A commit that reports an error may have taken effect.         *)

Ids(s) == {s[i].id : i \in 1..Len(s)}

Insert(b) ==
  /\ db' = db \o b
  /\ flushedEvents' = flushedEvents + Len(b)
  /\ UNCHANGED <<file, fallbackEvents, droppedEvents, lost>>

FallBack(b) ==
  /\ HasFallback
  /\ db' \in {db, db \o b} /\ file' = file \o b
  /\ fallbackEvents' = fallbackEvents + Len(b)
  /\ UNCHANGED <<flushedEvents, droppedEvents, lost>>

(* WriteBatch may fail after some lines; the whole batch counts as dropped.   *)
Lose(b) ==
  /\ db' \in {db, db \o b}
  /\ \E n \in 0..(Len(b) - 1) :
       (HasFallback \/ n = 0) /\ file' = file \o SubSeq(b, 1, n)
  /\ droppedEvents' = droppedEvents + Len(b)
  /\ lost' = lost \cup Ids(b)
  /\ UNCHANGED <<flushedEvents, fallbackEvents>>

FlushBatch(b) == Insert(b) \/ FallBack(b) \/ Lose(b)

NoFlush == UNCHANGED <<stores, flushedEvents, fallbackEvents, droppedEvents, lost>>

-----------------------------------------------------------------------------
(* run(): select takes any branch that is ready; a full batch is flushed      *)
(* before the next select, another when the ticker fires.                     *)

Take == batch' = Append(batch, Head(queue)) /\ queue' = Tail(queue)

Receive ==
  /\ flusher = "select" /\ Len(batch) < BatchSize /\ queue # <<>>
  /\ Take /\ NoFlush
  /\ UNCHANGED <<callers, control, totalEvents, accepted, crashes>>

(* Mutant. *)
FlushKeepsBatch ==
  /\ flusher = "select" /\ batch # <<>>
  /\ FlushBatch(batch) /\ UNCHANGED batch
  /\ UNCHANGED <<callers, queue, control, totalEvents, accepted, crashes>>

Flush ==
  /\ flusher = "select" /\ batch # <<>>
  /\ FlushBatch(batch) /\ batch' = <<>>
  /\ UNCHANGED <<callers, queue, control, totalEvents, accepted, crashes>>

(* Mutant. *)
ExitLeavesBatch ==
  /\ flusher = "select" /\ Len(batch) < BatchSize /\ phase = "stopping"
  /\ NoFlush /\ batch' = <<>>
  /\ flusher' = "fill"
  /\ UNCHANGED <<callers, queue, phase, beforeStop, starts, totalEvents, accepted,
                 crashes>>

(* stopCh is closed: the last batch is flushed, and wg.Wait in Stop returns.  *)
Exit ==
  /\ flusher = "select" /\ Len(batch) < BatchSize /\ phase = "stopping"
  /\ IF batch # <<>> THEN FlushBatch(batch) ELSE NoFlush
  /\ batch' = <<>>
  /\ flusher' = "fill"
  /\ UNCHANGED <<callers, queue, phase, beforeStop, starts, totalEvents, accepted,
                 crashes>>

-----------------------------------------------------------------------------
(* Start and Stop hold the manager's mutex; Stop keeps it while it drains.    *)

Start ==
  /\ phase = "stopped" /\ starts < MaxStarts
  /\ phase' = "running" /\ flusher' = "select"
  /\ starts' = starts + 1
  /\ UNCHANGED <<callers, memory, beforeStop, stores, counters, accepted, lost, crashes>>

Stop ==
  /\ phase = "running"
  /\ phase' = "stopping" /\ beforeStop' = Len(accepted)
  /\ UNCHANGED <<callers, memory, flusher, starts, stores, counters, accepted, lost,
                 crashes>>

(* flushRemaining fills a batch from the queue without waiting; what is       *)
(* enqueued after it found the queue empty goes into the next batch.          *)
DrainOne ==
  /\ flusher = "fill" /\ queue # <<>> /\ Len(batch) < BatchSize
  /\ Take /\ NoFlush
  /\ UNCHANGED <<callers, control, totalEvents, accepted, crashes>>

DrainBreak ==
  /\ flusher = "fill" /\ batch # <<>> /\ (queue = <<>> \/ Len(batch) = BatchSize)
  /\ flusher' = "flush"
  /\ UNCHANGED <<callers, memory, phase, beforeStop, starts, stores, counters,
                 accepted, lost, crashes>>

DrainFlush ==
  /\ flusher = "flush" /\ flusher' = "fill"
  /\ FlushBatch(batch) /\ batch' = <<>>
  /\ UNCHANGED <<callers, queue, phase, beforeStop, starts, totalEvents, accepted,
                 crashes>>

(* Mutant. *)
DrainedAfterABatch == flusher = "fill" /\ batch = <<>>

Drained == flusher = "fill" /\ batch = <<>> /\ queue = <<>>

StopReturns ==
  /\ Drained /\ phase' = "stopped" /\ flusher' = "off"
  /\ UNCHANGED <<callers, memory, beforeStop, starts, stores, counters, accepted,
                 lost, crashes>>

(* The process dies: the manager's memory goes, the stores stay.              *)
Crash ==
  /\ crashes < MaxCrashes /\ crashes' = crashes + 1
  /\ lost' = lost \cup Ids(queue) \cup Ids(batch)
  /\ step' = [c \in Callers |-> "idle"] /\ event' = [c \in Callers |-> NoEvent]
  /\ heads' = [k \in Keys |-> NoHash]
  /\ queue' = <<>> /\ batch' = <<>>
  /\ phase' = "stopped" /\ flusher' = "off" /\ beforeStop' = 0
  /\ totalEvents' = 0 /\ flushedEvents' = 0 /\ fallbackEvents' = 0 /\ droppedEvents' = 0
  /\ UNCHANGED <<clock, starts, stores, accepted>>

FlusherStep == Receive \/ Flush \/ Exit
StopStep    == DrainOne \/ DrainBreak \/ DrainFlush \/ StopReturns

AuditNext ==
  \/ \E c \in Callers : Log(c)
  \/ FlusherStep \/ Start \/ Stop \/ StopStep \/ Crash

AuditSpec == AuditInit /\ [][AuditNext]_auditVars

(* The flusher's goroutine and the one in Stop keep running; the ticker is    *)
(* what makes a batch that is not full get flushed.                           *)
FairAuditSpec ==
  AuditSpec /\ WF_auditVars(FlusherStep) /\ WF_auditVars(StopStep)

-----------------------------------------------------------------------------
(* List orders by created_at DESC; VerifyChain walks the rows in that order   *)
(* and recomputes each row's hash from the one before it.                     *)

Newer(e, f) == e.id > f.id

List(k) == SetToSortSeq({db[i] : i \in {j \in 1..Len(db) : db[j].key = k}}, Newer)

VerifyChain(k) ==
  \A i \in 2..Len(List(k)) :
    List(k)[i].hash = Extend(List(k)[i - 1].hash, List(k)[i].content)

-----------------------------------------------------------------------------
(* Properties                                                                 *)

Stored  == Ids(db) \cup Ids(file)
Offered == {c \in Callers : step[c] = "offer"}

Event == [id : Nat, key : Keys, content : Contents, hash : Seq(Contents)]

CallersTyped ==
  /\ step \in [Callers -> {"idle", "read", "store", "count", "offer"}]
  /\ event \in [Callers -> Event \cup {NoEvent}]
  /\ \A c \in Callers : step[c] # "idle" => event[c] \in Event
  /\ clock \in Nat /\ heads \in [Keys -> Seq(Contents)]

MemoryTyped ==
  /\ queue \in Seq(Event) /\ Len(queue) <= QueueSize
  /\ batch \in Seq(Event) /\ Len(batch) <= BatchSize

ControlTyped ==
  /\ <<phase, flusher>> \in {<<"stopped", "off">>, <<"running", "select">>,
        <<"stopping", "select">>, <<"stopping", "fill">>, <<"stopping", "flush">>}
  /\ beforeStop \in Nat /\ starts \in Nat /\ crashes \in Nat

StoresTyped ==
  /\ db \in Seq(Event) /\ file \in Seq(Event)
  /\ flushedEvents \in Nat /\ fallbackEvents \in Nat /\ droppedEvents \in Nat
  /\ lost \subseteq Nat

(* The manager's fields have their types, the queue never outgrows the        *)
(* channel, a batch never outgrows batchSize, and run() is alive exactly      *)
(* while the manager is not stopped.                                          *)
AuditTypeOK ==
  /\ CallersTyped /\ MemoryTyped /\ ControlTyped /\ StoresTyped
  /\ totalEvents \in Nat /\ accepted \in Seq(Nat)

(* The four counters that Stop logs account for every event: what was counted *)
(* and is not flushed, written to the fallback or dropped is in the queue, in *)
(* a batch, or in the hands of a caller between Count and the channel.        *)
Accounting ==
  totalEvents = Cardinality(Offered) + Len(queue) + Len(batch)
                  + flushedEvents + fallbackEvents + droppedEvents

Position(id) == CHOOSE i \in 1..Len(accepted) : accepted[i] = id

(* Each store holds accepted events only, in the order in which the queue     *)
(* accepted them and none twice, through failed commits and restarts.         *)
PersistedInOrder ==
  \A s \in {db, file} :
    /\ Ids(s) \subseteq {accepted[i] : i \in 1..Len(accepted)}
    /\ \A i, j \in 1..Len(s) : i < j => Position(s[i].id) < Position(s[j].id)

(* Once Stop has returned, every event accepted before it was called is in a  *)
(* store, unless both stores failed for it (or an earlier process died).      *)
StopLosesNothing ==
  phase = "stopped" =>
    \A i \in 1..beforeStop : accepted[i] \in Stored \cup lost

(* An event in the queue of a manager that runs is settled: the ticker        *)
(* flushes a batch that never fills, and Stop drains the rest.                *)
AcceptedSettles ==
  \A id \in 1..MaxEvents :
    phase = "running" /\ id \in Ids(queue) \cup Ids(batch) ~> id \in Stored \cup lost

(* The manager implements the ledger: an event it accepted is pending until   *)
(* it is kept or gone, and neither is ever undone.                            *)
Ledger == INSTANCE AuditLedger WITH
  Events  <- 1..MaxEvents,
  pending <- Ids(queue) \cup Ids(batch),
  kept    <- Stored,
  gone    <- lost \ Stored

ImplementsLedger == Ledger!LedgerSpec

(* audit.go:793 "Returns true if the chain is intact (no tampering            *)
(* detected)": nothing here tampers, and no event has failed to be stored.    *)
IntactVerifies ==
  crashes = 0 /\ droppedEvents = 0 /\ fallbackEvents = 0 =>
    \A k \in Keys : VerifyChain(k)

(* audit.go:683 "Every audit event is hashed with the previous event's hash": *)
(* in a process that lost nothing, no two events of a chain are linked to the *)
(* same predecessor.                                                          *)
ChainNeverForks ==
  crashes = 0 =>
    \A i, j \in 1..Len(db) :
      i # j /\ db[i].key = db[j].key => Front(db[i].hash) # Front(db[j].hash)
=============================================================================
