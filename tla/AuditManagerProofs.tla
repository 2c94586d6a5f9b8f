------------------------- MODULE AuditManagerProofs -------------------------
(***************************************************************************)
(* Proofs about the audit manager, for any number of callers, chains and   *)
(* events, any queue and batch size, and any number of restarts.           *)
(***************************************************************************)
EXTENDS AuditManager, FiniteSetTheorems, TLAPS

USE DEF callers, memory, control, stores, counters

-----------------------------------------------------------------------------
(* The type invariant.                                                     *)

LEMMA EventBuilt ==
  ASSUME NEW i \in Nat, NEW k \in Keys, NEW x \in Contents, NEW h \in Seq(Contents)
  PROVE  [id |-> i, key |-> k, content |-> x, hash |-> h] \in Event
  BY DEF Event

LEMMA EventRehashed ==
  ASSUME NEW e \in Event, NEW h \in Seq(Contents)
  PROVE  [e EXCEPT !.hash = h] \in Event
  BY DEF Event

LEMMA EventFields ==
  ASSUME NEW e \in Event
  PROVE  /\ e.id \in Nat /\ e.key \in Keys /\ e.content \in Contents
         /\ e.hash \in Seq(Contents)
  BY DEF Event

LEMMA EmptyTyped ==
  /\ <<>> \in Seq(Event) /\ <<>> \in Seq(Contents) /\ <<>> \in Seq(Nat)
  /\ NoHash \in Seq(Contents)
  /\ Len(<<>>) = 0
  BY DEF NoHash

LEMMA EventsJoin ==
  ASSUME NEW s \in Seq(Event), NEW t \in Seq(Event)
  PROVE  s \o t \in Seq(Event)
  OBVIOUS

LEMMA FlushTyped ==
  ASSUME StoresTyped, NEW b \in Seq(Event), FlushBatch(b)
  PROVE  StoresTyped'
<1>1. Ids(b) \subseteq Nat
  BY EventFields DEF Ids
<1>2. Len(b) \in Nat
  OBVIOUS
<1>3. db' \in {db, db \o b}
  BY DEF FlushBatch, Insert, FallBack, Lose
<1>4. db' \in Seq(Event)
  BY <1>3, EventsJoin DEF StoresTyped
<1>5. file' \in Seq(Event)
  <2>1. CASE file' \in {file, file \o b}
    BY <2>1, EventsJoin DEF StoresTyped
  <2>2. CASE \E n \in 0..(Len(b) - 1) : file' = file \o SubSeq(b, 1, n)
    <3>1. PICK n \in 0..(Len(b) - 1) : file' = file \o SubSeq(b, 1, n)
      BY <2>2
    <3>2. SubSeq(b, 1, n) \in Seq(Event)
      OBVIOUS
    <3> QED
      BY <3>1, <3>2, EventsJoin DEF StoresTyped
  <2> QED
    BY <2>1, <2>2 DEF FlushBatch, Insert, FallBack, Lose
<1>6. /\ flushedEvents' \in Nat /\ fallbackEvents' \in Nat
      /\ droppedEvents' \in Nat
  BY <1>2 DEF FlushBatch, Insert, FallBack, Lose, StoresTyped
<1>7. lost' \subseteq Nat
  BY <1>1 DEF FlushBatch, Insert, FallBack, Lose, StoresTyped
<1> QED
  BY <1>4, <1>5, <1>6, <1>7 DEF StoresTyped

-----------------------------------------------------------------------------
(* The accounting.  Only a flush moves a batch out of memory, and it adds    *)
(* the batch's length to one of the three counters.                          *)

Settled == flushedEvents + fallbackEvents + droppedEvents

LEMMA FlushCounts ==
  ASSUME StoresTyped, NEW b \in Seq(Event), FlushBatch(b)
  PROVE  Settled' = Settled + Len(b)
<1>1. Len(b) \in Nat
  OBVIOUS
<1> QED
  BY <1>1 DEF FlushBatch, Insert, FallBack, Lose, StoresTyped, Settled

LEMMA NoFlushCounts ==
  ASSUME NoFlush
  PROVE  Settled' = Settled
  BY DEF NoFlush, Settled

LEMMA OfferGrows ==
  ASSUME NEW c \in Callers, CallersTyped, step[c] # "offer",
         Advance(c, "offer")
  PROVE  Cardinality(Offered)' = Cardinality(Offered) + 1
<1>1. Offered' = Offered \cup {c} /\ c \notin Offered
  BY DEF Advance, Offered, CallersTyped
<1>2. IsFiniteSet(Offered)
  BY AuditConstants, FS_Subset DEF Offered
<1> QED
  BY <1>1, <1>2, FS_AddElement

LEMMA OfferShrinks ==
  ASSUME NEW c \in Callers, CallersTyped, step[c] = "offer", Return(c)
  PROVE  Cardinality(Offered)' = Cardinality(Offered) - 1
<1>1. Offered' = Offered \ {c} /\ c \in Offered
  BY DEF Return, Offered, CallersTyped
<1>2. IsFiniteSet(Offered)
  BY AuditConstants, FS_Subset DEF Offered
<1> QED
  BY <1>1, <1>2, FS_RemoveElement

LEMMA OfferKept ==
  ASSUME NEW c \in Callers, NEW p, CallersTyped,
         step[c] # "offer", p # "offer", Advance(c, p)
  PROVE  Cardinality(Offered)' = Cardinality(Offered)
<1>1. Offered' = Offered
  BY DEF Advance, Offered, CallersTyped
<1> QED
  BY <1>1

-----------------------------------------------------------------------------
(* What is kept in memory, and what a flush does with it.                    *)

Pending == Ids(queue) \cup Ids(batch)

LEMMA IdsAppend ==
  ASSUME NEW s \in Seq(Event), NEW e \in Event
  PROVE  Ids(Append(s, e)) = Ids(s) \cup {e.id}
  BY DEF Ids

LEMMA IdsTail ==
  ASSUME NEW s \in Seq(Event), s # <<>>
  PROVE  Ids(s) = {Head(s).id} \cup Ids(Tail(s))
<1>1. \A i \in 1..Len(s) : i = 1 \/ (i - 1 \in 1..Len(Tail(s)) /\ Tail(s)[i - 1] = s[i])
  OBVIOUS
<1>2. \A i \in 1..Len(Tail(s)) : i + 1 \in 1..Len(s) /\ Tail(s)[i] = s[i + 1]
  OBVIOUS
<1>3. Head(s) = s[1] /\ 1 \in 1..Len(s)
  OBVIOUS
<1> QED
  BY <1>1, <1>2, <1>3 DEF Ids

LEMMA IdsJoin ==
  ASSUME NEW s \in Seq(Event), NEW t \in Seq(Event)
  PROVE  Ids(s) \subseteq Ids(s \o t) /\ Ids(t) \subseteq Ids(s \o t)
<1>1. \A i \in 1..Len(s) : i \in 1..Len(s \o t) /\ (s \o t)[i] = s[i]
  OBVIOUS
<1>2. \A i \in 1..Len(t) : Len(s) + i \in 1..Len(s \o t) /\ (s \o t)[Len(s) + i] = t[i]
  OBVIOUS
<1> QED
  BY <1>1, <1>2 DEF Ids

LEMMA TakeKeeps ==
  ASSUME queue \in Seq(Event), batch \in Seq(Event), queue # <<>>, Take
  PROVE  /\ queue' \in Seq(Event) /\ Len(queue') = Len(queue) - 1
         /\ batch' \in Seq(Event) /\ Len(batch') = Len(batch) + 1
         /\ Pending' = Pending
<1>1. Head(queue) \in Event
  OBVIOUS
<1>2. /\ queue' \in Seq(Event) /\ Len(queue') = Len(queue) - 1
      /\ batch' \in Seq(Event) /\ Len(batch') = Len(batch) + 1
  BY <1>1 DEF Take
<1>3. Ids(batch)' = Ids(batch) \cup {Head(queue).id}
  BY <1>1, IdsAppend DEF Take, Ids
<1>4. Ids(queue) = Ids(queue)' \cup {Head(queue).id}
  BY IdsTail DEF Take, Ids
<1> QED
  BY <1>2, <1>3, <1>4 DEF Pending

LEMMA FlushSettles ==
  ASSUME StoresTyped, NEW b \in Seq(Event), FlushBatch(b)
  PROVE  Stored \cup lost \cup Ids(b) \subseteq (Stored \cup lost)'
<1>1. /\ Ids(db) \subseteq Ids(db \o b) /\ Ids(b) \subseteq Ids(db \o b)
      /\ Ids(file) \subseteq Ids(file \o b) /\ Ids(b) \subseteq Ids(file \o b)
  BY IdsJoin DEF StoresTyped
<1>2. Ids(db) \subseteq Ids(db)'
  <2>1. db' \in {db, db \o b}
    BY DEF FlushBatch, Insert, FallBack, Lose
  <2> QED
    BY <1>1, <2>1 DEF Ids
<1>3. CASE Insert(b)
  BY <1>1, <1>3 DEF Insert, Stored, Ids
<1>4. CASE FallBack(b)
  BY <1>1, <1>2, <1>4 DEF FallBack, Stored, Ids
<1>5. CASE Lose(b)
  <2>1. PICK n \in 0..(Len(b) - 1) : file' = file \o SubSeq(b, 1, n)
    BY <1>5 DEF Lose
  <2>2. SubSeq(b, 1, n) \in Seq(Event)
    OBVIOUS
  <2>3. Ids(file) \subseteq Ids(file \o SubSeq(b, 1, n))
    BY <2>2, IdsJoin DEF StoresTyped
  <2>4. Ids(file) \subseteq Ids(file)'
    BY <2>1, <2>3 DEF Ids
  <2> QED
    BY <1>2, <1>5, <2>4 DEF Lose, Stored
<1> QED
  BY <1>3, <1>4, <1>5 DEF FlushBatch

LEMMA NoFlushKeeps ==
  ASSUME NoFlush
  PROVE  /\ StoresTyped => StoresTyped'
         /\ (Stored \cup lost)' = Stored \cup lost
  BY DEF NoFlush, StoresTyped, Stored, Ids

-----------------------------------------------------------------------------
(* The inductive invariant: the types, the accounting, and, for Stop, that   *)
(* an accepted event is always in memory, in a store or lost.                *)

Tracked ==
  \A i \in 1..Len(accepted) : accepted[i] \in Pending \cup Stored \cup lost

AuditInv ==
  /\ AuditTypeOK /\ Accounting /\ Tracked /\ StopLosesNothing
  /\ beforeStop <= Len(accepted)

LEMMA AuditInitInv == AuditInit => AuditInv
<1> SUFFICES ASSUME AuditInit PROVE AuditInv
  OBVIOUS
<1>1. AuditTypeOK
  <2>1. CallersTyped
    BY EmptyTyped DEF AuditInit, CallersTyped
  <2>2. MemoryTyped
    BY EmptyTyped, AuditConstants DEF AuditInit, MemoryTyped
  <2>3. ControlTyped /\ StoresTyped
    BY EmptyTyped DEF AuditInit, ControlTyped, StoresTyped
  <2> QED
    BY <2>1, <2>2, <2>3, EmptyTyped DEF AuditInit, AuditTypeOK
<1>2. Offered = {}
  BY DEF AuditInit, Offered
<1>3. Accounting
  BY <1>2, FS_EmptySet DEF AuditInit, Accounting
<1>4. Tracked /\ StopLosesNothing /\ beforeStop <= Len(accepted)
  BY DEF AuditInit, Tracked, StopLosesNothing
<1> QED
  BY <1>1, <1>3, <1>4 DEF AuditInv

(* The steps of Log. *)
LEMMA LogTyped ==
  ASSUME AuditTypeOK, NEW c \in Callers, Log(c)
  PROVE  AuditTypeOK'
<1> USE DEF AuditTypeOK
<1>1. CASE \E k \in Keys, x \in Contents : Begin(c, k, x)
  <2>1. PICK k \in Keys, x \in Contents : Begin(c, k, x)
    BY <1>1
  <2>2. [id |-> clock, key |-> k, content |-> x, hash |-> NoHash] \in Event
    BY EventBuilt, EmptyTyped DEF CallersTyped
  <2>3. CallersTyped'
    BY <2>1, <2>2 DEF Begin, Advance, CallersTyped
  <2> QED
    BY <2>1, <2>3 DEF Begin, MemoryTyped, ControlTyped, StoresTyped
<1>2. CASE ReadHead(c)
  <2>1. event[c] \in Event
    BY <1>2 DEF ReadHead, CallersTyped
  <2>2. Extend(heads[event[c].key], event[c].content) \in Seq(Contents)
    BY <2>1, EventFields DEF CallersTyped, Extend
  <2>3. event'[c] \in Event
    BY <1>2, <2>1, <2>2, EventRehashed DEF ReadHead, CallersTyped
  <2>4. CallersTyped'
    BY <1>2, <2>3 DEF ReadHead, Advance, CallersTyped
  <2> QED
    BY <1>2, <2>4 DEF ReadHead, MemoryTyped, ControlTyped, StoresTyped
<1>3. CASE StoreHead(c)
  <2>1. event[c].hash \in Seq(Contents)
    BY <1>3, EventFields DEF StoreHead, CallersTyped
  <2>2. CallersTyped'
    BY <1>3, <2>1 DEF StoreHead, Advance, CallersTyped
  <2> QED
    BY <1>3, <2>2 DEF StoreHead, MemoryTyped, ControlTyped, StoresTyped
<1>4. CASE Count(c)
  BY <1>4 DEF Count, Advance, CallersTyped, MemoryTyped, ControlTyped, StoresTyped
<1>5. CASE Enqueue(c)
  <2>1. event[c] \in Event /\ event[c].id \in Nat
    BY <1>5, EventFields DEF Enqueue, CallersTyped
  <2>2. CallersTyped'
    BY <1>5 DEF Enqueue, Return, CallersTyped
  <2>3. MemoryTyped'
    BY <1>5, <2>1, AuditConstants DEF Enqueue, MemoryTyped
  <2> QED
    BY <1>5, <2>1, <2>2, <2>3 DEF Enqueue, ControlTyped, StoresTyped
<1>6. CASE DropFull(c)
  BY <1>6 DEF DropFull, Return, CallersTyped, MemoryTyped, ControlTyped, StoresTyped
<1> QED
  BY <1>1, <1>2, <1>3, <1>4, <1>5, <1>6 DEF Log

(* The steps of run(), Start, Stop and Crash. *)
LEMMA ManagerTyped ==
  ASSUME AuditTypeOK, FlusherStep \/ Start \/ Stop \/ StopStep \/ Crash
  PROVE  AuditTypeOK'
<1> USE DEF AuditTypeOK
<1>1. CASE Receive \/ DrainOne
  <2>1. MemoryTyped'
    BY <1>1, TakeKeeps, AuditConstants DEF Receive, DrainOne, MemoryTyped
  <2>2. StoresTyped'
    BY <1>1, NoFlushKeeps DEF Receive, DrainOne
  <2> QED
    BY <1>1, <2>1, <2>2 DEF Receive, DrainOne, CallersTyped, ControlTyped
<1>2. CASE Flush \/ DrainFlush \/ Exit
  <2>1. StoresTyped'
    BY <1>2, FlushTyped, NoFlushKeeps DEF Flush, DrainFlush, Exit, MemoryTyped
  <2>2. MemoryTyped'
    <3>1. batch' = <<>> /\ queue' = queue
      BY <1>2 DEF Flush, DrainFlush, Exit
    <3> QED
      BY <3>1, AuditConstants, EmptyTyped DEF MemoryTyped
  <2>3. ControlTyped'
    BY <1>2 DEF Flush, DrainFlush, Exit, ControlTyped
  <2> QED
    BY <1>2, <2>1, <2>2, <2>3 DEF Flush, DrainFlush, Exit, CallersTyped
<1>3. CASE Start \/ Stop \/ DrainBreak \/ StopReturns
  <2>1. ControlTyped'
    BY <1>3 DEF Start, Stop, DrainBreak, StopReturns, Drained, ControlTyped
  <2> QED
    BY <1>3, <2>1 DEF Start, Stop, DrainBreak, StopReturns, CallersTyped, MemoryTyped,
                      StoresTyped
<1>4. CASE Crash
  <2>1. Ids(queue) \cup Ids(batch) \subseteq Nat
    BY EventFields DEF MemoryTyped, Ids
  <2>2. StoresTyped'
    BY <1>4, <2>1 DEF Crash, StoresTyped
  <2> QED
    BY <1>4, <2>2, AuditConstants, EmptyTyped DEF Crash, CallersTyped, MemoryTyped, ControlTyped
<1> QED
  BY <1>1, <1>2, <1>3, <1>4 DEF FlusherStep, StopStep

LEMMA StepTyped == AuditTypeOK /\ [AuditNext]_auditVars => AuditTypeOK'
<1> SUFFICES ASSUME AuditTypeOK, [AuditNext]_auditVars PROVE AuditTypeOK'
  OBVIOUS
<1>1. CASE UNCHANGED auditVars
  BY <1>1 DEF auditVars, AuditTypeOK, CallersTyped, MemoryTyped, ControlTyped, StoresTyped
<1>2. CASE AuditNext
  BY <1>2, LogTyped, ManagerTyped DEF AuditNext
<1> QED
  BY <1>1, <1>2

Counted ==
  /\ queue \in Seq(Event) /\ batch \in Seq(Event)
  /\ Len(queue) \in Nat /\ Len(batch) \in Nat /\ Cardinality(Offered) \in Nat
  /\ totalEvents \in Nat
  /\ flushedEvents \in Nat /\ fallbackEvents \in Nat /\ droppedEvents \in Nat

LEMMA TypedIsCounted == AuditTypeOK => Counted
<1> SUFFICES ASSUME AuditTypeOK PROVE Counted
  OBVIOUS
<1>1. Cardinality(Offered) \in Nat
  BY AuditConstants, FS_Subset, FS_CardinalityType DEF Offered
<1>2. queue \in Seq(Event) /\ batch \in Seq(Event)
  BY DEF AuditTypeOK, MemoryTyped
<1> QED
  BY <1>1, <1>2 DEF AuditTypeOK, StoresTyped, Counted

Balanced == totalEvents = Cardinality(Offered) + (Len(queue) + Len(batch)) + Settled

LEMMA BalancedIsAccounting == Counted => (Balanced <=> Accounting)
  BY DEF Counted, Balanced, Accounting, Settled

LEMMA StepAccounts ==
  ASSUME AuditTypeOK, Accounting, [AuditNext]_auditVars
  PROVE  Accounting'
<1> DEFINE n == Cardinality(Offered)
           m == Len(queue) + Len(batch)
<1>1. /\ totalEvents = n + m + Settled
      /\ n \in Nat /\ m \in Nat /\ Settled \in Nat
      /\ Len(queue) \in Nat /\ Len(batch) \in Nat
      /\ queue \in Seq(Event) /\ batch \in Seq(Event)
  BY TypedIsCounted DEF Accounting, Settled, Counted
<1>2. AuditTypeOK'
  BY StepTyped
<1>3. Counted'
  BY <1>2, TypedIsCounted, PTL
<1>4. Counted
  BY TypedIsCounted
<1>5. SUFFICES totalEvents' = n' + m' + Settled'
  <2>1. Balanced'
    BY <1>5 DEF Balanced
  <2> QED
    BY <1>3, <2>1, BalancedIsAccounting, PTL
<1>6. CallersTyped /\ StoresTyped
  BY DEF AuditTypeOK
<1>7. ASSUME UNCHANGED <<queue, batch>>
      PROVE  m' = m
  BY <1>7
<1>8. ASSUME UNCHANGED step
      PROVE  n' = n
  BY <1>8 DEF Offered
<1>9. CASE UNCHANGED auditVars
  BY <1>1, <1>9 DEF auditVars, Settled, Offered
<1>10. ASSUME NEW c \in Callers, Log(c)
       PROVE  totalEvents' = n' + m' + Settled'
  <2>1. CASE (\E k \in Keys, x \in Contents : Begin(c, k, x)) \/ ReadHead(c) \/ StoreHead(c)
    <3>1. \E p \in {"read", "store", "count"} : step[c] # "offer" /\ Advance(c, p)
      BY <2>1 DEF Begin, ReadHead, StoreHead
    <3>2. n' = n
      BY <1>6, <3>1, OfferKept
    <3> QED
      BY <1>1, <2>1, <3>2 DEF Begin, ReadHead, StoreHead, Settled
  <2>2. CASE Count(c)
    <3>1. n' = n + 1
      BY <1>6, <2>2, OfferGrows DEF Count
    <3> QED
      BY <1>1, <2>2, <3>1 DEF Count, Settled
  <2>3. CASE Enqueue(c)
    <3>1. n' = n - 1
      BY <1>6, <2>3, OfferShrinks DEF Enqueue
    <3>2. event[c] \in Event
      BY <1>6, <2>3 DEF Enqueue, CallersTyped
    <3>3. m' = m + 1
      BY <2>3, <3>2 DEF Enqueue
    <3> QED
      BY <1>1, <2>3, <3>1, <3>3 DEF Enqueue, Settled
  <2>4. CASE DropFull(c)
    <3>1. n' = n - 1
      BY <1>6, <2>4, OfferShrinks DEF DropFull
    <3> QED
      BY <1>1, <1>4, <2>4, <3>1 DEF DropFull, Settled, Counted
  <2> QED
    BY <1>10, <2>1, <2>2, <2>3, <2>4 DEF Log
<1>11. CASE Receive \/ DrainOne
  <2>1. m' = m
    <3>1. Take /\ queue # <<>>
      BY <1>11 DEF Receive, DrainOne
    <3>2. Len(queue)' = Len(queue) - 1 /\ Len(batch)' = Len(batch) + 1
      BY <1>1, <3>1, TakeKeeps
    <3> QED
      BY <1>1, <3>2
  <2>2. Settled' = Settled
    BY <1>11, NoFlushCounts DEF Receive, DrainOne
  <2> QED
    BY <1>1, <1>8, <1>11, <2>1, <2>2 DEF Receive, DrainOne
<1>12. CASE Flush \/ DrainFlush \/ (Exit /\ batch # <<>>)
  <2>1. FlushBatch(batch) /\ batch' = <<>> /\ UNCHANGED <<queue, step, totalEvents>>
    BY <1>12 DEF Flush, DrainFlush, Exit
  <2>2. Settled' = Settled + Len(batch)
    BY <1>1, <1>6, <2>1, FlushCounts
  <2>3. m' = m - Len(batch)
    BY <1>1, <2>1, EmptyTyped
  <2> QED
    BY <1>1, <1>8, <2>1, <2>2, <2>3
<1>13. CASE Exit /\ batch = <<>>
  <2>1. UNCHANGED <<queue, batch, step, totalEvents>> /\ NoFlush
    BY <1>13 DEF Exit
  <2> QED
    BY <1>1, <1>7, <1>8, <2>1, NoFlushCounts
<1>14. CASE Start \/ Stop \/ DrainBreak \/ StopReturns
  BY <1>1, <1>8, <1>14 DEF Start, Stop, DrainBreak, StopReturns, Settled
<1>15. CASE Crash
  <2>1. Offered' = {}
    BY <1>15 DEF Crash, Offered
  <2> QED
    BY <1>15, <2>1, FS_EmptySet, EmptyTyped DEF Crash, Settled
<1> QED
  BY <1>9, <1>10, <1>11, <1>12, <1>13, <1>14, <1>15 DEF AuditNext, FlusherStep, StopStep

(* Every step keeps an accepted event in sight, and what is settled stays so. *)
Safe == Stored \cup lost

LEMMA StepKeepsInSight ==
  ASSUME AuditTypeOK, [AuditNext]_auditVars
  PROVE  /\ Safe \subseteq Safe'
         /\ \/ UNCHANGED accepted /\ Pending \cup Safe \subseteq (Pending \cup Safe)'
            \/ /\ UNCHANGED <<phase, beforeStop>>
               /\ \E id \in Nat : /\ accepted' = Append(accepted, id)
                                  /\ id \in Pending'
                                  /\ Pending \cup Safe \subseteq (Pending \cup Safe)'
<1> DEFINE Goal == \/ UNCHANGED accepted /\ Pending \cup Safe \subseteq (Pending \cup Safe)'
                   \/ /\ UNCHANGED <<phase, beforeStop>>
                      /\ \E id \in Nat : /\ accepted' = Append(accepted, id)
                                         /\ id \in Pending'
                                         /\ Pending \cup Safe \subseteq (Pending \cup Safe)'
<1>1. /\ queue \in Seq(Event) /\ batch \in Seq(Event) /\ StoresTyped /\ CallersTyped
  BY DEF AuditTypeOK, MemoryTyped
<1>2. ASSUME UNCHANGED <<queue, batch, db, file, lost, accepted>>
      PROVE  Safe \subseteq Safe' /\ Goal
  BY <1>2 DEF Safe, Stored, Pending, Ids
<1>3. CASE UNCHANGED auditVars
  BY <1>2, <1>3 DEF auditVars
<1>4. ASSUME NEW c \in Callers, Log(c)
      PROVE  Safe \subseteq Safe' /\ Goal
  <2>1. CASE Enqueue(c)
    <3>1. event[c] \in Event /\ event[c].id \in Nat
      BY <1>1, <2>1, EventFields DEF Enqueue, CallersTyped
    <3>2. Ids(queue)' = Ids(queue) \cup {event[c].id}
      BY <1>1, <2>1, <3>1, IdsAppend DEF Enqueue, Ids
    <3>3. UNCHANGED <<Safe, Ids(batch)>>
      BY <2>1 DEF Enqueue, Safe, Stored, Ids
    <3>4. accepted' = Append(accepted, event[c].id) /\ UNCHANGED <<phase, beforeStop>>
      BY <2>1 DEF Enqueue
    <3> QED
      BY <3>1, <3>2, <3>3, <3>4 DEF Pending
  <2>2. CASE ~Enqueue(c)
    BY <1>2, <1>4, <2>2 DEF Log, Begin, ReadHead, StoreHead, Count, DropFull
  <2> QED
    BY <2>1, <2>2
<1>5. CASE Receive \/ DrainOne
  <2>1. Take /\ queue # <<>> /\ NoFlush /\ UNCHANGED accepted
    BY <1>5 DEF Receive, DrainOne
  <2> QED
    BY <1>1, <2>1, TakeKeeps, NoFlushKeeps DEF Safe
<1>6. CASE Flush \/ DrainFlush \/ (Exit /\ batch # <<>>)
  <2>1. FlushBatch(batch) /\ UNCHANGED <<queue, accepted>>
    BY <1>6 DEF Flush, DrainFlush, Exit
  <2>2. Safe \cup Ids(batch) \subseteq Safe'
    BY <1>1, <2>1, FlushSettles DEF Safe
  <2>3. Ids(queue)' = Ids(queue)
    BY <2>1 DEF Ids
  <2> QED
    BY <2>1, <2>2, <2>3 DEF Pending
<1>7. CASE Exit /\ batch = <<>>
  BY <1>2, <1>7 DEF Exit, NoFlush
<1>8. CASE Start \/ Stop \/ DrainBreak \/ StopReturns
  BY <1>2, <1>8 DEF Start, Stop, DrainBreak, StopReturns
<1>9. CASE Crash
  <2>1. Safe' = Safe \cup Pending
    BY <1>9 DEF Crash, Safe, Stored, Pending, Ids
  <2> QED
    BY <1>9, <2>1 DEF Crash
<1> QED
  BY <1>3, <1>4, <1>5, <1>6, <1>7, <1>8, <1>9 DEF AuditNext, FlusherStep, StopStep

(* Stop returns with an empty queue and an empty batch, so that all of what   *)
(* was accepted is settled; from then on, until the next Stop, it stays so.   *)
LEMMA StepStops ==
  ASSUME AuditInv, [AuditNext]_auditVars
  PROVE  Tracked' /\ StopLosesNothing' /\ (beforeStop <= Len(accepted))'
<1>1. AuditTypeOK /\ Tracked /\ StopLosesNothing /\ beforeStop <= Len(accepted)
  BY DEF AuditInv
<1>2. accepted \in Seq(Nat) /\ beforeStop \in Nat
  BY <1>1 DEF AuditTypeOK, ControlTyped
<1>3. Safe \subseteq Safe'
  BY <1>1, StepKeepsInSight
<1>4. CASE UNCHANGED <<phase, beforeStop>> /\
           \E id \in Nat : /\ accepted' = Append(accepted, id) /\ id \in Pending'
                           /\ Pending \cup Safe \subseteq (Pending \cup Safe)'
  <2>1. PICK id \in Nat : /\ accepted' = Append(accepted, id) /\ id \in Pending'
                          /\ Pending \cup Safe \subseteq (Pending \cup Safe)'
    BY <1>4
  <2>2. /\ Len(accepted') = Len(accepted) + 1
        /\ accepted'[Len(accepted) + 1] = id
        /\ \A i \in 1..Len(accepted) : accepted'[i] = accepted[i]
    BY <1>2, <2>1
  <2>3. \A i \in 1..Len(accepted') : i \in 1..Len(accepted) \/ i = Len(accepted) + 1
    BY <1>2, <2>2
  <2>4. Tracked'
    BY <1>1, <2>1, <2>2, <2>3 DEF Tracked, Safe
  <2>5. \A i \in 1..beforeStop : i \in 1..Len(accepted)
    BY <1>1, <1>2
  <2>6. StopLosesNothing'
    BY <1>1, <1>3, <1>4, <2>2, <2>5 DEF StopLosesNothing, Safe
  <2> QED
    BY <1>1, <1>2, <1>4, <2>2, <2>4, <2>6
<1>5. CASE UNCHANGED accepted /\ Pending \cup Safe \subseteq (Pending \cup Safe)'
  <2>1. Tracked'
    BY <1>1, <1>5 DEF Tracked, Safe
  <2>2. CASE UNCHANGED <<phase, beforeStop>>
    BY <1>1, <1>3, <1>5, <2>1, <2>2 DEF StopLosesNothing, Safe
  <2>3. CASE Start
    BY <1>1, <1>5, <2>1, <2>3 DEF Start, StopLosesNothing
  <2>4. CASE Stop
    BY <1>2, <1>5, <2>1, <2>4 DEF Stop, StopLosesNothing
  <2>5. CASE StopReturns
    <3>1. Pending' = {} /\ UNCHANGED beforeStop
      BY <2>5, EmptyTyped DEF StopReturns, Drained, Pending, Ids
    <3>2. \A i \in 1..beforeStop : i \in 1..Len(accepted)
      BY <1>1, <1>2
    <3> QED
      BY <1>1, <1>5, <2>1, <3>1, <3>2 DEF Tracked, StopLosesNothing
  <2>6. CASE Crash
    BY <1>2, <1>5, <2>1, <2>6 DEF Crash, StopLosesNothing
  <2> QED
    BY <2>2, <2>3, <2>4, <2>5, <2>6
       DEF AuditNext, FlusherStep, StopStep, Log, Begin, ReadHead, StoreHead, Count,
           Enqueue, DropFull, Receive, Flush, Exit, DrainOne, DrainBreak, DrainFlush,
           auditVars
<1> QED
  BY <1>1, <1>4, <1>5, StepKeepsInSight

LEMMA AuditInvHolds == AuditSpec => []AuditInv
<1>1. AuditInv /\ [AuditNext]_auditVars => AuditInv'
  <2> SUFFICES ASSUME AuditInv, [AuditNext]_auditVars PROVE AuditInv'
    OBVIOUS
  <2>1. AuditTypeOK'
    BY StepTyped DEF AuditInv
  <2>2. Accounting'
    BY StepAccounts DEF AuditInv
  <2> QED
    BY <2>1, <2>2, StepStops DEF AuditInv
<1> QED
  BY <1>1, AuditInitInv, PTL DEF AuditSpec

-----------------------------------------------------------------------------
(* The order.  Events enter the queue in the order of accepted and leave it,  *)
(* by the batch, in the same order: what is in memory is the end of accepted, *)
(* and the stores hold some of what is before it.                             *)

Passed == Len(accepted) - (Len(batch) + Len(queue))

Distinct(a) == \A p, q \in 1..Len(a) : a[p] = a[q] => p = q

(* b continues a after its first n elements.                                  *)
Segment(b, a, n) == \A i \in 1..Len(b) : b[i].id = a[n + i]

(* The ids of s are among the first n of a, in the order of a.                *)
Along(s, a, n) ==
  /\ \A i \in 1..Len(s) : \E p \in 1..n : s[i].id = a[p]
  /\ \A i, j \in 1..Len(s) : \A p, q \in 1..Len(a) :
       i < j /\ s[i].id = a[p] /\ s[j].id = a[q] => p < q

(* Every event has its own id, whether a caller still builds it or not.       *)
Unique ==
  /\ clock \in 1..(MaxEvents + 1)
  /\ \A c \in Callers : step[c] # "idle" => event[c].id \in 1..(clock - 1)
  /\ \A c, d \in Callers :
       step[c] # "idle" /\ step[d] # "idle" /\ event[c].id = event[d].id => c = d
  /\ \A p \in 1..Len(accepted) : accepted[p] \in 1..(clock - 1)
  /\ \A c \in Callers : \A p \in 1..Len(accepted) :
       step[c] # "idle" => event[c].id # accepted[p]
  /\ Distinct(accepted)

InMemory ==
  /\ Passed \in Nat
  /\ Segment(batch, accepted, Passed)
  /\ Segment(queue, accepted, Passed + Len(batch))

LostAlong == \A x \in lost : \E p \in 1..Passed : x = accepted[p]

Recorded == Along(db, accepted, Passed) /\ Along(file, accepted, Passed) /\ LostAlong

OrderInv == Unique /\ InMemory /\ Recorded

LEMMA AlongLater ==
  ASSUME NEW s \in Seq(Event), NEW a \in Seq(Nat), NEW n \in Nat, NEW m \in Nat,
         Along(s, a, n), n <= m
  PROVE  Along(s, a, m)
<1>1. \A p \in 1..n : p \in 1..m
  OBVIOUS
<1> QED
  BY <1>1 DEF Along

LEMMA AlongGrows ==
  ASSUME NEW s \in Seq(Event), NEW a \in Seq(Nat), NEW n \in Nat, NEW x \in Nat,
         n <= Len(a), Along(s, a, n), \A p \in 1..Len(a) : a[p] # x
  PROVE  Along(s, Append(a, x), n)
<1> DEFINE b == Append(a, x)
<1>1. /\ Len(b) = Len(a) + 1 /\ b[Len(a) + 1] = x
      /\ \A p \in 1..Len(a) : b[p] = a[p]
  OBVIOUS
<1> HIDE DEF b
<1>2. \A i \in 1..Len(s) : \E p \in 1..n : s[i].id = a[p] /\ p \in 1..Len(a)
  BY DEF Along
<1>3. \A i \in 1..Len(s) : \E p \in 1..n : s[i].id = b[p]
  BY <1>1, <1>2
<1>4. \A i \in 1..Len(s) : s[i].id # x
  BY <1>2
<1>5. ASSUME NEW i \in 1..Len(s), NEW j \in 1..Len(s), NEW p \in 1..Len(b), NEW q \in 1..Len(b),
             i < j, s[i].id = b[p], s[j].id = b[q]
      PROVE  p < q
  <2>1. p # Len(a) + 1 /\ q # Len(a) + 1
    BY <1>1, <1>4, <1>5
  <2>2. p \in 1..Len(a) /\ q \in 1..Len(a)
    BY <1>1, <2>1
  <2>3. s[i].id = a[p] /\ s[j].id = a[q]
    BY <1>1, <1>5, <2>2
  <2> QED
    BY <1>5, <2>2, <2>3 DEF Along
<1>6. Along(s, b, n)
  BY <1>3, <1>5 DEF Along
<1> QED
  BY <1>6 DEF b

LEMMA InsideSum ==
  ASSUME NEW n \in Nat, NEW l \in Nat, NEW m \in Nat, n + l <= m, NEW x \in 1..l
  PROVE  n + x \in 1..m /\ n + x > n
  OBVIOUS

LEMMA AlongJoins ==
  ASSUME NEW s \in Seq(Event), NEW b \in Seq(Event), NEW a \in Seq(Nat), NEW n \in Nat,
         Distinct(a), Along(s, a, n), Segment(b, a, n), n + Len(b) <= Len(a)
  PROVE  Along(s \o b, a, n + Len(b))
<1> DEFINE t == s \o b
<1>1. /\ Len(t) = Len(s) + Len(b) /\ Len(t) \in Nat
      /\ \A i \in 1..Len(s) : t[i] = s[i]
      /\ \A i \in 1..Len(b) : t[Len(s) + i] = b[i]
  OBVIOUS
<1> HIDE DEF t
<1>0. Len(a) \in Nat /\ Len(b) \in Nat /\ Len(s) \in Nat /\ n <= Len(a) /\ n + Len(b) <= Len(a)
  OBVIOUS
<1>2. \A i \in 1..Len(t) : i \in 1..Len(s) \/ (i - Len(s) \in 1..Len(b) /\ i = Len(s) + (i - Len(s)))
  BY <1>1
<1>3. \A i \in 1..Len(t) : i \notin 1..Len(s) => t[i].id = a[n + (i - Len(s))]
  BY <1>1, <1>2 DEF Segment
<1>4. ASSUME NEW i \in 1..Len(t)
      PROVE  \E p \in 1..(n + Len(b)) : t[i].id = a[p]
  <2>1. CASE i \in 1..Len(s)
    <3>1. PICK p \in 1..n : s[i].id = a[p]
      BY <2>1 DEF Along
    <3>2. t[i].id = a[p]
      BY <1>1, <2>1, <3>1
    <3>3. p \in 1..(n + Len(b))
      BY <1>0
    <3> QED
      BY <3>2, <3>3
  <2>2. CASE i \notin 1..Len(s)
    <3>1. n + (i - Len(s)) \in 1..(n + Len(b))
      BY <1>2, <2>2
    <3> QED
      BY <1>3, <2>2, <3>1
  <2> QED
    BY <2>1, <2>2
<1>5. ASSUME NEW i \in 1..Len(t), NEW j \in 1..Len(t), NEW p \in 1..Len(a), NEW q \in 1..Len(a),
             i < j, t[i].id = a[p], t[j].id = a[q]
      PROVE  p < q
  <2>1. CASE i \in 1..Len(s) /\ j \in 1..Len(s)
    BY <1>1, <1>5, <2>1 DEF Along
  <2>2. ASSUME NEW k \in 1..Len(t), k \notin 1..Len(s), NEW r \in 1..Len(a), t[k].id = a[r]
        PROVE  r = n + (k - Len(s)) /\ r > n
    <3>1. k - Len(s) \in 1..Len(b)
      BY <1>2, <2>2
    <3>2. PICK x \in 1..Len(b) : x = k - Len(s)
      BY <3>1
    <3>4. n + x \in 1..Len(a) /\ n + x > n
      BY <1>0, InsideSum
    <3>3. a[r] = a[n + x]
      BY <1>3, <2>2, <3>2
    <3>5. r = n + x
      BY <3>3, <3>4 DEF Distinct
    <3> QED
      BY <3>2, <3>4, <3>5
  <2>3. CASE i \in 1..Len(s) /\ j \notin 1..Len(s)
    <3>1. PICK r \in 1..n : s[i].id = a[r]
      BY <2>3 DEF Along
    <3>2. r \in 1..Len(a)
      BY <1>0
    <3>5. a[r] = a[p]
      BY <1>1, <1>5, <2>3, <3>1
    <3>3. p = r
      BY <3>2, <3>5 DEF Distinct
    <3>4. q > n
      BY <1>5, <2>2, <2>3
    <3> QED
      BY <3>1, <3>3, <3>4
  <2>4. CASE i \notin 1..Len(s)
    <3>1. j \notin 1..Len(s)
      BY <1>5, <2>4
    <3>2. p = n + (i - Len(s)) /\ q = n + (j - Len(s))
      BY <1>5, <2>2, <2>4, <3>1
    <3> QED
      BY <1>5, <3>2
  <2> QED
    BY <2>1, <2>3, <2>4
<1>6. Along(t, a, n + Len(b))
  BY <1>4, <1>5 DEF Along
<1> QED
  BY <1>6 DEF t

(* What a flush may do to a store: nothing, or add a first part of the batch. *)
LEMMA StoreAlong ==
  ASSUME NEW s \in Seq(Event), NEW t, NEW b \in Seq(Event), NEW a \in Seq(Nat), NEW n \in Nat,
         Distinct(a), Along(s, a, n), Segment(b, a, n), n + Len(b) <= Len(a),
         t \in {s, s \o b} \/ \E m \in 0..(Len(b) - 1) : t = s \o SubSeq(b, 1, m)
  PROVE  Along(t, a, n + Len(b))
<1>1. CASE t = s
  BY <1>1, AlongLater
<1>2. CASE t = s \o b
  BY <1>2, AlongJoins
<1>3. ASSUME NEW m \in 0..(Len(b) - 1), t = s \o SubSeq(b, 1, m)
      PROVE  Along(t, a, n + Len(b))
  <2> DEFINE f == SubSeq(b, 1, m)
  <2>1. f \in Seq(Event) /\ Len(f) = m /\ \A i \in 1..m : f[i] = b[i]
    OBVIOUS
  <2> HIDE DEF f
  <2>0. Len(a) \in Nat /\ Len(b) \in Nat /\ m \in Nat /\ m < Len(b) /\ n + Len(b) <= Len(a)
    OBVIOUS
  <2>2. n + m \in Nat /\ n + Len(b) \in Nat /\ n + m <= n + Len(b) /\ n + Len(f) <= Len(a)
    BY <2>0, <2>1
  <2>6. \A i \in 1..m : i \in 1..Len(b)
    BY <2>0
  <2>7. \A i \in 1..m : b[i].id = a[n + i]
    BY <2>6 DEF Segment
  <2>5. Segment(f, a, n)
    BY <2>1, <2>7 DEF Segment
  <2>3. Along(s \o f, a, n + Len(f)) /\ s \o f \in Seq(Event)
    BY <2>1, <2>2, <2>5, AlongJoins, EventsJoin
  <2>4. Along(s \o f, a, n + Len(b))
    BY <2>1, <2>2, <2>3, AlongLater
  <2> QED
    BY <1>3, <2>4 DEF f
<1> QED
  BY <1>1, <1>2, <1>3

-----------------------------------------------------------------------------
(* The ids stay apart.                                                       *)

LEMMA UniqueKept ==
  ASSUME Unique, UNCHANGED <<clock, accepted>>,
         \A d \in Callers : step'[d] # "idle" => step[d] # "idle" /\ event'[d].id = event[d].id
  PROVE  Unique'
  BY DEF Unique, Distinct

LEMMA BeginUnique ==
  ASSUME Unique, CallersTyped, NEW c \in Callers, NEW k \in Keys, NEW x \in Contents,
         Begin(c, k, x)
  PROVE  Unique'
<1>1. /\ clock \in Nat /\ clock \in 1..MaxEvents /\ clock' = clock + 1 /\ clock \in 1..(clock' - 1)
      /\ clock' \in 1..(MaxEvents + 1)
  BY AuditConstants DEF Begin, Unique, CallersTyped
<1>2. \A i \in 1..(clock - 1) : i # clock /\ i \in 1..(clock' - 1)
  BY <1>1
<1>3. event'[c].id = clock /\ UNCHANGED accepted
  BY DEF Begin, CallersTyped
<1>4. \A d \in Callers : d # c => step'[d] = step[d] /\ event'[d] = event[d]
  BY DEF Begin, Advance, CallersTyped
<1>5. \A d \in Callers : step'[d] # "idle" => event'[d].id \in 1..(clock' - 1)
  BY <1>1, <1>2, <1>3, <1>4 DEF Unique
<1>6. \A d, e \in Callers :
        step'[d] # "idle" /\ step'[e] # "idle" /\ event'[d].id = event'[e].id => d = e
  BY <1>2, <1>3, <1>4 DEF Unique
<1>7. \A d \in Callers : \A p \in 1..Len(accepted) :
        step'[d] # "idle" => event'[d].id # accepted[p]
  BY <1>2, <1>3, <1>4 DEF Unique
<1>8. \A p \in 1..Len(accepted) : accepted[p] \in 1..(clock' - 1)
  BY <1>2 DEF Unique
<1> QED
  BY <1>1, <1>3, <1>5, <1>6, <1>7, <1>8 DEF Unique, Distinct

LEMMA EnqueueUnique ==
  ASSUME Unique, CallersTyped, accepted \in Seq(Nat), NEW c \in Callers, Enqueue(c)
  PROVE  Unique'
<1> DEFINE x == event[c].id
<1>1. step[c] # "idle" /\ UNCHANGED clock /\ x \in Nat
  BY EventFields DEF Enqueue, CallersTyped
<1>2. step'[c] = "idle" /\ \A d \in Callers : d # c => step'[d] = step[d] /\ event'[d] = event[d]
  BY DEF Enqueue, Return, CallersTyped
<1>3. /\ Len(accepted') = Len(accepted) + 1 /\ accepted'[Len(accepted) + 1] = x
      /\ \A p \in 1..Len(accepted) : accepted'[p] = accepted[p]
      /\ Len(accepted) \in Nat
  BY <1>1 DEF Enqueue
<1>4. \A p \in 1..Len(accepted') : p \in 1..Len(accepted) \/ p = Len(accepted) + 1
  BY <1>3
<1>5. \A p \in 1..Len(accepted) : accepted[p] # x
  BY <1>1 DEF Unique
<1>6. \A d \in Callers : d # c /\ step[d] # "idle" => event[d].id # x
  BY <1>1 DEF Unique
<1>7. x \in 1..(clock - 1)
  BY <1>1 DEF Unique
<1> HIDE DEF x
<1>8. \A p \in 1..Len(accepted') : accepted'[p] \in 1..(clock - 1)
  BY <1>3, <1>4, <1>7 DEF Unique
<1>9. \A d \in Callers : \A p \in 1..Len(accepted') :
        step'[d] # "idle" => event'[d].id # accepted'[p]
  BY <1>2, <1>3, <1>4, <1>6 DEF Unique
<1>10. \A p, q \in 1..Len(accepted') : accepted'[p] = accepted'[q] => p = q
  BY <1>3, <1>4, <1>5 DEF Unique, Distinct
<1>11. \A d \in Callers : step'[d] # "idle" => event'[d].id \in 1..(clock - 1)
  BY <1>2 DEF Unique
<1>12. \A d, e \in Callers :
        step'[d] # "idle" /\ step'[e] # "idle" /\ event'[d].id = event'[e].id => d = e
  BY <1>2 DEF Unique
<1>13. clock' = clock /\ clock \in 1..(MaxEvents + 1)
  BY <1>1 DEF Unique
<1>14. Distinct(accepted)'
  BY <1>10 DEF Distinct
<1> QED
  BY <1>8, <1>9, <1>11, <1>12, <1>13, <1>14 DEF Unique

LEMMA StepUnique ==
  ASSUME AuditTypeOK, Unique, [AuditNext]_auditVars
  PROVE  Unique'
<1>1. CallersTyped /\ accepted \in Seq(Nat)
  BY DEF AuditTypeOK
<1>2. ASSUME NEW c \in Callers, Log(c)
      PROVE  Unique'
  <2>1. CASE \E k \in Keys, x \in Contents : Begin(c, k, x)
    BY <1>1, <2>1, BeginUnique
  <2>2. CASE Enqueue(c)
    BY <1>1, <2>2, EnqueueUnique
  <2>3. CASE ReadHead(c)
    <3>1. event[c] \in Event
      BY <1>1, <2>3 DEF ReadHead, CallersTyped
    <3>2. \A d \in Callers : event'[d].id = event[d].id
      BY <1>1, <2>3, <3>1 DEF ReadHead, CallersTyped, Event
    <3>3. \A d \in Callers : step'[d] # "idle" => step[d] # "idle"
      BY <1>1, <2>3 DEF ReadHead, Advance, CallersTyped
    <3> QED
      BY <2>3, <3>2, <3>3, UniqueKept DEF ReadHead
  <2>4. CASE StoreHead(c) \/ Count(c) \/ DropFull(c)
    <3>1. \A d \in Callers :
            step'[d] # "idle" => step[d] # "idle" /\ event'[d].id = event[d].id
      BY <1>1, <2>4 DEF StoreHead, Count, DropFull, Advance, Return, CallersTyped
    <3>2. UNCHANGED <<clock, accepted>>
      BY <2>4 DEF StoreHead, Count, DropFull
    <3> QED
      BY <3>1, <3>2, UniqueKept
  <2> QED
    BY <1>2, <2>1, <2>2, <2>3, <2>4 DEF Log
<1>3. CASE Crash
  BY <1>3, UniqueKept DEF Crash
<1>4. CASE FlusherStep \/ Start \/ Stop \/ StopStep \/ UNCHANGED auditVars
  <2>1. UNCHANGED <<step, event, clock, accepted>>
    BY <1>4 DEF FlusherStep, StopStep, auditVars, Receive, Flush, Exit, Start, Stop,
                DrainOne, DrainBreak, DrainFlush, StopReturns
  <2> QED
    BY <2>1, UniqueKept
<1> QED
  BY <1>2, <1>3, <1>4 DEF AuditNext

-----------------------------------------------------------------------------
(* Memory is the end of what was accepted, and the stores are behind it.     *)

LEMMA IdsOf ==
  ASSUME NEW s \in Seq(Event), NEW x \in Ids(s)
  PROVE  \E i \in 1..Len(s) : x = s[i].id
  BY DEF Ids

Lengths ==
  /\ Len(accepted) \in Nat /\ Len(queue) \in Nat /\ Len(batch) \in Nat /\ Passed \in Nat
  /\ Len(accepted) = Passed + (Len(batch) + Len(queue))

LEMMA LengthsAdd ==
  ASSUME AuditTypeOK, InMemory
  PROVE  Lengths
<1>1. accepted \in Seq(Nat) /\ batch \in Seq(Event) /\ queue \in Seq(Event)
  BY DEF AuditTypeOK, MemoryTyped
<1>2. Len(accepted) \in Nat /\ Len(batch) \in Nat /\ Len(queue) \in Nat
  BY <1>1
<1> QED
  BY <1>2 DEF InMemory, Passed, Lengths

LEMMA MemoryKept ==
  ASSUME InMemory, Recorded, UNCHANGED <<queue, batch, db, file, lost, accepted>>
  PROVE  InMemory' /\ Recorded'
  BY DEF InMemory, Recorded, LostAlong, Passed, Segment, Along

LEMMA EnqueueOrder ==
  ASSUME AuditTypeOK, OrderInv, NEW c \in Callers, Enqueue(c)
  PROVE  InMemory' /\ Recorded'
<1> DEFINE x == event[c].id
           n == Passed
           l == Len(batch)
           m == Len(accepted)
           h == Len(queue)
<1>0. event[c] \in Event /\ x \in Nat /\ step[c] # "idle"
  BY EventFields DEF Enqueue, AuditTypeOK, CallersTyped
<1>1. /\ accepted \in Seq(Nat) /\ queue \in Seq(Event) /\ batch \in Seq(Event)
      /\ db \in Seq(Event) /\ file \in Seq(Event)
  BY DEF AuditTypeOK, MemoryTyped, StoresTyped
<1>2. n \in Nat /\ l \in Nat /\ m \in Nat /\ h \in Nat /\ m = n + (l + h)
  BY LengthsAdd DEF OrderInv, Lengths
<1>3. \A p \in 1..Len(accepted) : accepted[p] # x
  BY <1>0 DEF OrderInv, Unique
<1>4. accepted' = Append(accepted, x) /\ UNCHANGED <<batch, db, file, lost>>
  BY DEF Enqueue
<1>5. Len(accepted') = m + 1 /\ accepted'[m + 1] = x /\ \A p \in 1..m : accepted'[p] = accepted[p]
  BY <1>0, <1>1, <1>4
<1>6. Len(queue') = h + 1 /\ queue'[h + 1] = event[c] /\ \A p \in 1..h : queue'[p] = queue[p]
  BY <1>0, <1>1 DEF Enqueue
<1>7. Along(db, accepted, n) /\ Along(file, accepted, n) /\ LostAlong
      /\ Segment(batch, accepted, n) /\ Segment(queue, accepted, n + l)
  BY DEF OrderInv, Recorded, InMemory
<1>8. n <= m
  BY <1>2
<1>9. Along(db, accepted', n) /\ Along(file, accepted', n)
  <2>1. Along(db, Append(accepted, x), n)
    BY <1>0, <1>1, <1>2, <1>3, <1>7, <1>8, AlongGrows
  <2>2. Along(file, Append(accepted, x), n)
    BY <1>0, <1>1, <1>2, <1>3, <1>7, <1>8, AlongGrows
  <2> QED
    BY <1>4, <2>1, <2>2
<1>10. Passed' = n
  BY <1>2, <1>4, <1>5, <1>6 DEF Passed
<1> HIDE DEF x, n, l, m, h
<1>11. \A i \in 1..l : n + i \in 1..m
  BY <1>2
<1>12. \A i \in 1..h : n + l + i \in 1..m
  BY <1>2
<1>13. \A i \in 1..n : i \in 1..m
  BY <1>2
<1>14. \A i \in 1..(h + 1) : i \in 1..h \/ (i = h + 1 /\ n + l + i = m + 1)
  BY <1>2
<1>15. Segment(batch, accepted', n)
  BY <1>5, <1>7, <1>11 DEF Segment, l
<1>16. Segment(queue', accepted', n + l)
  <2>1. \A i \in 1..h : queue'[i].id = accepted'[n + l + i]
    BY <1>5, <1>6, <1>7, <1>12 DEF Segment, h
  <2>2. queue'[h + 1].id = accepted'[m + 1]
    BY <1>5, <1>6 DEF x
  <2> QED
    BY <1>6, <1>14, <2>1, <2>2 DEF Segment
<1>17. \A y \in lost : \E p \in 1..n : y = accepted'[p]
  BY <1>5, <1>7, <1>13 DEF LostAlong, n
<1> QED
  BY <1>2, <1>4, <1>9, <1>10, <1>15, <1>16, <1>17 DEF InMemory, Recorded, LostAlong, l

LEMMA TakeOrder ==
  ASSUME AuditTypeOK, OrderInv, queue # <<>>, Take, NoFlush, UNCHANGED accepted
  PROVE  InMemory' /\ Recorded'
<1> DEFINE n == Passed
           l == Len(batch)
           m == Len(accepted)
           h == Len(queue)
<1>1. queue \in Seq(Event) /\ batch \in Seq(Event)
  BY DEF AuditTypeOK, MemoryTyped
<1>2. n \in Nat /\ l \in Nat /\ m \in Nat /\ h \in Nat /\ m = n + (l + h) /\ h > 0
  BY <1>1, LengthsAdd DEF OrderInv, Lengths
<1>3. Segment(batch, accepted, n) /\ Segment(queue, accepted, n + l) /\ Recorded
  BY DEF OrderInv, InMemory
<1>4. /\ Len(batch') = l + 1 /\ batch'[l + 1] = queue[1]
      /\ \A i \in 1..l : batch'[i] = batch[i]
  BY <1>1 DEF Take
<1>5. Len(queue') = h - 1 /\ \A i \in 1..(h - 1) : queue'[i] = queue[i + 1]
  BY <1>1 DEF Take
<1>6. Passed' = n
  BY <1>2, <1>4, <1>5 DEF Passed
<1> HIDE DEF n, l, m, h
<1>7. \A i \in 1..(l + 1) : i \in 1..l \/ i = l + 1
  BY <1>2
<1>8. queue[1].id = accepted[n + l + 1]
  BY <1>2, <1>3 DEF Segment, h
<1>9. n + (l + 1) = n + l + 1
  BY <1>2
<1>10. Segment(batch', accepted, n)
  <2>1. \A i \in 1..l : batch'[i].id = accepted[n + i]
    BY <1>3, <1>4 DEF Segment, l
  <2>2. batch'[l + 1].id = accepted[n + (l + 1)]
    BY <1>4, <1>8, <1>9
  <2> QED
    BY <1>4, <1>7, <2>1, <2>2 DEF Segment
<1>11. \A i \in 1..(h - 1) : i + 1 \in 1..h /\ n + l + (i + 1) = n + (l + 1) + i
  BY <1>2
<1>12. Segment(queue', accepted, n + (l + 1))
  <2>1. \A i \in 1..(h - 1) : queue[i + 1].id = accepted[n + l + (i + 1)]
    BY <1>3, <1>11 DEF Segment, h
  <2>2. \A i \in 1..(h - 1) : queue'[i].id = accepted[n + (l + 1) + i]
    BY <1>5, <1>11, <2>1
  <2> QED
    BY <1>5, <2>2 DEF Segment
<1>13. Recorded'
  <2>1. UNCHANGED <<db, file, lost>>
    BY DEF NoFlush
  <2> QED
    BY <1>3, <1>6, <2>1 DEF Recorded, LostAlong, Along, n
<1> QED
  BY <1>2, <1>4, <1>6, <1>10, <1>12, <1>13 DEF InMemory

LEMMA FlushOrder ==
  ASSUME AuditTypeOK, OrderInv, FlushBatch(batch), batch' = <<>>, UNCHANGED <<queue, accepted>>
  PROVE  InMemory' /\ Recorded'
<1> DEFINE n == Passed
           l == Len(batch)
           m == Len(accepted)
           h == Len(queue)
<1>1. /\ accepted \in Seq(Nat) /\ queue \in Seq(Event) /\ batch \in Seq(Event)
      /\ db \in Seq(Event) /\ file \in Seq(Event)
  BY DEF AuditTypeOK, MemoryTyped, StoresTyped
<1>2. n \in Nat /\ l \in Nat /\ m \in Nat /\ h \in Nat /\ m = n + (l + h)
  BY LengthsAdd DEF OrderInv, Lengths
<1>3. /\ Along(db, accepted, n) /\ Along(file, accepted, n) /\ LostAlong
      /\ Segment(batch, accepted, n) /\ Segment(queue, accepted, n + l)
      /\ Distinct(accepted)
  BY DEF OrderInv, Recorded, InMemory, Unique
<1>4. n + l <= m /\ n + l \in Nat
  BY <1>2
<1>5. Passed' = n + l /\ Len(batch') = 0
  BY <1>2, EmptyTyped DEF Passed
<1>6. Along(db', accepted, n + l)
  <2>1. db' \in {db, db \o batch}
    BY DEF FlushBatch, Insert, FallBack, Lose
  <2> QED
    BY <1>1, <1>2, <1>3, <1>4, <2>1, StoreAlong
<1>7. Along(file', accepted, n + l)
  <2>1. file' \in {file, file \o batch} \/ \E i \in 0..(l - 1) : file' = file \o SubSeq(batch, 1, i)
    BY DEF FlushBatch, Insert, FallBack, Lose
  <2> QED
    BY <1>1, <1>2, <1>3, <1>4, <2>1, StoreAlong
<1>8. lost' \subseteq lost \cup Ids(batch)
  BY DEF FlushBatch, Insert, FallBack, Lose
<1> HIDE DEF n, l, m, h
<1>9. \A i \in 1..n : i \in 1..(n + l)
  BY <1>2
<1>10. \A i \in 1..l : n + i \in 1..(n + l)
  BY <1>2
<1>11. \A x \in Ids(batch) : \E p \in 1..(n + l) : x = accepted[p]
  <2> SUFFICES ASSUME NEW x \in Ids(batch) PROVE \E p \in 1..(n + l) : x = accepted[p]
    OBVIOUS
  <2>1. PICK i \in 1..l : x = batch[i].id
    BY <1>1, IdsOf DEF l
  <2>2. batch[i].id = accepted[n + i]
    BY <1>3 DEF Segment, l
  <2> QED
    BY <1>10, <2>1, <2>2
<1>12. \A x \in lost' : \E p \in 1..(n + l) : x = accepted[p]
  BY <1>3, <1>8, <1>9, <1>11 DEF LostAlong, n
<1>13. Segment(batch', accepted, n + l)
  BY <1>5 DEF Segment
<1>14. Segment(queue', accepted, (n + l) + 0) /\ (n + l) + 0 = n + l
  BY <1>3, <1>4 DEF Segment
<1> QED
  BY <1>4, <1>5, <1>6, <1>7, <1>12, <1>13, <1>14 DEF InMemory, Recorded, LostAlong

LEMMA CrashOrder ==
  ASSUME AuditTypeOK, OrderInv, Crash
  PROVE  InMemory' /\ Recorded'
<1> DEFINE n == Passed
           l == Len(batch)
           m == Len(accepted)
           h == Len(queue)
<1>1. /\ accepted \in Seq(Nat) /\ queue \in Seq(Event) /\ batch \in Seq(Event)
      /\ db \in Seq(Event) /\ file \in Seq(Event)
  BY DEF AuditTypeOK, MemoryTyped, StoresTyped
<1>2. n \in Nat /\ l \in Nat /\ m \in Nat /\ h \in Nat /\ m = n + (l + h)
  BY LengthsAdd DEF OrderInv, Lengths
<1>3. /\ Along(db, accepted, n) /\ Along(file, accepted, n) /\ LostAlong
      /\ Segment(batch, accepted, n) /\ Segment(queue, accepted, n + l)
  BY DEF OrderInv, Recorded, InMemory
<1>4. n <= m
  BY <1>2
<1>5. /\ queue' = <<>> /\ batch' = <<>> /\ UNCHANGED <<db, file, accepted>>
      /\ lost' = lost \cup Ids(queue) \cup Ids(batch)
  BY DEF Crash
<1>6. Passed' = m /\ Len(batch') = 0 /\ Len(queue') = 0
  BY <1>2, <1>5, EmptyTyped DEF Passed
<1>7. Along(db, accepted, m) /\ Along(file, accepted, m)
  BY <1>1, <1>2, <1>3, <1>4, AlongLater
<1> HIDE DEF n, l, m, h
<1>8. \A i \in 1..n : i \in 1..m
  BY <1>2
<1>9. \A i \in 1..l : n + i \in 1..m
  BY <1>2
<1>10. \A i \in 1..h : n + l + i \in 1..m
  BY <1>2
<1>11. ASSUME NEW x \in Ids(batch)
       PROVE  \E p \in 1..m : x = accepted[p]
  <2>1. PICK i \in 1..l : x = batch[i].id
    BY <1>1, IdsOf DEF l
  <2>2. batch[i].id = accepted[n + i]
    BY <1>3 DEF Segment, l
  <2> QED
    BY <1>9, <2>1, <2>2
<1>12. ASSUME NEW x \in Ids(queue)
       PROVE  \E p \in 1..m : x = accepted[p]
  <2>1. PICK i \in 1..h : x = queue[i].id
    BY <1>1, IdsOf DEF h
  <2>2. queue[i].id = accepted[n + l + i]
    BY <1>3 DEF Segment, h
  <2> QED
    BY <1>10, <2>1, <2>2
<1>13. \A x \in lost' : \E p \in 1..m : x = accepted[p]
  BY <1>3, <1>5, <1>8, <1>11, <1>12 DEF LostAlong, n
<1>14. Segment(batch', accepted, m) /\ Segment(queue', accepted, m + 0)
  BY <1>6 DEF Segment
<1> QED
  BY <1>2, <1>5, <1>6, <1>7, <1>13, <1>14 DEF InMemory, Recorded, LostAlong

LEMMA StepOrder ==
  ASSUME AuditTypeOK, OrderInv, [AuditNext]_auditVars
  PROVE  OrderInv'
<1>1. Unique'
  BY StepUnique DEF OrderInv
<1>2. InMemory /\ Recorded
  BY DEF OrderInv
<1>3. CASE \E c \in Callers : Log(c)
  <2>1. PICK c \in Callers : Log(c)
    BY <1>3
  <2>2. CASE Enqueue(c)
    BY <1>1, <2>2, EnqueueOrder DEF OrderInv
  <2>3. CASE ~Enqueue(c)
    <3>1. UNCHANGED <<queue, batch, db, file, lost, accepted>>
      BY <2>1, <2>3 DEF Log, Begin, ReadHead, StoreHead, Count, DropFull
    <3> QED
      BY <1>1, <1>2, <3>1, MemoryKept DEF OrderInv
  <2> QED
    BY <2>2, <2>3
<1>4. CASE Receive \/ DrainOne
  <2>1. queue # <<>> /\ Take /\ NoFlush /\ UNCHANGED accepted
    BY <1>4 DEF Receive, DrainOne
  <2> QED
    BY <1>1, <2>1, TakeOrder DEF OrderInv
<1>5. CASE Flush \/ DrainFlush \/ (Exit /\ batch # <<>>)
  <2>1. FlushBatch(batch) /\ batch' = <<>> /\ UNCHANGED <<queue, accepted>>
    BY <1>5 DEF Flush, DrainFlush, Exit
  <2> QED
    BY <1>1, <2>1, FlushOrder DEF OrderInv
<1>6. CASE Crash
  BY <1>1, <1>6, CrashOrder DEF OrderInv
<1>7. CASE (Exit /\ batch = <<>>) \/ Start \/ Stop \/ DrainBreak \/ StopReturns
           \/ UNCHANGED auditVars
  <2>1. UNCHANGED <<queue, batch, db, file, lost, accepted>>
    BY <1>7 DEF Exit, NoFlush, Start, Stop, DrainBreak, StopReturns, auditVars
  <2> QED
    BY <1>1, <1>2, <2>1, MemoryKept DEF OrderInv
<1> QED
  BY <1>3, <1>4, <1>5, <1>6, <1>7 DEF AuditNext, FlusherStep, StopStep

LEMMA InitOrder == AuditInit => OrderInv
<1> SUFFICES ASSUME AuditInit PROVE OrderInv
  OBVIOUS
<1>1. /\ Len(accepted) = 0 /\ Len(batch) = 0 /\ Len(queue) = 0 /\ Len(db) = 0 /\ Len(file) = 0
      /\ lost = {} /\ clock = 1 /\ \A c \in Callers : step[c] = "idle"
  BY EmptyTyped DEF AuditInit
<1>2. Passed = 0
  BY <1>1 DEF Passed
<1>3. Unique
  BY <1>1, AuditConstants DEF Unique, Distinct
<1>4. InMemory
  BY <1>1, <1>2 DEF InMemory, Segment
<1>5. Recorded
  BY <1>1, <1>2 DEF Recorded, Along, LostAlong
<1> QED
  BY <1>3, <1>4, <1>5 DEF OrderInv

LEMMA OrderInvHolds == AuditSpec => [](AuditInv /\ OrderInv)
<1>1. AuditInit => OrderInv
  BY InitOrder
<1>2. AuditInv /\ OrderInv /\ [AuditNext]_auditVars => OrderInv'
  BY StepOrder DEF AuditInv
<1> QED
  BY <1>1, <1>2, AuditInvHolds, PTL DEF AuditSpec

(* Along, every id has one place in accepted, and it is the Position chosen.  *)
LEMMA AlongIsOrdered ==
  ASSUME AuditTypeOK, OrderInv, NEW s \in Seq(Event), Along(s, accepted, Passed)
  PROVE  /\ Ids(s) \subseteq {accepted[i] : i \in 1..Len(accepted)}
         /\ \A i, j \in 1..Len(s) : i < j => Position(s[i].id) < Position(s[j].id)
<1>1. Passed \in Nat /\ Len(accepted) \in Nat /\ Passed <= Len(accepted)
  BY LengthsAdd DEF OrderInv, Lengths
<1>2. \A i \in 1..Len(s) : \E p \in 1..Len(accepted) : s[i].id = accepted[p]
  BY <1>1 DEF Along
<1>3. \A i \in 1..Len(s) : /\ Position(s[i].id) \in 1..Len(accepted)
                           /\ accepted[Position(s[i].id)] = s[i].id
  BY <1>2 DEF Position
<1>4. Ids(s) \subseteq {accepted[i] : i \in 1..Len(accepted)}
  BY <1>2 DEF Ids
<1>5. ASSUME NEW i \in 1..Len(s), NEW j \in 1..Len(s), i < j
      PROVE  Position(s[i].id) < Position(s[j].id)
  BY <1>3, <1>5 DEF Along
<1> QED
  BY <1>4, <1>5

-----------------------------------------------------------------------------
(* The refinement.  What is pending comes after Passed, what is settled does  *)
(* not, and within memory the batch comes before the queue.                   *)

Among(x, first, last) == \E p \in first..last : x = accepted[p]

LEMMA SegmentAmong ==
  ASSUME NEW s \in Seq(Event), NEW n \in Nat, Segment(s, accepted, n), NEW x \in Ids(s)
  PROVE  Among(x, n + 1, n + Len(s))
<1>1. PICK i \in 1..Len(s) : x = s[i].id
  BY IdsOf
<1>2. n + i \in (n + 1)..(n + Len(s))
  OBVIOUS
<1>3. x = accepted[n + i]
  BY <1>1 DEF Segment
<1> QED
  BY <1>2, <1>3 DEF Among

LEMMA ApartInOrder ==
  ASSUME NEW x, NEW y, Distinct(accepted), Len(accepted) \in Nat,
         NEW i \in Nat, NEW j \in Nat, NEW k \in Nat, NEW l \in Nat,
         1 <= i, j < k, l <= Len(accepted), Among(x, i, j), Among(y, k, l)
  PROVE  x # y
<1>1. PICK p \in i..j : x = accepted[p]
  BY DEF Among
<1>2. PICK q \in k..l : y = accepted[q]
  BY DEF Among
<1>3. p < q /\ p \in 1..Len(accepted) /\ q \in 1..Len(accepted)
  OBVIOUS
<1>4. accepted[p] # accepted[q]
  BY <1>3 DEF Distinct
<1> QED
  BY <1>1, <1>2, <1>4

Placed ==
  /\ \A x \in Stored \cup lost : Among(x, 1, Passed)
  /\ \A x \in Ids(batch) : Among(x, Passed + 1, Passed + Len(batch))
  /\ \A x \in Ids(queue) : Among(x, Passed + Len(batch) + 1, Len(accepted))

LEMMA OrderPlaces ==
  ASSUME AuditTypeOK, OrderInv
  PROVE  Placed
<1>1. /\ db \in Seq(Event) /\ file \in Seq(Event)
      /\ batch \in Seq(Event) /\ queue \in Seq(Event)
  BY DEF AuditTypeOK, MemoryTyped, StoresTyped
<1>2. Lengths
  BY LengthsAdd DEF OrderInv
<1>3. \A x \in Ids(db) : Among(x, 1, Passed)
  BY <1>1, IdsOf DEF OrderInv, Recorded, Along, Among
<1>4. \A x \in Ids(file) : Among(x, 1, Passed)
  BY <1>1, IdsOf DEF OrderInv, Recorded, Along, Among
<1>5. \A x \in lost : Among(x, 1, Passed)
  BY DEF OrderInv, Recorded, LostAlong, Among
<1>6. \A x \in Ids(batch) : Among(x, Passed + 1, Passed + Len(batch))
  BY <1>1, <1>2, SegmentAmong DEF OrderInv, InMemory, Lengths
<1>7. \A x \in Ids(queue) : Among(x, Passed + Len(batch) + 1, Len(accepted))
  <2>1. Passed + Len(batch) \in Nat /\ Passed + Len(batch) + Len(queue) = Len(accepted)
    BY <1>2 DEF Lengths
  <2>2. \A x \in Ids(queue) :
          Among(x, Passed + Len(batch) + 1, Passed + Len(batch) + Len(queue))
    BY <1>1, <2>1, SegmentAmong DEF OrderInv, InMemory
  <2> QED
    BY <2>1, <2>2
<1> QED
  BY <1>3, <1>4, <1>5, <1>6, <1>7 DEF Placed, Stored

LEMMA OrderApart ==
  ASSUME AuditTypeOK, OrderInv
  PROVE  /\ Ids(batch) \cap Ids(queue) = {}
         /\ Pending \cap (Stored \cup lost) = {}
<1>1. Lengths /\ Placed /\ Distinct(accepted)
  BY LengthsAdd, OrderPlaces DEF OrderInv, Unique
<1> DEFINE n == Passed
           l == Len(batch)
           m == Len(accepted)
<1>2. /\ n \in Nat /\ n + 1 \in Nat /\ n + l \in Nat /\ n + l + 1 \in Nat /\ m \in Nat
      /\ 1 <= n + 1 /\ n < n + 1 /\ n < n + l + 1 /\ n + l < n + l + 1 /\ n + l <= m
  BY <1>1 DEF Lengths
<1>3. /\ \A x \in Stored \cup lost : Among(x, 1, n)
      /\ \A x \in Ids(batch) : Among(x, n + 1, n + l)
      /\ \A x \in Ids(queue) : Among(x, n + l + 1, m)
  BY <1>1 DEF Placed
<1>4. 1 \in Nat /\ 1 <= 1 /\ m <= m /\ m = Len(accepted)
  BY <1>2
<1> HIDE DEF n, l, m
<1>5. \A x \in Ids(batch), y \in Ids(queue) : x # y
  BY <1>1, <1>2, <1>3, <1>4, ApartInOrder
<1>6. \A x \in Stored \cup lost, y \in Ids(batch) : x # y
  BY <1>1, <1>2, <1>3, <1>4, ApartInOrder
<1>7. \A x \in Stored \cup lost, y \in Ids(queue) : x # y
  BY <1>1, <1>2, <1>3, <1>4, ApartInOrder
<1> QED
  BY <1>5, <1>6, <1>7 DEF Pending

LEMMA IdsJoined ==
  ASSUME NEW s \in Seq(Event), NEW t \in Seq(Event)
  PROVE  Ids(s \o t) \subseteq Ids(s) \cup Ids(t)
<1>1. \A i \in 1..Len(s \o t) :
        \/ i \in 1..Len(s) /\ (s \o t)[i] = s[i]
        \/ i - Len(s) \in 1..Len(t) /\ (s \o t)[i] = t[i - Len(s)]
  OBVIOUS
<1> QED
  BY <1>1 DEF Ids

LEMMA IdsFirst ==
  ASSUME NEW s \in Seq(Event), NEW m \in 0..(Len(s) - 1)
  PROVE  SubSeq(s, 1, m) \in Seq(Event) /\ Ids(SubSeq(s, 1, m)) \subseteq Ids(s)
<1>1. /\ SubSeq(s, 1, m) \in Seq(Event) /\ Len(SubSeq(s, 1, m)) = m
      /\ \A i \in 1..m : i \in 1..Len(s) /\ SubSeq(s, 1, m)[i] = s[i]
  OBVIOUS
<1> QED
  BY <1>1 DEF Ids

LEMMA StoreGrows ==
  ASSUME NEW s \in Seq(Event), NEW t, NEW b \in Seq(Event),
         t \in {s, s \o b} \/ \E m \in 0..(Len(b) - 1) : t = s \o SubSeq(b, 1, m)
  PROVE  Ids(s) \subseteq Ids(t) /\ Ids(t) \subseteq Ids(s) \cup Ids(b)
<1>1. CASE t \in {s, s \o b}
  BY <1>1, IdsJoin, IdsJoined
<1>2. ASSUME NEW m \in 0..(Len(b) - 1), t = s \o SubSeq(b, 1, m)
      PROVE  Ids(s) \subseteq Ids(t) /\ Ids(t) \subseteq Ids(s) \cup Ids(b)
  <2> DEFINE f == SubSeq(b, 1, m)
  <2>1. f \in Seq(Event) /\ Ids(f) \subseteq Ids(b) /\ t = s \o f
    BY <1>2, IdsFirst
  <2> HIDE DEF f
  <2>2. Ids(s) \subseteq Ids(s \o f) /\ Ids(s \o f) \subseteq Ids(s) \cup Ids(f)
    BY <2>1, IdsJoin, IdsJoined
  <2> QED
    BY <2>1, <2>2
<1> QED
  BY <1>1, <1>2

LEMMA FlushGrows ==
  ASSUME StoresTyped, batch \in Seq(Event), FlushBatch(batch)
  PROVE  /\ Stored \subseteq Stored' /\ Stored' \subseteq Stored \cup Ids(batch)
         /\ lost \subseteq lost' /\ lost' \subseteq lost \cup Ids(batch)
         /\ Ids(batch) \subseteq Stored' \cup lost'
<1>1. db \in Seq(Event) /\ file \in Seq(Event)
  BY DEF StoresTyped
<1>2. db' \in {db, db \o batch}
  BY DEF FlushBatch, Insert, FallBack, Lose
<1>3. \/ file' \in {file, file \o batch}
      \/ \E m \in 0..(Len(batch) - 1) : file' = file \o SubSeq(batch, 1, m)
  BY DEF FlushBatch, Insert, FallBack, Lose
<1>4. Ids(db) \subseteq Ids(db') /\ Ids(db') \subseteq Ids(db) \cup Ids(batch)
  BY <1>1, <1>2, StoreGrows
<1>5. Ids(file) \subseteq Ids(file') /\ Ids(file') \subseteq Ids(file) \cup Ids(batch)
  BY <1>1, <1>3, StoreGrows
<1>6. Stored' = Ids(db') \cup Ids(file')
  BY DEF Stored, Ids
<1>7. lost \subseteq lost' /\ lost' \subseteq lost \cup Ids(batch)
  BY DEF FlushBatch, Insert, FallBack, Lose
<1>8. Ids(batch) \subseteq (Stored \cup lost)'
  BY FlushSettles
<1> QED
  BY <1>4, <1>5, <1>6, <1>7, <1>8 DEF Stored

-----------------------------------------------------------------------------
(* The manager's fields keep their types, neither the queue nor a batch      *)
(* outgrows its bound, and run() is alive while the manager is not stopped.  *)
THEOREM AuditTypeCorrect == AuditSpec => []AuditTypeOK
  BY AuditInvHolds, PTL DEF AuditInv

(* Whatever the callers, the flusher and the stores do, and however often    *)
(* the process restarts, the four counters account for every event that Log  *)
(* has counted.                                                              *)
THEOREM AccountingHolds == AuditSpec => []Accounting
  BY AuditInvHolds, PTL DEF AuditInv

(* When Stop has returned, every event accepted before it was called is in   *)
(* the database or in the fallback file, unless both failed for it.          *)
THEOREM StopKeepsAccepted == AuditSpec => []StopLosesNothing
  BY AuditInvHolds, PTL DEF AuditInv

(* Whatever fails and however often the process restarts, each store holds   *)
(* accepted events only, each once, in the order in which the queue accepted *)
(* them.                                                                     *)
THEOREM OrderHolds == AuditSpec => []PersistedInOrder
<1>1. AuditInv /\ OrderInv => PersistedInOrder
  <2> SUFFICES ASSUME AuditInv, OrderInv PROVE PersistedInOrder
    OBVIOUS
  <2>1. AuditTypeOK /\ db \in Seq(Event) /\ file \in Seq(Event)
    BY DEF AuditInv, AuditTypeOK, StoresTyped
  <2>2. Along(db, accepted, Passed) /\ Along(file, accepted, Passed)
    BY DEF OrderInv, Recorded
  <2> QED
    BY <2>1, <2>2, AlongIsOrdered DEF PersistedInOrder
<1> QED
  BY <1>1, OrderInvHolds, PTL

(* The manager implements the ledger: an event it accepted is pending until   *)
(* a flush, the last one of Stop or a crash settles it, and nothing it kept   *)
(* or gave up ever changes again.                                             *)
THEOREM LedgerImplemented == AuditSpec => ImplementsLedger
<1> USE DEF Pending
<1>1. AuditInit => Ledger!LedgerInit
  <2> SUFFICES ASSUME AuditInit PROVE Ledger!LedgerInit
    OBVIOUS
  <2>1. Ids(<<>>) = {}
    BY EmptyTyped DEF Ids
  <2> QED
    BY <2>1 DEF AuditInit, Stored, Ledger!LedgerInit
<1>2. AuditInv /\ OrderInv /\ [AuditNext]_auditVars
        => [Ledger!LedgerNext]_(Ledger!ledgerVars)
  <2> SUFFICES ASSUME AuditInv, OrderInv, [AuditNext]_auditVars
               PROVE  [Ledger!LedgerNext]_(Ledger!ledgerVars)
    OBVIOUS
  <2>1. /\ AuditTypeOK /\ StoresTyped /\ CallersTyped
        /\ queue \in Seq(Event) /\ batch \in Seq(Event)
    BY DEF AuditInv, AuditTypeOK, MemoryTyped
  <2>2. Ids(batch) \cap Ids(queue) = {} /\ Pending \cap (Stored \cup lost) = {}
    BY <2>1, OrderApart
  <2>3. ASSUME UNCHANGED Pending, UNCHANGED Stored, UNCHANGED lost
        PROVE  UNCHANGED Ledger!ledgerVars
    BY <2>3 DEF Ledger!ledgerVars
  <2>4. ASSUME UNCHANGED <<queue, batch, db, file, lost>>
        PROVE  UNCHANGED Ledger!ledgerVars
    BY <2>3, <2>4 DEF Stored, Ids
  <2>5. ASSUME NEW c \in Callers, Enqueue(c)
        PROVE  Ledger!LedgerNext
    <3> DEFINE x == event[c].id
    <3>1. event[c] \in Event /\ step[c] # "idle"
      BY <2>1, <2>5 DEF Enqueue, CallersTyped
    <3>2. x \in 1..MaxEvents
      BY <3>1, AuditConstants DEF OrderInv, Unique
    <3>3. \A p \in 1..Len(accepted) : x # accepted[p]
      BY <3>1 DEF OrderInv, Unique
    <3>4. x \notin Pending \cup Stored \cup lost
      <4>1. Placed /\ Lengths
        BY <2>1, OrderPlaces, LengthsAdd DEF OrderInv
      <4>2. /\ 1..Passed \subseteq 1..Len(accepted)
            /\ (Passed + 1)..(Passed + Len(batch)) \subseteq 1..Len(accepted)
            /\ (Passed + Len(batch) + 1)..Len(accepted) \subseteq 1..Len(accepted)
        BY <4>1 DEF Lengths
      <4> QED
        BY <3>3, <4>1, <4>2 DEF Placed, Among
    <3>5. Ids(queue)' = Ids(queue) \cup {x}
      BY <2>1, <2>5, <3>1, IdsAppend DEF Enqueue, Ids
    <3>6. Ids(batch)' = Ids(batch) /\ UNCHANGED Stored /\ UNCHANGED lost
      BY <2>5 DEF Enqueue, Stored, Ids
    <3> HIDE DEF x
    <3>7. Ledger!Accept(x)
      BY <3>4, <3>5, <3>6 DEF Ledger!Accept
    <3> QED
      BY <3>2, <3>7 DEF Ledger!LedgerNext
  <2>6. ASSUME FlushBatch(batch), batch' = <<>>, UNCHANGED queue
        PROVE  Ledger!LedgerNext
    <3> DEFINE saved  == Ids(batch) \cap Stored'
               missed == Ids(batch) \ Stored'
    <3>1. /\ Stored \subseteq Stored' /\ Stored' \subseteq Stored \cup Ids(batch)
          /\ lost \subseteq lost' /\ lost' \subseteq lost \cup Ids(batch)
          /\ Ids(batch) \subseteq Stored' \cup lost'
      BY <2>1, <2>6, FlushGrows
    <3>2. Pending' = Pending \ (saved \cup missed)
      <4>1. Ids(queue)' = Ids(queue) /\ Ids(batch)' = {}
        BY <2>6, EmptyTyped DEF Ids
      <4> QED
        BY <2>2, <4>1
    <3>3. (lost \ Stored)' = (lost \ Stored) \cup missed
      BY <2>2, <3>1
    <3>4. Stored' = Stored \cup saved
      BY <3>1
    <3>5. Ledger!Settle(saved, missed)
      BY <3>2, <3>3, <3>4 DEF Ledger!Settle
    <3>6. saved \in SUBSET Pending /\ missed \in SUBSET Pending
      OBVIOUS
    <3> HIDE DEF saved, missed
    <3> QED
      BY <3>5, <3>6 DEF Ledger!LedgerNext
  <2>7. ASSUME Crash
        PROVE  Ledger!LedgerNext
    <3>1. Pending' = {} /\ Stored' = Stored /\ lost' = lost \cup Pending
      BY <2>7, EmptyTyped DEF Crash, Stored, Ids
    <3>2. (lost \ Stored)' = (lost \ Stored) \cup Pending
      BY <2>2, <3>1
    <3>3. Ledger!Settle({}, Pending)
      BY <3>1, <3>2 DEF Ledger!Settle
    <3> QED
      BY <3>3 DEF Ledger!LedgerNext
  <2>8. CASE \E c \in Callers : Log(c)
    <3>1. PICK c \in Callers : Log(c)
      BY <2>8
    <3>2. CASE Enqueue(c)
      BY <2>5, <3>2
    <3>3. CASE ~Enqueue(c)
      BY <2>4, <3>1, <3>3 DEF Log, Begin, ReadHead, StoreHead, Count, DropFull
    <3> QED
      BY <3>2, <3>3
  <2>9. CASE Receive \/ DrainOne
    <3>1. queue # <<>> /\ Take /\ UNCHANGED <<db, file, lost>>
      BY <2>9 DEF Receive, DrainOne, NoFlush
    <3> QED
      BY <2>1, <2>3, <3>1, TakeKeeps DEF Stored, Ids
  <2>10. CASE Flush \/ DrainFlush \/ (Exit /\ batch # <<>>)
    BY <2>6, <2>10 DEF Flush, DrainFlush, Exit
  <2>11. CASE \/ Exit /\ batch = <<>>
              \/ Start \/ Stop \/ DrainBreak \/ StopReturns \/ UNCHANGED auditVars
    BY <2>4, <2>11 DEF Exit, NoFlush, Start, Stop, DrainBreak, StopReturns, auditVars
  <2> QED
    BY <2>7, <2>8, <2>9, <2>10, <2>11 DEF AuditNext, FlusherStep, StopStep
<1> QED
  BY <1>1, <1>2, OrderInvHolds, PTL DEF AuditSpec, ImplementsLedger, Ledger!LedgerSpec
=============================================================================
