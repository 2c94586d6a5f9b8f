-------------------------- MODULE AgentLoopProofs --------------------------
(***************************************************************************)
(* What holds of the breaker for every pair of limits and every history of *)
(* calls, and of the loop for any number of runs sharing it, any registry, *)
(* any evaluator and any configuration; and, of a run alone on its loop    *)
(* object, what its rollbacks undo and what it sends to the LLM.           *)
(*                                                                         *)
(* L2Capped and WritesInterrupted are not inductive: what the breaker lets *)
(* through is bounded only because it never exceeds what is counted, and   *)
(* because a count past its limit has taken the breaker out of "closed".   *)
(***************************************************************************)
EXTENDS AgentLoop, FiniteSetTheorems, SequenceTheorems, TLAPS

(* ---- The breaker.                                                          *)

(* What the breaker has let through was counted first. *)
GrantsCounted ==
  /\ granted.l2 <= cb.l2Count
  /\ granted.streak <= cb.consecutiveWrites

(* A counter past its limit leaves a mark in the state. *)
TripsShow ==
  /\ cb.l2Count > MaxL2Ops => cb.state = "open"
  /\ cb.consecutiveWrites > MaxConsecWrites => cb.state # "closed"

BreakerInv ==
  BreakerTypeOK /\ GrantsCounted /\ TripsShow /\ L2Capped /\ WritesInterrupted

LEMMA LimitsArePositive == MaxL2Ops \in Nat \ {0} /\ MaxConsecWrites \in Nat \ {0}
  BY ConfigIsNat DEF MaxL2Ops, MaxConsecWrites

LEMMA BreakerInitInv == BreakerInit => BreakerInv
  BY LimitsArePositive
  DEF BreakerInit, Fresh, NoGrants, BreakerInv, BreakerTypeOK, States,
      GrantsCounted, TripsShow, L2Capped, WritesInterrupted

(* Allow is stated on its own: the agent loop takes it as one of its steps. *)
LEMMA AllowKeepsInv ==
  ASSUME NEW isWrite \in BOOLEAN, NEW isL2Plus \in BOOLEAN,
         isL2Plus => isWrite, BreakerInv, Allow(isWrite, isL2Plus)
  PROVE  BreakerInv'
  <1> USE LimitsArePositive
      DEF BreakerInv, BreakerTypeOK, States, GrantsCounted, TripsShow,
          L2Capped, WritesInterrupted, Tripped, One
  <1>1. CASE AllowRefused(isWrite)
    BY <1>1 DEF AllowRefused, breakerVars
  <1>2. CASE AllowTripsOpen(isWrite, isL2Plus)
    <2>1. /\ cb'.state = "open" /\ cb'.l2Count = cb.l2Count + 1
          /\ cb'.consecutiveWrites = cb.consecutiveWrites
          /\ cb'.totalOps = cb.totalOps /\ cb'.failedOps = cb.failedOps
          /\ granted' = granted
      BY <1>2 DEF AllowTripsOpen
    <2>2. cb' = [state |-> cb'.state, l2Count |-> cb'.l2Count,
                      consecutiveWrites |-> cb'.consecutiveWrites,
                      totalOps |-> cb'.totalOps, failedOps |-> cb'.failedOps]
      BY <1>2 DEF AllowTripsOpen
    <2>3. QED
      BY <2>1, <2>2
  <1>3. CASE AllowTripsHalfOpen(isWrite, isL2Plus)
    <2>1. /\ cb'.state = "half_open" /\ cb'.l2Count = cb.l2Count + One(isL2Plus)
          /\ cb'.consecutiveWrites = cb.consecutiveWrites + 1
          /\ cb'.totalOps = cb.totalOps + 1 /\ cb'.failedOps = cb.failedOps
          /\ granted' = granted
      BY <1>3 DEF AllowTripsHalfOpen
    <2>2. cb' = [state |-> cb'.state, l2Count |-> cb'.l2Count,
                     consecutiveWrites |-> cb'.consecutiveWrites,
                     totalOps |-> cb'.totalOps, failedOps |-> cb'.failedOps]
      BY <1>3 DEF AllowTripsHalfOpen
    <2>3. cb.l2Count + One(isL2Plus) <= MaxL2Ops \/ cb.l2Count + One(isL2Plus) = cb.l2Count
      BY <1>3 DEF AllowTripsHalfOpen, OverL2Cap
    <2>4. cb.state = "closed"
      BY <1>3 DEF AllowTripsHalfOpen, OverStreak
    <2>5. QED
      BY <2>1, <2>2, <2>3, <2>4
  <1>4. CASE AllowWrite(isWrite, isL2Plus)
    <2>1. /\ cb'.state = cb.state /\ cb'.l2Count = cb.l2Count + One(isL2Plus)
          /\ cb'.consecutiveWrites = cb.consecutiveWrites + 1
          /\ cb'.totalOps = cb.totalOps + 1 /\ cb'.failedOps = cb.failedOps
      BY <1>4 DEF AllowWrite
    <2>2. cb' = [state |-> cb'.state, l2Count |-> cb'.l2Count,
                 consecutiveWrites |-> cb'.consecutiveWrites,
                 totalOps |-> cb'.totalOps, failedOps |-> cb'.failedOps]
      BY <1>4 DEF AllowWrite
    <2>3. /\ granted'.l2 = granted.l2 + One(isL2Plus)
          /\ granted'.streak = granted.streak + 1
          /\ granted' = [l2 |-> granted'.l2, streak |-> granted'.streak]
      BY <1>4 DEF AllowWrite
    <2>4. /\ cb.state = "closed"
          /\ cb.consecutiveWrites + 1 <= MaxConsecWrites
          /\ isL2Plus => cb.l2Count + 1 <= MaxL2Ops
      BY <1>4 DEF AllowWrite, Admits, OverL2Cap, OverStreak
    <2>5. QED
      BY <2>1, <2>2, <2>3, <2>4
  <1>5. CASE AllowRead(isWrite)
    <2>1. /\ cb'.state = AfterRead(cb.state) /\ cb'.l2Count = cb.l2Count
          /\ cb'.consecutiveWrites = 0
          /\ cb'.totalOps = cb.totalOps /\ cb'.failedOps = cb.failedOps
      BY <1>5 DEF AllowRead
    <2>2. cb' = [state |-> cb'.state, l2Count |-> cb'.l2Count,
                 consecutiveWrites |-> cb'.consecutiveWrites,
                 totalOps |-> cb'.totalOps, failedOps |-> cb'.failedOps]
      BY <1>5 DEF AllowRead
    <2>3. /\ granted'.l2 = granted.l2 /\ granted'.streak = 0
          /\ granted' = [l2 |-> granted'.l2, streak |-> granted'.streak]
      BY <1>5 DEF AllowRead
    <2>4. QED
      BY <2>1, <2>2, <2>3 DEF AfterRead
  <1>6. QED
    BY <1>1, <1>2, <1>3, <1>4, <1>5 DEF Allow

LEMMA BreakerStepInv == BreakerInv /\ [BreakerNext]_breakerVars => BreakerInv'
  <1> SUFFICES ASSUME BreakerInv, [BreakerNext]_breakerVars
               PROVE  BreakerInv'
    OBVIOUS
  <1>1. ASSUME NEW isWrite \in BOOLEAN, NEW isL2Plus \in BOOLEAN,
               isL2Plus => isWrite, Allow(isWrite, isL2Plus)
        PROVE  BreakerInv'
    BY <1>1, AllowKeepsInv
  <1> USE LimitsArePositive
      DEF BreakerInv, BreakerTypeOK, States, GrantsCounted, TripsShow,
          L2Capped, WritesInterrupted
  <1>2. CASE RecordFailure
    <2>1. /\ cb'.state = cb.state \/ cb'.state = "open"
          /\ cb'.l2Count = cb.l2Count
          /\ cb'.consecutiveWrites = cb.consecutiveWrites
          /\ cb'.totalOps = cb.totalOps /\ cb'.failedOps = cb.failedOps + 1
          /\ granted' = granted
      BY <1>2 DEF RecordFailure
    <2>2. cb' = [state |-> cb'.state, l2Count |-> cb'.l2Count,
                 consecutiveWrites |-> cb'.consecutiveWrites,
                 totalOps |-> cb'.totalOps, failedOps |-> cb'.failedOps]
      BY <1>2 DEF RecordFailure
    <2>3. QED
      BY <2>1, <2>2
  <1>3. CASE RecordSuccess
    BY <1>3 DEF RecordSuccess
  <1>4. CASE Reset
    BY <1>4 DEF Reset, Fresh, NoGrants
  <1>5. CASE UNCHANGED breakerVars
    BY <1>5 DEF breakerVars
  <1>6. QED
    BY <1>1, <1>2, <1>3, <1>4, <1>5 DEF BreakerNext

LEMMA BreakerInvHolds == BreakerSpec => []BreakerInv
  BY BreakerInitInv, BreakerStepInv, PTL DEF BreakerSpec

(* The struct's fields keep their types in every history of calls. *)
THEOREM BreakerTypeCorrect == BreakerSpec => []BreakerTypeOK
  <1>1. BreakerInv => BreakerTypeOK
    BY DEF BreakerInv
  <1>2. QED
    BY <1>1, BreakerInvHolds, PTL

(* Allow lets through at most maxL2Ops operations of level L2+ between Resets. *)
THEOREM L2CapHolds == BreakerSpec => []L2Capped
  <1>1. BreakerInv => L2Capped
    BY DEF BreakerInv
  <1>2. QED
    BY <1>1, BreakerInvHolds, PTL

(* Allow lets through at most maxConsecWrites writes without a read between. *)
THEOREM WriteStreakHolds == BreakerSpec => []WritesInterrupted
  <1>1. BreakerInv => WritesInterrupted
    BY DEF BreakerInv
  <1>2. QED
    BY <1>1, BreakerInvHolds, PTL

(* Only Reset takes the breaker out of "open". *)
THEOREM OpenIsFinal == BreakerSpec => OpenUntilReset
  <1>1. BreakerTypeOK /\ [BreakerNext]_breakerVars
          => [cb.state = "open" => cb'.state = "open" \/ cb' = Fresh]_breakerVars
    <2> SUFFICES ASSUME BreakerTypeOK, BreakerNext, cb.state = "open"
                 PROVE  cb'.state = "open" \/ cb' = Fresh
      OBVIOUS
    <2> USE DEF BreakerTypeOK
    <2>1. ASSUME NEW isWrite \in BOOLEAN, NEW isL2Plus \in BOOLEAN,
                 isL2Plus => isWrite, Allow(isWrite, isL2Plus)
          PROVE  cb'.state = "open"
      <3>1. CASE isWrite
        <4>1. Tripped(isWrite) /\ ~Admits(isWrite, isL2Plus)
          BY <3>1 DEF Tripped, Admits
        <4>2. AllowRefused(isWrite)
          BY <4>1, <3>1, <2>1
          DEF Allow, AllowTripsOpen, AllowTripsHalfOpen, AllowWrite, AllowRead
        <4>3. QED
          BY <4>2 DEF AllowRefused, breakerVars
      <3>2. CASE ~isWrite
        <4>1. AllowRead(isWrite)
          BY <3>2, <2>1
          DEF Allow, AllowRefused, AllowTripsOpen, AllowTripsHalfOpen, AllowWrite,
              Tripped, OverL2Cap, OverStreak
        <4>2. QED
          BY <4>1 DEF AllowRead, AfterRead
      <3>3. QED
        BY <3>1, <3>2
    <2>2. CASE RecordFailure
      BY <2>2 DEF RecordFailure
    <2>3. CASE RecordSuccess
      BY <2>3 DEF RecordSuccess
    <2>4. CASE Reset
      BY <2>4 DEF Reset
    <2>5. QED
      BY <2>1, <2>2, <2>3, <2>4 DEF BreakerNext
  <1>2. QED
    BY <1>1, BreakerTypeCorrect, PTL DEF BreakerSpec, OpenUntilReset

(* A read in half-open re-admits a plain write: half-open cannot wedge. *)
THEOREM ReadReopensHalfOpen == BreakerSpec => DiagnosticReopens
  <1>1. BreakerTypeOK
          => [cb.state = "half_open" /\ AllowRead(FALSE)
                => Admits(TRUE, FALSE)']_breakerVars
    <2> SUFFICES ASSUME BreakerTypeOK, cb.state = "half_open", AllowRead(FALSE)
                 PROVE  Admits(TRUE, FALSE)'
      OBVIOUS
    <2>1. cb'.state = "closed" /\ cb'.consecutiveWrites = 0
      BY DEF BreakerTypeOK, AllowRead, AfterRead
    <2>2. MaxConsecWrites' = MaxConsecWrites
      BY DEF MaxConsecWrites
    <2>3. QED
      BY <2>1, <2>2, LimitsArePositive DEF Admits, Tripped, OverL2Cap, OverStreak
  <1>2. QED
    BY <1>1, BreakerTypeCorrect, PTL DEF DiagnosticReopens

-----------------------------------------------------------------------------
(* ---- The loop.                                                             *)


(* A run that is about to observe has an answer left to add.                  *)
AnswersLeft ==
  \A r \in Runs : pc[r] \in {"rollback", "observe"} => Len(results[r]) > 0

(* A run that is in a job executes the tool of one.                           *)
JobsNamed == \A r \in Runs : pc[r] = "job" => tool[r] \in JobTools

TypeInv == BreakerInv /\ LoopTypeOK /\ AnswersLeft /\ JobsNamed

LEMMA LoopInitTypeInv == LoopInit => TypeInv
  <1> SUFFICES ASSUME LoopInit PROVE TypeInv
    OBVIOUS
  <1> USE DEF LoopInit
  <1>1. BreakerInv /\ BreakerTypeOK
    BY BreakerInitInv DEF BreakerInv
  <1>2. SharedTypeOK
    <2>1. messages \in Seq(Messages)
      OBVIOUS
    <2>2. trimmed \in BOOLEAN
      BY Zenon
    <2>3. QED
      BY <2>1, <2>2 DEF SharedTypeOK
  <1>3. LocalTypeOK
    BY DEF LocalTypeOK, Steps, Names, Levels, NoSnap, Snapshots
  <1>4. HistoryTypeOK
    BY DEF HistoryTypeOK
  <1>5. AnswersLeft /\ JobsNamed
    BY DEF AnswersLeft, JobsNamed
  <1>6. QED
    BY <1>1, <1>2, <1>3, <1>4, <1>5 DEF TypeInv, LoopTypeOK

LEMMA IdsAreTyped ==
  ASSUME NEW r \in Runs, LocalTypeOK
  PROVE  /\ CallId(r) \in AllIds
         /\ {<<r, iter[r], k>> : k \in 1..asked[r]} \subseteq AllIds
  BY DEF LocalTypeOK, CallId, AllIds

LEMMA MessageAdded ==
  ASSUME messages \in Seq(Messages), trimmed \in BOOLEAN,
         NEW role \in Roles, NEW ids \in SUBSET AllIds, AddMessage(role, ids)
  PROVE  messages' \in Seq(Messages) /\ trimmed' \in BOOLEAN
  <1>1. Message(role, ids) \in Messages
    BY DEF Message, Messages
  <1>2. QED
    BY <1>1 DEF AddMessage

LEMMA MessagesTrimmed ==
  ASSUME messages \in Seq(Messages), trimmed \in BOOLEAN, TrimIfNeeded
  PROVE  messages' \in Seq(Messages) /\ trimmed' \in BOOLEAN
  <1>1. TrimTarget \in Nat
    BY LoopConstants DEF TrimTarget
  <1>2. CASE TrimContext(TrimTarget)
    <2>1. CASE Len(messages) <= TrimTarget
      BY <1>2, <2>1 DEF TrimContext
    <2>2. CASE ~(Len(messages) <= TrimTarget)
      <3>1. messages' = SubSeq(messages, Len(messages) - TrimTarget + 1, Len(messages))
        BY <1>2, <2>2 DEF TrimContext
      <3>2. Len(messages) - TrimTarget + 1 \in Nat \ {0}
        BY <1>1, <2>2
      <3>3. QED
        BY <3>1, <3>2, <1>2 DEF TrimContext
    <2>3. QED
      BY <2>1, <2>2
  <1>3. CASE UNCHANGED <<messages, trimmed>>
    BY <1>3
  <1>4. QED
    BY <1>2, <1>3 DEF TrimIfNeeded

LEMMA BreakerKept == BreakerInv /\ UNCHANGED <<cb, granted>> => BreakerInv'
  BY DEF BreakerInv, BreakerTypeOK, GrantsCounted, TripsShow, L2Capped, WritesInterrupted,
         MaxL2Ops, MaxConsecWrites

LEMMA BreakerIsTyped == BreakerInv' => BreakerTypeOK'
  BY DEF BreakerInv

LEMMA LevelsMakeFlags ==
  ASSUME NEW t \in Names
  PROVE  /\ IsWrite(t) \in BOOLEAN /\ IsL2Plus(t) \in BOOLEAN
         /\ IsL2Plus(t) => IsWrite(t)
  BY LoopConstants DEF IsWrite, IsL2Plus, Registered, Names, Levels

LEMMA ConsultKeepsBreaker ==
  ASSUME NEW r \in Runs, NEW t \in Names, BreakerInv, Consult(r, t)
  PROVE  BreakerInv'
  BY LevelsMakeFlags, AllowKeepsInv DEF Consult

(* Leaving a call: its locals are gone, the run goes on to the next call or   *)
(* to its observations.                                                       *)
LEMMA NextCallTyped ==
  ASSUME NEW r \in Runs, LocalTypeOK, NextCall(r)
  PROVE  /\ pc' \in [Runs -> Steps] /\ turn' \in [Runs -> Nat]
         /\ tool' \in [Runs -> Names] /\ lvl' \in [Runs -> Levels]
         /\ snap' \in [Runs -> Snapshots] /\ pc'[r] # "job"
         /\ \A q \in Runs \ {r} : pc'[q] = pc[q] /\ tool'[q] = tool[q]
  BY DEF LocalTypeOK, NextCall, LeaveScope, Goto, Steps, Names, Levels, Snapshots, NoSnap

LEMMA AnswerTyped ==
  ASSUME NEW r \in Runs, LocalTypeOK, NEW ids \in SUBSET AllIds, Answer(r, ids)
  PROVE  /\ results' \in [Runs -> Seq(SUBSET AllIds)] /\ Len(results'[r]) > 0
         /\ \A q \in Runs \ {r} : results'[q] = results[q]
  BY DEF LocalTypeOK, Answer

(* A call that has its answer.                                                *)
LEMMA AnsweredTyped ==
  ASSUME NEW r \in Runs, LocalTypeOK, AnswersLeft, JobsNamed, NEW ids \in SUBSET AllIds,
         Answer(r, ids), NextCall(r), UNCHANGED <<iter, asked, session, ret>>
  PROVE  LocalTypeOK' /\ AnswersLeft' /\ JobsNamed'
  <1>1. LocalTypeOK'
    BY NextCallTyped, AnswerTyped DEF LocalTypeOK
  <1>2. AnswersLeft'
    BY NextCallTyped, AnswerTyped DEF AnswersLeft
  <1>3. JobsNamed'
    BY NextCallTyped DEF JobsNamed
  <1>4. QED
    BY <1>1, <1>2, <1>3

LEMMA ObservedAnswers ==
  ASSUME NEW seq \in Seq(SUBSET AllIds), Len(seq) > 0
  PROVE  /\ Head(seq) \in SUBSET AllIds
         /\ Tail(seq) \in Seq(SUBSET AllIds)
         /\ Len(seq) > 1 => Len(Tail(seq)) > 0
  <1>1. seq # <<>>
    BY EmptySeq
  <1>2. QED
    BY <1>1, HeadTailProperties, LenProperties

LEMMA EffectsTyped ==
  ASSUME SharedTypeOK, NEW t, NEW id \in AllIds, NEW ok \in BOOLEAN,
         cluster' \in Effects(t, id, ok)
  PROVE  cluster' \subseteq AllIds
  BY DEF Effects, SharedTypeOK

LEMMA JobsTyped ==
  ASSUME SharedTypeOK, NEW t, NEW ok \in BOOLEAN, jobs' \in Managed(t, ok)
  PROVE  jobs' \subseteq JobTools
  BY DEF Managed, SharedTypeOK

LEMMA ExecutionTyped ==
  ASSUME NEW t \in Tools, NEW id \in AllIds, NEW eval \in Levels,
         NEW ok \in BOOLEAN, NEW job \in BOOLEAN
  PROVE  Execution(t, id, eval, ok, job) \in Executions
  BY LoopConstants DEF Execution, Executions

LEMMA StepTypeInv ==
  ASSUME NEW r \in Runs, TypeInv, Start(r) \/ RunStep(r)
  PROVE  TypeInv'
  <1> USE IdsAreTyped, LoopConstants, BreakerKept, BreakerIsTyped
      DEF TypeInv, LoopTypeOK, SharedTypeOK, LocalTypeOK, HistoryTypeOK, AnswersLeft,
          JobsNamed, Steps, shared, call, outcome, history, Goto, Return
  <1>a. ASSUME NEW ids \in SUBSET AllIds, BreakerInv', Answer(r, ids), NextCall(r),
               UNCHANGED <<shared, iter, asked, outcome, history>>
        PROVE  TypeInv'
    <2>1. SharedTypeOK' /\ HistoryTypeOK'
      BY <1>a
    <2>2. LocalTypeOK' /\ AnswersLeft' /\ JobsNamed'
      BY <1>a, AnsweredTyped
    <2> QED
      BY <1>a, <2>1, <2>2
  <1>1. CASE Start(r)
    <2>1. messages' \in Seq(Messages)
      BY <1>1 DEF Start
    <2>2. trimmed' \in BOOLEAN
      BY <1>1, Zenon DEF Start
    <2>3. QED
      BY <1>1, <2>1, <2>2 DEF Start
  <1>2. CASE Retrieve(r)
    <2>1. messages' \in Seq(Messages) /\ trimmed' \in BOOLEAN
      BY <1>2, MessageAdded DEF Retrieve, Roles
    <2>2. QED
      BY <1>2, <2>1 DEF Retrieve
  <1>3. CASE Ask(r)
    <2>1. messages' \in Seq(Messages) /\ trimmed' \in BOOLEAN
      BY <1>3, MessageAdded DEF Ask, Roles
    <2>2. QED
      BY <1>3, <2>1 DEF Ask
  <1>4. CASE Abort(r)
    BY <1>4 DEF Abort
  <1>5. CASE StopAtMax(r)
    BY <1>5 DEF StopAtMax
  <1>6. CASE Send(r)
    BY <1>6 DEF Send
  <1>7. CASE LLMFails(r)
    BY <1>7 DEF LLMFails
  <1>8. ASSUME NEW n \in 0..MaxCalls, Reply(r, n) PROVE TypeInv'
    <2>1. messages' \in Seq(Messages) /\ trimmed' \in BOOLEAN
      BY <1>8, MessagesTrimmed DEF Reply
    <2>2. QED
      BY <1>8, <2>1 DEF Reply
  <1>9. CASE RecordFinal(r)
    <2>1. messages' \in Seq(Messages) /\ trimmed' \in BOOLEAN
      BY <1>9, MessageAdded DEF RecordFinal, Roles
    <2>2. QED
      BY <1>9, <2>1 DEF RecordFinal
  <1>10. CASE RecordCalls(r)
    <2>1. messages' \in Seq(Messages) /\ trimmed' \in BOOLEAN
      BY <1>10, MessageAdded DEF RecordCalls, Roles
    <2>2. QED
      BY <1>10, <2>1 DEF RecordCalls
  <1>11. ASSUME NEW t \in Names, BreakerRefuses(r, t) PROVE TypeInv'
    <2>1. BreakerInv'
      BY <1>11, ConsultKeepsBreaker DEF BreakerRefuses
    <2>2. /\ Answer(r, {CallId(r)}) /\ NextCall(r)
          /\ UNCHANGED <<shared, iter, asked, outcome, history>>
      BY <1>11 DEF BreakerRefuses
    <2>3. QED
      BY <1>a, <2>1, <2>2
  <1>12. ASSUME NEW t \in Names, BreakerAdmits(r, t) PROVE TypeInv'
    <2>1. BreakerInv'
      BY <1>12, ConsultKeepsBreaker DEF BreakerAdmits
    <2>2. QED
      BY <1>12, <2>1 DEF BreakerAdmits
  <1>13. CASE EvaluationFails(r)
    BY <1>13, <1>a DEF EvaluationFails
  <1>14. CASE GatewayBlocks(r)
    BY <1>14, <1>a DEF GatewayBlocks
  <1>15. ASSUME NEW l \in EvalLevels[tool[r]], GatewayAllows(r, l) PROVE TypeInv'
    BY <1>15 DEF GatewayAllows
  <1>16. CASE Confirm(r)
    BY <1>16 DEF Confirm
  <1>17. CASE Decline(r)
    BY <1>17, <1>a DEF Decline
  <1>18. CASE Snapshot(r)
    <2>1. [taken |-> TRUE, state |-> cluster] \in Snapshots
      BY DEF Snapshots
    <2>2. snap' \in [Runs -> Snapshots]
      BY <1>18, <2>1 DEF Snapshot, Capture
    <2>3. QED
      BY <1>18, <2>2 DEF Snapshot
  <1>19. CASE ExecuteNothing(r)
    BY <1>19, <1>a DEF ExecuteNothing
  <1>20. ASSUME NEW ok \in BOOLEAN, ExecuteTool(r, ok) PROVE TypeInv'
    <2>1. cluster' \subseteq AllIds /\ jobs' \subseteq JobTools
      BY <1>20, EffectsTyped, JobsTyped DEF ExecuteTool
    <2>2. /\ results' \in [Runs -> Seq(SUBSET AllIds)] /\ Len(results'[r]) > 0
          /\ \A q \in Runs \ {r} : results'[q] = results[q]
      BY <1>20, AnswerTyped DEF ExecuteTool
    <2>3. Execution(tool[r], CallId(r), lvl[r], ok, FALSE) \in Executions
      BY <1>20, ExecutionTyped DEF ExecuteTool, Reached, Registered
    <2>4. ran' \subseteq Executions
      BY <1>20, <2>3 DEF ExecuteTool
    <2>5. CASE NextCall(r)
      BY <1>20, <2>1, <2>2, <2>4, <2>5, NextCallTyped DEF ExecuteTool
    <2>6. CASE Goto(r, "rollback") /\ UNCHANGED <<turn, tool, lvl, snap>>
      BY <1>20, <2>1, <2>2, <2>4, <2>6 DEF ExecuteTool
    <2>7. QED
      BY <1>20, <2>5, <2>6 DEF ExecuteTool
  <1>21. CASE Rollback(r)
    <2>1. snap[r].state \subseteq AllIds
      BY DEF Snapshots
    <2>2. cluster' \subseteq AllIds
      BY <1>21, <2>1 DEF Rollback
    <2>3. pc[r] = "rollback" /\ NextCall(r) /\ results' = results
      BY <1>21 DEF Rollback
    <2>4. AnswersLeft' /\ JobsNamed'
      BY <2>3, NextCallTyped
    <2>5. QED
      BY <1>21, <2>2, <2>4, NextCallTyped DEF Rollback
  <1>22. CASE Observe(r)
    <2>1. results[r] \in Seq(SUBSET AllIds) /\ Len(results[r]) > 0
      BY <1>22 DEF Observe
    <2>2. /\ Head(results[r]) \in SUBSET AllIds
          /\ Tail(results[r]) \in Seq(SUBSET AllIds)
          /\ Len(results[r]) > 1 => Len(Tail(results[r])) > 0
      BY <2>1, ObservedAnswers
    <2>3. messages' \in Seq(Messages) /\ trimmed' \in BOOLEAN
      BY <1>22, <2>2, MessageAdded DEF Observe, Roles
    <2>4. /\ results' \in [Runs -> Seq(SUBSET AllIds)]
          /\ results' = [results EXCEPT ![r] = Tail(results[r])]
      BY <1>22, <2>2 DEF Observe
    <2>5. CASE Len(results[r]) > 1
      BY <1>22, <2>2, <2>3, <2>4, <2>5 DEF Observe
    <2>6. CASE ~(Len(results[r]) > 1)
      <3>1. pc' = [pc EXCEPT ![r] = "check"] /\ iter' = [iter EXCEPT ![r] = iter[r] + 1]
        BY <1>22, <2>6 DEF Observe, NextIteration
      <3>2. LocalTypeOK'
        BY <1>22, <3>1, <2>4 DEF Observe
      <3>3. AnswersLeft' /\ JobsNamed'
        BY <1>22, <3>1, <2>4 DEF Observe
      <3>4. QED
        BY <1>22, <2>3, <3>2, <3>3 DEF Observe
    <2>7. QED
      BY <2>5, <2>6
  <1>23. CASE Finish(r)
    BY <1>23 DEF Finish
  <1>24. CASE Panic(r)
    <2>1. cluster' \subseteq AllIds
      BY <1>24, EffectsTyped DEF Panic
    <2>2. QED
      BY <1>24, <2>1 DEF Panic
  <1>25. ASSUME NEW t \in jobs, RunJobNow(r, t) PROVE TypeInv'
    <2>1. t \in JobTools /\ t \in Names
      BY DEF JobTools, Names
    <2>2. Execution(SchedulerTool, CallId(r), lvl[r], TRUE, FALSE) \in Executions
      BY <1>25, ExecutionTyped DEF RunJobNow, Reached, Registered
    <2>3. QED
      BY <1>25, <2>1, <2>2 DEF RunJobNow
  <1>26. ASSUME NEW ok \in BOOLEAN, JobEnds(r, ok) PROVE TypeInv'
    <2>1. cluster' \subseteq AllIds
      BY <1>26, EffectsTyped DEF JobEnds
    <2>2. Execution(tool[r], CallId(r), lvl[r], ok, TRUE) \in Executions
      BY <1>26, ExecutionTyped DEF JobEnds, JobTools
    <2>3. SharedTypeOK' /\ HistoryTypeOK' /\ BreakerInv'
      BY <1>26, <2>1, <2>2 DEF JobEnds
    <2>4. LocalTypeOK' /\ AnswersLeft' /\ JobsNamed'
      BY <1>26, AnsweredTyped DEF JobEnds
    <2>5. QED
      BY <2>3, <2>4
  <1>27. QED
    BY <1>1, <1>2, <1>3, <1>4, <1>5, <1>6, <1>7, <1>8, <1>9, <1>10, <1>11, <1>12,
       <1>13, <1>14, <1>15, <1>16, <1>17, <1>18, <1>19, <1>20, <1>21, <1>22, <1>23,
       <1>24, <1>25, <1>26
    DEF RunStep

(* What a step of the ticker leaves alone.                                    *)
LEMMA TickerChanges ==
  ASSUME NEW n, NEW t, NEW ok \in BOOLEAN, RunDueJob(n, t, ok)
  PROVE  /\ UNCHANGED <<cb, granted, config, messages, trimmed, jobs, pc, iter>>
         /\ UNCHANGED <<asked, turn, tool, lvl, snap, results, session, ret, admitted>>
         /\ ran' = ran \cup {Execution(t, DueId(n), 0, ok, TRUE)}
         /\ cluster' \in Effects(t, DueId(n), ok)
  BY DEF RunDueJob, call, outcome

LEMMA TickerTypeInv ==
  ASSUME TypeInv, NEW n \in 1..MaxDue, NEW t \in jobs, NEW ok \in BOOLEAN,
         RunDueJob(n, t, ok)
  PROVE  TypeInv'
  <1>0. /\ UNCHANGED <<pc, iter, asked, turn, tool, lvl, snap, results, session, ret, admitted>>
        /\ ran' = ran \cup {Execution(t, DueId(n), 0, ok, TRUE)}
    BY TickerChanges
  <1>1. DueId(n) \in AllIds /\ t \in Tools /\ 0 \in Levels
    BY LoopConstants DEF TypeInv, LoopTypeOK, SharedTypeOK, JobTools, AllIds, DueId, Levels
  <1>2. cluster' \subseteq AllIds
    BY <1>1, TickerChanges, EffectsTyped DEF TypeInv, LoopTypeOK
  <1>3. SharedTypeOK'
    BY <1>2, TickerChanges DEF TypeInv, LoopTypeOK, SharedTypeOK
  <1>4. HistoryTypeOK'
    <2>1. Execution(t, DueId(n), 0, ok, TRUE) \in Executions
      BY <1>1, ExecutionTyped
    <2>2. QED
      BY <1>0, <2>1 DEF TypeInv, LoopTypeOK, HistoryTypeOK
  <1>5. LocalTypeOK' /\ AnswersLeft' /\ JobsNamed'
    BY <1>0 DEF TypeInv, LoopTypeOK, LocalTypeOK, AnswersLeft, JobsNamed
  <1>6. BreakerInv'
    BY TickerChanges, BreakerKept DEF TypeInv
  <1>7. QED
    BY <1>3, <1>4, <1>5, <1>6, BreakerIsTyped DEF TypeInv, LoopTypeOK

LEMMA LoopStepTypeInv == TypeInv /\ [LoopNext]_loopVars => TypeInv'
  <1> SUFFICES ASSUME TypeInv, [LoopNext]_loopVars PROVE TypeInv'
    OBVIOUS
  <1>1. ASSUME NEW r \in Runs, Start(r) \/ RunStep(r) PROVE TypeInv'
    BY <1>1, StepTypeInv
  <1>2. CASE UNCHANGED loopVars
    BY <1>2, BreakerKept
    DEF loopVars, shared, call, outcome, history, TypeInv, LoopTypeOK, SharedTypeOK,
        LocalTypeOK, HistoryTypeOK, AnswersLeft, JobsNamed, BreakerTypeOK
  <1>3. QED
    BY <1>1, <1>2, TickerTypeInv DEF LoopNext, TickerStep, AllReturned

LEMMA TypeInvHolds == LoopSpec => []TypeInv
  BY LoopInitTypeInv, LoopStepTypeInv, PTL DEF LoopSpec

(* Type correctness, for every number of runs and every configuration. *)
THEOREM LoopTypeCorrect == LoopSpec => []LoopTypeOK
  <1>1. TypeInv => LoopTypeOK
    BY DEF TypeInv
  <1>2. QED
    BY <1>1, TypeInvHolds, PTL

-----------------------------------------------------------------------------
(* The three safety invariants follow from what is known of a call while it   *)
(* is on its way from the breaker to the tool.                                *)

InCall == {"gateway", "confirm", "snapshot", "execute", "rollback"}

(* A call is at the level it was evaluated at until it is executed.           *)
PolicyInv ==
  /\ \A x \in Calls : x.eval <= Ceiling(config.policy)
  /\ \A r \in Runs :
       pc[r] \in {"snapshot", "execute"} => lvl[r] <= Ceiling(config.policy)
  /\ \A r \in Runs :
       pc[r] \in {"confirm", "snapshot", "execute"} => lvl[r] \in EvalLevels[tool[r]]

(* Where nothing may be changed, nothing is saved to be restored and no job   *)
(* is ever there to be run.                                                   *)
ReadOnly ==
  config.dryRun \/ (ChangesAreEvaluated /\ config.policy \in {"none", "strict", "safe"})

Untouched ==
  cluster = {} /\ jobs = {} /\ \A r \in Runs : snap[r].state = {} /\ pc[r] # "job"

DryRunInv ==
  /\ ReadOnly => Untouched
  /\ config.dryRun => \A x \in ran : x.level = 0

AdmittedInv ==
  /\ ExecutedL2 \subseteq admitted
  /\ \A r \in Runs :
       pc[r] \in InCall /\ IsL2Plus(tool[r]) => CallId(r) \in admitted

CallInv == PolicyInv /\ DryRunInv /\ AdmittedInv

LEMMA LoopInitCallInv == LoopInit => CallInv
  <1> SUFFICES ASSUME LoopInit PROVE CallInv
    OBVIOUS
  <1> USE DEF LoopInit
  <1>1. PolicyInv
    BY DEF PolicyInv, Calls
  <1>2. DryRunInv
    BY DEF DryRunInv, Untouched, NoSnap
  <1>3. AdmittedInv
    BY DEF AdmittedInv, ExecutedL2, Calls, InCall
  <1>4. QED
    BY <1>1, <1>2, <1>3 DEF CallInv

(* A step of r leaves the other runs where they are.                          *)
Elsewhere(r) ==
  \A q \in Runs \ {r} :
    /\ pc'[q] = pc[q] /\ lvl'[q] = lvl[q] /\ snap'[q] = snap[q]
    /\ tool'[q] = tool[q] /\ turn'[q] = turn[q] /\ iter'[q] = iter[q]

(* Most steps execute nothing and take r out of the call, or keep it out.     *)
Quiet(r) ==
  /\ UNCHANGED <<config, cluster, jobs, ran, admitted>>
  /\ Elsewhere(r)
  /\ pc'[r] \notin InCall \cup {"job"} /\ snap'[r] \in {snap[r], NoSnap}

LEMMA QuietKeepsCallInv ==
  ASSUME NEW r \in Runs, CallInv, Quiet(r)
  PROVE  CallInv'
  <1> USE DEF CallInv, Quiet, Elsewhere
  <1>1. PolicyInv'
    BY DEF PolicyInv, Calls, InCall
  <1>2. DryRunInv'
    BY DEF DryRunInv, ReadOnly, Untouched, NoSnap
  <1>3. AdmittedInv'
    BY DEF AdmittedInv, ExecutedL2, Calls, CallId
  <1>4. QED
    BY <1>1, <1>2, <1>3

LEMMA NextCallIsQuiet ==
  ASSUME NEW r \in Runs, LocalTypeOK, NextCall(r), iter' = iter
  PROVE  /\ Elsewhere(r)
         /\ pc'[r] \in {"breaker", "observe"} /\ snap'[r] = NoSnap
  BY DEF LocalTypeOK, NextCall, LeaveScope, Goto, Elsewhere

LEMMA QuietSteps ==
  ASSUME NEW r \in Runs, TypeInv,
         \/ Start(r) \/ Retrieve(r) \/ Ask(r) \/ Abort(r) \/ StopAtMax(r) \/ Send(r)
         \/ LLMFails(r) \/ (\E n \in 0..MaxCalls : Reply(r, n))
         \/ RecordFinal(r) \/ RecordCalls(r)
         \/ (\E t \in Names : BreakerRefuses(r, t))
         \/ EvaluationFails(r) \/ GatewayBlocks(r) \/ Decline(r) \/ ExecuteNothing(r)
         \/ Observe(r) \/ Finish(r)
  PROVE  Quiet(r)
  <1> USE DEF TypeInv, LoopTypeOK, LocalTypeOK, Quiet, InCall, shared, call, outcome,
              history, Goto, Return
  <1>1. CASE Start(r) \/ Retrieve(r) \/ Ask(r)
    BY <1>1 DEF Start, Retrieve, Ask, Elsewhere
  <1>2. CASE Abort(r) \/ StopAtMax(r) \/ Send(r) \/ LLMFails(r)
    BY <1>2 DEF Abort, StopAtMax, Send, LLMFails, Elsewhere
  <1>3. ASSUME NEW n \in 0..MaxCalls, Reply(r, n) PROVE Quiet(r)
    BY <1>3 DEF Reply, Elsewhere
  <1>4. CASE RecordFinal(r) \/ RecordCalls(r) \/ Finish(r)
    BY <1>4 DEF RecordFinal, RecordCalls, Finish, Elsewhere
  <1>5. CASE Observe(r)
    BY <1>5 DEF Observe, Elsewhere
  <1>6. ASSUME NEW t \in Names, BreakerRefuses(r, t) PROVE Quiet(r)
    BY <1>6, NextCallIsQuiet DEF BreakerRefuses
  <1>7. CASE EvaluationFails(r) \/ GatewayBlocks(r) \/ Decline(r) \/ ExecuteNothing(r)
    BY <1>7, NextCallIsQuiet
    DEF EvaluationFails, GatewayBlocks, Decline, ExecuteNothing
  <1>8. QED
    BY <1>1, <1>2, <1>3, <1>4, <1>5, <1>6, <1>7

(* Where nothing may be changed, the tool reached is neither one that changes *)
(* the cluster nor the scheduler's: those are previewed, or not approved.     *)
LEMMA ReadOnlyReaches ==
  ASSUME NEW r \in Runs, TypeInv, CallInv, ReadOnly, Reached(r)
  PROVE  /\ ToolLevel[tool[r]] < 2 /\ tool[r] # SchedulerTool
         /\ config.dryRun => ToolLevel[tool[r]] = 0
  <1>1. tool[r] \in Tools /\ ToolLevel[tool[r]] \in Levels /\ pc[r] = "execute"
    BY LoopConstants DEF Reached, Registered
  <1>2. CASE config.dryRun
    <2>1. ToolLevel[tool[r]] = 0
      BY <1>2 DEF Reached, Previews
    <2>2. QED
      BY <1>1, <2>1, LoopConstants
  <1>3. CASE ~config.dryRun
    <2>1. ChangesAreEvaluated /\ config.policy \in {"none", "strict", "safe"}
      BY <1>3 DEF ReadOnly
    <2>2. lvl[r] <= 1 /\ lvl[r] \in EvalLevels[tool[r]]
      BY <1>1, <2>1 DEF CallInv, PolicyInv, Ceiling
    <2>3. EvalLevels[tool[r]] \subseteq Levels
      BY <1>1, LoopConstants DEF Names
    <2>4. ~(ToolLevel[tool[r]] >= 2 \/ tool[r] = SchedulerTool)
      BY <1>1, <2>1, <2>2, <2>3 DEF ChangesAreEvaluated, Levels
    <2>5. QED
      BY <1>1, <1>3, <2>4 DEF Levels
  <1>4. QED
    BY <1>2, <1>3

(* What an execution adds to the history. *)
LEMMA ExecutionKeepsCallInv ==
  ASSUME NEW r \in Runs, NEW ok \in BOOLEAN, TypeInv, CallInv, ExecuteTool(r, ok)
  PROVE  CallInv'
  <1> DEFINE x == Execution(tool[r], CallId(r), lvl[r], ok, FALSE)
  <1>1. ran' = ran \cup {x} /\ Reached(r) /\ pc[r] = "execute" /\ Registered(tool[r])
    BY DEF ExecuteTool, Reached
  <1>2. UNCHANGED <<config, iter, admitted>>
    BY DEF ExecuteTool
  <1>3. Elsewhere(r) /\ snap'[r] \in {snap[r], NoSnap}
    BY NextCallIsQuiet
    DEF ExecuteTool, TypeInv, LoopTypeOK, LocalTypeOK, Goto, Elsewhere
  <1>4. \/ pc'[r] = "rollback" /\ tool'[r] = tool[r] /\ turn'[r] = turn[r]
        \/ pc'[r] \in {"breaker", "observe"}
    BY NextCallIsQuiet DEF ExecuteTool, TypeInv, LoopTypeOK, LocalTypeOK, Goto
  <1>5. PolicyInv'
    <2>1. x.eval <= Ceiling(config.policy)
      BY <1>1 DEF CallInv, PolicyInv, Execution
    <2>2. \A y \in Calls' : y.eval <= Ceiling(config.policy)
      BY <1>1, <2>1 DEF CallInv, PolicyInv, Calls
    <2>3. QED
      BY <1>2, <1>3, <1>4, <2>2 DEF CallInv, PolicyInv, Elsewhere
  <1>6. DryRunInv'
    <2> SUFFICES ASSUME ReadOnly
                 PROVE  Untouched' /\ (config.dryRun => \A y \in ran' : y.level = 0)
      BY <1>2 DEF DryRunInv, ReadOnly
    <2>1. /\ ToolLevel[tool[r]] < 2 /\ tool[r] # SchedulerTool
          /\ config.dryRun => ToolLevel[tool[r]] = 0
      BY <1>1, ReadOnlyReaches
    <2>2. cluster' = {} /\ jobs' = {}
      BY <2>1 DEF ExecuteTool, Effects, Managed, CallInv, DryRunInv, Untouched
    <2>3. Untouched'
      BY <1>3, <1>4, <2>2 DEF CallInv, DryRunInv, Untouched, Elsewhere, NoSnap
    <2>4. QED
      BY <1>1, <2>1, <2>3 DEF CallInv, DryRunInv, Execution
  <1>7. AdmittedInv'
    <2>1. x.level >= 2 => x.id \in admitted
      BY <1>1 DEF CallInv, AdmittedInv, InCall, IsL2Plus, Execution
    <2>2. ExecutedL2' \subseteq admitted'
      BY <1>1, <1>2, <2>1 DEF CallInv, AdmittedInv, ExecutedL2, Calls
    <2>3. QED
      BY <1>1, <1>2, <1>3, <1>4, <2>2
      DEF CallInv, AdmittedInv, Elsewhere, InCall, CallId
  <1>8. QED
    BY <1>5, <1>6, <1>7 DEF CallInv

(* A job adds no call, and none runs where nothing may be changed.            *)
LEMMA RunNowKeepsCallInv ==
  ASSUME NEW r \in Runs, NEW t \in jobs, TypeInv, CallInv, RunJobNow(r, t)
  PROVE  CallInv'
  <1> DEFINE x == Execution(SchedulerTool, CallId(r), lvl[r], TRUE, FALSE)
  <1>1. /\ ran' = ran \cup {x} /\ Reached(r) /\ pc[r] = "execute" /\ tool[r] = SchedulerTool
        /\ UNCHANGED <<config, cluster, jobs, admitted, iter, turn, lvl, snap>>
    BY DEF RunJobNow, Reached, shared
  <1>2. Elsewhere(r) /\ pc'[r] = "job"
    BY DEF RunJobNow, Goto, TypeInv, LoopTypeOK, LocalTypeOK, Elsewhere
  <1>3. ~ReadOnly
    BY <1>1 DEF CallInv, DryRunInv, Untouched
  <1>4. PolicyInv'
    <2>1. x.eval <= Ceiling(config.policy)
      BY <1>1 DEF CallInv, PolicyInv, Execution
    <2>2. \A y \in Calls' : y.eval <= Ceiling(config.policy)
      BY <1>1, <2>1 DEF CallInv, PolicyInv, Calls
    <2>3. QED
      BY <1>1, <1>2, <2>2 DEF CallInv, PolicyInv, Elsewhere
  <1>5. DryRunInv'
    BY <1>1, <1>3 DEF DryRunInv, ReadOnly
  <1>6. AdmittedInv'
    <2>1. x.level = 1
      BY <1>1, LoopConstants DEF Reached, Registered, Execution
    <2>2. Calls' = Calls \cup {x} /\ ~(x.level >= 2)
      BY <1>1, <2>1 DEF Calls, Execution
    <2> HIDE DEF x
    <2>3. ExecutedL2' = ExecutedL2
      BY <2>2 DEF ExecutedL2
    <2>4. QED
      BY <1>1, <1>2, <2>3 DEF CallInv, AdmittedInv, Elsewhere, InCall, CallId
  <1>7. QED
    BY <1>4, <1>5, <1>6 DEF CallInv

LEMMA JobKeepsCallInv ==
  ASSUME NEW r \in Runs, NEW ok \in BOOLEAN, TypeInv, CallInv, JobEnds(r, ok)
  PROVE  CallInv'
  <1> DEFINE x == Execution(tool[r], CallId(r), lvl[r], ok, TRUE)
  <1>1. /\ ran' = ran \cup {x} /\ pc[r] = "job" /\ NextCall(r)
        /\ UNCHANGED <<config, jobs, admitted, iter>>
    BY DEF JobEnds
  <1>2. Elsewhere(r) /\ pc'[r] \in {"breaker", "observe"} /\ snap'[r] = NoSnap
    BY <1>1, NextCallIsQuiet DEF TypeInv, LoopTypeOK
  <1>3. Calls' = Calls
    BY <1>1 DEF Calls, Execution
  <1>4. PolicyInv'
    BY <1>1, <1>2, <1>3 DEF CallInv, PolicyInv, Elsewhere
  <1>5. DryRunInv'
    BY <1>1 DEF CallInv, DryRunInv, ReadOnly, Untouched
  <1>6. AdmittedInv'
    BY <1>1, <1>2, <1>3 DEF CallInv, AdmittedInv, ExecutedL2, Elsewhere, InCall, CallId
  <1>7. QED
    BY <1>4, <1>5, <1>6 DEF CallInv

LEMMA TickerKeepsCallInv ==
  ASSUME CallInv, NEW n, NEW t \in jobs, NEW ok \in BOOLEAN, RunDueJob(n, t, ok)
  PROVE  CallInv'
  <1>1. /\ UNCHANGED <<config, jobs, pc, iter, turn, tool, lvl, snap, admitted>>
        /\ ran' = ran \cup {Execution(t, DueId(n), 0, ok, TRUE)}
    BY TickerChanges
  <1>2. Calls' = Calls
    BY <1>1 DEF Calls, Execution
  <1>3. PolicyInv'
    BY <1>1, <1>2 DEF CallInv, PolicyInv
  <1>4. DryRunInv'
    BY <1>1 DEF CallInv, DryRunInv, ReadOnly, Untouched
  <1>5. AdmittedInv'
    BY <1>1, <1>2 DEF CallInv, AdmittedInv, ExecutedL2, CallId
  <1>6. QED
    BY <1>3, <1>4, <1>5 DEF CallInv

LEMMA AdmissionKeepsCallInv ==
  ASSUME NEW r \in Runs, NEW t \in Names, TypeInv, CallInv, BreakerAdmits(r, t)
  PROVE  CallInv'
  <1>1. /\ UNCHANGED <<config, cluster, jobs, ran, snap, lvl, turn, iter>> /\ pc'[r] = "gateway"
        /\ tool'[r] = t /\ Elsewhere(r)
    BY DEF BreakerAdmits, shared, outcome, TypeInv, LoopTypeOK, LocalTypeOK, Goto, Elsewhere
  <1>2. admitted \subseteq admitted' /\ (IsL2Plus(t) => CallId(r) \in admitted')
    BY DEF BreakerAdmits, IsL2Plus
  <1>3. PolicyInv'
    BY <1>1 DEF CallInv, PolicyInv, Calls, Elsewhere
  <1>4. DryRunInv'
    BY <1>1 DEF CallInv, DryRunInv, ReadOnly, Untouched, Elsewhere
  <1>5. AdmittedInv'
    BY <1>1, <1>2 DEF CallInv, AdmittedInv, ExecutedL2, Calls, Elsewhere, CallId
  <1>6. QED
    BY <1>3, <1>4, <1>5 DEF CallInv

(* The steps in between: gateway, confirmation, snapshot.                     *)
LEMMA PassageKeepsCallInv ==
  ASSUME NEW r \in Runs, TypeInv, CallInv,
         \/ \E l \in EvalLevels[tool[r]] : GatewayAllows(r, l)
         \/ Confirm(r) \/ Snapshot(r)
  PROVE  CallInv'
  <1> USE DEF TypeInv, LoopTypeOK, SharedTypeOK, LocalTypeOK, shared, call, outcome, history,
              Goto
  <1>1. /\ UNCHANGED <<config, cluster, jobs, ran, admitted, tool, turn, iter>>
        /\ Elsewhere(r) /\ pc[r] \in InCall /\ snap'[r].state \in {snap[r].state, cluster}
    <2>1. ASSUME NEW l \in EvalLevels[tool[r]], GatewayAllows(r, l) PROVE <1>1!2 /\ <1>1!1
      BY <2>1 DEF GatewayAllows, Elsewhere, InCall
    <2>2. CASE Confirm(r)
      BY <2>2 DEF Confirm, Elsewhere, InCall
    <2>3. CASE Snapshot(r)
      BY <2>3 DEF Snapshot, Capture, Snapshots, Elsewhere, InCall
    <2>4. QED
      BY <2>1, <2>2, <2>3
  <1>2. pc'[r] \in {"snapshot", "execute"} => lvl'[r] <= Ceiling(config.policy)
    <2>1. ASSUME NEW l \in EvalLevels[tool[r]], GatewayAllows(r, l),
                 pc'[r] \in {"snapshot", "execute"}
          PROVE  lvl'[r] <= Ceiling(config.policy)
      <3>1. l \in Levels /\ lvl'[r] = l
        BY <2>1, LoopConstants DEF GatewayAllows
      <3>2. l < 2
        BY <2>1, <3>1 DEF GatewayAllows, RequiresConfirmation, Levels
      <3>3. Ceiling(config.policy) \in {1, 2, 4}
        BY LoopConstants DEF Ceiling, Policies
      <3>4. QED
        BY <3>1, <3>2, <3>3 DEF Levels
    <2>2. CASE Confirm(r)
      <3>1. lvl'[r] = lvl[r] /\ lvl[r] \in Levels /\ MayApprove(lvl[r])
        BY <2>2 DEF Confirm
      <3>2. config.policy \in Policies
        BY LoopConstants
      <3>3. CASE config.policy = "none"
        BY <3>1, <3>3 DEF MayApprove
      <3>4. CASE config.policy = "strict"
        BY <3>1, <3>4 DEF MayApprove, Ceiling, Levels
      <3>5. CASE config.policy = "safe"
        BY <3>1, <3>5 DEF MayApprove, Ceiling, Levels
      <3>6. CASE config.policy = "all"
        BY <3>1, <3>6 DEF MayApprove, Ceiling, Levels
      <3>7. CASE config.policy = "interactive"
        BY <3>1, <3>7 DEF Ceiling, Levels
      <3>8. QED
        BY <3>2, <3>3, <3>4, <3>5, <3>6, <3>7 DEF Policies
    <2>3. CASE Snapshot(r)
      BY <2>3 DEF Snapshot, CallInv, PolicyInv
    <2>4. QED
      BY <2>1, <2>2, <2>3
  <1>e. pc'[r] \in {"confirm", "snapshot", "execute"} /\ lvl'[r] \in EvalLevels[tool[r]]
    <2>1. ASSUME NEW l \in EvalLevels[tool[r]], GatewayAllows(r, l) PROVE <1>e!1 /\ <1>e!2
      BY <2>1 DEF GatewayAllows
    <2>2. CASE Confirm(r)
      BY <2>2 DEF Confirm, CallInv, PolicyInv
    <2>3. CASE Snapshot(r)
      BY <2>3 DEF Snapshot, CallInv, PolicyInv
    <2>4. QED
      BY <2>1, <2>2, <2>3
  <1> HIDE DEF TypeInv, LoopTypeOK, SharedTypeOK, LocalTypeOK
  <1>3. PolicyInv'
    BY <1>1, <1>2, <1>e DEF CallInv, PolicyInv, Calls, Elsewhere
  <1>4. DryRunInv'
    BY <1>1, <1>e DEF CallInv, DryRunInv, ReadOnly, Untouched, Elsewhere
  <1>5. AdmittedInv'
    BY <1>1 DEF CallInv, AdmittedInv, ExecutedL2, Calls, Elsewhere, CallId
  <1>6. QED
    BY <1>3, <1>4, <1>5 DEF CallInv

LEMMA StepCallInv ==
  ASSUME NEW r \in Runs, TypeInv, CallInv, Start(r) \/ RunStep(r)
  PROVE  CallInv'
  <1>1. CASE Rollback(r)
    <2>1. /\ UNCHANGED <<config, jobs, ran, admitted, iter>> /\ NextCall(r)
          /\ cluster' \in {snap[r].state, cluster}
      BY <1>1 DEF Rollback, outcome, history
    <2>2. /\ Elsewhere(r) /\ pc'[r] \in {"breaker", "observe"} /\ snap'[r] = NoSnap
      BY <2>1, NextCallIsQuiet DEF TypeInv, LoopTypeOK
    <2>3. PolicyInv'
      BY <2>1, <2>2 DEF CallInv, PolicyInv, Calls, Elsewhere
    <2>4. DryRunInv'
      BY <2>1, <2>2 DEF CallInv, DryRunInv, ReadOnly, Untouched, Elsewhere, NoSnap
    <2>5. AdmittedInv'
      BY <2>1, <2>2 DEF CallInv, AdmittedInv, ExecutedL2, Calls, Elsewhere, CallId, InCall
    <2>6. QED
      BY <2>3, <2>4, <2>5 DEF CallInv
  <1>2. CASE Panic(r)
    <2>1. /\ UNCHANGED <<config, jobs, ran, admitted, iter, turn, tool, lvl, snap>>
          /\ Elsewhere(r) /\ pc'[r] = "returned"
      BY <1>2 DEF Panic, Return, Goto, call, history, Elsewhere, TypeInv, LoopTypeOK, LocalTypeOK
    <2>2. ReadOnly => cluster' = {}
      BY <1>2, ReadOnlyReaches DEF Panic, InTool, Effects, CallInv, DryRunInv, Untouched
    <2>3. PolicyInv'
      BY <2>1 DEF CallInv, PolicyInv, Calls, Elsewhere
    <2>4. DryRunInv'
      BY <2>1, <2>2 DEF CallInv, DryRunInv, ReadOnly, Untouched, Elsewhere
    <2>5. AdmittedInv'
      BY <2>1 DEF CallInv, AdmittedInv, ExecutedL2, Calls, Elsewhere, CallId, InCall
    <2>6. QED
      BY <2>3, <2>4, <2>5 DEF CallInv
  <1>3. ASSUME ~Rollback(r), ~Panic(r)
        PROVE  CallInv'
    BY <1>3, QuietSteps, QuietKeepsCallInv, AdmissionKeepsCallInv, PassageKeepsCallInv,
       ExecutionKeepsCallInv, RunNowKeepsCallInv, JobKeepsCallInv
    DEF RunStep
  <1>4. QED
    BY <1>1, <1>2, <1>3

(* As many L2+ calls are let through as the breaker has granted, or fewer.    *)
CountInv == IsFiniteSet(admitted) /\ Cardinality(admitted) <= granted.l2

LEMMA StepCountInv ==
  ASSUME NEW r \in Runs, TypeInv, CountInv, Start(r) \/ RunStep(r)
  PROVE  CountInv'
  <1> USE DEF CountInv
  <1>1. ASSUME NEW t \in Names, BreakerAdmits(r, t) PROVE CountInv'
    <2>1. Allow(IsWrite(t), IsL2Plus(t)) /\ Admits(IsWrite(t), IsL2Plus(t))
      BY <1>1 DEF BreakerAdmits, Consult
    <2>2. Cardinality(admitted) \in Nat
      BY FS_CardinalityType
    <2>3. CASE IsL2Plus(t)
      <3>1. granted'.l2 = granted.l2 + 1
        <4>1. IsWrite(t)
          BY <2>3, LevelsMakeFlags
        <4>2. AllowWrite(IsWrite(t), IsL2Plus(t))
          BY <2>1, <4>1
          DEF Allow, Admits, AllowRefused, AllowTripsOpen, AllowTripsHalfOpen, AllowRead
        <4>3. QED
          BY <2>3, <4>2 DEF AllowWrite, One
      <3>2. admitted' = admitted \cup {CallId(r)}
        BY <1>1, <2>3 DEF BreakerAdmits, IsL2Plus
      <3>3. IsFiniteSet(admitted') /\ Cardinality(admitted') <= Cardinality(admitted) + 1
        BY <2>2, <3>2, FS_AddElement
      <3>4. granted.l2 \in Nat /\ Cardinality(admitted') \in Nat
        BY <3>3, FS_CardinalityType DEF TypeInv, BreakerInv, BreakerTypeOK
      <3>5. QED
        BY <2>2, <3>1, <3>3, <3>4
    <2>4. CASE ~IsL2Plus(t)
      <3>1. granted'.l2 = granted.l2
        BY <2>1, <2>4, LevelsMakeFlags
        DEF Allow, Admits, AllowRefused, AllowTripsOpen, AllowTripsHalfOpen, AllowWrite,
            AllowRead, One, TypeInv, BreakerInv, BreakerTypeOK, breakerVars
      <3>2. admitted' = admitted
        BY <1>1, <2>4 DEF BreakerAdmits, IsL2Plus
      <3>3. QED
        BY <3>1, <3>2
    <2>5. QED
      BY <2>3, <2>4
  <1>2. ASSUME NEW t \in Names, BreakerRefuses(r, t) PROVE CountInv'
    <2>1. /\ Allow(IsWrite(t), IsL2Plus(t)) /\ ~Admits(IsWrite(t), IsL2Plus(t))
          /\ admitted' = admitted
      BY <1>2 DEF BreakerRefuses, Consult
    <2>2. granted' = granted \/ granted' = [granted EXCEPT !.streak = 0]
      BY <2>1 DEF Allow, AllowRefused, AllowTripsOpen, AllowTripsHalfOpen, AllowWrite,
                  AllowRead, breakerVars
    <2>3. QED
      BY <2>1, <2>2 DEF TypeInv, BreakerInv, BreakerTypeOK
  <1>3. ASSUME UNCHANGED <<granted, admitted>> PROVE CountInv'
    BY <1>3
  <1>4. QED
    BY <1>1, <1>2, <1>3
    DEF RunStep, Start, Retrieve, Ask, Abort, StopAtMax, Send, LLMFails, Reply, RecordFinal,
        RecordCalls, EvaluationFails, GatewayBlocks, GatewayAllows, Confirm, Decline,
        Snapshot, ExecuteNothing, ExecuteTool, RunJobNow, JobEnds, Rollback, Observe,
        Finish, Panic, history

LoopInv == TypeInv /\ CallInv /\ CountInv

LEMMA LoopInitInv == LoopInit => LoopInv
  <1> SUFFICES ASSUME LoopInit PROVE LoopInv
    OBVIOUS
  <1>1. CountInv
    BY FS_EmptySet DEF LoopInit, BreakerInit, NoGrants, CountInv
  <1>2. QED
    BY <1>1, LoopInitTypeInv, LoopInitCallInv DEF LoopInv

LEMMA LoopStepInv == LoopInv /\ [LoopNext]_loopVars => LoopInv'
  <1> SUFFICES ASSUME LoopInv, [LoopNext]_loopVars PROVE LoopInv'
    OBVIOUS
  <1>1. ASSUME NEW r \in Runs, Start(r) \/ RunStep(r) PROVE LoopInv'
    BY <1>1, StepTypeInv, StepCallInv, StepCountInv DEF LoopInv
  <1>2. CASE UNCHANGED loopVars
    <2>1. TypeInv'
      BY <1>2, LoopStepTypeInv DEF LoopInv
    <2>2. CallInv' /\ CountInv'
      BY <1>2
      DEF LoopInv, CallInv, PolicyInv, DryRunInv, ReadOnly, Untouched, AdmittedInv, ExecutedL2,
          Calls, CallId, CountInv, loopVars, shared, call, outcome, history
    <2>3. QED
      BY <2>1, <2>2 DEF LoopInv
  <1>3. ASSUME NEW n \in 1..MaxDue, NEW t \in jobs, NEW ok \in BOOLEAN, RunDueJob(n, t, ok)
        PROVE  LoopInv'
    <2>1. TypeInv' /\ CallInv'
      BY <1>3, TickerTypeInv, TickerKeepsCallInv DEF LoopInv
    <2>2. CountInv'
      BY <1>3, TickerChanges DEF LoopInv, CountInv
    <2>3. QED
      BY <2>1, <2>2 DEF LoopInv
  <1>4. QED
    BY <1>1, <1>2, <1>3 DEF LoopNext, TickerStep, AllReturned

LEMMA LoopInvHolds == LoopSpec => []LoopInv
  BY LoopInitInv, LoopStepInv, PTL DEF LoopSpec

(* No call runs above what the approval policy can approve, and where that is *)
(* no L2 call, nothing is changed: no job is there to change it.              *)
THEOREM PolicyHolds == LoopSpec => []PolicyRespected
  <1>1. LoopInv => PolicyRespected
    BY DEF LoopInv, CallInv, PolicyInv, DryRunInv, ReadOnly, Untouched, PolicyRespected,
           UnapprovedChangesNothing
  <1>2. QED
    BY <1>1, LoopInvHolds, PTL

(* A dry run leaves the cluster as it was, rollbacks, jobs and panics included. *)
THEOREM DryRunHolds == LoopSpec => []DryRunHasNoEffect
  <1>1. LoopInv => DryRunHasNoEffect
    BY DEF LoopInv, CallInv, DryRunInv, ReadOnly, Untouched, DryRunHasNoEffect
  <1>2. QED
    BY <1>1, LoopInvHolds, PTL

(* Any number of runs sharing the breaker execute at most maxL2Ops calls of   *)
(* L2+ tools, whatever jobs they add to the scheduler, run now or leave to    *)
(* its ticker, which are not counted.                                         *)
THEOREM SharedCapHolds == LoopSpec => []ExecutedL2Capped
  <1>1. LoopInv => ExecutedL2Capped
    <2> SUFFICES ASSUME LoopInv PROVE ExecutedL2Capped
      OBVIOUS
    <2>1. /\ IsFiniteSet(admitted) /\ Cardinality(admitted) <= granted.l2
          /\ ExecutedL2 \subseteq admitted
      BY DEF LoopInv, CountInv, CallInv, AdmittedInv
    <2>2. Cardinality(ExecutedL2) <= Cardinality(admitted) /\ IsFiniteSet(ExecutedL2)
      BY <2>1, FS_Subset
    <2>3. granted.l2 <= MaxL2Ops /\ granted.l2 \in Nat /\ MaxL2Ops \in Nat
      BY LimitsArePositive DEF LoopInv, TypeInv, BreakerInv, L2Capped, BreakerTypeOK
    <2>4. Cardinality(ExecutedL2) \in Nat /\ Cardinality(admitted) \in Nat
      BY <2>1, <2>2, FS_CardinalityType
    <2>5. QED
      BY <2>1, <2>2, <2>3, <2>4 DEF ExecutedL2Capped
  <1>2. QED
    BY <1>1, LoopInvHolds, PTL

-----------------------------------------------------------------------------
(* Rollbacks.  A snapshot is older than the execution it is restored after,   *)
(* but a run executes nothing in between; another run does.                   *)

OneRun == \A q, r \in Runs : q = r

Successes == {x.id : x \in {y \in ran : y.ok /\ y.level >= 2 /\ y.id[1] \in Runs}}

RollbackInv ==
  /\ Successes \subseteq cluster
  /\ \A r \in Runs : snap[r].taken => Successes \subseteq snap[r].state
  /\ \A r \in Runs : pc[r] = "rollback" => snap[r].taken

LEMMA RollbackInvKept ==
  ASSUME RollbackInv, Successes' \subseteq Successes, cluster \subseteq cluster',
         \A r \in Runs : /\ snap'[r] \in {snap[r], NoSnap}
                         /\ pc'[r] = "rollback" => snap'[r].taken
  PROVE  RollbackInv'
  BY DEF RollbackInv, NoSnap

LEMMA QuietKeepsRollbackInv ==
  ASSUME NEW r \in Runs, RollbackInv, Quiet(r)
  PROVE  RollbackInv'
  <1>1. Successes' = Successes /\ cluster' = cluster
    BY DEF Quiet, Successes
  <1>2. \A q \in Runs : /\ snap'[q] \in {snap[q], NoSnap}
                        /\ pc'[q] = "rollback" => snap'[q].taken
    BY DEF Quiet, Elsewhere, InCall, RollbackInv
  <1>3. QED
    BY <1>1, <1>2, RollbackInvKept

LEMMA SnapshotKeepsRollbackInv ==
  ASSUME NEW r \in Runs, TypeInv, RollbackInv, Snapshot(r)
  PROVE  RollbackInv'
  <1>1. Successes' = Successes /\ cluster' = cluster
    BY DEF Snapshot, history, shared, Successes
  <1>2. \A q \in Runs : pc'[q] # "rollback" \/ (pc'[q] = pc[q] /\ snap'[q] = snap[q])
    BY DEF Snapshot, Capture, Goto, TypeInv, LoopTypeOK, LocalTypeOK
  <1>3. \A q \in Runs : snap'[q] = snap[q] \/ snap'[q] = [taken |-> TRUE, state |-> cluster]
    BY DEF Snapshot, Capture, TypeInv, LoopTypeOK, LocalTypeOK
  <1>4. QED
    BY <1>1, <1>2, <1>3 DEF RollbackInv

(* An execution that succeeded is in the cluster, and the call it was part of *)
(* leaves no snapshot behind.                                                 *)
LEMMA SuccessKeepsRollbackInv ==
  ASSUME OneRun, NEW r \in Runs, RollbackInv, NEW t, NEW job \in BOOLEAN, NEW eval,
         t \in Tools, cluster' \in Effects(t, CallId(r), TRUE),
         ran' = ran \cup {Execution(t, CallId(r), eval, TRUE, job)},
         pc'[r] # "rollback", snap'[r] = NoSnap
  PROVE  RollbackInv'
  <1>1. cluster \subseteq cluster'
    BY DEF Effects
  <1>2. \A q \in Runs : pc'[q] # "rollback" /\ ~snap'[q].taken
    BY DEF OneRun, NoSnap
  <1>3. Successes' \subseteq Successes \cup (IF ToolLevel[t] >= 2 THEN {CallId(r)} ELSE {})
    BY DEF Successes, Execution
  <1>4. ToolLevel[t] >= 2 => CallId(r) \in cluster'
    <2>1. ToolLevel[t] \in Levels
      BY LoopConstants
    <2>2. QED
      BY <2>1 DEF Effects, Levels
  <1>5. QED
    BY <1>1, <1>2, <1>3, <1>4 DEF RollbackInv

(* The run that executes is the only one that may hold a snapshot.            *)
LEMMA ExecutionKeepsRollbackInv ==
  ASSUME OneRun, NEW r \in Runs, NEW ok \in BOOLEAN, TypeInv, RollbackInv, ExecuteTool(r, ok)
  PROVE  RollbackInv'
  <1>1. cluster \subseteq cluster'
    BY DEF ExecuteTool, Effects
  <1>2. CASE ok
    <2>1. NextCall(r) /\ iter' = iter
      BY <1>2 DEF ExecuteTool
    <2>2. pc'[r] # "rollback" /\ snap'[r] = NoSnap
      BY <2>1, NextCallIsQuiet DEF TypeInv, LoopTypeOK
    <2>3. tool[r] \in Tools
      BY DEF ExecuteTool, Reached, Registered
    <2>4. ok = TRUE
      BY <1>2
    <2>5. QED
      BY <2>2, <2>3, <2>4, SuccessKeepsRollbackInv DEF ExecuteTool
  <1>3. CASE ~ok
    <2>1. Successes' \subseteq Successes
      BY <1>3 DEF ExecuteTool, Successes, Execution
    <2>2. \/ NextCall(r) /\ iter' = iter
          \/ Goto(r, "rollback") /\ snap' = snap /\ snap[r].taken
      BY DEF ExecuteTool
    <2>3. /\ snap'[r] \in {snap[r], NoSnap}
          /\ pc'[r] = "rollback" => snap'[r].taken
      BY <2>2, NextCallIsQuiet DEF TypeInv, LoopTypeOK
    <2>4. QED
      BY <1>1, <2>1, <2>3, RollbackInvKept DEF OneRun
  <1>4. QED
    BY <1>2, <1>3

LEMMA JobKeepsRollbackInv ==
  ASSUME OneRun, NEW r \in Runs, NEW ok \in BOOLEAN, TypeInv, RollbackInv, JobEnds(r, ok)
  PROVE  RollbackInv'
  <1>1. NextCall(r) /\ iter' = iter /\ tool[r] \in Tools
    BY DEF JobEnds, TypeInv, JobsNamed, JobTools
  <1>2. pc'[r] # "rollback" /\ snap'[r] = NoSnap
    BY <1>1, NextCallIsQuiet DEF TypeInv, LoopTypeOK
  <1>3. CASE ok
    <2>1. ok = TRUE
      BY <1>3
    <2>2. QED
      BY <1>1, <1>2, <2>1, SuccessKeepsRollbackInv DEF JobEnds
  <1>4. CASE ~ok
    <2>1. Successes' \subseteq Successes /\ cluster \subseteq cluster'
      BY <1>4 DEF JobEnds, Successes, Execution, Effects
    <2>2. QED
      BY <1>2, <2>1, RollbackInvKept DEF OneRun
  <1>5. QED
    BY <1>3, <1>4

(* The scheduler's call is of level L1 and changes nothing itself; what the   *)
(* ticker does is no success of a run.                                        *)
LEMMA RunNowKeepsRollbackInv ==
  ASSUME NEW r \in Runs, NEW t \in jobs, TypeInv, RollbackInv, RunJobNow(r, t)
  PROVE  RollbackInv'
  <1> DEFINE x == Execution(SchedulerTool, CallId(r), lvl[r], TRUE, FALSE)
  <1>1. /\ ran' = ran \cup {x} /\ cluster' = cluster /\ snap' = snap
        /\ tool[r] = SchedulerTool /\ tool[r] \in Tools
    BY DEF RunJobNow, shared, Reached, Registered
  <1>2. ~(x.level >= 2)
    BY <1>1, LoopConstants DEF Execution
  <1>3. \A q \in Runs : pc'[q] = "rollback" => pc[q] = "rollback"
    BY DEF RunJobNow, Goto, TypeInv, LoopTypeOK, LocalTypeOK
  <1> HIDE DEF x
  <1>4. Successes' = Successes
    BY <1>1, <1>2 DEF Successes
  <1>5. QED
    BY <1>1, <1>3, <1>4, RollbackInvKept DEF RollbackInv

LEMMA TickerKeepsRollbackInv ==
  ASSUME RollbackInv, NEW n, NEW t, NEW ok \in BOOLEAN, RunDueJob(n, t, ok)
  PROVE  RollbackInv'
  <1> DEFINE x == Execution(t, DueId(n), 0, ok, TRUE)
  <1>1. ran' = ran \cup {x} /\ snap' = snap /\ pc' = pc /\ cluster \subseteq cluster'
    BY TickerChanges DEF Effects
  <1>2. x.id[1] \notin Runs
    BY LoopConstants DEF Execution, DueId
  <1> HIDE DEF x
  <1>3. Successes' = Successes
    BY <1>1, <1>2 DEF Successes
  <1>4. QED
    BY <1>1, <1>3, RollbackInvKept DEF RollbackInv

LEMMA StepRollbackInv ==
  ASSUME OneRun, NEW r \in Runs, TypeInv, RollbackInv, Start(r) \/ RunStep(r)
  PROVE  RollbackInv'
  <1>1. CASE Rollback(r)
    <2>1. /\ NextCall(r) /\ iter' = iter /\ pc[r] = "rollback"
          /\ ran' = ran /\ cluster' \in {snap[r].state, cluster}
      BY <1>1 DEF Rollback, history
    <2>2. pc'[r] # "rollback" /\ snap'[r] = NoSnap
      BY <2>1, NextCallIsQuiet DEF TypeInv, LoopTypeOK
    <2>3. \A q \in Runs : pc'[q] # "rollback" /\ ~snap'[q].taken
      BY <2>2 DEF OneRun, NoSnap
    <2>4. Successes' = Successes
      BY <2>1 DEF Successes
    <2>5. QED
      BY <2>1, <2>3, <2>4 DEF RollbackInv
  <1>2. CASE Panic(r)
    <2>1. Successes' = Successes /\ snap' = snap /\ cluster \subseteq cluster'
      BY <1>2 DEF Panic, Effects, call, history, Successes
    <2>2. \A q \in Runs : pc'[q] = "rollback" => pc[q] = "rollback"
      BY <1>2 DEF Panic, Return, Goto, TypeInv, LoopTypeOK, LocalTypeOK
    <2>3. QED
      BY <2>1, <2>2, RollbackInvKept DEF RollbackInv
  <1>3. CASE \/ \E t \in Names : BreakerAdmits(r, t)
             \/ \E l \in EvalLevels[tool[r]] : GatewayAllows(r, l)
             \/ Confirm(r)
    <2>1. ran' = ran /\ snap' = snap /\ cluster' = cluster
      BY <1>3 DEF BreakerAdmits, GatewayAllows, Confirm, shared, call, history
    <2>2. \A q \in Runs : pc'[q] = "rollback" => pc[q] = "rollback"
      BY <1>3 DEF BreakerAdmits, GatewayAllows, Confirm, Goto, TypeInv, LoopTypeOK, LocalTypeOK
    <2>3. Successes' = Successes
      BY <2>1 DEF Successes
    <2>4. QED
      BY <2>1, <2>2, <2>3, RollbackInvKept DEF RollbackInv
  <1>4. CASE Snapshot(r)
    BY <1>4, SnapshotKeepsRollbackInv
  <1>5. CASE \E ok \in BOOLEAN : ExecuteTool(r, ok)
    BY <1>5, ExecutionKeepsRollbackInv
  <1>6. CASE (\E t \in jobs : RunJobNow(r, t)) \/ (\E ok \in BOOLEAN : JobEnds(r, ok))
    BY <1>6, RunNowKeepsRollbackInv, JobKeepsRollbackInv
  <1>7. QED
    BY <1>1, <1>2, <1>3, <1>4, <1>5, <1>6, QuietSteps, QuietKeepsRollbackInv DEF RunStep

(* A loop object used by one run keeps what it did: a rollback undoes the     *)
(* failed call and nothing of the run that succeeded before it, by a call or  *)
(* by a job it ran now.  What the ticker did meanwhile may be undone.         *)
THEOREM LoneRunKeepsSuccesses == OneRun => (LoopSpec => []SuccessesSurvive)
  <1> SUFFICES ASSUME OneRun PROVE LoopSpec => []SuccessesSurvive
    OBVIOUS
  <1>1. LoopInit => RollbackInv
    <2>1. LoopInit => ran = {} /\ \A r \in Runs : snap[r] = NoSnap /\ pc[r] = "idle"
      BY DEF LoopInit
    <2>2. QED
      BY <2>1 DEF RollbackInv, Successes, NoSnap
  <1>2. TypeInv /\ RollbackInv /\ [LoopNext]_loopVars => RollbackInv'
    <2> SUFFICES ASSUME TypeInv, RollbackInv, [LoopNext]_loopVars PROVE RollbackInv'
      OBVIOUS
    <2>1. CASE UNCHANGED loopVars
      BY <2>1 DEF loopVars, shared, call, history, RollbackInv, Successes
    <2>2. QED
      BY <2>1, StepRollbackInv, TickerKeepsRollbackInv DEF LoopNext, TickerStep, AllReturned
  <1>3. RollbackInv => SuccessesSurvive
    BY DEF RollbackInv, Successes, SuccessesSurvive
  <1>4. QED
    BY <1>1, <1>2, <1>3, TypeInvHolds, PTL DEF LoopSpec

-----------------------------------------------------------------------------
(* The tool calling protocol.  While a run is in the calls of an answer, what *)
(* its messages lack are the results it holds or has still to get.            *)

(* The protocol, but for some calls that have no result yet.                  *)
FollowsUpTo(msgs, waiting) ==
  /\ ResultsFollowCalls(msgs)
  /\ \A i \in 1..Len(msgs) : \A id \in msgs[i].ids : msgs[i].role = "assistant"
       => id \in waiting \/ \E j \in 1..Len(msgs) : Answered(msgs, i, j) /\ msgs[j].ids = {id}

Early   == {"idle", "rag", "ask", "check", "think", "record"}
Calling == {"breaker"} \cup InCall \cup {"job", "observe"}

Skipped(r) == IF pc[r] = "observe" THEN asked[r] - Len(results[r]) ELSE 0
Id(r, k)   == <<r, iter[r], k>>
Waiting(r) == {Id(r, k) : k \in Skipped(r) + 1..asked[r]}

(* A run holds the results of the calls it has made, in their order.          *)
HoldsResults(r) ==
  /\ pc[r] \in Early => Len(results[r]) = 0
  /\ pc[r] = "record" => turn[r] = 1
  /\ pc[r] \in Calling \ {"observe"} =>
       /\ turn[r] \in 1..asked[r]
       /\ Len(results[r]) = IF pc[r] = "rollback" THEN turn[r] ELSE turn[r] - 1
  /\ pc[r] = "observe" => Len(results[r]) \in 1..asked[r]
  /\ pc[r] \in Calling =>
       \A k \in 1..Len(results[r]) : results[r][k] = {Id(r, Skipped(r) + k)}

MadeCalls(r) ==
  \E i \in 1..Len(messages) :
    messages[i].role = "assistant" /\ {Id(r, k) : k \in 1..asked[r]} \subseteq messages[i].ids

ProtocolInv ==
  \A r \in Runs :
    /\ HoldsResults(r)
    /\ ~trimmed /\ pc[r] \in Early => FollowsUpTo(messages, {})
    /\ ~trimmed /\ pc[r] \in Calling => FollowsUpTo(messages, Waiting(r)) /\ MadeCalls(r)

LEMMA AppendedMessages ==
  ASSUME NEW msgs \in Seq(Messages), NEW m \in Messages
  PROVE  /\ Append(msgs, m) \in Seq(Messages) /\ Len(msgs) \in Nat
         /\ Len(Append(msgs, m)) = Len(msgs) + 1
         /\ \A i \in 1..Len(msgs) : i \in 1..Len(msgs) + 1 /\ Append(msgs, m)[i] = msgs[i]
         /\ Append(msgs, m)[Len(msgs) + 1] = m /\ Len(msgs) + 1 \in 1..Len(msgs) + 1
         /\ \A i \in 1..Len(msgs) + 1 : i \in 1..Len(msgs) \/ i = Len(msgs) + 1
         /\ \A i \in 1..Len(msgs) : i < Len(msgs) + 1
<1>1. Len(msgs) \in Nat
  BY LenProperties
<1>2. /\ Append(msgs, m) \in Seq(Messages) /\ Len(Append(msgs, m)) = Len(msgs) + 1
      /\ \A i \in 1..Len(msgs) : Append(msgs, m)[i] = msgs[i]
      /\ Append(msgs, m)[Len(msgs) + 1] = m
  BY AppendProperties
<1> DEFINE n == Len(msgs)
<1>3. /\ \A i \in 1..n : i \in 1..n + 1 /\ i < n + 1
      /\ n + 1 \in 1..n + 1 /\ \A i \in 1..n + 1 : i \in 1..n \/ i = n + 1
  <2>1. n \in Nat
    BY <1>1
  <2> HIDE DEF n
  <2> QED BY <2>1
<1> QED BY <1>1, <1>2, <1>3

(* A message that is no result leaves the protocol as it was, but for the     *)
(* calls it makes.                                                            *)
LEMMA SpokenFollows ==
  ASSUME NEW msgs \in Seq(Messages), FollowsUpTo(msgs, {}), NEW m \in Messages, m.role # "tool"
  PROVE  FollowsUpTo(Append(msgs, m), IF m.role = "assistant" THEN m.ids ELSE {})
<1> DEFINE s == Append(msgs, m)
           n == Len(msgs)
           W == IF m.role = "assistant" THEN m.ids ELSE {}
<1>1. /\ Len(s) = n + 1 /\ s[n + 1] = m
      /\ \A i \in 1..n : i \in 1..n + 1 /\ s[i] = msgs[i]
      /\ \A i \in 1..n + 1 : i \in 1..n \/ i = n + 1
  BY AppendedMessages
<1>0. /\ \A j \in 1..n : msgs[j].role = "tool" => \E i \in 1..n : Answered(msgs, i, j)
      /\ \A i \in 1..n : \A id \in msgs[i].ids : msgs[i].role = "assistant"
           => \E j \in 1..n : Answered(msgs, i, j) /\ msgs[j].ids = {id}
  BY DEF FollowsUpTo, ResultsFollowCalls
<1> HIDE DEF s, n
<1>2. \A i, j \in 1..n : Answered(msgs, i, j) => Answered(s, i, j)
  BY <1>1 DEF Answered
<1>3. ASSUME NEW j \in 1..n + 1, s[j].role = "tool" PROVE \E i \in 1..n + 1 : Answered(s, i, j)
  <2>1. j \in 1..n
    BY <1>1, <1>3
  <2> QED BY <1>0, <1>1, <1>2, <1>3, <2>1
<1>4. ASSUME NEW i \in 1..n + 1, NEW id \in s[i].ids, s[i].role = "assistant"
      PROVE  id \in W \/ \E j \in 1..n + 1 : Answered(s, i, j) /\ s[j].ids = {id}
  <2>1. CASE i = n + 1
    BY <1>1, <1>4, <2>1
  <2>2. CASE i \in 1..n
    <3>1. PICK j \in 1..n : Answered(msgs, i, j) /\ msgs[j].ids = {id}
      BY <1>0, <1>1, <1>4, <2>2
    <3> QED BY <1>1, <1>2, <2>2, <3>1
  <2> QED BY <1>1, <2>1, <2>2
<1>5. FollowsUpTo(s, W)
  <2>1. ResultsFollowCalls(s)
    BY <1>1, <1>3 DEF ResultsFollowCalls
  <2>2. \A i \in 1..n + 1 : \A id \in s[i].ids : s[i].role = "assistant"
          => id \in W \/ \E j \in 1..n + 1 : Answered(s, i, j) /\ s[j].ids = {id}
    BY <1>4
  <2>3. Len(s) = n + 1
    BY <1>1
  <2> HIDE DEF W
  <2>4. \A i \in 1..Len(s) : \A id \in s[i].ids : s[i].role = "assistant"
          => id \in W \/ \E j \in 1..Len(s) : Answered(s, i, j) /\ s[j].ids = {id}
    <3>1. 1..Len(s) = 1..n + 1
      BY <2>3
    <3> QED BY ONLY <2>2, <3>1, Zenon
  <2> QED BY <2>1, <2>4, Zenon DEF FollowsUpTo
<1> QED BY <1>5 DEF s

(* The result of a call that was waiting settles it.                          *)
LEMMA ResultFollows ==
  ASSUME NEW msgs \in Seq(Messages), NEW W, FollowsUpTo(msgs, W), NEW m \in Messages,
         NEW id, m.role = "tool", m.ids = {id},
         \E i \in 1..Len(msgs) : msgs[i].role = "assistant" /\ id \in msgs[i].ids
  PROVE  FollowsUpTo(Append(msgs, m), W \ {id})
<1> DEFINE s == Append(msgs, m)
           n == Len(msgs)
<1>1. /\ Len(s) = n + 1 /\ s[n + 1] = m
      /\ \A i \in 1..n : i \in 1..n + 1 /\ s[i] = msgs[i]
      /\ \A i \in 1..n + 1 : i \in 1..n \/ i = n + 1
      /\ n + 1 \in 1..n + 1 /\ \A i \in 1..n : i < n + 1
  BY AppendedMessages
<1>0. /\ \A j \in 1..n : msgs[j].role = "tool" => \E i \in 1..n : Answered(msgs, i, j)
      /\ \A i \in 1..n : \A x \in msgs[i].ids : msgs[i].role = "assistant"
           => x \in W \/ \E j \in 1..n : Answered(msgs, i, j) /\ msgs[j].ids = {x}
      /\ \E i \in 1..n : msgs[i].role = "assistant" /\ id \in msgs[i].ids
  BY DEF FollowsUpTo, ResultsFollowCalls
<1> HIDE DEF s, n
<1>2. \A i, j \in 1..n : Answered(msgs, i, j) => Answered(s, i, j)
  BY <1>1 DEF Answered
<1>3. \A i \in 1..n : msgs[i].role = "assistant" /\ id \in msgs[i].ids => Answered(s, i, n + 1)
  BY <1>1 DEF Answered
<1>4. ASSUME NEW j \in 1..n + 1, s[j].role = "tool" PROVE \E i \in 1..n + 1 : Answered(s, i, j)
  <2>1. CASE j \in 1..n
    BY <1>0, <1>1, <1>2, <1>4, <2>1
  <2>2. CASE j = n + 1
    BY <1>0, <1>1, <1>3, <2>2
  <2> QED BY <1>1, <2>1, <2>2
<1>5. ASSUME NEW i \in 1..n + 1, NEW x \in s[i].ids, s[i].role = "assistant"
      PROVE  x \in W \ {id} \/ \E j \in 1..n + 1 : Answered(s, i, j) /\ s[j].ids = {x}
  <2>1. i \in 1..n /\ msgs[i].role = "assistant" /\ x \in msgs[i].ids
    BY <1>1, <1>5
  <2>2. CASE x = id
    BY <1>1, <1>3, <2>1, <2>2
  <2>3. CASE x # id /\ x \notin W
    <3>1. PICK j \in 1..n : Answered(msgs, i, j) /\ msgs[j].ids = {x}
      BY <1>0, <2>1, <2>3
    <3> QED BY <1>1, <1>2, <2>1, <3>1
  <2> QED BY <2>2, <2>3
<1>6. FollowsUpTo(s, W \ {id})
  <2>1. ResultsFollowCalls(s)
    BY <1>1, <1>4 DEF ResultsFollowCalls
  <2> DEFINE V == W \ {id}
  <2>2. \A i \in 1..n + 1 : \A x \in s[i].ids : s[i].role = "assistant"
          => x \in V \/ \E j \in 1..n + 1 : Answered(s, i, j) /\ s[j].ids = {x}
    BY <1>5
  <2> HIDE DEF V
  <2>3. Len(s) = n + 1
    BY <1>1
  <2>4. FollowsUpTo(s, V)
    <3>1. \A i \in 1..Len(s) : \A x \in s[i].ids : s[i].role = "assistant"
            => x \in V \/ \E j \in 1..Len(s) : Answered(s, i, j) /\ s[j].ids = {x}
      <4>1. 1..Len(s) = 1..n + 1
        BY <2>3
      <4> QED BY ONLY <2>2, <4>1, Zenon
    <3> QED BY <2>1, <3>1, Zenon DEF FollowsUpTo
  <2> QED BY <2>4 DEF V
<1> QED BY <1>6 DEF s

-----------------------------------------------------------------------------
LEMMA RunTypes ==
  ASSUME TypeInv, NEW r \in Runs
  PROVE  /\ messages \in Seq(Messages) /\ iter[r] \in Nat /\ asked[r] \in Nat /\ turn[r] \in Nat
         /\ results[r] \in Seq(SUBSET AllIds) /\ Len(results[r]) \in Nat
         /\ \A k : k \in Nat => Id(r, k) \in AllIds
<1>1. /\ messages \in Seq(Messages) /\ iter[r] \in Nat /\ asked[r] \in Nat /\ turn[r] \in Nat
      /\ results[r] \in Seq(SUBSET AllIds)
  BY DEF TypeInv, LoopTypeOK, SharedTypeOK, LocalTypeOK
<1>2. Len(results[r]) \in Nat
  BY <1>1, LenProperties
<1> QED BY <1>1, <1>2 DEF Id, AllIds

(* The one run keeps the invariant if it does so alone.                       *)
LEMMA LoneRun ==
  ASSUME OneRun, NEW r \in Runs, HoldsResults(r)',
         ~trimmed' /\ pc'[r] \in Early => FollowsUpTo(messages', {}),
         ~trimmed' /\ pc'[r] \in Calling => FollowsUpTo(messages', Waiting(r)') /\ MadeCalls(r)'
  PROVE  ProtocolInv'
BY DEF ProtocolInv, OneRun

(* Steps that say nothing, between two calls of tools.                        *)
SaysNothing(r) ==
  UNCHANGED <<messages, trimmed, iter, asked>>

LEMMA PassingFollows ==
  ASSUME OneRun, NEW r \in Runs, TypeInv, ProtocolInv,
         SaysNothing(r), UNCHANGED <<turn, results>>,
         pc[r] \in Calling \ {"rollback", "observe"}, pc'[r] \in Calling \ {"rollback", "observe"}
  PROVE  ProtocolInv'
<1>1. HoldsResults(r)'
  BY DEF ProtocolInv, HoldsResults, SaysNothing, Early, Calling, InCall, Skipped, Id
<1>2. Waiting(r)' = Waiting(r) /\ (MadeCalls(r) => MadeCalls(r)')
  BY DEF SaysNothing, Waiting, MadeCalls, Skipped, Id
<1>3. pc'[r] \notin Early
  BY DEF Early, Calling, InCall
<1>4. ~trimmed' => FollowsUpTo(messages', Waiting(r)') /\ MadeCalls(r)'
  BY <1>2 DEF ProtocolInv, SaysNothing
<1> QED BY <1>1, <1>3, <1>4, LoneRun

(* A run that is over has nothing to keep.                                    *)
LEMMA LeavingFollows ==
  ASSUME OneRun, NEW r \in Runs, pc'[r] \in {"finish", "returned"}
  PROVE  ProtocolInv'
<1>1. pc'[r] \notin Early /\ pc'[r] \notin Calling /\ pc'[r] # "record" /\ pc'[r] # "observe"
  BY DEF Early, Calling, InCall
<1>2. HoldsResults(r)'
  BY <1>1 DEF HoldsResults
<1> QED BY <1>1, <1>2, LoneRun

(* A call's result is held, and the run goes on to the next, to a rollback or *)
(* to its observations.                                                       *)
LEMMA AnswerFollows ==
  ASSUME OneRun, NEW r \in Runs, TypeInv, ProtocolInv, SaysNothing(r),
         pc[r] \in Calling \ {"rollback", "observe"}, Answer(r, {CallId(r)}),
         NextCall(r) \/ (Goto(r, "rollback") /\ UNCHANGED turn)
  PROVE  ProtocolInv'
<1> DEFINE q == results[r]
           t == turn[r]
           n == asked[r]
<1>1. /\ q \in Seq(SUBSET AllIds) /\ Len(q) \in Nat /\ t \in 1..n /\ n \in Nat /\ Len(q) = t - 1
      /\ \A k \in 1..Len(q) : q[k] = {Id(r, k)}
      /\ Skipped(r) = 0 /\ {CallId(r)} \in SUBSET AllIds /\ CallId(r) = Id(r, t)
  <2>1. HoldsResults(r) /\ Skipped(r) = 0
    BY DEF ProtocolInv, Skipped
  <2>2. /\ t \in 1..n /\ Len(q) = t - 1
        /\ \A k \in 1..Len(q) : q[k] = {Id(r, 0 + k)}
    BY <2>1 DEF HoldsResults
  <2>3. \A k \in 1..Len(q) : 0 + k = k
    BY RunTypes
  <2>4. CallId(r) = Id(r, t)
    BY DEF CallId, Id
  <2>5. t \in Nat
    BY RunTypes
  <2> QED BY <2>1, <2>2, <2>3, <2>4, <2>5, RunTypes
<1>2. results'[r] = Append(q, {Id(r, t)})
  BY <1>1 DEF Answer, TypeInv, LoopTypeOK, LocalTypeOK
<1>3. /\ \/ turn'[r] = t + 1 /\ pc'[r] = IF t < n THEN "breaker" ELSE "observe"
         \/ turn'[r] = t /\ pc'[r] = "rollback"
      /\ asked'[r] = n /\ \A k : Id(r, k)' = Id(r, k)
  BY DEF NextCall, Goto, SaysNothing, Id, TypeInv, LoopTypeOK, LocalTypeOK
<1> HIDE DEF q, t, n
<1>4. Len(results'[r]) = t /\ \A k \in 1..t : results'[r][k] = {Id(r, k)}
  <2>1. /\ Len(Append(q, {Id(r, t)})) = Len(q) + 1
        /\ \A k \in 1..Len(q) : Append(q, {Id(r, t)})[k] = q[k]
        /\ Append(q, {Id(r, t)})[Len(q) + 1] = {Id(r, t)}
    BY <1>1, AppendProperties
  <2>2. \A k \in 1..t : k \in 1..Len(q) \/ k = t
    BY <1>1
  <2>3. Len(q) + 1 = t
    BY <1>1
  <2> QED BY <1>1, <1>2, <2>1, <2>2, <2>3
<1>5. Skipped(r)' = 0
  <2>1. pc'[r] = "observe" => t = n
    BY <1>1, <1>3
  <2>2. n - n = 0
    BY <1>1
  <2> QED BY <1>3, <1>4, <2>1, <2>2 DEF Skipped
<1>6. HoldsResults(r)'
  <2>1. \A k \in 1..t : results'[r][k] = {Id(r, 0 + k)'}
    <3>1. \A k \in 1..t : 0 + k = k
      BY <1>1
    <3> QED BY <1>3, <1>4, <3>1
  <2>2. \A k \in 1..Len(results'[r]) : results'[r][k] = {Id(r, Skipped(r) + k)'}
    BY <1>4, <1>5, <2>1
  <2>3. CASE pc'[r] = "breaker"
    <3>1. turn'[r] \in 1..asked'[r] /\ Len(results'[r]) = turn'[r] - 1
      BY <1>1, <1>3, <1>4, <2>3
    <3> QED BY <2>2, <2>3, <3>1 DEF HoldsResults, Early
  <2>4. CASE pc'[r] = "observe"
    <3>1. Len(results'[r]) \in 1..asked'[r]
      BY <1>1, <1>3, <1>4, <2>4
    <3> QED BY <2>2, <2>4, <3>1 DEF HoldsResults, Early
  <2>5. CASE pc'[r] = "rollback"
    <3>1. turn'[r] \in 1..asked'[r] /\ Len(results'[r]) = turn'[r]
      BY <1>1, <1>3, <1>4, <2>5
    <3> QED BY <2>2, <2>5, <3>1 DEF HoldsResults, Early
  <2> QED BY <1>3, <2>3, <2>4, <2>5
<1>7. Waiting(r)' = Waiting(r) /\ (MadeCalls(r) => MadeCalls(r)')
  BY <1>1, <1>5 DEF SaysNothing, Waiting, MadeCalls, Id
<1>8. pc'[r] \notin Early
  BY <1>3 DEF Early
<1> QED BY <1>6, <1>7, <1>8, LoneRun DEF ProtocolInv, SaysNothing

(* After a rollback the result is there already.                              *)
LEMMA RollbackFollows ==
  ASSUME OneRun, NEW r \in Runs, TypeInv, ProtocolInv, SaysNothing(r),
         pc[r] = "rollback", NextCall(r), results' = results
  PROVE  ProtocolInv'
<1> DEFINE q == results[r]
           t == turn[r]
           n == asked[r]
<1>1. /\ t \in 1..n /\ n \in Nat /\ t \in Nat /\ Len(q) = t
      /\ \A k \in 1..t : q[k] = {Id(r, 0 + k)} /\ Skipped(r) = 0
  <2>1. HoldsResults(r) /\ Skipped(r) = 0 /\ pc[r] \in Calling \ {"observe"}
    BY DEF ProtocolInv, Skipped, Calling, InCall
  <2> QED BY <2>1, RunTypes DEF HoldsResults
<1>2. /\ turn'[r] = t + 1 /\ pc'[r] = IF t < n THEN "breaker" ELSE "observe"
      /\ asked'[r] = n /\ \A k : Id(r, k)' = Id(r, k)
  BY DEF NextCall, Goto, SaysNothing, Id, TypeInv, LoopTypeOK, LocalTypeOK
<1>3. Len(results'[r]) = t /\ \A k \in 1..t : results'[r][k] = {Id(r, 0 + k)'}
  BY <1>1, <1>2
<1> HIDE DEF q, t, n
<1>4. Skipped(r)' = 0
  <2>1. pc'[r] = "observe" => t = n
    BY <1>1, <1>2
  <2>2. n - n = 0
    BY <1>1
  <2> QED BY <1>2, <1>3, <2>1, <2>2 DEF Skipped
<1>5. HoldsResults(r)'
  <2>1. \A k \in 1..Len(results'[r]) : results'[r][k] = {Id(r, Skipped(r) + k)'}
    BY <1>3, <1>4
  <2>2. CASE pc'[r] = "breaker"
    <3>1. turn'[r] \in 1..asked'[r] /\ Len(results'[r]) = turn'[r] - 1
      BY <1>1, <1>2, <1>3, <2>2
    <3> QED BY <2>1, <2>2, <3>1 DEF HoldsResults, Early
  <2>3. CASE pc'[r] = "observe"
    <3>1. Len(results'[r]) \in 1..asked'[r]
      BY <1>1, <1>2, <1>3, <2>3
    <3> QED BY <2>1, <2>3, <3>1 DEF HoldsResults, Early
  <2> QED BY <1>2, <2>2, <2>3
<1>6. Waiting(r)' = Waiting(r) /\ (MadeCalls(r) => MadeCalls(r)')
  BY <1>1, <1>4 DEF SaysNothing, Waiting, MadeCalls, Id
<1>7. pc'[r] \notin Early /\ pc[r] \in Calling
  BY <1>2 DEF Early, Calling, InCall
<1> QED BY <1>5, <1>6, <1>7, LoneRun DEF ProtocolInv, SaysNothing

-----------------------------------------------------------------------------
(* Steps before the calls, and the observations after them.                   *)
LEMMA MessageIs ==
  ASSUME NEW role \in Roles, NEW ids \in SUBSET AllIds
  PROVE  /\ Message(role, ids) \in Messages
         /\ Message(role, ids).role = role /\ Message(role, ids).ids = ids
BY DEF Message, Messages

LEMMA EarlyFollows ==
  ASSUME OneRun, NEW r \in Runs, TypeInv, ProtocolInv,
         pc[r] \in Early, pc'[r] \in Early \cup {"finish"}, pc'[r] = "record" => turn'[r] = 1,
         results' = results,
         \/ messages' = <<>>
         \/ messages' = messages /\ (trimmed => trimmed')
         \/ trimmed'
         \/ \E role \in Roles \ {"tool"} : AddMessage(role, {})
  PROVE  ProtocolInv'
<1>1. HoldsResults(r)'
  <2>1. Len(results[r]) = 0
    BY DEF ProtocolInv, HoldsResults
  <2> QED BY <2>1 DEF HoldsResults, Early, Calling, InCall
<1>2. FollowsUpTo(<<>>, {})
  <2>1. Len(<<>>) = 0
    BY EmptySeq
  <2>2. 1..0 = {}
    OBVIOUS
  <2> QED BY <2>1, <2>2 DEF FollowsUpTo, ResultsFollowCalls
<1>3. ASSUME ~trimmed, NEW role \in Roles \ {"tool"}, AddMessage(role, {})
      PROVE  FollowsUpTo(messages', {})
  <2> DEFINE m == Message(role, {})
  <2>1. m \in Messages /\ m.role = role /\ m.ids = {}
    BY MessageIs
  <2>2. messages' = Append(messages, m)
    BY <1>3 DEF AddMessage
  <2>3. FollowsUpTo(messages, {}) /\ messages \in Seq(Messages)
    BY <1>3, RunTypes DEF ProtocolInv
  <2> HIDE DEF m
  <2>4. FollowsUpTo(Append(messages, m), IF m.role = "assistant" THEN m.ids ELSE {})
    BY <2>1, <2>3, SpokenFollows
  <2>5. (IF m.role = "assistant" THEN m.ids ELSE {}) = {}
    BY <2>1
  <2> QED BY <2>2, <2>4, <2>5
<1>4. ~trimmed' => FollowsUpTo(messages', {})
  <2>1. \A role : AddMessage(role, {}) => (trimmed' <=> trimmed)
    BY DEF AddMessage
  <2> QED BY <1>2, <1>3, <2>1 DEF ProtocolInv
<1>5. pc'[r] \notin Calling
  BY DEF Early, Calling, InCall
<1> QED BY <1>1, <1>4, <1>5, LoneRun

LEMMA CallsFollow ==
  ASSUME OneRun, NEW r \in Runs, TypeInv, ProtocolInv, RecordCalls(r)
  PROVE  ProtocolInv'
<1> DEFINE I == {Id(r, k) : k \in 1..asked[r]}
           m == Message("assistant", I)
<1>1. /\ pc[r] = "record" /\ pc'[r] = "breaker" /\ UNCHANGED <<iter, asked, turn, results>>
      /\ asked[r] \in Nat /\ asked[r] > 0 /\ turn[r] = 1 /\ Len(results[r]) = 0
      /\ messages' = Append(messages, m) /\ (trimmed' <=> trimmed)
  <2>1. HoldsResults(r) /\ asked[r] \in Nat
    BY RunTypes DEF ProtocolInv
  <2>2. I = {<<r, iter[r], k>> : k \in 1..asked[r]}
    BY DEF Id
  <2> QED BY <2>1, <2>2 DEF RecordCalls, Goto, AddMessage, call, HoldsResults, Early, TypeInv, LoopTypeOK, LocalTypeOK
<1>2. I \in SUBSET AllIds
  BY <1>1, RunTypes
<1>3. Skipped(r)' = 0 /\ \A k : Id(r, k)' = Id(r, k)
  BY <1>1 DEF Skipped, Id
<1>4. HoldsResults(r)'
  <2>1. 1 \in 1..asked[r] /\ 0 = 1 - 1 /\ \A k : k \notin 1..0
    BY <1>1
  <2> QED BY <1>1, <2>1 DEF HoldsResults, Early
<1>5. Waiting(r)' = I
  <2>1. 0 + 1 = 1
    OBVIOUS
  <2> QED BY <1>1, <1>3, <2>1 DEF Waiting
<1> HIDE DEF I
<1>6. m \in Messages /\ m.role = "assistant" /\ m.ids = I
  BY <1>2, MessageIs DEF Roles
<1> HIDE DEF m
<1>7. ASSUME ~trimmed' PROVE FollowsUpTo(messages', Waiting(r)') /\ MadeCalls(r)'
  <2>1. FollowsUpTo(messages, {}) /\ messages \in Seq(Messages)
    BY <1>1, <1>7, RunTypes DEF ProtocolInv, Early
  <2>2. FollowsUpTo(Append(messages, m), IF m.role = "assistant" THEN m.ids ELSE {})
    BY <1>6, <2>1, SpokenFollows
  <2>3. FollowsUpTo(messages', I)
    BY <1>1, <1>6, <2>2
  <2>4. \E i \in 1..Len(messages') : messages'[i] = m
    BY <1>1, <1>6, <2>1, AppendedMessages
  <2>5. \E i \in 1..Len(messages') : messages'[i].role = "assistant" /\ I \subseteq messages'[i].ids
    BY <1>6, <2>4
  <2>6. MadeCalls(r)'
    BY <1>1, <1>3, <2>5 DEF MadeCalls, I
  <2> QED BY <1>5, <2>3, <2>6
<1> QED BY <1>1, <1>4, <1>7, LoneRun DEF Early

(* The first result it holds is that of the first call it has not answered.   *)
LEMMA ObservationFollows ==
  ASSUME OneRun, NEW r \in Runs, TypeInv, ProtocolInv, Observe(r)
  PROVE  ProtocolInv'
<1> DEFINE q == results[r]
           l == Len(results[r])
           n == asked[r]
           f == n - l
           m == Message("tool", Head(results[r]))
<1>1. /\ q \in Seq(SUBSET AllIds) /\ l \in Nat /\ l \in 1..n /\ n \in Nat /\ f \in Nat
      /\ \A k \in 1..l : q[k] = {Id(r, f + k)}
      /\ pc[r] = "observe" /\ Skipped(r) = f
  <2>1. HoldsResults(r) /\ pc[r] = "observe" /\ Skipped(r) = f
    BY DEF ProtocolInv, Observe, Skipped
  <2>2. pc[r] \in Calling
    BY <2>1 DEF Calling
  <2>3. l \in 1..n /\ \A k \in 1..l : q[k] = {Id(r, f + k)}
    BY <2>1, <2>2 DEF HoldsResults
  <2>4. q \in Seq(SUBSET AllIds) /\ l \in Nat /\ n \in Nat
    BY RunTypes
  <2> HIDE DEF q, l, n
  <2> QED BY <2>1, <2>3, <2>4
<1>2. /\ Head(q) = q[1] /\ Tail(q) \in Seq(SUBSET AllIds) /\ Len(Tail(q)) = l - 1
      /\ \A k \in 1..l - 1 : Tail(q)[k] = q[k + 1]
  <2>1. q # <<>>
    BY <1>1, EmptySeq
  <2>2. Len(q) = l
    OBVIOUS
  <2> HIDE DEF q, l
  <2> QED BY <1>1, <2>1, <2>2, HeadTailProperties, LenProperties
<1>3. /\ results'[r] = Tail(q) /\ asked'[r] = n /\ messages' = Append(messages, m)
      /\ (trimmed' <=> trimmed)
      /\ l > 1 => pc' = pc /\ iter' = iter
      /\ ~(l > 1) => pc'[r] = "check"
  BY DEF Observe, AddMessage, Goto, call, TypeInv, LoopTypeOK, LocalTypeOK
<1>4. m \in Messages /\ m.role = "tool" /\ m.ids = {Id(r, f + 1)}
  <2>1. Head(q) = {Id(r, f + 1)} /\ Head(q) \in SUBSET AllIds
    <3>1. 1 \in 1..l /\ f + 1 \in Nat
      BY <1>1
    <3> HIDE DEF q, l, f
    <3> QED BY <1>1, <1>2, <3>1, RunTypes
  <2> HIDE DEF q, l, f
  <2>2. m = Message("tool", {Id(r, f + 1)}) /\ {Id(r, f + 1)} \in SUBSET AllIds
    BY <2>1 DEF q
  <2> HIDE DEF m
  <2> QED BY <2>2, MessageIs DEF Roles
<1>w. Waiting(r) = {Id(r, k) : k \in f + 1..n} /\ (MadeCalls(r) <=> \E i \in 1..Len(messages) :
        messages[i].role = "assistant" /\ {Id(r, k) : k \in 1..n} \subseteq messages[i].ids)
  BY <1>1 DEF Waiting, MadeCalls
<1> HIDE DEF q, l, n, f, m
<1>5. ASSUME ~trimmed
      PROVE  /\ FollowsUpTo(messages', Waiting(r) \ {Id(r, f + 1)})
             /\ \E i \in 1..Len(messages') :
                  messages'[i].role = "assistant" /\ {Id(r, k) : k \in 1..n} \subseteq messages'[i].ids
  <2>1. FollowsUpTo(messages, Waiting(r)) /\ MadeCalls(r) /\ messages \in Seq(Messages)
    BY <1>1, <1>5, RunTypes DEF ProtocolInv, Calling
  <2>2. PICK i \in 1..Len(messages) :
          messages[i].role = "assistant" /\ {Id(r, k) : k \in 1..n} \subseteq messages[i].ids
    BY <1>w, <2>1
  <2>3. Id(r, f + 1) \in messages[i].ids
    <3>1. f + 1 \in 1..n
      BY <1>1 DEF f
    <3> QED BY <2>2, <3>1
  <2>4. FollowsUpTo(Append(messages, m), Waiting(r) \ {Id(r, f + 1)})
    BY <1>4, <2>1, <2>2, <2>3, ResultFollows
  <2>5. i \in 1..Len(messages') /\ messages'[i] = messages[i]
    BY <1>3, <1>4, <2>1, <2>2, AppendedMessages
  <2> QED BY <1>3, <2>2, <2>4, <2>5
<1>6. CASE l > 1
  <2>1. /\ pc'[r] = "observe" /\ Len(results'[r]) = l - 1 /\ \A k : Id(r, k)' = Id(r, k)
        /\ l - 1 \in 1..n /\ Skipped(r)' = f + 1 /\ f + 1 = n - (l - 1)
    <3>1. f + 1 = n - (l - 1) /\ l - 1 \in 1..n
      BY <1>1, <1>6 DEF f
    <3> QED BY <1>1, <1>2, <1>3, <1>6, <3>1 DEF Skipped, Id
  <2>2. \A k \in 1..l - 1 : results'[r][k] = {Id(r, f + 1 + k)}
    <3>1. \A k \in 1..l - 1 : k + 1 \in 1..l /\ f + (k + 1) = f + 1 + k
      BY <1>1
    <3> QED BY <1>1, <1>2, <1>3, <3>1
  <2>3. HoldsResults(r)'
    <3>1. \A k \in 1..Len(results'[r]) : results'[r][k] = {Id(r, Skipped(r) + k)'}
      BY <2>1, <2>2
    <3> QED BY <1>3, <2>1, <3>1 DEF HoldsResults, Early
  <2>4. Waiting(r)' = {Id(r, k) : k \in f + 1 + 1..n}
    BY <1>3, <2>1 DEF Waiting
  <2>5. Waiting(r) \ {Id(r, f + 1)} = {Id(r, k) : k \in f + 1 + 1..n}
    <3>1. \A k \in f + 1..n : k = f + 1 \/ k \in f + 1 + 1..n
      BY <1>1
    <3>2. \A k \in f + 1 + 1..n : k \in f + 1..n /\ k # f + 1
      BY <1>1
    <3>3. \A k : Id(r, k) = Id(r, f + 1) => k = f + 1
      BY DEF Id
    <3> QED BY <1>w, <3>1, <3>2, <3>3
  <2>6. ASSUME ~trimmed' PROVE FollowsUpTo(messages', Waiting(r)') /\ MadeCalls(r)'
    <3>1. FollowsUpTo(messages', Waiting(r)')
      BY <1>3, <1>5, <2>4, <2>5, <2>6
    <3>2. MadeCalls(r)'
      BY <1>3, <1>5, <2>1, <2>6 DEF MadeCalls
    <3> QED BY <3>1, <3>2
  <2> QED BY <2>1, <2>3, <2>6, LoneRun DEF Early
<1>7. CASE ~(l > 1)
  <2>1. pc'[r] = "check" /\ l = 1 /\ Len(results'[r]) = 0
    BY <1>1, <1>2, <1>3, <1>7
  <2>2. HoldsResults(r)'
    BY <2>1 DEF HoldsResults, Calling, InCall
  <2>3. Waiting(r) \ {Id(r, f + 1)} = {}
    <3>1. \A k \in f + 1..n : k = f + 1
      BY <1>1, <2>1 DEF f
    <3> QED BY <1>w, <3>1
  <2>4. ~trimmed' => FollowsUpTo(messages', {})
    BY <1>3, <1>5, <2>3
  <2>5. pc'[r] \notin Calling
    BY <2>1 DEF Calling, InCall
  <2> QED BY <2>2, <2>4, <2>5, LoneRun
<1> QED BY <1>6, <1>7

-----------------------------------------------------------------------------
LEMMA LoopInitFollows == LoopInit => ProtocolInv
<1> SUFFICES ASSUME LoopInit, NEW r \in Runs
             PROVE  /\ HoldsResults(r)
                    /\ ~trimmed /\ pc[r] \in Early => FollowsUpTo(messages, {})
                    /\ ~trimmed /\ pc[r] \in Calling => FollowsUpTo(messages, Waiting(r)) /\ MadeCalls(r)
  BY DEF ProtocolInv
<1>1. pc[r] = "idle" /\ Len(results[r]) = 0 /\ Len(messages) = 0
  BY EmptySeq DEF LoopInit
<1>2. FollowsUpTo(messages, {})
  <2>1. 1..0 = {}
    OBVIOUS
  <2> QED BY <1>1, <2>1 DEF FollowsUpTo, ResultsFollowCalls
<1> QED BY <1>1, <1>2 DEF HoldsResults, Calling, InCall

(* Steps that leave everything as it was but the place of the run.            *)
LEMMA TrimShows ==
  ASSUME TypeInv, TrimIfNeeded
  PROVE  (messages' = messages /\ (trimmed => trimmed')) \/ trimmed'
<1>1. CASE UNCHANGED <<messages, trimmed>>
  BY <1>1
<1>2. CASE TrimContext(TrimTarget)
  <2> DEFINE n == Len(messages)
  <2>1. CASE n <= TrimTarget
    BY <1>2, <2>1 DEF TrimContext
  <2>2. CASE ~(n <= TrimTarget)
    <3>1. n \in Nat /\ TrimTarget \in Nat
      BY LenProperties, LoopConstants DEF TypeInv, LoopTypeOK, SharedTypeOK, TrimTarget
    <3>2. n > TrimTarget
      <4> HIDE DEF n
      <4> QED BY <2>2, <3>1
    <3>3. trimmed' = (trimmed \/ n > TrimTarget)
      BY <1>2 DEF TrimContext
    <3> HIDE DEF n
    <3> QED BY <3>2, <3>3
  <2> QED BY <2>1, <2>2
<1> QED BY <1>1, <1>2 DEF TrimIfNeeded

LEMMA StepFollows ==
  ASSUME OneRun, ~CanEvalFail, NEW r \in Runs, TypeInv, ProtocolInv, Start(r) \/ RunStep(r)
  PROVE  ProtocolInv'
<1> USE DEF shared, call, outcome, history
<1>t. pc \in [Runs -> Steps] /\ turn \in [Runs -> Nat]
  BY DEF TypeInv, LoopTypeOK, LocalTypeOK
<1>1. CASE Start(r)
  BY <1>t, <1>1, EarlyFollows DEF Start, Goto, Early
<1>2. CASE Retrieve(r)
  <2>1. /\ pc[r] = "rag" /\ pc'[r] = "ask" /\ results' = results
        /\ AddMessage("system", {}) \/ UNCHANGED <<messages, trimmed>>
    BY <1>t, <1>2 DEF Retrieve, Goto
  <2>2. "system" \in Roles \ {"tool"}
    BY DEF Roles
  <2> QED BY <2>1, <2>2, EarlyFollows DEF Early
<1>3. CASE Ask(r)
  <2>1. pc[r] = "ask" /\ pc'[r] = "check" /\ results' = results /\ AddMessage("user", {})
    BY <1>t, <1>3 DEF Ask, Goto
  <2>2. "user" \in Roles \ {"tool"}
    BY DEF Roles
  <2> QED BY <2>1, <2>2, EarlyFollows DEF Early
<1>4. CASE Send(r)
  BY <1>t, <1>4, EarlyFollows DEF Send, Goto, Early
<1>5. ASSUME NEW n \in 0..MaxCalls, Reply(r, n) PROVE ProtocolInv'
  <2>1. pc[r] = "think" /\ pc'[r] = "record" /\ results' = results /\ turn'[r] = 1
    BY <1>t, <1>5 DEF Reply, Goto
  <2>2. (messages' = messages /\ (trimmed => trimmed')) \/ trimmed'
    BY <1>5, TrimShows DEF Reply
  <2> QED BY <2>1, <2>2, EarlyFollows DEF Early
<1>6. CASE Abort(r) \/ StopAtMax(r) \/ LLMFails(r) \/ RecordFinal(r) \/ Finish(r) \/ Panic(r)
  <2>1. pc'[r] \in {"finish", "returned"}
    BY <1>t, <1>6 DEF Abort, StopAtMax, LLMFails, RecordFinal, Finish, Panic, Return, Goto
  <2> QED BY <2>1, LeavingFollows
<1>7. CASE RecordCalls(r)
  BY <1>7, CallsFollow
<1>8. CASE \/ \E t \in Names : BreakerRefuses(r, t)
           \/ GatewayBlocks(r) \/ Decline(r) \/ ExecuteNothing(r)
           \/ \E ok \in BOOLEAN : ExecuteTool(r, ok) \/ JobEnds(r, ok)
  <2>1. /\ SaysNothing(r) /\ Answer(r, {CallId(r)})
        /\ NextCall(r) \/ (Goto(r, "rollback") /\ UNCHANGED turn)
    BY <1>8 DEF SaysNothing, BreakerRefuses, GatewayBlocks, Decline, ExecuteNothing, ExecuteTool,
                JobEnds
  <2>2. pc[r] \in {"breaker", "gateway", "confirm", "execute", "job"}
    BY <1>8 DEF BreakerRefuses, Consult, GatewayBlocks, Decline, ExecuteNothing, ExecuteTool,
                Reached, JobEnds
  <2>3. pc[r] \in Calling \ {"rollback", "observe"}
    BY <2>2 DEF Calling, InCall
  <2> QED BY <2>1, <2>3, AnswerFollows
<1>9. CASE \/ \E t \in Names : BreakerAdmits(r, t)
           \/ \E l \in EvalLevels[tool[r]] : GatewayAllows(r, l)
           \/ Confirm(r) \/ Snapshot(r) \/ \E t \in jobs : RunJobNow(r, t)
  <2>1. SaysNothing(r) /\ UNCHANGED <<turn, results>>
    BY <1>9 DEF SaysNothing, BreakerAdmits, GatewayAllows, Confirm, Snapshot, RunJobNow
  <2>2. pc[r] \in {"breaker", "gateway", "confirm", "snapshot", "execute"}
    BY <1>9 DEF BreakerAdmits, Consult, GatewayAllows, Confirm, Snapshot, RunJobNow, Reached
  <2>3. pc'[r] \in {"gateway", "confirm", "snapshot", "execute", "job"}
    BY <1>t, <1>9 DEF BreakerAdmits, GatewayAllows, Confirm, Snapshot, RunJobNow, Goto
  <2>4. pc[r] \in Calling \ {"rollback", "observe"} /\ pc'[r] \in Calling \ {"rollback", "observe"}
    BY <2>2, <2>3 DEF Calling, InCall
  <2> QED BY <2>1, <2>4, PassingFollows
<1>10. CASE Rollback(r)
  BY <1>10, RollbackFollows DEF Rollback, SaysNothing
<1>11. CASE Observe(r)
  BY <1>11, ObservationFollows
<1>12. ~EvaluationFails(r)
  BY DEF EvaluationFails
<1> QED BY <1>1, <1>2, <1>3, <1>4, <1>5, <1>6, <1>7, <1>8, <1>9, <1>10, <1>11, <1>12 DEF RunStep

(* What one run sends to the LLM obeys the protocol of tool calls, whichever  *)
(* way each call took, on a loop object of its own; unless messages were      *)
(* dropped, or an evaluation failed, whose result carries no id (loop.go:     *)
(* 262-351, 428-640).  EvaluateRisk fails only when an evaluator or a rule    *)
(* does, and those the gateway registers itself never do (gateway.go:164-171, *)
(* 213-235); a custom rule may.                                               *)
THEOREM LoneRunFollowsProtocol ==
  OneRun /\ ~CanEvalFail => (LoopSpec => RequestsFollowProtocol)
<1> SUFFICES ASSUME OneRun, ~CanEvalFail PROVE LoopSpec => RequestsFollowProtocol
  OBVIOUS
<1>1. TypeInv /\ ProtocolInv /\ [LoopNext]_loopVars => ProtocolInv'
  <2> SUFFICES ASSUME TypeInv, ProtocolInv, [LoopNext]_loopVars PROVE ProtocolInv'
    OBVIOUS
  <2>1. CASE UNCHANGED loopVars
    <3>1. UNCHANGED <<messages, trimmed, pc, iter, asked, turn, results>>
      BY <2>1 DEF loopVars, shared, call
    <3>2. \A r \in Runs : /\ HoldsResults(r) => HoldsResults(r)'
                          /\ Waiting(r)' = Waiting(r) /\ (MadeCalls(r) => MadeCalls(r)')
      BY <3>1 DEF HoldsResults, Waiting, MadeCalls, Skipped, Id
    <3> QED BY <3>1, <3>2 DEF ProtocolInv
  <2>2. ASSUME NEW n \in 1..MaxDue, NEW t \in jobs, NEW ok \in BOOLEAN, RunDueJob(n, t, ok)
        PROVE  ProtocolInv'
    <3>1. UNCHANGED <<messages, trimmed, pc, iter, asked, turn, results>>
      BY <2>2, TickerChanges
    <3>2. \A r \in Runs : /\ HoldsResults(r) => HoldsResults(r)'
                          /\ Waiting(r)' = Waiting(r) /\ (MadeCalls(r) => MadeCalls(r)')
      BY <3>1 DEF HoldsResults, Waiting, MadeCalls, Skipped, Id
    <3> QED BY <3>1, <3>2 DEF ProtocolInv
  <2> QED BY <2>1, <2>2, StepFollows DEF LoopNext, TickerStep, AllReturned
<1>2. ProtocolInv => [\A r \in Runs : Send(r) /\ ~trimmed => FollowsProtocol(messages)]_loopVars
  <2> SUFFICES ASSUME ProtocolInv, NEW r \in Runs, Send(r), ~trimmed PROVE FollowsProtocol(messages)
    OBVIOUS
  <2>1. FollowsUpTo(messages, {})
    BY DEF ProtocolInv, Send, Early
  <2> QED BY <2>1 DEF FollowsUpTo, FollowsProtocol
<1> QED BY <1>1, <1>2, TypeInvHolds, LoopInitFollows, PTL DEF LoopSpec, RequestsFollowProtocol
=============================================================================
