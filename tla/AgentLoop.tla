----------------------------- MODULE AgentLoop -----------------------------
(***************************************************************************)
(* DefaultAgentLoop.ExecuteWithTools and executeTools, pkg/agent/loop.go,  *)
(* run by several goroutines on ONE loop object: in serve mode the alert   *)
(* workers, the watcher, the health check and the prompt share the breaker *)
(* (cb) and the context manager (messages); all else is local to a run.    *)
(* One action is one critical section, external call or early return.  One *)
(* of the tools, k8s_scheduler, runs others: at once, or later from the    *)
(* ticker of pkg/scheduler, in both cases without the loop's checks.       *)
(***************************************************************************)
EXTENDS CircuitBreaker, Sequences, FiniteSets

CONSTANTS
  Runs,          (* calls of Execute, concurrent or one after the other        *)
  Tools,         (* names in the registry                                      *)
  NoTool,        (* a name the LLM may ask for that is not registered          *)
  ToolLevel,     (* RiskLevel() of a tool, 0..4                                *)
  SchedulerTool, (* the name of k8s_scheduler                                  *)
  Ticker,        (* stands for the scheduler's ticker where a run could be     *)
  EvalLevels,    (* the levels EvaluateRisk may give a call, by name           *)
  Configs,       (* the configurations to consider                             *)
  MaxIterations, (* LoopConfig.MaxIterations                                   *)
  MaxTokens,     (* LoopConfig.MaxTokens; a message weighs one token           *)
  MaxCalls,      (* bounds the tool calls of one LLM answer                    *)
  MaxDue,        (* bounds the jobs that the ticker runs                       *)
  CanEvalFail,   (* whether EvaluateRisk can return an error (custom rules)    *)
  CanPanic       (* whether an external call can panic                         *)

Levels == 0..4
Names  == Tools \cup {NoTool}
Policies == {"none", "strict", "safe", "all", "interactive"}

ASSUME LoopConstants ==
  /\ NoTool \notin Tools
  /\ ToolLevel \in [Tools -> Levels]
  /\ SchedulerTool \in Tools => ToolLevel[SchedulerTool] = 1
  /\ Ticker \notin Runs
  /\ EvalLevels \in [Names -> SUBSET Levels \ {{}}]
  /\ Configs \subseteq [policy : Policies, dryRun : BOOLEAN,
                        autoSnapshot : BOOLEAN, autoRollback : BOOLEAN]
  /\ MaxIterations \in Nat \ {0}
  /\ MaxTokens \in Nat \ {0}
  /\ MaxCalls \in Nat \ {0}
  /\ MaxDue \in Nat
  /\ CanEvalFail \in BOOLEAN
  /\ CanPanic \in BOOLEAN

VARIABLES
  config,    (* LoopConfig and the engine's approval policy, fixed at New      *)
  messages,  (* the context manager's messages, shared by the runs             *)
  trimmed,   (* history: messages were dropped since the last context Reset    *)
  cluster,   (* the operations whose effect is in the Kubernetes cluster       *)
  jobs,      (* the tools of the scheduler's jobs                              *)
  pc, iter, asked, turn, tool, lvl, snap, results,   (* a run's locals         *)
  session,   (* the run's session record                                       *)
  ret,       (* what Execute returned                                          *)
  ran,       (* history: tool executions, by a call of a run or by a job       *)
  admitted   (* history: L2+ calls the breaker let through                     *)

shared   == <<config, messages, trimmed, cluster, jobs>>
call     == <<asked, turn, tool, lvl, snap>>
outcome  == <<session, ret>>
history  == <<ran, admitted>>
loopVars == <<cb, granted, shared, pc, iter, call, results, outcome, history>>

CallId(r)   == <<r, iter[r], turn[r]>>
DueId(n)    == <<Ticker, 0, n>>
AllIds      == (Runs \cup {Ticker}) \X Nat \X Nat
Executions  == [id : AllIds, level : Levels, eval : Levels, ok : BOOLEAN, job : BOOLEAN]
Snapshots   == [taken : BOOLEAN, state : SUBSET AllIds]
NoSnap      == [taken |-> FALSE, state |-> {}]
Registered(t) == t \in Tools

LoopInit ==
  /\ BreakerInit
  /\ config \in Configs
  /\ messages = <<>> /\ trimmed = FALSE /\ cluster = {} /\ jobs = {}
  /\ pc = [r \in Runs |-> "idle"]
  /\ iter = [r \in Runs |-> 0]
  /\ asked = [r \in Runs |-> 0]
  /\ turn = [r \in Runs |-> 0]
  /\ tool = [r \in Runs |-> NoTool]
  /\ lvl = [r \in Runs |-> 0]
  /\ snap = [r \in Runs |-> NoSnap]
  /\ results = [r \in Runs |-> <<>>]
  /\ session = [r \in Runs |-> "none"]
  /\ ret = [r \in Runs |-> "pending"]
  /\ ran = {} /\ admitted = {}

Goto(r, step) == pc' = [pc EXCEPT ![r] = step]

-----------------------------------------------------------------------------
(* The context manager.  ids: the calls an assistant message makes, the call  *)
(* a tool message answers.                                                    *)

Roles    == {"system", "user", "assistant", "tool"}
Messages == [role : Roles, ids : SUBSET AllIds]

Message(role, ids) == [role |-> role, ids |-> ids]

AddMessage(role, ids) ==
  messages' = Append(messages, Message(role, ids)) /\ UNCHANGED trimmed

(* TrimContext without key messages, which nothing in the program marks.      *)
TrimContext(target) ==
  LET n == Len(messages)
  IN  /\ messages' = IF n <= target THEN messages
                     ELSE SubSeq(messages, n - target + 1, n)
      /\ trimmed' = (trimmed \/ n > target)

TrimTarget ==
  IF MaxTokens - 1 < MaxTokens \div 4 THEN MaxTokens \div 4 ELSE MaxTokens - 1

TrimIfNeeded ==
  IF Len(messages) + 1 > MaxTokens
  THEN TrimContext(TrimTarget)
  ELSE UNCHANGED <<messages, trimmed>>

-----------------------------------------------------------------------------
(* Opening a run: the shared context is emptied, runbooks and the user's      *)
(* message are added, a session is created if a manager is wired.             *)

Start(r) ==
  /\ pc[r] = "idle" /\ Goto(r, "rag")
  /\ messages' = <<>> /\ trimmed' = FALSE
  /\ UNCHANGED <<cb, granted, config, cluster, jobs, iter, call, results, outcome, history>>

Retrieve(r) ==
  /\ pc[r] = "rag" /\ Goto(r, "ask")
  /\ AddMessage("system", {}) \/ UNCHANGED <<messages, trimmed>>
  /\ UNCHANGED <<cb, granted, config, cluster, jobs, iter, call, results, outcome, history>>

Ask(r) ==
  /\ pc[r] = "ask" /\ Goto(r, "check")
  /\ AddMessage("user", {})
  /\ session' \in {session, [session EXCEPT ![r] = "active"]}
  /\ UNCHANGED <<cb, granted, config, cluster, jobs, iter, call, results, ret, history>>

(* Early returns leave the session as it is.                                  *)
Return(r, value) ==
  /\ Goto(r, "returned")
  /\ ret' = [ret EXCEPT ![r] = value]

(* The loop context was cancelled, or the global timeout has passed.          *)
Abort(r) ==
  /\ pc[r] = "check" /\ Return(r, "error")
  /\ UNCHANGED <<cb, granted, shared, iter, call, results, session, history>>

IsMaxIterations(r) == iter[r] >= MaxIterations

StopAtMax(r) ==
  /\ pc[r] = "check" /\ IsMaxIterations(r) /\ Goto(r, "finish")
  /\ UNCHANGED <<cb, granted, shared, iter, call, results, outcome, history>>

Send(r) ==
  /\ pc[r] = "check" /\ ~IsMaxIterations(r) /\ Goto(r, "think")
  /\ UNCHANGED <<cb, granted, shared, iter, call, results, outcome, history>>

LLMFails(r) ==
  /\ pc[r] = "think" /\ Return(r, "error")
  /\ UNCHANGED <<cb, granted, shared, iter, call, results, session, history>>

(* The answer makes n calls; n = 0 is the final answer.                       *)
Reply(r, n) ==
  /\ pc[r] = "think" /\ Goto(r, "record")
  /\ TrimIfNeeded
  /\ asked' = [asked EXCEPT ![r] = n]
  /\ turn' = [turn EXCEPT ![r] = 1]
  /\ UNCHANGED <<cb, granted, config, cluster, jobs, iter, tool, lvl, snap, results,
                 outcome, history>>

RecordFinal(r) ==
  /\ pc[r] = "record" /\ asked[r] = 0 /\ Goto(r, "finish")
  /\ AddMessage("assistant", {})
  /\ UNCHANGED <<cb, granted, config, cluster, jobs, iter, call, results, outcome, history>>

RecordCalls(r) ==
  /\ pc[r] = "record" /\ asked[r] > 0 /\ Goto(r, "breaker")
  /\ AddMessage("assistant", {<<r, iter[r], k>> : k \in 1..asked[r]})
  /\ UNCHANGED <<cb, granted, config, cluster, jobs, iter, call, results, outcome, history>>
-----------------------------------------------------------------------------
(* executeTools: the calls of one answer in order.  Which tool a call names   *)
(* is chosen when its turn comes, nothing looks at it before.                 *)

(* Mutant. *)
ScopeOutlivedBySnapshot(r) ==
  /\ tool' = [tool EXCEPT ![r] = NoTool]
  /\ lvl' = [lvl EXCEPT ![r] = 0]
  /\ UNCHANGED snap

(* Go declares these anew for every call.                                     *)
LeaveScope(r) ==
  /\ tool' = [tool EXCEPT ![r] = NoTool]
  /\ lvl' = [lvl EXCEPT ![r] = 0]
  /\ snap' = [snap EXCEPT ![r] = NoSnap]

NextCall(r) ==
  /\ LeaveScope(r)
  /\ turn' = [turn EXCEPT ![r] = @ + 1]
  /\ Goto(r, IF turn[r] < asked[r] THEN "breaker" ELSE "observe")

(* An error or a result is appended, with the call it answers or none.        *)
Answer(r, ids) ==
  results' = [results EXCEPT ![r] = Append(@, ids)]

IsWrite(t)  == Registered(t) /\ ToolLevel[t] # 0

(* Mutant. *)
IsL3Plus(t) == Registered(t) /\ ToolLevel[t] > 2

IsL2Plus(t) == Registered(t) /\ ToolLevel[t] >= 2

Consult(r, t) ==
  /\ pc[r] = "breaker"
  /\ Allow(IsWrite(t), IsL2Plus(t))

BreakerRefuses(r, t) ==
  /\ ~Admits(IsWrite(t), IsL2Plus(t)) /\ Consult(r, t)
  /\ Answer(r, {CallId(r)}) /\ NextCall(r)
  /\ UNCHANGED <<shared, iter, asked, outcome, ran, admitted>>

BreakerAdmits(r, t) ==
  /\ Admits(IsWrite(t), IsL2Plus(t)) /\ Consult(r, t)
  /\ admitted' = IF Registered(t) /\ ToolLevel[t] >= 2
                 THEN admitted \cup {CallId(r)} ELSE admitted
  /\ tool' = [tool EXCEPT ![r] = t]
  /\ Goto(r, "gateway")
  /\ UNCHANGED <<shared, iter, asked, turn, lvl, snap, results, outcome, ran>>

(* The error result of a failed evaluation carries no ToolCallID.             *)
EvaluationFails(r) ==
  /\ CanEvalFail /\ pc[r] = "gateway"
  /\ Answer(r, {}) /\ NextCall(r)
  /\ UNCHANGED <<cb, granted, shared, iter, asked, outcome, history>>

(* IsAllowed can only refuse L3 and L4: production, on call, change window.   *)
GatewayBlocks(r) ==
  /\ pc[r] = "gateway" /\ \E l \in EvalLevels[tool[r]] : l >= 3
  /\ Answer(r, {CallId(r)}) /\ NextCall(r)
  /\ UNCHANGED <<cb, granted, shared, iter, asked, outcome, history>>

(* Mutant. *)
ConfirmsOnlyL3(l) == l >= 3

RequiresConfirmation(l) == l >= 2

GatewayAllows(r, l) ==
  /\ pc[r] = "gateway"
  /\ lvl' = [lvl EXCEPT ![r] = l]
  /\ Goto(r, IF RequiresConfirmation(l) THEN "confirm" ELSE "snapshot")
  /\ UNCHANGED <<cb, granted, shared, iter, asked, turn, tool, snap, results,
                 outcome, history>>

(* The confirmation handler: none is wired, a policy of AutonomousEngine, or  *)
(* a person.                                                                  *)
MayApprove(l) ==
  CASE config.policy = "none"        -> FALSE
    [] config.policy = "strict"      -> l = 0
    [] config.policy = "safe"        -> l <= 1
    [] config.policy = "all"         -> l <= 2
    [] config.policy = "interactive" -> TRUE

MayDecline(l) == config.policy = "interactive" \/ ~MayApprove(l)

Confirm(r) ==
  /\ pc[r] = "confirm" /\ MayApprove(lvl[r]) /\ Goto(r, "snapshot")
  /\ UNCHANGED <<cb, granted, shared, iter, call, results, outcome, history>>

(* Mutant. *)
DeclineUnlabelled(r) ==
  /\ pc[r] = "confirm" /\ MayDecline(lvl[r])
  /\ Answer(r, {}) /\ NextCall(r)
  /\ UNCHANGED <<cb, granted, shared, iter, asked, outcome, history>>

Decline(r) ==
  /\ pc[r] = "confirm" /\ MayDecline(lvl[r])
  /\ Answer(r, {CallId(r)}) /\ NextCall(r)
  /\ UNCHANGED <<cb, granted, shared, iter, asked, outcome, history>>

TakesSnapshot(r) ==
  config.autoSnapshot /\ Registered(tool[r]) /\ ToolLevel[tool[r]] \in {2, 3}

(* Without its three arguments, or on an error, no snapshot is kept.          *)
Capture(r) ==
  \/ TakesSnapshot(r) /\ snap' = [snap EXCEPT ![r] = [taken |-> TRUE, state |-> cluster]]
  \/ UNCHANGED snap

Snapshot(r) ==
  /\ pc[r] = "snapshot" /\ Capture(r) /\ Goto(r, "execute")
  /\ UNCHANGED <<cb, granted, shared, iter, asked, turn, tool, lvl, results,
                 outcome, history>>

(* Mutant. *)
PreviewsL2(r) == config.dryRun /\ Registered(tool[r]) /\ ToolLevel[tool[r]] >= 2

Previews(r) == config.dryRun /\ Registered(tool[r]) /\ ToolLevel[tool[r]] # 0

(* Unknown name, or a dry run: the tool's Execute is not reached.             *)
ExecuteNothing(r) ==
  /\ pc[r] = "execute" /\ (~Registered(tool[r]) \/ Previews(r))
  /\ Answer(r, {CallId(r)}) /\ NextCall(r)
  /\ UNCHANGED <<cb, granted, shared, iter, asked, outcome, history>>

Reached(r) == pc[r] = "execute" /\ Registered(tool[r]) /\ ~Previews(r)
InTool(r)  == Reached(r) \/ pc[r] = "job"

(* What the execution of an L2+ tool may leave in the cluster; the Execute of *)
(* others changes nothing there itself.                                       *)
Effects(t, id, ok) ==
  IF ToolLevel[t] < 2 THEN {cluster}
  ELSE {cluster \cup {id}} \cup (IF ok THEN {} ELSE {cluster})

Execution(t, id, eval, ok, job) ==
  [id |-> id, level |-> ToolLevel[t], eval |-> eval, ok |-> ok, job |-> job]

(* k8s_scheduler adds or removes a job, or does what changes none: list,      *)
(* pause, resume, an error.  A job that calls k8s_scheduler again stands for  *)
(* the job that it adds or runs.                                              *)
JobTools == Tools \ {SchedulerTool}

Managed(t, ok) ==
  IF t = SchedulerTool /\ ok
  THEN {jobs} \cup {jobs \cup {j} : j \in JobTools} \cup {jobs \ {j} : j \in JobTools}
  ELSE {jobs}

ExecuteTool(r, ok) ==
  /\ Reached(r)
  /\ cluster' \in Effects(tool[r], CallId(r), ok)
  /\ jobs' \in Managed(tool[r], ok)
  /\ ran' = ran \cup {Execution(tool[r], CallId(r), lvl[r], ok, FALSE)}
  /\ Answer(r, {CallId(r)})
  /\ IF ~ok /\ config.autoRollback /\ snap[r].taken
     THEN Goto(r, "rollback") /\ UNCHANGED <<turn, tool, lvl, snap>>
     ELSE NextCall(r)
  /\ UNCHANGED <<cb, granted, config, messages, trimmed, iter, asked, outcome,
                 admitted>>

(* run_now: the job's tool is executed in the call, and the job may be        *)
(* removed meanwhile.  The call has a result however the job ends.            *)
RunJobNow(r, t) ==
  /\ Reached(r)
  /\ tool[r] = SchedulerTool /\ t \in jobs
  /\ ran' = ran \cup {Execution(SchedulerTool, CallId(r), lvl[r], TRUE, FALSE)}
  /\ tool' = [tool EXCEPT ![r] = t]
  /\ Goto(r, "job")
  /\ UNCHANGED <<cb, granted, shared, iter, asked, turn, lvl, snap, results,
                 outcome, admitted>>

JobEnds(r, ok) ==
  /\ pc[r] = "job"
  /\ cluster' \in Effects(tool[r], CallId(r), ok)
  /\ ran' = ran \cup {Execution(tool[r], CallId(r), lvl[r], ok, TRUE)}
  /\ Answer(r, {CallId(r)}) /\ NextCall(r)
  /\ UNCHANGED <<cb, granted, config, messages, trimmed, jobs, iter, asked, outcome,
                 admitted>>

(* checkAndRunJobs: the ticker runs a job that is due, evaluated by nobody.   *)
RunDueJob(n, t, ok) ==
  /\ t \in jobs /\ DueId(n) \notin {x.id : x \in ran}
  /\ cluster' \in Effects(t, DueId(n), ok)
  /\ ran' = ran \cup {Execution(t, DueId(n), 0, ok, TRUE)}
  /\ UNCHANGED <<cb, granted, config, messages, trimmed, jobs, pc, iter, call, results,
                 outcome, admitted>>

(* Snapshotter.Restore applies the saved object, or fails.                    *)
Rollback(r) ==
  /\ pc[r] = "rollback" /\ NextCall(r)
  /\ cluster' \in {snap[r].state, cluster}
  /\ UNCHANGED <<cb, granted, config, messages, trimmed, jobs, iter, asked, results,
                 outcome, history>>

-----------------------------------------------------------------------------
(* Mutant. *)
SameIteration(i) == i

NextIteration(i) == i + 1

Observe(r) ==
  /\ pc[r] = "observe"
  /\ AddMessage("tool", Head(results[r]))
  /\ results' = [results EXCEPT ![r] = Tail(@)]
  /\ IF Len(results[r]) > 1
     THEN UNCHANGED <<pc, iter>>
     ELSE Goto(r, "check") /\ iter' = [iter EXCEPT ![r] = NextIteration(@)]
  /\ UNCHANGED <<cb, granted, config, cluster, jobs, call, outcome, history>>

(* AddCost and Complete: a failure of either is only logged.                  *)
Finish(r) ==
  /\ pc[r] = "finish" /\ Return(r, "result")
  /\ \/ session[r] = "active" /\ session' = [session EXCEPT ![r] = "completed"]
     \/ UNCHANGED session
  /\ UNCHANGED <<cb, granted, shared, iter, call, results, history>>

(* The deferred recover sets a local only: the unnamed results stay nil, nil. *)
Panic(r) ==
  /\ CanPanic
  /\ pc[r] \in {"rag", "ask", "think", "gateway", "confirm", "snapshot", "execute",
                "job", "rollback", "observe", "finish"}
  /\ Return(r, "nothing")
  /\ cluster' \in IF InTool(r) THEN Effects(tool[r], CallId(r), FALSE) ELSE {cluster}
  /\ UNCHANGED <<cb, granted, config, messages, trimmed, jobs, iter, call, results,
                 session, history>>

-----------------------------------------------------------------------------

RunStep(r) ==
  \/ Retrieve(r) \/ Ask(r) \/ Abort(r) \/ StopAtMax(r) \/ Send(r) \/ LLMFails(r)
  \/ \E n \in 0..MaxCalls : Reply(r, n)
  \/ RecordFinal(r) \/ RecordCalls(r)
  \/ \E t \in Names : BreakerRefuses(r, t) \/ BreakerAdmits(r, t)
  \/ EvaluationFails(r) \/ GatewayBlocks(r)
  \/ \E l \in EvalLevels[tool[r]] : GatewayAllows(r, l)
  \/ Confirm(r) \/ Decline(r) \/ Snapshot(r)
  \/ ExecuteNothing(r) \/ \E ok \in BOOLEAN : ExecuteTool(r, ok) \/ JobEnds(r, ok)
  \/ \E t \in jobs : RunJobNow(r, t)
  \/ Rollback(r) \/ Observe(r) \/ Finish(r) \/ Panic(r)

AllReturned == (\A r \in Runs : pc[r] = "returned") /\ UNCHANGED loopVars

TickerStep ==
  \E n \in 1..MaxDue, t \in jobs, ok \in BOOLEAN : RunDueJob(n, t, ok)

LoopNext == (\E r \in Runs : Start(r) \/ RunStep(r)) \/ TickerStep \/ AllReturned

LoopSpec == LoopInit /\ [][LoopNext]_loopVars

(* A run's goroutine keeps running: every external call gets a context with a *)
(* deadline, except the question to a person, who may never answer, and the   *)
(* job of a run_now, which gets context.Background().                         *)
Scheduled(r) ==
  /\ ~(pc[r] = "confirm" /\ config.policy = "interactive") /\ pc[r] # "job"
  /\ RunStep(r)

FairLoopSpec == LoopSpec /\ \A r \in Runs : WF_loopVars(Scheduled(r))

-----------------------------------------------------------------------------

Steps == {"idle", "rag", "ask", "check", "think", "record", "breaker", "gateway",
          "confirm", "snapshot", "execute", "job", "rollback", "observe", "finish",
          "returned"}

SharedTypeOK ==
  /\ config \in Configs
  /\ messages \in Seq(Messages)
  /\ trimmed \in BOOLEAN /\ cluster \subseteq AllIds /\ jobs \subseteq JobTools

LocalTypeOK ==
  /\ pc \in [Runs -> Steps]
  /\ iter \in [Runs -> Nat] /\ asked \in [Runs -> Nat] /\ turn \in [Runs -> Nat]
  /\ tool \in [Runs -> Names] /\ lvl \in [Runs -> Levels]
  /\ snap \in [Runs -> Snapshots]
  /\ results \in [Runs -> Seq(SUBSET AllIds)]
  /\ session \in [Runs -> {"none", "active", "completed"}]
  /\ ret \in [Runs -> {"pending", "error", "result", "nothing"}]

HistoryTypeOK ==
  /\ ran \subseteq Executions
  /\ admitted \subseteq AllIds

(* Every variable of the loop has the values its Go counterpart can take, and *)
(* a run observes no more results than it has answers for.                    *)
LoopTypeOK == BreakerTypeOK /\ SharedTypeOK /\ LocalTypeOK /\ HistoryTypeOK

Calls == {x \in ran : ~x.job}
ExecutedL2 == {x.id : x \in {y \in Calls : y.level >= 2}}

(* However many runs share the loop and however their steps interleave, at    *)
(* most maxL2Ops calls of L2+ tools ever execute: nothing resets the breaker, *)
(* and the check precedes the execution by a gateway, a person, a snapshot.   *)
(* What a scheduled job executes is no call: see OperationsCapped.            *)
ExecutedL2Capped == Cardinality(ExecutedL2) <= MaxL2Ops

(* What a policy never lets run, AutoApprovePolicy in autonomous.go.          *)
Ceiling(policy) ==
  CASE policy \in {"none", "strict", "safe"} -> 1
    [] policy = "all" -> 2
    [] policy = "interactive" -> 4

(* The default evaluators give L2 at least to what is not a known read: 20    *)
(* and more for the tool, 10 and more for its object (gateway.go:356-470).    *)
ChangesAreEvaluated ==
  \A t \in Tools : ToolLevel[t] >= 2 \/ t = SchedulerTool
                     => \A l \in EvalLevels[t] : l >= 2

(* Where the handler approves no L2 call, no operation is ever in the         *)
(* cluster: neither that of a call nor that of a job, which is not asked      *)
(* about but which only an approved call can have added.                      *)
UnapprovedChangesNothing ==
  ChangesAreEvaluated /\ config.policy \in {"none", "strict", "safe"}
    => cluster = {} /\ jobs = {}

(* No tool call evaluated above what the approval policy may approve is ever  *)
(* executed, by any run, whatever the gateway and the snapshots did meanwhile,*)
(* and without an approval nothing is changed.                                *)
PolicyRespected ==
  /\ \A x \in Calls : x.eval <= Ceiling(config.policy)
  /\ UnapprovedChangesNothing

(* "Full reasoning chain, zero side effects": under DryRun only L0 tools run, *)
(* nothing is changed in the cluster, neither by a rollback nor by a job.     *)
DryRunHasNoEffect ==
  config.dryRun => cluster = {} /\ \A x \in ran : x.level = 0

Answered(msgs, i, j) ==
  i < j /\ msgs[i].role = "assistant" /\ msgs[j].role = "tool"
        /\ msgs[j].ids # {} /\ msgs[j].ids \subseteq msgs[i].ids

(* Every tool message answers a call made before it, and every call made has  *)
(* its answer.                                                                *)
ResultsFollowCalls(msgs) ==
  \A j \in 1..Len(msgs) : msgs[j].role = "tool"
    => \E i \in 1..Len(msgs) : Answered(msgs, i, j)

FollowsProtocol(msgs) ==
  /\ ResultsFollowCalls(msgs)
  /\ \A i \in 1..Len(msgs) : \A id \in msgs[i].ids : msgs[i].role = "assistant"
       => \E j \in 1..Len(msgs) : Answered(msgs, i, j) /\ msgs[j].ids = {id}

(* Unless messages were dropped, what a run sends to the LLM obeys the tool   *)
(* calling protocol, whichever way each call of the answer took: refused by   *)
(* the breaker or the gateway, declined, unknown, previewed, failed, done.    *)
(* But for a failed evaluation, whose result carries no id (loop.go:445): it  *)
(* takes a rule that is not one of the gateway's own, CanEvalFail.            *)
RequestsFollowProtocol ==
  [][\A r \in Runs : Send(r) /\ ~trimmed => FollowsProtocol(messages)]_loopVars

(* An operation of a run that succeeded stays in the cluster, a job's that it *)
(* ran now included: auto-rollback of a later failed call undoes that call,   *)
(* and with it no more than the ticker did since its snapshot.                *)
SuccessesSurvive ==
  \A x \in ran : x.ok /\ x.level >= 2 /\ x.id[1] \in Runs => x.id \in cluster

(* A started run returns: the iteration count bounds the answers with tool    *)
(* calls, and every refusal, decline, error and rollback goes on to the next. *)
(* Only a job it was told to run now may hold it for ever.                    *)
RunsReturn ==
  \A r \in Runs : pc[r] \notin {"idle", "job"} /\ config.policy # "interactive"
                   ~> pc[r] \in {"returned", "job"}

-----------------------------------------------------------------------------
(* What the repository says and the code does not do.                         *)

(* README.md:85: "caps L2+ operations per session": the operations that one   *)
(* loop object and its scheduler execute, jobs included.                      *)
OperationsCapped ==
  Cardinality({x.id : x \in {y \in ran : y.level >= 2}}) <= MaxL2Ops

(* README.md:88: "returns partial results instead of crashing".               *)
PanicReturnsPartial == \A r \in Runs : ret[r] # "nothing"

(* README.md:85: "caps L2+ operations per session": the run whose call opens  *)
(* the breaker has had maxL2Ops of its own let through.                       *)
CapIsPerSession ==
  [][\A r \in Runs :
       pc'[r] # pc[r] /\ cb.state # "open" /\ cb'.state = "open"
         => Cardinality({id \in admitted : id[1] = r}) = MaxL2Ops]_loopVars

(* context.go:67: "assistant tool_calls must precede tool messages", in every *)
(* request of every run, also when runs share the context manager.            *)
CallsPrecedeResults ==
  [][\A r \in Runs : Send(r) => ResultsFollowCalls(messages)]_loopVars
=============================================================================
