# Lingshu in TLA+

Lingshu is an LLM agent that operates Kubernetes clusters: a prompt, an alert or
a scheduled job starts a *run*, in which the LLM asks for tool calls and the
program decides whether each may be executed, executes it, and reports back. This
directory specifies the parts of it whose correctness depends on ordering,
sharing and failure, model-checks them with TLC on small instances, and proves the
properties that matter most for every instance with TLAPS.

    tlc -workers 2 -config agent_loop.cfg MCAgentLoop      # one run
    tlapm AgentLoopProofs.tla                              # one module's proofs

`PROJECT.json` lists the runs, the map from definitions to source lines, the
hazards and the theorems. Paths below are relative to `src/`. Definitions under
the comment "Mutant." are deliberately wrong variants of the definition that
follows them. No specification uses them; they record which mistake each property
detects.

## 1. The system

| Component | State | Operations | Talks to |
|---|---|---|---|
| Agent loop `pkg/agent/loop.go` | per run: iteration, answer, call, results; per loop: everything below | `Execute`, `executeTools`, `executeSingleTool` | all of the following, by calls |
| Breaker `circuit_breaker.go` | state, three counters, one mutex | `Allow`, `RecordFailure`, `RecordSuccess`, `Reset` | the loop |
| Context manager `context.go` | messages, token count | `AddMessage`, `TrimContext`, `Reset` | the loop; its content is the LLM request |
| Timeouts `timeout.go` | deadlines, iteration history | `IsMaxIterations`, `DetectDeadLoop` | the loop |
| Parser, registry `parser.go`, `tool_registry.go` | registered tools | `Parse`, `ParseToolCalls`, `GetTool` | the loop |
| Parallel executor `parallel.go` | order, batch, results of one `Execute` | `Execute` by four strategies | nothing: only tests use it |
| Security gateway `pkg/security` | evaluators, rules, confirmation tokens | `EvaluateRisk`, `IsAllowed`, `RequiresConfirmation` | the loop, through an adapter |
| Autonomous engine `autonomous.go` | approval policy | `HandleAlert`, `RunHealthCheck`, the confirmer | alert server and watcher call it; it calls the loop |
| Audit manager `pkg/audit` | chain heads, bounded queue, batch, counters, database, fallback file | `Log`, `run`, `flushBatch`, `Start`, `Stop`, `List`, `VerifyChain` | the loop and the engine log to it |
| Alert server `pkg/alertd` | bounded queue, workers | webhooks, `enqueueAlert`, `processAlerts`, `Start`, `Stop` | the engine, by callback |
| Watcher `cmd/lingshu/watcher.go` | set of failures seen | `scanCluster` | the engine |
| Scheduler `pkg/scheduler` | jobs, ticker | add, remove, pause, resume, run now, tick | the tool registry, directly; the loop calls it as the tool `k8s_scheduler` |
| Sessions `pkg/session` | rows, expiry times, a cleaner | create, update, append, add cost, refresh, export, import, expire | the loop, the command line, a database |
| Workflows `pkg/workflow` | workflows, instance variables | `Execute` | the tool registry, directly |
| Snapshots `pkg/snapshot` | files | save, restore | the loop |
| Tools, k8s client | the cluster | get, top, scale, restart, patch, rollout | the API server |
| LLM router `pkg/llm` | configurations, providers | `Complete`, `Stream`, `HealthCheck`, `UpdateProviders` | the loop |
| Terminal `pkg/tui` | popups, input, chat, pending confirmation | `Update`, the goroutines it starts | the user, the loop, the LLM configuration |
| LLM configuration `pkg/config/llm_config.go` | file, memory, the panel's copy | load, save, remove | the terminal, the router |
| RAG, GitOps, db, config, logger, reports | configuration, caches | search; detection; connections; lines | the loop, the managers |

In serve mode **one loop object is shared** by the prompt, four alert workers, the
watcher and the start-up health check (`cmd/lingshu/serve.go:115-207`). Every run is
its own goroutine, so breaker, context manager and audit manager are concurrent
objects. That sharing, and the failures of what lies outside the process, are
what is hard here:

* checks that precede their use: breaker and gateway before the execution, the chain
  head before its replacement, a job's `NextRun` before the run that moves it;
* several ways out of one loop body, each of which must leave an answer;
* full queues, stores that fail half way, ambiguous commits, crashes;
* shutdown while producers go on;
* shared state that outlives the session it was meant for.

What makes each component correct:

* breaker: the two limits hold under any sequence of calls; open is final, half-open is not;
* loop: no call is executed that the policy does not approve; a dry run has no effect, scheduled jobs included;
  a rollback undoes only its own call; the LLM gets a well-formed request; every run returns;
* audit: every event is accounted for; an accepted one reaches a store, in order and
  once, or is counted as lost; the chain is one chain and verifies;
* scheduler: a due job is started whatever else runs or hangs, a job is not started before it
  is due again, and one execution's end does not disturb another job;
* alert server and daemon: a queued alert is handled once, an issue that stays is diagnosed; a shutdown ends, and
  closes the audit last;
* sessions: no update undoes another, success means applied, a session lives as long as a success has promised, and what
  has expired goes;
* tools: an update changes only what it is about; a call returns;
* workflows: an execution that reports completion has run its tools;
* gateway: no sum of scores lets a mutation through unasked;
* context, executor, router, tool calls: the token count is the messages'; results are the calls', and a change
  waits for the reads that run; failover asks in order and asks all; the calls made are those the model made;
* terminal: every question ends, answers settle, a saved provider stays.

## 2. The plan

Most important behaviour first: what may change a cluster, then the record of it,
then what starts runs, then the state around them.

| Module | Models | Composes | Proofs |
|---|---|---|---|
| `CircuitBreaker` | the breaker | | `AgentLoopProofs` |
| `AgentLoop`, `MCAgentLoop` | runs on a shared loop | extends `CircuitBreaker`; policies, context, gateway, snapshots | `AgentLoopProofs` |
| `AuditLedger` | what auditing promises (abstract) | | |
| `AuditManager` | logging, flushing, shutdown, crashes | refines `AuditLedger` | `AuditManagerProofs` |
| `Scheduler` | the job table, the tick loop, overlapping executions, restarts | | `SchedulerProofs` |
| `Daemon`, `MCDaemon` | serve mode: alert server, watcher, main goroutine, shutdown order | a run is abstract there: it ends in some way (`RunsReturn` of `AgentLoop`) | `DaemonProofs` |
| `Sessions` | read-modify-write updates, export and import, the expiry cleaner | | `SessionsProofs` |
| `K8sTools` | L2 tools on one object, with snapshots, conflicts and the controller | | `OperationsProofs` |
| `Workflow`, `MCOperations` | the engine on the built-in workflows; both of these for TLC | | `OperationsProofs` |
| `Terminal`, `ConfigPanel`, `MCTerminal` | the event loop and its goroutines; the list of providers in file, memory and panel | a run as the screen sees it | `ConversationProofs` |
| `SecurityGateway` | evaluators, rules, the decision about one call | | `DecisionsProofs` |
| `ContextWindow` | what the model is sent of a conversation | | `ConversationProofs` |
| `ParallelExecutor`, `DeadLoop`, `Router`, `ToolCalls`, `MCDecisions` | the other algorithms of the agent, each alone; all of these, gateway, context and breaker for TLC | | `DecisionsProofs` |

The ledger is the abstract specification; `AuditManager` is shown to implement it. The promises of the other
components are stated as properties of them, with a history variable where the state alone does not tell
(`granted`, `grown`, `accepted`, `inForce`, `asked`).

All of these modules are written, and every invariant and action property that a run checks is also proved. What is left to
TLC alone are the liveness properties (§5).

## 3. The modules

### CircuitBreaker

`cb` is the Go struct. Every method holds the struct's mutex throughout, so each is one
action. `Allow` is split by outcome: `AllowRefused` (already tripped), `AllowTripsOpen`
(the L2+ cap), `AllowTripsHalfOpen` (the streak; the refused write stays counted, as in
the code), `AllowWrite`, `AllowRead`. `granted` is a history variable that counts what
was let through, independently of the counters, so that the limits are stated of the
effect and not of the counter. `MaxL2Ops` and `MaxConsecWrites` are the defaults of
`NewCircuitBreaker`: a limit of 0 means 5 or 3, although `types.go:106` says that 0 is
unlimited. `OpsBound` bounds `totalOps` and `failedOps` in TLC's run only.

### AgentLoop

`Runs` are calls of `Execute` on one loop object. Shared by them: `cb`, `messages`, `cluster` (the
operations whose effect is in the cluster, each identified by run, iteration and position), `jobs` (the tools of
the scheduler's jobs).
Local to a run: `pc`, `iter`, `asked` and `turn` (calls in the answer, and which one is on),
`tool`, `lvl`, `snap`, `results`. Histories: `ran`, `admitted`, `trimmed`.

| Action | Code |
|---|---|
| `Start`, `Retrieve`, `Ask` | reset of the context, runbooks, user message and session |
| `Abort`, `StopAtMax`, `Send`, `LLMFails` | the checks at the head of the loop, the request |
| `Reply`, `RecordFinal`, `RecordCalls` | trimming, the assistant message |
| `BreakerRefuses`, `BreakerAdmits` | `Allow`, composed from `CircuitBreaker` |
| `EvaluationFails`, `GatewayBlocks`, `GatewayAllows` | `EvaluateRisk`, `IsAllowed`, `RequiresConfirmation` |
| `Confirm`, `Decline` | the handler: none, an approval policy, a person |
| `Snapshot`, `ExecuteNothing`, `ExecuteTool`, `Rollback` | from the snapshot to auto-rollback |
| `RunJobNow`, `JobEnds` | `k8s_scheduler` with `run_now`: the job's tool runs inside the call |
| `RunDueJob` | the ticker runs a job's tool, whatever the runs do |
| `Observe` | one tool message per step, then the next iteration |
| `Finish`, `Panic` | cost and completion; a panic in an external call |

Each action is one critical section or one external call, so runs interleave wherever the
goroutines can. Data are reduced to what the properties tell apart: a message is its role and
the calls it makes or answers and weighs one token; which tool a call names is chosen when
its turn comes; a tool is its level and the levels the evaluators may give it. A call that
fails may or may not have taken effect, and a restore may fail.

The policies come from `autonomous.go:108-163`. Its `strict` policy approves level 0 only, but
a handler is only asked at level 2 and above (`gateway.go:298`), so L1 tools run under it too:
`Ceiling` says 1.

One of the registered tools, `k8s_scheduler`, is of level L1 and runs others: it adds jobs and runs them at once
(`scheduler.go:146`), or the ticker does later (`:169`), and neither asks the breaker, the gateway or anybody. `ran` keeps
apart what a call executed and what a job did. The cap is therefore a promise about the calls of L2+ tools, as
`ExecutedL2Capped` says; that it is none about operations is in §6. What protects the cluster from jobs is that the gateway
gives the call of `k8s_scheduler` itself L2 (20 for a tool it does not know, 10 for no object, `gateway.go:356-470`), so
that a policy that approves no L2 call lets nobody add one: the second part of `PolicyRespected`. Its hypothesis
`ChangesAreEvaluated` is an `ASSUME` of `MCAgentLoop`. A job that calls `k8s_scheduler` stands for the job that it adds or
runs. Paused jobs and the times of jobs are in `Scheduler`; here any job in the table may be due.

Dry runs still take snapshots, which go to files outside the cluster.

### AuditLedger and AuditManager

The ledger is the abstract promise: an accepted event is pending until it is kept or gone,
and both are final. In the manager a caller of `Log` goes through `Begin`, `ReadHead` and
`StoreHead` (two locks), `Count`, then `Enqueue` or `DropFull` (the `select` with a default).
`Receive`, `Flush` and `Exit` are the branches of `run`; `FlushBatch` is `Insert`, `FallBack`
or `Lose`, with a commit that reports an error and yet took effect, and a fallback that fails after
some lines. `Stop` closes the channel; `DrainOne`, `DrainBreak`, `DrainFlush` and
`StopReturns` are `flushRemaining`. `Crash` loses what is in memory. `List` and `VerifyChain`
are operators over `db`.

Abstracted: a hash is the sequence of contents it was computed from (SHA-256 as injective);
`clock` gives every event its own `created_at`; events can be marshalled; the fallback
directory is not rotated; `List` is not cut off at `MaxListLimit`.

### Scheduler

`jobs` is the table, from an id to the struct behind the pointer (0 for none); `job` holds every struct
ever added, since an execution keeps its pointer after the table has lost it or another job has taken
the id. `AddJob`, `RemoveJob`, `PauseJob`, `ResumeJob`, `Start` and `Stop` are the calls, each one
critical section. `Look`, `Receive`, `Check` and `Exit` are the loop of the goroutine that each `Start`
creates: `run` evaluates `s.ticker` without the lock under which a later `Start` replaces it, so a
goroutine may look and find the ticker of a later start. `Check` starts every listed, enabled and due job
in a goroutine of its own; `Finish` is the end of such an execution, which moves `NextRun` only then.
`Advance` is the clock, one tick period a step, with a ticker channel that holds one tick. `started`
and `active` count the starts of a job and its executions under way.

Abstracted: a cron expression is the set of times it matches; an execution is its start and its end, with whatever
result; `LastStatus` and `LastError`, which nothing in the scheduler reads. `RunJobNow` executes in the caller and
changes no job, so it is no action here; what the tools of jobs do to the cluster is in `AgentLoop`. A tool that
panics ends the process, which nothing here survives.

### Daemon

The process of `--serve`. `main` is the main goroutine: the start-up check (`check`), the loop that reads commands
(`prompt`, `query`) and the shutdown in the order of `serve.go` (`closing` to `exited`). `Post` and `Webhook` are an
HTTP handler, which queues the alerts of one body one by one; `DropFull` answers success all the same. `WorkerStep` is
`processAlerts`, whose `select` takes either ready branch: after `stopCh` is closed a worker may still take alerts,
and what it leaves in the queue is not handled. The watcher's `Mark` adds an issue to `seen` before the diagnosis;
`on` is the issue under diagnosis and the history `outcome` what its last diagnosis came to. A diagnosis is a run of
`AgentLoop`, reduced to how it ends: an answer or an error (`Diagnosed`), or nothing after a panic, which kills the
process wherever its result is used (`NilResult`, `NilDiagnosis`, `NilWatch`). `Signal` before `signal.Notify` ends
the process, later it only fills `sigCh`, which `Input` looks at after the next line.

Abstracted: the formats of webhooks (a post is a sequence of alerts, all of them different); HTTP itself; the
10 s that `Shutdown` waits for requests are a step that may come before they have returned. The scheduler that the
daemon starts is `Scheduler`; its stop is part of `CloseAudit`.

### Sessions

A session is a row: `status`, its columns and `left`, the time to `expires_at`. A history or a counter of a row
grows by one entry at a time and is kept as its size; `grown` counts the entries that `UPDATE`s have added.
Every call on an existing row is `Begin`, then its queries in order: `GetRow` (appends, `AddCost`, `RefreshTTL`
and `Export` read the row first), `WriteFile` of an export, and `Update`, which is `Check` (read), `Set` (the `UPDATE`,
only of the columns of the request) and `Confirm` (read again). Any query may fail, and a `Set` that reports an
error may have taken effect. Only the run that created a session appends to it (`main.go`, `tui_model.go` and
`loop.go` hand a session to nobody else); all other calls come from anywhere. `SelectExpired` and
`DeleteExpired` are the subquery and the deletion of the cleaner's one statement; the outer condition is
evaluated again on the row as it then is. `Postgres` is FALSE for the SQLite file that the program falls back to
(`db.go:33-44`): it knows neither `ctid` nor `NOW()`, and the statement is an error at every tick. `promised` is what
the last success of a `Create`, `Import` or `RefreshTTL` has still promised to the row. The program itself constructs no
`ExpiryCleaner` and calls no `RefreshTTL`: only tests do, so this part is checked as the library it is.

Abstracted: the text of messages; time is counted in periods of the cleaner. Lists and statistics only read. The
Redis cache and its lock (`pkg/cache`) are initialised and used by nothing.

### K8sTools and Workflow

`K8sTools` is one object in the API server and runs that call the L2 tools on it. `Begin` is the snapshot before
a call, `Get` and `Update` the two requests of every tool but `patch`, `Patch` the one of that; `Refused`,
`NothingToDo`, `Fail` and `UpdateFails` are the early returns and errors; `Restore` is the rollback after a failure.
The API server refuses a copy whose `resourceVersion` is old: `current` are the runs whose copy is not. The answer
to an update that took effect may be lost. `OtherWrite` is any other client and `NewRevision` the deployment
controller, which gives the current template's `ReplicaSet` the highest revision. Replicas, the pause, the template
and the limits of an autoscaler are the fields the tools touch; a template is a number, and one that a
restart makes is new.

`IntArgument` is what the tools do with a number: a type assertion to `int`, which gives 0 for the `float64` of a
call from JSON. `Restore` always fails, because `RestoreByID` decodes the first YAML document of the file, and
that one holds the metadata.

`Workflow` is one execution of one of the three built-in workflows, the only ones that are registered. `Enter`
and `PassOver` are the head of the loop, `ExecuteAction` the actions of a step, `SeesCancel` the two places that look
at the context. `OnFailure` is in the data of the workflows and read nowhere. The k8s_workflow tool calls tools without
asking the gateway, and all the tools of the built-in workflows are reads.

### Terminal and ConfigPanel

`Terminal` is bubbletea's event loop: every action with `loop = "ready"` is one call of `Update`. Goroutines
give it messages by `Program.Send`, which blocks until the loop takes them: a question's goroutine (`run`), whose
messages wait in `out`, and the commands that `Update` returns (`commands`). The keys are the shortcuts of Normal
and Insert mode, and the keys that no shortcut takes, which go to the modal, then to the preview, the panel and
the input. `AnswerModal` sends from within `Update`, so the loop waits for itself (`sending`). `Ask` is the
confirmation handler on the run's goroutine; `StartRun` looks at `agentLoop` again, which a reload may have taken
away. Scrolling, layout, themes and what a message looks like are left out.

`ConfigPanel` is the list of providers in its three places: the file, the configuration in memory and the panel's
slice, which is the memory's after a save (`shared`). A save may fail before it touches the file or after
it has truncated it (`torn`), a file that cannot be read is an empty configuration. A form writes into the panel's slice
before it saves: an edit that cannot be saved is in the memory all the same while the slice is shared, an entry appended is not,
since the memory keeps its own length. Of a provider only the name is kept.

### The decisions

* `SecurityGateway` follows one call through `EvaluateRisk`, the adapter (which drops the blocking rules and the
  demand for a second person), `IsAllowed`, `RequiresConfirmation` and the answer. The scores are the code's numbers.
* `ContextWindow` is the context manager, basic and advanced, as sequences of messages with a number of tokens and the
  mark of key context; `currentTokens` is kept beside them, as in the code, and never computed from them.
* `ParallelExecutor` is one `Execute`: `Plan`, `Visit` and `Sorted` are the topological sort, with the orders of
  Go's maps left open; `StartBatch`, `ExecuteSingle` and `EndBatch` are the batches. The sort keeps one
  call of a name, the last (`LastOf`).
* `DeadLoop` is the iteration history shared by runs, and the check after every third iteration.
* `Router` is a request's walk over its copy of the providers while `UpdateProviders` replaces them; the
  configuration of a provider is looked up by name in the list as it then is. `SortProviders` is the stable sort by
  priority: the place of a configuration is the number of those before it.
* `ToolCalls` follows the tool calls of one answer: decoded by the provider, parsed with all fallbacks, given ids,
  and encoded in the next request. A text is reduced to what a parser can find in it.

`MCDecisions`, `MCOperations` and `MCTerminal` put several such modules into one run: in one behaviour one
part moves and the others stay in a single initial state. The parts share no state and no transition.


## 4. The runs

| Run | Bounds | Shows |
|---|---|---|
| `agent_loop` | 1 run, 2 iterations, 2 calls per answer, context of 3 messages, cap 2, 3 tools (L0, the scheduler's, L2) and an unknown one, 1 job run by the ticker, 3 configurations | `PolicyRespected`, `DryRunHasNoEffect`, `SuccessesSurvive`, `RequestsFollowProtocol`, `RunsReturn` |
| `agent_shared` | 2 runs, 1 iteration, cap 1, 1 job run by the ticker, a person confirms, evaluations fail, panics | `ExecutedL2Capped` |
| `audit` | 2 callers, 3 events, queue 1, batch 2, 2 starts, 1 crash | `Accounting`, `PersistedInOrder`, `StopLosesNothing`, `AcceptedSettles`, `ImplementsLedger` |
| `scheduler` | 1 id, 2 jobs in turn, 3 kinds, 2 starts, time up to 4 | `LastRunIsOwn`, `OnceIsOver`, `IntervalRespected`, `DueJobsStart`, `StoppedRunnersEnd` |
| `daemon` | posts of 2 and of 1 alert, queue 1, 2 workers, 1 issue | `NoAlertVanishes`, `AuditOutlivesWorkers`, `EverythingDiagnosed`, `ShutdownEnds` |
| `sessions` | 1 run, 1 other caller, 1 row and 1 import, 1 column of at most 1 entry, TTL 0 (less than a full period), batch 1, PostgreSQL | `NothingLost`, `SuccessIsApplied`, `LivesItsTTL`, `ExpiredGoes` |
| `operations` | 2 runs, 2 calls, 1 other write, 2 templates, numbers -1, 0 and 2, a deployment, an autoscaler and a pod; the three built-in workflows with every value of their variables | `OnlyItsFields`, `CallsReturn`, `CompletedIsComplete` |
| `terminal` | 2 questions, 1 event per run beside its end; 2 names, lists of at most 2 providers | `StreamingSettles`, `QuestionsEnd`, `SavedStays` |
| `decisions` | breaker: cap 4, streak 2, 12 operations; gateway: 8 tools, 6 resources, 5 environments, 3 namespaces, on call or not, in the window or not; context: 4 messages of 0, 1 or 3 tokens, limits 2 and 4, window 2; executor: 3 calls of 5 tools on 2 objects or none, 2 at once; dead loop: 2 runs, 7 iterations; router: 2 requests, 4 configurations, 1 update; answers of 2 calls | `L2Capped`, `WritesInterrupted`, `MutationsAreAsked`, `TokensAddUp`, `TrimKeepsKeyContext`, `ResultsAreTheCalls`, `DependenciesFirst`, `StuckIsWarned`, `FailoverInOrder`, `CallsAreTheModels` |
| `audit_verify` | 1 caller, 2 events | violated: `IntactVerifies` (`audit.go:793`) |
| `terminal_confirm` | 1 question | violated: `ConfirmationsAnswered` (`confirmation_modal.go:166`) |
| `scale_target` | 1 run, 1 call, a deployment | violated: `ScaleReachesTarget` (`scale.go:51`) |

Why the bounds are enough. In `agent_loop`
two iterations with two calls put a success before a failure in one answer and in two, the context
overflows, and the cap of 2 is exceeded; one job of the ticker may come
before, in and after every call; the configurations are the policies that run
unattended, and `all` with dry run, which is the most permissive. `agent_shared` needs two runs and a cap
of one for one run to be past the breaker when the other asks. In `audit` a queue of one
is full with two callers, three events make a full batch and a partial one, and a crash can
fall between any two steps, including those of `Stop`. In `scheduler` a second job takes the
id of a removed one whose execution may still be under way, later ticks find executions that
earlier ones started, and a second `Start` can come before the first goroutine has left.

In `daemon` one post fills the queue by itself, the other competes with it, and three alerts keep two workers busy
with one left over when `stopCh` closes; an issue may come, go and come again. In `sessions` an append and any other
call on the same row interleave at every query, a batch of one leaves one of two expired rows behind, and a refresh
may fall between the two halves of the cleaner's statement. A TTL of 0 lets a row expire at the first tick after its
creation or refresh; a tick during a refresh makes `promised` and `left` differ. Two columns of one row are not
needed: an update that writes back another's column is seen in the one there is, by an export. In `operations` two
calls and one other write suffice for a stale copy, a lost answer and a failed rollback, and two templates for an undo
and a restart. In `terminal` two questions share the chat's message and every popup may be open at every message;
lists of two have a first, a current and another provider. In `decisions` the gateway's inputs are every class its
`switch`es tell apart; four messages make every strategy trim, with key messages in any place; three calls make two
batches, chains of dependencies of several edges, and a name that comes twice before a change; seven records take one
run to its second check, or to its first with three of the other's in between; one update during a request replaces
every list by every other. Bounds on lengths and counts are `CONSTANTS` of their modules, commented as bounds.

`RequestsFollowProtocol` is about requests of a context from which nothing was dropped: `TrimContext` cuts by size and
makes no promise about pairs. It is also about evaluations that return: the result of a failed one has no id
(`loop.go:445`), the one way out of a call of which the property is not true (`CanEvalFail`); no rule or evaluator
that the program registers returns an error (`gateway.go:164-171`). `SuccessesSurvive` is checked for one run: with
two, a rollback restores the object as it was before the other run's operation; for the same reason it speaks of what
the run's calls have done, not of what the ticker did since their snapshots. `DependenciesFirst` speaks of the reads
that run: the sort drops the earlier calls of a name (§6). `LivesItsTTL` is about refreshes of a session that do not
overlap and ask for the default time, `ExpiredGoes` about PostgreSQL. Of `EverythingDiagnosed` the diagnosis may end
in an error, and is then not repeated (§6). `FailoverInOrder` is about configurations in which no name comes twice:
the router finds priorities and models by name.

### Fairness

`FairLoopSpec` is weakly fair to each run's next step: a goroutine runs, and every
external call of the loop gets a context with a deadline (`loop.go:157`). The exception is
the question to a person, which blocks on a channel: it is excluded from fairness, and
`RunsReturn` from interactive configurations. A job that a run was told to run now gets `context.Background()`
(`scheduler.go:243`) and may hold the run for ever: `JobEnds` is not fair, and `RunsReturn` ends there. A run need not start,
and no job need come due.

`FairAuditSpec` is weakly fair to `run()` and to the goroutine inside `Stop`. The ticker makes a
batch that is not full ready for flushing. `flushBatch` uses `context.Background()`: that the
database and the file system answer, with an error or not, is an assumption. Callers of `Log`,
`Start`, `Stop` and crashes are not fair: nobody has to log, stop or restart.

`FairSchedulerSpec` lets time pass and is weakly fair to a goroutine that looks, receives a tick or checks. It
is strongly fair to `Exit`: Go picks at random among the ready branches of a `select`, so a
goroutine whose context is done does not take ticks for ever. It is not fair to `Finish`: the scheduler
executes tools with `context.Background()` (`scheduler.go:243`), and one that hangs must not keep other
jobs, or later starts of the same one, from running. Nobody has to call the API.

`FairDaemonSpec` is weakly fair to the main goroutine except where it waits for input, to every handler under
way, to every worker and to the watcher, a diagnosis included: that a run of the agent returns is `RunsReturn`, as
long as no job it was told to run now holds it.
Nobody has to type, post or signal. A worker's step is one fair action whichever branch its `select` takes, so that
a worker that takes alerts for ever is not excluded; the queue is finite, and intake has ended when Stop waits.
`Tick` says that of the lists that are asked for, not all fail.

`FairSessionsSpec` lets periods pass, and is weakly fair to the cleaner and, on PostgreSQL, strongly fair to a
deletion that succeeds: a database asked at every tick does not fail for ever. On SQLite no deletion succeeds,
`DeleteExpired` is never enabled, the fairness says nothing and the property is false (§6). `K8sSpec` is weakly fair
to a run's next step: requests have the deadline of the call's context. `MCTerminalSpec` is weakly fair to the
goroutines of questions and to an initialisation, and strongly fair to `Handle` (of the agent's runs it assumes what
`Daemon` does): the channel of `Program.Send` serves its senders in turn, while keys and commands come as they like.
Nobody has to press keys, and a run that asks may wait for ever.

Deadlock is checked in the loop's runs (a state in which all runs have returned stutters
by `AllReturned`). It is not checked in the others, all of which end: a stopped manager or daemon, a clock at its bound,
calls and rows that are used up, a closed program, a decision that is made.

## 5. The proofs

No theorem assumes more than the `ASSUME`s of the modules (`ConfigIsNat`, `LoopConstants`, `AuditConstants`,
`SchedulerConstants`, `DaemonConstants`, `DistinctAlerts`, `SessionConstants`, `K8sConstants`, `TerminalConstants`,
`ConfigConstants`, `SizesAssumption`, `MaxParallelAssumption`, `ConfigurationsAssumption`): the types of the
constants, and that one alert is one number. Three theorems have hypotheses of their own: `LoneRunKeepsSuccesses`,
`LoneRunFollowsProtocol` and `LivesItsTTLHolds` (below). Type invariants are proved and therefore in no run. TLC finds
the inductive invariants to hold on the configurations of §4 too, except `RecordInv`, which it cannot evaluate: it
asks for a function between two records. `PROJECT.json` lists the theorems.

* `AgentLoopProofs`, the breaker. `BreakerInv` adds to the types and the two limits that what was let through was
  counted first (`GrantsCounted`) and that a counter past its limit shows in the state (`TripsShow`). The
  limits are not inductive without them, since `Allow` looks at the counters and the state, never at what it
  granted. It gives `L2CapHolds` and `WriteStreakHolds`; `OpenIsFinal` and `ReadReopensHalfOpen` are
  action properties and follow from the types.
* `AgentLoopProofs`, the loop. `LoopInv == TypeInv /\ CallInv /\ CountInv`. `CallInv` says what a run at each `pc` may
  hold: past `confirm`, `lvl` is within the policy's ceiling; in a dry run, and where no L2 call is approved, cluster
  and jobs are empty and every snapshot holds the empty cluster, so that neither a rollback nor the ticker changes
  anything; every executed L2+ call, and every one past the breaker, is in `admitted`. `CountInv` says that no more
  calls were admitted than the breaker granted. The cap then follows from the breaker's own invariant, which `TypeInv`
  carries, for any number of interleaved runs (`SharedCapHolds`). `LoneRunKeepsSuccesses` assumes `OneRun`, at most
  one run on the loop object, and shows that nothing succeeds between a snapshot and its restoration (`RollbackInv`);
  with two runs it is false (§4). `LoneRunFollowsProtocol` assumes `OneRun` and `~CanEvalFail`. Its invariant
  `ProtocolInv` says what the messages lack while a run is in the calls of an answer: the ids of the calls in
  `Waiting`, those whose result it holds in `results` and those it has still to make; `HoldsResults` keeps `results`
  and `turn` in step through every way out of a call. With `CanEvalFail` it is false: an evaluation error is a result
  without an id (`loop.go:445`). The evaluators and rules the program registers return no errors
  (`gateway.go:164-171`), a custom rule may.
* `AuditManagerProofs`. `AuditInv == AuditTypeOK /\ Accounting /\ Tracked /\ StopLosesNothing /\ ...`.
  `Tracked` says that every accepted event is in the queue, in the batch, in a store or lost;
  `StopLosesNothing` follows because `StopReturns` requires both to be empty. `Accounting` counts the callers
  that have counted and not offered yet, hence the finiteness of `Callers`.
  `OrderHolds` and `LedgerImplemented` rest on `OrderInv`: every event has an id of its own, in the hands of a
  caller or accepted (`Unique`); what is in memory, the batch before the queue, is the end of `accepted`
  (`InMemory`); the stores and `lost` hold some of what is before that, each store in order (`Recorded`). A flush
  moves the border (`Passed`) by the batch, a crash to the end. A store may get nothing, all or a first part of the
  batch, and is still in order (`StoreAlong`). For the refinement, what is pending is thereby apart from what is
  settled (`OrderApart`): `Enqueue` maps to `Accept`, a flush and a crash to `Settle`, all else to a stutter.
* `SchedulerProofs`. `SchedulerInv` says of the jobs what none of the four properties says alone: a once job
  waits for `At` or for nothing, is started only after `At`, and once it has run waits for nothing; an interval
  job that has run waits for its last end plus `Interval`; a struct not yet added was never started. Every write to
  a job but a pause recalculates `NextRun`, so one lemma (`RecalculationKeepsJobs`) serves adding, resuming and
  finishing. `OnceIsOverHolds` and `IntervalIsRespected` are action properties: a start needs a due job
  (`StartsAreDue`), and the invariant says when a job is due.
* `DaemonProofs`. `DaemonInv` is the types and `WorkersLeave`: once `Stop` has returned, all workers have left,
  and none comes back; that is `AuditOutlivesWorkersHolds`. `NoAlertVanishesHolds` has an invariant of its own,
  `OnceInv`: an alert not yet sent is not among the accepted ones and is in one place of one request (`Unsent`), the
  queue, the workers and the handled ones are disjoint (`Apart`), and so their sizes add up (`Counted`).
  `DistinctAlerts` starts it.
* `SessionsProofs`. `NothingLost` needs that an append, between its first read and its `UPDATE`, holds what its column
  has (`Held`), and that needs that nobody else appends to the row (`Owned`). For `SuccessIsApplied`: an `UPDATE` that
  found no row found one that is gone for good (`Unapplied`), so that the last read fails. For `LivesItsTTL`,
  `PromiseInv`: a row has at least what was promised (`Promise`), because what a refresh is about to write, or has
  written and not yet confirmed, is at least what was promised before (`Refreshes`). It assumes `OneRefresher`, one
  caller beside the runs: of two overlapping refreshes the older may write last (§6).
* `OperationsProofs`. For the tools: a copy with the object's `resourceVersion` is the object (`Fits`), and it has been
  checked before it is sent (`Checked`); then an update changes what `Changed` changes and nothing else. For the workflows:
  `Flow` says, step by step, which tools must have answered when the engine is there, and what the variables say of the steps
  passed over (`Noticed`, `Logged`): `get_pod_logs` may be left out only when no restart was counted.
* `DecisionsProofs`, five components one after the other. Gateway: a call that got through was judged by its own
  request (`Judged`), allowed (`Passed`) and, from the level that demands it on, confirmed (`Asked`). Tool and
  resource alone give a mutation a score of 30, which is level 2; hence the theorem for every environment, also
  unknown names. Tool calls: `AnswerInv` says what each provider leaves of the model's calls at each stage
  (`AllParsed`, `OneParsed`, `AloneParsed`). Dead loop: all runs write into one history, and `RecordInv` embeds each
  run's own records in it, as a one-to-one function that keeps the entries; three equal records of one run are then
  three equal entries, wherever the others' fall. Executor: `ParallelInv == CallsOK /\ SortInv /\ BatchInv`. The tools
  without dependencies are queued, hence visited, before all others (`RootsFirst`), and each entry of the order is the
  last call of its name (`SortInv`): with the slots below, a change then waits for the very read, which is
  `DependenciesFirst`. That none is forgotten (`NoneIsLost`) holds because the degree of a tool not yet queued is at
  most the number of calls it still waits for, and stays positive. `BatchInv` places each result: the ended ones are
  in their slots, and the slots follow the results. Router: the providers a request walks through are the
  configurations in force when it began, sorted, whatever an update has made of them since, and it has asked the first
  `Len(tried)` of them (`RouterInv`). That `SortProviders` has every configuration in a place, the better ones first,
  is a lemma about counting (no two have the same number before them).
* `ConversationProofs`. Sums and filters over sequences need induction, which here goes by the least counterexample
  (`LeastNumber`, `UpTo`, `EverySequence`): the sum of a sequence is a recursive function, whose existence
  `RecursionExists` proves. Context: `ContextInv` carries the sum of the messages and of the saved copy; the key
  messages and the rest share the sum (`TotalOfParts`), and marking changes no size. Screen: `StreamingInv` says what
  a question's goroutine may still have to send at each place (`Outs`), and that an answer that streams has a
  goroutine that goes on or whose last word is still in its channel (`StreamHasEnd`). Panel: `ConfigInv` says that
  what is in the file is in the memory and in an open panel, but for what the user asked to remove, and that a shared
  slice is the same as far as the memory's reaches (`SliceOK`). `Others` keeps all but the one name for lists of any
  length (`OthersStay`).

Model-checked only is what is temporal, which is beyond the prover: `RunsReturn`, `AcceptedSettles`, `DueJobsStart`,
`StoppedRunnersEnd`, `EverythingDiagnosed`, `ShutdownEnds`, `ExpiredGoes`, `CallsReturn` and `QuestionsEnd`.

## 6. What disagrees

Three runs end in a violation and are listed as findings in `PROJECT.json`, with the line they quote: an
intact audit chain does not verify; the answer to a confirmation stops the terminal; a scale whose number comes from
the model's JSON sets 0 replicas.

These properties too are stated in the modules, and TLC refutes them. They are not in the list of runs; the
configurations reproduce them:

| Configuration | Refuted | The repository says |
|---|---|---|
| `agent_panic.cfg`, `MCAgentLoop` | `PanicReturnsPartial`: a panic returns nothing | `README.md:88` "returns partial results instead of crashing" |
| `agent_session_cap.cfg`, `MCAgentLoop` | `CapIsPerSession`: one breaker serves the whole process | `README.md:85` "caps L2+ operations per session" |
| `agent_context.cfg`, `MCAgentLoop` | `CallsPrecedeResults`: runs that share a loop empty each other's context | `pkg/agent/context.go:67` |
| `audit_fork.cfg`, `AuditManager` | `ChainNeverForks`: two callers extend the same event | `pkg/audit/audit.go:683`, a chain |
| `scheduler_once.cfg`, `Scheduler` | `OnceStartsOnce`: a once job is started again while it runs | `README.md:165` "once jobs" |
| `scheduler_health.cfg`, `Scheduler` | `RegisteredJobsStart`: the health check has no schedule type and is never due | `cmd/lingshu/serve.go:217`, registered, every 5 minutes |
| `agent_jobs.cfg`, `MCAgentLoop` | `OperationsCapped`: jobs of `k8s_scheduler` execute L2 tools past breaker, gateway and confirmation (`scheduler.go:146-156`, `:237-244`) | `README.md:85` "caps L2+ operations per session" |
| `decisions_reads.cfg`, `MCDecisions` | `EveryReadFirst`: of get(a), get(b) and scale(a) the first is dropped, and the change runs though its object was not read (`parallel.go:308-313`) | `pkg/agent/parallel.go:205` "respecting dependencies" |
| `sessions_sqlite.cfg`, `Sessions` | `ExpiredGoes`: on the SQLite fallback nothing expired is ever deleted (`expiry.go:118-126`) | `docs/ops-ai-agent-system-design.md:22`, SQLite for when PostgreSQL fails; `README.md:163` "TTL" |
| `sessions_refresh.cfg`, `Sessions` | `LivesItsTTL` with two overlapping refreshes: the older one writes last | `README.md:163` "TTL", `pkg/session/session.go:529` |
| `daemon_retry.cfg`, `MCDaemon` | `FailureRetried`: an issue whose diagnosis failed is not diagnosed again while it stays (`watcher.go:86`, `:120`) | `cmd/lingshu/watcher.go:36` "scans all pods for actionable failure states and auto-triggers diagnosis" |
| `daemon_signal.cfg`, `MCDaemon` | `SignalEnds`: a signal waits for the next line of input | `cmd/lingshu/serve.go:226`, Ctrl+C exits safely |

What else was met on the way, and is modelled as the code has it:

* Claude's adapter keeps the last tool call of an answer and drops its id, Ollama's drops all
  (`pkg/llm/claude.go:341`, `ollama.go:83`), while `docs/lingshu-task-breakdown-final.md:149` asks for one format of
  tool calls. `CallsAreTheModels` says so.
* The adapters of the gateway drop `BlockingRules` and `RequiresDoubleConfirm` (`tui_model.go:310`, `main.go:469`), and
  "prod", which scores as production, is not production to the rules (`gateway.go:484`).
* `Router.Stream` cancels the context with its timeout when it returns, before the stream is read (`router.go:245`);
  nothing calls it.
* `RunJobNow` reports success whatever became of the job (`scheduler.go:518-525`); a rollback undoes what the ticker
  did to the object since the snapshot; a job that runs itself by `run_now` recurses without end; a panic in a job of
  the ticker ends the process.
* The error result of a failed evaluation has no `ToolCallID` (`loop.go:445`), so that the next request breaks the protocol.
* `generateToolCallID` takes 16 bits of the clock (`loop.go:718`): two calls of one answer may have one id.
* `undo` with revision 0 takes the first `ReplicaSet` of the list, where `rollout.go:58` says the previous revision.
* `RestoreByID` reads the metadata document of a snapshot file (`snapshot.go:170`), so that every rollback fails.
* `AggregateSummary` divides by the number of results, also when it is 0 (`parallel.go:426`).
* `OnFailure` of workflow steps is read nowhere, and the steps it names are reached by nothing else.

## 7. Not modelled

* In the terminal: `tui_model_clean.go` is `tui_model.go` a second time, byte for byte; with both the
  package does not compile, so one of them is modelled. `highlighted_renderer.go`, `event_panel.go`, `stream_renderer.go` and
  the other components draw what they are given.
* Called by nothing but tests: `AdvancedContextManager`, `ParallelExecutor`, `ExpiryCleaner`, `RefreshTTL` (modelled
  all the same), `TimeoutManager` and the warner and metrics beside it, `ParseFromText` and the `ArgumentValidator`,
  `RetryWithBackoff` and the rate limiter of the cluster's client, the confirmation tokens of the gateway, the Redis
  cache and its lock.
* `pkg/rag`, `pkg/gitops`, `pkg/db`, `pkg/logger`, `pkg/testutil`, `config.go`, reports and the L0 and L1 tools: reads, I/O and
  formatting without a protocol of their own. The verdict of GitOps only warns.
* In the audit manager: rotation and cleanup of the fallback files, statistics.
* In the router: the readers of server-sent events, metrics, the prompt.
* In the loop: events to the terminal (`Terminal` has them from the other side), durations, the GitOps warning.
