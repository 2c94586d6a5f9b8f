---------------------------- MODULE MCAgentLoop ----------------------------
(***************************************************************************)
(* Instances of AgentLoop: one tool of each registered level, of level L1  *)
(* the scheduler's, the levels the default evaluators give their calls,    *)
(* and the configurations of the program: the prompt, serve with and       *)
(* without --yes, and dry runs.                                            *)
(***************************************************************************)
EXTENDS AgentLoop, TLC

CONSTANTS get, scale

LoopTools  == {get, SchedulerTool, scale}
LoopLevel  == [t \in LoopTools |-> CASE t = get -> 0 [] t = SchedulerTool -> 1 [] t = scale -> 2]
LoopEvals  == [t \in LoopTools \cup {NoTool} |->
                 CASE t = get -> {1} [] t = scale -> {2, 3} [] OTHER -> {2}]

ASSUME ChangesAreEvaluated

Config(policy, dryRun, rollback) ==
  [policy |-> policy, dryRun |-> dryRun, autoSnapshot |-> rollback,
   autoRollback |-> rollback]

(* One run of each unattended policy, with and without DryRun.                *)
AllConfigs == {Config("safe", FALSE, TRUE),
               Config("all", FALSE, TRUE), Config("all", TRUE, TRUE)}
Attended      == {Config("interactive", FALSE, TRUE)}
Unattended    == {Config("all", FALSE, TRUE)}

RunSymmetry == Permutations(Runs)
=============================================================================
