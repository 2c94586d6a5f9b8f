------------------------------ MODULE DeadLoop ------------------------------
(***************************************************************************)
(* Dead-loop detection (pkg/agent/timeout.go, loop.go:354-379): runs of    *)
(* one agent loop record the tools of each iteration in the checker they   *)
(* share, and look at it after every third iteration.  Nothing ever        *)
(* empties the record: a run finds what earlier and concurrent runs did.   *)
(***************************************************************************)
EXTENDS Naturals, Sequences, FiniteSets

CONSTANTS
  Runs,          (* runs of the loop                                          *)
  ToolSets,      (* the tools of an iteration, joined; NoTools if none was run *)
  MaxIterations, (* maxIterations of the checker                              *)
  MaxHistory     (* bound: iterations recorded                                *)

VARIABLES
  history,    (* the recorded iterations' tools, oldest first                 *)
  iteration,  (* of each run: state.iterationCount                            *)
  checking,   (* the runs that have recorded and not yet counted up           *)
  mine,       (* of each run: what it recorded itself                         *)
  warned      (* the runs warned at their last check                          *)

deadLoopVars == <<history, iteration, checking, mine, warned>>

NoTools == ""

DeadLoopInit ==
  /\ history = <<>> /\ iteration = [r \in Runs |-> 0] /\ checking = {}
  /\ mine = [r \in Runs |-> <<>>] /\ warned = {}

-----------------------------------------------------------------------------
(* Mutant: the last three alone.                                              *)
RecentTools(h) ==
  Len(h) >= 3 /\ \A i \in Len(h) - 2 .. Len(h) : h[i] # NoTools /\ h[i] = h[Len(h)]

(* The same tools, by name, in three iterations or more, in any places.       *)
AnalyzeToolPatterns(h) ==
  \E i \in 1..Len(h) - 2 :
    h[i] # NoTools /\ Cardinality({j \in i + 1..Len(h) : h[j] = h[i]}) >= 2

(* The last three alike.  Every record's ResultSummary is the same text, and  *)
(* one that names no error.                                                   *)
DetectNoProgress(h) == h[Len(h)] = h[Len(h) - 1] /\ h[Len(h) - 1] = h[Len(h) - 2]

DetectDeadLoop(h) == Len(h) >= 3 /\ (AnalyzeToolPatterns(h) \/ DetectNoProgress(h))

(* An iteration runs its tools and records their names.                       *)
RecordIteration(r) ==
  /\ r \notin checking /\ iteration[r] < MaxIterations /\ Len(history) < MaxHistory
  /\ \E s \in ToolSets :
       history' = Append(history, s) /\ mine' = [mine EXCEPT ![r] = Append(@, s)]
  /\ checking' = checking \cup {r} /\ UNCHANGED <<iteration, warned>>

(* The check, if it is due, and the count.  The loop goes on after a warning. *)
Due(r) == iteration[r] > 0 /\ iteration[r] % 3 = 0

CountUp(r) ==
  /\ r \in checking /\ checking' = checking \ {r}
  /\ iteration' = [iteration EXCEPT ![r] = @ + 1]
  /\ warned' = IF ~Due(r) THEN warned
               ELSE IF DetectDeadLoop(history) THEN warned \cup {r} ELSE warned \ {r}
  /\ UNCHANGED <<history, mine>>

(* The run ends between iterations, and the loop starts another.              *)
NextRun(r) ==
  /\ r \notin checking /\ iteration[r] > 0
  /\ iteration' = [iteration EXCEPT ![r] = 0] /\ mine' = [mine EXCEPT ![r] = <<>>]
  /\ warned' = warned \ {r} /\ UNCHANGED <<history, checking>>

DeadLoopNext == \E r \in Runs : RecordIteration(r) \/ CountUp(r) \/ NextRun(r)
DeadLoopSpec == DeadLoopInit /\ [][DeadLoopNext]_deadLoopVars

-----------------------------------------------------------------------------
(* A run that has run the same tools in three of its iterations is warned at  *)
(* its next check, whatever other runs have recorded in between; and a        *)
(* warning means that some tools were run three times or that the last three  *)
(* iterations were alike, by whichever run (timeout.go:137-169, 198-219).     *)
Repeated(h) == \E s \in ToolSets \ {NoTools} : Cardinality({i \in DOMAIN h : h[i] = s}) >= 3

StuckIsWarned ==
  [][\A r \in Runs : r \in checking /\ r \notin checking' /\ Due(r) =>
       /\ Repeated(mine[r]) => r \in warned'
       /\ r \in warned' => Repeated(history) \/ DetectNoProgress(history)]_deadLoopVars
=============================================================================
