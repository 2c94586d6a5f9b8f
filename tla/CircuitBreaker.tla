--------------------------- MODULE CircuitBreaker ---------------------------
(***************************************************************************)
(* The operation breaker of the agent loop, pkg/agent/circuit_breaker.go.  *)
(* Every method of the Go type holds its mutex from entry to return, so    *)
(* each is one action here.  `cb` is the struct; `granted` is a history of *)
(* what the breaker let through, which the code does not keep.             *)
(***************************************************************************)
EXTENDS Integers

CONSTANTS
  MaxL2Operations,     (* LoopConfig.MaxL2Operations, 0 when left unset        *)
  MaxConsecutiveWrite, (* LoopConfig.MaxConsecutiveWrite, 0 when left unset    *)
  OpsBound             (* bounds totalOps and failedOps, to keep TLC finite    *)

ASSUME ConfigIsNat ==
  /\ MaxL2Operations \in Nat
  /\ MaxConsecutiveWrite \in Nat
  /\ OpsBound \in Nat

VARIABLES
  cb,      (* [state, l2Count, consecutiveWrites, totalOps, failedOps]          *)
  granted  (* [l2: L2+ operations let through since the last Reset,
              streak: writes let through since the last read or Reset]         *)

breakerVars == <<cb, granted>>

States == {"closed", "half_open", "open"}

(* NewCircuitBreaker replaces a limit that is not positive by its default.    *)
MaxL2Ops        == IF MaxL2Operations = 0 THEN 5 ELSE MaxL2Operations
MaxConsecWrites == IF MaxConsecutiveWrite = 0 THEN 3 ELSE MaxConsecutiveWrite

Fresh == [state |-> "closed", l2Count |-> 0, consecutiveWrites |-> 0,
          totalOps |-> 0, failedOps |-> 0]

NoGrants == [l2 |-> 0, streak |-> 0]

BreakerInit == cb = Fresh /\ granted = NoGrants

One(b) == IF b THEN 1 ELSE 0

-----------------------------------------------------------------------------
(* Allow(isWrite, isL2Plus): the loop derives both from the tool's registered *)
(* level, so an L2+ operation is always a write.                              *)

Tripped(isWrite) == isWrite /\ cb.state \in {"open", "half_open"}

(* Mutant. *)
LateCap(isL2Plus) == isL2Plus /\ cb.l2Count > MaxL2Ops

OverL2Cap(isL2Plus) == isL2Plus /\ cb.l2Count + 1 > MaxL2Ops

(* Mutant. *)
LateStreak(isWrite) == isWrite /\ cb.consecutiveWrites > MaxConsecWrites

OverStreak(isWrite) == isWrite /\ cb.consecutiveWrites + 1 > MaxConsecWrites

Admits(isWrite, isL2Plus) ==
  ~Tripped(isWrite) /\ ~OverL2Cap(isL2Plus) /\ ~OverStreak(isWrite)

AllowRefused(isWrite) ==
  Tripped(isWrite) /\ UNCHANGED breakerVars

AllowTripsOpen(isWrite, isL2Plus) ==
  /\ ~Tripped(isWrite)
  /\ OverL2Cap(isL2Plus)
  /\ cb' = [cb EXCEPT !.l2Count = @ + 1, !.state = "open"]
  /\ UNCHANGED granted

(* The refused write has already been counted, against the L2+ cap too.       *)
AllowTripsHalfOpen(isWrite, isL2Plus) ==
  /\ ~Tripped(isWrite)
  /\ ~OverL2Cap(isL2Plus)
  /\ OverStreak(isWrite)
  /\ cb' = [cb EXCEPT !.l2Count = @ + One(isL2Plus), !.consecutiveWrites = @ + 1,
                      !.totalOps = @ + 1, !.state = "half_open"]
  /\ UNCHANGED granted

AllowWrite(isWrite, isL2Plus) ==
  /\ isWrite
  /\ Admits(isWrite, isL2Plus)
  /\ cb' = [cb EXCEPT !.l2Count = @ + One(isL2Plus), !.consecutiveWrites = @ + 1,
                      !.totalOps = @ + 1]
  /\ granted' = [l2 |-> granted.l2 + One(isL2Plus), streak |-> granted.streak + 1]

AfterRead(state) == IF state = "half_open" THEN "closed" ELSE state

AllowRead(isWrite) ==
  /\ ~isWrite
  /\ cb' = [cb EXCEPT !.consecutiveWrites = 0, !.state = AfterRead(@)]
  /\ granted' = [granted EXCEPT !.streak = 0]

Allow(isWrite, isL2Plus) ==
  \/ AllowRefused(isWrite)
  \/ AllowTripsOpen(isWrite, isL2Plus)
  \/ AllowTripsHalfOpen(isWrite, isL2Plus)
  \/ AllowWrite(isWrite, isL2Plus)
  \/ AllowRead(isWrite)

-----------------------------------------------------------------------------

(* failedOps counts failures of any kind of operation since the last success. *)
RecordFailure ==
  /\ cb' = [cb EXCEPT !.failedOps = @ + 1,
                      !.state = IF cb.failedOps + 1 >= 3 /\ cb.l2Count > 0
                                THEN "open" ELSE @]
  /\ UNCHANGED granted

RecordSuccess ==
  /\ cb' = [cb EXCEPT !.failedOps = 0]
  /\ UNCHANGED granted

Reset == cb' = Fresh /\ granted' = NoGrants

BreakerNext ==
  \/ /\ cb.totalOps < OpsBound
     /\ \E isWrite, isL2Plus \in BOOLEAN :
          (isL2Plus => isWrite) /\ Allow(isWrite, isL2Plus)
  \/ cb.failedOps < OpsBound /\ RecordFailure
  \/ RecordSuccess
  \/ Reset

BreakerSpec == BreakerInit /\ [][BreakerNext]_breakerVars

-----------------------------------------------------------------------------

(* The fields of CircuitBreaker hold values of their Go types, and counters   *)
(* never go negative.                                                         *)
BreakerTypeOK ==
  /\ cb \in [state : States, l2Count : Nat, consecutiveWrites : Nat,
             totalOps : Nat, failedOps : Nat]
  /\ granted \in [l2 : Nat, streak : Nat]

(* However reads, failures, successes and trips interleave, no more than      *)
(* maxL2Ops operations of level L2 or above are let through between Resets:   *)
(* the promise of Allow's first counter.                                      *)
L2Capped == granted.l2 <= MaxL2Ops

(* Never more than maxConsecWrites writes in a row without an L0 read between *)
(* them, also when the breaker has been open and half-open in between.        *)
WritesInterrupted == granted.streak <= MaxConsecWrites

(* An open breaker is closed by Reset alone: a read, which takes a half-open  *)
(* breaker back to closed, must not do the same to an open one, whichever of  *)
(* the three paths opened it.                                                 *)
OpenUntilReset ==
  [][cb.state = "open" => cb'.state = "open" \/ cb' = Fresh]_breakerVars

(* "Run a diagnostic first": one read while half-open is enough for a plain   *)
(* write to be let through again, so the loop never wedges in half-open.      *)
DiagnosticReopens ==
  [][cb.state = "half_open" /\ AllowRead(FALSE)
       => Admits(TRUE, FALSE)']_breakerVars
=============================================================================
