---------------------------- MODULE AuditLedger ----------------------------
(***************************************************************************)
(* What the audit manager promises of the events it has accepted: each is  *)
(* pending, until it is kept in a store or gone for good, and both are     *)
(* final.                                                                  *)
(***************************************************************************)
CONSTANT Events

VARIABLES pending, kept, gone

ledgerVars == <<pending, kept, gone>>

LedgerInit == pending = {} /\ kept = {} /\ gone = {}

Accept(e) ==
  /\ e \notin pending \cup kept \cup gone
  /\ pending' = pending \cup {e}
  /\ UNCHANGED <<kept, gone>>

(* A batch leaves together, but a store that fails half way keeps its start.  *)
Settle(saved, missed) ==
  /\ saved \cup missed \subseteq pending /\ saved \cap missed = {}
  /\ pending' = pending \ (saved \cup missed)
  /\ kept' = kept \cup saved
  /\ gone' = gone \cup missed

LedgerNext ==
  \/ \E e \in Events : Accept(e)
  \/ \E saved, missed \in SUBSET pending : Settle(saved, missed)

LedgerSpec == LedgerInit /\ [][LedgerNext]_ledgerVars
=============================================================================
