------------------------------ MODULE Sessions ------------------------------
(***************************************************************************)
(* pkg/session: the sessions table and its callers.  An agent run creates  *)
(* a session and is the only one to append to it; exports, refreshes, marks*)
(* and deletions of it come from anywhere, and ExpiryCleaner deletes what  *)
(* has expired.  An update reads the row, writes the columns it was given  *)
(* and reads the row again, in three queries.  The histories and counters  *)
(* of a row grow by one entry at a time, and are kept here as their sizes. *)
(***************************************************************************)
EXTENDS Integers, FiniteSets

CONSTANTS
  Runs,        (* agent runs                                                   *)
  Others,      (* other callers: exports, refreshes, marks, deletions          *)
  RunIds,      (* the ids that uuid hands out to runs                          *)
  ImportIds,   (* and to imports                                               *)
  Columns,     (* the columns that runs append to                              *)
  Marks,       (* the statuses that the others set                             *)
  TTL,         (* DefaultSessionTTL, in full periods of the clock              *)
  BatchSize,   (* the cleaner's batch                                          *)
  MaxSize,     (* bounds a column                                              *)
  Postgres     (* whether the database is PostgreSQL, and not the SQLite file  *)
               (* that the program falls back to                               *)

ASSUME SessionConstants ==
  /\ Columns \subseteq {"conversation", "tools", "tokens"}
  /\ Marks \subseteq {"crashed", "completed", "exported"}
  /\ 0 \notin Runs /\ Runs \cap Others = {}
  /\ TTL \in Nat /\ BatchSize \in Nat \ {0}
  /\ MaxSize \in Nat /\ Postgres \in BOOLEAN

Statuses == {"active", "crashed", "completed", "exported", "imported"}
Ids      == RunIds \cup ImportIds
Clients  == Runs \cup Others
RunOps   == Columns \cup {"completed"}
OtherOps == Marks \cup {"refresh"}
Ops      == RunOps \cup OtherOps

VARIABLES
  status,   (* of each row; "unborn" before it, "deleted" after it             *)
  count,    (* its columns                                                     *)
  left,     (* the periods until its expires_at, -1 when it has passed         *)
  owner,    (* the client whose run created it, 0 for none                     *)
  call,     (* the call each client is in                                      *)
  file,     (* what the file that sessions are exported to holds               *)
  cleaner,  (* run(): its place, the ticker, the rows its statement selected   *)
  stopping, (* Stop waits for run()                                            *)
  grown,    (* history: the entries that an UPDATE has added to each column    *)
  promised  (* history: the periods that the last success of a Create, an      *)
            (* Import or a RefreshTTL has still promised to the row            *)

row         == <<status, count, left, owner, grown>>
table       == <<row, promised>>
cleaning    == <<cleaner, stopping>>
sessionVars == <<table, call, file, cleaning>>

Live(id)    == status[id] \in Statuses
Expired(id) == Live(id) /\ left[id] < 0

Empty  == [k \in Columns |-> 0]
NoFile == [k \in Columns |-> -1]
Idle   == [at |-> "idle"]
Off    == [at |-> "off", tick |-> FALSE, chosen |-> {}]

SessionsInit ==
  /\ status = [id \in Ids |-> "unborn"] /\ count = [id \in Ids |-> Empty]
  /\ left = [id \in Ids |-> 0] /\ owner = [id \in Ids |-> 0]
  /\ grown = [id \in Ids |-> Empty] /\ promised = [id \in Ids |-> 0]
  /\ call = [c \in Clients |-> Idle] /\ file = NoFile
  /\ cleaner = Off /\ stopping = FALSE

-----------------------------------------------------------------------------
(* Create inserts a new row; a failed insert changes nothing.                 *)

Insert(id, initial, columns) ==
  /\ status[id] = "unborn"
  /\ status' = [status EXCEPT ![id] = initial]
  /\ count' = [count EXCEPT ![id] = columns]
  /\ grown' = [grown EXCEPT ![id] = columns]
  /\ left' = [left EXCEPT ![id] = TTL]
  /\ promised' = [promised EXCEPT ![id] = TTL]

Create(c, id) ==
  /\ call[c].at = "idle"
  /\ Insert(id, "active", Empty)
  /\ owner' = [owner EXCEPT ![id] = c]
  /\ UNCHANGED <<call, file, cleaning>>

(* Import gives the content of a complete file a new id and a new budget.     *)
Import(c, id) ==
  /\ call[c].at = "idle" /\ file # NoFile
  /\ Insert(id, "imported", [k \in Columns |-> IF k = "tokens" THEN 0 ELSE file[k]])
  /\ UNCHANGED <<owner, call, file, cleaning>>

-----------------------------------------------------------------------------
(* A call.  Appends, AddCost, RefreshTTL and Export read the row first.       *)

Go(c, place) == call' = [call EXCEPT ![c].at = place]
Return(c)    == call' = [call EXCEPT ![c] = Idle]

Begin(c, id, op) ==
  /\ call[c].at = "idle" /\ status[id] # "unborn"
  /\ IF c \in Runs THEN owner[id] = c /\ op \in RunOps ELSE op \in OtherOps
  /\ op \in Columns => count[id][op] < MaxSize
  /\ call' = [call EXCEPT ![c] =
       [at |-> IF op \in {"completed", "crashed"} THEN "check" ELSE "get",
        id |-> id, op |-> op, base |-> Empty, until |-> 0,
        applied |-> FALSE]]
  /\ UNCHANGED <<table, file, cleaning>>

GetRow(c) ==
  LET id == call[c].id IN
  /\ call[c].at = "get" /\ Live(id)
  /\ call' = [call EXCEPT ![c].at = IF call[c].op = "exported" THEN "file" ELSE "check",
                          ![c].base = IF call[c].op = "refresh" THEN Empty ELSE count[id],
                          ![c].until = IF call[c].op = "refresh" THEN TTL ELSE 0]
  /\ UNCHANGED <<table, file, cleaning>>

(* Export replaces the file; os.WriteFile may fail after it truncated it.     *)
WriteFile(c) ==
  /\ call[c].at = "file" /\ Go(c, "check")
  /\ file' = call[c].base
  /\ UNCHANGED <<table, cleaning>>

WriteFileFails(c) ==
  /\ call[c].at = "file" /\ Return(c)
  /\ file' \in {file, NoFile}
  /\ UNCHANGED <<table, cleaning>>

(* Update: Get, UPDATE, Get.                                                  *)
Check(c) ==
  /\ call[c].at = "check" /\ Live(call[c].id) /\ Go(c, "set")
  /\ UNCHANGED <<table, file, cleaning>>

NewSize(c) == call[c].base[call[c].op] + 1

(* Mutant: the row that was read is written back.                             *)
SetWholeRow(c) ==
  LET id == call[c].id  op == call[c].op IN
  /\ status' = [status EXCEPT ![id] = IF op \in Statuses THEN op ELSE @]
  /\ left' = [left EXCEPT ![id] = IF op = "refresh" THEN call[c].until ELSE @]
  /\ count' = [count EXCEPT ![id] =
                 IF op \in Columns THEN [call[c].base EXCEPT ![op] = NewSize(c)]
                 ELSE IF op = "exported" THEN call[c].base ELSE @]
  /\ grown' = [grown EXCEPT ![id] =
                 IF op \in Columns THEN [@ EXCEPT ![op] = grown[id][op] + 1] ELSE @]

(* Only the columns of the request are set.                                   *)
SetColumns(c) ==
  LET id == call[c].id  op == call[c].op IN
  /\ status' = [status EXCEPT ![id] = IF op \in Statuses THEN op ELSE @]
  /\ left' = [left EXCEPT ![id] = IF op = "refresh" THEN call[c].until ELSE @]
  /\ count' = [count EXCEPT ![id] =
                 IF op \in Columns THEN [@ EXCEPT ![op] = NewSize(c)] ELSE @]
  /\ grown' = [grown EXCEPT ![id] =
                 IF op \in Columns THEN [@ EXCEPT ![op] = grown[id][op] + 1] ELSE @]

(* An UPDATE of a row that is gone affects no row and is no error; one that   *)
(* reports an error may have taken effect.                                    *)
Set(c) ==
  /\ call[c].at = "set"
  /\ IF Live(call[c].id) THEN SetColumns(c) /\ UNCHANGED <<owner, promised>> ELSE UNCHANGED table
  /\ \/ call' = [call EXCEPT ![c].at = "confirm", ![c].base = Empty,
                             ![c].applied = Live(call[c].id)]
     \/ Return(c)
  /\ UNCHANGED <<file, cleaning>>

(* Mutant: Update returns without reading the row again.                      *)
ConfirmUnread(c) ==
  /\ call[c].at = "confirm" /\ Return(c)
  /\ UNCHANGED <<table, file, cleaning>>

(* The row is read again; RefreshTTL reads it once more.                      *)
Confirm(c) ==
  /\ call[c].at = "confirm" /\ Live(call[c].id)
  /\ Return(c)
  /\ promised' = [promised EXCEPT ![call[c].id] =
                    IF call[c].op = "refresh" THEN call[c].until ELSE @]
  /\ UNCHANGED <<row, file, cleaning>>

(* A read finds no row, or a query fails: the call returns an error, except   *)
(* Export, which ignores what its Update returns.                             *)
Fail(c) ==
  /\ call[c].at \in {"get", "check", "set", "confirm"}
  /\ Return(c)
  /\ UNCHANGED <<table, file, cleaning>>

Remove(s) ==
  /\ status' = [id \in Ids |-> IF id \in s THEN "deleted" ELSE status[id]]
  /\ count' = [id \in Ids |-> IF id \in s THEN Empty ELSE count[id]]
  /\ grown' = [id \in Ids |-> IF id \in s THEN Empty ELSE grown[id]]
  /\ left' = [id \in Ids |-> IF id \in s THEN 0 ELSE left[id]]
  /\ promised' = [id \in Ids |-> IF id \in s THEN 0 ELSE promised[id]]
  /\ UNCHANGED owner

Delete(c, id) ==
  /\ call[c].at = "idle" /\ Live(id) /\ Remove({id})
  /\ UNCHANGED <<call, file, cleaning>>

Update(c)     == Check(c) \/ Set(c) \/ Confirm(c) \/ Fail(c)
ClientStep(c) == GetRow(c) \/ WriteFile(c) \/ WriteFileFails(c) \/ Update(c)

-----------------------------------------------------------------------------
(* ExpiryCleaner.  Start and Stop hold its mutex; Stop waits for run() while  *)
(* it does.  A tick that nobody has taken is dropped by the next one.         *)

StartCleaner ==
  /\ cleaner.at = "off" /\ ~stopping
  /\ cleaner' = [Off EXCEPT !.at = "select"]
  /\ UNCHANGED <<table, call, file, stopping>>

StopCleaner ==
  /\ cleaner.at # "off" /\ ~stopping
  /\ stopping' = TRUE
  /\ UNCHANGED <<table, call, file, cleaner>>

ExitCleaner ==
  /\ cleaner.at = "select" /\ stopping
  /\ cleaner' = Off /\ stopping' = FALSE
  /\ UNCHANGED <<table, call, file>>

Refreshing(c) == call[c].at \in {"check", "set"} /\ call[c].op = "refresh"
Refreshed(c)  == call[c].at = "confirm" /\ call[c].op = "refresh"

Less(n) == IF n < 0 THEN n ELSE n - 1

(* A period passes; a statement takes less.                                   *)
Tick ==
  /\ cleaner.at # "delete"
  /\ left' = [id \in Ids |-> IF Live(id) THEN Less(left[id]) ELSE left[id]]
  /\ promised' = [id \in Ids |-> IF Live(id) THEN Less(promised[id]) ELSE promised[id]]
  /\ call' = [c \in Clients |-> IF Refreshing(c) \/ Refreshed(c)
                                THEN [call[c] EXCEPT !.until = Less(@)] ELSE call[c]]
  /\ cleaner' = [cleaner EXCEPT !.tick = cleaner.at # "off"]
  /\ UNCHANGED <<status, count, owner, grown, file, stopping>>

(* DeleteExpired: the inner SELECT takes up to BatchSize expired rows, in no  *)
(* order.                                                                     *)
Chosen ==
  {s \in SUBSET {id \in Ids : Expired(id)} :
     \/ Cardinality(s) = BatchSize
     \/ Cardinality(s) < BatchSize /\ s = {id \in Ids : Expired(id)}}

SelectExpired ==
  /\ cleaner.at = "select" /\ cleaner.tick
  /\ \E s \in Chosen :
       cleaner' = [cleaner EXCEPT !.at = "delete", !.tick = FALSE, !.chosen = s]
  /\ UNCHANGED <<table, call, file, stopping>>

(* Mutant: what was selected is deleted.                                      *)
Doomed(id) == Live(id) /\ id \in cleaner.chosen

(* The outer DELETE checks expires_at again.  SQLite knows neither ctid nor   *)
(* NOW(): there the statement is an error.                                    *)
StillExpired(id) == Live(id) /\ id \in cleaner.chosen /\ left[id] < 0

CleanAgain == cleaner' = [cleaner EXCEPT !.at = "select", !.chosen = {}]

DeleteExpired ==
  /\ Postgres /\ cleaner.at = "delete"
  /\ Remove({id \in Ids : StillExpired(id)}) /\ CleanAgain
  /\ UNCHANGED <<call, file, stopping>>

(* Mutant: run() returns on an error.                                         *)
ErrorEndsCleaner ==
  /\ cleaner.at = "delete"
  /\ cleaner' = [cleaner EXCEPT !.at = "ended", !.chosen = {}]
  /\ UNCHANGED <<table, call, file, stopping>>

(* An error is logged, and the next tick tries again.                         *)
DeleteFails ==
  /\ cleaner.at = "delete"
  /\ CleanAgain
  /\ UNCHANGED <<table, call, file, stopping>>

CleanerStep == ExitCleaner \/ SelectExpired \/ DeleteExpired \/ DeleteFails

SessionsNext ==
  \/ \E id \in Ids :
       \/ \E c \in Runs : id \in RunIds /\ Create(c, id)
       \/ \E c \in Others : Delete(c, id) \/ (id \in ImportIds /\ Import(c, id))
       \/ \E c \in Clients, op \in Ops : Begin(c, id, op)
  \/ \E c \in Clients : ClientStep(c)
  \/ StartCleaner \/ StopCleaner \/ Tick \/ CleanerStep

SessionsSpec == SessionsInit /\ [][SessionsNext]_sessionVars

(* The ticker fires and run() takes its ticks.  The last conjunct is about    *)
(* PostgreSQL: if it is asked again and again it answers at last.  With       *)
(* SQLite DeleteExpired is never enabled, and nothing is assumed.             *)
FairSessionsSpec ==
  /\ SessionsSpec
  /\ WF_sessionVars(Tick) /\ WF_sessionVars(CleanerStep) /\ SF_sessionVars(DeleteExpired)

-----------------------------------------------------------------------------
(* Properties                                                                 *)

Calls == [at : {"get", "file", "check", "set", "confirm"}, id : Ids, op : Ops,
          base : [Columns -> Nat], until : Int, applied : BOOLEAN]

(* Rows, calls and files have their types, and the cleaner's selection exists *)
(* only while its statement runs.                                             *)
SessionsTypeOK ==
  /\ status \in [Ids -> Statuses \cup {"unborn", "deleted"}]
  /\ count \in [Ids -> [Columns -> Nat]] /\ grown \in [Ids -> [Columns -> Nat]]
  /\ left \in [Ids -> Int] /\ promised \in [Ids -> Int]
  /\ owner \in [Ids -> Clients \cup {0}]
  /\ call \in [Clients -> Calls \cup {Idle}]
  /\ file \in [Columns -> Nat \cup {-1}]
  /\ stopping \in BOOLEAN
  /\ cleaner \in [at : {"off", "select", "delete"}, tick : BOOLEAN,
                  chosen : SUBSET Ids]
  /\ cleaner.at # "delete" => cleaner.chosen = {}
  /\ stopping => cleaner.at # "off"

(* An update never undoes another: a row's histories and counters hold what   *)
(* every UPDATE that took effect has added to them, although each append      *)
(* writes back what it read two queries before while exports, refreshes and   *)
(* marks of the same row come in between.                                     *)
NothingLost == \A id \in Ids : Live(id) => count[id] = grown[id]

(* An update that reports success took effect: a row deleted between the      *)
(* first read and the UPDATE makes the last read fail.                        *)
SuccessIsApplied ==
  [][\A c \in Clients : Confirm(c) => call[c].applied]_sessionVars

(* The cleaner deletes no session within the time that its last Create,       *)
(* Import or RefreshTTL has promised by its success, even when the session    *)
(* was refreshed after the statement had selected it, or when a refresh took  *)
(* effect and reported an error; provided the refreshes of a session do not   *)
(* overlap and ask for the default time (session.go:529, expiry.go:118-126).  *)
LivesItsTTL ==
  [][\A id \in Ids :
       DeleteExpired /\ Live(id) /\ status'[id] = "deleted" => promised[id] < 0]_sessionVars

(* On PostgreSQL, while the cleaner runs and nobody refreshes, an expired     *)
(* session goes, however small the batch and although statements fail.  On    *)
(* SQLite it stays: the statement fails at every tick.                        *)
ExpiredGoes ==
  \A id \in Ids :
    Expired(id) ~> \/ ~Expired(id) \/ stopping \/ cleaner.at = "off"
                   \/ \E c \in Clients : Refreshing(c)
=============================================================================
