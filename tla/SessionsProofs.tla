---------------------------- MODULE SessionsProofs ----------------------------
(***************************************************************************)
(* That no update of a session undoes another, that an update which        *)
(* reports success took effect and that the cleaner leaves a session the   *)
(* time it was promised, for any number of runs, sessions and columns.     *)
(***************************************************************************)
EXTENDS Sessions, TLAPS

RowTypes ==
  /\ status \in [Ids -> Statuses \cup {"unborn", "deleted"}]
  /\ count \in [Ids -> [Columns -> Nat]] /\ grown \in [Ids -> [Columns -> Nat]]
  /\ left \in [Ids -> Int] /\ owner \in [Ids -> Clients \cup {0}]
  /\ promised \in [Ids -> Int]

CallTypes ==
  /\ call \in [Clients -> Calls \cup {Idle}]
  /\ file = NoFile \/ file \in [Columns -> Nat]

CleanerTypes ==
  /\ stopping \in BOOLEAN
  /\ cleaner.at \in {"off", "select", "delete"} /\ cleaner.tick \in BOOLEAN
  /\ cleaner.chosen \subseteq Ids
  /\ cleaner = [at |-> cleaner.at, tick |-> cleaner.tick, chosen |-> cleaner.chosen]
  /\ cleaner.at # "delete" => cleaner.chosen = {}
  /\ stopping => cleaner.at # "off"

InCall(c) == call[c].at # "idle"

(* Calls are about rows that exist or have existed, and appends only about    *)
(* rows of the run that makes them.                                           *)
Owned ==
  \A c \in Clients : InCall(c) =>
    /\ status[call[c].id] # "unborn"
    /\ call[c].op \in Columns => c \in Runs /\ owner[call[c].id] = c
    /\ call[c].at = "file" => call[c].op = "exported"

(* Between its first read and its UPDATE an append holds what its column has: *)
(* nobody else appends to the row.                                            *)
Holds(c) == call[c].at \in {"check", "set"} /\ call[c].op \in Columns /\ Live(call[c].id)

Held == \A c \in Clients : Holds(c) => call[c].base[call[c].op] = count[call[c].id][call[c].op]

(* A call whose UPDATE found no row: the row is gone for good.                *)
Unapplied == \A c \in Clients : call[c].at = "confirm" /\ ~call[c].applied => status[call[c].id] = "deleted"

SessionsInv ==
  RowTypes /\ CallTypes /\ CleanerTypes /\ Owned /\ Held /\ NothingLost /\ Unapplied

-----------------------------------------------------------------------------
Places == {"get", "file", "check", "set", "confirm"}

LEMMA CallFields ==
  ASSUME NEW c \in Clients, CallTypes, InCall(c)
  PROVE  /\ call[c] \in Calls /\ call[c].at \in Places /\ call[c].id \in Ids
         /\ call[c].op \in Ops /\ call[c].base \in [Columns -> Nat]
         /\ call[c].until \in Int /\ call[c].applied \in BOOLEAN
<1>1. call[c] \in Calls
  BY DEF CallTypes, InCall, Idle
<1> QED BY <1>1 DEF Calls, Places

LEMMA SessionsStart == SessionsInit => SessionsInv
<1> SUFFICES ASSUME SessionsInit PROVE SessionsInv
  OBVIOUS
<1>1. RowTypes
  BY DEF SessionsInit, RowTypes, Empty
<1>2. CallTypes
  BY DEF SessionsInit, CallTypes
<1>3. CleanerTypes
  BY DEF SessionsInit, CleanerTypes, Off
<1>4. \A c \in Clients : call[c].at = "idle"
  BY DEF SessionsInit, Idle
<1>5. Owned /\ Held /\ Unapplied
  BY <1>4 DEF Owned, InCall, Held, Holds, Unapplied
<1>6. NothingLost
  BY DEF SessionsInit, NothingLost
<1> QED BY <1>1, <1>2, <1>3, <1>5, <1>6 DEF SessionsInv

-----------------------------------------------------------------------------
(* New rows.                                                                  *)

LEMMA InsertKeeps ==
  ASSUME SessionsInv, NEW id \in Ids, NEW initial \in Statuses,
         NEW columns \in [Columns -> Nat], Insert(id, initial, columns),
         NEW x \in Clients \cup {0}, owner' = [owner EXCEPT ![id] = x] \/ owner' = owner,
         UNCHANGED <<call, file, cleaning>>
  PROVE  SessionsInv'
<1> USE DEF SessionsInv
<1>1. /\ status[id] = "unborn" /\ status' = [status EXCEPT ![id] = initial]
      /\ count' = [count EXCEPT ![id] = columns] /\ grown' = [grown EXCEPT ![id] = columns]
      /\ left' = [left EXCEPT ![id] = TTL] /\ call' = call /\ file' = file
      /\ cleaner' = cleaner /\ stopping' = stopping
      /\ promised' = [promised EXCEPT ![id] = TTL]
  BY DEF Insert, cleaning
<1>2. RowTypes'
  BY <1>1, SessionConstants DEF RowTypes
<1>3. CallTypes' /\ CleanerTypes'
  BY <1>1 DEF CallTypes, CleanerTypes
<1>4. \A c \in Clients : InCall(c) => call[c].id # id /\ call[c].id \in Ids
  BY <1>1, CallFields DEF Owned
<1>5. \A i \in Ids \ {id} : status'[i] = status[i] /\ count'[i] = count[i]
                            /\ grown'[i] = grown[i] /\ owner'[i] = owner[i]
  BY <1>1 DEF RowTypes
<1>6. Owned'
  BY <1>1, <1>4, <1>5 DEF Owned, InCall
<1>7. Held'
  BY <1>1, <1>4, <1>5 DEF Held, Holds, Live, InCall
<1>8. Unapplied'
  BY <1>1, <1>4, <1>5 DEF Unapplied, InCall
<1>9. NothingLost'
  BY <1>1, <1>5 DEF NothingLost, Live, RowTypes
<1> QED BY <1>2, <1>3, <1>6, <1>7, <1>8, <1>9

LEMMA CreateKeeps ==
  ASSUME SessionsInv, NEW c \in Runs, NEW id \in RunIds, Create(c, id) PROVE SessionsInv'
<1>1. Empty \in [Columns -> Nat] /\ "active" \in Statuses /\ id \in Ids /\ c \in Clients \cup {0}
  BY DEF Empty, Statuses, Ids, Clients
<1> QED BY <1>1, InsertKeeps DEF Create

LEMMA ImportKeeps ==
  ASSUME SessionsInv, NEW c \in Others, NEW id \in ImportIds, Import(c, id) PROVE SessionsInv'
<1> DEFINE columns == [k \in Columns |-> IF k = "tokens" THEN 0 ELSE file[k]]
<1>1. file \in [Columns -> Nat]
  BY DEF SessionsInv, CallTypes, Import
<1>2. columns \in [Columns -> Nat] /\ "imported" \in Statuses /\ id \in Ids
  BY <1>1 DEF Statuses, Ids
<1>3. Insert(id, "imported", columns) /\ UNCHANGED <<call, file, cleaning>> /\ owner' = owner
  BY DEF Import
<1> HIDE DEF columns
<1> QED BY <1>2, <1>3, InsertKeeps

-----------------------------------------------------------------------------
(* Rows that go.                                                              *)

LEMMA RemoveKeeps ==
  ASSUME SessionsInv, NEW s \in SUBSET Ids, \A id \in s : Live(id), Remove(s),
         UNCHANGED <<call, file>>, CleanerTypes'
  PROVE  SessionsInv'
<1> USE DEF SessionsInv
<1>1. \A id \in Ids : IF id \in s
        THEN status'[id] = "deleted"
        ELSE status'[id] = status[id] /\ count'[id] = count[id] /\ grown'[id] = grown[id]
  BY DEF Remove
<1>2. RowTypes'
  BY DEF RowTypes, Remove, Empty
<1>3. CallTypes'
  BY DEF CallTypes
<1>4. \A c \in Clients : InCall(c) => call[c].id \in Ids
  BY CallFields
<1>5. owner' = owner /\ call' = call
  BY DEF Remove
<1>6. Owned'
  BY <1>1, <1>4, <1>5 DEF Owned, InCall
<1>7. Held'
  BY <1>1, <1>4, <1>5 DEF Held, Holds, Live, InCall, Statuses
<1>8. Unapplied'
  BY <1>1, <1>4, <1>5 DEF Unapplied, InCall
<1>9. NothingLost'
  BY <1>1 DEF NothingLost, Live, Statuses
<1> QED BY <1>2, <1>3, <1>6, <1>7, <1>8, <1>9

-----------------------------------------------------------------------------
(* Steps of a call that leave the table alone.                                *)

LEMMA CallMoves ==
  ASSUME SessionsInv, NEW c \in Clients, NEW new, call' = [call EXCEPT ![c] = new],
         new = Idle \/ new \in Calls,
         file' = NoFile \/ file' \in [Columns -> Nat], UNCHANGED <<row, cleaning>>,
         promised' \in [Ids -> Int],
         new \in Calls =>
           /\ status[new.id] # "unborn"
           /\ new.op \in Columns => c \in Runs /\ owner[new.id] = c
           /\ new.at = "file" => new.op = "exported"
           /\ new.at \in {"check", "set"} /\ new.op \in Columns /\ Live(new.id)
                => new.base[new.op] = count[new.id][new.op]
           /\ new.at = "confirm" /\ ~new.applied => status[new.id] = "deleted"
  PROVE  SessionsInv'
<1> USE DEF SessionsInv
<1>1. UNCHANGED <<status, count, left, owner, grown, cleaner, stopping>>
  BY DEF row, cleaning
<1>2. call \in [Clients -> Calls \cup {Idle}]
  BY DEF CallTypes
<1>3. \A d \in Clients : call'[d] = IF d = c THEN new ELSE call[d]
  BY <1>2
<1>4. CallTypes'
  BY <1>2 DEF CallTypes
<1>5. RowTypes' /\ CleanerTypes' /\ NothingLost'
  BY <1>1 DEF RowTypes, CleanerTypes, NothingLost, Live
<1>6. new = Idle => new.at = "idle"
  BY DEF Idle
<1>7. Owned'
  BY <1>1, <1>3, <1>6 DEF Owned, InCall
<1>8. Held'
  BY <1>1, <1>3, <1>6 DEF Held, Holds, Live
<1>9. Unapplied'
  BY <1>1, <1>3, <1>6 DEF Unapplied
<1> QED BY <1>4, <1>5, <1>7, <1>8, <1>9

LEMMA ReturnKeeps ==
  ASSUME SessionsInv, NEW c \in Clients, Return(c), UNCHANGED <<row, cleaning>>,
         promised' \in [Ids -> Int], file' = file \/ file' = NoFile
  PROVE  SessionsInv'
<1>1. Idle \notin Calls
  BY DEF Idle, Calls
<1> QED BY <1>1, CallMoves DEF Return, SessionsInv, CallTypes

LEMMA RunOpsOnly == /\ \A op \in OtherOps : op \notin Columns
                    /\ \A op \in Ops : op \in Statuses => op \notin Columns
BY SessionConstants DEF OtherOps, Ops, RunOps, Statuses

LEMMA BeginKeeps ==
  ASSUME SessionsInv, NEW c \in Clients, NEW id \in Ids, NEW op \in Ops, Begin(c, id, op)
  PROVE  SessionsInv'
<1> DEFINE new == [at |-> IF op \in {"completed", "crashed"} THEN "check" ELSE "get",
                   id |-> id, op |-> op, base |-> Empty, until |-> 0, applied |-> FALSE]
<1>1. call' = [call EXCEPT ![c] = new] /\ UNCHANGED <<table, file, cleaning>>
      /\ status[id] # "unborn"
  BY DEF Begin
<1>2. new \in Calls
  BY DEF Calls, Empty
<1>3. op \in Columns => c \in Runs /\ owner[id] = c
  BY RunOpsOnly DEF Begin
<1>4. new.at = "check" => op \notin Columns
  BY SessionConstants
<1>5. new.id = id /\ new.op = op /\ new.at \in {"check", "get"}
  OBVIOUS
<1> HIDE DEF new
<1> QED BY <1>1, <1>2, <1>3, <1>4, <1>5, CallMoves DEF SessionsInv, CallTypes, RowTypes, table

LEMMA GetRowKeeps ==
  ASSUME SessionsInv, NEW c \in Clients, GetRow(c) PROVE SessionsInv'
<1> DEFINE place == IF call[c].op = "exported" THEN "file" ELSE "check"
           base  == IF call[c].op = "refresh" THEN Empty ELSE count[call[c].id]
           until == IF call[c].op = "refresh" THEN TTL ELSE 0
           new   == [call[c] EXCEPT !.at = place, !.base = base, !.until = until]
<1>1. InCall(c) /\ call[c].at = "get" /\ Live(call[c].id) /\ UNCHANGED <<table, file, cleaning>>
  BY DEF GetRow, InCall
<1>2. call' = [call EXCEPT ![c] = new]
  BY DEF GetRow
<1>3. call[c] \in Calls /\ call[c].id \in Ids /\ call[c].op \in Ops
  BY <1>1, CallFields DEF SessionsInv
<1>4. place \in Places /\ base \in [Columns -> Nat] /\ until \in Int
  BY <1>3, SessionConstants DEF Places, SessionsInv, RowTypes, Empty
<1>5. /\ place # "confirm" /\ (call[c].op \in Columns => base = count[call[c].id])
      /\ place = "file" => call[c].op = "exported"
  BY SessionConstants
<1> HIDE DEF place, base, until
<1>6. new \in Calls
  BY <1>3, <1>4 DEF Calls, Places
<1>7. new.id = call[c].id /\ new.op = call[c].op /\ new.at = place /\ new.base = base
  BY <1>3 DEF Calls
<1>8. status[call[c].id] # "unborn" /\ (call[c].op \in Columns => c \in Runs /\ owner[call[c].id] = c)
  BY <1>1 DEF SessionsInv, Owned
<1> HIDE DEF new
<1> QED BY <1>1, <1>2, <1>5, <1>6, <1>7, <1>8, CallMoves DEF SessionsInv, CallTypes, RowTypes, table

(* Going on to the next place with the row that was read.                     *)
LEMMA GoKeeps ==
  ASSUME SessionsInv, NEW c \in Clients, NEW place \in {"check", "set"}, InCall(c), Go(c, place),
         UNCHANGED <<table, cleaning>>, file' = NoFile \/ file' \in [Columns -> Nat],
         Holds(c) \/ call[c].op \notin Columns \/ ~Live(call[c].id)
  PROVE  SessionsInv'
<1> DEFINE new == [call[c] EXCEPT !.at = place]
<1>1. call' = [call EXCEPT ![c] = new]
  BY DEF Go
<1>2. call[c] \in Calls
  BY CallFields DEF SessionsInv
<1>3. new \in Calls /\ new.id = call[c].id /\ new.op = call[c].op /\ new.at = place
      /\ new.base = call[c].base
  BY <1>2 DEF Calls
<1>4. status[call[c].id] # "unborn" /\ (call[c].op \in Columns => c \in Runs /\ owner[call[c].id] = c)
  BY DEF SessionsInv, Owned
<1>5. new.op \in Columns /\ Live(new.id) => new.base[new.op] = count[new.id][new.op]
  BY <1>3 DEF SessionsInv, Held
<1> HIDE DEF new
<1> QED BY <1>1, <1>3, <1>4, <1>5, CallMoves DEF table, SessionsInv, RowTypes

LEMMA FileKeeps ==
  ASSUME SessionsInv, NEW c \in Clients, WriteFile(c) \/ WriteFileFails(c) PROVE SessionsInv'
<1>1. CASE WriteFileFails(c)
  BY <1>1, ReturnKeeps DEF WriteFileFails, table, SessionsInv, RowTypes
<1>2. CASE WriteFile(c)
  <2>1. InCall(c) /\ call[c].at = "file" /\ Go(c, "check") /\ file' = call[c].base
        /\ UNCHANGED <<table, cleaning>>
    BY <1>2 DEF WriteFile, InCall
  <2>2. call[c].base \in [Columns -> Nat]
    BY <2>1, CallFields DEF SessionsInv
  <2>3. call[c].op \notin Columns
    BY <2>1, SessionConstants DEF SessionsInv, Owned
  <2> QED BY <2>1, <2>2, <2>3, GoKeeps
<1> QED BY <1>1, <1>2

LEMMA CheckKeeps ==
  ASSUME SessionsInv, NEW c \in Clients, Check(c) PROVE SessionsInv'
<1>1. InCall(c) /\ Go(c, "set") /\ UNCHANGED <<table, file, cleaning>>
      /\ (call[c].op \in Columns => Holds(c))
  BY DEF Check, InCall, Holds
<1> QED BY <1>1, GoKeeps DEF SessionsInv, CallTypes, RowTypes, table

(* The UPDATE: a row of the run that appends gains one entry, in the table    *)
(* and in the history; no other call is between a read and an UPDATE of the   *)
(* column, since no other client owns the row.                                *)
LEMMA SetLiveRow ==
  ASSUME SessionsInv, NEW c \in Clients, InCall(c), call[c].at = "set", Live(call[c].id),
         SetColumns(c), owner' = owner, promised' = promised
  PROVE  /\ RowTypes' /\ NothingLost'
         /\ \A id \in Ids : status[id] # "unborn" => status'[id] # "unborn"
         /\ \A id \in Ids : status'[id] = "deleted" <=> status[id] = "deleted"
         /\ \A d \in Clients \ {c} : Holds(d) =>
              count'[call[d].id][call[d].op] = count[call[d].id][call[d].op]
<1> DEFINE id == call[c].id
           op == call[c].op
<1> USE DEF SessionsInv
<1>1. id \in Ids /\ op \in Ops /\ call[c].base \in [Columns -> Nat] /\ call[c].until \in Int
  BY CallFields
<1>2. /\ status' = [status EXCEPT ![id] = IF op \in Statuses THEN op ELSE @]
      /\ left' = [left EXCEPT ![id] = IF op = "refresh" THEN call[c].until ELSE @]
      /\ op \notin Columns => count' = count /\ grown' = grown
      /\ op \in Columns =>
           /\ count' = [count EXCEPT ![id] = [@ EXCEPT ![op] = call[c].base[op] + 1]]
           /\ grown' = [grown EXCEPT ![id] = [grown[id] EXCEPT ![op] = grown[id][op] + 1]]
  <2>1. op \notin Columns => count' = [count EXCEPT ![id] = @] /\ grown' = [grown EXCEPT ![id] = @]
    BY DEF SetColumns
  <2>2. op \notin Columns => count' = count /\ grown' = grown
    BY <2>1 DEF RowTypes
  <2> QED BY <2>2 DEF SetColumns, NewSize
<1> HIDE DEF id, op
<1>3. status' \in [Ids -> Statuses \cup {"unborn", "deleted"}] /\ left' \in [Ids -> Int]
  BY <1>1, <1>2 DEF RowTypes
<1>4. \A i \in Ids : IF i = id THEN status[i] \in Statuses /\ status'[i] \in Statuses
                     ELSE status'[i] = status[i]
  BY <1>1, <1>2 DEF RowTypes, Live, id
<1>5. CASE op \notin Columns
  <2>1. count' = count /\ grown' = grown
    BY <1>2, <1>5
  <2>2. RowTypes'
    BY <1>3, <2>1 DEF RowTypes
  <2>3. NothingLost'
    BY <1>4, <2>1 DEF NothingLost, Live
  <2> QED BY <1>4, <2>1, <2>2, <2>3, CallFields DEF Statuses
<1>6. CASE op \in Columns
  <2>1. /\ count' = [count EXCEPT ![id] = [@ EXCEPT ![op] = call[c].base[op] + 1]]
        /\ grown' = [grown EXCEPT ![id] = [grown[id] EXCEPT ![op] = grown[id][op] + 1]]
    BY <1>2, <1>6
  <2>2. call[c].base[op] = count[id][op] /\ count[id] = grown[id]
    <3>1. Holds(c)
      BY <1>6 DEF Holds, op
    <3>2. call[c].base[op] = count[id][op]
      BY <3>1 DEF Held, id, op
    <3>3. count[id] = grown[id]
      BY <1>1 DEF NothingLost, id
    <3> QED BY <3>2, <3>3
  <2>3. /\ count[id] \in [Columns -> Nat] /\ grown[id] \in [Columns -> Nat]
        /\ count[id][op] + 1 \in Nat
    BY <1>1, <1>6 DEF RowTypes
  <2> DEFINE columns == [count[id] EXCEPT ![op] = count[id][op] + 1]
  <2>4. columns \in [Columns -> Nat]
    BY <2>3
  <2>5. count' = [count EXCEPT ![id] = columns] /\ grown' = [grown EXCEPT ![id] = columns]
    <3>1. [count[id] EXCEPT ![op] = call[c].base[op] + 1] = columns
      BY <2>2
    <3>2. [grown[id] EXCEPT ![op] = grown[id][op] + 1] = columns
      BY <2>2
    <3>3. grown' = [grown EXCEPT ![id] = [grown[id] EXCEPT ![op] = grown[id][op] + 1]]
      BY <2>1
    <3> HIDE DEF columns
    <3> QED BY <2>1, <3>1, <3>2, <3>3
  <2> HIDE DEF columns
  <2>6. RowTypes'
    BY <1>1, <1>3, <2>4, <2>5 DEF RowTypes
  <2>7. \A i \in Ids : IF i = id THEN count'[i] = grown'[i]
                       ELSE count'[i] = count[i] /\ grown'[i] = grown[i]
    BY <1>1, <2>5 DEF RowTypes
  <2>8. NothingLost'
    BY <1>4, <2>7 DEF NothingLost, Live
  <2>9. c \in Runs /\ owner[id] = c
    BY <1>6 DEF Owned, id, op
  <2>10. ASSUME NEW d \in Clients \ {c}, Holds(d)
         PROVE  count'[call[d].id] = count[call[d].id]
    <3>1. InCall(d) /\ call[d].id \in Ids /\ owner[call[d].id] = d
      BY <2>10, CallFields DEF Holds, InCall, Owned
    <3>2. call[d].id # id
      BY <2>9, <3>1
    <3> QED BY <2>7, <3>1, <3>2
  <2> QED BY <1>4, <2>6, <2>8, <2>10 DEF Statuses
<1> QED BY <1>5, <1>6

LEMMA SetKeeps ==
  ASSUME SessionsInv, NEW c \in Clients, Set(c) PROVE SessionsInv'
<1> DEFINE id  == call[c].id
           new == [call[c] EXCEPT !.at = "confirm", !.base = Empty,
                                  !.applied = Live(id)]
<1> USE DEF SessionsInv
<1>1. InCall(c) /\ call[c].at = "set" /\ UNCHANGED <<file, cleaning>>
      /\ (call' = [call EXCEPT ![c] = new] \/ call' = [call EXCEPT ![c] = Idle])
  BY DEF Set, InCall, Return
<1>2. call[c] \in Calls /\ id \in Ids
  BY <1>1, CallFields
<1>3. Live(id) \in BOOLEAN
  BY DEF Live
<1>4. new \in Calls /\ new.at = "confirm" /\ new.applied = Live(id) /\ new.id = id
      /\ new.op = call[c].op
  <2> DEFINE applied == Live(id)
  <2>1. new = [call[c] EXCEPT !.at = "confirm", !.base = Empty, !.applied = applied]
    OBVIOUS
  <2>2. applied \in BOOLEAN
    BY <1>3
  <2> HIDE DEF applied, new
  <2>3. new = [at |-> "confirm", id |-> call[c].id, op |-> call[c].op, base |-> Empty,
               until |-> call[c].until, applied |-> applied]
    BY <1>2, <2>1 DEF Calls
  <2>4. /\ call[c].id \in Ids /\ call[c].op \in Ops /\ Empty \in [Columns -> Nat]
        /\ call[c].until \in Int /\ "confirm" \in {"get", "file", "check", "set", "confirm"}
    BY <1>2 DEF Calls, Empty
  <2>5. new \in Calls
    BY <2>2, <2>3, <2>4, Zenon DEF Calls
  <2>6. new.at = "confirm" /\ new.applied = applied /\ new.id = id /\ new.op = call[c].op
    BY <2>3
  <2> QED BY <2>5, <2>6 DEF applied
<1> HIDE DEF new
<1>5. /\ RowTypes' /\ NothingLost' /\ owner' = owner
      /\ \A i \in Ids : status[i] # "unborn" => status'[i] # "unborn"
      /\ \A i \in Ids : status'[i] = "deleted" <=> status[i] = "deleted"
      /\ \A d \in Clients \ {c} : Holds(d) =>
           count'[call[d].id][call[d].op] = count[call[d].id][call[d].op]
  <2>1. CASE Live(id)
    <3>1. SetColumns(c) /\ owner' = owner /\ promised' = promised
      BY <2>1 DEF Set
    <3> QED BY <1>1, <2>1, <3>1, SetLiveRow
  <2>2. CASE ~Live(id)
    <3>1. UNCHANGED <<status, count, left, owner, grown, promised>>
      BY <2>2 DEF Set, table, row
    <3> QED BY <3>1 DEF RowTypes, NothingLost, Live
  <2> QED BY <2>1, <2>2
<1>6. call \in [Clients -> Calls \cup {Idle}]
  BY DEF CallTypes
<1>7. PICK next \in {new, Idle} : call' = [call EXCEPT ![c] = next]
  BY <1>1
<1>8. \/ next = Idle
      \/ /\ next \in Calls /\ next.at = "confirm" /\ next.applied = Live(id)
         /\ next.id = id /\ next.op = call[c].op
  BY <1>4
<1>9. \A d \in Clients : call'[d] = IF d = c THEN next ELSE call[d]
  BY <1>6, <1>7
<1>10. CallTypes' /\ CleanerTypes'
  BY <1>1, <1>6, <1>7, <1>8 DEF CallTypes, CleanerTypes, cleaning
<1>11. \A d \in Clients : InCall(d) => call[d].id \in Ids
  BY CallFields
<1>12. Idle.at = "idle"
  BY DEF Idle
<1>13. Owned'
  BY <1>1, <1>2, <1>5, <1>8, <1>9, <1>11, <1>12 DEF Owned, InCall
<1>14. Held'
  <2> SUFFICES ASSUME NEW d \in Clients, Holds(d)'
               PROVE  call'[d].base[call'[d].op] = count'[call'[d].id][call'[d].op]
    BY DEF Held
  <2>1. d # c
    BY <1>8, <1>9, <1>12 DEF Holds
  <2>2. call'[d] = call[d] /\ InCall(d) /\ call[d].id \in Ids
    BY <1>9, <1>11, <2>1 DEF Holds, InCall
  <2>3. Live(call[d].id)
    <3>1. status'[call[d].id] \in Statuses
      BY <2>2 DEF Holds, Live
    <3>2. status[call[d].id] # "unborn"
      BY <2>2 DEF Owned
    <3>3. status[call[d].id] # "deleted"
      BY <1>5, <2>2, <3>1 DEF Statuses
    <3> QED BY <2>2, <3>2, <3>3 DEF RowTypes, Live
  <2>4. Holds(d)
    BY <2>2, <2>3 DEF Holds
  <2> QED BY <1>5, <2>1, <2>2, <2>4 DEF Held
<1>15. Unapplied'
  <2> SUFFICES ASSUME NEW d \in Clients, call'[d].at = "confirm", ~call'[d].applied
               PROVE  status'[call'[d].id] = "deleted"
    BY DEF Unapplied
  <2>1. CASE d = c
    <3>1. ~Live(id) /\ call'[d].id = id
      BY <1>8, <1>9, <1>12, <2>1
    <3>2. status[id] # "unborn"
      BY <1>1 DEF Owned
    <3> QED BY <1>2, <1>5, <3>1, <3>2 DEF RowTypes, Live
  <2>2. CASE d # c
    <3>1. InCall(d) /\ call'[d] = call[d]
      BY <1>9, <2>2 DEF InCall
    <3> QED BY <1>5, <1>11, <3>1 DEF Unapplied
  <2> QED BY <2>1, <2>2
<1> QED BY <1>5, <1>10, <1>13, <1>14, <1>15

LEMMA ClientStepKeeps ==
  ASSUME SessionsInv, NEW c \in Clients, ClientStep(c) PROVE SessionsInv'
<1>1. CASE Fail(c)
  BY <1>1, ReturnKeeps DEF Fail, table, SessionsInv, RowTypes
<1>2. CASE Confirm(c)
  <2>1. /\ Return(c) /\ UNCHANGED <<row, cleaning>> /\ file' = file /\ InCall(c)
        /\ promised' = [promised EXCEPT ![call[c].id] = IF call[c].op = "refresh" THEN call[c].until ELSE @]
    BY <1>2 DEF Confirm, InCall
  <2>2. call[c].until \in Int /\ promised \in [Ids -> Int]
    BY <2>1, CallFields DEF SessionsInv, RowTypes
  <2>3. promised' \in [Ids -> Int]
    BY <2>1, <2>2
  <2> QED BY <2>1, <2>3, ReturnKeeps
<1> QED BY <1>1, <1>2, GetRowKeeps, FileKeeps, CheckKeeps, SetKeeps DEF ClientStep, Update

-----------------------------------------------------------------------------
(* The cleaner and the clock.                                                 *)

(* Steps that concern the cleaner alone.                                      *)
LEMMA CleanerMoves ==
  ASSUME SessionsInv, UNCHANGED <<table, call, file>>, CleanerTypes' PROVE SessionsInv'
BY DEF SessionsInv, RowTypes, CallTypes, Owned, InCall, Held, Holds, Live, NothingLost, Unapplied, table, row

LEMMA CleanerKeeps ==
  ASSUME SessionsInv,
         StartCleaner \/ StopCleaner \/ ExitCleaner \/ SelectExpired \/ DeleteFails
  PROVE  SessionsInv'
<1>1. UNCHANGED <<table, call, file>>
  BY DEF StartCleaner, StopCleaner, ExitCleaner, SelectExpired, DeleteFails
<1>2. CleanerTypes
  BY DEF SessionsInv
<1>3. CASE StartCleaner \/ ExitCleaner
  <2>1. /\ \E place \in {"off", "select"} :
             /\ cleaner' = [at |-> place, tick |-> FALSE, chosen |-> {}]
             /\ place = "off" => stopping' = FALSE
        /\ stopping' \in BOOLEAN
    BY <1>2, <1>3 DEF StartCleaner, ExitCleaner, CleanerTypes, Off
  <2>2. CleanerTypes'
    BY <2>1 DEF CleanerTypes
  <2> QED BY <1>1, <2>2, CleanerMoves
<1>4. CASE StopCleaner
  <2>1. CleanerTypes'
    BY <1>2, <1>4 DEF StopCleaner, CleanerTypes
  <2> QED BY <1>1, <2>1, CleanerMoves
<1>5. CASE SelectExpired
  <2>1. PICK s \in Chosen : cleaner' = [cleaner EXCEPT !.at = "delete", !.tick = FALSE, !.chosen = s]
    BY <1>5 DEF SelectExpired
  <2>2. s \subseteq Ids
    BY DEF Chosen
  <2>3. cleaner' = [at |-> "delete", tick |-> FALSE, chosen |-> s]
    BY <1>2, <2>1 DEF CleanerTypes
  <2>4. cleaner.at = "select" /\ stopping' = stopping
    BY <1>5 DEF SelectExpired
  <2> QED BY <1>1, <1>2, <2>2, <2>3, <2>4, CleanerMoves DEF CleanerTypes
<1>6. CASE DeleteFails
  <2>1. cleaner' = [at |-> "select", tick |-> cleaner.tick, chosen |-> {}] /\ stopping' = stopping
    BY <1>2, <1>6 DEF DeleteFails, CleanAgain, CleanerTypes
  <2> QED BY <1>1, <1>2, <2>1, CleanerMoves DEF CleanerTypes
<1> QED BY <1>3, <1>4, <1>5, <1>6

LEMMA RemovalKeeps ==
  ASSUME SessionsInv, DeleteExpired \/ \E c \in Others, id \in Ids : Delete(c, id)
  PROVE  SessionsInv'
<1>1. CASE DeleteExpired
  <2> DEFINE s == {id \in Ids : StillExpired(id)}
  <2>1. Remove(s) /\ UNCHANGED <<call, file, stopping>> /\ CleanAgain
    BY <1>1 DEF DeleteExpired
  <2>2. s \in SUBSET Ids /\ \A id \in s : Live(id)
    BY DEF StillExpired
  <2>3. CleanerTypes
    BY DEF SessionsInv
  <2>4. cleaner' = [at |-> "select", tick |-> cleaner.tick, chosen |-> {}]
    BY <2>1, <2>3 DEF CleanAgain, CleanerTypes
  <2>5. CleanerTypes'
    BY <2>1, <2>3, <2>4 DEF CleanerTypes
  <2> HIDE DEF s
  <2> QED BY <2>1, <2>2, <2>5, RemoveKeeps
<1>2. ASSUME NEW c \in Others, NEW id \in Ids, Delete(c, id) PROVE SessionsInv'
  <2>1. Live(id) /\ Remove({id}) /\ UNCHANGED <<call, file, cleaner, stopping>>
    BY <1>2 DEF Delete, cleaning
  <2>2. CleanerTypes'
    BY <2>1 DEF SessionsInv, CleanerTypes
  <2> QED BY <2>1, <2>2, RemoveKeeps
<1> QED BY <1>1, <1>2

LEMMA LessIsInt == \A n \in Int : Less(n) \in Int
BY DEF Less

LEMMA TickKeeps ==
  ASSUME SessionsInv, Tick PROVE SessionsInv'
<1> USE DEF SessionsInv
<1>1. /\ left' = [id \in Ids |-> IF Live(id) THEN Less(left[id]) ELSE left[id]]
      /\ promised' = [id \in Ids |-> IF Live(id) THEN Less(promised[id]) ELSE promised[id]]
      /\ call' = [c \in Clients |-> IF Refreshing(c) \/ Refreshed(c) THEN [call[c] EXCEPT !.until = Less(@)]
                                    ELSE call[c]]
      /\ cleaner' = [cleaner EXCEPT !.tick = cleaner.at # "off"]
      /\ UNCHANGED <<status, count, owner, grown, file, stopping>>
  BY DEF Tick
<1>2. RowTypes'
  BY <1>1, LessIsInt DEF RowTypes
<1>3. \A c \in Clients : /\ call'[c] \in Calls \cup {Idle} /\ call'[c].at = call[c].at
                         /\ InCall(c) => /\ call'[c].id = call[c].id /\ call'[c].op = call[c].op
                                         /\ call'[c].base = call[c].base
                                         /\ call'[c].applied = call[c].applied
  <2> SUFFICES ASSUME NEW c \in Clients
               PROVE  /\ call'[c] \in Calls \cup {Idle} /\ call'[c].at = call[c].at
                      /\ InCall(c) => /\ call'[c].id = call[c].id /\ call'[c].op = call[c].op
                                      /\ call'[c].base = call[c].base
                                      /\ call'[c].applied = call[c].applied
    OBVIOUS
  <2>1. CASE ~(Refreshing(c) \/ Refreshed(c))
    BY <1>1, <2>1 DEF CallTypes
  <2>2. CASE Refreshing(c) \/ Refreshed(c)
    <3>1. InCall(c)
      BY <2>2 DEF Refreshing, Refreshed, InCall
    <3>2. call[c] \in Calls /\ Less(call[c].until) \in Int
      BY <3>1, CallFields, LessIsInt
    <3>3. call'[c] = [call[c] EXCEPT !.until = Less(call[c].until)]
      BY <1>1, <2>2
    <3> QED BY <3>2, <3>3 DEF Calls
  <2> QED BY <2>1, <2>2
<1>4. CallTypes'
  BY <1>1, <1>3 DEF CallTypes
<1>5. CleanerTypes'
  <2>1. cleaner' = [at |-> cleaner.at, tick |-> cleaner.at # "off", chosen |-> cleaner.chosen]
    BY <1>1 DEF CleanerTypes
  <2> QED BY <1>1, <2>1 DEF CleanerTypes
<1>6. Owned' /\ Held' /\ Unapplied'
  BY <1>1, <1>3 DEF Owned, InCall, Held, Holds, Live, Unapplied
<1>7. NothingLost'
  BY <1>1 DEF NothingLost, Live
<1> QED BY <1>2, <1>4, <1>5, <1>6, <1>7

LEMMA SessionsStep == SessionsInv /\ [SessionsNext]_sessionVars => SessionsInv'
<1> SUFFICES ASSUME SessionsInv, [SessionsNext]_sessionVars PROVE SessionsInv'
  OBVIOUS
<1>1. CASE UNCHANGED sessionVars
  BY <1>1, CleanerMoves DEF sessionVars, cleaning, SessionsInv, CleanerTypes
<1>2. ASSUME NEW id \in Ids, NEW c \in Runs, id \in RunIds, Create(c, id) PROVE SessionsInv'
  BY <1>2, CreateKeeps
<1>3. ASSUME NEW id \in Ids, NEW c \in Others, id \in ImportIds, Import(c, id) PROVE SessionsInv'
  BY <1>3, ImportKeeps
<1>4. ASSUME NEW id \in Ids, NEW c \in Clients, NEW op \in Ops, Begin(c, id, op) PROVE SessionsInv'
  BY <1>4, BeginKeeps
<1> QED BY <1>1, <1>2, <1>3, <1>4, RemovalKeeps, ClientStepKeeps, CleanerKeeps, TickKeeps
        DEF SessionsNext, CleanerStep

LEMMA SessionsInvariant == SessionsSpec => []SessionsInv
BY SessionsStart, SessionsStep, PTL DEF SessionsSpec

-----------------------------------------------------------------------------
(* Rows, calls, files and the cleaner keep their types.                       *)
THEOREM SessionsTypeCorrect == SessionsSpec => []SessionsTypeOK
<1>1. ASSUME SessionsInv PROVE SessionsTypeOK
  <2>1. RowTypes /\ CallTypes /\ CleanerTypes
    BY <1>1 DEF SessionsInv
  <2>2. file \in [Columns -> Nat \cup {-1}]
    BY <2>1 DEF CallTypes, NoFile
  <2>3. cleaner \in [at : {"off", "select", "delete"}, tick : BOOLEAN, chosen : SUBSET Ids]
    <3>1. cleaner.chosen \in SUBSET Ids
      BY <2>1 DEF CleanerTypes
    <3> QED BY <2>1, <3>1, Zenon DEF CleanerTypes
  <2> QED BY <2>1, <2>2, <2>3 DEF RowTypes, CallTypes, CleanerTypes, SessionsTypeOK
<1> QED BY <1>1, SessionsInvariant, PTL

(* What every UPDATE has added to a session's columns is in them, whoever     *)
(* else updates, exports, refreshes or marks the session meanwhile.           *)
THEOREM NothingLostHolds == SessionsSpec => []NothingLost
<1>1. SessionsInv => NothingLost
  BY DEF SessionsInv
<1> QED BY <1>1, SessionsInvariant, PTL

(* A call that returns success has found its row in the UPDATE too.           *)
THEOREM SuccessIsAppliedHolds == SessionsSpec => SuccessIsApplied
<1>1. SessionsInv /\ [SessionsNext]_sessionVars =>
        [\A c \in Clients : Confirm(c) => call[c].applied]_sessionVars
  BY DEF SessionsInv, Unapplied, Confirm, Live, Statuses
<1> QED BY <1>1, SessionsInvariant, PTL DEF SessionsSpec, SuccessIsApplied

-----------------------------------------------------------------------------
(* A session lives its time.  While refreshes come from one client, what a    *)
(* session has been promised is never more than the row has left, and a       *)
(* refresh on its way brings no less.                                         *)

OneRefresher == \A c, d \in Others : c = d

Promise ==
  \A id \in Ids : Live(id) => promised[id] <= left[id] /\ promised[id] <= TTL

Refreshes ==
  \A c \in Clients :
    /\ Refreshing(c) \/ Refreshed(c) => c \in Others
    /\ call[c].at = "get" /\ call[c].op = "refresh" => c \in Others
    /\ Refreshing(c) /\ Live(call[c].id) =>
         promised[call[c].id] <= call[c].until /\ call[c].until <= TTL
    /\ Refreshed(c) /\ Live(call[c].id) =>
         call[c].until <= left[call[c].id] /\ call[c].until <= TTL

PromiseInv == Promise /\ Refreshes

LEMMA PromiseStarts == SessionsInit => PromiseInv
BY DEF SessionsInit, PromiseInv, Promise, Refreshes, Live, Statuses, Refreshing, Refreshed, Idle

LEMMA LessKeepsOrder == \A m, n \in Int : m <= n => Less(m) <= Less(n) /\ Less(m) <= n
BY DEF Less

LEMMA InsertPromises ==
  ASSUME SessionsInv, PromiseInv, NEW id \in Ids, NEW initial \in Statuses,
         NEW columns, Insert(id, initial, columns), UNCHANGED call
  PROVE  PromiseInv'
<1>1. /\ status[id] = "unborn" /\ status' = [status EXCEPT ![id] = initial]
      /\ left' = [left EXCEPT ![id] = TTL] /\ promised' = [promised EXCEPT ![id] = TTL]
      /\ call' = call
  BY DEF Insert
<1>2. RowTypes /\ TTL \in Int
  BY SessionConstants DEF SessionsInv
<1>3. \A i \in Ids : IF i = id THEN left'[i] = TTL /\ promised'[i] = TTL
        ELSE status'[i] = status[i] /\ left'[i] = left[i] /\ promised'[i] = promised[i]
  BY <1>1, <1>2 DEF RowTypes
<1>4. Promise'
  BY <1>2, <1>3 DEF Promise, PromiseInv, Live
<1>5. \A c \in Clients : InCall(c) => call[c].id # id /\ call[c].id \in Ids
  BY <1>1, CallFields DEF SessionsInv, Owned
<1>6. Refreshes'
  BY <1>1, <1>3, <1>5 DEF Refreshes, PromiseInv, Live, Refreshing, Refreshed, InCall
<1> QED BY <1>4, <1>6 DEF PromiseInv

LEMMA RemovePromises ==
  ASSUME SessionsInv, PromiseInv, NEW s \in SUBSET Ids, Remove(s), UNCHANGED call
  PROVE  PromiseInv'
<1>1. \A id \in Ids : IF id \in s
        THEN status'[id] = "deleted"
        ELSE status'[id] = status[id] /\ left'[id] = left[id] /\ promised'[id] = promised[id]
  BY DEF Remove
<1>2. \A c \in Clients : InCall(c) => call[c].id \in Ids
  BY CallFields DEF SessionsInv
<1>3. Promise'
  BY <1>1 DEF Promise, PromiseInv, Live, Statuses
<1>4. Refreshes'
  BY <1>1, <1>2 DEF Refreshes, PromiseInv, Live, Refreshing, Refreshed, InCall, Statuses
<1> QED BY <1>3, <1>4 DEF PromiseInv

(* Steps of a client that leave the table alone: what it is in next is either *)
(* nothing of a refresh, or keeps what a refresh has to.                      *)
LEMMA CallPromises ==
  ASSUME SessionsInv, PromiseInv, NEW c \in Clients, NEW new, call' = [call EXCEPT ![c] = new],
         UNCHANGED table,
         new.at \in {"get", "check", "set", "confirm"} /\ new.op = "refresh" => c \in Others,
         new.at \in {"check", "set"} /\ new.op = "refresh" /\ Live(new.id) =>
           promised[new.id] <= new.until /\ new.until <= TTL,
         new.at # "confirm"
  PROVE  PromiseInv'
<1>1. UNCHANGED <<status, left, promised>>
  BY DEF table, row
<1>2. \A d \in Clients : call'[d] = IF d = c THEN new ELSE call[d]
  BY DEF SessionsInv, CallTypes
<1>3. Promise'
  BY <1>1 DEF Promise, PromiseInv, Live
<1>4. Refreshes'
  BY <1>1, <1>2 DEF Refreshes, PromiseInv, Live, Refreshing, Refreshed
<1> QED BY <1>3, <1>4 DEF PromiseInv

LEMMA ReturnPromises ==
  ASSUME SessionsInv, PromiseInv, NEW c \in Clients, Return(c), UNCHANGED table
  PROVE  PromiseInv'
<1>1. Idle.at = "idle"
  BY DEF Idle
<1> QED BY <1>1, CallPromises DEF Return

LEMMA BeginPromises ==
  ASSUME SessionsInv, PromiseInv, NEW c \in Clients, NEW id \in Ids, NEW op \in Ops, Begin(c, id, op)
  PROVE  PromiseInv'
<1> DEFINE new == [at |-> IF op \in {"completed", "crashed"} THEN "check" ELSE "get",
                   id |-> id, op |-> op, base |-> Empty, until |-> 0, applied |-> FALSE]
<1>1. call' = [call EXCEPT ![c] = new] /\ UNCHANGED table
  BY DEF Begin
<1>2. op = "refresh" => c \in Others
  BY SessionConstants DEF Begin, RunOps, Clients
<1>3. new.op = op /\ new.at \in {"check", "get"} /\ (new.at = "check" => op # "refresh")
  OBVIOUS
<1> HIDE DEF new
<1> QED BY <1>1, <1>2, <1>3, CallPromises

LEMMA GetRowPromises ==
  ASSUME SessionsInv, PromiseInv, NEW c \in Clients, GetRow(c)
  PROVE  PromiseInv'
<1> DEFINE place == IF call[c].op = "exported" THEN "file" ELSE "check"
           base  == IF call[c].op = "refresh" THEN Empty ELSE count[call[c].id]
           until == IF call[c].op = "refresh" THEN TTL ELSE 0
           new   == [call[c] EXCEPT !.at = place, !.base = base, !.until = until]
<1>1. call[c].at = "get" /\ Live(call[c].id) /\ UNCHANGED table
      /\ call' = [call EXCEPT ![c] = new]
  BY DEF GetRow
<1>2. call[c] \in Calls /\ call[c].id \in Ids
  BY <1>1, CallFields DEF SessionsInv, InCall
<1>3. new.at = place /\ new.op = call[c].op /\ new.id = call[c].id /\ new.until = until
  BY <1>2 DEF Calls
<1>4. place \in {"file", "check"}
  OBVIOUS
<1>5. call[c].op = "refresh" => c \in Others /\ until = TTL /\ promised[call[c].id] <= TTL
  BY <1>1, <1>2 DEF PromiseInv, Promise, Refreshes
<1>6. TTL <= TTL
  BY SessionConstants
<1> HIDE DEF new, place, until
<1> QED BY <1>1, <1>3, <1>4, <1>5, <1>6, CallPromises

LEMMA GoPromises ==
  ASSUME SessionsInv, PromiseInv, NEW c \in Clients, InCall(c), UNCHANGED table,
         \/ Go(c, "set") /\ call[c].at = "check"
         \/ Go(c, "check") /\ call[c].at = "file"
  PROVE  PromiseInv'
<1>1. PICK place \in {"set", "check"} : /\ call' = [call EXCEPT ![c] = [call[c] EXCEPT !.at = place]]
                                        /\ call[c].at = "check" \/ call[c].at = "file"
  BY DEF Go
<1> DEFINE new == [call[c] EXCEPT !.at = place]
<1>2. call[c] \in Calls
  BY CallFields DEF SessionsInv
<1>3. new.at = place /\ new.op = call[c].op /\ new.id = call[c].id /\ new.until = call[c].until
  BY <1>2 DEF Calls
<1>4. call[c].at = "file" => call[c].op # "refresh"
  BY DEF SessionsInv, Owned
<1>5. call[c].op = "refresh" => /\ c \in Others
                                /\ Live(call[c].id) => promised[call[c].id] <= call[c].until
                                                       /\ call[c].until <= TTL
  BY <1>1, <1>4 DEF PromiseInv, Refreshes, Refreshing
<1>6. call' = [call EXCEPT ![c] = new]
  BY <1>1
<1> HIDE DEF new
<1> QED BY <1>3, <1>5, <1>6, CallPromises

(* The UPDATE gives the row what the refresh has left; other calls keep what  *)
(* they have, as no other client refreshes.                                   *)
LEMMA SetPromises ==
  ASSUME SessionsInv, PromiseInv, OneRefresher, NEW c \in Clients, Set(c)
  PROVE  PromiseInv'
<1> DEFINE id  == call[c].id
           new == [call[c] EXCEPT !.at = "confirm", !.base = Empty, !.applied = Live(id)]
<1>1. /\ InCall(c) /\ call[c].at = "set" /\ promised' = promised
      /\ call' = [call EXCEPT ![c] = new] \/ call' = [call EXCEPT ![c] = Idle]
      /\ IF Live(id) THEN SetColumns(c) ELSE UNCHANGED <<status, left>>
  BY DEF Set, InCall, Return, table, row
<1>2. call[c] \in Calls /\ id \in Ids /\ call[c].op \in Ops
  BY <1>1, CallFields DEF SessionsInv
<1>3. new.at = "confirm" /\ new.op = call[c].op /\ new.id = id /\ new.until = call[c].until
  BY <1>2 DEF Calls
<1>4. Idle.at = "idle"
  BY DEF Idle
<1> HIDE DEF new, id
<1>5. PICK next \in {new, Idle} : \A d \in Clients : call'[d] = IF d = c THEN next ELSE call[d]
  BY <1>1 DEF SessionsInv, CallTypes
<1>6. /\ \A i \in Ids : Live(i)' <=> Live(i)
      /\ \A i \in Ids : left'[i] = IF i = id /\ Live(id) /\ call[c].op = "refresh"
                                   THEN call[c].until ELSE left[i]
  <2>1. CASE Live(id)
    <3>1. /\ status' = [status EXCEPT ![id] = IF call[c].op \in Statuses THEN call[c].op ELSE @]
          /\ left' = [left EXCEPT ![id] = IF call[c].op = "refresh" THEN call[c].until ELSE @]
      BY <1>1, <2>1 DEF SetColumns, id
    <3>2. RowTypes
      BY DEF SessionsInv
    <3> QED BY <1>2, <2>1, <3>1, <3>2 DEF RowTypes, Live
  <2>2. CASE ~Live(id)
    BY <1>1, <2>2 DEF Live
  <2> QED BY <2>1, <2>2
<1>7. call[c].op = "refresh" /\ Live(id) => /\ c \in Others
                                            /\ promised[id] <= call[c].until /\ call[c].until <= TTL
  BY <1>1 DEF PromiseInv, Refreshes, Refreshing, id
<1>8. Promise'
  BY <1>1, <1>6, <1>7 DEF PromiseInv, Promise
<1>9. call[c].op = "refresh" => c \in Others
  BY <1>1 DEF PromiseInv, Refreshes, Refreshing
<1>10. ASSUME NEW d \in Clients
       PROVE  /\ (Refreshing(d) \/ Refreshed(d))' => d \in Others
              /\ call'[d].at = "get" /\ call'[d].op = "refresh" => d \in Others
              /\ Refreshing(d)' /\ Live(call[d].id)' =>
                   promised'[call'[d].id] <= call'[d].until /\ call'[d].until <= TTL
              /\ Refreshed(d)' /\ Live(call[d].id)' =>
                   call'[d].until <= left'[call'[d].id] /\ call'[d].until <= TTL
  <2>1. CASE d = c /\ next = Idle
    BY <1>4, <1>5, <2>1 DEF Refreshing, Refreshed
  <2>2. CASE d = c /\ next = new
    <3>1. call'[d] = new
      BY <1>5, <2>2
    <3>2. (Live(call[d].id))' <=> Live(id)
      BY <1>2, <1>3, <1>6, <3>1 DEF Live
    <3>3. call'[d].op = "refresh" /\ Live(id) => left'[id] = call[c].until
      BY <1>2, <1>3, <1>6, <3>1
    <3>4. call[c].until <= call[c].until
      BY <1>2 DEF Calls
    <3> QED BY <1>3, <1>7, <1>9, <2>2, <3>1, <3>2, <3>3, <3>4 DEF Refreshing, Refreshed
  <2>3. CASE d # c
    <3>1. call'[d] = call[d]
      BY <1>5, <2>3
    <3>2. InCall(d) => call[d].id \in Ids
      BY CallFields DEF SessionsInv
    <3>3. InCall(d) => ((Live(call[d].id))' <=> Live(call[d].id))
      BY <1>6, <3>1, <3>2 DEF Live
    <3>4. Refreshed(d) => left'[call[d].id] = left[call[d].id]
      <4>1. Refreshed(d) => d \in Others /\ call[c].op # "refresh"
        BY <1>9, <2>3 DEF PromiseInv, Refreshes, OneRefresher
      <4> QED BY <1>6, <3>2, <4>1 DEF Refreshed, InCall
    <3> QED BY <1>1, <3>1, <3>3, <3>4 DEF PromiseInv, Refreshes, Refreshing, Refreshed, InCall
  <2> QED BY <1>5, <2>1, <2>2, <2>3
<1> QED BY <1>8, <1>10 DEF PromiseInv, Refreshes

LEMMA ConfirmPromises ==
  ASSUME SessionsInv, PromiseInv, OneRefresher, NEW c \in Clients, Confirm(c)
  PROVE  PromiseInv'
<1> DEFINE id == call[c].id
<1>1. /\ InCall(c) /\ call[c].at = "confirm" /\ Live(id) /\ call' = [call EXCEPT ![c] = Idle]
      /\ UNCHANGED <<status, left>>
      /\ promised' = [promised EXCEPT ![id] = IF call[c].op = "refresh" THEN call[c].until ELSE @]
  BY DEF Confirm, InCall, Return, row
<1>2. id \in Ids /\ call[c].until \in Int
  BY <1>1, CallFields DEF SessionsInv
<1>3. call[c].op = "refresh" => c \in Others /\ call[c].until <= left[id] /\ call[c].until <= TTL
  BY <1>1 DEF PromiseInv, Refreshes, Refreshed
<1> HIDE DEF id
<1>4. \A i \in Ids : promised'[i] = IF i = id /\ call[c].op = "refresh" THEN call[c].until ELSE promised[i]
  BY <1>1, <1>2 DEF SessionsInv, RowTypes
<1>5. Promise'
  BY <1>1, <1>3, <1>4 DEF PromiseInv, Promise, Live
<1>6. Idle.at = "idle"
  BY DEF Idle
<1>7. \A d \in Clients : call'[d] = IF d = c THEN Idle ELSE call[d]
  BY <1>1 DEF SessionsInv, CallTypes
<1>8. \A d \in Clients \ {c} : Refreshing(d) => call[c].op # "refresh" /\ call[d].id \in Ids
  BY <1>3, CallFields DEF SessionsInv, PromiseInv, Refreshes, OneRefresher, Refreshing, InCall
<1>9. Refreshes'
  BY <1>1, <1>4, <1>6, <1>7, <1>8 DEF PromiseInv, Refreshes, Refreshing, Refreshed, Live
<1> QED BY <1>5, <1>9 DEF PromiseInv

(* Time passes for a row, for what it was promised and for what a refresh     *)
(* will bring alike.                                                          *)
LEMMA TickPromises ==
  ASSUME SessionsInv, PromiseInv, Tick PROVE PromiseInv'
<1>1. /\ left' = [id \in Ids |-> IF Live(id) THEN Less(left[id]) ELSE left[id]]
      /\ promised' = [id \in Ids |-> IF Live(id) THEN Less(promised[id]) ELSE promised[id]]
      /\ call' = [c \in Clients |-> IF Refreshing(c) \/ Refreshed(c)
                                    THEN [call[c] EXCEPT !.until = Less(@)] ELSE call[c]]
      /\ status' = status
  BY DEF Tick
<1>2. /\ left \in [Ids -> Int] /\ promised \in [Ids -> Int] /\ TTL \in Int
      /\ \A i \in Ids : Live(i)' <=> Live(i)
  BY <1>1, SessionConstants DEF SessionsInv, RowTypes, Live
<1>3. Promise'
  <2> SUFFICES ASSUME NEW i \in Ids, Live(i)
               PROVE  promised'[i] <= left'[i] /\ promised'[i] <= TTL
    BY <1>2 DEF Promise
  <2>1. promised[i] <= left[i] /\ promised[i] <= TTL /\ promised[i] \in Int /\ left[i] \in Int
    BY <1>2 DEF PromiseInv, Promise
  <2>2. promised'[i] = Less(promised[i]) /\ left'[i] = Less(left[i])
    BY <1>1
  <2> QED BY <1>2, <2>1, <2>2, LessKeepsOrder
<1>4. ASSUME NEW c \in Clients
      PROVE  /\ call'[c].at = call[c].at
             /\ Refreshing(c) \/ Refreshed(c) =>
                  /\ call'[c].op = call[c].op /\ call'[c].id = call[c].id /\ call[c].id \in Ids
                  /\ call'[c].until = Less(call[c].until) /\ call[c].until \in Int
             /\ ~(Refreshing(c) \/ Refreshed(c)) => call'[c] = call[c]
  <2>1. CASE ~(Refreshing(c) \/ Refreshed(c))
    BY <1>1, <2>1
  <2>2. CASE Refreshing(c) \/ Refreshed(c)
    <3>1. call[c] \in Calls /\ call[c].id \in Ids /\ call[c].until \in Int
      BY <2>2, CallFields DEF SessionsInv, Refreshing, Refreshed, InCall
    <3>2. call'[c] = [call[c] EXCEPT !.until = Less(call[c].until)]
      BY <1>1, <2>2
    <3> QED BY <2>2, <3>1, <3>2 DEF Calls
  <2> QED BY <2>1, <2>2
<1>5. ASSUME NEW c \in Clients
      PROVE  /\ Refreshing(c)' <=> Refreshing(c)
             /\ Refreshed(c)' <=> Refreshed(c)
  <2>1. CASE ~(Refreshing(c) \/ Refreshed(c))
    BY <1>4, <2>1 DEF Refreshing, Refreshed
  <2>2. CASE Refreshing(c) \/ Refreshed(c)
    BY <1>4, <2>2 DEF Refreshing, Refreshed
  <2> QED BY <2>1, <2>2
<1>6. ASSUME NEW c \in Clients, Refreshing(c), Live(call[c].id)
      PROVE  promised'[call[c].id] <= call'[c].until /\ call'[c].until <= TTL
  <2>1. promised[call[c].id] <= call[c].until /\ call[c].until <= TTL /\ call[c].id \in Ids
        /\ call[c].until \in Int /\ promised[call[c].id] \in Int
    BY <1>2, <1>4, <1>6 DEF PromiseInv, Refreshes
  <2>2. promised'[call[c].id] = Less(promised[call[c].id]) /\ call'[c].until = Less(call[c].until)
    BY <1>1, <1>4, <1>6, <2>1
  <2> QED BY <1>2, <2>1, <2>2, LessKeepsOrder
<1>7. ASSUME NEW c \in Clients, Refreshed(c), Live(call[c].id)
      PROVE  call'[c].until <= left'[call[c].id] /\ call'[c].until <= TTL
  <2>1. call[c].until <= left[call[c].id] /\ call[c].until <= TTL /\ call[c].id \in Ids
        /\ call[c].until \in Int /\ left[call[c].id] \in Int
    BY <1>2, <1>4, <1>7 DEF PromiseInv, Refreshes
  <2>2. left'[call[c].id] = Less(left[call[c].id]) /\ call'[c].until = Less(call[c].until)
    BY <1>1, <1>4, <1>7, <2>1
  <2> QED BY <1>2, <2>1, <2>2, LessKeepsOrder
<1>8. ASSUME NEW c \in Clients
      PROVE  /\ (Refreshing(c) \/ Refreshed(c))' => c \in Others
             /\ call'[c].at = "get" /\ call'[c].op = "refresh" => c \in Others
             /\ Refreshing(c)' /\ Live(call[c].id)' =>
                  promised'[call'[c].id] <= call'[c].until /\ call'[c].until <= TTL
             /\ Refreshed(c)' /\ Live(call[c].id)' =>
                  call'[c].until <= left'[call'[c].id] /\ call'[c].until <= TTL
  <2>1. CASE ~(Refreshing(c) \/ Refreshed(c))
    BY <1>4, <1>5, <2>1 DEF PromiseInv, Refreshes
  <2>2. CASE Refreshing(c) \/ Refreshed(c)
    <3>1. (Live(call[c].id))' <=> Live(call[c].id)
      BY <1>1, <1>4, <2>2 DEF Live
    <3>2. call'[c].at # "get" /\ c \in Others /\ call'[c].id = call[c].id
      BY <1>4, <2>2 DEF PromiseInv, Refreshes, Refreshing, Refreshed
    <3> QED BY <1>5, <1>6, <1>7, <3>1, <3>2
  <2> QED BY <2>1, <2>2
<1> QED BY <1>3, <1>8 DEF PromiseInv, Refreshes

(* Steps that leave rows, promises and calls alone.                           *)
LEMMA QuietPromises ==
  ASSUME PromiseInv, UNCHANGED <<table, call>> PROVE PromiseInv'
BY DEF PromiseInv, Promise, Refreshes, Live, Refreshing, Refreshed, table, row

LEMMA PromiseKept ==
  ASSUME SessionsInv, PromiseInv, OneRefresher, [SessionsNext]_sessionVars PROVE PromiseInv'
<1>1. CASE UNCHANGED sessionVars
  BY <1>1, QuietPromises DEF sessionVars
<1>2. ASSUME NEW id \in Ids, NEW c \in Runs, Create(c, id) PROVE PromiseInv'
  <2>1. "active" \in Statuses
    BY DEF Statuses
  <2> QED BY <1>2, <2>1, InsertPromises DEF Create
<1>3. ASSUME NEW id \in Ids, NEW c \in Others, Import(c, id) PROVE PromiseInv'
  <2>1. "imported" \in Statuses
    BY DEF Statuses
  <2> QED BY <1>3, <2>1, InsertPromises DEF Import
<1>4. ASSUME NEW id \in Ids, NEW c \in Others, Delete(c, id) PROVE PromiseInv'
  BY <1>4, RemovePromises DEF Delete
<1>5. ASSUME NEW id \in Ids, NEW c \in Clients, NEW op \in Ops, Begin(c, id, op) PROVE PromiseInv'
  BY <1>5, BeginPromises
<1>6. ASSUME NEW c \in Clients, ClientStep(c) PROVE PromiseInv'
  <2>1. CASE GetRow(c)
    BY <2>1, GetRowPromises
  <2>2. CASE WriteFile(c) \/ Check(c)
    BY <2>2, GoPromises DEF WriteFile, Check, InCall
  <2>3. CASE WriteFileFails(c) \/ Fail(c)
    BY <2>3, ReturnPromises DEF WriteFileFails, Fail
  <2>4. CASE Set(c)
    BY <2>4, SetPromises
  <2>5. CASE Confirm(c)
    BY <2>5, ConfirmPromises
  <2> QED BY <1>6, <2>1, <2>2, <2>3, <2>4, <2>5 DEF ClientStep, Update
<1>7. CASE DeleteExpired
  <2> DEFINE s == {id \in Ids : StillExpired(id)}
  <2>1. s \in SUBSET Ids /\ Remove(s) /\ UNCHANGED call
    BY <1>7 DEF DeleteExpired
  <2> HIDE DEF s
  <2> QED BY <2>1, RemovePromises
<1>8. CASE StartCleaner \/ StopCleaner \/ ExitCleaner \/ SelectExpired \/ DeleteFails
  BY <1>8, QuietPromises DEF StartCleaner, StopCleaner, ExitCleaner, SelectExpired, DeleteFails
<1>9. CASE Tick
  BY <1>9, TickPromises
<1> QED BY <1>1, <1>2, <1>3, <1>4, <1>5, <1>6, <1>7, <1>8, <1>9 DEF SessionsNext, CleanerStep

(* Whatever fails or reports an error after it took effect, and whenever the  *)
(* cleaner's statement runs, it takes no session before the time that its     *)
(* last Create, Import or RefreshTTL promised it by its success, if one       *)
(* client refreshes: a refresh only ever moves expires_at up, and the outer   *)
(* DELETE looks at it again (expiry.go:118-126).                              *)
THEOREM LivesItsTTLHolds == OneRefresher => (SessionsSpec => LivesItsTTL)
<1> SUFFICES ASSUME OneRefresher PROVE SessionsSpec => LivesItsTTL
  OBVIOUS
<1>1. SessionsInv /\ PromiseInv /\ [SessionsNext]_sessionVars => PromiseInv'
  BY PromiseKept
<1>2. SessionsInv /\ PromiseInv /\ [SessionsNext]_sessionVars =>
        [\A id \in Ids :
           DeleteExpired /\ Live(id) /\ status'[id] = "deleted" => promised[id] < 0]_sessionVars
  <2> SUFFICES ASSUME SessionsInv, PromiseInv, NEW id \in Ids, DeleteExpired, Live(id),
                      status'[id] = "deleted"
               PROVE  promised[id] < 0
    OBVIOUS
  <2>1. status'[id] = IF StillExpired(id) THEN "deleted" ELSE status[id]
    BY DEF DeleteExpired, Remove
  <2>2. left[id] < 0
    BY <2>1 DEF StillExpired, Live, Statuses
  <2>3. promised[id] <= left[id] /\ promised[id] \in Int /\ left[id] \in Int
    BY DEF PromiseInv, Promise, SessionsInv, RowTypes
  <2> QED BY <2>2, <2>3
<1> QED BY <1>1, <1>2, SessionsInvariant, PromiseStarts, PTL DEF SessionsSpec, LivesItsTTL
=============================================================================
