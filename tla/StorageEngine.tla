---------------------------- MODULE StorageEngine ----------------------------
(***************************************************************************)
(* agnt-storage: every open handle serves the database file on a thread   *)
(* of its own, the engine; one process has several, and so have others.   *)
(* A caller leaves a unit of work in the engine's inbox and waits; the    *)
(* engine runs its units one at a time, each as one SQLite transaction of *)
(* two writes. Another engine may hold the write lock, a statement may    *)
(* fail, a unit may panic and take the thread with it, a caller may go    *)
(* away, and the process may die at any step.                             *)
(*                                                                         *)
(* A log is the sequence of the requests whose bytes it holds: every      *)
(* request writes one unit of bytes.                                      *)
(***************************************************************************)
EXTENDS Naturals, Sequences

CONSTANTS Engines,        \* handles on the database file, of any process
          Requests,       \* calls made, over the whole behaviour
          MaxBytes,       \* the longest log a caller may name
          MaxCrashes,     \* bound: engines that die, handles opened again
          NoEngine, NoRequest

ASSUME NamesDistinct == NoEngine \notin Engines /\ NoRequest \notin Requests
ASSUME BoundsAreNat == MaxBytes \in Nat /\ MaxCrashes \in Nat

VARIABLES db,        \* the session's committed rows
          version,   \* PRAGMA user_version: 0 fresh, 1 migrated
          opening,   \* how far each handle is in its life
          writer,    \* the engine that holds SQLite's write lock
          inbox,     \* the units that wait for each engine thread
          unit,      \* the unit each engine thread runs
          stage,     \* how far that unit is
          draft,     \* the rows as its transaction sees them, if it has one
          demand,     \* the operation and the length each request names
          outcome,   \* what became of each request
          told,      \* what its caller knows of it
          crashes

engineVars == <<db, version, opening, writer, inbox, unit, stage, draft,
                demand, outcome, told, crashes>>

Operations == {"append", "replace", "destroy", "settle"}
Asks == [op : Operations, len : 0..MaxBytes]
Rows == [log : Seq(Requests), listed : BOOLEAN,
         turns : SUBSET Requests, keys : SUBSET Requests]
Openings == {"closed", "fresh", "clean", "open", "closing",
             "refused", "dead"}
Stages == {"idle", "begun", "wrote", "recorded", "done"}

EngineTypeOK ==
    /\ db \in Rows
    /\ version \in {0, 1}
    /\ opening \in [Engines -> Openings]
    /\ writer \in Engines \cup {NoEngine}
    /\ inbox \in [Engines -> Seq(Requests)]
    /\ unit \in [Engines -> Requests \cup {NoRequest}]
    /\ stage \in [Engines -> Stages]
    /\ draft \in [Engines -> Rows]
    /\ demand \in [Requests -> Asks]
    /\ outcome \in [Requests -> {"unasked", "pending", "landed", "changed", "failed"}]
    /\ told \in [Requests -> {"nothing", "landed", "changed", "failed", "gone"}]
    /\ crashes \in 0..MaxCrashes

NoRows == [log |-> <<>>, listed |-> FALSE, turns |-> {}, keys |-> {}]

EngineInit ==
    /\ db = NoRows
    /\ version = 0
    /\ opening = [e \in Engines |-> "closed"]
    /\ writer = NoEngine
    /\ inbox = [e \in Engines |-> <<>>]
    /\ unit = [e \in Engines |-> NoRequest]
    /\ stage = [e \in Engines |-> "idle"]
    /\ draft = [e \in Engines |-> NoRows]
    /\ demand = [k \in Requests |-> [op |-> "append", len |-> 0]]
    /\ outcome = [k \in Requests |-> "unasked"]
    /\ told = [k \in Requests |-> "nothing"]
    /\ crashes = 0

-----------------------------------------------------------------------------
(* Opening: migrate reads the stored version and looks for tables of       *)
(* another program, both outside the transaction that creates its own.     *)

callVars == <<writer, inbox, unit, stage, draft, demand, outcome, told>>

ReadVersion(e) ==
    /\ opening[e] = "closed"
    /\ opening' = [opening EXCEPT ![e] = IF version = 1 THEN "open" ELSE "fresh"]
    /\ UNCHANGED <<db, version, crashes, callVars>>

(* A table at a version read as 0 is taken for the legacy store, also when *)
(* another engine has just created it.                                     *)
ForeignTable(e) ==
    /\ opening[e] = "fresh"
    /\ opening' = [opening EXCEPT ![e] = IF version = 1 THEN "refused" ELSE "clean"]
    /\ UNCHANGED <<db, version, crashes, callVars>>

(* The DDL transaction; CREATE TABLE fails when the tables are there by    *)
(* now.                                                                    *)
Migrate(e) ==
    /\ opening[e] = "clean"
    /\ writer = NoEngine
    /\ version' = 1
    /\ opening' = [opening EXCEPT ![e] = IF version = 1 THEN "refused" ELSE "open"]
    /\ UNCHANGED <<db, crashes, callVars>>

-----------------------------------------------------------------------------
(* The caller.                                                             *)

bootVars == <<version, opening>>

(* The caller reads the log before it names its length; what it read may   *)
(* be old when the unit runs.                                              *)
Submit(e, k, op) ==
    /\ opening[e] = "open"
    /\ outcome[k] = "unasked"
    /\ Len(db.log) <= MaxBytes
    /\ demand' = [demand EXCEPT ![k] = [op |-> op, len |-> Len(db.log)]]
    /\ outcome' = [outcome EXCEPT ![k] = "pending"]
    /\ inbox' = [inbox EXCEPT ![e] = Append(@, k)]
    /\ UNCHANGED <<db, writer, unit, stage, draft, told, crashes, bootVars>>

(* deliver: the thread, and so the receiving end, is gone: EngineClosed.   *)
SubmitClosed(e, k) ==
    /\ opening[e] = "dead"
    /\ outcome[k] = "unasked"
    /\ outcome' = [outcome EXCEPT ![k] = "failed"]
    /\ told' = [told EXCEPT ![k] = "failed"]
    /\ UNCHANGED <<db, writer, inbox, unit, stage, draft, demand, crashes, bootVars>>

(* The caller's task is dropped; its unit stays where it is and runs.      *)
CallerLeaves(k) ==
    /\ outcome[k] # "unasked"
    /\ told[k] = "nothing"
    /\ told' = [told EXCEPT ![k] = "gone"]
    /\ UNCHANGED <<db, writer, inbox, unit, stage, draft, demand, outcome,
                   crashes, bootVars>>

-----------------------------------------------------------------------------
(* The engine thread.                                                      *)

TakeUnit(e) ==
    /\ opening[e] \in {"open", "closing"}
    /\ unit[e] = NoRequest
    /\ inbox[e] # <<>>
    /\ unit' = [unit EXCEPT ![e] = Head(inbox[e])]
    /\ inbox' = [inbox EXCEPT ![e] = Tail(@)]
    /\ stage' = [stage EXCEPT ![e] = "begun"]
    /\ UNCHANGED <<db, writer, draft, demand, outcome, told, crashes, bootVars>>

(* AppendLog, ReplaceLog: the write names the length it expects. An insert *)
(* for length zero does nothing where a log is.                            *)
Lands_Bug(a, rows) ==
    a.op \in {"append", "replace"} => Len(rows.log) = a.len \/ a.len = 0
Lands(a, rows) == a.op \in {"append", "replace"} => Len(rows.log) = a.len

FirstWrite(k, a, rows) ==
    CASE a.op = "append"  -> [rows EXCEPT !.log = Append(@, k)]
      [] a.op = "replace" -> [rows EXCEPT !.log = <<k>>]
      [] a.op = "destroy" -> [rows EXCEPT !.log = <<>>]
      [] a.op = "settle"  -> [rows EXCEPT !.turns = @ \cup {k}]

(* record_session, the sessions row of Destroy, the keys and calls of a    *)
(* settle record.                                                          *)
SecondWrite(k, a, rows) ==
    CASE a.op \in {"append", "replace"} -> [rows EXCEPT !.listed = TRUE]
      [] a.op = "destroy" -> [rows EXCEPT !.listed = FALSE]
      [] a.op = "settle"  -> [rows EXCEPT !.keys = @ \cup {k}]

(* The first statement takes the write lock and sees the rows as committed *)
(* then; one that matches no row ends the unit, and its transaction rolls  *)
(* back.                                                                   *)
WriteRows(e) ==
    LET k == unit[e] IN
    /\ stage[e] = "begun"
    /\ writer = NoEngine
    /\ IF Lands(demand[k], db)
       THEN /\ draft' = [draft EXCEPT ![e] = FirstWrite(k, demand[k], db)]
            /\ stage' = [stage EXCEPT ![e] = "wrote"]
            /\ writer' = e
            /\ UNCHANGED outcome
       ELSE /\ outcome' = [outcome EXCEPT ![k] = "changed"]
            /\ stage' = [stage EXCEPT ![e] = "done"]
            /\ UNCHANGED <<draft, writer>>
    /\ UNCHANGED <<db, inbox, unit, demand, told, crashes, bootVars>>

Record(e) ==
    /\ stage[e] = "wrote"
    /\ draft' = [draft EXCEPT ![e] = SecondWrite(unit[e], demand[unit[e]], @)]
    /\ stage' = [stage EXCEPT ![e] = "recorded"]
    /\ UNCHANGED <<db, writer, inbox, unit, demand, outcome, told, crashes, bootVars>>

Commit(e) ==
    /\ stage[e] = "recorded"
    /\ db' = draft[e]
    /\ writer' = NoEngine
    /\ draft' = [draft EXCEPT ![e] = NoRows]
    /\ outcome' = [outcome EXCEPT ![unit[e]] = "landed"]
    /\ stage' = [stage EXCEPT ![e] = "done"]
    /\ UNCHANGED <<inbox, unit, demand, told, crashes, bootVars>>

(* The lock of another engine outlives the busy timeout, or a statement    *)
(* fails: the unit returns the error, and its transaction rolls back.      *)
Fail(e) ==
    /\ stage[e] \in {"begun", "wrote", "recorded"}
    /\ writer' = IF writer = e THEN NoEngine ELSE writer
    /\ draft' = [draft EXCEPT ![e] = NoRows]
    /\ outcome' = [outcome EXCEPT ![unit[e]] = "failed"]
    /\ stage' = [stage EXCEPT ![e] = "done"]
    /\ UNCHANGED <<db, inbox, unit, demand, told, crashes, bootVars>>

(* The answer goes to the caller if it still waits.                        *)
Reply(e) ==
    LET k == unit[e] IN
    /\ stage[e] = "done"
    /\ told' = [told EXCEPT ![k] = IF @ = "nothing" THEN outcome[k] ELSE @]
    /\ unit' = [unit EXCEPT ![e] = NoRequest]
    /\ stage' = [stage EXCEPT ![e] = "idle"]
    /\ UNCHANGED <<db, writer, inbox, draft, demand, outcome, crashes, bootVars>>

-----------------------------------------------------------------------------
(* What dies.                                                              *)

Held(e) == {inbox[e][i] : i \in DOMAIN inbox[e]}
           \cup (IF unit[e] = NoRequest THEN {} ELSE {unit[e]})

(* The requests that end with the thread of e: what was not decided fails, *)
(* and every caller still waiting hears fate.                              *)
ThreadEnds(e, fate) ==
    /\ opening[e] \in {"open", "closing"}
    /\ crashes < MaxCrashes
    /\ crashes' = crashes + 1
    /\ writer' = IF writer = e THEN NoEngine ELSE writer
    /\ outcome' = [k \in Requests |-> IF k \in Held(e) /\ outcome[k] = "pending"
                                      THEN "failed" ELSE outcome[k]]
    /\ told' = [k \in Requests |-> IF k \in Held(e) /\ told[k] = "nothing"
                                   THEN fate ELSE told[k]]
    /\ inbox' = [inbox EXCEPT ![e] = <<>>]
    /\ unit' = [unit EXCEPT ![e] = NoRequest]
    /\ stage' = [stage EXCEPT ![e] = "idle"]
    /\ draft' = [draft EXCEPT ![e] = NoRows]
    /\ UNCHANGED <<db, version, demand>>

(* A unit panics: the thread unwinds, the units behind it are dropped with *)
(* their senders, and their callers hear EngineStopped.                    *)
UnitPanics(e) == /\ stage[e] \in {"begun", "wrote", "recorded"}
                 /\ ThreadEnds(e, "failed")
                 /\ opening' = [opening EXCEPT ![e] = "dead"]

(* The process dies, and with it the engine and its callers.               *)
ProcessDies(e) == /\ ThreadEnds(e, "gone")
                  /\ opening' = [opening EXCEPT ![e] = "closed"]

(* Drop for Storage, when no caller holds the handle: the inbox takes no   *)
(* more, and the units left in it still run before the thread is joined.   *)
Close(e) ==
    /\ opening[e] = "open"
    /\ \A k \in Held(e) : told[k] # "nothing"
    /\ opening' = [opening EXCEPT ![e] = "closing"]
    /\ UNCHANGED <<db, version, crashes, callVars>>

Joined(e) ==
    /\ opening[e] = "closing"
    /\ Held(e) = {}
    /\ opening' = [opening EXCEPT ![e] = "closed"]
    /\ UNCHANGED <<db, version, crashes, callVars>>

(* A handle without an engine is dropped, and the database opened again.   *)
Reopen(e) ==
    /\ opening[e] \in {"dead", "refused"}
    /\ crashes < MaxCrashes
    /\ crashes' = crashes + 1
    /\ opening' = [opening EXCEPT ![e] = "closed"]
    /\ UNCHANGED <<db, version, callVars>>

EngineNext ==
    \/ \E e \in Engines :
         \/ ReadVersion(e) \/ ForeignTable(e) \/ Migrate(e)
         \/ \E k \in Requests : \/ \E op \in Operations : Submit(e, k, op)
                                \/ SubmitClosed(e, k)
         \/ TakeUnit(e) \/ WriteRows(e) \/ Record(e) \/ Commit(e)
         \/ Fail(e) \/ Reply(e) \/ UnitPanics(e) \/ ProcessDies(e)
         \/ Close(e) \/ Joined(e) \/ Reopen(e)
    \/ \E k \in Requests : CallerLeaves(k)

EngineSpec == EngineInit /\ [][EngineNext]_engineVars

-----------------------------------------------------------------------------
(* The engine implements the promise: the committed rows are the store,    *)
(* and a request lands when its transaction commits (services/settle.rs:   *)
(* "one transaction, or nothing"; store.rs: the compare-and-set writes     *)
(* that are rig's durability contract).                                    *)
Promise == INSTANCE SessionStore WITH store <- db

KeepsPromise == Promise!StoreSpec
=============================================================================
