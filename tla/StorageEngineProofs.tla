------------------------- MODULE StorageEngineProofs -------------------------
(***************************************************************************)
(* Theorems about the storage engine, for every number of engines and      *)
(* requests: it keeps its types, and it implements SessionStore.           *)
(***************************************************************************)
EXTENDS StorageEngine, TLAPS

-----------------------------------------------------------------------------
(* The inductive invariant.                                                *)

(* A thread is idle exactly while it runs no unit.                         *)
BusyWithUnit == \A e \in Engines : unit[e] = NoRequest <=> stage[e] = "idle"

(* A unit that is done is decided.                                         *)
DoneDecided ==
    \A e \in Engines :
       stage[e] = "done" => outcome[unit[e]] \in {"landed", "changed", "failed"}

TypeInv == EngineTypeOK /\ BusyWithUnit /\ DoneDecided

(* An engine holds SQLite's lock exactly while its transaction is open.    *)
LockHeld == \A e \in Engines : stage[e] \in {"wrote", "recorded"} <=> writer = e

(* An open transaction sees the committed rows with its own writes on top, *)
(* and the test of the log's length still holds: nobody else has committed.*)
DraftOverRows ==
    \A e \in Engines :
       LET k == unit[e]
           one == FirstWrite(k, demand[k], db)
       IN  /\ stage[e] = "wrote" =>
                 Lands(demand[k], db) /\ draft[e] = one
           /\ stage[e] = "recorded" =>
                 Lands(demand[k], db) /\ draft[e] = SecondWrite(k, demand[k], one)

(* A request in an inbox or before its commit is pending, and a caller     *)
(* knows nothing of what nobody asked.                                     *)
Undecided ==
    /\ \A e \in Engines, i \in Nat :
          i \in 1..Len(inbox[e]) => outcome[inbox[e][i]] = "pending"
    /\ \A e \in Engines :
          stage[e] \in {"begun", "wrote", "recorded"} => outcome[unit[e]] = "pending"
    /\ \A k \in Requests : outcome[k] = "unasked" => told[k] = "nothing"

(* Every request is in one place.                                          *)
OnePlace ==
    /\ \A e, f \in Engines : unit[e] = unit[f] /\ unit[e] # NoRequest => e = f
    /\ \A e, f \in Engines, i \in Nat :
          i \in 1..Len(inbox[e]) => inbox[e][i] # unit[f]
    /\ \A e, f \in Engines, i, j \in Nat :
          i \in 1..Len(inbox[e]) /\ j \in 1..Len(inbox[f]) /\ inbox[e][i] = inbox[f][j]
             => e = f /\ i = j

EngineInv == TypeInv /\ LockHeld /\ DraftOverRows
             /\ Undecided /\ OnePlace

-----------------------------------------------------------------------------
(* The writes.                                                             *)

LEMMA RowsTypes ==
  /\ NoRows \in Rows
  /\ \A k \in Requests, a \in Asks, rows \in Rows :
        FirstWrite(k, a, rows) \in Rows /\ SecondWrite(k, a, rows) \in Rows
<1>1. NoRows \in Rows
  BY DEF NoRows, Rows
<1>2. ASSUME NEW k \in Requests, NEW a \in Asks, NEW rows \in Rows
      PROVE  FirstWrite(k, a, rows) \in Rows /\ SecondWrite(k, a, rows) \in Rows
  <2>1. a.op \in Operations
    BY DEF Asks
  <2>2. /\ rows.log \in Seq(Requests) /\ Append(rows.log, k) \in Seq(Requests)
        /\ <<k>> \in Seq(Requests) /\ <<>> \in Seq(Requests)
        /\ rows.turns \cup {k} \in SUBSET Requests /\ rows.keys \cup {k} \in SUBSET Requests
    BY DEF Rows
  <2>3. FirstWrite(k, a, rows) \in Rows
    BY <2>1, <2>2 DEF FirstWrite, Operations, Rows
  <2>4. SecondWrite(k, a, rows) \in Rows
    BY <2>1, <2>2 DEF SecondWrite, Operations, Rows
  <2> QED
    BY <2>3, <2>4
<1> QED
  BY <1>1, <1>2

\* The two writes of a unit are the one of its promise, and its test the same.
LEMMA BothWrites ==
  ASSUME NEW k \in Requests, NEW a \in Asks, NEW rows \in Rows
  PROVE  /\ SecondWrite(k, a, FirstWrite(k, a, rows)) = Promise!After(k, a, rows)
         /\ Lands(a, rows) <=> Promise!Fits(a, rows)
<1>1. a.op \in Operations
  BY DEF Asks
<1>2. Lands(a, rows) <=> Promise!Fits(a, rows)
  BY DEF Lands, Promise!Fits
<1> DEFINE one == FirstWrite(k, a, rows)
           yes == TRUE
           no == FALSE
           longer == Append(rows.log, k)
<1> HIDE DEF yes, no, longer
<1>0. rows = [log |-> rows.log, listed |-> rows.listed, turns |-> rows.turns, keys |-> rows.keys]
  BY DEF Rows
<1>3. CASE a.op = "append"
  <2>1. one = [rows EXCEPT !.log = longer]
    BY <1>3 DEF FirstWrite, longer
  <2>2. one = [log |-> longer, listed |-> rows.listed, turns |-> rows.turns,
               keys |-> rows.keys]
    BY ONLY <1>0, <2>1
  <2>3. SecondWrite(k, a, one) = [one EXCEPT !.listed = yes]
    BY <1>3 DEF SecondWrite, yes, longer
  <2>4. Promise!After(k, a, rows) = [rows EXCEPT !.log = longer, !.listed = yes]
    BY <1>3 DEF Promise!After, yes, longer
  <2>5. SecondWrite(k, a, one) = Promise!After(k, a, rows)
    <3>1. Promise!After(k, a, rows) =
             [log |-> longer, listed |-> yes, turns |-> rows.turns, keys |-> rows.keys]
      BY ONLY <1>0, <2>4
    <3>2. SecondWrite(k, a, one) =
             [log |-> longer, listed |-> yes, turns |-> rows.turns, keys |-> rows.keys]
      BY ONLY <2>2, <2>3
    <3> QED
      BY ONLY <3>1, <3>2
  <2> QED
    BY <1>2, <2>5
<1>4. CASE a.op = "replace"
  <2>1. one = [rows EXCEPT !.log = <<k>>]
    BY <1>4 DEF FirstWrite
  <2>2. one = [log |-> <<k>>, listed |-> rows.listed, turns |-> rows.turns,
               keys |-> rows.keys]
    BY ONLY <1>0, <2>1
  <2>3. SecondWrite(k, a, one) = [one EXCEPT !.listed = yes]
    BY <1>4 DEF SecondWrite, yes, no
  <2>4. Promise!After(k, a, rows) = [rows EXCEPT !.log = <<k>>, !.listed = yes]
    BY <1>4 DEF Promise!After, yes, no
  <2>5. SecondWrite(k, a, one) = Promise!After(k, a, rows)
    <3>1. Promise!After(k, a, rows) =
             [log |-> <<k>>, listed |-> yes, turns |-> rows.turns, keys |-> rows.keys]
      BY ONLY <1>0, <2>4
    <3>2. SecondWrite(k, a, one) =
             [log |-> <<k>>, listed |-> yes, turns |-> rows.turns, keys |-> rows.keys]
      BY ONLY <2>2, <2>3
    <3> QED
      BY ONLY <3>1, <3>2
  <2> QED
    BY <1>2, <2>5
<1>5. CASE a.op = "destroy"
  <2>1. one = [rows EXCEPT !.log = <<>>]
    BY <1>5 DEF FirstWrite
  <2>2. one = [log |-> <<>>, listed |-> rows.listed, turns |-> rows.turns,
               keys |-> rows.keys]
    BY ONLY <1>0, <2>1
  <2>3. SecondWrite(k, a, one) = [one EXCEPT !.listed = no]
    BY <1>5 DEF SecondWrite, yes, no
  <2>4. Promise!After(k, a, rows) = [rows EXCEPT !.log = <<>>, !.listed = no]
    BY <1>5 DEF Promise!After, yes, no
  <2>5. SecondWrite(k, a, one) = Promise!After(k, a, rows)
    <3>1. Promise!After(k, a, rows) =
             [log |-> <<>>, listed |-> no, turns |-> rows.turns, keys |-> rows.keys]
      BY ONLY <1>0, <2>4
    <3>2. SecondWrite(k, a, one) =
             [log |-> <<>>, listed |-> no, turns |-> rows.turns, keys |-> rows.keys]
      BY ONLY <2>2, <2>3
    <3> QED
      BY ONLY <3>1, <3>2
  <2> QED
    BY <1>2, <2>5
<1>6. CASE a.op = "settle"
  <2>1. one = [rows EXCEPT !.turns = @ \cup {k}]
    BY <1>6 DEF FirstWrite
  <2>2. one = [log |-> rows.log, listed |-> rows.listed, turns |-> rows.turns \cup {k},
               keys |-> rows.keys]
    BY ONLY <1>0, <2>1
  <2>3. SecondWrite(k, a, one) = [one EXCEPT !.keys = @ \cup {k}]
    BY <1>6 DEF SecondWrite
  <2>4. Promise!After(k, a, rows) = [rows EXCEPT !.turns = @ \cup {k}, !.keys = @ \cup {k}]
    BY <1>6 DEF Promise!After
  <2>5. SecondWrite(k, a, one) = Promise!After(k, a, rows)
    <3>1. Promise!After(k, a, rows) =
             [log |-> rows.log, listed |-> rows.listed, turns |-> rows.turns \cup {k}, keys |-> rows.keys \cup {k}]
      BY ONLY <1>0, <2>4
    <3>2. SecondWrite(k, a, one) =
             [log |-> rows.log, listed |-> rows.listed, turns |-> rows.turns \cup {k}, keys |-> rows.keys \cup {k}]
      BY ONLY <2>2, <2>3
    <3> QED
      BY ONLY <3>1, <3>2
  <2> QED
    BY <1>2, <2>5
<1> QED
  BY <1>1, <1>3, <1>4, <1>5, <1>6 DEF Operations

LEMMA HeadTail ==
  ASSUME NEW S, NEW s \in Seq(S), s # <<>>
  PROVE  /\ Head(s) \in S /\ Head(s) = s[1] /\ 1 \in 1..Len(s)
         /\ Tail(s) \in Seq(S)
         /\ \A i \in Nat : i \in 1..Len(Tail(s)) =>
               Tail(s)[i] = s[i + 1] /\ i + 1 \in 1..Len(s) /\ i + 1 \in Nat
  OBVIOUS

LEMMA HeldRequests ==
  ASSUME EngineTypeOK, NEW e \in Engines
  PROVE  /\ \A i \in Nat : i \in 1..Len(inbox[e]) => inbox[e][i] \in Held(e)
         /\ unit[e] # NoRequest => unit[e] \in Held(e)
         /\ Held(e) \subseteq Requests
  BY DEF Held, EngineTypeOK

-----------------------------------------------------------------------------
(* Types.                                                                  *)

LEMMA TypeStep ==
  ASSUME TypeInv, [EngineNext]_engineVars
  PROVE  TypeInv'
<1> USE DEF TypeInv, EngineTypeOK, BusyWithUnit, DoneDecided
<1>1. ASSUME NEW e \in Engines, ReadVersion(e) PROVE TypeInv'
  BY <1>1 DEF ReadVersion, callVars, Openings
<1>2. ASSUME NEW e \in Engines, ForeignTable(e) PROVE TypeInv'
  BY <1>2 DEF ForeignTable, callVars, Openings
<1>3. ASSUME NEW e \in Engines, Migrate(e) PROVE TypeInv'
  BY <1>3 DEF Migrate, callVars, Openings
<1>4. ASSUME NEW e \in Engines, NEW k \in Requests, NEW op \in Operations, Submit(e, k, op)
      PROVE  TypeInv'
  <2>1. [op |-> op, len |-> Len(db.log)] \in Asks
    BY <1>4, BoundsAreNat DEF Submit, Asks, Rows
  <2>2. Append(inbox[e], k) \in Seq(Requests)
    OBVIOUS
  <2> QED
    BY <1>4, <2>1, <2>2 DEF Submit, bootVars
<1>5. ASSUME NEW e \in Engines, NEW k \in Requests, SubmitClosed(e, k)
      PROVE  TypeInv'
  BY <1>5 DEF SubmitClosed, bootVars
<1>6. ASSUME NEW k \in Requests, CallerLeaves(k) PROVE TypeInv'
  BY <1>6 DEF CallerLeaves, bootVars
<1>7. ASSUME NEW e \in Engines, TakeUnit(e) PROVE TypeInv'
  <2>1. Head(inbox[e]) \in Requests /\ Tail(inbox[e]) \in Seq(Requests)
    BY <1>7, HeadTail DEF TakeUnit
  <2> QED
    BY <1>7, <2>1, NamesDistinct DEF TakeUnit, bootVars, Stages
<1>8. ASSUME NEW e \in Engines, WriteRows(e) PROVE TypeInv'
  <2>1. unit[e] \in Requests /\ demand[unit[e]] \in Asks
    BY <1>8 DEF WriteRows
  <2>2. FirstWrite(unit[e], demand[unit[e]], db) \in Rows
    BY <2>1, RowsTypes
  <2>3. CASE Lands(demand[unit[e]], db)
    <3>1. /\ stage' = [stage EXCEPT ![e] = "wrote"] /\ writer' = e
          /\ draft' = [draft EXCEPT ![e] = FirstWrite(unit[e], demand[unit[e]], db)]
          /\ UNCHANGED <<db, version, opening, inbox, unit, demand, outcome, told, crashes>>
      BY <1>8, <2>3 DEF WriteRows, bootVars
    <3>2. EngineTypeOK'
      BY <2>2, <3>1 DEF Stages
    <3> QED
      BY <2>1, <3>1, <3>2, NamesDistinct
  <2>4. CASE ~Lands(demand[unit[e]], db)
    <3>1. /\ outcome' = [outcome EXCEPT ![unit[e]] = "changed"]
          /\ stage' = [stage EXCEPT ![e] = "done"]
          /\ UNCHANGED <<db, version, opening, writer, inbox, unit, draft, demand, told, crashes>>
      BY <1>8, <2>4 DEF WriteRows, bootVars
    <3>2. EngineTypeOK' /\ BusyWithUnit'
      BY <1>8, <2>1, <3>1 DEF WriteRows, Stages
    <3>3. DoneDecided'
      BY <2>1, <3>1
    <3> QED
      BY <3>2, <3>3
  <2> QED
    BY <2>3, <2>4
<1>9. ASSUME NEW e \in Engines, Record(e) PROVE TypeInv'
  <2>1. unit[e] \in Requests /\ demand[unit[e]] \in Asks
    BY <1>9 DEF Record
  <2>2. SecondWrite(unit[e], demand[unit[e]], draft[e]) \in Rows
    BY <2>1, RowsTypes
  <2> QED
    BY <1>9, <2>1, <2>2 DEF Record, bootVars, Stages
<1>10. ASSUME NEW e \in Engines, Commit(e) PROVE TypeInv'
  BY <1>10, RowsTypes DEF Commit, bootVars, Stages
<1>11. ASSUME NEW e \in Engines, Fail(e) PROVE TypeInv'
  BY <1>11, RowsTypes DEF Fail, bootVars, Stages
<1>12. ASSUME NEW e \in Engines, Reply(e) PROVE TypeInv'
  BY <1>12 DEF Reply, bootVars, Stages
<1>13. ASSUME NEW e \in Engines, NEW fate \in {"failed", "gone"}, ThreadEnds(e, fate),
              opening' \in [Engines -> Openings]
       PROVE  TypeInv'
  <2>1. crashes' \in 0..MaxCrashes
    BY <1>13, BoundsAreNat DEF ThreadEnds
  <2>2. <<>> \in Seq(Requests)
    OBVIOUS
  <2> QED
    BY <1>13, <2>1, <2>2, RowsTypes DEF ThreadEnds, Stages
<1>14. ASSUME NEW e \in Engines, UnitPanics(e) \/ ProcessDies(e)
       PROVE  TypeInv'
  <2>1. opening' \in [Engines -> Openings]
    <3>1. CASE UnitPanics(e)
      BY <3>1 DEF UnitPanics, Openings
    <3>2. CASE ProcessDies(e)
      BY <3>2 DEF ProcessDies, Openings
    <3> QED
      BY <1>14, <3>1, <3>2
  <2>2. PICK fate \in {"failed", "gone"} : ThreadEnds(e, fate)
    BY <1>14 DEF UnitPanics, ProcessDies
  <2> QED
    BY ONLY <1>13, <2>1, <2>2
<1>15. ASSUME NEW e \in Engines, Close(e) \/ Joined(e) PROVE TypeInv'
  <2>1. opening' \in [Engines -> Openings]
    <3>1. CASE Close(e)
      BY <3>1 DEF Close, Openings
    <3>2. CASE Joined(e)
      BY <3>2 DEF Joined, Openings
    <3> QED
      BY <1>15, <3>1, <3>2
  <2>2. UNCHANGED <<db, version, crashes, callVars>>
    BY ONLY <1>15 DEF Close, Joined
  <2> QED
    BY <2>1, <2>2 DEF callVars
<1>16. ASSUME NEW e \in Engines, Reopen(e) PROVE TypeInv'
  BY <1>16, BoundsAreNat DEF Reopen, callVars, Openings
<1>17. CASE UNCHANGED engineVars
  BY <1>17 DEF engineVars
<1> QED
  BY <1>1, <1>2, <1>3, <1>4, <1>5, <1>6, <1>7, <1>8, <1>9, <1>10, <1>11, <1>12, <1>14,
     <1>15, <1>16, <1>17 DEF EngineNext

LEMMA InitInv == EngineInit => EngineInv
<1> SUFFICES ASSUME EngineInit PROVE EngineInv
  OBVIOUS
<1>1. EngineTypeOK
  <2>1. [op |-> "append", len |-> 0] \in Asks
    BY BoundsAreNat DEF Asks, Operations
  <2>2. <<>> \in Seq(Requests) /\ 0 \in 0..MaxCrashes
    BY BoundsAreNat
  <2> QED
    BY <2>1, <2>2, RowsTypes DEF EngineInit, EngineTypeOK, Openings, Stages
<1>2. \A e \in Engines : Len(inbox[e]) = 0 /\ unit[e] = NoRequest /\ stage[e] = "idle"
  BY DEF EngineInit
<1>3. BusyWithUnit /\ DoneDecided /\ LockHeld /\ DraftOverRows
  BY <1>2, NamesDistinct DEF EngineInit, BusyWithUnit, DoneDecided, LockHeld, DraftOverRows
<1>4. Undecided /\ OnePlace
  BY <1>2 DEF EngineInit, Undecided, OnePlace
<1> QED
  BY <1>1, <1>3, <1>4 DEF EngineInv, TypeInv

\* Every variable of the engine keeps its type: an inbox and a running unit hold
\* requests, a transaction sees rows of the session, and what a caller is told is one
\* of the answers the code gives.
THEOREM TypeCorrect == EngineSpec => []EngineTypeOK
<1>1. EngineInit => TypeInv
  BY InitInv DEF EngineInv
<1>2. TypeInv => EngineTypeOK
  BY DEF TypeInv
<1>3. TypeInv /\ [EngineNext]_engineVars => TypeInv'
  BY TypeStep
<1> QED
  BY <1>1, <1>2, <1>3, PTL DEF EngineSpec

-----------------------------------------------------------------------------
(* The invariant, one lemma for each of its parts.                         *)

(* The steps of a handle that touch neither the rows nor a request.        *)
Boots(e) == \/ ReadVersion(e) \/ ForeignTable(e) \/ Migrate(e)
            \/ Close(e) \/ Joined(e) \/ Reopen(e)

(* The steps of a caller and of a unit that is over.                       *)
Calls(e, k) == \/ \E op \in Operations : Submit(e, k, op)
               \/ SubmitClosed(e, k)

LEMMA BootsTouchNothing ==
  ASSUME NEW e \in Engines, Boots(e)
  PROVE  UNCHANGED <<db, writer, inbox, unit, stage, draft, demand, outcome, told>>
  BY DEF Boots, ReadVersion, ForeignTable, Migrate, Close, Joined, Reopen, callVars

LEMMA NextSplit ==
  ASSUME [EngineNext]_engineVars
  PROVE  \/ \E e \in Engines :
               \/ Boots(e)
               \/ \E k \in Requests : Calls(e, k)
               \/ TakeUnit(e) \/ WriteRows(e) \/ Record(e) \/ Commit(e) \/ Fail(e) \/ Reply(e)
               \/ \E fate \in {"failed", "gone"} : ThreadEnds(e, fate)
         \/ \E k \in Requests : CallerLeaves(k)
         \/ UNCHANGED engineVars
<1>1. ASSUME NEW e \in Engines, UnitPanics(e) \/ ProcessDies(e)
      PROVE  \E fate \in {"failed", "gone"} : ThreadEnds(e, fate)
  BY <1>1 DEF UnitPanics, ProcessDies
<1> QED
  BY <1>1 DEF EngineNext, Boots, Calls

\* At most one transaction is open, and its engine holds the lock.
LEMMA LockStep ==
  ASSUME EngineInv, [EngineNext]_engineVars
  PROVE  LockHeld'
<1> USE DEF EngineInv, TypeInv, EngineTypeOK, LockHeld
<1>1. ASSUME NEW e \in Engines, Boots(e) PROVE LockHeld'
  BY <1>1, BootsTouchNothing
<1>2. ASSUME NEW e \in Engines, NEW k \in Requests, Calls(e, k) PROVE LockHeld'
  BY <1>2 DEF Calls, Submit, SubmitClosed
<1>3. ASSUME NEW e \in Engines, TakeUnit(e) PROVE LockHeld'
  BY <1>3 DEF TakeUnit, BusyWithUnit
<1>4. ASSUME NEW e \in Engines, WriteRows(e) PROVE LockHeld'
  BY <1>4, NamesDistinct DEF WriteRows
<1>5. ASSUME NEW e \in Engines, Record(e) PROVE LockHeld'
  BY <1>5 DEF Record
<1>6. ASSUME NEW e \in Engines, Commit(e) PROVE LockHeld'
  BY <1>6, NamesDistinct DEF Commit
<1>7. ASSUME NEW e \in Engines, Fail(e) PROVE LockHeld'
  BY <1>7, NamesDistinct DEF Fail
<1>8. ASSUME NEW e \in Engines, Reply(e) PROVE LockHeld'
  BY <1>8 DEF Reply
<1>9. ASSUME NEW e \in Engines, NEW fate, ThreadEnds(e, fate) PROVE LockHeld'
  BY <1>9, NamesDistinct DEF ThreadEnds
<1>10. ASSUME NEW k \in Requests, CallerLeaves(k) PROVE LockHeld'
  BY <1>10 DEF CallerLeaves
<1>11. CASE UNCHANGED engineVars
  BY <1>11 DEF engineVars
<1> QED
  BY <1>1, <1>2, <1>3, <1>4, <1>5, <1>6, <1>7, <1>8, <1>9, <1>10, <1>11, NextSplit

\* Whatever others do, an open transaction still sees the committed rows below its own
\* writes: a commit needs the lock, and a request keeps the demand it was asked with.
LEMMA DraftStep ==
  ASSUME EngineInv, [EngineNext]_engineVars
  PROVE  DraftOverRows'
<1> USE DEF EngineInv, TypeInv, EngineTypeOK, DraftOverRows
<1>1. ASSUME NEW e \in Engines, Boots(e) PROVE DraftOverRows'
  BY <1>1, BootsTouchNothing
<1>2. ASSUME NEW e \in Engines, NEW k \in Requests, Calls(e, k) PROVE DraftOverRows'
  <2>1. outcome[k] = "unasked" /\ UNCHANGED <<db, unit, stage, draft>>
    BY <1>2 DEF Calls, Submit, SubmitClosed
  <2>2. \A j \in Requests : j # k => demand'[j] = demand[j]
    BY <1>2 DEF Calls, Submit, SubmitClosed
  <2>3. \A f \in Engines : stage[f] \in {"wrote", "recorded"} =>
           unit[f] \in Requests /\ demand'[unit[f]] = demand[unit[f]]
    BY <2>1, <2>2 DEF Undecided, BusyWithUnit
  <2> QED
    BY <2>1, <2>3
<1>3. ASSUME NEW e \in Engines, TakeUnit(e) PROVE DraftOverRows'
  BY <1>3 DEF TakeUnit
<1>4. ASSUME NEW e \in Engines, WriteRows(e) PROVE DraftOverRows'
  <2>1. CASE Lands(demand[unit[e]], db)
    <3>1. /\ stage' = [stage EXCEPT ![e] = "wrote"]
          /\ draft' = [draft EXCEPT ![e] = FirstWrite(unit[e], demand[unit[e]], db)]
          /\ UNCHANGED <<db, unit, demand>>
      BY ONLY <1>4, <2>1 DEF WriteRows
    <3> QED
      BY <2>1, <3>1
  <2>2. CASE ~Lands(demand[unit[e]], db)
    BY <1>4, <2>2 DEF WriteRows
  <2> QED
    BY <2>1, <2>2
<1>5. ASSUME NEW e \in Engines, Record(e) PROVE DraftOverRows'
  BY <1>5 DEF Record
<1>6. ASSUME NEW e \in Engines, Commit(e) PROVE DraftOverRows'
  <2>1. \A f \in Engines : stage'[f] \notin {"wrote", "recorded"}
    BY <1>6 DEF Commit, LockHeld
  <2> QED
    BY <2>1
<1>7. ASSUME NEW e \in Engines, Fail(e) PROVE DraftOverRows'
  BY <1>7 DEF Fail
<1>8. ASSUME NEW e \in Engines, Reply(e) PROVE DraftOverRows'
  BY <1>8 DEF Reply
<1>9. ASSUME NEW e \in Engines, NEW fate, ThreadEnds(e, fate) PROVE DraftOverRows'
  BY <1>9 DEF ThreadEnds
<1>10. ASSUME NEW k \in Requests, CallerLeaves(k) PROVE DraftOverRows'
  BY <1>10 DEF CallerLeaves
<1>11. CASE UNCHANGED engineVars
  BY <1>11 DEF engineVars
<1> QED
  BY <1>1, <1>2, <1>3, <1>4, <1>5, <1>6, <1>7, <1>8, <1>9, <1>10, <1>11, NextSplit

\* What waits or runs is undecided until its own commit, failure or refusal.
LEMMA UndecidedStep ==
  ASSUME EngineInv, [EngineNext]_engineVars
  PROVE  Undecided'
<1> USE DEF EngineInv, TypeInv, EngineTypeOK, Undecided
<1>1. ASSUME NEW e \in Engines, Boots(e) PROVE Undecided'
  BY <1>1, BootsTouchNothing
<1>2. ASSUME NEW e \in Engines, NEW k \in Requests, NEW op \in Operations, Submit(e, k, op)
      PROVE  Undecided'
  <2>1. /\ \A j \in Requests : outcome[j] = "pending" => outcome'[j] = "pending"
        /\ outcome'[k] = "pending" /\ UNCHANGED <<unit, stage, told>>
        /\ \A j \in Requests : outcome'[j] = "unasked" => outcome[j] = "unasked"
    BY <1>2 DEF Submit
  <2>2. ASSUME NEW f \in Engines, NEW i \in Nat, i \in 1..Len(inbox'[f])
        PROVE  outcome'[inbox'[f][i]] = "pending"
    <3>1. CASE f = e /\ i = Len(inbox[e]) + 1
      BY <1>2, <2>1, <2>2, <3>1 DEF Submit
    <3>2. CASE ~(f = e /\ i = Len(inbox[e]) + 1)
      <4>1. inbox'[f][i] = inbox[f][i] /\ i \in 1..Len(inbox[f])
        BY <1>2, <2>2, <3>2 DEF Submit
      <4> QED
        BY <2>1, <4>1
    <3> QED
      BY <3>1, <3>2
  <2>3. \A f \in Engines : stage[f] \in {"begun", "wrote", "recorded"} => unit[f] \in Requests
    BY DEF BusyWithUnit
  <2> QED
    BY <2>1, <2>2, <2>3
<1>3. ASSUME NEW e \in Engines, NEW k \in Requests, SubmitClosed(e, k) PROVE Undecided'
  <2>1. \A j \in Requests : outcome[j] = "pending" => outcome'[j] = "pending"
    BY <1>3 DEF SubmitClosed
  <2>2. /\ \A f \in Engines, i \in Nat : i \in 1..Len(inbox[f]) => inbox[f][i] \in Requests
        /\ \A f \in Engines : stage[f] \in {"begun", "wrote", "recorded"} => unit[f] \in Requests
    BY DEF BusyWithUnit
  <2>3. \A j \in Requests : outcome'[j] = "unasked" => told'[j] = "nothing"
    BY <1>3 DEF SubmitClosed
  <2> QED
    BY <1>3, <2>1, <2>2, <2>3 DEF SubmitClosed
<1>4. ASSUME NEW e \in Engines, TakeUnit(e) PROVE Undecided'
  <2>1. /\ Head(inbox[e]) = inbox[e][1] /\ 1 \in 1..Len(inbox[e])
        /\ \A i \in Nat : i \in 1..Len(Tail(inbox[e])) =>
              Tail(inbox[e])[i] = inbox[e][i + 1] /\ i + 1 \in 1..Len(inbox[e]) /\ i + 1 \in Nat
    BY <1>4, HeadTail DEF TakeUnit
  <2>2. outcome[Head(inbox[e])] = "pending"
    BY <2>1
  <2>3. \A i \in Nat : i \in 1..Len(inbox'[e]) => outcome[inbox'[e][i]] = "pending"
    BY <1>4, <2>1 DEF TakeUnit
  <2>4. \A f \in Engines, i \in Nat : i \in 1..Len(inbox'[f]) => outcome[inbox'[f][i]] = "pending"
    BY <1>4, <2>3 DEF TakeUnit
  <2> QED
    BY <1>4, <2>2, <2>4 DEF TakeUnit
<1>5. ASSUME NEW e \in Engines, NEW end \in {"landed", "changed", "failed"},
             unit[e] # NoRequest, unit[e] \in Requests,
             outcome' = [outcome EXCEPT ![unit[e]] = end],
             stage' = [stage EXCEPT ![e] = "done"], UNCHANGED <<inbox, unit, told>>
      PROVE  Undecided'
  <2>1. \A f \in Engines, i \in Nat : i \in 1..Len(inbox[f]) => outcome'[inbox[f][i]] = "pending"
    BY <1>5 DEF OnePlace
  <2>2. \A f \in Engines : stage'[f] \in {"begun", "wrote", "recorded"} =>
           f # e /\ unit[f] # NoRequest /\ unit[f] # unit[e] /\ outcome[unit[f]] = "pending"
    BY <1>5 DEF OnePlace, BusyWithUnit
  <2>3. \A k \in Requests : outcome'[k] = "unasked" => told'[k] = "nothing"
    BY <1>5
  <2> QED
    BY <1>5, <2>1, <2>2, <2>3
<1>6. ASSUME NEW e \in Engines, WriteRows(e) PROVE Undecided'
  <2>1. unit[e] # NoRequest /\ unit[e] \in Requests
    BY <1>6 DEF WriteRows, BusyWithUnit
  <2>2. CASE Lands(demand[unit[e]], db)
    BY <1>6, <2>2 DEF WriteRows
  <2>3. CASE ~Lands(demand[unit[e]], db)
    <3>1. /\ outcome' = [outcome EXCEPT ![unit[e]] = "changed"]
          /\ stage' = [stage EXCEPT ![e] = "done"] /\ UNCHANGED <<inbox, unit, told>>
      BY <1>6, <2>3 DEF WriteRows
    <3> QED
      BY ONLY <1>5, <2>1, <3>1, e \in Engines
  <2> QED
    BY <2>2, <2>3
<1>7. ASSUME NEW e \in Engines, Record(e) PROVE Undecided'
  BY <1>7 DEF Record
<1>8. ASSUME NEW e \in Engines, Commit(e) PROVE Undecided'
  <2>1. unit[e] # NoRequest /\ unit[e] \in Requests
    BY <1>8 DEF Commit, BusyWithUnit
  <2> QED
    BY <1>5, <1>8, <2>1 DEF Commit
<1>9. ASSUME NEW e \in Engines, Fail(e) PROVE Undecided'
  <2>1. unit[e] # NoRequest /\ unit[e] \in Requests
    BY <1>9 DEF Fail, BusyWithUnit
  <2> QED
    BY <1>5, <1>9, <2>1 DEF Fail
<1>10. ASSUME NEW e \in Engines, Reply(e) PROVE Undecided'
  <2>1. outcome[unit[e]] # "unasked"
    BY <1>10 DEF Reply, DoneDecided
  <2> QED
    BY <1>10, <2>1 DEF Reply
<1>11. ASSUME NEW e \in Engines, NEW fate, ThreadEnds(e, fate) PROVE Undecided'
  <2>1. /\ inbox'[e] = <<>> /\ stage'[e] = "idle"
        /\ \A f \in Engines : f # e => inbox'[f] = inbox[f] /\ stage'[f] = stage[f] /\ unit'[f] = unit[f]
    BY <1>11 DEF ThreadEnds
  <2>2. ASSUME NEW f \in Engines, f # e, NEW i \in Nat, i \in 1..Len(inbox[f])
        PROVE  inbox[f][i] \in Requests \ Held(e)
    BY <2>2 DEF OnePlace, Held
  <2>3. ASSUME NEW f \in Engines, f # e, stage[f] \in {"begun", "wrote", "recorded"}
        PROVE  unit[f] \in Requests \ Held(e)
    BY <2>3 DEF OnePlace, Held, BusyWithUnit
  <2>4. \A k \in Requests \ Held(e) : outcome'[k] = outcome[k]
    BY <1>11 DEF ThreadEnds
  <2>5. \A k \in Requests : outcome'[k] = "unasked" => outcome[k] = "unasked" /\ k \notin Held(e)
    <3>1. \A i \in Nat : i \in 1..Len(inbox[e]) => outcome[inbox[e][i]] # "unasked"
      OBVIOUS
    <3>2. unit[e] # NoRequest => outcome[unit[e]] # "unasked"
      <4>1. unit[e] # NoRequest => stage[e] \in {"begun", "wrote", "recorded", "done"}
        BY DEF BusyWithUnit, Stages
      <4> QED
        BY <4>1 DEF DoneDecided
    <3>3. \A k \in Held(e) : outcome[k] # "unasked"
      BY <3>1, <3>2 DEF Held
    <3> QED
      BY <1>11, <3>3 DEF ThreadEnds
  <2>6. \A k \in Requests : outcome'[k] = "unasked" => told'[k] = "nothing"
    BY <1>11, <2>5 DEF ThreadEnds
  <2>7. \A f \in Engines, i \in Nat :
           i \in 1..Len(inbox'[f]) => outcome'[inbox'[f][i]] = "pending"
    <3>1. \A i \in Nat : i \notin 1..Len(inbox'[e])
      BY <2>1
    <3>2. ASSUME NEW f \in Engines, f # e, NEW i \in Nat, i \in 1..Len(inbox'[f])
          PROVE  outcome'[inbox'[f][i]] = "pending"
      <4>1. inbox'[f] = inbox[f] /\ outcome[inbox[f][i]] = "pending"
        BY <2>1, <3>2
      <4>2. inbox[f][i] \in Requests \ Held(e)
        BY <2>1, <2>2, <3>2
      <4> QED
        BY ONLY <2>4, <4>1, <4>2
    <3> QED
      BY <3>1, <3>2
  <2>8. \A f \in Engines :
           stage'[f] \in {"begun", "wrote", "recorded"} => outcome'[unit'[f]] = "pending"
    <3>1. ASSUME NEW f \in Engines, f # e, stage[f] \in {"begun", "wrote", "recorded"}
          PROVE  outcome'[unit[f]] = "pending"
      <4>1. unit[f] \in Requests \ Held(e) /\ outcome[unit[f]] = "pending"
        BY <2>3, <3>1
      <4> QED
        BY ONLY <2>4, <4>1
    <3> QED
      BY <2>1, <3>1
  <2> QED
    BY <2>6, <2>7, <2>8
<1>12. ASSUME NEW k \in Requests, CallerLeaves(k) PROVE Undecided'
  BY <1>12 DEF CallerLeaves
<1>13. CASE UNCHANGED engineVars
  BY <1>13 DEF engineVars
<1> QED
  BY <1>1, <1>2, <1>3, <1>4, <1>6, <1>7, <1>8, <1>9, <1>10, <1>11, <1>12, <1>13, NextSplit
     DEF Calls

\* What a unit or an inbox holds has been asked.
LEMMA AskedIsHeld ==
  ASSUME EngineInv, NEW k \in Requests, outcome[k] = "unasked", NEW f \in Engines
  PROVE  /\ unit[f] # k
         /\ \A i \in Nat : i \in 1..Len(inbox[f]) => inbox[f][i] # k
<1>1. unit[f] # k
  <2>1. unit[f] = k => stage[f] \in {"begun", "wrote", "recorded", "done"}
    BY NamesDistinct DEF EngineInv, TypeInv, EngineTypeOK, BusyWithUnit, Stages
  <2> QED
    BY <2>1 DEF EngineInv, TypeInv, Undecided, DoneDecided
<1> QED
  BY <1>1 DEF EngineInv, Undecided

\* A request waits in one inbox or runs on one thread.
LEMMA PlaceStep ==
  ASSUME EngineInv, [EngineNext]_engineVars
  PROVE  OnePlace'
<1> USE DEF EngineInv, TypeInv, EngineTypeOK
<1>1. CASE UNCHANGED <<inbox, unit>>
  BY <1>1 DEF OnePlace
<1>2. ASSUME NEW e \in Engines, NEW k \in Requests, NEW op \in Operations, Submit(e, k, op)
      PROVE  OnePlace'
  <2>1. \A f \in Engines : unit[f] # k /\ \A i \in Nat : i \in 1..Len(inbox[f]) => inbox[f][i] # k
    BY <1>2, AskedIsHeld DEF Submit
  <2>2. /\ UNCHANGED unit
        /\ \A f \in Engines, i \in Nat : i \in 1..Len(inbox'[f]) =>
              \/ i \in 1..Len(inbox[f]) /\ inbox'[f][i] = inbox[f][i]
              \/ f = e /\ i = Len(inbox[e]) + 1 /\ inbox'[f][i] = k
    <3>1. ASSUME NEW f \in Engines, NEW i \in Nat, i \in 1..Len(inbox'[f])
          PROVE  \/ i \in 1..Len(inbox[f]) /\ inbox'[f][i] = inbox[f][i]
                 \/ f = e /\ i = Len(inbox[e]) + 1 /\ inbox'[f][i] = k
      BY <1>2, <3>1 DEF Submit
    <3> QED
      BY <1>2, <3>1 DEF Submit
  <2>3. ASSUME NEW f \in Engines, NEW g \in Engines, NEW i \in Nat, i \in 1..Len(inbox'[f])
        PROVE  inbox'[f][i] # unit'[g]
    <3>1. CASE i \in 1..Len(inbox[f]) /\ inbox'[f][i] = inbox[f][i]
      BY <2>2, <3>1 DEF OnePlace
    <3>2. CASE inbox'[f][i] = k
      BY <2>1, <2>2, <3>2
    <3> QED
      BY <2>2, <2>3, <3>1, <3>2
  <2>4. ASSUME NEW f \in Engines, NEW g \in Engines, NEW i \in Nat, NEW j \in Nat,
               i \in 1..Len(inbox'[f]), j \in 1..Len(inbox'[g]), inbox'[f][i] = inbox'[g][j]
        PROVE  f = g /\ i = j
    <3>1. \/ i \in 1..Len(inbox[f]) /\ inbox'[f][i] = inbox[f][i]
          \/ f = e /\ i = Len(inbox[e]) + 1 /\ inbox'[f][i] = k
      BY <2>2, <2>4
    <3>2. \/ j \in 1..Len(inbox[g]) /\ inbox'[g][j] = inbox[g][j]
          \/ g = e /\ j = Len(inbox[e]) + 1 /\ inbox'[g][j] = k
      BY <2>2, <2>4
    <3>3. CASE inbox'[f][i] = k
      BY <2>1, <2>4, <3>1, <3>2, <3>3
    <3>4. CASE inbox'[f][i] # k
      BY <2>4, <3>1, <3>2, <3>4 DEF OnePlace
    <3> QED
      BY <3>3, <3>4
  <2> QED
    BY <2>2, <2>3, <2>4 DEF OnePlace
<1>3. ASSUME NEW e \in Engines, TakeUnit(e) PROVE OnePlace'
  <2>1. /\ Head(inbox[e]) = inbox[e][1] /\ 1 \in 1..Len(inbox[e])
        /\ \A i \in Nat : i \in 1..Len(Tail(inbox[e])) =>
              Tail(inbox[e])[i] = inbox[e][i + 1] /\ i + 1 \in 1..Len(inbox[e]) /\ i + 1 \in Nat
    BY <1>3, HeadTail DEF TakeUnit
  <2> DEFINE at(f, i) == IF f = e THEN i + 1 ELSE i
  <2>2. /\ unit' = [unit EXCEPT ![e] = inbox[e][1]]
        /\ \A f \in Engines, i \in Nat : i \in 1..Len(inbox'[f]) =>
              /\ at(f, i) \in Nat /\ at(f, i) \in 1..Len(inbox[f])
              /\ inbox'[f][i] = inbox[f][at(f, i)]
    BY <1>3, <2>1 DEF TakeUnit
  <2>3. ASSUME NEW f \in Engines, NEW g \in Engines, unit'[f] = unit'[g], unit'[f] # NoRequest
        PROVE  f = g
    <3>1. \A d \in Engines : unit[d] # inbox[e][1]
      <4>1. 1 \in Nat
        OBVIOUS
      <4> QED
        BY <2>1, <4>1 DEF OnePlace
    <3>2. unit'[e] = inbox[e][1] /\ \A d \in Engines : d # e => unit'[d] = unit[d]
      BY <2>2
    <3>3. f # e /\ g # e => f = g
      BY <2>3, <3>2 DEF OnePlace
    <3> QED
      BY <2>3, <3>1, <3>2, <3>3
  <2>4. ASSUME NEW f \in Engines, NEW g \in Engines, NEW i \in Nat, i \in 1..Len(inbox'[f])
        PROVE  inbox'[f][i] # unit'[g]
    <3>1. inbox'[f][i] = inbox[f][at(f, i)] /\ at(f, i) \in Nat /\ at(f, i) \in 1..Len(inbox[f])
      BY <2>2, <2>4
    <3>2. CASE g = e
      <4>1. unit'[g] = inbox[e][1] /\ ~(f = e /\ at(f, i) = 1)
        BY <2>2, <2>4, <3>2
      <4>2. 1 \in Nat /\ 1 \in 1..Len(inbox[e])
        BY <2>1
      <4> QED
        BY <3>1, <4>1, <4>2 DEF OnePlace
    <3>3. CASE g # e
      BY <2>2, <3>1, <3>3 DEF OnePlace
    <3> QED
      BY <3>2, <3>3
  <2>5. ASSUME NEW f \in Engines, NEW g \in Engines, NEW i \in Nat, NEW j \in Nat,
               i \in 1..Len(inbox'[f]), j \in 1..Len(inbox'[g]), inbox'[f][i] = inbox'[g][j]
        PROVE  f = g /\ i = j
    <3>1. /\ at(f, i) \in Nat /\ at(f, i) \in 1..Len(inbox[f])
          /\ at(g, j) \in Nat /\ at(g, j) \in 1..Len(inbox[g])
          /\ inbox[f][at(f, i)] = inbox[g][at(g, j)]
      BY <2>2, <2>5
    <3> HIDE DEF at
    <3>2. f = g /\ at(f, i) = at(g, j)
      BY <3>1 DEF OnePlace
    <3> QED
      BY <3>2 DEF at
  <2> QED
    BY <2>3, <2>4, <2>5 DEF OnePlace
<1>4. ASSUME NEW e \in Engines, Reply(e) PROVE OnePlace'
  <2>1. \A f \in Engines, i \in Nat : i \in 1..Len(inbox[f]) => inbox[f][i] # NoRequest
    BY NamesDistinct
  <2>2. UNCHANGED inbox /\ unit' = [unit EXCEPT ![e] = NoRequest]
    BY <1>4 DEF Reply
  <2>3. \A f \in Engines : unit'[f] = NoRequest \/ unit'[f] = unit[f]
    BY <2>2
  <2>4. \A f, g \in Engines : unit'[f] = unit'[g] /\ unit'[f] # NoRequest => f = g
    BY <2>3 DEF OnePlace
  <2>5. \A f, g \in Engines, i \in Nat : i \in 1..Len(inbox[f]) => inbox[f][i] # unit'[g]
    BY <2>1, <2>3 DEF OnePlace
  <2> QED
    BY <2>2, <2>4, <2>5 DEF OnePlace
<1>5. ASSUME NEW e \in Engines, NEW fate, ThreadEnds(e, fate) PROVE OnePlace'
  <2>1. \A f \in Engines, i \in Nat : i \in 1..Len(inbox[f]) => inbox[f][i] # NoRequest
    BY NamesDistinct
  <2>2. /\ \A i \in Nat : i \notin 1..Len(inbox'[e])
        /\ unit' = [unit EXCEPT ![e] = NoRequest]
        /\ \A f \in Engines : f # e => inbox'[f] = inbox[f]
    BY <1>5 DEF ThreadEnds
  <2>3. \A f \in Engines : unit'[f] = NoRequest \/ unit'[f] = unit[f]
    BY <2>2
  <2>4. \A f, g \in Engines : unit'[f] = unit'[g] /\ unit'[f] # NoRequest => f = g
    BY <2>3 DEF OnePlace
  <2>5. \A f \in Engines, i \in Nat : i \in 1..Len(inbox'[f]) =>
           i \in 1..Len(inbox[f]) /\ inbox'[f][i] = inbox[f][i]
    BY <2>2
  <2>6. ASSUME NEW f \in Engines, NEW g \in Engines, NEW i \in Nat, i \in 1..Len(inbox'[f])
        PROVE  inbox'[f][i] # unit'[g]
    <3>1. inbox'[f][i] = inbox[f][i] /\ inbox[f][i] # NoRequest /\ inbox[f][i] # unit[g]
      <4>1. i \in 1..Len(inbox[f]) /\ inbox'[f][i] = inbox[f][i]
        BY ONLY <2>5, <2>6
      <4>2. inbox[f][i] # unit[g]
        BY ONLY OnePlace, <4>1, f \in Engines, g \in Engines, i \in Nat DEF OnePlace
      <4> QED
        BY ONLY <2>1, <4>1, <4>2, f \in Engines, i \in Nat
    <3> QED
      BY ONLY <2>3, <3>1, g \in Engines
  <2>7. ASSUME NEW f \in Engines, NEW g \in Engines, NEW i \in Nat, NEW j \in Nat,
               i \in 1..Len(inbox'[f]), j \in 1..Len(inbox'[g]), inbox'[f][i] = inbox'[g][j]
        PROVE  f = g /\ i = j
    <3>1. /\ i \in 1..Len(inbox[f]) /\ inbox'[f][i] = inbox[f][i]
          /\ j \in 1..Len(inbox[g]) /\ inbox'[g][j] = inbox[g][j]
      BY ONLY <2>5, <2>7
    <3>2. inbox[f][i] = inbox[g][j]
      BY ONLY <2>7, <3>1
    <3> QED
      BY ONLY OnePlace, f \in Engines, g \in Engines, i \in Nat, j \in Nat, <3>1, <3>2 DEF OnePlace
  <2> QED
    BY ONLY <2>4, <2>6, <2>7 DEF OnePlace
<1>6. ASSUME NEW e \in Engines, NEW k \in Requests,
             Boots(e) \/ SubmitClosed(e, k) \/ WriteRows(e) \/ Record(e) \/ Commit(e) \/ Fail(e)
      PROVE  UNCHANGED <<inbox, unit>>
  BY <1>6, BootsTouchNothing DEF SubmitClosed, WriteRows, Record, Commit, Fail
<1>7. ASSUME NEW e \in Engines, Boots(e) \/ WriteRows(e) \/ Record(e) \/ Commit(e) \/ Fail(e)
      PROVE  UNCHANGED <<inbox, unit>>
  BY <1>7, BootsTouchNothing DEF WriteRows, Record, Commit, Fail
<1>8. (\E k \in Requests : CallerLeaves(k)) \/ UNCHANGED engineVars => UNCHANGED <<inbox, unit>>
  BY DEF CallerLeaves, engineVars
<1> QED
  BY <1>1, <1>2, <1>3, <1>4, <1>5, <1>6, <1>7, <1>8, NextSplit DEF Calls

LEMMA InvStep ==
  ASSUME EngineInv, [EngineNext]_engineVars
  PROVE  EngineInv'
<1>1. TypeInv'
  BY TypeStep DEF EngineInv
<1> QED
  BY <1>1, LockStep, DraftStep, UndecidedStep, PlaceStep DEF EngineInv

-----------------------------------------------------------------------------
(* The refinement.                                                         *)

\* Every step of the engines is a step of the store they promise, or none.
LEMMA StoreStep ==
  ASSUME EngineInv, EngineInv', [EngineNext]_engineVars
  PROVE  [Promise!StoreNext]_(Promise!storeVars)
<1> DEFINE Step == [Promise!StoreNext]_(Promise!storeVars)
<1> USE DEF EngineInv, TypeInv, EngineTypeOK
<1>1. CASE UNCHANGED <<db, demand, outcome, told>>
  BY <1>1 DEF Promise!storeVars
<1>2. ASSUME NEW e \in Engines, NEW k \in Requests, NEW op \in Operations, Submit(e, k, op)
      PROVE  Step
  <2> DEFINE a == [op |-> op, len |-> Len(db.log)]
  <2>1. a \in Promise!Asks
    BY <1>2, BoundsAreNat DEF Submit, Rows, Promise!Asks, Promise!Operations, Operations
  <2>2. Promise!Ask(k, a)
    BY <1>2 DEF Submit, Promise!Ask
  <2> QED
    BY <2>1, <2>2 DEF Promise!StoreNext
<1>3. ASSUME NEW e \in Engines, NEW k \in Requests, SubmitClosed(e, k) PROVE Step
  <2>1. told[k] = "nothing"
    BY <1>3 DEF SubmitClosed, Undecided
  <2>2. outcome' = [j \in Requests |-> IF j \in {k} THEN "failed" ELSE outcome[j]]
    BY <1>3 DEF SubmitClosed
  <2>3. Promise!Lose({k}, {k})
    BY <1>3, <2>1, <2>2 DEF SubmitClosed, Promise!Lose
  <2> QED
    BY <2>3 DEF Promise!StoreNext
<1>4. ASSUME NEW k \in Requests, CallerLeaves(k) PROVE Step
  <2>1. outcome' = [j \in Requests |-> IF j \in {} THEN "failed" ELSE outcome[j]]
    BY <1>4 DEF CallerLeaves
  <2>2. Promise!Lose({}, {k})
    BY <1>4, <2>1 DEF CallerLeaves, Promise!Lose
  <2> QED
    BY <2>2 DEF Promise!StoreNext
<1>5. ASSUME NEW e \in Engines, WriteRows(e) PROVE Step
  <2>1. unit[e] \in Requests /\ outcome[unit[e]] = "pending" /\ demand[unit[e]] \in Asks
    BY <1>5 DEF WriteRows, BusyWithUnit, Undecided
  <2>2. CASE Lands(demand[unit[e]], db)
    BY <1>1, <1>5, <2>2 DEF WriteRows
  <2>3. CASE ~Lands(demand[unit[e]], db)
    <3>1. ~Promise!Fits(demand[unit[e]], db)
      BY <2>1, <2>3, BothWrites
    <3>2. Promise!Refuse(unit[e])
      BY <1>5, <2>1, <2>3, <3>1 DEF WriteRows, Promise!Refuse
    <3> QED
      BY <2>1, <3>2 DEF Promise!StoreNext
  <2> QED
    BY <2>2, <2>3
<1>6. ASSUME NEW e \in Engines, Commit(e) PROVE Step
  <2>1. unit[e] \in Requests /\ outcome[unit[e]] = "pending" /\ demand[unit[e]] \in Asks
    BY <1>6 DEF Commit, BusyWithUnit, Undecided
  <2>2. /\ Lands(demand[unit[e]], db)
        /\ draft[e] = SecondWrite(unit[e], demand[unit[e]],
                                  FirstWrite(unit[e], demand[unit[e]], db))
    BY <1>6 DEF Commit, DraftOverRows
  <2>3. /\ Promise!Fits(demand[unit[e]], db)
        /\ draft[e] = Promise!After(unit[e], demand[unit[e]], db)
    BY <2>1, <2>2, BothWrites
  <2>4. Promise!Land(unit[e])
    BY <1>6, <2>1, <2>3 DEF Commit, Promise!Land
  <2> QED
    BY <2>1, <2>4 DEF Promise!StoreNext
<1>7. ASSUME NEW e \in Engines, Fail(e) PROVE Step
  <2>1. unit[e] \in Requests /\ outcome[unit[e]] = "pending"
    BY <1>7 DEF Fail, BusyWithUnit, Undecided
  <2>2. outcome' = [j \in Requests |-> IF j \in {unit[e]} THEN "failed" ELSE outcome[j]]
    BY <1>7, <2>1 DEF Fail
  <2>3. Promise!Lose({unit[e]}, {})
    BY <1>7, <2>1, <2>2 DEF Fail, Promise!Lose
  <2> QED
    BY <2>1, <2>3 DEF Promise!StoreNext
<1>8. ASSUME NEW e \in Engines, Reply(e) PROVE Step
  <2>1. unit[e] \in Requests /\ outcome[unit[e]] \in {"landed", "changed", "failed"}
    BY <1>8 DEF Reply, BusyWithUnit, DoneDecided
  <2>2. CASE told[unit[e]] = "nothing"
    <3>1. Promise!Tell(unit[e])
      BY <1>8, <2>1, <2>2 DEF Reply, Promise!Tell
    <3> QED
      BY <2>1, <3>1 DEF Promise!StoreNext
  <2>3. CASE told[unit[e]] # "nothing"
    BY <1>1, <1>8, <2>1, <2>3 DEF Reply
  <2> QED
    BY <2>2, <2>3
<1>9. ASSUME NEW e \in Engines, NEW fate \in {"failed", "gone"}, ThreadEnds(e, fate) PROVE Step
  <2> DEFINE lost == {k \in Held(e) : outcome[k] = "pending"}
             left == {k \in Held(e) : told[k] = "nothing"}
  <2>1. lost \in SUBSET Requests /\ left \in SUBSET Requests
    BY HeldRequests
  <2>2. /\ outcome' = [k \in Requests |-> IF k \in lost THEN "failed" ELSE outcome[k]]
        /\ \A k \in Requests : told'[k] = IF k \in left THEN fate ELSE told[k]
    BY <1>9 DEF ThreadEnds
  <2>3. Promise!Lose(lost, left)
    BY <1>9, <2>1, <2>2 DEF ThreadEnds, Promise!Lose
  <2> QED
    BY <2>1, <2>3 DEF Promise!StoreNext
<1>10. ASSUME NEW e \in Engines, Boots(e) \/ TakeUnit(e) \/ Record(e) PROVE Step
  BY <1>1, <1>10, BootsTouchNothing DEF TakeUnit, Record
<1>11. CASE UNCHANGED engineVars
  BY <1>1, <1>11 DEF engineVars
<1> QED
  BY <1>2, <1>3, <1>4, <1>5, <1>6, <1>7, <1>8, <1>9, <1>10, <1>11, NextSplit DEF Calls

\* The engine keeps the promise of agnt-storage: whatever threads panic, processes
\* die, callers leave and other processes write, a request takes effect at one instant
\* and at most once, on a log that has the length it named, and its caller is told so
\* only when it did.
THEOREM PromiseKept == EngineSpec => KeepsPromise
<1>1. EngineInit => EngineInv /\ Promise!StoreInit
  <2>1. EngineInit => Promise!StoreInit
    BY DEF EngineInit, NoRows, Promise!StoreInit, Promise!NoRows
  <2> QED
    BY <2>1, InitInv
<1>2. EngineInv /\ [EngineNext]_engineVars => EngineInv'
  BY InvStep
<1>3. EngineInv /\ EngineInv' /\ [EngineNext]_engineVars => [Promise!StoreNext]_(Promise!storeVars)
  BY StoreStep
<1> QED
  BY <1>1, <1>2, <1>3, PTL DEF EngineSpec, KeepsPromise, Promise!StoreSpec
=============================================================================
