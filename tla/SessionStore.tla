---------------------------- MODULE SessionStore ----------------------------
(***************************************************************************)
(* What agnt-storage promises of one session's rows, whichever process    *)
(* asks: a request that names the log's length takes effect at one        *)
(* instant, at most once, and only when the log has that length then;     *)
(* the caller is told that it landed only when it did, and that the log   *)
(* changed only when it did not. How the engine keeps the promise is      *)
(* StorageEngine.                                                         *)
(***************************************************************************)
EXTENDS Naturals, Sequences

CONSTANTS Requests, MaxBytes

VARIABLES store,    \* the session's log, its row in the session list, its facts
          demand,    \* the operation and the length each request named
          outcome,  \* what became of each request
          told      \* what its caller knows of it

storeVars == <<store, demand, outcome, told>>

Operations == {"append", "replace", "destroy", "settle"}
Asks == [op : Operations, len : 0..MaxBytes]

(* The rows of a session nobody wrote: no log, not listed, no facts.       *)
NoRows == [log |-> <<>>, listed |-> FALSE, turns |-> {}, keys |-> {}]

(* Whether the request may take effect on the rows s.                      *)
Fits(a, s) == a.op \in {"append", "replace"} => Len(s.log) = a.len

(* The rows after request k took effect, all of its writes at once.        *)
After(k, a, s) ==
    CASE a.op = "append"  -> [s EXCEPT !.log = Append(@, k), !.listed = TRUE]
      [] a.op = "replace" -> [s EXCEPT !.log = <<k>>, !.listed = TRUE]
      [] a.op = "destroy" -> [s EXCEPT !.log = <<>>, !.listed = FALSE]
      [] a.op = "settle"  -> [s EXCEPT !.turns = @ \cup {k},
                                       !.keys = @ \cup {k}]

StoreInit == /\ store = NoRows
             /\ demand = [k \in Requests |-> [op |-> "append", len |-> 0]]
             /\ outcome = [k \in Requests |-> "unasked"]
             /\ told = [k \in Requests |-> "nothing"]

Ask(k, a) == /\ outcome[k] = "unasked"
             /\ demand' = [demand EXCEPT ![k] = a]
             /\ outcome' = [outcome EXCEPT ![k] = "pending"]
             /\ UNCHANGED <<store, told>>

Land(k) == /\ outcome[k] = "pending"
           /\ Fits(demand[k], store)
           /\ store' = After(k, demand[k], store)
           /\ outcome' = [outcome EXCEPT ![k] = "landed"]
           /\ UNCHANGED <<demand, told>>

Refuse(k) == /\ outcome[k] = "pending"
             /\ ~Fits(demand[k], store)
             /\ outcome' = [outcome EXCEPT ![k] = "changed"]
             /\ UNCHANGED <<store, demand, told>>

Tell(k) == /\ outcome[k] \in {"landed", "changed", "failed"}
           /\ told[k] = "nothing"
           /\ told' = [told EXCEPT ![k] = outcome[k]]
           /\ UNCHANGED <<store, demand, outcome>>

(* Requests come to nothing, or their callers lose them: what is still     *)
(* pending in Lost never lands, and each of the callers in Left hears an   *)
(* error or nothing at all, whatever became of its request.                *)
Lose(Lost, Left) ==
    /\ \A k \in Lost : outcome[k] \in {"unasked", "pending"}
    /\ \A k \in Left : told[k] = "nothing"
    /\ outcome' = [k \in Requests |-> IF k \in Lost THEN "failed" ELSE outcome[k]]
    /\ told' \in [Requests -> {"nothing", "landed", "changed", "failed", "gone"}]
    /\ \A k \in Requests : IF k \in Left THEN told'[k] \in {"failed", "gone"}
                                         ELSE told'[k] = told[k]
    /\ UNCHANGED <<store, demand>>

StoreNext == \/ \E k \in Requests : \/ \E a \in Asks : Ask(k, a)
                                    \/ Land(k) \/ Refuse(k) \/ Tell(k)
             \/ \E Lost, Left \in SUBSET Requests : Lose(Lost, Left)

StoreSpec == StoreInit /\ [][StoreNext]_storeVars
=============================================================================
