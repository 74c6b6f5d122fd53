---------------------------- MODULE KeyedRecords ----------------------------
(***************************************************************************)
(* What a CRUD store promises: at most one record under an id, and every   *)
(* step puts a new record under a free id, changes the data of one record, *)
(* or takes one record away.                                               *)
(***************************************************************************)
CONSTANTS Ids, Data

VARIABLE records       \* a function from the ids in use to their data

Init == /\ DOMAIN records \subseteq Ids
        /\ \A id \in DOMAIN records : records[id] \in Data

Put(id, d) == /\ id \notin DOMAIN records
              /\ records' = [i \in DOMAIN records \cup {id} |->
                                 IF i = id THEN d ELSE records[i]]

Change(id, d) == /\ id \in DOMAIN records
                 /\ records' = [records EXCEPT ![id] = d]

Take(id) == /\ id \in DOMAIN records
            /\ records' = [i \in DOMAIN records \ {id} |-> records[i]]

Next == \E id \in Ids : \/ \E d \in Data : Put(id, d) \/ Change(id, d)
                        \/ Take(id)

Spec == Init /\ [][Next]_records
=============================================================================
