--------------------------- MODULE ResourceStore ---------------------------
(***************************************************************************)
(* The in-memory store of entities (nestforge-core/src/store.rs) behind    *)
(* the CRUD service that handlers of concurrent requests share             *)
(* (resource_service.rs).                                                  *)
(*                                                                         *)
(* Every method of the store is one critical section of one lock.  The     *)
(* service's update_from uses two of them: it reads the entity, merges the *)
(* fields that the DTO has into it with no lock held, and then writes the  *)
(* whole entity back.  All other calls are one step.                       *)
(*                                                                         *)
(* Ids are u64: TopId stands for u64::MAX.  A build with overflow checks   *)
(* panics when an id overflows, with the lock held; the lock is poisoned   *)
(* from then on.  A build without them wraps to 0.                         *)
(***************************************************************************)
EXTENDS Integers, Sequences, SequencesExt

CONSTANTS
    Clients,     \* handlers that use one service
    Fields,      \* fields of the entity other than its id
    Values,      \* values of a field
    TopId,       \* the largest id there is
    Seeds,       \* the vectors the service may be seeded with
    Checked,     \* the build checks for overflow
    MaxCalls,    \* bound on the calls of a behaviour
    Nothing      \* a field the DTO leaves out; no update under way

Ids == 0..TopId
Data == [Fields -> Values]
Changes == [Fields -> Values \cup {Nothing}]
Entity == [id: Ids, data: Data]
Update == [id: Ids, read: Data, changes: Changes]

\* with_seed takes any vector; the ids in it are unique by its contract.
ASSUME StoreAssumption ==
    /\ TopId \in Nat
    /\ Checked \in BOOLEAN
    /\ MaxCalls \in Nat
    /\ Nothing \notin Values \cup Update
    /\ Seeds \subseteq Seq(Entity)
    /\ \A s \in Seeds : \A i, j \in 1..Len(s) : s[i].id = s[j].id => i = j

VARIABLES
    items,       \* the vector
    poisoned,    \* a call panicked with the lock held
    updating,    \* updating[c]: what client c read and is about to merge
    calls,       \* the number of calls that began
    intended,    \* history: the records, had every update been one step
    raced        \* history: an update wrote over a record that had changed

storeVars == <<items, poisoned, updating, calls, intended, raced>>

-----------------------------------------------------------------------------
(* Reading the vector. *)

IdsIn(s) == {s[i].id : i \in 1..Len(s)}

\* iter().find: the index of the first entity with the id, 0 if there is none
Find(s, id) == SelectInSeq(s, LAMBDA e : e.id = id)

Records(s) == [id \in IdsIn(s) |-> s[Find(s, id)].data]

LastId(s) == IF s = <<>> THEN 0 ELSE Last(s).id

TopUsed(s) == IF s = <<>> THEN 0 ELSE CHOOSE n \in IdsIn(s) : \A m \in IdsIn(s) : m <= n

Merge(old, changes) ==
    [f \in Fields |-> IF changes[f] = Nothing THEN old[f] ELSE changes[f]]

With(records, id, d) ==
    [i \in DOMAIN records \cup {id} |-> IF i = id THEN d ELSE records[i]]

Idle(c) == updating[c] = Nothing /\ calls < MaxCalls

-----------------------------------------------------------------------------
StoreInit ==
    /\ items \in Seeds
    /\ poisoned = FALSE
    /\ updating = [c \in Clients |-> Nothing]
    /\ calls = 0
    /\ intended = Records(items)
    /\ raced = FALSE

\* the id after the last entity's, which need not be the largest
NextIdOfLast == (LastId(items) + 1) % (TopId + 1)

\* max + 1 wraps around in a build that does not check for overflow
NextId == (TopUsed(items) + 1) % (TopId + 1)

Create(c, d) ==
    /\ Idle(c) /\ ~poisoned
    /\ Checked => TopUsed(items) < TopId
    /\ items' = Append(items, [id |-> NextId, data |-> d])
    /\ intended' = With(intended, NextId, d)
    /\ calls' = calls + 1
    /\ UNCHANGED <<poisoned, updating, raced>>

\* The addition panics under the write lock.
CreatePanics(c) ==
    /\ Idle(c) /\ ~poisoned
    /\ Checked /\ TopUsed(items) = TopId
    /\ poisoned' = TRUE
    /\ calls' = calls + 1
    /\ UNCHANGED <<items, updating, intended, raced>>

\* a replace that keeps the id of the DTO
ReplaceKeepsDtoId(c, id, d) ==
    /\ Idle(c) /\ ~poisoned
    /\ id \in IdsIn(items)
    /\ items' = [items EXCEPT ![Find(items, id)] = [id |-> 0, data |-> d]]
    /\ intended' = With(intended, id, d)
    /\ calls' = calls + 1
    /\ UNCHANGED <<poisoned, updating, raced>>

Replace(c, id, d) ==
    /\ Idle(c) /\ ~poisoned
    /\ id \in IdsIn(items)
    /\ items' = [items EXCEPT ![Find(items, id)] = [id |-> id, data |-> d]]
    /\ intended' = With(intended, id, d)
    /\ calls' = calls + 1
    /\ UNCHANGED <<poisoned, updating, raced>>

Delete(c, id) ==
    /\ Idle(c) /\ ~poisoned
    /\ id \in IdsIn(items)
    /\ items' = RemoveAt(items, Find(items, id))
    /\ intended' = [i \in DOMAIN intended \ {id} |-> intended[i]]
    /\ calls' = calls + 1
    /\ UNCHANGED <<poisoned, updating, raced>>

\* update_from up to its read; a merge that is no valid entity ends the call
\* there, and so does an id that is not found.
BeginUpdate(c, id, changes) ==
    /\ Idle(c) /\ ~poisoned
    /\ id \in IdsIn(items)
    /\ updating' = [updating EXCEPT ![c] =
           [id |-> id, read |-> items[Find(items, id)].data, changes |-> changes]]
    /\ calls' = calls + 1
    /\ UNCHANGED <<items, poisoned, intended, raced>>

\* a closure that assigns the entity as it was read
WriteUnmerged(u) == [items EXCEPT ![Find(items, u.id)] = [id |-> u.id, data |-> u.read]]

\* update_by_id with a closure that assigns the merged entity
Write(u) == [items EXCEPT ![Find(items, u.id)] =
                [id |-> u.id, data |-> Merge(u.read, u.changes)]]

\* update_by_id that inserts an entity it does not find
UpdateOrInsert(c) ==
    LET u == updating[c] IN
    /\ u # Nothing
    /\ updating' = [updating EXCEPT ![c] = Nothing]
    /\ items' = IF u.id \in IdsIn(items) THEN Write(u)
              ELSE Append(items, [id |-> u.id, data |-> Merge(u.read, u.changes)])
    /\ UNCHANGED <<poisoned, calls, intended, raced>>

EndUpdate(c) ==
    LET u == updating[c] IN
    /\ u # Nothing
    /\ updating' = [updating EXCEPT ![c] = Nothing]
    /\ IF u.id \in IdsIn(items) /\ ~poisoned
       THEN /\ items' = Write(u)
            /\ intended' = With(intended, u.id, Merge(intended[u.id], u.changes))
            /\ raced' = (raced \/ u.read # items[Find(items, u.id)].data)
       ELSE UNCHANGED <<items, intended, raced>>
    /\ UNCHANGED <<poisoned, calls>>

StoreNext ==
    \E c \in Clients :
        \/ \E d \in Data : Create(c, d)
        \/ CreatePanics(c)
        \/ \E id \in IdsIn(items) :
              \/ \E d \in Data : Replace(c, id, d)
              \/ Delete(c, id)
              \/ \E changes \in Changes : BeginUpdate(c, id, changes)
        \/ EndUpdate(c)

StoreSpec == StoreInit /\ [][StoreNext]_storeVars

-----------------------------------------------------------------------------
(* Properties *)

StoreTypeOK ==
    /\ items \in Seq(Entity)
    /\ poisoned \in BOOLEAN
    /\ updating \in [Clients -> Update \cup {Nothing}]
    /\ calls \in 0..MaxCalls
    /\ DOMAIN intended \subseteq Ids
    /\ \A id \in DOMAIN intended : intended[id] \in Data
    /\ raced \in BOOLEAN

\* No two entities share an id, whichever calls of concurrent handlers create
\* and delete them, up to the largest id (store.rs, create and delete_by_id).
UniqueIds == StoreTypeOK /\ \A i, j \in 1..Len(items) : items[i].id = items[j].id => i = j

\* An update that found its entity gone when it came to write does not bring
\* it back, and none changes which ids are in use (resource_service.rs,
\* update_from, between its read and its write).
UpdatesKeepIds ==
    [][\A c \in Clients : updating[c] # Nothing /\ updating'[c] = Nothing
                             => IdsIn(items') = IdsIn(items)]_storeVars

\* As long as no update wrote over a record that had changed since it was read,
\* the store holds what it would hold had every update been one step: the merge
\* outside the lock shows only where it is raced.
AtomicUnlessRaced == ~raced => Records(items) = intended

Abstract == INSTANCE KeyedRecords WITH records <- Records(items)

\* The vector implements a keyed store: a call adds, changes or takes away one
\* record and disturbs no other.
WritesOneRecord == Abstract!Spec
=============================================================================
