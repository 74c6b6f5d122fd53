--------------------------- MODULE ServicesProofs ---------------------------
(***************************************************************************)
(* Theorems about Schedule, ResponseCache and ResourceStore, services that *)
(* an application adds to its container, for every value of their          *)
(* constants.  The components share neither state nor steps: each has its  *)
(* own part below, and no fact of one is used in another.                  *)
(***************************************************************************)
EXTENDS Schedule, ResponseCache, ResourceStore, FiniteSetTheorems, SequenceTheorems,
        WellFoundedInduction, TLAPS

(***************************************************************************)
(* I. The scheduler                                                        *)
(***************************************************************************)

\* What the properties tell of a driver: it lives and was not told to stop.
Running(d) == Live(d) /\ ~drivers[d].aborted

-----------------------------------------------------------------------------
(***************************************************************************)
(* What start() spawns.                                                    *)
(***************************************************************************)

\* A finite set has an enumeration without repetition.
LEMMA Enumeration ==
    ASSUME NEW S, IsFiniteSet(S)
    PROVE  /\ Cardinality(S) \in Nat
           /\ SetToSeq(S) \in [1..Cardinality(S) -> S]
           /\ \A i, k \in 1..Cardinality(S) : SetToSeq(S)[i] = SetToSeq(S)[k] => i = k
  <1>1. Cardinality(S) \in Nat /\ ExistsBijection(1..Cardinality(S), S)
    BY FS_CardinalityType
  <1>2. \E f \in [1..Cardinality(S) -> S] : IsInjective(f)
    BY <1>1 DEF ExistsBijection, Bijection, Injection
  <1>3. SetToSeq(S) \in [1..Cardinality(S) -> S] /\ IsInjective(SetToSeq(S))
    BY <1>2 DEF SetToSeq
  <1>4. QED
    BY <1>1, <1>3 DEF IsInjective

\* start() spawns one sleeping driver for each job, and no job twice.
LEMMA NewDrivers ==
    ASSUME NEW jobs \in SUBSET Jobs
    PROVE  /\ Cardinality(jobs) \in Nat
           /\ New(jobs) \in Seq(Driver)
           /\ Len(New(jobs)) = Cardinality(jobs)
           /\ \A i, k \in 1..Cardinality(jobs) :
                 New(jobs)[i].job = New(jobs)[k].job => i = k
  <1> DEFINE n == Cardinality(jobs)
             order == SetToSeq(jobs)
  <1>1. IsFiniteSet(jobs)
    BY FS_Subset, ScheduleAssumption
  <1>2. /\ n \in Nat /\ order \in [1..n -> jobs]
        /\ \A i, k \in 1..n : order[i] = order[k] => i = k
    BY <1>1, Enumeration
  <1>3. New(jobs) = [i \in 1..n |-> [job |-> order[i], at |-> "sleeping", aborted |-> FALSE]]
    BY <1>2 DEF New
  <1> HIDE DEF n, order
  <1>4. \A i \in 1..n : order[i] \in Jobs
    BY <1>2
  <1>5. New(jobs) \in [1..n -> Driver]
    BY <1>3, <1>4 DEF Driver
  <1>6. New(jobs) \in Seq(Driver) /\ Len(New(jobs)) = n
    BY <1>2, <1>5
  <1>7. \A i, k \in 1..n : New(jobs)[i].job = New(jobs)[k].job => i = k
    BY <1>2, <1>3
  <1>8. QED
    BY <1>2, <1>6, <1>7 DEF n

-----------------------------------------------------------------------------
(***************************************************************************)
(* The steps of a driver move it alone and change neither its job nor      *)
(* whether it was told to stop; none of them brings it back to life.       *)
(***************************************************************************)

LEMMA MoveKeeps ==
    ASSUME DriversAreKnown, NEW d \in DOMAIN drivers, Live(d),
           NEW place \in {"sleeping", "busy", "ended", "panicked"}, Move(d, place),
           UNCHANGED <<registered, starting, snapshot, handles, starts>>
    PROVE  DriversAreKnown'
  <1> USE DEF DriversAreKnown
  <1>1. /\ drivers \in Seq(Driver) /\ DOMAIN drivers = 1..Len(drivers)
        /\ Len(drivers) \in Nat
        /\ drivers[d] \in Driver
    BY DEF TypeOK
  <1>2. [drivers[d] EXCEPT !.at = place] \in Driver
    BY <1>1 DEF Driver
  <1>3. drivers' = [drivers EXCEPT ![d] = [drivers[d] EXCEPT !.at = place]]
    BY DEF Move
  <1>4. /\ drivers' \in Seq(Driver) /\ DOMAIN drivers' = DOMAIN drivers
        /\ drivers'[d] = [drivers[d] EXCEPT !.at = place]
        /\ \A e \in DOMAIN drivers : e # d => drivers'[e] = drivers[e]
    BY <1>1, <1>2, <1>3
  <1>5. \A e \in DOMAIN drivers : /\ drivers'[e].job = drivers[e].job
                                  /\ drivers'[e].aborted = drivers[e].aborted
                                  /\ Live(e)' => Live(e)
    BY <1>1, <1>4 DEF Live, Driver
  <1>6. TypeOK'
    BY <1>4 DEF TypeOK
  <1>7. OneDriver' /\ NoneEscapes'
    BY <1>4, <1>5 DEF OneDriver, NoneEscapes
  <1>8. QED
    BY <1>6, <1>7

-----------------------------------------------------------------------------
(***************************************************************************)
(* Once no handle is kept, every living driver has been told to stop: that *)
(* is why a start() that finds no handle may spawn a driver for each job.  *)
(***************************************************************************)

LEMMA SpawnKeeps ==
    ASSUME DriversAreKnown, NEW c \in Callers, Spawn(c)
    PROVE  DriversAreKnown'
  <1> USE DEF DriversAreKnown
  <1>1. CASE handles # {}
    BY <1>1 DEF Spawn, TypeOK, OneDriver, NoneEscapes, Live
  <1>2. CASE handles = {}
    <2> DEFINE jobs == snapshot[c]
               m == Len(drivers)
               n == Cardinality(jobs)
               new == New(jobs)
    <2>1. /\ jobs \in SUBSET Jobs /\ m \in Nat
          /\ drivers \in Seq(Driver) /\ DOMAIN drivers = 1..m
      BY DEF TypeOK
    <2>2. /\ n \in Nat /\ new \in Seq(Driver) /\ Len(new) = n
          /\ \A i, k \in 1..n : new[i].job = new[k].job => i = k
      BY <2>1, NewDrivers
    <2>3. drivers' = drivers \o new /\ handles' = {m + i : i \in 1..n}
      BY <1>2 DEF Spawn
    <2> HIDE DEF new, n, m, jobs
    <2>4. /\ drivers' \in Seq(Driver) /\ DOMAIN drivers' = 1..(m + n)
          /\ \A d \in 1..m : drivers'[d] = drivers[d]
          /\ \A d \in (m + 1)..(m + n) : d - m \in 1..n /\ drivers'[d] = new[d - m]
      BY <2>1, <2>2, <2>3 DEF m
    <2>5. handles' = (m + 1)..(m + n)
      <3>1. \A d \in (m + 1)..(m + n) : d - m \in 1..n /\ d = m + (d - m)
        BY <2>1, <2>2
      <3>2. \A i \in 1..n : m + i \in (m + 1)..(m + n)
        BY <2>1, <2>2
      <3>3. QED
        BY <2>3, <3>1, <3>2
    <2>6. TypeOK'
      <3>1. /\ registered' = registered /\ starts' = starts
            /\ starting' = starting \ {c}
            /\ snapshot' = [snapshot EXCEPT ![c] = {}]
        BY DEF Spawn
      <3>2. handles' \subseteq DOMAIN drivers'
        BY <2>1, <2>2, <2>4, <2>5
      <3>3. QED
        BY <2>4, <3>1, <3>2 DEF TypeOK
    <2>7. \A d \in 1..m : ~Running(d)'
      <3>1. \A d \in 1..m : ~Running(d)
        BY <1>2, <2>1 DEF NoneEscapes, Running
      <3>2. QED
        BY <2>4, <3>1 DEF Running, Live
    <2>8. \A d \in DOMAIN drivers' : Running(d)' => d \in (m + 1)..(m + n)
      BY <2>1, <2>2, <2>4, <2>7
    <2>9. NoneEscapes'
      BY <2>5, <2>8 DEF NoneEscapes, Running
    <2>10. OneDriver'
      <3>1. SUFFICES ASSUME NEW d \in (m + 1)..(m + n), NEW e \in (m + 1)..(m + n),
                            drivers'[d].job = drivers'[e].job
                     PROVE  d = e
        BY <2>8 DEF OneDriver, Running
      <3>2. d - m = e - m
        BY <2>2, <2>4, <3>1
      <3>3. QED
        BY <2>1, <2>2, <3>2
    <2>11. QED
      BY <2>6, <2>9, <2>10
  <1>3. QED
    BY <1>1, <1>2

\* A shutdown tells every running driver to stop, for each has a handle.
LEMMA ShutdownKeeps ==
    ASSUME DriversAreKnown, NEW c \in Callers, Shutdown(c)
    PROVE  DriversAreKnown'
  <1> USE DEF DriversAreKnown
  <1> DEFINE told(d) == [drivers[d] EXCEPT !.aborted = @ \/ (d \in handles /\ Live(d))]
  <1>1. /\ drivers \in Seq(Driver) /\ Len(drivers) \in Nat
        /\ DOMAIN drivers = 1..Len(drivers)
        /\ \A d \in DOMAIN drivers : drivers[d] \in Driver
    BY DEF TypeOK
  <1>2. /\ drivers' = [d \in DOMAIN drivers |-> told(d)]
        /\ handles' = {} /\ UNCHANGED <<registered, starting, snapshot, starts>>
    BY DEF Shutdown
  <1>3. \A d \in DOMAIN drivers :
           /\ told(d) \in Driver
           /\ told(d).job = drivers[d].job /\ told(d).at = drivers[d].at
           /\ told(d).aborted = (drivers[d].aborted \/ (d \in handles /\ Live(d)))
    BY <1>1 DEF Driver
  <1> HIDE DEF told
  <1>4. /\ drivers' \in Seq(Driver) /\ DOMAIN drivers' = DOMAIN drivers
        /\ \A d \in DOMAIN drivers : drivers'[d] = told(d)
    BY <1>1, <1>2, <1>3
  <1>5. \A d \in DOMAIN drivers' : ~Running(d)'
    <2>1. SUFFICES ASSUME NEW d \in DOMAIN drivers, Live(d)', ~drivers'[d].aborted
                   PROVE  FALSE
      BY <1>4 DEF Running
    <2>2. Live(d) /\ ~drivers[d].aborted /\ d \notin handles
      BY <1>3, <1>4, <2>1 DEF Live
    <2>3. QED
      BY <2>2 DEF NoneEscapes
  <1>6. TypeOK'
    BY <1>2, <1>4 DEF TypeOK
  <1>7. OneDriver' /\ NoneEscapes'
    BY <1>5 DEF OneDriver, NoneEscapes, Running
  <1>8. QED
    BY <1>6, <1>7

LEMMA InitDrivers == Init => DriversAreKnown
  BY ScheduleAssumption DEF Init, DriversAreKnown, TypeOK, OneDriver, NoneEscapes

LEMMA NextDrivers == DriversAreKnown /\ [Next]_vars => DriversAreKnown'
  <1> SUFFICES ASSUME DriversAreKnown, [Next]_vars PROVE DriversAreKnown'
    OBVIOUS
  <1>1. ASSUME NEW j \in Jobs, Register(j) PROVE DriversAreKnown'
    BY <1>1 DEF Register, DriversAreKnown, TypeOK, OneDriver, NoneEscapes, Live
  <1>2. ASSUME NEW c \in Callers, Start(c) PROVE DriversAreKnown'
    <2>1. TypeOK'
      BY <1>2, ScheduleAssumption DEF Start, DriversAreKnown, TypeOK
    <2>2. OneDriver' /\ NoneEscapes'
      BY <1>2 DEF Start, DriversAreKnown, OneDriver, NoneEscapes, Live
    <2>3. QED
      BY <2>1, <2>2 DEF DriversAreKnown
  <1>3. ASSUME NEW d \in DOMAIN drivers, Fire(d) \/ Finish(d) \/ Panic(d) \/ Drop(d)
        PROVE  DriversAreKnown'
    <2>1. Live(d)
      BY <1>3 DEF Fire, Finish, Panic, Drop, Live
    <2>2. \E place \in {"sleeping", "busy", "ended", "panicked"} : Move(d, place)
      BY <1>3 DEF Fire, Finish, Panic, Drop
    <2>3. UNCHANGED <<registered, starting, snapshot, handles, starts>>
      BY <1>3 DEF Fire, Finish, Panic, Drop
    <2>4. QED
      BY <2>1, <2>2, <2>3, MoveKeeps
  <1>4. CASE UNCHANGED vars
    BY <1>4 DEF vars, DriversAreKnown, TypeOK, OneDriver, NoneEscapes, Live
  <1>5. QED
    BY <1>1, <1>2, <1>3, <1>4, SpawnKeeps, ShutdownKeeps DEF Next

-----------------------------------------------------------------------------
\* However the starts, shutdowns and registrations of any number of threads
\* interleave, a job has one driver at most that was not told to stop, and
\* each such driver is among the handles, where the next shutdown finds it
\* (ScheduleRegistry::start, shutdown).
THEOREM EveryDriverIsKnown == Spec => []DriversAreKnown
  BY InitDrivers, NextDrivers, PTL DEF Spec

\* A driver that was told to stop is never told otherwise, and one that ended
\* never runs again: what a restart runs are drivers of its own (start, shutdown).
StoppedStaysStopped ==
    \A d \in DOMAIN drivers :
        /\ d \in DOMAIN drivers'
        /\ drivers'[d].job = drivers[d].job
        /\ drivers[d].aborted => drivers'[d].aborted
        /\ ~Live(d) => ~Live(d)'

\* The step that gives up the handles leaves no driver untold, one spawned by
\* a start() of another thread included.
NoneLeftUntold == handles # {} /\ handles' = {} => \A d \in DOMAIN drivers' : ~Running(d)'

\* No order of calls revives a driver or takes back an abort, and a shutdown
\* reaches all that run (ScheduleRegistry::shutdown, JoinHandle::abort).
THEOREM ShutdownIsFinal == Spec => [][StoppedStaysStopped /\ NoneLeftUntold]_vars
  <1>1. ASSUME DriversAreKnown, [Next]_vars PROVE StoppedStaysStopped
    <2> USE DEF StoppedStaysStopped
    <2>0. /\ drivers \in Seq(Driver) /\ Len(drivers) \in Nat
          /\ DOMAIN drivers = 1..Len(drivers)
          /\ \A d \in DOMAIN drivers : drivers[d] \in Driver
      BY <1>1 DEF DriversAreKnown, TypeOK
    <2>1. CASE UNCHANGED drivers
      BY <2>1 DEF Live
    <2>2. ASSUME NEW c \in Callers, Spawn(c), handles = {} PROVE StoppedStaysStopped
      <3> DEFINE new == New(snapshot[c])
      <3>1. new \in Seq(Driver) /\ drivers' = drivers \o new
        BY <1>1, <2>2, NewDrivers DEF Spawn, DriversAreKnown, TypeOK
      <3> HIDE DEF new
      <3>2. \A d \in DOMAIN drivers : d \in DOMAIN drivers' /\ drivers'[d] = drivers[d]
        BY <2>0, <3>1
      <3>3. QED
        BY <3>2 DEF Live
    <2>3. ASSUME NEW c \in Callers, Shutdown(c) PROVE StoppedStaysStopped
      BY <2>0, <2>3 DEF Shutdown, Live, Driver
    <2>4. ASSUME NEW d \in DOMAIN drivers, Fire(d) \/ Finish(d) \/ Panic(d) \/ Drop(d)
          PROVE  StoppedStaysStopped
      <3>1. PICK place : Live(d) /\ drivers' = [drivers EXCEPT ![d].at = place]
        BY <2>4 DEF Fire, Finish, Panic, Drop, Live, Move
      <3>2. QED
        BY <2>0, <3>1 DEF Live, Driver
    <2>5. QED
      BY <1>1, <2>1, <2>2, <2>3, <2>4 DEF Next, vars, Register, Start, Spawn
  <1>2. ASSUME DriversAreKnown, DriversAreKnown', [Next]_vars PROVE NoneLeftUntold
    BY <1>2 DEF NoneLeftUntold, DriversAreKnown, NoneEscapes, Running
  <1>3. QED
    BY <1>1, <1>2, InitDrivers, NextDrivers, PTL DEF Spec

-----------------------------------------------------------------------------
(***************************************************************************)
(* II. The response cache                                                  *)
(***************************************************************************)

-----------------------------------------------------------------------------
(***************************************************************************)
(* The inductive invariant.  What a hit shows was put in the store by some *)
(* earlier request, so the invariant says of every entry what HitIsGenuine *)
(* says of an answer, and of every request on its way to Save what makes   *)
(* the entry it is about to write such an entry.                           *)
(***************************************************************************)

\* A response a handler gave to a request for k whose body is text.
Genuine(entry, k) == /\ entry \in produced
                     /\ entry.key = k
                     /\ entry.kind = "text"

StoreIsGenuine ==
    \A k \in Keys : store[k] \notin {None, Garbage} => Genuine(store[k], k)

\* Where a request is decides what it holds.
RequestOK(r) ==
    /\ key[r] \in {None, uri[r]}
    /\ at[r] = "lookup" => key[r] # None
    /\ at[r] \in {"idle", "lookup", "handler"} => made[r] = None
    /\ at[r] \in {"filter", "set"} =>
          /\ made[r] \in produced
          /\ made[r].key = uri[r]
    /\ at[r] = "set" => key[r] # None /\ made[r].kind = "text"
    /\ FromCache(r) => key[r] # None /\ Genuine(answer[r], uri[r])

CacheInv ==
    /\ CacheTypeOK
    /\ produced \subseteq Entry
    /\ StoreIsGenuine
    /\ \A r \in Requests : RequestOK(r)

\* No response is mistaken for the absence of one.
LEMMA NoneIsNoResponse == Entry \subseteq Response /\ None \notin Response /\ None \notin Keys
  BY CacheAssumption DEF Entry, Response, Kinds

-----------------------------------------------------------------------------
(***************************************************************************)
(* Two things no step undoes: a produced response stays one, and a request *)
(* that does not move keeps what is known of it.                           *)
(***************************************************************************)

LEMMA RequestStays ==
    ASSUME NEW r \in Requests, RequestOK(r), produced \subseteq produced',
           at'[r] = at[r], key'[r] = key[r], uri'[r] = uri[r],
           made'[r] = made[r], answer'[r] = answer[r]
    PROVE  RequestOK(r)'
  BY DEF RequestOK, FromCache, Answered, Genuine

LEMMA StoreStays ==
    ASSUME StoreIsGenuine, produced \subseteq produced', store' = store
    PROVE  StoreIsGenuine'
  BY DEF StoreIsGenuine, Genuine

LEMMA InitCache == CacheInit => CacheInv
  <1> SUFFICES ASSUME CacheInit PROVE CacheInv
    OBVIOUS
  <1>1. 0 \in Versions
    BY CacheAssumption DEF Versions
  <1>2. CacheTypeOK
    BY <1>1 DEF CacheInit, CacheTypeOK, Places
  <1>3. \A r \in Requests : RequestOK(r)
    BY DEF CacheInit, RequestOK, FromCache, Answered
  <1>4. QED
    BY <1>2, <1>3 DEF CacheInit, CacheInv, StoreIsGenuine

-----------------------------------------------------------------------------
(***************************************************************************)
(* One lemma for each kind of step.                                        *)
(***************************************************************************)

LEMMA ArriveKeeps ==
    ASSUME CacheInv, NEW r \in Requests, NEW cacheable \in BOOLEAN,
           Arrive(r, cacheable)
    PROVE  CacheInv'
  <1> USE DEF CacheInv
  <1>1. CacheTypeOK'
    BY DEF Arrive, Go, CacheTypeOK, Places, CacheKey
  <1>2. StoreIsGenuine' /\ (produced \subseteq Entry)'
    BY StoreStays DEF Arrive
  <1>3. ASSUME NEW q \in Requests PROVE RequestOK(q)'
    <2>1. CASE q = r
      BY <2>1, NoneIsNoResponse
      DEF Arrive, Go, CacheTypeOK, RequestOK, FromCache, Answered, CacheKey
    <2>2. CASE q # r
      BY <2>2, RequestStays DEF Arrive, Go, CacheTypeOK
    <2>3. QED
      BY <2>1, <2>2
  <1>4. QED
    BY <1>1, <1>2, <1>3

LEMMA LookupKeeps ==
    ASSUME CacheInv, NEW r \in Requests, Hit(r) \/ Miss(r)
    PROVE  CacheInv'
  <1> USE DEF CacheInv
  <1>1. at[r] = "lookup" /\ key[r] = uri[r] /\ key[r] \in Keys /\ made[r] = None
    BY DEF Hit, Miss, RequestOK, CacheTypeOK
  <1>2. Hit(r) => store[key[r]] \in Entry /\ Genuine(store[key[r]], uri[r])
    BY <1>1 DEF Hit, CacheTypeOK, StoreIsGenuine
  <1>3. CacheTypeOK'
    BY <1>1, <1>2, NoneIsNoResponse DEF Hit, Miss, Go, CacheTypeOK, Places
  <1>4. StoreIsGenuine' /\ (produced \subseteq Entry)'
    BY StoreStays DEF Hit, Miss
  <1>5. ASSUME NEW q \in Requests PROVE RequestOK(q)'
    <2>1. CASE q = r
      <3>1. /\ key'[r] = key[r] /\ uri'[r] = uri[r] /\ made'[r] = None
            /\ produced' = produced
            /\ \/ at'[r] = "handler"
               \/ at'[r] = "answered" /\ Genuine(answer'[r], uri[r])
        BY <1>1, <1>2 DEF Hit, Miss, Go, CacheTypeOK
      <3>2. QED
        BY <1>1, <2>1, <3>1, NoneIsNoResponse
        DEF RequestOK, FromCache, Answered, Genuine, CacheTypeOK
    <2>2. CASE q # r
      BY <2>2, RequestStays DEF Hit, Miss, Go, CacheTypeOK
    <2>3. QED
      BY <2>1, <2>2
  <1>6. QED
    BY <1>3, <1>4, <1>5

LEMMA HandleKeeps ==
    ASSUME CacheInv, NEW r \in Requests, NEW kind \in Kinds, Handle(r, kind)
    PROVE  CacheInv'
  <1> USE DEF CacheInv
  <1> DEFINE response == [key |-> uri[r], version |-> version[uri[r]], kind |-> kind]
  <1>1. response \in Entry /\ response \in Response /\ response.key = uri[r]
    BY NoneIsNoResponse DEF CacheTypeOK, Entry
  <1>2. /\ made' = [made EXCEPT ![r] = response]
        /\ produced' = produced \cup {response}
        /\ at[r] = "handler" /\ at' = [at EXCEPT ![r] = "filter"]
        /\ UNCHANGED <<version, store, key, uri, answer>>
    BY DEF Handle, Go
  <1> HIDE DEF response
  <1>3. CacheTypeOK'
    BY <1>1, <1>2 DEF CacheTypeOK, Places
  <1>4. StoreIsGenuine' /\ (produced \subseteq Entry)'
    BY <1>1, <1>2, StoreStays
  <1>5. ASSUME NEW q \in Requests PROVE RequestOK(q)'
    <2>1. CASE q = r
      <3>1. /\ at'[r] = "filter" /\ made'[r] = response
            /\ key'[r] = key[r] /\ uri'[r] = uri[r]
        BY <1>2 DEF CacheTypeOK
      <3>2. QED
        BY <1>1, <1>2, <2>1, <3>1 DEF RequestOK, FromCache, Answered
    <2>2. CASE q # r
      BY <1>2, <2>2, RequestStays DEF CacheTypeOK
    <2>3. QED
      BY <2>1, <2>2
  <1>6. QED
    BY <1>3, <1>4, <1>5

LEMMA BodyKeeps ==
    ASSUME CacheInv, NEW r \in Requests, PassThrough(r) \/ ReadBody(r)
    PROVE  CacheInv'
  <1> USE DEF CacheInv
  <1>1. /\ at[r] = "filter" /\ made[r] \in produced
        /\ made[r] \in Entry /\ made[r] \in Response
        /\ made[r].key = uri[r] /\ made[r] # None
    BY NoneIsNoResponse DEF PassThrough, ReadBody, RequestOK
  <1>2. [made[r] EXCEPT !.kind = "unreadable"] \in Response
    BY <1>1 DEF Response
  <1>3. /\ UNCHANGED <<version, store, key, uri, made, produced>>
        /\ \/ /\ at' = [at EXCEPT ![r] = "answered"]
              /\ \/ answer' = [answer EXCEPT ![r] = made[r]]
                 \/ answer' = [answer EXCEPT ![r] = [made[r] EXCEPT !.kind = "unreadable"]]
           \/ /\ at' = [at EXCEPT ![r] = "set"] /\ answer' = answer
              /\ key[r] # None /\ made[r].kind \notin {"error", "broken", "binary"}
    BY DEF PassThrough, ReadBody, Go, ShouldCache
  <1>4. CacheTypeOK'
    BY <1>1, <1>2, <1>3 DEF CacheTypeOK, Places
  <1>5. StoreIsGenuine' /\ (produced \subseteq Entry)'
    BY <1>3, StoreStays
  <1>6. ASSUME NEW q \in Requests PROVE RequestOK(q)'
    <2>1. CASE q = r
      <3>1. /\ at'[r] \in {"answered", "set"}
            /\ at'[r] = "set" => key[r] # None /\ made[r].kind = "text"
        BY <1>1, <1>3 DEF CacheTypeOK, Entry, Kinds
      <3>2. QED
        BY <1>1, <1>3, <2>1, <3>1 DEF RequestOK, FromCache, Answered
    <2>2. CASE q # r
      BY <1>3, <2>2, RequestStays DEF CacheTypeOK
    <2>3. QED
      BY <2>1, <2>2
  <1>7. QED
    BY <1>4, <1>5, <1>6

LEMMA SaveKeeps ==
    ASSUME CacheInv, NEW r \in Requests, Save(r) \/ SaveFails(r)
    PROVE  CacheInv'
  <1> USE DEF CacheInv
  <1>1. /\ at[r] = "set" /\ key[r] = uri[r] /\ key[r] \in Keys
        /\ Genuine(made[r], key[r])
        /\ made[r] \in Entry /\ made[r] \in Response /\ made[r] # None
    BY NoneIsNoResponse DEF Save, SaveFails, RequestOK, Genuine, CacheTypeOK
  <1>2. /\ UNCHANGED <<version, key, uri, made, produced>>
        /\ at' = [at EXCEPT ![r] = "answered"]
        /\ answer' = [answer EXCEPT ![r] = made[r]]
        /\ store' = store \/ store' = [store EXCEPT ![key[r]] = made[r]]
    BY DEF Save, SaveFails, Answer, Go
  <1>3. CacheTypeOK'
    BY <1>1, <1>2 DEF CacheTypeOK, Places
  <1>4. StoreIsGenuine' /\ (produced \subseteq Entry)'
    BY <1>1, <1>2 DEF StoreIsGenuine, Genuine, CacheTypeOK
  <1>5. ASSUME NEW q \in Requests PROVE RequestOK(q)'
    <2>1. CASE q = r
      BY <1>1, <1>2, <2>1 DEF RequestOK, FromCache, Answered, CacheTypeOK
    <2>2. CASE q # r
      BY <1>2, <2>2, RequestStays DEF CacheTypeOK
    <2>3. QED
      BY <2>1, <2>2
  <1>6. QED
    BY <1>3, <1>4, <1>5

\* What the rest of the application does to a resource or to the store.
LEMMA OthersKeep ==
    ASSUME CacheInv, NEW k \in Keys, Advance(k) \/ Evict(k)
    PROVE  CacheInv'
  <1> USE DEF CacheInv
  <1>1. CacheTypeOK'
    <2>1. CASE Advance(k)
      <3>1. version[k] + 1 \in Versions
        BY <2>1, CacheAssumption DEF Advance, CacheTypeOK, Versions
      <3>2. QED
        BY <2>1, <3>1 DEF Advance, CacheTypeOK
    <2>2. CASE Evict(k)
      BY <2>2 DEF Evict, CacheTypeOK
    <2>3. QED
      BY <2>1, <2>2
  <1>2. StoreIsGenuine' /\ (produced \subseteq Entry)'
    BY DEF Advance, Evict, StoreIsGenuine, Genuine, CacheTypeOK
  <1>3. \A q \in Requests : RequestOK(q)'
    BY RequestStays DEF Advance, Evict
  <1>4. QED
    BY <1>1, <1>2, <1>3

LEMMA NextCache == CacheInv /\ [CacheNext]_cacheVars => CacheInv'
  <1> SUFFICES ASSUME CacheInv, [CacheNext]_cacheVars PROVE CacheInv'
    OBVIOUS
  <1>1. ASSUME NEW r \in Requests, Step(r) PROVE CacheInv'
    BY <1>1, ArriveKeeps, LookupKeeps, HandleKeeps, BodyKeeps, SaveKeeps DEF Step
  <1>2. ASSUME NEW k \in Keys, Advance(k) \/ Evict(k) PROVE CacheInv'
    BY <1>2, OthersKeep
  <1>3. CASE UNCHANGED cacheVars
    <2>1. CacheTypeOK' /\ (produced \subseteq Entry)'
      BY <1>3 DEF cacheVars, CacheInv, CacheTypeOK
    <2>2. StoreIsGenuine'
      BY <1>3, StoreStays DEF cacheVars, CacheInv
    <2>3. \A q \in Requests : RequestOK(q)'
      BY <1>3, RequestStays DEF cacheVars, CacheInv
    <2>4. QED
      BY <2>1, <2>2, <2>3 DEF CacheInv
  <1>4. QED
    BY <1>1, <1>2, <1>3 DEF CacheNext

-----------------------------------------------------------------------------
\* Every answer from the cache is a successful one that a handler gave to a
\* GET of the same URI, whatever was in the store before and however requests
\* that read, write and evict the same entry interleave (around,
\* CachePolicy::cache_key, parse_cached_response).
THEOREM HitsAreGenuine == CacheSpec => []HitIsGenuine
  <1>1. CacheInv => HitIsGenuine
    BY DEF CacheInv, HitIsGenuine, RequestOK, Genuine
  <1>2. QED
    BY <1>1, InitCache, NextCache, PTL DEF CacheSpec

\* The store never holds an answer under the key of another URI, nor one that
\* no handler gave (around: store.set(&key, value) with the request's own key).
THEOREM EntriesAreGenuine == CacheSpec => []StoreIsGenuine
  <1>1. CacheInv => StoreIsGenuine
    BY DEF CacheInv
  <1>2. QED
    BY <1>1, InitCache, NextCache, PTL DEF CacheSpec

(***************************************************************************)
(* III. The resource store                                                 *)
(*                                                                         *)
(* What is said of the records assumes a build that checks for overflow:   *)
(* without the checks the id after the largest one wraps to 0, which may   *)
(* be in use.                                                              *)
(***************************************************************************)

-----------------------------------------------------------------------------
(***************************************************************************)
(* Least and greatest numbers.                                             *)
(***************************************************************************)

\* A non-empty set of numbers has a least one.
LEMMA LeastNumber ==
    ASSUME NEW S \in SUBSET Nat, S # {}
    PROVE  \E x \in S : \A y \in S : x <= y
  <1> DEFINE R == {ss \in Nat \X Nat : ss[1] < ss[2]}
  <1>1. R = OpToRel(<, Nat)
    BY DEF OpToRel
  <1>2. IsWellFoundedOn(R, Nat)
    BY <1>1, NatLessThanWellFounded
  <1> HIDE DEF R
  <1>3. PICK x \in S : \A y \in S : ~(<<y, x>> \in R)
    BY <1>2, WFMin
  <1>4. \A y \in S : ~(y < x)
    BY <1>3 DEF R
  <1>5. QED
    BY <1>4

\* One that has a bound has a greatest one.
LEMMA GreatestNumber ==
    ASSUME NEW b \in Nat, NEW S \in SUBSET (0..b), S # {}
    PROVE  \E x \in S : \A y \in S : y <= x
  <1> DEFINE T == {b - x : x \in S}
  <1>1. T \in SUBSET Nat /\ T # {}
    <2>1. \A x \in S : x \in 0..b /\ b - x \in Nat
      OBVIOUS
    <2>2. QED
      BY <2>1
  <1>2. PICK m \in T : \A y \in T : m <= y
    BY <1>1, LeastNumber
  <1>3. PICK x \in S : m = b - x
    BY <1>2
  <1>4. \A y \in S : b - x <= b - y
    BY <1>2, <1>3
  <1>5. x \in 0..b /\ \A y \in S : y \in 0..b
    OBVIOUS
  <1>6. QED
    BY <1>4, <1>5

-----------------------------------------------------------------------------
(***************************************************************************)
(* Reading the vector.                                                     *)
(***************************************************************************)

Unique(s) == \A i, j \in 1..Len(s) : s[i].id = s[j].id => i = j

\* find() finds an entity with the id it looks for.
LEMMA FindFinds ==
    ASSUME NEW s \in Seq(Entity), NEW id \in IdsIn(s)
    PROVE  Find(s, id) \in 1..Len(s) /\ s[Find(s, id)].id = id
  <1> DEFINE I == {i \in 1..Len(s) : s[i].id = id}
  <1>1. I \in SUBSET Nat /\ I # {}
    BY DEF IdsIn
  <1>2. \E x \in I : \A y \in I : x =< y
    BY <1>1, LeastNumber
  <1>3. Find(s, id) = Min(I)
    BY <1>1 DEF Find, SelectInSeq
  <1>4. Min(I) \in I
    BY <1>2 DEF Min
  <1>5. QED
    BY <1>3, <1>4

\* Where ids are unique, the records are what the entities say.
LEMMA RecordsOf ==
    ASSUME NEW s \in Seq(Entity), Unique(s)
    PROVE  /\ DOMAIN Records(s) = IdsIn(s)
           /\ IdsIn(s) \subseteq Ids
           /\ \A i \in 1..Len(s) : /\ s[i].id \in IdsIn(s)
                                  /\ Find(s, s[i].id) = i
                                  /\ Records(s)[s[i].id] = s[i].data
           /\ \A id \in IdsIn(s) : Records(s)[id] \in Data
  <1>1. \A i \in 1..Len(s) : s[i] \in Entity
    OBVIOUS
  <1>2. \A i \in 1..Len(s) : s[i].id \in IdsIn(s)
    BY DEF IdsIn
  <1>3. \A i \in 1..Len(s) : Find(s, s[i].id) = i
    BY <1>2, FindFinds DEF Unique
  <1>4. \A id \in IdsIn(s) : Records(s)[id] = s[Find(s, id)].data
    BY DEF Records
  <1>5. \A id \in IdsIn(s) : Records(s)[id] \in Data
    BY <1>1, <1>4, FindFinds DEF Entity
  <1>6. IdsIn(s) \subseteq Ids
    BY <1>1 DEF IdsIn, Entity
  <1>7. DOMAIN Records(s) = IdsIn(s)
    BY DEF Records
  <1>8. QED
    BY <1>2, <1>3, <1>4, <1>5, <1>6, <1>7

\* A function that agrees with the entities is their records.
LEMMA RecordsAre ==
    ASSUME NEW s \in Seq(Entity), NEW D, NEW f, f = [id \in D |-> f[id]],
           D = IdsIn(s), \A i \in 1..Len(s) : f[s[i].id] = s[i].data
    PROVE  Records(s) = f
  <1>1. \A id \in IdsIn(s) : s[Find(s, id)].data = f[id]
    BY FindFinds
  <1>2. Records(s) = [id \in IdsIn(s) |-> f[id]]
    BY <1>1 DEF Records
  <1>3. QED
    BY <1>2

\* The id create() gives is not in use, unless it wrapped around.
LEMMA NextIdIsFree ==
    ASSUME items \in Seq(Entity)
    PROVE  /\ TopUsed(items) \in Ids
           /\ \A id \in IdsIn(items) : id <= TopUsed(items)
           /\ NextId \in Ids
           /\ TopUsed(items) < TopId => NextId = TopUsed(items) + 1
  <1>1. TopUsed(items) \in Ids /\ \A id \in IdsIn(items) : id <= TopUsed(items)
    <2>1. CASE items = <<>>
      BY <2>1, StoreAssumption DEF TopUsed, Ids, IdsIn
    <2>2. CASE items # <<>>
      <3>1. IdsIn(items) \in SUBSET (0..TopId) /\ IdsIn(items) # {}
        <4>1. \A i \in 1..Len(items) : items[i] \in Entity
          OBVIOUS
        <4>2. 1 \in 1..Len(items)
          BY <2>2
        <4>3. QED
          BY <4>1, <4>2 DEF IdsIn, Entity, Ids
      <3>2. \E n \in IdsIn(items) : \A m \in IdsIn(items) : m <= n
        BY <3>1, StoreAssumption, GreatestNumber
      <3>3. QED
        BY <2>2, <3>1, <3>2 DEF TopUsed, Ids
    <2>3. QED
      BY <2>1, <2>2
  <1>2. QED
    BY <1>1, StoreAssumption DEF NextId, Ids

-----------------------------------------------------------------------------
(***************************************************************************)
(* Writing the vector: what each of the three changes does to the entities *)
(* and, where ids are unique, to the records.                              *)
(***************************************************************************)

LEMMA Appended ==
    ASSUME NEW s \in Seq(Entity), Unique(s), NEW e \in Entity, e.id \notin IdsIn(s)
    PROVE  /\ Append(s, e) \in Seq(Entity)
           /\ Unique(Append(s, e))
           /\ IdsIn(Append(s, e)) = IdsIn(s) \cup {e.id}
           /\ Records(Append(s, e)) = With(Records(s), e.id, e.data)
  <1> DEFINE t == Append(s, e)
             n == Len(s)
             f == With(Records(s), e.id, e.data)
  <1>1. /\ t \in Seq(Entity) /\ n \in Nat /\ Len(t) = n + 1 /\ t[n + 1] = e
        /\ \A i \in 1..n : t[i] = s[i]
        /\ \A i \in 1..(n + 1) : i \in 1..n \/ i = n + 1
    OBVIOUS
  <1> HIDE DEF t
  <1>2. \A i \in 1..n : s[i].id \in IdsIn(s) /\ s[i].id # e.id
    BY DEF IdsIn
  <1>3. Unique(t)
    BY <1>1, <1>2 DEF Unique
  <1>4. IdsIn(t) = IdsIn(s) \cup {e.id}
    <2>1. \A i \in 1..Len(t) : t[i].id \in IdsIn(s) \cup {e.id}
      BY <1>1, <1>2
    <2>2. \A id \in IdsIn(s) \cup {e.id} : \E i \in 1..Len(t) : id = t[i].id
      <3>1. \A id \in IdsIn(s) : \E i \in 1..n : id = t[i].id
        BY <1>1 DEF IdsIn
      <3>2. n + 1 \in 1..Len(t) /\ \A i \in 1..n : i \in 1..Len(t)
        BY <1>1
      <3>3. QED
        BY <1>1, <3>1, <3>2
    <2>3. QED
      BY <2>1, <2>2 DEF IdsIn
  <1>5. DOMAIN f = IdsIn(t) /\ f = [id \in IdsIn(t) |-> f[id]]
    BY <1>4, RecordsOf DEF With
  <1>6. \A i \in 1..Len(t) : f[t[i].id] = t[i].data
    BY <1>1, <1>2, RecordsOf DEF With
  <1> HIDE DEF f
  <1>7. Records(t) = f
    BY <1>1, <1>5, <1>6, RecordsAre
  <1>8. QED
    BY <1>1, <1>3, <1>4, <1>7 DEF t, f

\* Replacing the entity that find() found changes no id, also where ids are
\* not unique.
LEMMA ReplacedIds ==
    ASSUME NEW s \in Seq(Entity), NEW id \in IdsIn(s), NEW d \in Data
    PROVE  LET t == [s EXCEPT ![Find(s, id)] = [id |-> id, data |-> d]] IN
           /\ t \in Seq(Entity) /\ Len(t) = Len(s)
           /\ \A i \in 1..Len(s) :
                 /\ t[i].id = s[i].id
                 /\ t[i].data = IF i = Find(s, id) THEN d ELSE s[i].data
           /\ IdsIn(t) = IdsIn(s)
  <1> DEFINE k == Find(s, id)
             e == [id |-> id, data |-> d]
             t == [s EXCEPT ![k] = e]
  <1>1. k \in 1..Len(s) /\ s[k].id = id
    BY FindFinds
  <1>2. e \in Entity /\ e.id = id /\ e.data = d
    <2>1. id \in Ids
      <3>1. s[k] \in Entity
        BY <1>1
      <3>2. QED
        BY <1>1, <3>1 DEF Entity
    <2>2. QED
      BY <2>1 DEF Entity
  <1> HIDE DEF k, e
  <1>3. /\ t \in Seq(Entity) /\ Len(t) = Len(s) /\ t[k] = e
        /\ \A i \in 1..Len(s) : i # k => t[i] = s[i]
    BY <1>1, <1>2
  <1> HIDE DEF t
  <1>4. \A i \in 1..Len(s) : /\ t[i].id = s[i].id
                            /\ t[i].data = IF i = k THEN d ELSE s[i].data
    BY <1>1, <1>2, <1>3
  <1>5. IdsIn(t) = IdsIn(s)
    BY <1>3, <1>4 DEF IdsIn
  <1>6. QED
    BY <1>3, <1>4, <1>5 DEF t, k, e

LEMMA Replaced ==
    ASSUME NEW s \in Seq(Entity), Unique(s), NEW id \in IdsIn(s), NEW d \in Data
    PROVE  LET t == [s EXCEPT ![Find(s, id)] = [id |-> id, data |-> d]] IN
           /\ Unique(t)
           /\ Records(t) = With(Records(s), id, d)
           /\ Records(t) = [Records(s) EXCEPT ![id] = d]
  <1> DEFINE t == [s EXCEPT ![Find(s, id)] = [id |-> id, data |-> d]]
             f == With(Records(s), id, d)
  <1>1. /\ t \in Seq(Entity) /\ Len(t) = Len(s) /\ IdsIn(t) = IdsIn(s)
        /\ \A i \in 1..Len(s) :
                 /\ t[i].id = s[i].id
                 /\ t[i].data = IF i = Find(s, id) THEN d ELSE s[i].data
    BY ReplacedIds
  <1> HIDE DEF t
  <1>2. Unique(t)
    BY <1>1 DEF Unique
  <1>3. f = [Records(s) EXCEPT ![id] = d]
    BY RecordsOf DEF With, Records
  <1>4. f = [i \in IdsIn(t) |-> f[i]]
    BY <1>1, RecordsOf DEF With
  <1>5. \A i \in 1..Len(t) : f[t[i].id] = t[i].data
    <2>1. SUFFICES ASSUME NEW i \in 1..Len(s) PROVE f[s[i].id] = t[i].data
      BY <1>1
    <2>2. /\ s[i].id \in IdsIn(s) /\ Find(s, s[i].id) = i
          /\ Records(s)[s[i].id] = s[i].data /\ DOMAIN Records(s) = IdsIn(s)
      BY RecordsOf
    <2>3. Find(s, id) \in 1..Len(s) /\ s[Find(s, id)].id = id
      BY FindFinds
    <2>4. s[i].id = id <=> i = Find(s, id)
      BY <2>2, <2>3
    <2>5. f[s[i].id] = IF s[i].id = id THEN d ELSE Records(s)[s[i].id]
      BY <2>2 DEF With
    <2>6. QED
      BY <1>1, <2>2, <2>4, <2>5
  <1> HIDE DEF f
  <1>6. Records(t) = f
    BY <1>1, <1>4, <1>5, RecordsAre
  <1>7. QED
    BY <1>2, <1>3, <1>6 DEF t, f

\* What is left when one entity is taken out.
LEMMA RemovedAt ==
    ASSUME NEW s \in Seq(Entity), NEW k \in 1..Len(s)
    PROVE  /\ RemoveAt(s, k) \in Seq(Entity)
           /\ Len(RemoveAt(s, k)) = Len(s) - 1
           /\ \A i \in 1..(Len(s) - 1) :
                 RemoveAt(s, k)[i] = IF i < k THEN s[i] ELSE s[i + 1]
  <1> DEFINE n == Len(s)
             u == SubSeq(s, 1, k - 1)
             v == SubSeq(s, k + 1, n)
  <1>1. n \in Nat /\ k \in Int /\ 1 <= k /\ k <= n
    OBVIOUS
  <1>2. \A i \in 1..n : s[i] \in Entity
    OBVIOUS
  <1>3. /\ u \in Seq(Entity) /\ Len(u) = IF 1 <= k - 1 THEN k - 1 - 1 + 1 ELSE 0
        /\ \A i \in 1..(k - 1 - 1 + 1) : u[i] = s[1 + i - 1]
    <2> DEFINE m == k - 1
    <2>1. 1 \in Int /\ m \in Int /\ \A i \in 1..m : s[i] \in Entity
      BY <1>1, <1>2
    <2> HIDE DEF m
    <2>2. /\ SubSeq(s, 1, m) \in Seq(Entity)
          /\ Len(SubSeq(s, 1, m)) = IF 1 <= m THEN m - 1 + 1 ELSE 0
          /\ \A i \in 1..(m - 1 + 1) : SubSeq(s, 1, m)[i] = s[1 + i - 1]
      BY <2>1, SubSeqProperties
    <2>3. QED
      BY <2>2 DEF m
  <1>4. /\ v \in Seq(Entity) /\ Len(v) = IF k + 1 <= n THEN n - (k + 1) + 1 ELSE 0
        /\ \A i \in 1..(n - (k + 1) + 1) : v[i] = s[(k + 1) + i - 1]
    <2> DEFINE m == k + 1
    <2>1. n \in Int /\ m \in Int /\ \A i \in m..n : s[i] \in Entity
      BY <1>1, <1>2
    <2> HIDE DEF m, n
    <2>2. /\ SubSeq(s, m, n) \in Seq(Entity)
          /\ Len(SubSeq(s, m, n)) = IF m <= n THEN n - m + 1 ELSE 0
          /\ \A i \in 1..(n - m + 1) : SubSeq(s, m, n)[i] = s[m + i - 1]
      BY <2>1, SubSeqProperties
    <2>3. QED
      BY <2>2 DEF m
  <1>5. RemoveAt(s, k) = u \o v
    BY DEF RemoveAt
  <1> HIDE DEF u, v, n
  <1>6. Len(u) = k - 1 /\ Len(v) = n - k
    BY <1>1, <1>3, <1>4
  <1>7. \A i \in 1..(k - 1) : u[i] = s[i]
    <2>1. \A i \in 1..(k - 1) : i \in 1..(k - 1 - 1 + 1) /\ 1 + i - 1 = i
      BY <1>1
    <2>2. QED
      BY <1>3, <2>1
  <1>8. \A i \in 1..(n - k) : v[i] = s[k + i]
    <2>1. \A i \in 1..(n - k) : i \in 1..(n - (k + 1) + 1) /\ (k + 1) + i - 1 = k + i
      BY <1>1
    <2>2. QED
      BY <1>4, <2>1
  <1>9. /\ u \o v \in Seq(Entity) /\ Len(u \o v) = Len(u) + Len(v)
        /\ \A i \in 1..(Len(u) + Len(v)) :
              (u \o v)[i] = IF i <= Len(u) THEN u[i] ELSE v[i - Len(u)]
    BY <1>3, <1>4, ConcatProperties
  <1>10. ASSUME NEW i \in 1..(n - 1)
         PROVE  (u \o v)[i] = IF i < k THEN s[i] ELSE s[i + 1]
    <2>1. CASE i < k
      BY <1>1, <1>6, <1>7, <1>9, <2>1
    <2>2. CASE ~(i < k)
      <3>1. i - Len(u) \in 1..(n - k) /\ k + (i - Len(u)) = i + 1
        BY <1>1, <1>6, <2>2
      <3>2. (u \o v)[i] = v[i - Len(u)]
        BY <1>1, <1>6, <1>9, <2>2
      <3>3. QED
        BY <1>8, <2>2, <3>1, <3>2
    <2>3. QED
      BY <2>1, <2>2
  <1>11. Len(u \o v) = n - 1
    BY <1>1, <1>6, <1>9
  <1>12. QED
    BY <1>5, <1>9, <1>10, <1>11 DEF n

LEMMA Removed ==
    ASSUME NEW s \in Seq(Entity), Unique(s), NEW id \in IdsIn(s)
    PROVE  LET t == RemoveAt(s, Find(s, id)) IN
           /\ t \in Seq(Entity)
           /\ Unique(t)
           /\ IdsIn(t) = IdsIn(s) \ {id}
           /\ Records(t) = [i \in DOMAIN Records(s) \ {id} |-> Records(s)[i]]
  <1> DEFINE k == Find(s, id)
             t == RemoveAt(s, k)
             n == Len(s)
             f == [i \in DOMAIN Records(s) \ {id} |-> Records(s)[i]]
             from(i) == IF i < k THEN i ELSE i + 1
  <1>1. k \in 1..n /\ s[k].id = id /\ n \in Nat
    BY FindFinds
  <1> HIDE DEF k
  <1>2. /\ t \in Seq(Entity) /\ Len(t) = n - 1
        /\ \A i \in 1..(n - 1) : t[i] = IF i < k THEN s[i] ELSE s[i + 1]
    BY <1>1, RemovedAt
  <1> HIDE DEF t, n
  <1>3. /\ \A i \in 1..(n - 1) : from(i) \in 1..n /\ from(i) # k /\ t[i] = s[from(i)]
        /\ \A i, j \in 1..(n - 1) : from(i) = from(j) => i = j
        /\ \A j \in 1..n : j # k => \E i \in 1..(n - 1) : from(i) = j
    <2>1. ASSUME NEW j \in 1..n, j # k PROVE \E i \in 1..(n - 1) : from(i) = j
      <3>1. CASE j < k
        BY <1>1, <3>1
      <3>2. CASE ~(j < k)
        <4>1. j - 1 \in 1..(n - 1) /\ from(j - 1) = j
          BY <1>1, <2>1, <3>2
        <4>2. QED
          BY <4>1
      <3>3. QED
        BY <3>1, <3>2
    <2>2. QED
      BY <1>1, <1>2, <2>1
  <1> HIDE DEF from
  <1>4. \A i \in 1..n : i # k => s[i].id # id
    BY <1>1 DEF Unique, n
  <1>5. Unique(t)
    <2>1. SUFFICES ASSUME NEW i \in 1..(n - 1), NEW j \in 1..(n - 1), t[i].id = t[j].id
                   PROVE  i = j
      BY <1>2 DEF Unique
    <2>2. from(i) \in 1..Len(s) /\ from(j) \in 1..Len(s) /\ s[from(i)].id = s[from(j)].id
      BY <1>3, <2>1 DEF n
    <2>3. from(i) = from(j)
      BY <2>2 DEF Unique
    <2>4. QED
      BY <1>3, <2>3
  <1>6. IdsIn(t) = IdsIn(s) \ {id}
    <2>1. \A i \in 1..(n - 1) : t[i].id \in IdsIn(s) /\ t[i].id # id
      BY <1>3, <1>4 DEF IdsIn, n
    <2>2. ASSUME NEW x \in IdsIn(s), x # id PROVE \E i \in 1..(n - 1) : x = t[i].id
      <3>1. PICK j \in 1..n : x = s[j].id
        BY DEF IdsIn, n
      <3>2. j # k
        BY <1>1, <2>2, <3>1
      <3>3. QED
        BY <1>3, <3>1, <3>2
    <2>3. IdsIn(t) = {t[i].id : i \in 1..(n - 1)}
      BY <1>2 DEF IdsIn
    <2>4. QED
      BY <2>1, <2>2, <2>3
  <1>7. DOMAIN Records(s) = IdsIn(s)
    BY RecordsOf
  <1>8. f = [i \in IdsIn(t) |-> f[i]]
    BY <1>6, <1>7
  <1>9. \A i \in 1..Len(t) : f[t[i].id] = t[i].data
    <2>1. SUFFICES ASSUME NEW i \in 1..(n - 1) PROVE f[t[i].id] = t[i].data
      BY <1>2
    <2>2. from(i) \in 1..Len(s) /\ t[i] = s[from(i)] /\ t[i].id # id
      BY <1>3, <1>4 DEF n
    <2>3. Records(s)[t[i].id] = t[i].data /\ t[i].id \in DOMAIN Records(s)
      BY <2>2, RecordsOf
    <2>4. QED
      BY <2>2, <2>3
  <1> HIDE DEF f
  <1>10. Records(t) = f
    BY <1>2, <1>8, <1>9, RecordsAre
  <1>11. QED
    BY <1>2, <1>5, <1>6, <1>10 DEF t, k, f

-----------------------------------------------------------------------------
(***************************************************************************)
(* Types, in every build.                                                  *)
(***************************************************************************)

ItemsOK == /\ items \in Seq(Entity)
           /\ updating \in [Clients -> Update \cup {Nothing}]

LEMMA MergeType ==
    ASSUME NEW old \in Data, NEW changes \in Changes
    PROVE  Merge(old, changes) \in Data
  BY DEF Merge, Data, Changes

\* What an update that found its entity writes.
LEMMA Written ==
    ASSUME ItemsOK, NEW c \in Clients, updating[c] # Nothing,
           updating[c].id \in IdsIn(items)
    PROVE  LET u == updating[c]
               d == Merge(u.read, u.changes) IN
           /\ u \in Update /\ d \in Data
           /\ Write(u) = [items EXCEPT ![Find(items, u.id)] = [id |-> u.id, data |-> d]]
           /\ Write(u) \in Seq(Entity)
           /\ IdsIn(Write(u)) = IdsIn(items)
  <1> DEFINE u == updating[c]
             d == Merge(u.read, u.changes)
  <1>1. u \in Update
    BY DEF ItemsOK
  <1>2. u.read \in Data /\ u.changes \in Changes
    BY <1>1 DEF Update
  <1>3. d \in Data
    BY <1>2, MergeType
  <1>4. Write(u) = [items EXCEPT ![Find(items, u.id)] = [id |-> u.id, data |-> d]]
    BY DEF Write
  <1>5. items \in Seq(Entity) /\ u.id \in IdsIn(items)
    BY DEF ItemsOK
  <1> HIDE DEF u, d
  <1>6. Write(u) \in Seq(Entity) /\ IdsIn(Write(u)) = IdsIn(items)
    <2> DEFINE id == u.id
               t == [items EXCEPT ![Find(items, id)] = [id |-> id, data |-> d]]
    <2>1. id \in IdsIn(items) /\ Write(u) = t
      BY <1>4, <1>5
    <2> HIDE DEF id
    <2>2. t \in Seq(Entity) /\ IdsIn(t) = IdsIn(items)
      BY <1>3, <1>5, <2>1, ReplacedIds
    <2> HIDE DEF t
    <2>3. QED
      BY <2>1, <2>2
  <1>7. QED
    BY <1>1, <1>3, <1>4, <1>6 DEF u, d

\* What BeginUpdate reads.
LEMMA Begun ==
    ASSUME ItemsOK, NEW c \in Clients, NEW id \in IdsIn(items), NEW changes \in Changes,
           BeginUpdate(c, id, changes)
    PROVE  /\ updating' \in [Clients -> Update \cup {Nothing}]
           /\ \A b \in Clients : b # c => updating'[b] = updating[b]
           /\ updating'[c] # Nothing
           /\ items' = items
  <1> DEFINE k == Find(items, id)
             u == [id |-> id, read |-> items[k].data, changes |-> changes]
  <1>1. k \in 1..Len(items) /\ items[k].id = id
    BY FindFinds DEF ItemsOK
  <1>2. items[k] \in Entity
    BY <1>1 DEF ItemsOK
  <1>3. u \in Update
    BY <1>1, <1>2 DEF Entity, Update
  <1>4. updating' = [updating EXCEPT ![c] = u] /\ items' = items
    BY DEF BeginUpdate
  <1>5. u # Nothing
    BY <1>3, StoreAssumption
  <1> HIDE DEF u
  <1>6. QED
    BY <1>3, <1>4, <1>5 DEF ItemsOK

LEMMA InitItems == StoreInit => ItemsOK
  BY StoreAssumption DEF StoreInit, ItemsOK

LEMMA NextItems == ItemsOK /\ [StoreNext]_storeVars => ItemsOK'
  <1> SUFFICES ASSUME ItemsOK, [StoreNext]_storeVars PROVE ItemsOK'
    OBVIOUS
  <1>1. CASE UNCHANGED storeVars
    BY <1>1 DEF storeVars, ItemsOK
  <1>2. ASSUME NEW c \in Clients, NEW d \in Data, Create(c, d) PROVE ItemsOK'
    <2>1. [id |-> NextId, data |-> d] \in Entity
      BY NextIdIsFree DEF Entity, ItemsOK
    <2>2. QED
      BY <1>2, <2>1 DEF Create, ItemsOK
  <1>3. ASSUME NEW c \in Clients, CreatePanics(c) PROVE ItemsOK'
    BY <1>3 DEF CreatePanics, ItemsOK
  <1>4. ASSUME NEW c \in Clients, NEW id \in IdsIn(items), NEW d \in Data, Replace(c, id, d)
        PROVE  ItemsOK'
    <2>1. items \in Seq(Entity)
      BY DEF ItemsOK
    <2>2. QED
      BY <1>4, <2>1, ReplacedIds DEF Replace, ItemsOK
  <1>5. ASSUME NEW c \in Clients, NEW id \in IdsIn(items), Delete(c, id) PROVE ItemsOK'
    <2>1. items \in Seq(Entity)
      BY DEF ItemsOK
    <2>2. QED
      BY <1>5, <2>1, FindFinds, RemovedAt DEF Delete, ItemsOK
  <1>6. ASSUME NEW c \in Clients, NEW id \in IdsIn(items), NEW changes \in Changes,
               BeginUpdate(c, id, changes)
        PROVE  ItemsOK'
    BY <1>6, Begun DEF ItemsOK
  <1>7. ASSUME NEW c \in Clients, EndUpdate(c) PROVE ItemsOK'
    <2>1. items' = items \/ items' \in Seq(Entity)
      BY <1>7, Written DEF EndUpdate
    <2>2. QED
      BY <1>7, <2>1 DEF EndUpdate, ItemsOK
  <1>8. QED
    BY <1>1, <1>2, <1>3, <1>4, <1>5, <1>6, <1>7 DEF StoreNext

LEMMA ItemsHold == StoreSpec => []ItemsOK
  BY InitItems, NextItems, PTL DEF StoreSpec

\* An update writes where it finds its id and nowhere else: with or without
\* overflow checks, whatever calls came between its read and its write, it
\* neither brings a deleted entity back nor changes which ids are in use
\* (resource_service.rs, update_from; store.rs, update_by_id).
THEOREM UpdatesKeepTheIds == StoreSpec => UpdatesKeepIds
  <1> DEFINE A == \A c \in Clients : updating[c] # Nothing /\ updating'[c] = Nothing
                                        => IdsIn(items') = IdsIn(items)
  <1>1. ASSUME ItemsOK, [StoreNext]_storeVars PROVE A
    <2>1. SUFFICES ASSUME NEW c \in Clients, updating[c] # Nothing, updating'[c] = Nothing
                   PROVE  IdsIn(items') = IdsIn(items)
      OBVIOUS
    <2>2. CASE items' = items
      BY <2>2
    <2>3. CASE updating' = updating
      BY <2>1, <2>3
    <2>4. ASSUME NEW b \in Clients, EndUpdate(b) PROVE IdsIn(items') = IdsIn(items)
      <3>1. updating[b] # Nothing
        BY <2>4 DEF EndUpdate
      <3>2. CASE updating[b].id \in IdsIn(items) /\ ~poisoned
        <4>1. items' = Write(updating[b])
          BY <2>4, <3>2 DEF EndUpdate
        <4>2. IdsIn(Write(updating[b])) = IdsIn(items)
          BY <1>1, <3>1, <3>2, Written
        <4>3. QED
          BY <4>1, <4>2
      <3>3. CASE ~(updating[b].id \in IdsIn(items) /\ ~poisoned)
        BY <2>4, <3>3 DEF EndUpdate
      <3>4. QED
        BY <3>2, <3>3
    <2>5. QED
      BY <1>1, <2>2, <2>3, <2>4
      DEF StoreNext, storeVars, Create, CreatePanics, Replace, Delete, BeginUpdate
  <1>2. QED
    BY <1>1, ItemsHold, PTL DEF StoreSpec, UpdatesKeepIds

-----------------------------------------------------------------------------
(***************************************************************************)
(* The records, in a build that checks for overflow.  What an update wrote *)
(* in one step is what it would have written to the records it intended to *)
(* change; the ids in use are the same in both, raced or not.              *)
(***************************************************************************)

StoreInv ==
    /\ StoreTypeOK
    /\ Unique(items)
    /\ DOMAIN intended = IdsIn(items)
    /\ AtomicUnlessRaced

\* What a step does to the records: the step of the keyed store it implements.
KeyedStep(old, new) ==
    \E id \in Ids :
        \/ \E d \in Data : id \notin DOMAIN old /\ new = With(old, id, d)
        \/ \E d \in Data : id \in DOMAIN old /\ new = [old EXCEPT ![id] = d]
        \/ id \in DOMAIN old /\ new = [i \in DOMAIN old \ {id} |-> old[i]]

LEMMA WithRecord ==
    ASSUME DOMAIN intended \subseteq Ids, \A i \in DOMAIN intended : intended[i] \in Data,
           NEW id \in Ids, NEW d \in Data
    PROVE  /\ DOMAIN With(intended, id, d) = DOMAIN intended \cup {id}
           /\ \A i \in DOMAIN With(intended, id, d) :
                 i \in Ids /\ With(intended, id, d)[i] \in Data
  BY DEF With

LEMMA CreateStep ==
    ASSUME Checked, StoreInv, NEW c \in Clients, NEW d \in Data, Create(c, d)
    PROVE  StoreInv' /\ KeyedStep(Records(items), Records(items'))
  <1> DEFINE e == [id |-> NextId, data |-> d]
  <1>1. items \in Seq(Entity) /\ Unique(items) /\ DOMAIN intended = IdsIn(items)
    BY DEF StoreInv, StoreTypeOK
  <1>2. NextId \in Ids /\ NextId \notin IdsIn(items)
    <2>1. TopUsed(items) < TopId /\ TopUsed(items) \in Ids
      BY <1>1, NextIdIsFree DEF Create
    <2>2. NextId = TopUsed(items) + 1 /\ \A id \in IdsIn(items) : id <= TopUsed(items)
      BY <1>1, <2>1, NextIdIsFree
    <2>3. NextId \in Ids
      BY <1>1, NextIdIsFree
    <2>4. \A id \in IdsIn(items) : id \in Ids
      BY <1>1, RecordsOf
    <2>5. QED
      BY <2>1, <2>2, <2>3, <2>4 DEF Ids
  <1>3. e \in Entity /\ e.id = NextId /\ e.data = d
    BY <1>2 DEF Entity
  <1>4. /\ items' = Append(items, e) /\ intended' = With(intended, NextId, d)
        /\ calls' = calls + 1 /\ calls < MaxCalls
        /\ UNCHANGED <<poisoned, updating, raced>>
    BY DEF Create, Idle
  <1> HIDE DEF e
  <1>5. /\ items' \in Seq(Entity) /\ Unique(items')
        /\ IdsIn(items') = IdsIn(items) \cup {NextId}
        /\ Records(items') = With(Records(items), NextId, d)
    BY <1>1, <1>2, <1>3, <1>4, Appended
  <1>6. StoreTypeOK' /\ DOMAIN intended' = IdsIn(items')
    <2>1. /\ DOMAIN intended' = DOMAIN intended \cup {NextId}
          /\ \A i \in DOMAIN intended' : i \in Ids /\ intended'[i] \in Data
      BY <1>2, <1>4, WithRecord DEF StoreInv, StoreTypeOK
    <2>2. QED
      BY <1>1, <1>4, <1>5, <2>1, StoreAssumption DEF StoreInv, StoreTypeOK
  <1>7. AtomicUnlessRaced'
    BY <1>4, <1>5 DEF StoreInv, AtomicUnlessRaced
  <1>8. DOMAIN Records(items) = IdsIn(items)
    BY <1>1, RecordsOf
  <1>9. QED
    BY <1>2, <1>5, <1>6, <1>7, <1>8 DEF StoreInv, KeyedStep

LEMMA ReplaceStep ==
    ASSUME StoreInv, NEW c \in Clients, NEW id \in IdsIn(items), NEW d \in Data,
           Replace(c, id, d)
    PROVE  StoreInv' /\ KeyedStep(Records(items), Records(items'))
  <1>1. /\ items \in Seq(Entity) /\ Unique(items) /\ DOMAIN intended = IdsIn(items)
        /\ id \in Ids /\ DOMAIN Records(items) = IdsIn(items)
    BY RecordsOf DEF StoreInv, StoreTypeOK
  <1>2. /\ items' = [items EXCEPT ![Find(items, id)] = [id |-> id, data |-> d]]
        /\ intended' = With(intended, id, d)
        /\ calls' = calls + 1 /\ calls < MaxCalls
        /\ UNCHANGED <<poisoned, updating, raced>>
    BY DEF Replace, Idle
  <1>3. /\ items' \in Seq(Entity) /\ Unique(items') /\ IdsIn(items') = IdsIn(items)
        /\ Records(items') = With(Records(items), id, d)
        /\ Records(items') = [Records(items) EXCEPT ![id] = d]
    BY <1>1, <1>2, ReplacedIds, Replaced
  <1>4. StoreTypeOK' /\ DOMAIN intended' = IdsIn(items')
    <2>1. /\ DOMAIN intended' = DOMAIN intended \cup {id}
          /\ \A i \in DOMAIN intended' : i \in Ids /\ intended'[i] \in Data
      BY <1>1, <1>2, WithRecord DEF StoreInv, StoreTypeOK
    <2>2. QED
      BY <1>1, <1>2, <1>3, <2>1, StoreAssumption DEF StoreInv, StoreTypeOK
  <1>5. AtomicUnlessRaced'
    BY <1>2, <1>3 DEF StoreInv, AtomicUnlessRaced
  <1>6. QED
    BY <1>1, <1>3, <1>4, <1>5 DEF StoreInv, KeyedStep

LEMMA DeleteStep ==
    ASSUME StoreInv, NEW c \in Clients, NEW id \in IdsIn(items), Delete(c, id)
    PROVE  StoreInv' /\ KeyedStep(Records(items), Records(items'))
  <1>1. /\ items \in Seq(Entity) /\ Unique(items) /\ DOMAIN intended = IdsIn(items)
        /\ id \in Ids /\ DOMAIN Records(items) = IdsIn(items)
    BY RecordsOf DEF StoreInv, StoreTypeOK
  <1>2. /\ items' = RemoveAt(items, Find(items, id))
        /\ intended' = [i \in DOMAIN intended \ {id} |-> intended[i]]
        /\ calls' = calls + 1 /\ calls < MaxCalls
        /\ UNCHANGED <<poisoned, updating, raced>>
    BY DEF Delete, Idle
  <1>3. /\ items' \in Seq(Entity) /\ Unique(items') /\ IdsIn(items') = IdsIn(items) \ {id}
        /\ Records(items') = [i \in DOMAIN Records(items) \ {id} |-> Records(items)[i]]
    BY <1>1, <1>2, Removed
  <1>4. StoreTypeOK' /\ DOMAIN intended' = IdsIn(items')
    BY <1>1, <1>2, <1>3, StoreAssumption DEF StoreInv, StoreTypeOK
  <1>5. AtomicUnlessRaced'
    BY <1>2, <1>3 DEF StoreInv, AtomicUnlessRaced
  <1>6. QED
    BY <1>1, <1>3, <1>4, <1>5 DEF StoreInv, KeyedStep

\* An update that is not raced merges into what it read, which is what the
\* record still holds.
LEMMA UpdateStep ==
    ASSUME StoreInv, NEW c \in Clients, EndUpdate(c)
    PROVE  /\ StoreInv'
           /\ KeyedStep(Records(items), Records(items')) \/ Records(items') = Records(items)
  <1> DEFINE u == updating[c]
             id == u.id
             d == Merge(u.read, u.changes)
             merged == Merge(intended[id], u.changes)
  <1>1. /\ items \in Seq(Entity) /\ Unique(items) /\ DOMAIN intended = IdsIn(items)
        /\ DOMAIN Records(items) = IdsIn(items) /\ ItemsOK
    BY RecordsOf DEF StoreInv, StoreTypeOK, ItemsOK
  <1>2. CASE ~(id \in IdsIn(items) /\ ~poisoned)
    <2>1. /\ UNCHANGED <<items, intended, raced, poisoned, calls>>
          /\ updating' = [updating EXCEPT ![c] = Nothing]
      BY <1>2 DEF EndUpdate
    <2>2. StoreTypeOK'
      BY <2>1 DEF StoreInv, StoreTypeOK
    <2>3. QED
      BY <2>1, <2>2 DEF StoreInv, AtomicUnlessRaced
  <1>3. CASE id \in IdsIn(items) /\ ~poisoned
    <2>1. /\ u # Nothing /\ updating' = [updating EXCEPT ![c] = Nothing]
          /\ items' = Write(u)
          /\ intended' = With(intended, id, merged)
          /\ raced' = (raced \/ u.read # items[Find(items, id)].data)
          /\ UNCHANGED <<poisoned, calls>>
      BY <1>3 DEF EndUpdate
    <2>2. /\ u \in Update /\ d \in Data /\ id \in Ids /\ u.changes \in Changes
          /\ items' = [items EXCEPT ![Find(items, id)] = [id |-> id, data |-> d]]
      BY <1>1, <1>3, <2>1, Written DEF Update
    <2>3. merged \in Data
      <3>1. intended[id] \in Data
        BY <1>1, <1>3 DEF StoreInv, StoreTypeOK
      <3>2. QED
        BY <2>2, <3>1, MergeType
    <2>4. ~raced' => merged = d
      <3>1. Records(items)[id] = items[Find(items, id)].data
        BY <1>3 DEF Records
      <3>2. QED
        BY <2>1, <3>1 DEF StoreInv, AtomicUnlessRaced
    <2> HIDE DEF merged, d, id
    <2>5. /\ items' \in Seq(Entity) /\ Unique(items') /\ IdsIn(items') = IdsIn(items)
          /\ Records(items') = With(Records(items), id, d)
          /\ Records(items') = [Records(items) EXCEPT ![id] = d]
      BY <1>1, <1>3, <2>2, ReplacedIds, Replaced
    <2>6. StoreTypeOK' /\ DOMAIN intended' = IdsIn(items')
      <3>1. /\ DOMAIN intended' = DOMAIN intended \cup {id}
            /\ \A i \in DOMAIN intended' : i \in Ids /\ intended'[i] \in Data
        BY <1>1, <2>1, <2>2, <2>3, WithRecord DEF StoreInv, StoreTypeOK
      <3>2. raced' \in BOOLEAN
        BY <2>1
      <3>3. updating' \in [Clients -> Update \cup {Nothing}]
        BY <2>1 DEF StoreInv, StoreTypeOK
      <3>4. QED
        BY <1>1, <1>3, <2>1, <2>5, <3>1, <3>2, <3>3 DEF StoreInv, StoreTypeOK
    <2>7. AtomicUnlessRaced'
      <3>1. ~raced' => Records(items) = intended
        BY <2>1 DEF StoreInv, AtomicUnlessRaced
      <3>2. QED
        BY <2>1, <2>4, <2>5, <3>1 DEF AtomicUnlessRaced
    <2>8. QED
      BY <1>1, <1>3, <2>2, <2>5, <2>6, <2>7 DEF StoreInv, KeyedStep
  <1>4. QED
    BY <1>2, <1>3

LEMMA InitStore == StoreInit => StoreInv
  <1> SUFFICES ASSUME StoreInit PROVE StoreInv
    OBVIOUS
  <1>1. items \in Seq(Entity) /\ Unique(items) /\ intended = Records(items)
    BY StoreAssumption DEF StoreInit, Unique
  <1>2. /\ DOMAIN intended = IdsIn(items) /\ IdsIn(items) \subseteq Ids
        /\ \A id \in IdsIn(items) : Records(items)[id] \in Data
    BY <1>1, RecordsOf
  <1>3. StoreTypeOK
    <2>1. DOMAIN intended \subseteq Ids /\ \A id \in DOMAIN intended : intended[id] \in Data
      BY <1>1, <1>2
    <2>2. calls \in 0..MaxCalls
      BY StoreAssumption DEF StoreInit
    <2>3. updating \in [Clients -> Update \cup {Nothing}]
      BY DEF StoreInit
    <2>4. poisoned \in BOOLEAN /\ raced \in BOOLEAN
      BY DEF StoreInit
    <2>5. QED
      BY <1>1, <2>1, <2>2, <2>3, <2>4 DEF StoreTypeOK
  <1>4. QED
    BY <1>1, <1>2, <1>3 DEF StoreInv, AtomicUnlessRaced

LEMMA NextStore ==
    ASSUME Checked, StoreInv, [StoreNext]_storeVars
    PROVE  /\ StoreInv'
           /\ KeyedStep(Records(items), Records(items')) \/ Records(items') = Records(items)
  <1>1. CASE UNCHANGED storeVars
    BY <1>1 DEF storeVars, StoreInv, StoreTypeOK, AtomicUnlessRaced
  <1>2. ASSUME NEW c \in Clients, CreatePanics(c)
        PROVE  StoreInv' /\ Records(items') = Records(items)
    BY <1>2, StoreAssumption DEF CreatePanics, Idle, StoreInv, StoreTypeOK, AtomicUnlessRaced
  <1>3. ASSUME NEW c \in Clients, NEW id \in IdsIn(items), NEW changes \in Changes,
               BeginUpdate(c, id, changes)
        PROVE  StoreInv' /\ Records(items') = Records(items)
    <2>1. updating' \in [Clients -> Update \cup {Nothing}]
      BY <1>3, Begun DEF StoreInv, StoreTypeOK, ItemsOK
    <2>2. /\ UNCHANGED <<items, poisoned, intended, raced>>
          /\ calls' = calls + 1 /\ calls < MaxCalls
      BY <1>3 DEF BeginUpdate, Idle
    <2>3. QED
      BY <2>1, <2>2, StoreAssumption DEF StoreInv, StoreTypeOK, AtomicUnlessRaced
  <1>4. QED
    BY <1>1, <1>2, <1>3, CreateStep, ReplaceStep, DeleteStep, UpdateStep DEF StoreNext

-----------------------------------------------------------------------------
\* No two entities share an id, whichever calls of concurrent handlers create
\* and delete them: the next id is above every id in use, and where there is
\* none above, the call panics (store.rs, create).
THEOREM IdsAreUnique == Checked => (StoreSpec => []UniqueIds)
  <1> SUFFICES ASSUME Checked PROVE StoreSpec => []UniqueIds
    OBVIOUS
  <1>1. ASSUME StoreInv, [StoreNext]_storeVars PROVE StoreInv'
    BY <1>1, NextStore
  <1>2. StoreInv => UniqueIds
    BY DEF StoreInv, UniqueIds, Unique
  <1>3. QED
    BY <1>1, <1>2, InitStore, PTL DEF StoreSpec

\* An update that reads, merges without the lock and writes is as good as one
\* step unless the record changed in between: the lost update that is raced is
\* the only one there is (resource_service.rs, update_from).
THEOREM UpdatesAreAtomicUnlessRaced == Checked => (StoreSpec => []AtomicUnlessRaced)
  <1> SUFFICES ASSUME Checked PROVE StoreSpec => []AtomicUnlessRaced
    OBVIOUS
  <1>1. ASSUME StoreInv, [StoreNext]_storeVars PROVE StoreInv'
    BY <1>1, NextStore
  <1>2. StoreInv => AtomicUnlessRaced
    BY DEF StoreInv
  <1>3. QED
    BY <1>1, <1>2, InitStore, PTL DEF StoreSpec

\* The vector behind its lock implements the keyed store: every call puts a
\* record under a free id, changes one record or takes one away, and disturbs
\* no other (store.rs, create, replace_by_id, update_by_id, delete_by_id).
THEOREM StoreImplementsKeyedRecords == Checked => (StoreSpec => WritesOneRecord)
  <1> SUFFICES ASSUME Checked PROVE StoreSpec => WritesOneRecord
    OBVIOUS
  <1>1. ASSUME StoreInv, [StoreNext]_storeVars PROVE StoreInv'
    BY <1>1, NextStore
  <1>2. StoreInv => Abstract!Init
    BY RecordsOf DEF StoreInv, StoreTypeOK, Abstract!Init
  <1>3. ASSUME StoreInv, [StoreNext]_storeVars PROVE [Abstract!Next]_(Records(items))
    <2>1. CASE Records(items') = Records(items)
      BY <2>1
    <2>2. CASE KeyedStep(Records(items), Records(items'))
      <3>1. Abstract!Next
        BY <2>2 DEF KeyedStep, With, Abstract!Next, Abstract!Put, Abstract!Change, Abstract!Take
      <3>2. QED
        BY <3>1
    <2>3. QED
      BY <1>3, <2>1, <2>2, NextStore
  <1>4. QED
    BY <1>1, <1>2, <1>3, InitStore, PTL DEF StoreSpec, WritesOneRecord, Abstract!Spec
=============================================================================
