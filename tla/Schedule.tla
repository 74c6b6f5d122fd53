----------------------------- MODULE Schedule -----------------------------
(***************************************************************************)
(* The scheduler (nestforge-schedule/src/lib.rs): a registry of interval   *)
(* and timeout jobs that start() hands to tokio, one spawned task each,    *)
(* and that shutdown() aborts.                                             *)
(*                                                                         *)
(* The jobs and the handles are behind a lock each, and start() takes one  *)
(* after the other; a caller's step is one critical section.  A spawned    *)
(* task, a driver here, sleeps until its timer fires, runs the job's body  *)
(* and, for an interval, sleeps again.  An abort takes effect where the    *)
(* driver next awaits: a body that is being polled goes on until then.     *)
(*                                                                         *)
(* Durations are positive: tokio panics on an interval of length zero.     *)
(***************************************************************************)
EXTENDS Integers, Sequences, SequencesExt, FiniteSets

CONSTANTS
    Callers,      \* threads that hold a clone of the registry
    Intervals,    \* jobs registered with every()
    Timeouts,     \* jobs registered with after()
    MaxStarts     \* bound on the calls of start

Jobs == Intervals \cup Timeouts

ASSUME ScheduleAssumption ==
    /\ Intervals \cap Timeouts = {}
    /\ IsFiniteSet(Jobs)
    /\ MaxStarts \in Nat

Driver == [job: Jobs, at: {"sleeping", "busy", "ended", "panicked"}, aborted: BOOLEAN]

VARIABLES
    registered,   \* the jobs in the registry
    starting,     \* callers within start()
    snapshot,     \* snapshot[c]: the jobs caller c copied there
    drivers,      \* the tasks that were ever spawned, in order
    handles,      \* the indices of those whose handle is kept
    starts        \* calls of start so far

vars == <<registered, starting, snapshot, drivers, handles, starts>>

Live(d) == drivers[d].at \in {"sleeping", "busy"}
Move(d, place) == drivers' = [drivers EXCEPT ![d].at = place]

-----------------------------------------------------------------------------
\* The builder registers jobs before anything is started.
Init == /\ registered \in SUBSET Jobs
        /\ starting = {}
        /\ snapshot = [c \in Callers |-> {}]
        /\ drivers = <<>>
        /\ handles = {}
        /\ starts = 0

Register(j) ==
    /\ j \notin registered
    /\ registered' = registered \cup {j}
    /\ UNCHANGED <<starting, snapshot, drivers, handles, starts>>

Start(c) ==
    /\ c \notin starting
    /\ starts < MaxStarts
    /\ starting' = starting \cup {c}
    /\ snapshot' = [snapshot EXCEPT ![c] = registered]
    /\ starts' = starts + 1
    /\ UNCHANGED <<registered, drivers, handles>>

\* One driver for each job; their order makes no difference.
New(jobs) == LET order == SetToSeq(jobs)
             IN  [i \in DOMAIN order |-> [job |-> order[i], at |-> "sleeping", aborted |-> FALSE]]

\* a start() that does not look at the handles
SpawnAlways(c) ==
    /\ c \in starting
    /\ starting' = starting \ {c}
    /\ snapshot' = [snapshot EXCEPT ![c] = {}]
    /\ drivers' = drivers \o New(snapshot[c])
    /\ handles' = handles \cup {Len(drivers) + i : i \in 1..Cardinality(snapshot[c])}
    /\ UNCHANGED <<registered, starts>>

\* The rest of start(), under the lock of the handles.
Spawn(c) ==
    /\ c \in starting
    /\ starting' = starting \ {c}
    /\ snapshot' = [snapshot EXCEPT ![c] = {}]
    /\ IF handles = {}
       THEN /\ drivers' = drivers \o New(snapshot[c])
            /\ handles' = {Len(drivers) + i : i \in 1..Cardinality(snapshot[c])}
       ELSE UNCHANGED <<drivers, handles>>
    /\ UNCHANGED <<registered, starts>>

Shutdown(c) ==
    /\ c \notin starting
    /\ handles # {}
    /\ handles' = {}
    /\ drivers' = [d \in DOMAIN drivers |->
                      [drivers[d] EXCEPT !.aborted = @ \/ (d \in handles /\ Live(d))]]
    /\ UNCHANGED <<registered, starting, snapshot, starts>>

\* The timer fires and the body is called.
Fire(d) ==
    /\ drivers[d].at = "sleeping" /\ ~drivers[d].aborted
    /\ Move(d, "busy")
    /\ UNCHANGED <<registered, starting, snapshot, handles, starts>>

\* one turn for every job
FinishOnce(d) ==
    /\ drivers[d].at = "busy"
    /\ Move(d, "ended")
    /\ UNCHANGED <<registered, starting, snapshot, handles, starts>>

Finish(d) ==
    /\ drivers[d].at = "busy"
    /\ Move(d, IF drivers[d].job \in Intervals THEN "sleeping" ELSE "ended")
    /\ UNCHANGED <<registered, starting, snapshot, handles, starts>>

\* The body panics: tokio ends the task, and the handle stays where it is.
Panic(d) ==
    /\ drivers[d].at = "busy"
    /\ Move(d, "panicked")
    /\ UNCHANGED <<registered, starting, snapshot, handles, starts>>

\* an abort that only a body's own await notices
DropBusy(d) ==
    /\ drivers[d].at = "busy" /\ drivers[d].aborted
    /\ Move(d, "ended")
    /\ UNCHANGED <<registered, starting, snapshot, handles, starts>>

\* An aborted task is dropped where it awaits, within the body or outside.
Drop(d) ==
    /\ Live(d) /\ drivers[d].aborted
    /\ Move(d, "ended")
    /\ UNCHANGED <<registered, starting, snapshot, handles, starts>>

Next == \/ \E j \in Jobs : Register(j)
        \/ \E c \in Callers : Start(c) \/ Spawn(c) \/ Shutdown(c)
        \/ \E d \in DOMAIN drivers : Fire(d) \/ Finish(d) \/ Panic(d) \/ Drop(d)

Spec == Init /\ [][Next]_vars

Spawned == 1..(MaxStarts * Cardinality(Jobs))
Turn(d) == d \in DOMAIN drivers /\ (Finish(d) \/ Drop(d))
Ring(d) == d \in DOMAIN drivers /\ Fire(d)

\* A thread within start() goes on, timers fire, tokio polls every task, and
\* the body of a job comes to an end.
FairSpec == /\ Spec
            /\ \A c \in Callers : WF_vars(Spawn(c))
            /\ \A d \in Spawned : WF_vars(Ring(d)) /\ WF_vars(Turn(d))

-----------------------------------------------------------------------------
(* Properties *)

TypeOK ==
    /\ registered \subseteq Jobs
    /\ starting \subseteq Callers
    /\ snapshot \in [Callers -> SUBSET Jobs]
    /\ \A c \in Callers \ starting : snapshot[c] = {}
    /\ drivers \in Seq(Driver)
    /\ handles \subseteq DOMAIN drivers
    /\ starts \in 0..MaxStarts

\* However starts and shutdowns of several threads interleave, a job has at
\* most one driver that was not told to stop: the check for handles and the
\* spawning are one critical section (start).
OneDriver ==
    \A d, e \in DOMAIN drivers :
        /\ drivers[d].job = drivers[e].job
        /\ Live(d) /\ Live(e)
        /\ ~drivers[d].aborted /\ ~drivers[e].aborted
        => d = e

\* No driver escapes: one that was not told to stop is among the handles, so
\* that after a shutdown() every driver there is has been told (shutdown).
NoneEscapes ==
    \A d \in DOMAIN drivers : Live(d) /\ ~drivers[d].aborted => d \in handles

\* In every state that any order of calls leads to.
DriversAreKnown == TypeOK /\ OneDriver /\ NoneEscapes

Is(d, P(_)) == d \in DOMAIN drivers /\ P(drivers[d])

\* The job of an interval driver goes on running until it is told to stop or
\* its body panics.
IntervalsGoOn ==
    \A d \in Spawned : []( Is(d, LAMBDA e : e.job \in Intervals) =>
                            <>Is(d, LAMBDA e : e.aborted \/ e.at \in {"busy", "panicked"}) )

\* A shutdown ends every driver it was told of, in the end.
ShutdownEnds ==
    \A d \in Spawned : Is(d, LAMBDA e : e.aborted)
                           ~> Is(d, LAMBDA e : e.at \in {"ended", "panicked"})
=============================================================================
