----------------------------- MODULE Container -----------------------------
(***************************************************************************)
(* The dependency-injection container (nestforge-core/src/container.rs)    *)
(* with the providers that register into it (provider.rs).                 *)
(*                                                                         *)
(* A container is the shared singleton map `inner`, the shared factory     *)
(* maps and the shared set of names, plus one `overrides` map of its own:  *)
(* the root has one, and every scoped() child starts with an empty one.    *)
(* Every map is behind its own lock and resolve() takes them one after the *)
(* other, running a factory with no lock held; each step below is one      *)
(* critical section (or one step of a factory) of one thread.              *)
(*                                                                         *)
(* A factory is abstracted to the types it resolves, in order, from the    *)
(* container it is given.  A value is abstracted to what tells instances   *)
(* apart: the way it was made, which of the values that were made for this *)
(* container and type it is, and the containers whose private values it    *)
(* reaches through the values it was built from.                           *)
(***************************************************************************)
EXTENDS Naturals, Sequences

CONSTANTS
    Types,         \* the Rust types that are registered and resolved
    Scopes,        \* the scoped() containers, one per request
    Root,          \* the container the application is built on
    Threads,       \* threads and tasks that hold a container
    Serves,        \* Serves[t]: the containers thread t holds
    Offers,        \* Offers[ty]: the ways the application provides type ty
    Deps,          \* Deps[ty]: the types the factory of ty resolves, in order
    Rank,          \* orders the types so that a factory uses lower ranks only
    MaxMade,       \* bound on the values made for one container and type
    None           \* an empty slot of a map

Containers == Scopes \cup {Root}
Roles == {"value", "factory", "override", "request", "transient"}

Instance == [role: Roles, nth: Nat, uses: SUBSET Containers]

\* A cyclic provider graph makes resolve() recurse until the stack overflows;
\* the container has no check for it, so acyclic factories are assumed.
ASSUME ContainerAssumption ==
    /\ Root \notin Scopes
    /\ Serves \in [Threads -> SUBSET Containers]
    /\ Offers \in [Types -> SUBSET Roles]
    /\ Deps \in [Types -> Seq(Types)]
    /\ Rank \in [Types -> Nat]
    /\ \A ty \in Types : \A i \in 1..Len(Deps[ty]) : Rank[Deps[ty][i]] < Rank[ty]
    /\ MaxMade \in Nat
    /\ None \notin Instance

VARIABLES
    inner,               \* inner[ty]: the singleton of type ty
    overrides,           \* overrides[c][ty]: the value private to container c
    requestFactories,    \* types with a request factory
    transientFactories,  \* types with a transient factory
    names,               \* the type names that were ever registered
    opened,              \* containers that exist
    on,                  \* on[t]: the container thread t works on
    stack,               \* stack[t]: the resolves thread t is in, outermost first
    made                 \* made[c][ty]: values request factories made for c

registry == <<inner, requestFactories, transientFactories, names>>
vars == <<registry, overrides, opened, on, stack, made>>

-----------------------------------------------------------------------------
\* Stages of one resolve: the four maps in the order they are searched, then
\* the factory.  A frame's role is the kind of factory that it runs.
Stages == {"overrides", "inner", "request", "transient", "build"}
Frame == [type: Types, stage: Stages, role: Roles \cup {"lookup"},
          at: Nat, uses: SUBSET Containers, known: BOOLEAN]

TypeOK ==
    /\ inner \in [Types -> Instance \cup {None}]
    /\ overrides \in [Containers -> [Types -> Instance \cup {None}]]
    /\ requestFactories \subseteq Types
    /\ transientFactories \subseteq Types
    /\ names \subseteq Types
    /\ opened \subseteq Containers
    /\ on \in [Threads -> Containers]
    /\ stack \in [Threads -> Seq(Frame)]
    /\ made \in [Containers -> [Types -> Nat]]

Init ==
    /\ inner = [ty \in Types |-> None]
    /\ overrides = [c \in Containers |-> [ty \in Types |-> None]]
    /\ requestFactories = {}
    /\ transientFactories = {}
    /\ names = {}
    /\ opened = {Root}
    /\ on = [t \in Threads |-> Root]
    /\ stack = [t \in Threads |-> <<>>]
    /\ made = [c \in Containers |-> [ty \in Types |-> 0]]

Idle(t) == stack[t] = <<>>
Top(t) == stack[t][Len(stack[t])]
Working(t, stage) == ~Idle(t) /\ Top(t).stage = stage

Visible(c, ty) ==
    \/ overrides[c][ty] # None
    \/ inner[ty] # None
    \/ ty \in requestFactories \cup transientFactories

NewInstance(role, uses) == [role |-> role, nth |-> 0, uses |-> uses]

-----------------------------------------------------------------------------
\* Faulty variants of the steps, each defined before the step that it would
\* replace, show which property notices the fault; the specification uses none.

\* Fault: the child's map gets slots for request-scoped types only.
ScopedRequestSlotsOnly(t, s) ==
    /\ Idle(t) /\ Root \in Serves[t] /\ s \notin opened
    /\ opened' = opened \cup {s}
    /\ overrides' = [overrides EXCEPT ![s] = [ty \in requestFactories |-> None]]
    /\ UNCHANGED <<registry, on, stack, made>>

\* container.scoped(): shares every map but starts with no overrides.
Scoped(t, s) ==
    /\ Idle(t)
    /\ Root \in Serves[t]
    /\ s \notin opened
    /\ opened' = opened \cup {s}
    /\ overrides' = [overrides EXCEPT ![s] = [ty \in Types |-> None]]
    /\ UNCHANGED <<registry, on, stack, made>>

\* An idle thread calls a registration method of the root container.
Registering(t, ty, role) ==
    /\ Idle(t)
    /\ Root \in Serves[t]
    /\ role \in Offers[ty]

\* An Err (TypeAlreadyRegistered) changes nothing, so only the successes of the
\* registration methods are steps.
Register(t, ty) ==
    /\ Registering(t, ty, "value")
    /\ inner[ty] = None
    /\ inner' = [inner EXCEPT ![ty] = NewInstance("value", {})]
    /\ names' = names \cup {ty}
    /\ UNCHANGED <<requestFactories, transientFactories, overrides, opened, on, stack, made>>

Replace(t, ty) ==
    /\ Registering(t, ty, "value")
    /\ inner' = [inner EXCEPT ![ty] = NewInstance("value", {})]
    /\ names' = names \cup {ty}
    /\ UNCHANGED <<requestFactories, transientFactories, overrides, opened, on, stack, made>>

\* Fault: a scope clones the Arc of its parent's overrides.
OverrideEverywhere(t, c, ty) ==
    /\ Idle(t) /\ c \in Serves[t] \cap opened /\ "override" \in Offers[ty]
    /\ overrides' = [d \in Containers |->
                        IF d \in opened
                        THEN [overrides[d] EXCEPT ![ty] = NewInstance("override", {c})]
                        ELSE overrides[d]]
    /\ names' = names \cup {ty}
    /\ UNCHANGED <<inner, requestFactories, transientFactories, opened, on, stack, made>>

OverrideValue(t, c, ty) ==
    /\ Idle(t)
    /\ c \in Serves[t] \cap opened
    /\ "override" \in Offers[ty]
    /\ overrides' = [overrides EXCEPT ![c][ty] = NewInstance("override", {c})]
    /\ names' = names \cup {ty}
    /\ UNCHANGED <<inner, requestFactories, transientFactories, opened, on, stack, made>>

RegisterRequestFactory(t, ty) ==
    /\ Registering(t, ty, "request")
    /\ ty \notin requestFactories
    /\ requestFactories' = requestFactories \cup {ty}
    /\ names' = names \cup {ty}
    /\ UNCHANGED <<inner, transientFactories, overrides, opened, on, stack, made>>

RegisterTransientFactory(t, ty) ==
    /\ Registering(t, ty, "transient")
    /\ ty \notin transientFactories
    /\ transientFactories' = transientFactories \cup {ty}
    /\ names' = names \cup {ty}
    /\ UNCHANGED <<inner, requestFactories, overrides, opened, on, stack, made>>

-----------------------------------------------------------------------------
Entering(c, ty) ==
    [type |-> ty, stage |-> "overrides", role |-> "lookup",
     at |-> 0, uses |-> {}, known |-> Visible(c, ty)]

\* FactoryProvider::register runs the factory at once, on the root.
StartFactoryProvider(t, ty) ==
    /\ Registering(t, ty, "factory")
    /\ on' = [on EXCEPT ![t] = Root]
    /\ stack' = [stack EXCEPT ![t] =
                    <<[Entering(Root, ty) EXCEPT !.stage = "build", !.role = "factory"]>>]
    /\ UNCHANGED <<registry, overrides, opened, made>>

StartResolve(t, c, ty) ==
    /\ Idle(t)
    /\ c \in Serves[t] \cap opened
    /\ on' = [on EXCEPT ![t] = c]
    /\ stack' = [stack EXCEPT ![t] = <<Entering(c, ty)>>]
    /\ UNCHANGED <<registry, overrides, opened, made>>

\* The stack after the innermost resolve of s found value i: its caller, the
\* factory below it, goes on to its next dependency.
Returned(s, i) ==
    LET n == Len(s) - 1 IN
    [k \in 1..n |-> IF k = n
                    THEN [s[k] EXCEPT !.at = @ + 1, !.uses = @ \cup i.uses]
                    ELSE s[k]]

Return(t, i) == stack' = [stack EXCEPT ![t] = Returned(stack[t], i)]

\* An error leaves every factory below by `?`: the whole stack unwinds, and
\* nothing was cached on the way.
Unwind(t) == stack' = [stack EXCEPT ![t] = <<>>]

GoTo(t, stage, role) ==
    stack' = [stack EXCEPT ![t][Len(stack[t])].stage = stage,
                           ![t][Len(stack[t])].role = role]

\* Fault: the search starts at the singletons.
SkipOverrides(t) ==
    /\ Working(t, "overrides")
    /\ GoTo(t, "inner", "lookup")
    /\ UNCHANGED <<registry, overrides, opened, on, made>>

\* resolve() step 1: the read lock of overrides.
ReadOverrides(t) ==
    /\ Working(t, "overrides")
    /\ LET i == overrides[on[t]][Top(t).type] IN
       IF i # None THEN Return(t, i) ELSE GoTo(t, "inner", "lookup")
    /\ UNCHANGED <<registry, overrides, opened, on, made>>

\* Step 2: the read lock of the singletons.
ReadInner(t) ==
    /\ Working(t, "inner")
    /\ LET i == inner[Top(t).type] IN
       IF i # None THEN Return(t, i) ELSE GoTo(t, "request", "lookup")
    /\ UNCHANGED <<registry, overrides, opened, on, made>>

\* Fault: the factory is taken out of the map and never put back.
TakeRequestFactory(t) ==
    /\ Working(t, "request")
    /\ IF Top(t).type \in requestFactories
       THEN GoTo(t, "build", "request") /\ requestFactories' = requestFactories \ {Top(t).type}
       ELSE GoTo(t, "transient", "lookup") /\ UNCHANGED requestFactories
    /\ UNCHANGED <<inner, transientFactories, names, overrides, opened, on, made>>

\* Step 3: clone the request factory out of its map, and release the lock.
ReadRequestFactories(t) ==
    /\ Working(t, "request")
    /\ IF Top(t).type \in requestFactories
       THEN GoTo(t, "build", "request")
       ELSE GoTo(t, "transient", "lookup")
    /\ UNCHANGED <<registry, overrides, opened, on, made>>

\* Step 4: the same for the transient factory; a type without one is unknown.
ReadTransientFactories(t) ==
    /\ Working(t, "transient")
    /\ IF Top(t).type \in transientFactories
       THEN GoTo(t, "build", "transient")
       ELSE Unwind(t)
    /\ UNCHANGED <<registry, overrides, opened, on, made>>

Building(t) == Working(t, "build")
DepsLeft(t) == Top(t).at < Len(Deps[Top(t).type])

\* The running factory resolves its next dependency from the same container.
FactoryResolves(t) ==
    /\ Building(t) /\ DepsLeft(t)
    /\ stack' = [stack EXCEPT ![t] =
                    Append(@, Entering(on[t], Deps[Top(t).type][Top(t).at + 1]))]
    /\ UNCHANGED <<registry, overrides, opened, on, made>>

FactoryFails(t) ==
    /\ Building(t)
    /\ Unwind(t)
    /\ UNCHANGED <<registry, overrides, opened, on, made>>

\* Fault: the value of a request factory is returned and not cached.
DropRequestValue(t) ==
    LET c == on[t]
        ty == Top(t).type
    IN
    /\ Building(t) /\ ~DepsLeft(t) /\ Top(t).role = "request"
    /\ made[c][ty] < MaxMade
    /\ made' = [made EXCEPT ![c][ty] = @ + 1]
    /\ Return(t, NewInstance("request", Top(t).uses \cup {c}))
    /\ UNCHANGED <<registry, overrides, opened, on>>

\* A request factory returns: its value is private to the container, and is
\* inserted into overrides whatever the slot holds by now.
CacheRequestValue(t) ==
    LET c == on[t]
        ty == Top(t).type
        i == [NewInstance("request", Top(t).uses \cup {c}) EXCEPT !.nth = made[c][ty] + 1]
    IN
    /\ Building(t) /\ ~DepsLeft(t) /\ Top(t).role = "request"
    /\ made[c][ty] < MaxMade
    /\ made' = [made EXCEPT ![c][ty] = @ + 1]
    /\ overrides' = [overrides EXCEPT ![c][ty] = i]
    /\ Return(t, i)
    /\ UNCHANGED <<registry, opened, on>>

\* A transient factory returns: its value is handed out and kept nowhere.
HandOutTransient(t) ==
    /\ Building(t) /\ ~DepsLeft(t) /\ Top(t).role = "transient"
    /\ Return(t, NewInstance("transient", Top(t).uses))
    /\ UNCHANGED <<registry, overrides, opened, on, made>>

\* A provider factory returns and its value is registered as a singleton,
\* unless the type got one meanwhile: then the value is dropped with an Err.
RegisterFactoryValue(t) ==
    LET ty == Top(t).type IN
    /\ Building(t) /\ ~DepsLeft(t) /\ Top(t).role = "factory"
    /\ IF inner[ty] # None
       THEN UNCHANGED <<inner, names>>
       ELSE /\ inner' = [inner EXCEPT ![ty] = NewInstance("factory", Top(t).uses)]
            /\ names' = names \cup {ty}
    /\ Unwind(t)
    /\ UNCHANGED <<requestFactories, transientFactories, overrides, opened, on, made>>

\* One step of the call that t is in.
Step(t) ==
    \/ ReadOverrides(t) \/ ReadInner(t)
    \/ ReadRequestFactories(t) \/ ReadTransientFactories(t)
    \/ FactoryResolves(t) \/ FactoryFails(t)
    \/ CacheRequestValue(t) \/ HandOutTransient(t) \/ RegisterFactoryValue(t)

Call(t) ==
    \/ \E s \in Scopes : Scoped(t, s)
    \/ \E ty \in Types :
          \/ Register(t, ty) \/ Replace(t, ty)
          \/ RegisterRequestFactory(t, ty) \/ RegisterTransientFactory(t, ty)
          \/ StartFactoryProvider(t, ty)
          \/ \E c \in Containers : OverrideValue(t, c, ty) \/ StartResolve(t, c, ty)

Next == \E t \in Threads : Call(t) \/ Step(t)

Spec == Init /\ [][Next]_vars

-----------------------------------------------------------------------------
(***************************************************************************)
(* Properties.                                                             *)
(***************************************************************************)

\* Only one task works on container c: what a request's scope is meant for.
Sole(c) == \A t, u \in Threads : c \in Serves[t] \cap Serves[u] => t = u

\* A value held for one request never reaches, through whatever its factories
\* resolved, a value private to another request; and nothing shared by all
\* requests reaches a value private to any of them.
\* (container.rs scoped(): "without affecting the global state".)
ScopeIsolation ==
    /\ \A c \in Containers, ty \in Types :
          overrides[c][ty] # None => overrides[c][ty].uses \subseteq {c, Root}
    /\ \A ty \in Types : inner[ty] # None => inner[ty].uses \subseteq {Root}

\* What the resolves of a running factory handed it obeys the same rule for the
\* container that the factory was given, transient values included.
FactoriesIsolated ==
    \A t \in Threads : \A k \in 1..Len(stack[t]) :
        stack[t][k].uses \subseteq {on[t], Root}

\* Requests are isolated from each other: in what containers hold, and in what
\* a factory is building at any moment.
Isolated == ScopeIsolation /\ FactoriesIsolated

\* In a container that one task works on, a request factory makes at most one
\* value per type, also when resolves nest or fail half-way.
\* (provider.rs request_factory(): "executed once per request", which two tasks
\* of one request that resolve the type at the same time can break.)
MadeOncePerSoleScope ==
    \A c \in Containers, ty \in Types : Sole(c) => made[c][ty] <= 1

\* In a container that one task works on, a private value, once there, gives way
\* only to an explicit override_value: every later resolve sees it.
CachedStays ==
    [][\A c \in Containers, ty \in Types :
          /\ Sole(c)
          /\ overrides[c][ty] # None
          /\ overrides'[c][ty] # overrides[c][ty]
          => overrides'[c][ty].role = "override"]_overrides

\* A resolve searches four maps under four locks, while other threads register
\* and replace: a type that was there when it started is never reported missing.
KnownIsFound ==
    \A t \in Threads :
        Working(t, "transient") /\ Top(t).known => Top(t).type \in transientFactories

=============================================================================
