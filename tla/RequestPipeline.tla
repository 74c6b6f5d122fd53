-------------------------- MODULE RequestPipeline --------------------------
(***************************************************************************)
(* The way of an HTTP request through NestForge: into_router and           *)
(* request_context_middleware (nestforge-http/src/factory.rs),             *)
(* run_middleware_chain (middleware.rs) and execute_pipeline               *)
(* (nestforge-core/src/pipeline.rs), which runs twice, once for the whole  *)
(* application and once for the route (route_builder.rs).                  *)
(*                                                                         *)
(* A request goes down through up to three layers and its response comes   *)
(* back up through them.  A layer is a list of guards, a list of wrappers  *)
(* (middlewares or interceptors) and a one-shot `next` into what is below. *)
(* A wrapper is application code: it may answer by itself, call its next   *)
(* and pass the response on or replace it, and call its next again.        *)
(*                                                                         *)
(* A guard is abstracted to the identities it admits and to whether it may *)
(* refuse for reasons of its own; a response to whether it is an error,    *)
(* who made it, and which exception filters it went through.  A wrapper    *)
(* passes the request on with the extensions it came with, and waits for   *)
(* one next before it calls it again.                                      *)
(***************************************************************************)
EXTENDS Naturals, Sequences

CONSTANTS
    Requests,        \* the requests that are served at the same time
    Routes,          \* what can be asked for
    Asks,            \* Asks[r]: the routes that request r may ask for
    Kind,            \* Kind[rt]: "controller", "plain" (a merged router) or "missing"
    Middlewares,     \* how many middlewares are configured
    Matching,        \* Matching[rt]: those of 1..Middlewares whose routes match rt
    Interceptors,    \* Interceptors[l][rt]: how many interceptors layer l puts around rt
    Guards,
    GuardList,       \* GuardList[l][rt]: the guards of layer l for rt, in order
    Admits,          \* Admits[g]: the identities guard g lets through
    Moody,           \* guards that may refuse whoever comes
    Identities,      \* what the auth resolver can answer
    Anonymous,       \* no identity, also when there is no auth resolver
    MaxCalls,        \* bound on the calls of next by one wrapper
    None

\* The layers, from the outside: 1 middleware, 2 global, 3 route.
Layers == 1..3

ASSUME PipelineAssumption ==
    /\ Asks \in [Requests -> SUBSET Routes]
    /\ Kind \in [Routes -> {"controller", "plain", "missing"}]
    /\ Middlewares \in Nat
    /\ Matching \in [Routes -> SUBSET (1..Middlewares)]
    /\ Interceptors \in [2..3 -> [Routes -> Nat]]
    /\ GuardList \in [2..3 -> [Routes -> Seq(Guards)]]
    /\ Anonymous \notin Identities
    /\ Admits \in [Guards -> SUBSET (Identities \cup {Anonymous})]
    /\ Moody \subseteq Guards
    /\ MaxCalls \in Nat

VARIABLES
    sequence,   \* NEXT_REQUEST_SEQUENCE
    phase,      \* phase[r]: where request r is
    route,      \* route[r]: what it asks for
    id,         \* id[r]: its request id
    who,        \* who[r]: the identity in its extensions
    scope,      \* scope[r]: the overrides of its scoped container
    at,         \* at[r]: the layer it is in, and how far in the layer's list
    frames,     \* frames[r]: the wrappers it is inside of, outermost first
    spent,      \* spent[r]: the layers whose one-shot next was taken
    passed,     \* passed[r]: the guards that let it through, by layer and place
    refused,    \* refused[r]: a guard or the resolver refused it
    runs,       \* runs[r]: how often its handler ran
    reply       \* reply[r]: the response on its way up

control == <<phase, at, frames, spent>>
context == <<sequence, route, id, who, scope>>
history == <<passed, refused, runs>>
vars == <<control, context, history, reply>>

Phases == {"new", "resolving", "chain", "guards", "inside", "handler",
           "leaving", "answered", "gone"}
Response == [error: BOOLEAN,
             from: {"resolver", "guard", "wrapper", "next", "handler", "fallback"},
             filters: SUBSET {"global", "route"}]
Frame == [layer: Layers, index: Nat, calls: 0..MaxCalls]
Scope == [id: Nat, who: Identities \cup {Anonymous}]

TypeOK ==
    /\ sequence \in Nat
    /\ phase \in [Requests -> Phases]
    /\ route \in [Requests -> Routes]
    /\ id \in [Requests -> Nat]
    /\ who \in [Requests -> Identities \cup {Anonymous}]
    /\ scope \in [Requests -> Scope]
    /\ at \in [Requests -> [layer: Layers, next: Nat]]
    /\ frames \in [Requests -> Seq(Frame)]
    /\ spent \in [Requests -> SUBSET Layers]
    /\ passed \in [Requests -> SUBSET (Layers \X Nat)]
    /\ refused \in [Requests -> BOOLEAN]
    /\ runs \in [Requests -> Nat]
    /\ reply \in [Requests -> Response \cup {None}]

Init ==
    /\ sequence = 1
    /\ phase = [r \in Requests |-> "new"]
    /\ route \in {f \in [Requests -> Routes] : \A r \in Requests : f[r] \in Asks[r]}
    /\ id = [r \in Requests |-> 0]
    /\ who = [r \in Requests |-> Anonymous]
    /\ scope = [r \in Requests |-> [id |-> 0, who |-> Anonymous]]
    /\ at = [r \in Requests |-> [layer |-> 1, next |-> 0]]
    /\ frames = [r \in Requests |-> <<>>]
    /\ spent = [r \in Requests |-> {}]
    /\ passed = [r \in Requests |-> {}]
    /\ refused = [r \in Requests |-> FALSE]
    /\ runs = [r \in Requests |-> 0]
    /\ reply = [r \in Requests |-> None]

-----------------------------------------------------------------------------
\* A route that is missing is answered below the middlewares; the router of
\* another library has no pipeline of its own.
Depth(rt) == CASE Kind[rt] = "missing" -> 1
               [] Kind[rt] = "plain" -> 2
               [] Kind[rt] = "controller" -> 3

Wrappers(l, rt) == IF l = 1 THEN Middlewares ELSE Interceptors[l][rt]

Filters(l) == IF l = 3 THEN {"route"} ELSE {"global"}

Respond(error, from, filters) == [error |-> error, from |-> from, filters |-> filters]

Goto(r, p) == phase' = [phase EXCEPT ![r] = p]

\* A response goes to the wrapper the request is in, or leaves the chain.
Deliver(r, response) ==
    /\ reply' = [reply EXCEPT ![r] = response]
    /\ Goto(r, IF frames[r] = <<>> THEN "leaving" ELSE "inside")

\* Fault: the request's values go to a container that all requests share.
ReceiveShared(r) ==
    /\ phase[r] = "new"
    /\ id' = [id EXCEPT ![r] = sequence]
    /\ sequence' = sequence + 1
    /\ scope' = [q \in Requests |-> [scope[q] EXCEPT !.id = sequence]]
    /\ Goto(r, "resolving")
    /\ UNCHANGED <<route, who, at, frames, spent, history, reply>>

\* request_context_middleware: a scoped container and an id of its own.
Receive(r) ==
    /\ phase[r] = "new"
    /\ id' = [id EXCEPT ![r] = sequence]
    /\ sequence' = sequence + 1
    /\ scope' = [scope EXCEPT ![r].id = sequence]
    /\ Goto(r, "resolving")
    /\ UNCHANGED <<route, who, at, frames, spent, history, reply>>

\* The auth resolver answered: the identity goes to the scope and to the
\* extensions, and the request enters the chain.
Identify(r) ==
    /\ phase[r] = "resolving"
    /\ \E i \in Identities \cup {Anonymous} :
          /\ who' = [who EXCEPT ![r] = i]
          /\ scope' = [scope EXCEPT ![r].who = i]
    /\ Goto(r, "chain")
    /\ UNCHANGED <<sequence, route, id, at, frames, spent, history, reply>>

\* The resolver refused: its error goes through the global filters.
Reject(r) ==
    /\ phase[r] = "resolving"
    /\ refused' = [refused EXCEPT ![r] = TRUE]
    /\ Deliver(r, Respond(TRUE, "resolver", {"global"}))
    /\ UNCHANGED <<context, at, frames, spent, passed, runs>>

\* Middleware `next` is the one after those that were entered or skipped.
InChain(r) == phase[r] = "chain"
WrappersLeft(r) == at[r].next < Wrappers(at[r].layer, route[r])
NextMatches(r) == at[r].layer = 1 => at[r].next + 1 \in Matching[route[r]]

SkipMiddleware(r) ==
    /\ InChain(r) /\ WrappersLeft(r) /\ ~NextMatches(r)
    /\ at' = [at EXCEPT ![r].next = @ + 1]
    /\ UNCHANGED <<phase, frames, spent, context, history, reply>>

EnterWrapper(r) ==
    /\ InChain(r) /\ WrappersLeft(r) /\ NextMatches(r)
    /\ frames' = [frames EXCEPT ![r] =
          Append(@, [layer |-> at[r].layer, index |-> at[r].next + 1, calls |-> 0])]
    /\ Goto(r, "inside")
    /\ UNCHANGED <<at, spent, context, history, reply>>

\* The list of the layer is at its end: the one-shot next.
AtNext(r) == InChain(r) /\ ~WrappersLeft(r)

NextAgain(r) ==
    /\ AtNext(r) /\ at[r].layer \in spent[r]
    /\ Deliver(r, Respond(TRUE, "next", {}))
    /\ UNCHANGED <<at, frames, spent, context, history>>

\* Fault: next can be called any number of times.
DescendAgain(r) ==
    /\ AtNext(r) /\ at[r].layer < Depth(route[r])
    /\ spent' = [spent EXCEPT ![r] = @ \ {at[r].layer + 1}]
    /\ at' = [at EXCEPT ![r] = [layer |-> @.layer + 1, next |-> 0]]
    /\ Goto(r, "guards")
    /\ UNCHANGED <<frames, context, history, reply>>

\* Into the next layer, whose execute_pipeline makes a next of its own.
Descend(r) ==
    /\ AtNext(r) /\ at[r].layer \notin spent[r]
    /\ at[r].layer < Depth(route[r])
    /\ spent' = [spent EXCEPT ![r] = (@ \cup {at[r].layer}) \ {at[r].layer + 1}]
    /\ at' = [at EXCEPT ![r] = [layer |-> @.layer + 1, next |-> 0]]
    /\ Goto(r, "guards")
    /\ UNCHANGED <<frames, context, history, reply>>

CallHandler(r) ==
    /\ AtNext(r) /\ at[r].layer \notin spent[r]
    /\ at[r].layer = Depth(route[r])
    /\ spent' = [spent EXCEPT ![r] = @ \cup {at[r].layer}]
    /\ IF Kind[route[r]] = "missing"
       THEN Deliver(r, Respond(TRUE, "fallback", {}))
       ELSE Goto(r, "handler") /\ UNCHANGED reply
    /\ UNCHANGED <<at, frames, context, history>>

\* run_guards(): in order, up to the first that refuses.
GuardsOf(r) == GuardList[at[r].layer][route[r]]
Guarding(r) == phase[r] = "guards" /\ at[r].next < Len(GuardsOf(r))
Guard(r) == GuardsOf(r)[at[r].next + 1]

GuardPasses(r) ==
    /\ Guarding(r)
    /\ who[r] \in Admits[Guard(r)]
    /\ passed' = [passed EXCEPT ![r] = @ \cup {<<at[r].layer, at[r].next + 1>>}]
    /\ at' = [at EXCEPT ![r].next = @ + 1]
    /\ UNCHANGED <<phase, frames, spent, context, refused, runs, reply>>

\* Fault: the filters turn the guard's error into a response, and the request
\* goes on.
GuardRefusesAndGoesOn(r) ==
    /\ Guarding(r)
    /\ who[r] \notin Admits[Guard(r)] \/ Guard(r) \in Moody
    /\ refused' = [refused EXCEPT ![r] = TRUE]
    /\ at' = [at EXCEPT ![r].next = @ + 1]
    /\ UNCHANGED <<phase, frames, spent, context, passed, runs, reply>>

GuardRefuses(r) ==
    /\ Guarding(r)
    /\ who[r] \notin Admits[Guard(r)] \/ Guard(r) \in Moody
    /\ refused' = [refused EXCEPT ![r] = TRUE]
    /\ Deliver(r, Respond(TRUE, "guard", Filters(at[r].layer)))
    /\ UNCHANGED <<at, frames, spent, context, passed, runs>>

StartInterceptors(r) ==
    /\ phase[r] = "guards" /\ ~Guarding(r)
    /\ at' = [at EXCEPT ![r].next = 0]
    /\ Goto(r, "chain")
    /\ UNCHANGED <<frames, spent, context, history, reply>>

\* The handler answers, with a value or with an HttpException.
Handle(r) ==
    /\ phase[r] = "handler"
    /\ runs' = [runs EXCEPT ![r] = @ + 1]
    /\ \E error \in BOOLEAN : Deliver(r, Respond(error, "handler", {}))
    /\ UNCHANGED <<at, frames, spent, context, passed, refused>>

\* The innermost wrapper calls its next, for the first time or again.
Inner(r) == frames[r][Len(frames[r])]

\* Fault: next runs the wrapper that called it.
CallNextHere(r) ==
    /\ phase[r] = "inside" /\ frames' = [frames EXCEPT ![r] = SubSeq(@, 1, Len(@) - 1)]
    /\ at' = [at EXCEPT ![r] = [layer |-> Inner(r).layer, next |-> Inner(r).index - 1]]
    /\ Goto(r, "chain")
    /\ UNCHANGED <<spent, context, history, reply>>

CallNext(r) ==
    /\ phase[r] = "inside" /\ Inner(r).calls < MaxCalls
    /\ frames' = [frames EXCEPT ![r][Len(frames[r])].calls = @ + 1]
    /\ at' = [at EXCEPT ![r] = [layer |-> Inner(r).layer, next |-> Inner(r).index]]
    /\ Goto(r, "chain")
    /\ UNCHANGED <<spent, context, history, reply>>

\* The innermost wrapper returns: the response it got, or one of its own.
Leave(r) ==
    /\ phase[r] = "inside"
    /\ \/ Inner(r).calls > 0 /\ UNCHANGED reply
       \/ \E error \in BOOLEAN : reply' = [reply EXCEPT ![r] = Respond(error, "wrapper", {})]
    /\ frames' = [frames EXCEPT ![r] = SubSeq(@, 1, Len(@) - 1)]
    /\ Goto(r, IF Len(frames[r]) = 1 THEN "leaving" ELSE "inside")
    /\ UNCHANGED <<at, spent, context, history>>

Answer(r) ==
    /\ phase[r] = "leaving"
    /\ Goto(r, "answered")
    /\ UNCHANGED <<at, frames, spent, context, history, reply>>

\* The client closes the connection: the server drops the request's future.
Disconnect(r) ==
    /\ phase[r] \notin {"new", "answered", "gone"}
    /\ Goto(r, "gone")
    /\ UNCHANGED <<at, frames, spent, context, history, reply>>

Proceed(r) ==
    \/ Identify(r) \/ Reject(r)
    \/ SkipMiddleware(r) \/ EnterWrapper(r) \/ NextAgain(r)
    \/ Descend(r) \/ CallHandler(r)
    \/ GuardPasses(r) \/ GuardRefuses(r) \/ StartInterceptors(r)
    \/ Handle(r) \/ CallNext(r) \/ Leave(r) \/ Answer(r)

Next == \E r \in Requests : Receive(r) \/ Proceed(r) \/ Disconnect(r)

Spec == Init /\ [][Next]_vars

\* The task of a request is polled until it is done; application code returns.
FairSpec == Spec /\ \A r \in Requests : WF_vars(Proceed(r))

-----------------------------------------------------------------------------
(***************************************************************************)
(* Properties.                                                             *)
(***************************************************************************)
AllGuards(r) ==
    UNION {{<<l, i>> : i \in 1..Len(GuardList[l][route[r]])} : l \in 2..Depth(route[r])}

\* A handler runs only when every guard, of the application and of the route,
\* has let this very request through with the identity that it now carries.
GuardedHandler ==
    \A r \in Requests : phase[r] = "handler" \/ runs[r] > 0 =>
        /\ passed[r] = AllGuards(r)
        /\ \A g \in AllGuards(r) : who[r] \in Admits[GuardList[g[1]][route[r]][g[2]]]

\* However often middlewares and interceptors call next, the handler of a
\* request runs at most once: the retries get an error.
HandlerRunsOnce == \A r \in Requests : runs[r] + (IF phase[r] = "handler" THEN 1 ELSE 0) <= 1

\* A refusal is final: no wrapper can bring a request to its handler by trying
\* again after a guard, or the resolver, has refused it.
RefusalIsFinal == \A r \in Requests : refused[r] => phase[r] # "handler" /\ runs[r] = 0

\* While the requests are served side by side, each one's container and
\* extensions tell of that request alone.
OwnContext ==
    \A r \in Requests : phase[r] \notin {"new", "resolving"} =>
        /\ scope[r] = [id |-> id[r], who |-> who[r]]
        /\ \A q \in Requests : q # r => id[q] # id[r]

\* A handler runs inside every middleware that matches its route and every
\* interceptor, in their order.
\* (factory.rs: "Global interceptors wrap *every* route handler.")
HandlerIsWrapped ==
    \A r \in Requests : phase[r] = "handler" =>
        LET rt == route[r]
            around == {<<1, i>> : i \in Matching[rt]} \cup
                UNION {{<<l, i>> : i \in 1..Interceptors[l][rt]} : l \in 2..Depth(rt)}
            Before(f, g) == f.layer < g.layer \/ (f.layer = g.layer /\ f.index < g.index)
        IN
        /\ {<<frames[r][i].layer, frames[r][i].index>> : i \in 1..Len(frames[r])} = around
        /\ \A i, j \in 1..Len(frames[r]) : i < j => Before(frames[r][i], frames[r][j])

\* A request that was received is answered, unless its client goes away.
Answered == \A r \in Requests : phase[r] = "resolving" ~> phase[r] \in {"answered", "gone"}

\* A refusal that reaches the client went through the exception filters of the
\* layer that refused; no wrapper can slip one past them.
RefusalIsFiltered ==
    \A r \in Requests : phase[r] = "answered" /\ reply[r].from \in {"guard", "resolver"} =>
        reply[r].filters # {}

\* Guards have the last word, in every order of the layers and of the requests.
GuardsDecide == TypeOK /\ GuardedHandler /\ RefusalIsFinal /\ RefusalIsFiltered

\* However the wrappers behave, the handler runs once, and inside all of them.
HandlerRunsWrapped == HandlerRunsOnce /\ HandlerIsWrapped

=============================================================================
