-------------------------- MODULE MessageDispatch --------------------------
(***************************************************************************)
(* Patterns, messages and events (nestforge-microservices/src/lib.rs) and  *)
(* the three ways in which they arrive: the frames of a WebSocket          *)
(* connection (nestforge-websockets/src/lib.rs, with the gateway loop of   *)
(* examples/hello-nestforge-websockets), a gRPC call                       *)
(* (nestforge-grpc/src/lib.rs) and a call of the in-process client.        *)
(*                                                                         *)
(* A session is a connection or one call.  What it asks are frames, and a  *)
(* frame, with its metadata, is known by its number.  A connection has     *)
(* the container of the HTTP request that opened it; a gRPC call has the   *)
(* root container, and an in-process call the one its client was made      *)
(* with.                                                                   *)
(***************************************************************************)
EXTENDS Naturals, Sequences, FiniteSets, FiniteSetsExt

CONSTANTS
    Connections,       \* WebSocket connections; also names their containers
    Calls,             \* gRPC and in-process calls
    Stuck,             \* connections a handler of which may never return
    Root,              \* the root container
    Patterns, Users, None,
    MaxRegistrations,  \* bound on the calls of the registry's builder
    MaxFrames          \* bound on the frames of all sessions

ASSUME DispatchAssumption ==
    /\ MaxRegistrations \in Nat /\ MaxFrames \in Nat
    /\ Stuck \subseteq Connections
    /\ Connections \cap Calls = {} /\ Root \notin Connections \cup Calls
    /\ None \notin Nat \cup Users \cup Connections \cup {Root}

Sessions == Connections \cup Calls
Containers == Connections \cup {Root}
Kinds == {"message", "event"}

Request == [kind : Kinds, pattern : Patterns]
Close == [kind |-> "close"]
Other == [kind |-> "other"]    \* a ping, or text that is no frame
Frame == Request \cup {Close, Other}

Results == {"running", "ok", "failed", "dropped"}
Context == [request : Containers, identity : Users \cup {None}]
Numbers == Nat \ {0}
Run == [frame : Numbers, handler : 1..MaxRegistrations,
        context : Context, result : Results]
Reply == [to : Numbers \cup {None}, ok : BOOLEAN]

VARIABLES
    registered,     \* what the builder was told, in order
    built,          \* the registry is built and never changes
    home,           \* home[k]: the container of call k
    identity,       \* identity[c]: the AuthIdentity in container c
    loggedIn,       \* history: how many handlers of c had run by then
    badge,          \* badge[c]: the identity a WebSocketContext copied
    at,             \* at[s]: where session s is
    sent,           \* sent[s]: the frames of its client
    taken,          \* taken[s]: how many of them were taken off the stream
    context,        \* context[s]: the MicroserviceContext in use
    runs,           \* history: the runs of handlers for s
    replies         \* replies[s]: what its client was told

registry == <<registered, built>>
vars == <<registry, home, identity, loggedIn, badge, at, sent, taken, context, runs, replies>>

Init == /\ registered = <<>> /\ built = FALSE
        /\ home \in [Calls -> Containers]
        /\ identity = [c \in Containers |-> None]
        /\ loggedIn = [c \in Connections |-> None]
        /\ badge = [c \in Connections |-> None]
        /\ at = [s \in Sessions |-> "new"]
        /\ sent = [s \in Sessions |-> <<>>]
        /\ taken = [s \in Sessions |-> 0]
        /\ context = [s \in Sessions |-> None]
        /\ runs = [s \in Sessions |-> <<>>]
        /\ replies = [s \in Sessions |-> <<>>]

FramesLeft == MapThenSumSet(LAMBDA s : Len(sent[s]), Sessions) < MaxFrames

Go(s, place) == at' = [at EXCEPT ![s] = place]

-----------------------------------------------------------------------------
(* The registry *)

Register(kind, pattern) ==
    /\ ~built /\ Len(registered) < MaxRegistrations
    /\ registered' = Append(registered, [kind |-> kind, pattern |-> pattern])
    /\ UNCHANGED <<built, home, identity, loggedIn, badge, at, sent, taken, context, runs, replies>>

Build ==
    /\ ~built
    /\ built' = TRUE
    /\ UNCHANGED <<registered, home, identity, loggedIn, badge, at, sent, taken, context, runs, replies>>

Candidates(frame) ==
    {i \in DOMAIN registered : registered[i] = frame}

\* A map for messages and one for events: the later insert replaces the earlier.
Handler(frame) == Max(Candidates(frame))

-----------------------------------------------------------------------------
(* Contexts *)

\* An identity is put into the container of a request by the application: a
\* middleware before the upgrade, or a handler later.
Login(c, user) ==
    /\ built /\ at[c] \in {"new", "running"} /\ identity[c] = None
    /\ identity' = [identity EXCEPT ![c] = user]
    /\ loggedIn' = [loggedIn EXCEPT ![c] = Len(runs[c])]
    /\ UNCHANGED <<registry, home, badge, at, sent, taken, context, runs, replies>>

Home(s) == IF s \in Connections THEN s ELSE home[s]

\* what the connection was opened with
ContextAtUpgrade(s) ==
    [request |-> Home(s),
     identity |-> IF s \in Connections THEN badge[s] ELSE identity[Home(s)]]

\* MicroserviceContext::new copies what the container holds at that moment
ContextOf(s) == [request |-> Home(s), identity |-> identity[Home(s)]]

-----------------------------------------------------------------------------
(* Dispatch, and what the client is told of it *)

\* tells of success whatever happened
ToldOk(s, n, ok) == <<[to |-> n, ok |-> TRUE]>>

\* A connection is not told that an event was handled, and an error does not
\* say which frame it is about.
Told(s, n, ok) ==
    IF s \in Calls THEN <<[to |-> n, ok |-> ok]>>
    ELSE IF ~ok THEN <<[to |-> None, ok |-> FALSE]>>
    ELSE IF sent[s][n].kind = "event" THEN <<>>
    ELSE <<[to |-> n, ok |-> TRUE]>>

Settle(s, n, ok) ==
    /\ replies' = [replies EXCEPT ![s] = @ \o Told(s, n, ok)]
    /\ Go(s, IF s \in Calls THEN "answered" ELSE "open")

\* Looks the pattern up and calls the handler.  Without a handler, or with a
\* payload that does not serialize or does not fit the handler's type, nothing
\* of the application runs.
Dispatch(s, n, frame, ctx) ==
    \/ /\ Candidates(frame) # {}
       /\ runs' = [runs EXCEPT ![s] = Append(@,
              [frame |-> n, handler |-> Handler(frame), context |-> ctx, result |-> "running"])]
       /\ Go(s, "running")
       /\ UNCHANGED replies
    \/ /\ Settle(s, n, FALSE)
       /\ UNCHANGED runs

\* The handler's future completes.  A message still has to be turned into
\* the answer, and for the in-process client into the type it expects.
Return(s, result) ==
    LET last == Len(runs[s])
        n == runs[s][last].frame IN
    /\ at[s] = "running"
    /\ runs' = [runs EXCEPT ![s][last].result = result]
    /\ \E ok \in IF result = "failed" THEN {FALSE}
                 ELSE IF sent[s][n].kind = "event" THEN {TRUE} ELSE BOOLEAN :
           Settle(s, n, ok)
    /\ UNCHANGED <<registry, home, identity, loggedIn, badge, sent, taken, context>>

-----------------------------------------------------------------------------
(* WebSocket connections *)

Upgrade(c) ==
    /\ built /\ at[c] = "new"
    /\ badge' = [badge EXCEPT ![c] = identity[c]]
    /\ Go(c, "open")
    /\ UNCHANGED <<registry, home, identity, loggedIn, sent, taken, context, runs, replies>>

\* the client, until it says that it closes
SendFrame(c, frame) ==
    /\ at[c] \in {"open", "running"}
    /\ FramesLeft
    /\ \A i \in DOMAIN sent[c] : sent[c][i] # Close
    /\ sent' = [sent EXCEPT ![c] = Append(@, frame)]
    /\ UNCHANGED <<registry, home, identity, loggedIn, badge, at, taken, context, runs, replies>>

Pending(c) == taken[c] < Len(sent[c])
\* one lock for the handlers of all connections
ListeningAlone(c) ==
    at[c] = "open" /\ Pending(c) /\ \A d \in Connections : at[d] # "running"

Listening(c) == at[c] = "open" /\ Pending(c)

\* the frame that came last
NewestFrame(c) == Len(sent[c])

NextFrame(c) == taken[c] + 1

\* the loop of the gateway: one frame, to its end, after the other
Receive(c) ==
    LET n == NextFrame(c)
        frame == sent[c][n] IN
    /\ Listening(c)
    /\ taken' = [taken EXCEPT ![c] = @ + 1]
    /\ \/ /\ frame = Close
          /\ Go(c, "closed")
          /\ UNCHANGED <<context, runs, replies>>
       \/ /\ frame = Other
          /\ Settle(c, n, FALSE)
          /\ UNCHANGED <<context, runs>>
       \/ /\ frame \in Request
          /\ context' = [context EXCEPT ![c] = ContextOf(c)]
          /\ Dispatch(c, n, frame, ContextOf(c))
    /\ UNCHANGED <<registry, home, identity, loggedIn, badge, sent>>

\* The stream ends or fails while the gateway waits for a frame.
Lose(c) ==
    /\ at[c] = "open"
    /\ Go(c, "closed")
    /\ UNCHANGED <<registry, home, identity, loggedIn, badge, sent, taken, context, runs, replies>>

-----------------------------------------------------------------------------
(* Calls *)

Ask(k, frame) ==
    /\ built /\ at[k] = "new" /\ FramesLeft
    /\ sent' = [sent EXCEPT ![k] = <<frame>>]
    /\ taken' = [taken EXCEPT ![k] = 1]
    /\ context' = [context EXCEPT ![k] = ContextOf(k)]

\* GrpcContext: every call of the server has the application's container
GrpcHome == Root

\* dispatch_grpc_message and dispatch_grpc_event make the context and dispatch
\* in one step of their future.
GrpcCall(k, frame) ==
    /\ Ask(k, frame) /\ home[k] = GrpcHome
    /\ Dispatch(k, 1, frame, ContextOf(k))
    /\ UNCHANGED <<registry, home, identity, loggedIn, badge>>

\* send and emit of the in-process client make it when they are called...
ClientCall(k, frame) ==
    /\ Ask(k, frame)
    /\ Go(k, "made")
    /\ UNCHANGED <<registry, home, identity, loggedIn, badge, runs, replies>>

\* ... and dispatch when their future is first polled.
Poll(k) ==
    /\ at[k] = "made"
    /\ Dispatch(k, 1, sent[k][1], context[k])
    /\ UNCHANGED <<registry, home, identity, loggedIn, badge, sent, taken, context>>

\* The caller drops the future, and with it the handler's.
Drop(k) ==
    /\ at[k] \in {"made", "running"}
    /\ Go(k, "dropped")
    /\ runs' = [runs EXCEPT ![k] =
                    [i \in DOMAIN @ |-> [@[i] EXCEPT !.result = "dropped"]]]
    /\ UNCHANGED <<registry, home, identity, loggedIn, badge, sent, taken, context, replies>>

-----------------------------------------------------------------------------
Returns(s) == \E result \in {"ok", "failed"} : Return(s, result)

Next ==
    \/ \E kind \in Kinds, pattern \in Patterns : Register(kind, pattern)
    \/ Build
    \/ \E s \in Sessions : Returns(s)
    \/ \E c \in Connections :
          \/ \E user \in Users : Login(c, user)
          \/ Upgrade(c) \/ Receive(c) \/ Lose(c)
          \/ \E frame \in Frame : SendFrame(c, frame)
    \/ \E k \in Calls :
          \/ \E frame \in Request : GrpcCall(k, frame) \/ ClientCall(k, frame)
          \/ Poll(k) \/ Drop(k)

\* A connection is a task of its own; its handlers return unless it is stuck.
Fairness == \A c \in Connections :
    /\ WF_vars(Receive(c))
    /\ c \notin Stuck => WF_vars(Returns(c))

Spec == Init /\ [][Next]_vars
FairSpec == Spec /\ Fairness

-----------------------------------------------------------------------------
(* Properties *)

TypeOK ==
    /\ registered \in Seq(Request) /\ built \in BOOLEAN
    /\ home \in [Calls -> Containers]
    /\ identity \in [Containers -> Users \cup {None}]
    /\ loggedIn \in [Connections -> Nat \cup {None}]
    /\ badge \in [Connections -> Users \cup {None}]
    /\ at \in [Sessions -> {"new", "open", "made", "running", "answered", "dropped", "closed"}]
    /\ \A s \in Sessions :
          /\ sent[s] \in Seq(Frame) /\ taken[s] \in 0..Len(sent[s])
          /\ context[s] \in Context \cup {None}
          /\ runs[s] \in Seq(Run) /\ replies[s] \in Seq(Reply)

\* A frame is handled by the handler that was registered last for its kind and
\* its pattern, with the container of its own session, at most once; a handler
\* that was not dropped ends before its session goes on
\* (MicroserviceRegistryBuilder::message, dispatch_message, microservice_context).
RunsAreOwn ==
    \A s \in Sessions : \A i \in DOMAIN runs[s] :
        LET run == runs[s][i]
            frame == sent[s][run.frame] IN
        /\ registered[run.handler] = frame
        /\ \A later \in run.handler + 1 .. Len(registered) :
              registered[later] # registered[run.handler]
        /\ run.context.request = Home(s)
        /\ \A j \in DOMAIN runs[s] : i < j => run.frame < runs[s][j].frame
        /\ run.result = "running" <=> (at[s] = "running" /\ i = Len(runs[s]))

\* From the moment at which a connection's client is logged in, and not before,
\* every handler of its frames sees who it is, and none sees a user of another
\* connection (MicroserviceContext::new resolves the identity anew for every
\* frame; the WebSocketContext keeps the one it was opened with).
LoginIsSeen ==
    \A c \in Connections : \A i \in DOMAIN runs[c] :
        runs[c][i].context.identity =
            IF loggedIn[c] # None /\ i > loggedIn[c] THEN identity[c] ELSE None

\* A client is told of success only if a handler has finished its frame
\* successfully, and a frame no handler started is answered with an error or
\* not at all (handle_websocket_microservice_message, dispatch_grpc_message,
\* InProcessMicroserviceClient::send and emit).
SuccessIsReal ==
    \A s \in Sessions : \A i \in DOMAIN replies[s] :
        replies[s][i].ok =>
            /\ Cardinality({j \in DOMAIN runs[s] : runs[s][j].frame = replies[s][i].to}) = 1
            /\ \A j \in DOMAIN runs[s] :
                  runs[s][j].frame = replies[s][i].to => runs[s][j].result = "ok"

\* Whatever is registered, sent and dropped, in any order of the sessions.
HandlersAreServed == TypeOK /\ RunsAreOwn /\ LoginIsSeen

Settled(c) == IF at[c] = "running" THEN taken[c] - 1 ELSE taken[c]

\* The frames of a connection are settled one by one in their order, however
\* its loop, its client and the other sessions interleave.
Fifo == INSTANCE FifoService WITH
    Clients <- Connections,
    asked <- [c \in Connections |-> Len(sent[c])],
    settled <- [c \in Connections |-> Settled(c)],
    answers <- [c \in Connections |-> replies[c]]
AnswersInOrder == Fifo!Spec

\* A frame that was sent is settled or its connection ends, though a handler of
\* another connection hangs for good: no lock is held across a handler.
FramesSettle ==
    \A c \in Connections \ Stuck : \A n \in 1..MaxFrames :
        Len(sent[c]) >= n ~> (Settled(c) >= n \/ at[c] = "closed")
=============================================================================
