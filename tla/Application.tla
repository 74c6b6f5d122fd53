---------------------------- MODULE Application ----------------------------
(***************************************************************************)
(* The life of an application: NestForgeFactory (nestforge-http),          *)
(* NestForgeGrpcFactory (nestforge-grpc) and TestFactory/TestingModule     *)
(* (nestforge-testing) drive the walk of ModuleGraph and then the four     *)
(* lists of lifecycle hooks that it collected.                             *)
(*                                                                         *)
(* create()/build() walk the modules, run the module_init hooks and the    *)
(* application_bootstrap hooks.  listen() serves, and when serving ends    *)
(* runs the module_destroy and application_shutdown hooks; a TestingModule *)
(* has shutdown() for that, which may be called any number of times.  A    *)
(* hook that returns an error ends its list and the call it runs in.       *)
(* What builds documentation from an application walks its modules too,    *)
(* and does nothing more.                                                  *)
(*                                                                         *)
(* The transport's serve future and the delivery of signals are not under  *)
(* src/.  No code there installs a handler for SIGINT, or passes a         *)
(* graceful shutdown to the server, so Ctrl+C ends the process.            *)
(***************************************************************************)
EXTENDS ModuleGraph, SequencesExt

CONSTANTS
    HookCount,      \* HookCount[r][p]: how many hooks module r declares for phase p
    MaxShutdowns    \* bound on the calls of TestingModule::shutdown

Phases == {"init", "bootstrap", "destroy", "shutdown"}

ASSUME ApplicationAssumption ==
    /\ HookCount \in [Refs -> [Phases -> Nat]]
    /\ MaxShutdowns \in Nat

VARIABLES
    hooks,       \* hooks[p]: the hooks for phase p that the walk collected
    entry,       \* who walks: a "server", a "testing" module, the "docs"
    stage,       \* what it does: a phase of hooks, or one of the stages below
    todo,        \* the hooks left in the list that is running
    ran,         \* ran[p]: the hooks of the latest run of phase p, in order
    shutdowns    \* calls of TestingModule::shutdown so far

hostVars == <<entry, stage, todo, ran, shutdowns>>
walked == <<graphVars, hooks>>
appVars == <<walked, hostVars>>

Hook == Refs \X (Nat \ {0})

\* "walking" the modules; "ready" after create(); "serving"; "stopped" after
\* listen() returned Ok, "failed" after an Err, "killed" by a signal.
Stages == Phases \cup {"walking", "ready", "serving", "stopped", "failed",
                       "killed", "described"}

AppTypeOK ==
    /\ TypeOK
    /\ hooks \in [Phases -> Seq(Hook)]
    /\ entry \in {"server", "testing", "docs"}
    /\ stage \in Stages
    /\ todo \in Seq(Hook)
    /\ ran \in [Phases -> Seq(Hook)]
    /\ shutdowns \in 0..MaxShutdowns
    /\ todo # <<>> => stage \in Phases

\* Only a test overrides types before the walk.
AppInit ==
    /\ Init
    /\ hooks = [p \in Phases |-> <<>>]
    /\ entry \in {"server", "testing", "docs"}
    /\ entry = "docs" <=> walk = "describe"
    /\ entry = "server" => overridden = {}
    /\ stage = "walking"
    /\ todo = <<>>
    /\ ran = [p \in Phases |-> <<>>]
    /\ shutdowns = 0

-----------------------------------------------------------------------------
\* The four lists of hooks of module r.
ModuleHooks(r, p) == [k \in 1..HookCount[r][p] |-> <<r, k>>]

\* The visit that ends adds its module's hooks to the lists.
Walk ==
    /\ stage = "walking"
    /\ Next
    /\ hooks' = IF collected' = collected THEN hooks
                ELSE [p \in Phases |-> hooks[p] \o ModuleHooks(Top.ref, p)]
    /\ UNCHANGED hostVars

\* Fault: the hooks of every phase run in the order of the walk.
HookListForward(p) == hooks[p]

\* The list initialize_module_runtime leaves for a phase: the hooks in the order
\* of the walk, and turned round for the two phases of teardown.
HookList(p) == IF p \in {"destroy", "shutdown"} THEN Reverse(hooks[p]) ELSE hooks[p]

Run(p) ==
    /\ stage' = p
    /\ todo' = HookList(p)
    /\ ran' = [ran EXCEPT ![p] = <<>>]

\* initialize_module_runtime returned, with an error or with the runtime.
WalkFailed ==
    /\ stage = "walking" /\ outcome \notin {"walking", "done"}
    /\ stage' = "failed"
    /\ UNCHANGED <<walked, entry, todo, ran, shutdowns>>

\* collect_module_route_docs or collect_module_graph returned.
Described ==
    /\ stage = "walking" /\ outcome = "done" /\ entry = "docs"
    /\ stage' = "described"
    /\ UNCHANGED <<walked, entry, todo, ran, shutdowns>>

RunModuleInit ==
    /\ stage = "walking" /\ outcome = "done" /\ entry # "docs"
    /\ Run("init")
    /\ UNCHANGED <<walked, entry, shutdowns>>

RunHook ==
    /\ stage \in Phases /\ todo # <<>>
    /\ todo' = Tail(todo)
    /\ ran' = [ran EXCEPT ![stage] = Append(@, Head(todo))]
    /\ UNCHANGED <<walked, entry, stage, shutdowns>>

\* Fault: after an error the list is run again from its start.
HookFailureRetried ==
    /\ stage \in Phases /\ todo # <<>>
    /\ Run(stage)
    /\ UNCHANGED <<walked, entry, shutdowns>>

\* A hook's error goes up to the caller of create(), listen() or shutdown();
\* only a TestingModule is still there afterwards.
HookFails ==
    /\ stage \in Phases /\ todo # <<>>
    /\ todo' = <<>>
    /\ stage' = IF entry = "testing" /\ stage \in {"destroy", "shutdown"}
                THEN "ready" ELSE "failed"
    /\ UNCHANGED <<walked, entry, ran, shutdowns>>

RunApplicationBootstrap ==
    /\ stage = "init" /\ todo = <<>>
    /\ Run("bootstrap")
    /\ UNCHANGED <<walked, entry, shutdowns>>

Created ==
    /\ stage = "bootstrap" /\ todo = <<>>
    /\ stage' = "ready"
    /\ UNCHANGED <<walked, entry, todo, ran, shutdowns>>

\* listen(): bind the address and serve.
Listen ==
    /\ stage = "ready" /\ entry = "server"
    /\ stage' \in {"serving", "failed"}
    /\ UNCHANGED <<walked, entry, todo, ran, shutdowns>>

\* The serve future ended: with Ok the teardown begins, with an error listen()
\* returns it at once.
ServeReturns ==
    /\ stage = "serving"
    /\ Run("destroy")
    /\ UNCHANGED <<walked, entry, shutdowns>>

ServeFails ==
    /\ stage = "serving"
    /\ stage' = "failed"
    /\ UNCHANGED <<walked, entry, todo, ran, shutdowns>>

Interrupt ==
    /\ stage = "serving"
    /\ stage' = "killed"
    /\ UNCHANGED <<walked, entry, todo, ran, shutdowns>>

\* TestingModule::shutdown
Shutdown ==
    /\ stage = "ready" /\ entry = "testing"
    /\ shutdowns < MaxShutdowns
    /\ shutdowns' = shutdowns + 1
    /\ Run("destroy")
    /\ UNCHANGED <<walked, entry>>

RunApplicationShutdown ==
    /\ stage = "destroy" /\ todo = <<>>
    /\ Run("shutdown")
    /\ UNCHANGED <<walked, entry, shutdowns>>

Stopped ==
    /\ stage = "shutdown" /\ todo = <<>>
    /\ stage' = IF entry = "testing" THEN "ready" ELSE "stopped"
    /\ UNCHANGED <<walked, entry, todo, ran, shutdowns>>

\* The steps the program takes by itself once it is called.
Proceed ==
    \/ Walk \/ WalkFailed \/ Described \/ RunModuleInit \/ RunHook \/ HookFails
    \/ RunApplicationBootstrap \/ Created
    \/ RunApplicationShutdown \/ Stopped

AppNext ==
    \/ Proceed \/ Listen \/ ServeReturns \/ ServeFails \/ Interrupt \/ Shutdown

AppSpec == AppInit /\ [][AppNext]_appVars

\* Nobody has to call listen() or shutdown(), and serving may go on for ever.
FairAppSpec == AppSpec /\ WF_appVars(Proceed)

-----------------------------------------------------------------------------
(***************************************************************************)
(* Properties.                                                             *)
(***************************************************************************)
HasRun(p, h) == \E i \in 1..Len(ran[p]) : ran[p][i] = h
HooksOf(p, r) == {<<r, k>> : k \in 1..HookCount[r][p]}
AllRan(p, r) == \A h \in HooksOf(p, r) : HasRun(p, h)
Collected == {collected[i] : i \in 1..Len(collected)}

\* While the application comes up, a module's hooks run when those of every
\* module it depends on have, and a module's own hooks run in their order.
StartsInOrder ==
    \A p \in {"init", "bootstrap"} : \A i \in 1..Len(ran[p]) :
        LET h == ran[p][i] IN
        /\ \A q \in Dependencies(h[1]) : AllRan(p, q)
        /\ \A k \in 1..(h[2] - 1) : HasRun(p, <<h[1], k>>)

\* On the way down it is the other way round: a module is destroyed when every
\* module that depends on it is, in each run of the teardown.
StopsInReverse ==
    \A p \in {"destroy", "shutdown"} : \A i \in 1..Len(ran[p]) :
        \A q \in Collected : ran[p][i][1] \in Dependencies(q) => AllRan(p, q)

\* Whatever failed before, a stage is reached only over lists of hooks that ran
\* to their end: bootstrap hooks find every module initialized, an application
\* serves only when all its modules came up, a shutdown hook runs when every
\* destroy hook of the same teardown has run, and a listen() that returned Ok ran
\* both lists of the teardown.
ListsComplete ==
    LET Ran(p) == \A r \in Collected : AllRan(p, r)
        up == {"ready", "serving", "destroy", "shutdown", "stopped"}
    IN
    /\ stage \in up \cup {"bootstrap"} => Ran("init")
    /\ stage \in up => Ran("bootstrap")
    /\ stage \in {"shutdown", "stopped"} => Ran("destroy")
    /\ stage = "stopped" => Ran("shutdown")

\* Whatever the import graph, whichever factory or hook fails, in a repeated
\* teardown too.  (Modules are told apart by name: of two that share one, the
\* walk takes in one.)
HooksAreOrdered ==
    /\ AppTypeOK
    /\ NamesAreDistinct => StartsInOrder /\ StopsInReverse
    /\ ListsComplete

\* Every walk ends, cycles included, and create() returns, with the application
\* or with an error.
CreateReturns == stage = "walking" ~> stage \in {"ready", "failed", "described"}

=============================================================================
