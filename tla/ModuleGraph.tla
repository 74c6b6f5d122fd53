---------------------------- MODULE ModuleGraph ----------------------------
(***************************************************************************)
(* The walk over the imports of a module (nestforge-core/src/module.rs).   *)
(*                                                                         *)
(* visit_module walks the graph of ModuleRefs depth first: it visits the   *)
(* imports of a module, then registers the module's providers, then takes  *)
(* over its controllers and hooks, then checks its exports.  Modules are   *)
(* told apart by name.  visit_module_docs and visit_module_graph are the   *)
(* same walk without providers and exports.                                *)
(*                                                                         *)
(* The recursion is the variable `calls`: one frame per running call, the  *)
(* outermost first.  Every step below is what one call does between two    *)
(* calls.  What a module contributes (its controllers, its four lists of   *)
(* hooks, its route docs, its report entry) is added at one point of the   *)
(* walk, so one sequence of modules, `collected`, gives the order of all.  *)
(* The set of global modules is filled and read nowhere, and is left out.  *)
(***************************************************************************)
EXTENDS Naturals, Sequences

CONSTANTS
    Refs,          \* the ModuleRefs an application is made of
    Names,         \* module names
    Name,          \* Name[r]: the name of module r
    AppModule,     \* the ModuleRef the application starts from
    Types,         \* the types that modules provide
    Needs,         \* Needs[ty]: the types that the provider of ty resolves
    Applications   \* the module graphs to consider

ModuleRef == [imports: Seq(Refs), providers: Seq(Types), exports: SUBSET Types]

ASSUME ModuleGraphAssumption ==
    /\ Name \in [Refs -> Names]
    /\ AppModule \in Refs
    /\ Needs \in [Types -> SUBSET Types]
    /\ Applications \subseteq [Refs -> ModuleRef]

VARIABLES
    modules,      \* modules[r]: what ModuleRef r declares
    walk,         \* "register" for visit_module, "describe" for the other two
    overridden,   \* types that a test overrode before the walk
    singletons,   \* types registered in the container
    calls,        \* the calls that are running, outermost first
    visiting,     \* names of the modules that are being visited
    visited,      \* names of the modules that have been visited
    collected,    \* the modules that contributed, in order
    outcome       \* "walking", "done", or the error that ended the walk

graphVars == <<modules, walk, overridden, singletons, calls, visiting,
               visited, collected, outcome>>

Frame == [ref: Refs, imported: Nat, provided: Nat]

Outcomes == {"walking", "done", "cycle", "duplicate", "missing", "failed", "export"}

TypeOK ==
    /\ modules \in [Refs -> ModuleRef]
    /\ walk \in {"register", "describe"}
    /\ overridden \subseteq Types
    /\ singletons \subseteq Types
    /\ calls \in Seq(Frame)
    /\ visiting \subseteq Names
    /\ visited \subseteq Names
    /\ collected \in Seq(Refs)
    /\ outcome \in Outcomes

Call(r) == [ref |-> r, imported |-> 0, provided |-> 0]

Init ==
    /\ modules \in Applications
    /\ walk \in {"register", "describe"}
    /\ overridden \in SUBSET Types
    /\ walk = "describe" => overridden = {}
    /\ singletons = {}
    /\ calls = <<Call(AppModule)>>
    /\ visiting = {Name[AppModule]}
    /\ visited = {}
    /\ collected = <<>>
    /\ outcome = "walking"

-----------------------------------------------------------------------------
Top == calls[Len(calls)]
This == modules[Top.ref]

Walking == outcome = "walking"

\* is_type_registered_name(): an override names its type as well.
Registered(ty) == ty \in singletons \cup overridden

ImportsLeft == Walking /\ Top.imported < Len(This.imports)
NextImport == This.imports[Top.imported + 1]

\* The walk is past the imports of the module it is in.
Registering == Walking /\ ~ImportsLeft

ProvidersLeft ==
    Registering /\ walk = "register" /\ Top.provided < Len(This.providers)
NextProvider == This.providers[Top.provided + 1]

Complete == Registering /\ ~ProvidersLeft

Fail(error) ==
    /\ outcome' = error
    /\ UNCHANGED <<modules, walk, overridden, singletons, calls, visiting,
                   visited, collected>>

\* The import has been visited, by way of another module: nothing to do.
SkipVisited ==
    /\ ImportsLeft
    /\ Name[NextImport] \in visited
    /\ calls' = [calls EXCEPT ![Len(calls)].imported = @ + 1]
    /\ UNCHANGED <<modules, walk, overridden, singletons, visiting, visited,
                   collected, outcome>>

\* The import is being visited further up: bail out with the cycle.
DetectCycle ==
    /\ ImportsLeft
    /\ Name[NextImport] \in visiting \ visited
    /\ Fail("cycle")

\* Fault: a module counts as visited as soon as its visit begins.
VisitedOnEntry ==
    /\ ImportsLeft /\ Name[NextImport] \notin visiting \cup visited
    /\ calls' = Append([calls EXCEPT ![Len(calls)].imported = @ + 1], Call(NextImport))
    /\ visited' = visited \cup {Name[NextImport]}
    /\ UNCHANGED <<modules, walk, overridden, singletons, visiting, collected, outcome>>

VisitImport ==
    /\ ImportsLeft
    /\ Name[NextImport] \notin visiting \cup visited
    /\ calls' = Append([calls EXCEPT ![Len(calls)].imported = @ + 1], Call(NextImport))
    /\ visiting' = visiting \cup {Name[NextImport]}
    /\ UNCHANGED <<modules, walk, overridden, singletons, visited, collected, outcome>>

\* One provider of module.register(): its factory resolves what it needs, and
\* the value is registered unless the type already is.
RegisterProvider ==
    /\ ProvidersLeft
    /\ \A ty \in Needs[NextProvider] : Registered(ty)
    /\ NextProvider \notin singletons
    /\ singletons' = singletons \cup {NextProvider}
    /\ calls' = [calls EXCEPT ![Len(calls)].provided = @ + 1]
    /\ UNCHANGED <<modules, walk, overridden, visiting, visited, collected, outcome>>

ProviderMissesType ==
    /\ ProvidersLeft
    /\ \E ty \in Needs[NextProvider] : ~Registered(ty)
    /\ Fail("missing")

ProviderRegisteredTwice ==
    /\ ProvidersLeft
    /\ NextProvider \in singletons
    /\ Fail("duplicate")

\* The application's own factory may return an error.
ProviderFails ==
    /\ ProvidersLeft
    /\ Fail("failed")

\* The module contributes its controllers and hooks, or its docs; its exports
\* are there; its call returns, and the outermost return ends the walk.
Finish ==
    /\ Complete
    /\ walk = "register" => \A ty \in This.exports : Registered(ty)
    /\ collected' = Append(collected, Top.ref)
    /\ calls' = SubSeq(calls, 1, Len(calls) - 1)
    /\ visiting' = visiting \ {Name[Top.ref]}
    /\ visited' = visited \cup {Name[Top.ref]}
    /\ outcome' = IF Len(calls) = 1 THEN "done" ELSE "walking"
    /\ UNCHANGED <<modules, walk, overridden, singletons>>

ExportMissing ==
    /\ Complete
    /\ walk = "register"
    /\ \E ty \in This.exports : ~Registered(ty)
    /\ Fail("export")

Next ==
    \/ SkipVisited \/ DetectCycle \/ VisitImport
    \/ RegisterProvider \/ ProviderMissesType
    \/ ProviderRegisteredTwice \/ ProviderFails
    \/ Finish \/ ExportMissing

Spec == Init /\ [][Next]_graphVars

-----------------------------------------------------------------------------
(***************************************************************************)
(* Properties.                                                             *)
(***************************************************************************)
Imported(r) == {modules[r].imports[i] : i \in 1..Len(modules[r].imports)}
Provided(r) == {modules[r].providers[i] : i \in 1..Len(modules[r].providers)}

\* The modules r imports, directly or not: the smallest set that holds r's
\* imports and the imports of its own members.
Dependencies(r) ==
    {q \in Refs : \A S \in SUBSET Refs :
        Imported(r) \subseteq S /\ (\A s \in S : Imported(s) \subseteq S) => q \in S}

NamesAreDistinct == \A q, r \in Refs : Name[q] = Name[r] => q = r

\* A module contributes only after every module it imports, known by its name:
\* when its providers are registered, what they resolve is there.
\* (module.rs: "This ensures that dependencies are always ready before they're
\* needed"; ModuleDefinition::imports(): "initialized first".)
ImportsFirst ==
    \A i \in 1..Len(collected) : \A q \in Imported(collected[i]) :
        \E j \in 1..(i - 1) : Name[collected[j]] = Name[q]

\* However many modules import it, a module contributes once: its controllers
\* are merged once and its hooks run once.
ContributesOnce ==
    \A i, j \in 1..Len(collected) : Name[collected[i]] = Name[collected[j]] => i = j

\* A walk that ends well has taken in the whole application, nothing else, and
\* the application has no import cycle.
DoneIsComplete ==
    outcome = "done" /\ NamesAreDistinct =>
        LET all == {collected[i] : i \in 1..Len(collected)} IN
        /\ all = {AppModule} \cup Dependencies(AppModule)
        /\ \A r \in all : r \notin Dependencies(r)

\* An application that imports what it uses: no cycle, no type provided twice,
\* every provider's needs met by an override, an earlier provider of the module
\* or a module it imports, and every export likewise.
WellFormed ==
    LET all == {AppModule} \cup Dependencies(AppModule)
        Within(r) == (UNION {Provided(q) : q \in Dependencies(r)}) \cup overridden
    IN
    /\ NamesAreDistinct
    /\ \A r \in all :
        /\ r \notin Dependencies(r)
        /\ \A q \in all : q # r => Provided(q) \cap Provided(r) = {}
        /\ \A i, j \in 1..Len(modules[r].providers) :
              modules[r].providers[i] = modules[r].providers[j] => i = j
        /\ \A i \in 1..Len(modules[r].providers) :
              Needs[modules[r].providers[i]] \subseteq
                 Within(r) \cup {modules[r].providers[j] : j \in 1..(i - 1)}
        /\ modules[r].exports \subseteq Within(r) \cup Provided(r)

\* The order of the walk is good enough for every such application: it starts,
\* in whatever order its modules list their imports, unless one of its own
\* factories fails.
WellFormedStarts == WellFormed => outcome \in {"walking", "done", "failed"}

\* All of this for every graph of imports, cyclic ones included.
WalkIsSound == ImportsFirst /\ ContributesOnce /\ DoneIsComplete /\ WellFormedStarts


=============================================================================
