----------------------------- MODULE Generators -----------------------------
(***************************************************************************)
(* What nestforge new and nestforge generate do to the tree of an          *)
(* application (nestforge-cli/src/main.rs): files that are written, module *)
(* declarations that are added to mod.rs and lib.rs, and entries that are  *)
(* added to the lists of AppModule and of the feature modules.             *)
(*                                                                         *)
(* Every command is a sequence of steps, each of which reads and writes    *)
(* one file; the process may be killed, or a write may fail, between any   *)
(* two of them, and whoever called it may call it again.                   *)
(*                                                                         *)
(* A module of the tree is its path, a sequence of nodes; a node is what   *)
(* kind of thing it is and its name.  What is inside a file is left out,   *)
(* except for the modules it declares and the entries of its lists.        *)
(***************************************************************************)
EXTENDS Integers, Sequences, FiniteSets, SequencesExt

CONSTANTS
    Transports,      \* the transports of the applications considered
    Commands,        \* the generator commands
    None,            \* no feature module, no command
    EndsWith(_, _),  \* the first name ends with the second one
    MaxRuns          \* bound on the commands started

N(kind, name) == [kind |-> kind, name |-> name]
NewApp == N("new", None)
Folder(name) == <<N("folder", name)>>
Feature(name) == <<N("module", name)>>

Lists == {"controllers", "providers", "exports"}

(* Commands: the kind, a name, the feature module and the layout.  Only    *)
(* the kinds with parts are handed the feature, they and modules the       *)
(* layout; the others take no notice of either option.                     *)
PartKinds == {"resource", "controller", "service"}
StopKinds == {"guard", "decorator", "filter", "middleware", "interceptor"}
OtherKinds == {"serializer", "gateway", "graphql", "grpc", "microservice"}

ASSUME GeneratorsAssumption ==
    /\ Transports \subseteq {"Http", "Graphql", "Grpc", "Microservices", "Websockets"}
    /\ \A c \in Commands :
          /\ c = [kind |-> c.kind, name |-> c.name, module |-> c.module, flat |-> c.flat]
          /\ c.kind \in PartKinds \cup StopKinds \cup OtherKinds \cup {"module"}
          /\ c.flat \in BOOLEAN
          /\ c.module # None => c.kind \in PartKinds
          /\ c.flat => c.kind \in PartKinds \cup {"module"}
          /\ EndsWith(c.name, c.name)
    /\ None \notin Commands \cup {NewApp}
    /\ MaxRuns \in Nat

Parts(c) == CASE c.kind = "resource" ->
                    <<"dto", "create_dto", "update_dto", "service", "controller">>
              [] OTHER -> <<c.kind>>

Home(c) == IF c.module = None THEN <<>> ELSE Feature(c.module)

FolderName ==
    [dto |-> "dto", create_dto |-> "dto", update_dto |-> "dto", service |-> "services",
     controller |-> "controllers", guard |-> "guards", decorator |-> "decorators",
     filter |-> "filters", middleware |-> "middleware", interceptor |-> "interceptors",
     serializer |-> "serializers", gateway |-> "ws", graphql |-> "graphql",
     grpc |-> "grpc", microservice |-> "microservices", proto |-> "build"]

PathOf(c, part) ==
    LET folder == IF c.flat THEN <<>> ELSE Folder(FolderName[part]) IN
    Home(c) \o folder \o <<N(part, c.name)>>

VARIABLES
    app,         \* the transport of the application, and how much of it is there
    tree,        \* its files, declarations and lists
    running,     \* the command that is running, or None
    plan,        \* the steps it has left
    succeeded,   \* the command that has just reported success, or None
    asked,       \* every generator command started so far
    interrupted, \* those that stopped half-way, once at least
    runs         \* how many were started

vars == <<app, tree, running, plan, succeeded, asked, interrupted, runs>>

Controller(name) == <<N("controller", name)>>
Service(name) == <<N("service", name)>>

\* only the template of this transport has places for entries
HasMarkers == app.transport = "Http"

\* what the template of app_module.rs lists and imports
TemplateList(list) ==
    CASE HasMarkers /\ list = "controllers" -> <<Controller("health"), Controller("app")>>
      [] HasMarkers /\ list = "providers" -> <<Service("app")>>
      [] OTHER -> <<>>

NoLists == [list \in Lists |-> <<>>]

Init ==
    /\ app \in [transport : Transports, state : {"absent"}]
    /\ tree = [files |-> {}, declared |-> {}, rewritten |-> {}, flat |-> {}, imports |-> <<>>,
               uses |-> IF app.transport = "Http"
                        THEN {Controller("health"), Controller("app"), Service("app")} ELSE {},
               lists |-> [home \in {<<>>} \cup {Home(c) : c \in Commands} |->
                            IF home = <<>> THEN [list \in Lists |-> TemplateList(list)]
                            ELSE NoLists]]
    /\ running = None /\ plan = <<>> /\ succeeded = None
    /\ asked = {} /\ interrupted = {} /\ runs = 0

-----------------------------------------------------------------------------
(* The steps *)

File(op, path, declares) == [op |-> op, path |-> path, declares |-> declares, flat |-> {}]
Put(path, declares) == File("put", path, declares)
PutFlat(path) == [op |-> "put", path |-> path, declares |-> {}, flat |-> {path}]
Make(path, declares) == File("make", path, declares)
Declare(home, paths) == [op |-> "declare", home |-> home, paths |-> paths]
Lib(path) == [op |-> "lib", path |-> path]
WireApp(list, path) == [op |-> "wireApp", list |-> list, path |-> path]
WireFeature(c, lists) == [op |-> "wireFeature", command |-> c, lists |-> lists]
Use(path) == [op |-> "use", path |-> path]
Import(path) == [op |-> "import", path |-> path]
StopIf(path) == [op |-> "stopIf", path |-> path]
FailIf(path) == [op |-> "failIf", path |-> path]
FailUnless(path) == [op |-> "failUnless", path |-> path]

\* An entry of a feature is looked for right after the marker only
ListedFirst(entries, path) == entries # <<>> /\ entries[1] = path

\* ... an entry of AppModule in its whole text.
Listed(entries, path) == \E i \in DOMAIN entries : EndsWith(Last(entries[i]).name, Last(path).name)

Newest(entries, path) == IF HasMarkers THEN <<path>> \o entries ELSE entries

\* a folder that has a mod.rs is left as it is
DeclareOnce(t, s) ==
    LET nested == {Front(p) : p \in s.paths} \ {s.home} IN
    IF nested \ t.files # {} \/ s.home \in t.flat
    THEN [t EXCEPT !.files = @ \cup nested, !.declared = @ \cup s.paths]
    ELSE t

\* mod.rs of a nested folder is created on the way.  A feature takes flat
\* declarations only if its template had a place for them, src/ never does.
DeclareIn(t, s) ==
    LET nested == {Front(p) : p \in s.paths} \ {s.home} IN
    IF nested # {} \/ s.home \in t.flat
    THEN [t EXCEPT !.files = @ \cup nested, !.declared = @ \cup s.paths]
    ELSE t

EntryOf(c, list) == PathOf(c, IF list = "controllers" THEN "controller" ELSE "service")

\* The nested form pays no heed to what was generated.
FeatureLists(s) == IF s.command.flat THEN s.lists ELSE Lists
Wired(t, s) ==
    [t EXCEPT !.lists[Home(s.command)] =
        [list \in Lists |->
            LET entry == EntryOf(s.command, list) IN
            IF list \in FeatureLists(s) /\ ~ListedFirst(@[list], entry)
            THEN <<entry>> \o @[list] ELSE @[list]]]

Apply(t, s) ==
    CASE s.op = "make" /\ s.path \in t.files -> t
      [] s.op \in {"make", "put"} /\ ~(s.op = "make" /\ s.path \in t.files) ->
            [t EXCEPT !.files = @ \cup {s.path}, !.declared = @ \cup s.declares,
                      !.rewritten = @ \cup ({s.path} \cap t.files),
                      !.flat = @ \cup s.flat]
      [] s.op = "declare" -> DeclareIn(t, s)
      [] s.op = "lib" -> [t EXCEPT !.declared = @ \cup {s.path}]
      [] s.op = "wireApp" ->
            IF Listed(t.lists[<<>>][s.list], s.path) THEN t
            ELSE [t EXCEPT !.lists[<<>>][s.list] = Newest(@, s.path),
                           !.uses = @ \cup {s.path}]
      [] s.op = "wireFeature" -> Wired(t, s)
      [] s.op = "use" -> [t EXCEPT !.uses = @ \cup {s.path}]
      [] s.op = "import" ->
            IF Listed(t.imports, s.path) THEN t ELSE [t EXCEPT !.imports = <<s.path>> \o @]
      [] OTHER -> t

-----------------------------------------------------------------------------
(* nestforge new *)

\* The template of lib.rs, by transport
LibDeclares ==
    LET own == CASE app.transport = "Http" ->
                      {Controller("app"), Service("app"), Controller("health"),
                       Folder("guards"), Folder("interceptors")}
                 [] app.transport = "Graphql" -> {Folder("graphql")}
                 [] app.transport = "Grpc" -> {Folder("grpc")}
                 [] app.transport = "Microservices" -> {Folder("microservices")}
                 [] app.transport = "Websockets" -> {Folder("ws")}
    IN own \cup {<<N("root", "app_module")>>, <<N("root", "app_config")>>}

In(folder, kind, name) == Folder(folder) \o <<N(kind, name)>>

\* mod.rs of the folders that some generators create where they are missing
WsMod(op) == File(op, Folder("ws"), {In("ws", "gateway", "events")})
GraphqlMod(op) == File(op, Folder("graphql"), {In("graphql", "root", "schema")})
GrpcMod(op) == File(op, Folder("grpc"), {In("grpc", "root", "service")})
\* cargo runs build.rs without a declaration
GrpcBuild(op) == File(op, Folder("build"), {Folder("build"), In("build", "proto", "greeter")})

TransportFiles ==
    CASE app.transport = "Http" ->
            <<Put(Service("app"), {}), Put(Controller("app"), {}), Put(Controller("health"), {}),
              Put(Folder("guards"), {}), Put(Folder("filters"), {}),
              Put(Folder("interceptors"), {})>>
      [] app.transport = "Graphql" ->
            <<GraphqlMod("put"), Put(In("graphql", "root", "schema"), {})>>
      [] app.transport = "Grpc" ->
            <<GrpcBuild("put"), Put(In("build", "proto", "greeter"), {}), GrpcMod("put"),
              Put(In("grpc", "root", "service"), {})>>
      [] app.transport = "Microservices" ->
            <<Put(Folder("microservices"), {In("microservices", "microservice", "app")}),
              Put(In("microservices", "microservice", "app"), {})>>
      [] app.transport = "Websockets" ->
            <<WsMod("put"), Put(In("ws", "gateway", "events"), {})>>

\* lib.rs is the root of the tree.
Scaffold == <<Put(<<>>, LibDeclares), Put(<<N("root", "app_module")>>, {}),
              Put(<<N("root", "app_config")>>, {})>> \o TransportFiles

-----------------------------------------------------------------------------
(* nestforge generate *)

MakeAll(c) == [i \in DOMAIN Parts(c) |-> Make(PathOf(c, Parts(c)[i]), {})]

\* the declarations of a resource: one write for the three DTOs, one for the
\* service, one for the controller
DeclareAll(c) ==
    LET of(parts) == {PathOf(c, part) : part \in parts \cap Range(Parts(c))}
        Some(paths) == IF paths = {} THEN <<>> ELSE <<Declare(Home(c), paths)>>
    IN Some(of({"dto", "create_dto", "update_dto"})) \o Some(of({"service"}))
       \o Some(of({"controller"}))

\* outside a feature: lib.rs and AppModule
LibAll(c) ==
    [i \in DOMAIN Parts(c) |-> Lib(IF c.flat THEN PathOf(c, Parts(c)[i])
                                             ELSE Front(PathOf(c, Parts(c)[i])))]
WireAll(c) == (IF "controller" \in Range(Parts(c))
               THEN <<WireApp("controllers", PathOf(c, "controller"))>> ELSE <<>>)
              \o (IF "service" \in Range(Parts(c))
                  THEN <<WireApp("providers", PathOf(c, "service"))>> ELSE <<>>)

ListsOf(c) == (IF "controller" \in Range(Parts(c)) THEN {"controllers"} ELSE {})
              \cup (IF "service" \in Range(Parts(c)) THEN {"providers", "exports"} ELSE {})

\* resource, controller, service
PartSteps(c) ==
    (IF c.module = None THEN <<>> ELSE <<FailUnless(Home(c))>>)
    \o MakeAll(c) \o DeclareAll(c)
    \o IF c.module = None THEN LibAll(c) \o WireAll(c) ELSE <<WireFeature(c, ListsOf(c))>>

ModuleSteps(c) ==
    LET feature == Feature(c.name)
        folders == {"controllers", "services", "dto"}
        within(folder) == feature \o Folder(folder)
    IN <<FailIf(feature)>>
       \o (IF c.flat THEN <<PutFlat(feature)>>
           ELSE <<Put(feature, {within(folder) : folder \in folders}),
                  Put(within("controllers"), {}), Put(within("services"), {}),
                  Put(within("dto"), {})>>)
       \o <<Lib(feature), Use(feature), Import(feature)>>

\* a declaration in a folder of src/
Announce(c) == Declare(<<>>, {PathOf(c, c.kind)})

\* StopKinds look for their file first, and take it as a sign that all is done.
StopSteps(c) ==
    LET path == PathOf(c, c.kind)
    IN <<StopIf(path), Make(path, {}), Announce(c), Lib(Front(path))>>

\* kinds that go on with the declarations when their file is there; the resolvers
\* of GraphQL are left to its own template
SingleSteps(c) ==
    LET path == PathOf(c, c.kind)
        mod == CASE c.kind = "gateway" -> <<WsMod("make")>>
                 [] c.kind = "graphql" -> <<GraphqlMod("make")>>
                 [] OTHER -> <<>>
    IN mod \o <<Make(path, {}), Announce(c)>>
           \o IF c.kind = "graphql" THEN <<>> ELSE <<Lib(Front(path))>>

MicroserviceSteps(c) == <<Make(Folder("microservices"), {})>> \o SingleSteps(c)

\* the proto file becomes an input of build.rs, the service a module
GrpcDeclares(c) == <<Declare(<<>>, {PathOf(c, "proto")}), Announce(c)>>
GrpcSteps(c) ==
    <<GrpcBuild("make"), GrpcMod("make"), Make(PathOf(c, "proto"), {}), Make(PathOf(c, "grpc"), {})>>
    \o GrpcDeclares(c)

Steps(c) == CASE c.kind \in PartKinds -> PartSteps(c)
              [] c.kind = "module" -> ModuleSteps(c)
              [] c.kind \in StopKinds -> StopSteps(c)
              [] c.kind = "grpc" -> GrpcSteps(c)
              [] c.kind = "microservice" -> MicroserviceSteps(c)
              [] OTHER -> SingleSteps(c)

\* what the file of a part imports, and where from
Needs(part) == CASE part = "service" -> {"dto", "create_dto", "update_dto"}
                 [] part = "controller" -> {"dto", "create_dto", "update_dto", "service"}
                 [] OTHER -> {}

ImportOf(c, part) ==
    LET node == <<N(part, c.name)>>
        folder == Folder(IF part = "service" THEN "services" ELSE "dto")
    IN CASE c.module # None /\ ~c.flat -> Feature(c.module) \o folder \o node
         [] c.module # None /\ c.flat -> Feature(c.module) \o node
         [] c.module = None /\ ~c.flat -> folder \o node
         [] OTHER -> node

-----------------------------------------------------------------------------
(* One command at a time, in the directory of the application *)

New == /\ app.state = "absent" /\ running = None
       /\ app' = [app EXCEPT !.state = "partial"]
       /\ running' = NewApp /\ plan' = Scaffold
       /\ UNCHANGED <<tree, succeeded, asked, interrupted, runs>>

Generate(c) ==
    /\ app.state = "whole" /\ running = None /\ runs < MaxRuns
    /\ running' = c /\ plan' = Steps(c)
    /\ succeeded' = None
    /\ asked' = asked \cup {c} /\ runs' = runs + 1
    /\ UNCHANGED <<app, tree, interrupted>>

\* a module that is there is generated again
FailsUnless(s) == s.op = "failUnless" /\ s.path \notin tree.files

Fails(s) == \/ s.op = "failIf" /\ s.path \in tree.files
            \/ s.op = "failUnless" /\ s.path \notin tree.files

Step ==
    /\ plan # <<>> /\ ~Fails(Head(plan))
    /\ tree' = Apply(tree, Head(plan))
    /\ plan' = IF Head(plan).op = "stopIf" /\ Head(plan).path \in tree.files
               THEN <<>> ELSE Tail(plan)
    /\ UNCHANGED <<app, running, succeeded, asked, interrupted, runs>>

Refuse == /\ plan # <<>> /\ Fails(Head(plan))
          /\ running' = None /\ plan' = <<>>
          /\ UNCHANGED <<app, tree, succeeded, asked, interrupted, runs>>

Succeed ==
    /\ running # None /\ plan = <<>>
    /\ running' = None
    /\ IF running = NewApp THEN app' = [app EXCEPT !.state = "whole"] /\ UNCHANGED succeeded
                          ELSE succeeded' = running /\ UNCHANGED app
    /\ UNCHANGED <<tree, plan, asked, interrupted, runs>>

\* The process is killed, or a file cannot be written.  Nobody goes on with
\* half an application: nestforge new refuses to.
Interrupt ==
    /\ running \notin {None, NewApp} /\ plan # <<>>
    /\ running' = None /\ plan' = <<>>
    /\ interrupted' = interrupted \cup {running}
    /\ UNCHANGED <<app, tree, succeeded, asked, runs>>

Over == runs = MaxRuns /\ running = None /\ UNCHANGED vars

Next == New \/ (\E c \in Commands : Generate(c)) \/ Step \/ Refuse \/ Succeed \/ Interrupt \/ Over

Spec == Init /\ [][Next]_vars

-----------------------------------------------------------------------------
(* Properties *)

\* The compiler finds a module if the root declares its way, and a file is there.
Reached(path) == \A n \in 1..Len(path) : SubSeq(path, 1, n) \in tree.declared
Resolves(path) == Reached(path) /\ \A n \in 0..Len(path) : SubSeq(path, 1, n) \in tree.files

\* Commands that fit the application: a generator of a transport needs what
\* the template of that transport has, the layout must be that of the feature,
\* and the nested lists of a feature name both parts of a resource.
Fits(c) ==
    /\ c.kind = "grpc" => app.transport = "Grpc"
    /\ c.kind = "graphql" => app.transport = "Graphql"
    /\ c.kind = "gateway" => app.transport = "Websockets"
    /\ c.module # None => (c.flat <=> Home(c) \in tree.flat)
    /\ (c.module # None /\ ~c.flat) => c.kind = "resource"
FitSoFar == \A c \in asked : Fits(c)

\* At every moment of a whole application, between any two steps and after any
\* number of interrupted commands: what the root declares, at any depth, has
\* its file, and no file is written a second time over what is in it
\* (create_new_app, generate_*, write_file).
TreeIsSound ==
    /\ tree.rewritten = {}
    /\ (app.state = "whole" /\ FitSoFar) =>
        \A path \in tree.declared : Reached(path) => Resolves(path)

\* ... and, if every command fitted the application, every entry of a list and
\* every import of AppModule names a module that is there (patch_app_module*, patch_feature_module, patch_root_app_module_*).
EntriesResolve ==
    (app.state = "whole" /\ FitSoFar) =>
        /\ \A path \in tree.uses : Resolves(path)
        /\ \A home \in DOMAIN tree.lists : Resolves(home) =>
             \A list \in Lists : \A i \in DOMAIN tree.lists[home][list] :
                Resolves(tree.lists[home][list][i])

\* what a command that reports success has left
Entered(path, home, list) ==
    \/ path \in Range(tree.lists[home][list])
    \/ home = <<>> /\ \/ ~HasMarkers /\ path \in tree.uses
                      \/ \E i \in DOMAIN tree.lists[home][list] :
                           LET other == tree.lists[home][list][i]
                           IN other # path /\ EndsWith(Last(other).name, Last(path).name)

Complete(c) ==
    IF c.kind = "module"
    THEN /\ Resolves(Feature(c.name)) /\ Feature(c.name) \in tree.uses
         /\ Listed(tree.imports, Feature(c.name))
    ELSE /\ \A part \in Range(Parts(c)) : Resolves(PathOf(c, part))
         /\ c.kind = "resource" => \A part \in Range(Parts(c)) :
              \A needed \in Needs(part) : Resolves(ImportOf(c, needed))
         /\ c.kind = "grpc" => PathOf(c, "proto") \in tree.files \cap tree.declared
         /\ \A list \in ListsOf(c) \ (IF c.module = None THEN {"exports"} ELSE {}) :
              Entered(EntryOf(c, list), Home(c), list)

\* A command that reports success has done all it is for, also when it, or
\* another one, was interrupted before: every file, declaration and entry is
\* there, and the files of a resource import what is there.  The kinds that stop
\* at their file cannot promise that once they were interrupted, nor what is put
\* into a feature that was (generate_*; "Service already exists" and the like go on).
SuccessIsComplete ==
    (succeeded # None /\ Fits(succeeded)) =>
        \/ Complete(succeeded)
        \/ succeeded.kind \in StopKinds /\ succeeded \in interrupted
        \/ ~Resolves(Home(succeeded))

\* AppModule lists nothing twice, whatever is run again and in which layout:
\* its routes would be registered twice (patch_app_module_controllers_only).
AppListsOnce ==
    \A list \in Lists : LET entries == tree.lists[<<>>][list] IN
        \A i, j \in DOMAIN entries : Last(entries[i]) = Last(entries[j]) => i = j

\* The two for the lists: what is in them is there, and is in them once.
ListsAreSound == EntriesResolve /\ AppListsOnce
=============================================================================
