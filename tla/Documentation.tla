---------------------------- MODULE Documentation ----------------------------
(***************************************************************************)
(* From the attributes of controllers to a served interface and to the     *)
(* OpenAPI document that describes it: #[controller] and #[routes]         *)
(* (nestforge-macros), RouteBuilder (nestforge-core), the builder calls of *)
(* NestForgeFactory and into_router (nestforge-http), OpenApiDoc and       *)
(* docs_router (nestforge-openapi).                                        *)
(*                                                                         *)
(* The macro turns one set of attributes into a route with its guards and  *)
(* into an entry of the document.  The application then calls its builder  *)
(* in an order of its own, and what was built answers requests.            *)
(*                                                                         *)
(* A path is the sequence of its pieces between slashes; a piece has no    *)
(* characters that mean something in a URL or to a router.  Summaries,     *)
(* tags and the types around a payload (Vec, ApiResult, ResponseEnvelope   *)
(* ...) are left out: a handler returns a struct or nothing the document   *)
(* describes.  How a request gets from guard to handler is                 *)
(* RequestPipeline's.                                                      *)
(***************************************************************************)
EXTENDS BodyValidation, FiniteSets, SequencesExt, FiniteSetsExt

CONSTANTS
    Apps,            \* the applications: each a sequence of controllers
    GlobalPrefixes,  \* what with_global_prefix is called with, <<>> among them
    Versions,        \* what with_version is called with
    Configs,         \* the OpenApiConfigs
    Libraries,       \* paths of routers that are merged from elsewhere
    Guards,          \* application-defined guards
    Admits,          \* Admits[g]: the callers that g lets through
    Callers,         \* who may ask, once the auth resolver knows the token
    Anonymous,
    RolesOf,         \* RolesOf[i]: the roles of caller i
    NameOf,          \* NameOf[t]: the identifier of struct t, without its module
    BodiesOf,        \* BodiesOf[t]: the bodies that are sent where t is expected
    MaxBuilderCalls

\* A piece is empty where a slash too many stands: /docs is <<"docs">>, /docs/ is
\* <<"docs", "">>, and / is <<>>.
Path == Seq(STRING)

\* full_path() takes off the slashes where a base and the rest meet;
\* with_global_prefix() and with_version() those on both sides.
Base == {p \in Path : p = <<>> \/ p[Len(p)] # ""}
Rest == {p \in Path : p = <<>> \/ p[1] # ""}
Trimmed == Base \cap Rest

Verbs == {"GET", "POST", "PUT", "DELETE"}
PartsExtractors == {"Param", "PipedParam", "Query", "PipedQuery", "Decorated", "AuthUser"}
BodyExtractors == {"Body", "PipedBody", "ValidatedBody"}
Argument == [from: PartsExtractors, type: {None}] \cup [from: BodyExtractors, type: Dtos]

\* What the attributes of a method, and of an impl block, are read into.  The
\* version has its "v", which full_path() adds where it is missing.
Method == [verbs: Seq([verb: Verbs, sub: Rest]), version: (STRING \ {""}) \cup {None},
           auth: BOOLEAN, roles: SUBSET STRING, guards: Seq(Guards),
           responses: Seq(100..599), takes: Seq(Argument), returns: Dtos \cup {None}]

\* One argument of a handler reads the body, or none does: it is used up then.
ReadsBody(m) == {i \in 1..Len(m.takes) : m.takes[i].from \in BodyExtractors}
Compiles(m) == \A i, j \in ReadsBody(m) : i = j

Controller == [base: Base, auth: BOOLEAN, roles: SUBSET STRING, guards: Seq(Guards),
               methods: Seq({m \in Method : Compiles(m)})]

\* normalize_path() leaves no path empty, and takes no slash off its end.
PagePath == Path \ {<<>>, <<"">>}
OpenApiConfig == [json: PagePath, yaml: PagePath, docs: PagePath,
                  swagger: PagePath \cup {None}, redoc: PagePath \cup {None},
                  ui: {"Simple", "SwaggerUi", "Redoc"}]

ASSUME DocumentationAssumption ==
    /\ Apps \subseteq Seq(Controller)
    /\ Configs \subseteq OpenApiConfig
    /\ Anonymous \notin Callers
    /\ \A g \in Guards : Admits[g] \subseteq Callers \cup {Anonymous}
    /\ DOMAIN RolesOf = Callers
    /\ DOMAIN NameOf = Dtos
    /\ \A t \in Dtos : BodiesOf[t] \subseteq Seq(Value)
    /\ GlobalPrefixes \cup Versions \subseteq Trimmed
    /\ Libraries \subseteq PagePath
    /\ MaxBuilderCalls \in Nat

VARIABLES
    app,      \* the controllers, as they were compiled
    stage,    \* how far the application has come
    calls,    \* how many builder calls were made
    factory,  \* the fields of NestForgeFactory
    router,   \* what is served: into_router's result
    reply     \* the last answer

vars == <<app, stage, calls, factory, router, reply>>

-----------------------------------------------------------------------------
\* #[routes]: settings of the impl block come first, those of the method are added.
MergeLists(primary, secondary) ==
    LET merged[n \in 0..Len(secondary)] ==
            IF n = 0 THEN primary
            ELSE IF Contains(merged[n - 1], secondary[n]) THEN merged[n - 1]
            ELSE Append(merged[n - 1], secondary[n])
    IN  merged[Len(secondary)]

RequiredRoles(c, m) == c.roles \cup m.roles
RequiresAuth(c, m) == c.auth \/ m.auth \/ RequiredRoles(c, m) # {}

\* The first attribute with a verb counts; a method without one is no route.
IsRoute(m) == m.verbs # <<>>
Verb(m) == m.verbs[1]

\* RouteBuilder::full_path().
FullPath(c, m) ==
    (IF m.version = None THEN <<>> ELSE <<m.version>>) \o c.base \o Verb(m).sub

Custom(g) == [check |-> "custom", guard |-> g]
SignedIn == [check |-> "authenticated"]
HasRole(roles) == [check |-> "roles", roles |-> roles]

\* Fault: the guard is made from the roles of the method alone.
BuiltinGuardsOfMethod(c, m) ==
    IF m.roles # {} THEN <<HasRole(m.roles)>>
    ELSE IF RequiresAuth(c, m) THEN <<SignedIn>> ELSE <<>>

BuiltinGuards(c, m) ==
    IF RequiredRoles(c, m) # {} THEN <<HasRole(RequiredRoles(c, m))>>
    ELSE IF RequiresAuth(c, m) THEN <<SignedIn>> ELSE <<>>

RouteGuards(c, m) ==
    LET own == MergeLists(c.guards, m.guards)
    IN  [i \in 1..Len(own) |-> Custom(own[i])] \o BuiltinGuards(c, m)

Entry(method, path, guards, takes, links) ==
    [method |-> method, path |-> path, guards |-> guards, takes |-> takes, links |-> links]

RouteOf(c, m) == Entry(Verb(m).verb, FullPath(c, m), RouteGuards(c, m), m.takes, {})

\* The type of the first argument that is a Body, a ValidatedBody or a Json.
Payload(m) ==
    LET bodies == {i \in 1..Len(m.takes) : m.takes[i].from \in {"Body", "ValidatedBody"}}
    IN  IF bodies = {} THEN None ELSE m.takes[Min(bodies)].type

\* with_success_response_schema(): the first success that is declared, or else
\* the first response there is.
SuccessAmong(statuses) ==
    LET success == {i \in 1..Len(statuses) : statuses[i] \in 200..299}
    IN  IF success = {} THEN 1 ELSE Min(success)

Responses(m) ==
    LET declared == IF m.responses = <<>> THEN <<200>> ELSE m.responses
    IN  [i \in 1..Len(declared) |->
            [status |-> declared[i],
             schema |-> IF i = SuccessAmong(declared) THEN m.returns ELSE None]]

\* Fault: the path of the document leaves out the version.
DocOfUnversioned(c, m) ==
    [method |-> Verb(m).verb, path |-> c.base \o Verb(m).sub,
     security |-> RequiresAuth(c, m), roles |-> RequiredRoles(c, m),
     body |-> Payload(m), responses |-> Responses(m)]

DocOf(c, m) ==
    [method |-> Verb(m).verb, path |-> FullPath(c, m),
     security |-> RequiresAuth(c, m), roles |-> RequiredRoles(c, m),
     body |-> Payload(m), responses |-> Responses(m)]

OfController(c) ==
    FlattenSeq([i \in 1..Len(c.methods) |->
        IF IsRoute(c.methods[i]) THEN <<[controller |-> c, method |-> c.methods[i]]>> ELSE <<>>])

OfApp(a) == FlattenSeq([i \in 1..Len(a) |-> OfController(a[i])])

Routes(a) == LET all == OfApp(a)
             IN  [i \in 1..Len(all) |-> RouteOf(all[i].controller, all[i].method)]
RouteDocs(a) == LET all == OfApp(a)
                IN  [i \in 1..Len(all) |-> DocOf(all[i].controller, all[i].method)]

-----------------------------------------------------------------------------
\* The document.  An operation is found under its path and method, a response
\* under its status: what is inserted later replaces what was there.
SameOperation(d, e) == d.method = e.method /\ d.path = e.path
Operations(docs) ==
    {docs[i] : i \in {j \in 1..Len(docs) :
                        \A k \in j+1..Len(docs) : ~SameOperation(docs[j], docs[k])}}

ResponseAt(d, status) ==
    LET n == Max({i \in 1..Len(d.responses) : d.responses[i].status = status})
    IN  d.responses[n]

\* Fault: only the structs of request bodies are collected.
TypesOfBody(d) == <<d.body>>

\* The structs that an entry brings along, or None.
TypesOf(d) == <<d.body>> \o [i \in 1..Len(d.responses) |-> d.responses[i].schema]

DocumentedTypes(docs) == FlattenSeq([i \in 1..Len(docs) |-> TypesOf(docs[i])])

\* collect_schema_components(): the first struct of a name stands for the name.
Components(docs) ==
    LET types == DocumentedTypes(docs)
        structs == {i \in 1..Len(types) : types[i] # None}
        First(name) == types[Min({i \in structs : NameOf[types[i]] = name})]
    IN  [name \in {NameOf[types[i]] : i \in structs} |-> SchemaOf(First(name))]

-----------------------------------------------------------------------------
\* relative_browser_path(): up from the directory of `from`, then down to `to`.
Common(dir, to) ==
    Max({n \in 0..Len(dir) : n <= Len(to) /\ SubSeq(dir, 1, n) = SubSeq(to, 1, n)})

\* path_segments() passes over the empty pieces.
Segments(path) ==
    LET kept[n \in 0..Len(path)] ==
            IF n = 0 THEN <<>>
            ELSE IF path[n] = "" THEN kept[n - 1]
            ELSE Append(kept[n - 1], path[n])
    IN  kept[Len(path)]

\* Fault: the page is taken for a directory.
RelativePathFromPage(from, to) ==
    LET n == Common(Segments(from), Segments(to))
    IN  [up |-> Len(Segments(from)) - n,
         down |-> SubSeq(Segments(to), n + 1, Len(Segments(to)))]

RelativePath(from, to) ==
    LET dir == Front(Segments(from))
        way == Segments(to)
        n == Common(dir, way)
    IN  [up |-> Len(dir) - n, down |-> SubSeq(way, n + 1, Len(way))]

\* A link shows what it leads to (`to`) by its label, or by where it is used.
Page(path, targets) ==
    Entry("GET", path, <<>>, <<>>,
          {[to |-> t, href |-> RelativePath(path, t)] : t \in targets \ {None}})

SimpleLinks(config) == {config.json, config.yaml, config.swagger, config.redoc}

\* docs_router_with_config().
DocsPages(config) ==
    <<Page(config.json, {}), Page(config.yaml, {}),
      Page(config.docs, IF config.ui = "Simple" THEN SimpleLinks(config) ELSE {config.json})>>
    \o (IF config.swagger = None THEN <<>> ELSE <<Page(config.swagger, {config.json})>>)
    \o (IF config.redoc = None THEN <<>> ELSE <<Page(config.redoc, {config.json})>>)

\* axum refuses, with a panic, a second handler for a method of a path.
Overlap(entries) ==
    \E i, j \in 1..Len(entries) : i # j /\ SameOperation(entries[i], entries[j])

-----------------------------------------------------------------------------
NewFactory == [prefix |-> <<>>, version |-> <<>>, resolver |-> FALSE,
               guards |-> <<>>, extra |-> <<>>, documented |-> FALSE]

Init ==
    /\ app \in Apps
    /\ stage = "compiled"
    /\ calls = 0
    /\ factory = NewFactory
    /\ router = {}
    /\ reply = None

\* NestForgeFactory::create(): every controller builds its router.
Create ==
    /\ stage = "compiled"
    /\ stage' = IF \E i \in 1..Len(app) : Overlap(Routes(<<app[i]>>))
                THEN "panicked" ELSE "building"
    /\ UNCHANGED <<app, calls, factory, router, reply>>

BuilderCall ==
    /\ stage = "building" /\ calls < MaxBuilderCalls
    /\ calls' = calls + 1
    /\ UNCHANGED <<app, router, reply>>

\* An empty prefix, or version, leaves the one that was set.
WithGlobalPrefix(path) ==
    /\ BuilderCall
    /\ factory' = [factory EXCEPT !.prefix = IF path = <<>> THEN @ ELSE path]
    /\ UNCHANGED stage

WithVersion(path) ==
    /\ BuilderCall
    /\ factory' = [factory EXCEPT !.version = IF path = <<>> THEN @ ELSE path]
    /\ UNCHANGED stage

WithAuthResolver ==
    /\ BuilderCall
    /\ factory' = [factory EXCEPT !.resolver = TRUE]
    /\ UNCHANGED stage

UseGuard(g) ==
    /\ BuilderCall
    /\ factory' = [factory EXCEPT !.guards = Append(@, Custom(g))]
    /\ UNCHANGED stage

\* with_graphql() and with_websocket_gateway() merge a router of their own.
Library(path) == Entry("POST", path, <<>>, <<>>, {})

MergeRouter(path) ==
    /\ BuilderCall
    /\ factory' = [factory EXCEPT !.extra = Append(@, Library(path))]
    /\ UNCHANGED stage

WithOpenapiDocs(config) ==
    /\ BuilderCall
    /\ IF Overlap(DocsPages(config))
       THEN stage' = "panicked" /\ UNCHANGED factory
       ELSE /\ factory' = [factory EXCEPT !.extra = @ \o DocsPages(config),
                                          !.documented = TRUE]
            /\ UNCHANGED stage

Mount(entry) == [entry EXCEPT !.path = factory.prefix \o factory.version \o @]

\* Controllers and merged routers become one router under version and prefix.
IntoRouter ==
    /\ stage = "building"
    /\ LET entries == Routes(app) \o factory.extra IN
       IF Overlap(entries)
       THEN stage' = "panicked" /\ UNCHANGED router
       ELSE stage' = "serving" /\ router' = {Mount(entries[i]) : i \in 1..Len(entries)}
    /\ UNCHANGED <<app, calls, factory, reply>>

-----------------------------------------------------------------------------
\* A request.  Without a resolver nobody is known.
Known(who) == IF factory.resolver THEN who ELSE Anonymous

\* The status with which a guard refuses a caller, or None.
Refusal(g, who) ==
    CASE g.check = "custom" /\ who \in Admits[g.guard] -> None
      [] g.check = "custom" /\ who \notin Admits[g.guard] -> 403
      [] g.check # "custom" /\ who = Anonymous -> 401
      [] g.check = "authenticated" /\ who # Anonymous -> None
      [] g.check = "roles" /\ who # Anonymous ->
             IF RolesOf[who] \cap g.roles # {} THEN None ELSE 403

AllGuards(entry) == factory.guards \o entry.guards

Refusing(entry, who) ==
    {i \in 1..Len(AllGuards(entry)) : Refusal(AllGuards(entry)[i], who) # None}

\* What an argument of a handler may do with a request: None, or the status of
\* its refusal.  A pipe or a decorator may refuse what it likes.
FromIdentity(who) == {IF who = Anonymous THEN 401 ELSE None}

FromParts(x, who) == IF x.from = "AuthUser" THEN FromIdentity(who) ELSE {None, 400}

FromBody(x, body) ==
    LET read == Deserializes(x.type, body)
    IN  CASE x.from = "Body" -> {IF read THEN None ELSE 400}
          [] x.from = "PipedBody" -> {400} \cup (IF read THEN {None} ELSE {})
          [] x.from = "ValidatedBody" ->
                 {IF read /\ Validates(x.type, body) THEN None ELSE 400}

Extracts(x, who, body) ==
    IF x.from \in BodyExtractors THEN FromBody(x, body) ELSE FromParts(x, who)

Reply(entry, who, body, by, status) ==
    [entry |-> entry, who |-> who, body |-> body, by |-> by, status |-> status]

\* Guards first, then the arguments in their order, then the handler.
Refuse(entry, who, body) ==
    LET refusing == Refusing(entry, who) IN
    /\ refusing # {}
    /\ reply' = Reply(entry, who, body, "guard", Refusal(AllGuards(entry)[Min(refusing)], who))

Extract(entry, who, body) ==
    /\ Refusing(entry, who) = {}
    /\ \E i \in 1..Len(entry.takes) :
          /\ \A j \in 1..i-1 : None \in Extracts(entry.takes[j], who, body)
          /\ \E status \in Extracts(entry.takes[i], who, body) \ {None} :
                reply' = Reply(entry, who, body, entry.takes[i].from, status)

Handle(entry, who, body) ==
    /\ Refusing(entry, who) = {}
    /\ \A i \in 1..Len(entry.takes) : None \in Extracts(entry.takes[i], who, body)
    /\ reply' = Reply(entry, who, body, "handler", 200)

Sent(entry) ==
    UNION {BodiesOf[entry.takes[i].type] :
              i \in {j \in 1..Len(entry.takes) : entry.takes[j].type # None}}

Call ==
    /\ stage = "serving"
    /\ \E entry \in router, who \in Callers \cup {Anonymous} :
       \E body \in Sent(entry) \cup {<<>>} :
          \/ Refuse(entry, Known(who), body)
          \/ Extract(entry, Known(who), body)
          \/ Handle(entry, Known(who), body)
    /\ UNCHANGED <<app, stage, calls, factory, router>>

Next ==
    \/ Create
    \/ \E path \in GlobalPrefixes : WithGlobalPrefix(path)
    \/ \E path \in Versions : WithVersion(path)
    \/ WithAuthResolver
    \/ \E g \in Guards : UseGuard(g)
    \/ \E path \in Libraries : MergeRouter(path)
    \/ \E config \in Configs : WithOpenapiDocs(config)
    \/ IntoRouter
    \/ Call

Spec == Init /\ [][Next]_vars

-----------------------------------------------------------------------------
(***************************************************************************)
(* Properties.                                                             *)
(***************************************************************************)
Serving == stage = "serving"
Document == Operations(RouteDocs(app))

TypeOK ==
    /\ app \in Apps
    /\ stage \in {"compiled", "building", "serving", "panicked"}
    /\ calls \in 0..MaxBuilderCalls
    /\ factory.guards \in Seq([check: {"custom"}, guard: Guards])
    /\ ~Serving => router = {} /\ reply = None

\* An application that came up serves exactly what its document describes:
\* every operation of the document is there, under the application's prefix and
\* version, and every route of a controller is an operation of the document.
\* (README: routes of the docs are generated "from controller metadata".)
DocumentIsTheApi ==
    /\ TypeOK
    /\ Serving =>
          LET own == router \ {Mount(factory.extra[i]) : i \in 1..Len(factory.extra)}
              Place(e) == <<e.method, e.path>>
          IN  {Place(e) : e \in own} = {Place(Mount(d)) : d \in Document}

\* The document tells who gets in: a request that passed the guards had the
\* identity and one of the roles that its operation asks for, and where the
\* application's own guards let the caller through, nobody is refused whom the
\* document does not refuse, with the status it lets one expect.
AccessIsDocumented ==
    reply # None =>
        \A d \in Document : SameOperation(Mount(d), reply.entry) =>
            LET who == reply.who
                unknown == d.security /\ who = Anonymous
                unfit == who # Anonymous /\ d.roles # {} /\ RolesOf[who] \cap d.roles = {}
                admitted == \A i \in 1..Len(AllGuards(reply.entry)) :
                                LET g == AllGuards(reply.entry)[i] IN
                                g.check = "custom" => who \in Admits[g.guard]
            IN  /\ unknown \/ unfit => reply.by = "guard"
                /\ reply.by = "guard" /\ admitted =>
                       (unknown /\ reply.status = 401) \/ (unfit /\ reply.status = 403)

\* What a browser makes of a relative link on a page; from a directory it asks
\* for a path that ends in a slash.
Follow(path, href) ==
    LET dir == Front(path)
    IN  SubSeq(dir, 1, Len(dir) - href.up) \o href.down

\* A path without slashes too many, and without the pieces that a browser takes
\* for directories.
Plain(path) == Range(path) \cap {"", ".", ".."} = {}

\* Under every prefix and version a link of the documentation's pages leads to
\* what it is said to lead to, which is served.  Excepted are pages and targets
\* whose paths are not plain: on a page at /docs/ the link to /openapi.json leads
\* to /docs/openapi.json.  So is a target that is a directory above the page: the
\* link leads to that directory, with a slash at its end.
LinksResolve ==
    \A page \in router : \A link \in page.links :
        Plain(page.path) /\ Plain(link.to) /\ link.href.down # <<>> =>
            \E target \in router :
                /\ target.method = "GET"
                /\ target.path = Follow(page.path, link.href)
                /\ target.path = factory.prefix \o factory.version \o link.to

\* A reference in an operation names a component, which has the schema of the
\* struct unless another struct of that name was described before; and what a
\* handler returns is shown under a status of success if one is declared once.
SchemasAreShown ==
    Serving /\ factory.documented =>
        LET docs == RouteDocs(app)
            components == Components(docs)
            types == DocumentedTypes(docs)
            ShownAt(d, s) == ResponseAt(d, s).schema
        IN  \A k \in 1..Len(app) : \A i \in 1..Len(app[k].methods) :
                LET m == app[k].methods[i]
                    d == DocOf(app[k], m)
                    Described(t) ==
                        /\ NameOf[t] \in DOMAIN components
                        /\ \/ components[NameOf[t]] = SchemaOf(t)
                           \/ \E u \in Range(types) \ {None} : u # t /\ NameOf[u] = NameOf[t]
                    statuses == {d.responses[j].status : j \in 1..Len(d.responses)}
                IN  IsRoute(m) =>
                    /\ Payload(m) # None => Described(Payload(m))
                    /\ m.returns # None =>
                          /\ Described(m.returns)
                          /\ Cardinality(statuses) = Len(d.responses) =>
                                /\ Cardinality({s \in statuses : ShownAt(d, s) # None}) = 1
                                /\ statuses \cap 200..299 # {} =>
                                      \E s \in statuses \cap 200..299 : ShownAt(d, s) # None

\* What ValidatedBody takes though the schema does not: with `email` a blank text
\* and any that has an '@', a text of fewer characters than the least length but
\* enough bytes, and what breaks the rules of a struct within.
Looser(f, v) ==
    \/ v.kind = "text" /\ f.email /\ (v.blank \/ v.mail = "at")
    \/ v.kind = "text" /\ f.min # None /\ v.bytes # v.chars
    \/ v.kind = "other" /\ ~v.conforms

\* What it refuses though the schema takes it: with `required` a null, or a blank
\* text; a text of more bytes, but not characters, than the greatest length; a
\* whole number that is written with a point, or one that the type cannot hold;
\* and such numbers within.
Stricter(f, v) ==
    \/ v.kind = "null" /\ f.optional /\ f.required
    \/ v.kind = "text" /\ f.required /\ v.blank
    \/ v.kind = "text" /\ f.max # None /\ v.bytes # v.chars
    \/ v.kind = "number" /\ (v.value \notin f.low..f.high \/ (f.whole /\ v.form = "point"))
    \/ v.kind = "other" /\ ~v.reads

\* The document tells which bodies pass.  Whatever ValidatedBody hands to the
\* handler conforms to the schema of its struct, field by field, but for values
\* that the rules are looser about; and it refuses no body that conforms, but for
\* values that they are stricter about.
BodiesAreDocumented ==
    reply # None =>
        \A i \in 1..Len(reply.entry.takes) :
            LET x == reply.entry.takes[i]
                fields == FieldsOf[x.type]
                schema == SchemaOf(x.type)
                body == reply.body
            IN  x.from = "ValidatedBody" =>
                /\ reply.by = "handler" =>
                      /\ Len(body) = Len(schema)
                      /\ \A j \in 1..Len(body) :
                            Conforms(schema[j], body[j]) \/ Looser(fields[j], body[j])
                /\ reply.by = "ValidatedBody" =>
                      \/ Len(body) # Len(schema)
                      \/ \E j \in 1..Len(body) :
                            ~Conforms(schema[j], body[j]) \/ Stricter(fields[j], body[j])

=============================================================================
