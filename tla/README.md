# NestForge: a verification project in TLA+

NestForge is a NestJS-like application framework for Rust: modules of providers,
a dependency-injection container, controllers on top of axum with guards,
interceptors and exception filters, message transports, a scheduler, a cache,
data access, and a command line tool. This directory holds TLA+ models of the
parts that carry state or order, the TLC configurations that check them, and
proofs that TLAPS checks. All paths below are relative to the repository root
(`src/` in `PROJECT.json`).

## 1. Inventory

For every component: the state it keeps, its operations, whom it talks to, what
is hard about it, and what makes it correct.

| component | state | operations | talks to | what is hard | what makes it correct |
|---|---|---|---|---|---|
| **Container** `crates/nestforge-core/src/container.rs`, `provider.rs` | shared singletons, shared request and transient factories, shared names; one private `overrides` map per scope | register, replace, override_value, register_*_factory, scoped, resolve | every other part resolves from it | four locks taken one after the other; factories run with no lock and resolve again; check-then-insert in `overrides` | scopes never see each other's values; a request value is made once and stays; a known type is found |
| **Module graph** `nestforge-core/src/module.rs` | visited, visiting, the path, controllers, four hook lists | visit_module, visit_module_docs, visit_module_graph, the dynamic module builder | Container, Application | diamonds, cycles, modules told apart by name, failures half-way | imports first, once each; cycles reported; a well-formed application starts |
| **Application lifecycle** `nestforge-http/src/factory.rs`, `nestforge-grpc/src/lib.rs`, `nestforge-testing/src/lib.rs` | the four hook lists, the container | create, listen, shutdown | Module graph, transports | errors in the middle of a hook list, repeated shutdown, the process being killed | hooks in dependency order up, against it down |
| **Request pipeline** `nestforge-http/src/factory.rs`, `middleware.rs`, `nestforge-core/src/pipeline.rs`, `route_builder.rs` | per request: scoped container, request id, identity, guard and interceptor chains, one-shot `next` | request_context_middleware, the middleware chain, execute_pipeline (global and per route), exception filters | Container, application code | nesting and order of the layers, short circuits, errors on the way back, `next` called twice | no handler behind a guard that refused; each stage at most once; filters see the errors they should |
| **Response cache** `nestforge-cache/src/lib.rs` with `nestforge-redis` | one entry per key with a time to live | around (look up, run, store) | Request pipeline, a RedisStore | several requests miss at once; a slow answer stored after a newer one; expiry | a hit is a successful answer to the same key; errors are never stored |
| **Schedule** `nestforge-schedule/src/lib.rs` | registered tasks, handles of running tasks | register, start, shutdown | tokio, lifecycle hooks | start and shutdown racing, restart over a task that is still running, registration after start | one driver per task; nothing runs after shutdown |
| **Resource store** `nestforge-core/src/store.rs`, `resource_service.rs` | a vector of entities behind a lock | create, find, update, replace, delete, count | handlers of concurrent requests | read-modify-write over two critical sections; ids from the maximum | ids unique; an update is atomic unless it is raced |
| **Migrations** `nestforge-cli/src/main.rs` (`db`) | migration files, the applied list, the database | generate, migrate, status | a database, the file system | a crash between commit and record; two runs at once; edited files | each migration runs once, unless an invocation is cut off or overlaps another, in order, and is recorded |
| **Microservices, WebSockets, gRPC** `nestforge-microservices`, `nestforge-websockets`, `nestforge-grpc` | two maps from patterns to handlers, fixed once built; per connection the container of the request that opened it; per message a context | message, event, build, dispatch, the frame loop of a gateway, gRPC and in-process calls | Container | overwritten handlers, unknown patterns, logins after the upgrade, handlers that hang, futures that are dropped | answers in the order of the frames; no success without a handler that succeeded; a handler sees the identity of its own connection, as it is now |
| **GraphQL** `nestforge-graphql` | a schema | body limit, scoped container per request | Container | missing request scope | resolvers see the request's scope |
| **Data access** `nestforge-db`, `nestforge-orm`, `nestforge-mongo`, `nestforge-data`, `nestforge-redis` | connection pools, an in-memory repository | connect, transaction, repository calls | databases | id collisions, partial connect | ids unique; handlers complete |
| **Requests, validation, errors** `nestforge-core/src/request.rs`, `auth.rs`, `error.rs` | none between requests | extractors of a handler, guards on the identity, `ValidatedBody` | Request pipeline, Macros | order of extraction, the rules of a field against its schema | a body that passes is one the document describes |
| **Configuration** `nestforge-config` | key/value pairs, schema | load, validate | environment, .env files | precedence | the later source wins |
| **Documentation and OpenAPI** `nestforge-core/src/documentation.rs`, `nestforge-openapi` | the documentation of the module graph; the pages in the router of the application | merge of attributes, schemas, the document, relative links | Macros, Module graph, the builder of the factory | built from the attributes a second time, beside routes and guards; placed by builder calls in any order | the document describes what is served, to whom, and with which bodies |
| **Macros** `nestforge-macros` | none at run time | controller, routes, dto and others generate routes, guards, documentation, validation | all | two levels of attributes are merged twice | routes and documents agree |
| **CLI generators** `nestforge-cli/src/main.rs` | the files of an application: modules, declarations, lists of AppModule and feature modules | new, 14 kinds of generate | file system | a dozen edits one after the other, searched as text, in two layouts; interruptions and repetitions | the application compiles at every moment; a success means that all was done; nothing is listed twice |
| **CLI terminal** `nestforge-cli/src/tui.rs`, `ui.rs`, `main.rs` | the screen of a wizard or of the browser, the mode of the terminal, the fields of DTOs | keys, the prompts that take over | terminal, generators | steps that depend on earlier answers, a list that shrinks under the selection, a terminal that fails half-way | what is handed over is complete; the terminal is given back |
| **Testing** `nestforge-testing` | overrides, the runtime | build, contexts, shutdown | Container, Application | overrides on the root container | see Container and Application |

## 2. Plan

The order follows what the rest of the framework leans on: first the container,
then what boots on it, then what runs per request, then the parts with state of
their own, then what is generated and described from the same attributes.

| step | modules | state |
|---|---|---|
| 1 | `Container` | done, proved |
| 2 | `ModuleGraph`, and `Application`, which EXTENDS it | done, proved but for liveness |
| 3 | `RequestPipeline` | done, proved but for liveness |
| 4 | `KeyedRecords` (abstract) and `ResourceStore`, which implements it | done, proved |
| 5 | `Migrations` | done, proved |
| 6 | `Schedule` | done, proved but for liveness |
| 7 | `ResponseCache` | done, proved |
| 8 | `FifoService` (abstract) and `MessageDispatch`, which implements it | done, proved but for liveness |
| 9 | `CommandLine` | done, proved |
| 10 | `Generators` | done, proved |
| 11 | `BodyValidation`, and `Documentation`, which EXTENDS it | done, proved |

The theorems about a component are in a module `<Component>Proofs`; those of
`ModuleGraph` and `Application` share `ApplicationProofs`, those of `Schedule`,
`ResponseCache` and `ResourceStore` share `ServicesProofs`, those of `CommandLine` and
`Migrations` share `CliProofs`.

## 3. The modules and the code

`PROJECT.json` maps every definition to its lines. A step of a model is what the
code does under one lock, between two awaits, or between two calls that can
fail; everything the code does in that stretch is in the step. Definitions whose
comment begins with "Fault:", or that are described as what a faulty version
would do, stand before the step they would replace and are used by no
specification: putting one in the place of the step shows that a property
notices (`PROJECT.json`, "mutants").

### Container, MCContainer, ContainerProofs

`inner`, `requestFactories`, `transientFactories` and `names` are the maps that a
container shares with its `scoped()` children; `overrides[c]` is the map of its
own. `stack[t]` is the nest of `resolve` calls thread `t` is in: a frame says
which of the four maps it reads next or that its factory runs. Each of `ReadOverrides`,
`ReadInner`, `ReadRequestFactories`, `ReadTransientFactories` is one critical
section; factories run with no lock (`FactoryResolves`, `FactoryFails`), and
`CacheRequestValue` is the insert that follows. Registration methods are one
step each: they insert into `names` while they hold the lock of their map, and
those that return an error change nothing. `FactoryProvider::register` runs its
factory before it registers the value (`StartFactoryProvider`,
`RegisterFactoryValue`). A value is reduced to how it was made and whose private
values it reaches (`uses`). Assumed: factories do not resolve in a cycle
(`Rank`); the code recurses without a check. `MaxMade` bounds how often request
factories make values.

### ModuleGraph, Application, MCApplication, ApplicationProofs

`ModuleGraph` is the recursion of `visit_module` as an explicit stack `calls`;
`visiting`, `visited` and `collected` are the fields of the state struct
(`collected` stands for controllers and docs, which are extended at one point).
Modules are told apart by name, as in the code. `Application` adds the four lists
of hooks, to which each visit that ends adds its module's (`hooks`, `ModuleHooks`),
and what drives the walk: `create()` and `listen()` of a server, `TestFactory` and
`TestingModule`, and the functions that collect documentation. Hooks run one by
one (`RunHook`), any may fail (`HookFails`), and the lists of teardown are turned
round (`HookList`). The serve future and the delivery of signals are external:
the server may return, fail, or be killed by Ctrl+C, for which the code installs
no handler. `MaxShutdowns` bounds the calls of `TestingModule::shutdown`.

### RequestPipeline, MCRequestPipeline, RequestPipelineProofs

A request goes through `request_context_middleware` (`Receive`, `Identify`,
`Reject`) and three layers: the middlewares, the global pipeline, the pipeline of
the route. Middlewares and interceptors are wrappers: each is a frame that may
call its `next` (`CallNext`), again if it wants, and return what it got or
an answer of its own (`Leave`). The `next` at the end of a layer works once
(`Descend`, `CallHandler`, `NextAgain`). Guards run per layer in order
(`GuardPasses`, `GuardRefuses`); exception filters are recorded in the response
where the code applies them. The future of a request may be dropped at any await
(`Disconnect`). `passed`, `refused` and `runs` are history. `MaxCalls` bounds how
often one wrapper calls `next`.

### KeyedRecords, ResourceStore, MCResourceStore, ServicesProofs

`items` is the vector; a call of the store is one critical section and one step.
`update_from` is two: `BeginUpdate` reads, `EndUpdate` merges and writes back.
Ids are `0..TopId` with `TopId` for `u64::MAX`; in a build that checks for
overflow the addition panics under the write lock and poisons it
(`CreatePanics`), in one that does not it wraps (`NextId`). `intended` is what
the store would hold had every update been one step, and `raced` says that an
update wrote over a record that had changed since it was read. `KeyedRecords` is
what a store promises: one record at most under an id, one record per step.
`MaxCalls` bounds the calls of a behaviour. `StoreInit`, `StoreNext`, `storeVars` and
`Nothing` (a field that is left out) are named so that one module can state the theorems
of three services.

### Migrations, MCMigrations, CliProofs

`file` is the directory of migrations, `lines` the applied file with what was
written to each line, `committed` what the database holds. One invocation of
`db migrate` makes the applied file, lists the directory, reads the applied file,
and for each pending migration reads, commits, and writes its line in the four
writes that `writeln!` makes on an unbuffered file. `Stop` is a call that fails, or
a crash, at any of these points. Files are generated, edited and removed at any
time (`Generate`, `Edit`; `MaxEdits` bounds these). A name is its rank, a content
a model value, its hash the content. The names are finitely many, since they are
in one directory, and `Sorted` is the one ascending sequence of a set of them. The invocations in `Overlapping` may run
while another one does; `interrupted` and `overlapped` are history. `MigrationsInit`,
`MigrationsNext` and `migrationVars` are named for the component, and `phase` is where
an invocation is, so that one module can state the theorems of the command line tool.

### Schedule, MCSchedule, ServicesProofs

`registered` is behind one lock, `handles` behind another; `Start` and `Spawn` are
the two critical sections of `start()`, `Shutdown` is one. A driver is a spawned
task: it sleeps, is busy with the body, has ended or panicked. `abort` marks it,
and the task goes where it next awaits (`Drop`), so that a body may come to its
end after `shutdown()` returned. `MaxStarts` bounds the calls of `start`.

### ResponseCache, MCResponseCache, ServicesProofs

A request awaits the store (`Hit`, `Miss`), the rest of the pipeline (`Handle`),
the body (`ReadBody`) and the store again (`Save`, `SaveFails`); others run in
between. The store can fail at every call, lose entries and hold what does not
parse. Its initial states, steps and variables are `CacheInit`, `CacheNext` and
`cacheVars`, so that one module can state the theorems of three services. `MaxVersion` bounds the changes of the resource behind a key.

### FifoService, MessageDispatch, MCMessageDispatch, MessageDispatchProofs

`registered` is what the builder of the registry was told, in order; the maps of
the built registry are `Handler`, the last registration of a kind and pattern.
A session is a WebSocket connection, a gRPC call, or a call of the in-process
client, and what it asks are numbered frames. `Upgrade` makes the
`WebSocketContext` with the container of the request (`badge` is the identity it
copied); `Receive` takes the next frame off the stream, makes a
`MicroserviceContext`, which resolves the identity anew (`ContextOf`), and starts
the handler; `Return` ends it, and the loop answers or not (`Told`): a message
with its result, an event and a frame that cannot be read with nothing or with an
error that names no frame. `Drop` is the caller of a gRPC or in-process call that
drops its future. `FifoService` is the promise to a client on one connection:
requests are settled in their order, each with one answer at most.

### CommandLine, MCCommandLine, CliProofs

One invocation of `nestforge new`, `generate` or `docs` up to the moment when it
is known what to do. `OpenScreen`, `OpenFails` and `ScreenFails` are the ways of
`TerminalSession` in and out, with raw mode and alternate screen as two variables;
`PressKey` is `handle_key` of the two wizards, `PressDocKey` that of the browser;
`AnswerText`, `AnswerNumber`, `AnswerInside` are the prompts, `EnterField` and the
like the fields of a DTO. A text is blank, typed or given, a query a short
sequence of letters, and which pages match a query is a parameter.
`MaxQuery`, `MaxFields` and `MaxScroll` are bounds.

### Generators, MCGenerators, GeneratorsProofs

A command is a sequence of steps, each of which reads and writes one file
(`Steps`): make a file, declare modules in a `mod.rs`, add an entry to a list of
`AppModule` or of a feature. `Apply` is what a step does to the tree, including
the ways in which the code finds that it is already done: by the whole text
(`Listed`), at a marker (`Newest`), or by a file (`StopKinds`). `Interrupt` stops a
command between any two steps, and any command may follow. A file is written
whole or not at all, with its directory. Nobody continues with half an
application, since `new` refuses a directory that exists. `Fits` says for which
commands soundness is claimed: a generator of a transport in an application of
that transport, and the layout (`--flat`) of the feature it goes into; the
combinations it leaves out are listed under the divergences below. The DTOs of
two resources have different names. `MaxRuns` bounds the commands. A name is a model
value or a string that is never taken apart: which names end with which others is the
parameter `EndsWith`, of which `GeneratorsAssumption` says no more than that a name
ends with itself. The assumption also says what a command is; a feature or a layout given
to a kind that takes no notice of it is left out of the command.

### BodyValidation, Documentation, MCDocumentation, DocumentationProofs

`BodyValidation` is what `#[nestforge::dto]` generates: `Validates` is the
`validate()` that `ValidatedBody` calls, `SchemaOf` the schema of the same struct.
`Reads` is what serde asks before (the type of a field, the range of a number and
whether it is written with a point), `Conforms` what JSON Schema asks. A text is its
length in bytes and in characters, whether it is blank, and whether it has an `@` or is
an address; a number is its value and how it is written; of any other value it is
said whether serde reads it and whether it conforms, each with what is nested in it,
since `validate()` looks at none of that.
`Documentation` goes from the attributes of a controller to what is served and to
what is documented, by the two ways that the macro takes: `RouteOf` with the
guards of the route, and `DocOf` with the entry of the document. The
builder calls of `NestForgeFactory` come in any order (`WithGlobalPrefix`,
`WithVersion`, `WithAuthResolver`, `UseGuard`, `MergeRouter`, `WithOpenapiDocs`),
`IntoRouter` places everything, and `Call` answers a request: the guards in
order, then the extractors in the order of the arguments, then the handler. The
pages of the documentation carry the relative links that `relative_browser_path`
makes. A path is the sequence of its pieces between slashes, with an empty piece
where a slash is too many: `normalize_path` leaves `/docs/` as it is (`PagePath`),
`path_segments` passes over the empty pieces (`Segments`), and `full_path` and the
calls of the builder take slashes off where two paths meet (`Base`, `Rest`,
`Trimmed`). A link is kept with what it was made for (`to`). axum's panic over two handlers for one
path is external, and so is the rule that one argument of a handler at most reads
the body (`Compiles`): it consumes the request, and the compiler accepts no other
handler. `MaxBuilderCalls` bounds the builder calls.

## 4. What TLC checks

A property that is a conjunction has named parts in its module; the table names
the parts in words.

| run | bounds | what it shows |
|---|---|---|
| `container_sole` | 3 types, one of each kind of provider; root and two scopes; two threads | Nothing private to one request reaches another or a singleton, also within running factories (`Isolated`); a request value is made once and stays (`MadeOncePerSoleScope`, `CachedStays`); no type that was there is reported missing (`KnownIsFound`) |
| `application_life` | every import graph over three modules with up to two imports each, cycles included; two variants of providers; all sets of overridden types; two shutdowns | `WalkIsSound`: imports first, once; `done` only for the whole of an acyclic application; well-formed applications start. `HooksAreOrdered`: in dependency order up and against it down; no stage is reached over a list that did not end. `CreateReturns` |
| `pipeline_serve` | two requests, three kinds of route, two middlewares, a guard and an interceptor in each layer, two calls of `next` per wrapper | `GuardsDecide`: no handler behind a guard that refused, no second try after a refusal, a refusal goes through the filters of its layer. `HandlerRunsWrapped`: at most once, inside its wrappers. `OwnContext`. `Answered`: unless the client goes away |
| `store_calls` | two clients, two fields of two values, four calls, ids up to 4, overflow checked | `UniqueIds`; `AtomicUnlessRaced`; an update brings no deleted entity back (`UpdatesKeepIds`); the vector implements `KeyedRecords` (`WritesOneRecord`) |
| `migrations_turns` | two invocations, which may overlap, two files, one script beside the template, three edits | `RecordsAreTrue`: a name and hash on record are those of a file that ran. `OnceUnlessDisturbed`: once, unless an invocation was cut off between commit and the end of the line, or overlapped another; a complete, undisturbed one leaves nothing pending. `EarlierFirst`: a script is committed only after all that was found before it was committed or had no SQL, also when invocations are cut off or overlap; on record it is too if none was |
| `migrations_torn` | three invocations in turn, two scripts, four edits | **violated** (`AppliedIsNotPending`): a torn line hides the record after it |
| `schedule_run` | two threads, an interval and a timeout, three starts | `DriversAreKnown`: one driver per job that was not told to stop, none escapes a shutdown. `IntervalsGoOn`, `ShutdownEnds`: aborted drivers end |
| `cache_hits` | three requests, two URIs, resources that change once | `HitIsGenuine`: an answer from the cache is a 200 that a handler gave to a GET of that URI |
| `messages_serve` | two connections, one with a handler that may hang, one gRPC or in-process call, two registrations, two frames | `HandlersAreServed`: a frame is handled by the handler registered last, with the context of its session, and sees the login of its connection from then on. `SuccessIsReal`. `AnswersInOrder`: the connections implement `FifoService`. `FramesSettle`: a hanging handler holds up its own connection only |
| `commandline_ask` | three commands with every mixture of missing arguments, three pages, queries of two letters, two fields | `ScreensAreConsistent`: steps, numbers and errors follow the answers as they are now, the shown page is on the list. `PageStartsAtTop`. `ResultIsComplete`. `TerminalIsGivenBack` |
| `generators_tree` | five transports, 17 commands of all families, three runs | `TreeIsSound`: what the root declares has its file, and no file is overwritten, at every moment. `SuccessIsComplete`: a command that reports success has done all of it, also after an interruption. `ListsAreSound`: no command lists a thing twice in AppModule; entries are there, if the commands fit the application |
| `documentation_serve` | five applications, three prefixes, two versions, four configurations of the pages, two libraries, two guards, two callers and an anonymous one, three builder calls | `DocumentIsTheApi`: served and described operations are the same. `AccessIsDocumented`: the document tells whom guards refuse, and how. `LinksResolve`: a relative link leads to what it was made for. `SchemasAreShown`. `BodiesAreDocumented`: what `ValidatedBody` hands on conforms to the schema, and what it refuses does not, but for the values named below |

Why these bounds: isolation needs two scopes and a root, a nest of factories
needs three types; a diamond, a cycle through an intermediate module and a
double import all fit three modules; a retry needs two calls of `next`, a mix-up
of contexts two requests; a lost update needs two clients and two fields, an id
that is given out again a create, a delete and a create; an overlap takes two
invocations, a line that is torn, continued and read takes three; two starts and
a shutdown pass each other with two threads, and three starts see what a restart
leaves behind; a stale or foreign hit takes one request to store, one to race it
and one to hit; an order of answers, a login in between and a replaced handler
take two of each; a selection that falls off its list takes three pages and two
letters; a repeated command after an interrupted one, with a third between, takes
three runs; prefix, version and documentation in any order take three builder
calls, links that climb and descend pages at unequal depths. Symmetry is used in
runs without liveness, over sets whose members are nowhere told apart.

Runs that set `CHECK_DEADLOCK FALSE` are of systems that come to rest: an
application that stopped or panicked, requests that were answered, sessions that
ended, calls, edits and starts that are used up.

### Fairness

* `Application`: what the program does by itself goes on (`WF(Proceed)`): the walk
  and the hooks are loops of one task, and a hook is taken to return. Nobody has
  to call `listen()` or `shutdown()`, and serving may go on for ever.
* `RequestPipeline`: the task of a request is polled (`WF(Proceed(r))`); wrappers
  and handlers are taken to return, clients need not stay.
* `Schedule`: a thread within `start()` goes on, timers fire, tokio polls its
  tasks, bodies end. No call of `start` or `shutdown` is assumed.
* `MessageDispatch`: the task of a connection is polled (`WF(Receive(c))`), and
  its handlers return (`WF(Returns(c))`) except on the connections in `Stuck`.

The other specifications have no fairness and no liveness property.

### Where the documents and the code part

Shown by a run: `docs/cli-guide.md:231`, status tells `applied` from `pending`: a
record after a torn line is lost, and its migration is run again
(`migrations_torn`).

Modelled, and left to the reader of the model:

* `provider.rs:119` "executed once per request": not if two tasks of the request
  resolve the type at once. `MadeOncePerSoleScope` has one task per scope.
* `factory.rs:292` Ctrl+C runs the teardown hooks: it ends the process
  (`Application!Interrupt`).
* `pipeline.rs:241` filters run "if any step fails (guards or handler)": only for
  guards; a handler's error passes none. `GuardsDecide` speaks of refusals.
* `emit` of the in-process client awaits the handler of its event.
* The documents list paths without the prefix and the version of the application
  (`README.md:410`); `DocumentIsTheApi` compares under the prefix.
* Of two structs with one name the first gives the schema to both; a status that
  is declared twice shows the later response, and may lose its schema; a handler
  that declares no success shows its result under the first other status.
* `ValidatedBody` hands to the handler what the schema does not take (`Looser`):
  with `email`, a blank text and any with an `@`; with a least length, a text with
  enough bytes and too few characters; a struct within that breaks its own rules.
* It refuses what the schema takes (`Stricter`): with `required`, a null for an
  `Option` and a blank text; with a greatest length, a text with too many bytes and not
  too many characters; a number that its type cannot hold, such as -1 or 300 for a
  `u8`, and 3.0 for a whole one; such numbers within a struct. Its message, like the
  schema, speaks of characters (`nestforge-macros/src/lib.rs:1003`).
* A slash at the end of a configured path is kept, and not seen by
  `relative_browser_path`: on a page at `/docs/` the link to `/openapi.json` leads
  to `/docs/openapi.json`, which nobody serves, and a link to `/docs/` leads to
  `/docs` (`Plain`). The third configuration of the run has such paths, and
  TLC refutes `LinksResolve` there when `Plain` is left out.
* A link to a page that is also a directory above the linking page leads to the
  directory.
* A screen whose start fails after raw mode was switched on leaves raw mode on
  for the prompts that take over (`OpenFails`).
* Guard, decorator, filter, middleware and interceptor, once interrupted after
  their file, report success ever after and declare nothing (`StopKinds`).
* `g grpc`, `g gateway` and `g graphql` in an application of another transport, a
  resource in the other layout than its feature, and a lone controller or service
  in a feature leave an application that does not compile (`Fits`).

Noted while reading, and part of no model: a global exception filter does not
see the error of a route's guard (`factory.rs:147`, `pipeline.rs:252`); global
interceptors run before route guards (`pipeline.rs:82`); of two dynamic modules
with one name the second is dropped (`module.rs:390`); in a build without
overflow checks the id after `u64::MAX` is 0, twice (`store.rs:128`); `find_all`
of a poisoned store answers with an empty list (`store.rs:88`); a timeout runs
again after a shutdown and a start, and a job registered with a running
registry waits for the next start (`nestforge-schedule/src/lib.rs:186-190`); an
answer is cached though the resource changed while the handler ran
(`nestforge-cache/src/lib.rs:207`); a migration that is run before its script is
written is recorded as applied (`nestforge-cli/src/main.rs:752`); the wizard of
`new` does not check that documentation goes with the transport, as the
prompts do; an exception filter is generated and not exported; a list of a
feature gets an entry again when a generator is run again after another one;
DTOs that are only fields of other DTOs are not among the schemas
(`docs/auth-openapi.md`); attributes whose arguments do not parse are dropped without a word;
`export-docs` chooses the format of the body by the file's extension, and leaves
its temporary program behind when cargo cannot be started; the in-memory Mongo
repository may give an insert the number of a document that `update` stored under
that name (`nestforge-mongo/src/lib.rs:102`).

## 5. What is proved

Eight modules hold the proofs. Each theorem is for every value of the constants
of its module that satisfies the module's ASSUME, which the runs evaluate: any
number of threads, requests, sessions, modules, entries and so on, with the
bounds of the runs (`MaxCalls`, `MaxStarts` and the like) any natural number. No
theorem is about a small instance, and none assumes fairness. Every inductive
invariant was checked by TLC too, on the constants of the component's run
(with two commands instead of three for `Generators`).

### ContainerProofs

From `ContainerAssumption` alone (the shape of the constants, and `Rank`: no
cyclic factories).

* `TypeCorrect`: `Spec => []TypeOK`. The lemmas `TopFrame` to `EnteringFrame` say
  what the operators on stacks do to the frames, so that no later proof has to
  look inside a stack.
* `Isolation`: `Spec => []Isolated`. `ScopeIsolation` alone is not inductive: what
  a factory has resolved so far flows into what is cached later. `IsolationInv`
  adds that every running factory holds only values of its own container
  (`FactoriesIsolated`), and that a factory whose value becomes a singleton runs
  on the root (`FactoriesOnRoot`).
* `MadeOnce`: `Spec => []MadeOncePerSoleScope`. The argument is in `OnceInv`: a
  thread works on an open container that it serves; the resolves nested in each
  other are for types of decreasing rank, hence different types; so no inner
  resolve can fill the slot that an outer one found empty (`PendingIsEmpty`), and
  a value is made only for an empty slot (`MadeIsCached`).
* `CachedValuesStay`: `Spec => CachedStays`, from the same invariant.
* `KnownFound`: `Spec => []KnownIsFound`. No step takes a type out of a map
  (`MapsGrow`; a new scope's empty map replaces one that was already empty, by
  `OnceInv`), so a type that was in some map when the resolve started is still in
  one of the maps it has not searched yet, or has been found (`KnownAhead`).

### ApplicationProofs

About `AppSpec`, hence about `FairAppSpec` too; any graph of imports, with cycles,
with modules that share a name, with providers that need what nobody registers.

* `WalksAreSound`: `AppSpec => []WalkIsSound`. The invariant `GraphInv` describes
  the recursion by its stack. `CallsOK`: the calls go down a path of imports that
  meets no name twice, `visiting` is exactly the names on the stack, and each
  call has visited the imports it is past (`FrameOK`). `CollectedOK`: what
  contributed is what is in `visited`, once each, imports first. `SingletonsOK`:
  the container holds what those modules provide and what the call on top has
  registered, and nothing else, so that a check of exports or a factory fails only
  if the graph is not well formed. `OutcomeOK` follows from these: a cycle is
  reported only where the path closes one, and a walk that ends has taken in all
  that the root depends on. Dependencies are the least closed set
  (`DependenciesAreClosed` and the lemmas after it), which stands in for the
  induction on the length of a path.
* `HooksRunInOrder`: `AppSpec => []HooksAreOrdered`. `AppInv` adds to `GraphInv`
  that a phase's list is made of blocks, one per module that contributed, in the
  order of `collected` (`HooksOK`), and that what ran and what is left to run are
  together the list of the phase, or its reverse, with everything of the phases
  before (`RunningOK`). The order of the hooks is then that of the blocks, which
  `ImportsFirst` gives. That hooks follow the dependencies is claimed where the
  names of the modules differ (`NamesAreDistinct`, inside the property): of two
  modules with one name the code takes in one. That the lists are complete is
  claimed for every graph.

### RequestPipelineProofs

* `GuardsHaveTheLastWord`: `Spec => []GuardsDecide`, and
  `HandlersRunOnceAndWrapped`: `Spec => []HandlerRunsWrapped`. Both from
  `PipelineInv`. Neither is inductive by itself, since a wrapper may call its
  next again after everything below has answered. What carries the argument is
  that a layer's next works once: the layers that have spent it are the first
  ones (`SpentOK`), and a request comes to guards and handler only through layers
  that spent theirs just then. So the frames on the stack are all the wrappers
  before the place where the request is, in order (`WrappedOK`), and the guards
  passed are exactly those of the layers above, with no refusal and no run of the
  handler before (`GuardsOK`).
* `ContextsAreTheirOwn`: `Spec => []OwnContext`: the sequence number taken is below
  the counter, and differs from every other's.

### ServicesProofs

Three services that have nothing to do with each other, and whose modules share no
name: the theorems of one cite no fact of another.

`EveryDriverIsKnown` (`Spec => []DriversAreKnown`): the property is inductive as it
stands, because it says of `handles` what the next `start()` relies on: if it is
empty, no living driver is without an abort. `ShutdownIsFinal` is about steps: none
revives a driver or takes back an abort, and the one that gives up the handles
leaves no driver untold. It rests on lemmas about `SetToSeq` for finite sets.

`HitsAreGenuine` (`CacheSpec => []HitIsGenuine`) and `EntriesAreGenuine`. What a
request finds was put there by another, so `CacheInv` says of every entry, whichever
request wrote it, what the property says of an answer (`StoreIsGenuine`), and of
each request on its way to the store what makes its entry one (`RequestOK`).

The store:

* `UpdatesKeepTheIds`: `StoreSpec => UpdatesKeepIds`, in every build.
* `IdsAreUnique`, `UpdatesAreAtomicUnlessRaced`, `StoreImplementsKeyedRecords`:
  `Checked => (StoreSpec => ...)`. `Checked` is the constant that says the build checks
  for overflow. Without it the claims are false: after `u64::MAX` the id wraps to
  0, which may be in use. `StoreInv` joins the uniqueness of ids, which makes the
  vector a function from ids, with what relates it to `intended`: the same ids,
  and until an update is raced the same records. An update that is not raced finds
  the record it read, so that what it writes is what one step would have written.
  In `StoreImplementsKeyedRecords` initial states map to initial states of
  `KeyedRecords`, and each call to one step of it or none.

### CliProofs

The command line tool: the screens, and the migration commands. The two share
neither state nor steps, and each has its own part of the module.

* `ScreensStayConsistent`, `TerminalComesBack` (invariants) and
  `PagesStartAtTheTop`, `ResultsAreComplete` (steps), from `ScreenInv`: a screen
  exists and is well formed while it is shown and after, the terminal is taken
  exactly while it is shown. `InvocationAssumption` says what a command line is
  and that the texts and pages are not empty; how queries match pages is left
  open, and the browser's moves rest on least and greatest elements of what
  matches.

The migrations, from `MigrationsAssumption` (the kinds of contents differ, the names are finitely
many). `Sorted` is a CHOOSE, so the first lemmas show that an ascending sequence
of a finite set of names exists (`OrderExists`, by the rank of each name);
`FirstBar` to `NameAsWritten` say what the reader of the applied file makes of a
line.

The invariant `MigInv` follows the guarantees as they get weaker. `RecordsAreTrue`
is about whole lines, while four writes of several invocations may meet in one,
so:

* whatever happens, each write of a name is for a migration that was committed or
  had no SQL (`WorkInOrder`), hence so is every name anywhere in the file
  (`NamesAreTrue`); and nothing is written before the file is made
  (`NothingBefore`), so that `db_init` empties no file of an invocation that came
  before it;
* while invocations wait for one another (`Alone`), the bar and the hash that
  follow a name in the last line are the writes of one invocation
  (`HashFollows`), even where an interrupted one left half a line before them; so
  a line of exactly a name, a bar and a hash names a script that ran
  (`HashesAreTrue`);
* while none was interrupted either (`Orderly`), the last line is what the
  invocation at work has written of it (`LineIsWhole`), everything committed is on
  record but for what it is about to record (`CommittedIsRecorded`), and its list
  is what it found and is not on record (`TodoIsTheRest`). What it commits is then
  on no line, and so was not committed before (`NoneTwice`).

`WhatIsRecordedRan` (`Spec => []RecordsAreTrue`), `EachRunsOnce`
(`Spec => []OnceUnlessDisturbed`) and `EarlierOnesFirst` (`Spec => EarlierFirst`,
about steps) follow from it. The half of `EarlierFirst` that needs no undisturbed
invocations is `NoneLeftOut`: what an invocation found was applied or is still on its
list, since only what is on record is left off the list, and only what was applied
is taken off it.

### MessageDispatchProofs

All three from `DispatchInv`, one session at a time, and what sessions share
(`SharedOK`: the registry is complete before the first session speaks).

* `HandlersServeTheirOwn`: `Spec => []HandlersAreServed`. `RunsOK` orders the runs
  by their frames and says that the one that is running is the last, for the frame
  that was taken last; `LoginOK` relates the identity of a container to the run
  that set it.
* `SuccessHasItsHandler`: `Spec => []SuccessIsReal`. That there is exactly one run
  for the frame is the order of `RunsOK`.
* `ConnectionsAnswerInOrder`: `Spec => AnswersInOrder`, the refinement of
  `FifoService` for each connection: every step of any session maps to a step of
  the service or leaves it alone. The last registration of a pattern is a greatest
  element, which the library's well-foundedness of the numbers provides.

### DocumentationProofs

All five properties of the documentation, from `DocInv` (`DocumentationKeepsItsShape`).
The attributes, the structs and their rules, the bodies, the callers, the paths and
the merged routers are any that the source can be given; the assumptions say what
has which shape, that every struct has a name, and that a number in an attribute is
not "none". A page has a path, since `normalize_path` leaves none empty, and the path may
have slashes too many.

The invariant says little about what the macros make, and all that the order of the
builder calls could spoil: the links of each merged page were made for a page that is
merged too (`PagesLinked`); what serves was built from the routes and the merged
routers, no two of which meet (`RouterOK`); a reply was given by the guards, an
extractor or the handler of one entry, after all that come before it let the
request pass (`ReplyOK`). The rest is about definitions:

* loops over lists are recursive functions, and induction over a list is out of the
  prover's reach as a rule; `StepByStep` is it for a set of numbers instead of a
  predicate (the least number outside the set contradicts its step), and
  `LoopExists`, `MergedIsList`, `Flattened` and `Elements` say from it what such a loop
  leaves in a list;
* `ServedAndDocumented`: routes and entries are two walks over the same
  controllers, which keep the same methods, with the same path;
* `AccessAsDocumented`: the merged lists of roles and the `auth` of both levels come
  out of two macros; the guards made from one refuse whom the other says, each with
  its status, and the first guard that refuses decides;
* `BodiesAsDocumented`: field by field, what serde reads and `validate()` lets pass
  conforms to the property that the field is documented as, outside the values that
  `Looser` names; and what conforms passes, outside those of `Stricter`. The case of a
  text needs that it has no more characters than bytes;
* `LinksLead`: `path_segments` gives back a path that is plain (`SegmentsAre`); a link goes
  up as many directories as two paths do not share, so following it from any prefix and
  version, in front of both, arrives at what it was made for. Nothing is claimed of paths
  that are not plain: their links do go astray, as the divergences say;
* `SchemasShown`: the first struct of a name is in the components, and of the
  responses exactly one that is chosen shows what is returned.

### GeneratorsProofs

`TreesAreSound`, `ListsStaySound` and `SuccessesAreComplete` (`Spec => []TreeIsSound` and so
on), from `Inv` (`InvHolds`), for any set of commands with any names (where a property asks
for commands that fit the application, `Fits`, it says so), each of which may be
interrupted before any step and followed by any other, and for any way in which names end
with each other. None of the three properties is inductive: a step is right only because of
those that its command took before, and a command may find what another one, interrupted or
not, has left. `Inv` says:

* each step of the running command is ahead, or the tree has what it is for, whoever did it
  (`PlanInv`, with `Done`). The steps ahead are in the order of the code (`InOrder`), so that
  a declaration comes after its file, and an entry after its declaration. `Done` is about
  what is there, so no step of any command undoes it (`StepGrows`, `DoneStays`);
* a file that is written without a look is not there (`PutInv`): those are the files of
  `new`, in a directory that was made just before, and those of `module`, after it found
  none of that name. `LaidOut` says why that one look is enough: nothing is inside a feature
  whose own file is missing;
* in a whole application, what is declared has its file, or is in a feature that `lib.rs`
  does not declare yet (`Pending`: `generate module` was interrupted in between), and
  what is used or listed is declared below the module that lists it (`SoundInv`).
  `FitsSo` is `Fits` for a feature that may not be there yet, since a command that
  was asked for before the feature was made could do nothing;
* the file of a kind that stops at it means that all was done, or that such a
  command was interrupted, or that one is on its way (`StopInv`);
* after a success the steps of that command are all done (`SuccessInv`), and
  `DoneIsComplete` shows that this is everything `Complete` asks for.

The lemmas before the invariant are about the operators: `AllStepsAre` and those
it rests on give the steps of every kind of command as an ordered set (ranks), since a
plan is a concatenation of sequences; the ones on paths say which paths of different
commands can be equal. `LaidStays`, `SoundStays`, `TidyStays` take one step of a plan,
`CommandKeepsInv` and `NewAppKeepsInv` the step of a generator and of `new`.
TLC checks the parts of `Inv` on the constants of the run with two commands.

The proof found a fault of the model, not of the code: two guards of the CASE in
`TemplateList` overlapped, and TLC takes the first arm while the language allows
either. The guards exclude each other now.

### What stays with TLC

Liveness, everywhere: fairness and ENABLED are beyond the prover. The run that expects a
violation shows a counterexample, which is no matter of proof. Every invariant and
every action property of the other runs is stated by a theorem.

## 6. What is not modelled

* GraphQL: a body limit and a scoped container in front of an external engine.
* Data access: connection pools, transactions and queries are calls into a
  driver; the in-memory repository is a map behind one lock.
* Configuration: sources are read and merged once, in one call.
* Responses, the shape of errors, logging, the marker macros, re-exports and the
  helpers of the testing crate: data in and data out of one call.
* `export-docs` and `fmt` of the command line: they run cargo.

Within what is modelled: how a path is matched against the routes of a
middleware is a set of matching routes; the text of migrations, headers, source
files and errors is a model value; names and durations of jobs, payloads and
metadata of messages, summaries and tags of operations play no part; the thread
that runs an async provider to its end is one step of the walk; poisoning of the
container's locks is left out, since no code panics while it holds one, and so is a
factory that asks for its own type, which never returns; a file
that a generator writes is written whole; a body is a JSON object of the values of the
fields, though serde reads a struct from an array too; serde's attributes on fields,
and names that a program gives to `Option` or `String`, are left out. `PROJECT.json` lists every component
with its state, and every hazard with the properties that would notice it.
