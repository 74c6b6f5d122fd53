--------------------------- MODULE MCApplication ---------------------------
(***************************************************************************)
(* Instances of ModuleGraph and Application for TLC: every import graph    *)
(* over three modules in which a module lists at most two imports, itself  *)
(* or one twice included.                                                  *)
(* app provides Service out of Repo, store provides Repo out of Config,    *)
(* and Config comes from config, or from both config and store.            *)
(***************************************************************************)
EXTENDS Application, TLC

CONSTANTS app, store, config, Service, Repo, Config

MCNeeds == Service :> {Repo} @@ Repo :> {Config} @@ Config :> {}

MCName == app :> "AppModule" @@ store :> "StoreModule" @@ config :> "ConfigModule"

Imports == {<<>>} \cup {<<r>> : r \in Refs} \cup {<<q, r>> : q, r \in Refs}

ModulesOf(storeProviders, storeExports) ==
    [app: [imports: Imports, providers: {<<Service>>}, exports: {{Config}}],
     store: [imports: Imports, providers: {storeProviders}, exports: {storeExports}],
     config: [imports: Imports, providers: {<<Config>>}, exports: {{Config}}]]

AsModules(f) == app :> f.app @@ store :> f.store @@ config :> f.config

MCApplications ==
    {AsModules(f) : f \in ModulesOf(<<Repo>>, {Config})}
    \cup {AsModules(f) : f \in ModulesOf(<<Config, Repo>>, {})}

\* The module in the middle has two hooks for each phase, the others one.
MCHookCount == [r \in Refs |-> [p \in Phases |-> IF r = store THEN 2 ELSE 1]]

=============================================================================
