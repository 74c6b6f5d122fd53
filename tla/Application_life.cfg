CONSTANTS
    app = app
    store = store
    config = config
    Service = Service
    Repo = Repo
    Config = Config
    Refs = {app, store, config}
    Names = {"AppModule", "StoreModule", "ConfigModule"}
    Name <- MCName
    AppModule = app
    Types = {Service, Repo, Config}
    Needs <- MCNeeds
    Applications <- MCApplications
    HookCount <- MCHookCount
    MaxShutdowns = 2
SPECIFICATION FairAppSpec
INVARIANTS
    WalkIsSound
    HooksAreOrdered
PROPERTIES
    CreateReturns
\* An application that has stopped takes no step.
CHECK_DEADLOCK FALSE
