CONSTANTS
    users = users
    docs = docs
    nowhere = nowhere
    alice = alice
    mallory = mallory
    throttle = throttle
    admin = admin
    Anonymous = Anonymous
    None = None
    Requests = {"r1", "r2"}
    Routes = {users, docs, nowhere}
    Asks <- MCAsks
    Kind <- MCKind
    Middlewares = 2
    Matching <- MCMatching
    Interceptors <- MCInterceptors
    Guards = {throttle, admin}
    GuardList <- MCGuardList
    Admits <- MCAdmits
    Moody = {throttle}
    Identities = {alice, mallory}
    MaxCalls = 2
SPECIFICATION FairSpec
INVARIANTS
    GuardsDecide
    HandlerRunsWrapped
    OwnContext
PROPERTIES
    Answered
\* Requests that have been answered take no step.
CHECK_DEADLOCK FALSE
