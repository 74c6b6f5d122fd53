\* Two connections, a handler of one of which may hang, and one call.
SPECIFICATION FairSpec
CONSTANTS
    c1 = c1  c2 = c2  k1 = k1
    p1 = p1  p2 = p2
    alice = alice  bob = bob
    Root = Root
    None = None
    Connections = {c1, c2}
    Calls = {k1}
    Stuck = {c2}
    Patterns = {p1}
    Users = {alice}
    MaxRegistrations = 2
    MaxFrames = 2
INVARIANTS
    HandlersAreServed
    SuccessIsReal
PROPERTIES
    AnswersInOrder
    FramesSettle
\* The sessions end.
CHECK_DEADLOCK FALSE
