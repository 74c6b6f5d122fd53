CONSTANTS
    None = None
    Transports = {"Http", "Graphql", "Grpc", "Microservices", "Websockets"}
    Commands <- MCCommands
    EndsWith <- MCEndsWith
    MaxRuns = 3

SPECIFICATION Spec

INVARIANTS
    TreeIsSound
    ListsAreSound
    
