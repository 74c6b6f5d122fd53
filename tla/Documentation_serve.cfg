CONSTANTS
    None = None
    Anonymous = Anonymous
    Dtos = {"new_user", "user", "post", "old_post"}
    FieldsOf <- MCFieldsOf
    Apps <- MCApps
    GlobalPrefixes <- MCGlobalPrefixes
    Versions <- MCVersions
    Configs <- MCConfigs
    Libraries <- MCLibraries
    Guards = {"open", "closed"}
    Admits <- MCAdmits
    Callers = {"ann", "bob"}
    RolesOf <- MCRolesOf
    NameOf <- MCNameOf
    BodiesOf <- MCBodiesOf
    MaxBuilderCalls = 3

SPECIFICATION Spec

\* An application that panicked has stopped.
CHECK_DEADLOCK FALSE

INVARIANTS
    DocumentIsTheApi
    AccessIsDocumented
    LinksResolve
    SchemasAreShown
    BodiesAreDocumented
