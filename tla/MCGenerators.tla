--------------------------- MODULE MCGenerators ---------------------------
(* Two controllers one of whose names ends with the other, two resources,  *)
(* a feature in either layout, and a command of every other kind.          *)
EXTENDS Generators

Command(kind, name, module, flat) ==
    [kind |-> kind, name |-> name, module |-> module, flat |-> flat]

MCCommands ==
    {Command("resource", "users", None, FALSE), Command("resource", "users", None, TRUE),
     Command("resource", "users", "shop", FALSE), Command("resource", "users", "shop", TRUE),
     Command("resource", "orders", "shop", FALSE),
     Command("controller", "users", None, FALSE), Command("controller", "admin_users", None, FALSE),
     Command("controller", "users", "shop", TRUE), Command("service", "users", None, FALSE),
     Command("module", "shop", None, FALSE), Command("module", "shop", None, TRUE),
     Command("filter", "users", None, FALSE),
     Command("serializer", "users", None, FALSE), Command("gateway", "chat", None, FALSE),
     Command("graphql", "users", None, FALSE),
     Command("grpc", "users", None, FALSE), Command("microservice", "users", None, FALSE)}

MCEndsWith(long, short) == long = short \/ (long = "admin_users" /\ short = "users")
=============================================================================
