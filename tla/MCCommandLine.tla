--------------------------- MODULE MCCommandLine ---------------------------
(* Command lines with something missing, and a browser of three pages. *)
EXTENDS CommandLine

MCInvocations ==
    [command : {"new"}, name : {"blank", "given", None}, transport : {"Http", "Grpc", None},
     openapi : BOOLEAN, noTui : BOOLEAN]
    \cup [command : {"generate"}, kind : {"Resource", "Guard", None},
          name : {"given", None}, module : {"given", None},
          flat : {TRUE}, noPrompt : {TRUE}, noTui : BOOLEAN]
    \cup [command : {"docs"}, topic : {<<>>, <<"j">>, <<"z">>, <<"z", "z">>, None},
          noTui : BOOLEAN]

\* every letter of a query narrows the list
MCMatches(query) ==
    {p \in 1..3 : \A i \in DOMAIN query : p \in IF query[i] = "j" THEN {1, 3} ELSE {2, 3}}
    \ (IF query = <<"z", "z">> THEN 1..3 ELSE {})
MCTitled(query) == MCMatches(query) \cap {1, 2}
=============================================================================
