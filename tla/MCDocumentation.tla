-------------------------- MODULE MCDocumentation --------------------------
(* Applications that differ in where version, roles and guards are set, in *)
(* what their handlers take and return, and in which of their routes meet. *)
EXTENDS Documentation, TLC

Rule(kind, optional, required, email, min, max) ==
    [kind |-> kind, optional |-> optional, whole |-> TRUE, low |-> 0, high |-> 255,
     required |-> required, email |-> email, min |-> min, max |-> max]

\* A text, an address, an Option<u8> from 1, an Option<f64> up to 2, an optional
\* text, and a struct with rules of its own.
MCFieldsOf ==
    "new_user" :> <<Rule("text", FALSE, TRUE, FALSE, 2, 3), Rule("text", FALSE, FALSE, TRUE, None, None),
                    Rule("number", TRUE, FALSE, FALSE, 1, None), Rule("text", TRUE, TRUE, FALSE, None, 4),
                    Rule("other", FALSE, FALSE, FALSE, None, None),
                    [Rule("number", TRUE, FALSE, FALSE, None, 2) EXCEPT !.whole = FALSE, !.low = -300, !.high = 300]>>
    @@ "user" :> <<Rule("other", FALSE, FALSE, FALSE, None, None)>>
    @@ "post" :> <<Rule("other", TRUE, TRUE, FALSE, None, None)>>
    @@ "old_post" :> <<Rule("text", FALSE, FALSE, FALSE, 1, None)>>

MCNameOf == [t \in Dtos |-> IF t = "old_post" THEN "post" ELSE t]

Good == <<Text(2, 2, FALSE, "none"), Text(3, 3, FALSE, "address"), Number(1, "whole"),
          Text(1, 1, FALSE, "none"), Other(TRUE, TRUE), Number(1, "fraction")>>

Instead(i, values) == {[Good EXCEPT ![i] = v] : v \in values}

MCBodiesOf ==
    "new_user" :> {Good}
        \cup Instead(1, {Text(1, 1, FALSE, "none"), Text(3, 3, FALSE, "none"), Text(4, 4, FALSE, "none"),
                         Text(4, 2, FALSE, "none"), Text(2, 1, FALSE, "none"), Text(2, 2, TRUE, "none"), Absent})
        \cup Instead(2, {Text(3, 3, FALSE, "none"), Text(1, 1, FALSE, "at"), Text(1, 1, TRUE, "none"), Null})
        \cup Instead(3, {Number(0, "whole"), Number(255, "whole"), Number(256, "whole"), Number(-1, "whole"),
                         Number(1, "point"), Number(1, "fraction"), Null, Absent})
        \cup Instead(4, {Null, Absent, Number(1, "whole")})
        \cup Instead(5, {Other(TRUE, FALSE), Other(FALSE, TRUE), Other(FALSE, FALSE), Null})
        \cup Instead(6, {Number(2, "point"), Number(3, "whole"), Number(301, "whole")})
    @@ "user" :> {<<Other(TRUE, TRUE)>>}
    @@ "post" :> {<<Other(TRUE, TRUE)>>, <<Null>>, <<Absent>>}
    @@ "old_post" :> {<<Text(1, 1, FALSE, "none")>>, <<Text(0, 0, TRUE, "none")>>}

On(verb, sub) == <<[verb |-> verb, sub |-> sub]>>
Takes(from, type) == [from |-> from, type |-> type]

Action(verbs, takes, returns) ==
    [verbs |-> verbs, version |-> None, auth |-> FALSE, roles |-> {}, guards |-> <<>>,
     responses |-> <<>>, takes |-> takes, returns |-> returns]

Of(base, methods) ==
    [base |-> base, auth |-> FALSE, roles |-> {}, guards |-> <<>>, methods |-> methods]

List == Action(On("GET", <<>>), <<Takes("PipedQuery", None)>>, "user")
Show == Action(On("GET", <<"{id}">>), <<Takes("Param", None), Takes("AuthUser", None)>>, "user")
New == Action(On("POST", <<>>), <<Takes("ValidatedBody", "new_user")>>, "user")
Helper == Action(<<>>, <<>>, None)

Users == Of(<<"users">>,
    <<List, Helper, [Show EXCEPT !.auth = TRUE, !.version = "v1", !.responses = <<404, 201, 200>>],
      [New EXCEPT !.roles = {"admin"}, !.responses = <<201>>]>>)

Staff == [Of(<<>>,
    <<[Action(On("GET", <<"staff">>), <<>>, "post") EXCEPT
          !.roles = {"staff"}, !.guards = <<"open", "closed">>, !.responses = <<404>>],
      [Action(On("PUT", <<"staff">>) \o On("GET", <<"staff">>),
              <<Takes("Decorated", None), Takes("Body", "post")>>, "post") EXCEPT
          !.responses = <<200, 200>>]>>) EXCEPT !.roles = {"admin"}, !.guards = <<"open">>]

Posts == Of(<<"posts">>,
    <<[Action(On("PUT", <<>>), <<Takes("PipedBody", "post")>>, None) EXCEPT !.version = "v2"],
      [Action(On("PUT", <<>>), <<Takes("ValidatedBody", "old_post")>>, "user") EXCEPT !.version = "v1"]>>)

SignUp == [Of(<<"users">>, <<New>>) EXCEPT !.auth = TRUE, !.guards = <<"closed">>]
Manual == Of(<<"docs">>, <<Action(On("GET", <<>>), <<>>, None)>>)
Twice == Of(<<"users">>, <<List, List>>)

MCApps == {<<Users, Manual>>, <<Posts, Staff>>, <<SignUp>>, <<Users, SignUp>>, <<Twice>>}

Config(json, yaml, docs, swagger, redoc, ui) ==
    [json |-> json, yaml |-> yaml, docs |-> docs, swagger |-> swagger, redoc |-> redoc, ui |-> ui]

MCConfigs ==
    {Config(<<"openapi.json">>, <<"openapi.yaml">>, <<"docs">>, <<"swagger-ui">>, <<"redoc">>, "Simple"),
     Config(<<"spec", "v1", "openapi.json">>, <<"openapi.yaml">>, <<"spec", "v1", "pages", "docs">>,
            None, <<"spec", "redoc">>, "Simple"),
     Config(<<"a", "json">>, <<"a", "yaml", "">>, <<"docs", "">>, None, <<"a", "redoc">>, "SwaggerUi"),
     Config(<<"openapi.json">>, <<"openapi.yaml">>, <<"docs">>, <<"docs">>, None, "Redoc")}

MCAdmits == "open" :> {"ann", "bob", Anonymous} @@ "closed" :> {"ann"}
MCRolesOf == "ann" :> {"admin", "staff"} @@ "bob" :> {"staff"}
MCGlobalPrefixes == {<<>>, <<"api">>, <<"api", "public">>}
MCVersions == {<<>>, <<"v2">>}
MCLibraries == {<<"graphql">>, <<"posts">>}
=============================================================================
