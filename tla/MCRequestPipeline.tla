------------------------- MODULE MCRequestPipeline -------------------------
(***************************************************************************)
(* Instances of RequestPipeline for TLC: a controller route behind a guard *)
(* of its own, a merged router, and a path nobody serves; two middlewares  *)
(* for the controller route, one for the path, none for the merged router. *)
(***************************************************************************)
EXTENDS RequestPipeline, TLC

CONSTANTS users, docs, nowhere, alice, mallory, throttle, admin

MCKind == users :> "controller" @@ docs :> "plain" @@ nowhere :> "missing"
MCMatching == users :> {1, 2} @@ docs :> {} @@ nowhere :> {2}
MCInterceptors == [l \in 2..3 |-> [rt \in Routes |-> 1]]
MCGuardList ==
    [l \in 2..3 |-> [rt \in Routes |-> IF l = 2 THEN <<throttle>> ELSE <<admin>>]]
MCAdmits == throttle :> {alice, mallory, Anonymous} @@ admin :> {alice}

\* One request for each kind of route, beside one for the merged router.
MCAsks == "r1" :> Routes @@ "r2" :> {docs}

=============================================================================
