---------------------------- MODULE MCContainer ----------------------------
(***************************************************************************)
(* Instances of Container for TLC.  The three types are one of each kind   *)
(* the framework itself uses: the request id, which the HTTP layer         *)
(* overrides per request and an application may also register; a request-  *)
(* scoped service built from it; and a service that is built from both,    *)
(* at registration on the root or anew at every resolve.                   *)
(***************************************************************************)
EXTENDS Container, TLC

CONSTANTS RequestId, Session, Service, main, worker, s1, s2

MCDeps ==
    RequestId :> <<>> @@ Session :> <<RequestId>> @@ Service :> <<Session, RequestId>>

MCRank == RequestId :> 0 @@ Session :> 1 @@ Service :> 2

MCOffers ==
    RequestId :> {"value", "override"} @@ Session :> {"request"}
    @@ Service :> {"factory", "transient"}

\* main boots the application and then serves s1; worker serves s2.
SoleServes == main :> {Root, s1} @@ worker :> {s2}

=============================================================================
