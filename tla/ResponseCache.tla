--------------------------- MODULE ResponseCache ---------------------------
(***************************************************************************)
(* The response cache (nestforge-cache/src/lib.rs): an interceptor that    *)
(* answers a GET from a shared store and otherwise runs the rest of the    *)
(* pipeline and stores its answer, with every call to the store free to    *)
(* fail.                                                                   *)
(*                                                                         *)
(* A request is one task and awaits the store, the handler and the body:   *)
(* others run in between.  The resource behind a key has a version, which  *)
(* the handler reads and other parts of the application advance; a         *)
(* response is the key it is about, the version it shows and its kind.     *)
(*                                                                         *)
(* The parts of the specification are named CacheInit, CacheNext and so    *)
(* on: ServicesProofs extends this module together with Schedule.          *)
(***************************************************************************)
EXTENDS Naturals

CONSTANTS
    Requests,     \* request tasks
    Keys,         \* cache keys: one for each request URI
    MaxVersion,   \* bound on the changes of a resource
    None,         \* no entry, no response, no key
    Garbage       \* an entry that does not parse

Versions == 0..MaxVersion

\* text: 200 with a UTF-8 body; binary: 200 with another body; broken: 200
\* with a body that cannot be read to its end; error: any other status
Kinds == {"text", "binary", "broken", "error"}
Response == [key: Keys, version: Versions, kind: Kinds \cup {"unreadable"}]

\* What serializes into the store and parses again is a response with a text
\* body; a garbage entry was put there by something else.
Entry == [key: Keys, version: Versions, kind: Kinds]

ASSUME CacheAssumption ==
    /\ MaxVersion \in Nat
    /\ None \notin Response \cup Entry \cup Keys
    /\ Garbage \notin Entry \cup {None}

VARIABLES
    version,     \* version[k]: the resource behind key k
    store,       \* store[k]: the entry of the cache store
    at,          \* at[r]: where request r is
    key,         \* key[r]: its URI, None unless it is a GET
    uri,         \* uri[r]: its URI
    made,        \* made[r]: the response the pipeline gave it
    answer,      \* answer[r]: what the client got
    produced     \* history: all responses of handlers

cacheVars == <<version, store, at, key, uri, made, answer, produced>>

Places == {"idle", "lookup", "handler", "filter", "set", "answered"}
Go(r, place) == at' = [at EXCEPT ![r] = place]

-----------------------------------------------------------------------------
CacheInit ==
    /\ version = [k \in Keys |-> 0]
    /\ store \in [Keys -> {None, Garbage}]
    /\ at = [r \in Requests |-> "idle"]
    /\ key = [r \in Requests |-> None]
    /\ uri \in [Requests -> Keys]
    /\ made = [r \in Requests |-> None]
    /\ answer = [r \in Requests |-> None]
    /\ produced = {}

\* every request has the same key: the URI is left out of it
AnyKey(k) == CHOOSE any \in Keys : TRUE

CacheKey(k) == k

\* A request that is no GET, has no container or finds no store is passed on.
Arrive(r, cacheable) ==
    /\ at[r] = "idle"
    /\ key' = [key EXCEPT ![r] = IF cacheable THEN CacheKey(uri[r]) ELSE None]
    /\ Go(r, IF cacheable THEN "lookup" ELSE "handler")
    /\ UNCHANGED <<version, store, uri, made, answer, produced>>

Hit(r) ==
    /\ at[r] = "lookup"
    /\ store[key[r]] \notin {None, Garbage}
    /\ answer' = [answer EXCEPT ![r] = store[key[r]]]
    /\ Go(r, "answered")
    /\ UNCHANGED <<version, store, key, uri, made, produced>>

\* No entry, one that does not parse, or an error of the store.
Miss(r) ==
    /\ at[r] = "lookup"
    /\ Go(r, "handler")
    /\ UNCHANGED <<version, store, key, uri, made, answer, produced>>

Handle(r, kind) ==
    LET response == [key |-> uri[r], version |-> version[uri[r]], kind |-> kind] IN
    /\ at[r] = "handler"
    /\ made' = [made EXCEPT ![r] = response]
    /\ produced' = produced \cup {response}
    /\ Go(r, "filter")
    /\ UNCHANGED <<version, store, key, uri, answer>>

ShouldCache(r) == key[r] # None /\ made[r].kind # "error"

PassThrough(r) ==
    /\ at[r] = "filter"
    /\ ~ShouldCache(r)
    /\ answer' = [answer EXCEPT ![r] = made[r]]
    /\ Go(r, "answered")
    /\ UNCHANGED <<version, store, key, uri, made, produced>>

\* to_bytes and from_utf8: a body that cannot be read is answered with an
\* error, and one that is no text is passed on without being stored.
ReadBody(r) ==
    /\ at[r] = "filter"
    /\ ShouldCache(r)
    /\ \/ /\ made[r].kind = "broken"
          /\ answer' = [answer EXCEPT ![r] = [made[r] EXCEPT !.kind = "unreadable"]]
          /\ Go(r, "answered")
       \/ /\ made[r].kind = "binary"
          /\ answer' = [answer EXCEPT ![r] = made[r]]
          /\ Go(r, "answered")
       \/ /\ made[r].kind \notin {"broken", "binary"}
          /\ Go(r, "set")
          /\ UNCHANGED answer
    /\ UNCHANGED <<version, store, key, uri, made, produced>>

Answer(r) ==
    /\ answer' = [answer EXCEPT ![r] = made[r]]
    /\ Go(r, "answered")

Save(r) ==
    /\ at[r] = "set"
    /\ store' = [store EXCEPT ![key[r]] = made[r]]
    /\ Answer(r)
    /\ UNCHANGED <<version, key, uri, made, produced>>

\* The store fails, or the policy has a time to live and the store supports
\* none, as the in-memory one; the error is logged.
SaveFails(r) ==
    /\ at[r] = "set"
    /\ Answer(r)
    /\ UNCHANGED <<version, store, key, uri, made, produced>>

\* The application changes a resource; it may delete an entry, and the store
\* may let it expire.
Advance(k) ==
    /\ version[k] < MaxVersion
    /\ version' = [version EXCEPT ![k] = @ + 1]
    /\ UNCHANGED <<store, at, key, uri, made, answer, produced>>

Evict(k) ==
    /\ store[k] # None
    /\ store' = [store EXCEPT ![k] = None]
    /\ UNCHANGED <<version, at, key, uri, made, answer, produced>>

Step(r) == \/ \E cacheable \in BOOLEAN : Arrive(r, cacheable)
           \/ Hit(r) \/ Miss(r)
           \/ \E kind \in Kinds : Handle(r, kind)
           \/ PassThrough(r) \/ ReadBody(r) \/ Save(r) \/ SaveFails(r)

CacheNext ==
    \/ \E r \in Requests : Step(r)
    \/ \E k \in Keys : Advance(k) \/ Evict(k)

CacheSpec == CacheInit /\ [][CacheNext]_cacheVars

-----------------------------------------------------------------------------
(* Properties *)

CacheTypeOK ==
    /\ version \in [Keys -> Versions]
    /\ store \in [Keys -> Entry \cup {None, Garbage}]
    /\ at \in [Requests -> Places]
    /\ key \in [Requests -> Keys \cup {None}]
    /\ uri \in [Requests -> Keys]
    /\ made \in [Requests -> Response \cup {None}]
    /\ answer \in [Requests -> Response \cup {None}]
    /\ produced \subseteq Response

Answered(r) == at[r] = "answered"
FromCache(r) == Answered(r) /\ made[r] = None

\* An answer from the cache is a successful one that a handler gave to a GET of
\* the same URI, of a version the resource had, whichever requests stored it and
\* whatever was in the store before (around, CachePolicy::cache_key).
\* docs/cache.md: the interceptor "only caches GET requests" and "only stores
\* successful 200 OK responses".
HitIsGenuine ==
    /\ CacheTypeOK
    /\ \A r \in Requests : FromCache(r) =>
          /\ key[r] # None /\ answer[r].key = uri[r]
          /\ answer[r] \in produced /\ answer[r].kind = "text"

=============================================================================
