------------------------------- MODULE KeyCache -------------------------------
(***************************************************************************)
(* The signing-key cache of pkg/auth/validator.go: getKey and refreshKeys  *)
(* on behalf of concurrent requests, with the rotations and the failures   *)
(* of the identity provider.                                               *)
(*                                                                         *)
(* The provider's history is a sequence of key sets.  A fetched map is the *)
(* number of the set it was built from, 0 the empty map of a fresh         *)
(* process.  Left out: signatures, claims and expiry of the tokens.        *)
(***************************************************************************)
EXTENDS Naturals, Sequences

CONSTANTS
    Client,    \* whoever sends requests, one at a time
    KeyId,     \* the kid of a signing key
    Rotation,  \* the key sets the provider publishes, in order
    None

ASSUME KeyCacheAssumption ==
    /\ Rotation \in Seq((SUBSET KeyId) \ {{}})
    /\ Rotation # <<>>
    /\ None \notin Client

VARIABLES
    epoch,   \* the key set the provider publishes now
    cached,  \* the key set in the cache
    age,     \* since lastRefresh: below 2 seconds, up to an hour, longer
    writer,  \* the request that holds the write lock
    step,    \* per client: where its request stands
    kid,     \* per client: the key its token is signed with
    found,   \* per client: the first lookup found that key
    answer,  \* per client: the key set its fetch has read
    since    \* per client: the cached set when its request arrived (history)

cacheVars == <<epoch, cached, age, writer, step, kid, found, answer, since>>

Epochs == DOMAIN Rotation
Age == {"young", "fresh", "old"}
Verdict == {"accepted", "refused"}
Step == {"idle", "lookup", "refresh", "fetch", "store", "again"} \cup Verdict

KeysOf(e) == IF e = 0 THEN {} ELSE Rotation[e]

CacheTypeOK ==
    /\ epoch \in Epochs
    /\ cached \in 0..epoch
    /\ age \in Age
    /\ writer \in Client \cup {None}
    /\ step \in [Client -> Step]
    /\ kid \in [Client -> KeyId]
    /\ found \in [Client -> BOOLEAN]
    /\ answer \in [Client -> 0..epoch]
    /\ since \in [Client -> 0..epoch]
    /\ \A c \in Client : step[c] \in {"fetch", "store"} => writer = c

\* lastRefresh is the zero time; every client has a token.
CacheInit ==
    /\ epoch = 1
    /\ cached = 0
    /\ age = "old"
    /\ writer = None
    /\ step = [c \in Client |-> "idle"]
    /\ kid \in [Client -> Rotation[1]]
    /\ found = [c \in Client |-> FALSE]
    /\ answer = [c \in Client |-> 0]
    /\ since = [c \in Client |-> 0]

-----------------------------------------------------------------------------
(* The provider and the clock.                                             *)

Rotate ==
    /\ epoch + 1 \in Epochs
    /\ epoch' = epoch + 1
    /\ UNCHANGED <<cached, age, writer, step, kid, found, answer, since>>

Elapse ==
    /\ age # "old"
    /\ age' = IF age = "young" THEN "fresh" ELSE "old"
    /\ UNCHANGED <<epoch, cached, writer, step, kid, found, answer, since>>

-----------------------------------------------------------------------------
(* getKey.  Nobody reads the map while the write lock is held.             *)

\* A request comes in with the client's token; a client that was refused has fetched a new
\* one first.
Ask(c) ==
    /\ step[c] = "idle"
    /\ step' = [step EXCEPT ![c] = "lookup"]
    /\ since' = [since EXCEPT ![c] = cached]
    /\ UNCHANGED <<epoch, cached, age, writer, kid, found, answer>>

\* No look at the time of the last refresh.
LookupWithoutAge(c) ==
    /\ step[c] = "lookup" /\ writer = None
    /\ LET exists == kid[c] \in KeysOf(cached) IN
          /\ found' = [found EXCEPT ![c] = exists]
          /\ step' = [step EXCEPT ![c] = IF exists THEN "accepted" ELSE "refresh"]
    /\ UNCHANGED <<epoch, cached, age, writer, kid, answer, since>>

Lookup(c) ==
    /\ step[c] = "lookup" /\ writer = None
    /\ LET exists == kid[c] \in KeysOf(cached)
           needsRefresh == ~exists \/ age = "old"
       IN  /\ found' = [found EXCEPT ![c] = exists]
           /\ step' = [step EXCEPT ![c] = IF needsRefresh THEN "refresh" ELSE "accepted"]
    /\ UNCHANGED <<epoch, cached, age, writer, kid, answer, since>>

LookupAgain(c) ==
    /\ step[c] = "again" /\ writer = None
    /\ step' = [step EXCEPT ![c] = IF kid[c] \in KeysOf(cached) THEN "accepted" ELSE "refused"]
    /\ UNCHANGED <<epoch, cached, age, writer, kid, found, answer, since>>

-----------------------------------------------------------------------------
(* refreshKeys, under the write lock from the rate limit to the new map.   *)

\* The HTTP call made outside the lock.
RefreshWithoutLock(c) ==
    /\ step[c] = "refresh" /\ writer = None
    /\ step' = [step EXCEPT ![c] = IF age = "young" /\ KeysOf(cached) # {}
                                   THEN "again" ELSE "fetch"]
    /\ UNCHANGED <<epoch, cached, age, writer, kid, found, answer, since>>

\* A map that is not empty is kept, however old.
RefreshOnce(c) ==
    /\ step[c] = "refresh" /\ writer = None
    /\ IF KeysOf(cached) # {}
       THEN step' = [step EXCEPT ![c] = "again"] /\ UNCHANGED writer
       ELSE step' = [step EXCEPT ![c] = "fetch"] /\ writer' = c
    /\ UNCHANGED <<epoch, cached, age, kid, found, answer, since>>

Refresh(c) ==
    /\ step[c] = "refresh" /\ writer = None
    /\ IF age = "young" /\ KeysOf(cached) # {}
       THEN step' = [step EXCEPT ![c] = "again"] /\ UNCHANGED writer
       ELSE step' = [step EXCEPT ![c] = "fetch"] /\ writer' = c
    /\ UNCHANGED <<epoch, cached, age, kid, found, answer, since>>

\* The provider answers with the set it publishes at that moment.
Fetch(c) ==
    /\ step[c] = "fetch"
    /\ answer' = [answer EXCEPT ![c] = epoch]
    /\ step' = [step EXCEPT ![c] = "store"]
    /\ UNCHANGED <<epoch, cached, age, writer, kid, found, since>>

\* Whatever the first lookup found.
FetchFailsClosed(c) ==
    /\ step[c] = "fetch"
    /\ writer' = None
    /\ step' = [step EXCEPT ![c] = "refused"]
    /\ UNCHANGED <<epoch, cached, age, kid, found, answer, since>>

\* Or it does not, within 5 seconds: a key found before will do.
FetchFails(c) ==
    /\ step[c] = "fetch"
    /\ writer' = None
    /\ step' = [step EXCEPT ![c] = IF found[c] THEN "accepted" ELSE "refused"]
    /\ UNCHANGED <<epoch, cached, age, kid, found, answer, since>>

\* The new map replaces the old one.
Store(c) ==
    /\ step[c] = "store"
    /\ cached' = answer[c]
    /\ age' = "young"
    /\ writer' = None
    /\ step' = [step EXCEPT ![c] = "again"]
    /\ answer' = [answer EXCEPT ![c] = 0]
    /\ UNCHANGED <<epoch, kid, found, since>>

\* The request is over; a refused client asks the provider for another token.
Leave(c) ==
    /\ step[c] \in Verdict
    /\ step' = [step EXCEPT ![c] = "idle"]
    /\ IF step[c] = "refused"
       THEN \E k \in Rotation[epoch] : kid' = [kid EXCEPT ![c] = k]
       ELSE UNCHANGED kid
    /\ found' = [found EXCEPT ![c] = FALSE]
    /\ since' = [since EXCEPT ![c] = 0]
    /\ UNCHANGED <<epoch, cached, age, writer, answer>>

-----------------------------------------------------------------------------
TakeLock(c) == Lookup(c) \/ Refresh(c) \/ LookupAgain(c)
GetKey(c) == TakeLock(c) \/ Fetch(c) \/ FetchFails(c) \/ Store(c)

CacheNext ==
    \/ Rotate \/ Elapse
    \/ \E c \in Client : Ask(c) \/ GetKey(c) \/ Leave(c)

CacheSpec == CacheInit /\ [][CacheNext]_cacheVars

\* The clock runs.  A lock that is released again and again is got at some point (Go's
\* RWMutex starves nobody), and a provider asked again and again answers at some point.
CacheFairness ==
    /\ WF_cacheVars(Elapse)
    /\ \A c \in Client : SF_cacheVars(TakeLock(c)) /\ SF_cacheVars(Fetch(c))

-----------------------------------------------------------------------------
\* The cache never returns to a key set older than the one it had, although each request
\* fetches on its own and answers may overlap with rotations (validator.go 178-223: the
\* write lock is held across the fetch).
CacheNeverGoesBack == [][cached' >= cached]_cacheVars

\* An accepted request's key was published at some moment between the last refresh before
\* the request and its verdict; a refused one's was missing at such a moment.  A request is
\* not let in by a key the cache had dropped when it came, and not turned away with a key
\* of every set in question, a failing provider included.  An empty cache counts as a set
\* without keys: until the first fetch succeeds every request may be refused (validator.go
\* 149-175).
VerdictsAreOfTheirTime ==
    \A c \in Client : step[c] \in Verdict =>
        \E e \in since[c]..cached : step[c] = "accepted" <=> kid[c] \in KeysOf(e)

\* The cache follows every rotation while requests arrive, even if none of them brings a
\* key it does not know (the hourly refresh of getKey, 152; ARCHITECTURE.md 9.2).
RotationIsFollowed == \A e \in Epochs : epoch = e ~> cached >= e
=============================================================================
