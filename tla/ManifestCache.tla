---------------------------- MODULE ManifestCache ----------------------------
(***************************************************************************)
(* The origin manifest cache (src/cache.rs) and its two users, the         *)
(* playlist and the DASH manifest handler, up to the point where they have *)
(* a body: look it up, else fetch it from the origin and insert it.        *)
(*                                                                         *)
(* A handler's request is plain (the DASH handler's all are), has _HLS_skip *)
(* (the origin may answer with a delta update, which leaves segments out), *)
(* or has _HLS_msn (the origin holds the answer back until its playlist    *)
(* has got that far; _HLS_skip may be there too, but what it then brings   *)
(* is not shared).  The origin is live: the version of its playlist only   *)
(* grows.                                                                  *)
(***************************************************************************)
EXTENDS Integers, Functions

CONSTANTS
  Urls,          \* origin urls
  Workers,       \* request tasks
  Ttl,           \* MANIFEST_CACHE_TTL_MS, in ticks
  FetchTimeout,  \* total timeout of the http client, in ticks
  MaxVersion,    \* bound: versions of the live playlist
  MaxTime        \* bound: ticks of the clock

ASSUME TtlAssumption == Ttl \in Nat /\ FetchTimeout \in Nat
ASSUME BoundsAssumption == MaxVersion \in Nat /\ MaxTime \in Nat

VARIABLES
  now,      \* the clock
  version,  \* the origin's playlist, by url
  entries,  \* the cache: url -> CachedEntry
  req       \* requests in progress, by worker

vars == <<now, version, entries, req>>

-----------------------------------------------------------------------------
Kinds == {"plain", "skip", "blocking"}

(* What the origin answered: its version, whether it is a delta update, and *)
(* when it did.                                                             *)
Body == [version : 0 .. MaxVersion, delta : BOOLEAN, at : 0 .. MaxTime]

NoBody == [version |-> 0, delta |-> FALSE, at |-> 0]

Entry == [body : Body, fetched_at : 0 .. MaxTime]

Request == [pc : {"get", "evict", "fetch", "stream", "served", "failed"},
            url : Urls, kind : Kinds, msn : 0 .. MaxVersion,
            started : 0 .. MaxTime, body : Body, cached : BOOLEAN,
            age : 0 .. MaxTime]

Put(f, x, v) == [y \in DOMAIN f \cup {x} |-> IF y = x THEN v ELSE f[y]]

At(w, pc) == w \in DOMAIN req /\ req[w].pc = pc

Init ==
  /\ now = 0
  /\ version = [u \in Urls |-> 0]
  /\ entries = [u \in {} |-> 0]
  /\ req = [w \in {} |-> 0]

-----------------------------------------------------------------------------
(* Mutant: blocking requests look into the cache too.                       *)
BeginCached(w, u, k, m) ==
  /\ w \notin DOMAIN req
  /\ k # "blocking" => m = 0
  /\ req' = Put(req, w, [pc |-> "get",
                         url |-> u, kind |-> k, msn |-> m, started |-> now,
                         body |-> NoBody, cached |-> FALSE, age |-> 0])
  /\ UNCHANGED <<now, version, entries>>

(* A request arrives; one with _HLS_msn bypasses the cache.                 *)
Begin(w, u, k, m) ==
  /\ w \notin DOMAIN req
  /\ k # "blocking" => m = 0
  /\ req' = Put(req, w, [pc |-> IF k = "blocking" THEN "fetch" ELSE "get",
                         url |-> u, kind |-> k, msn |-> m, started |-> now,
                         body |-> NoBody, cached |-> FALSE, age |-> 0])
  /\ UNCHANGED <<now, version, entries>>

Serve(w, body, cached) ==
  req' = [req EXCEPT ![w].pc = "served", ![w].body = body, ![w].cached = cached,
                     ![w].age = now - body.at]

(* Mutant: an entry exactly one TTL old is served.                          *)
FreshInclusive(u) == now - entries[u].fetched_at <= Ttl

Fresh(u) == now - entries[u].fetched_at < Ttl

(* ManifestCache::get under the read guard: hit, stale or miss.             *)
Hit(w) ==
  /\ At(w, "get")
  /\ LET u == req[w].url IN
       /\ u \in DOMAIN entries
       /\ Fresh(u)
       /\ Serve(w, entries[u].body, TRUE)
  /\ UNCHANGED <<now, version, entries>>

FindStale(w) ==
  /\ At(w, "get")
  /\ req[w].url \in DOMAIN entries
  /\ ~Fresh(req[w].url)
  /\ req' = [req EXCEPT ![w].pc = "evict"]
  /\ UNCHANGED <<now, version, entries>>

Miss(w) ==
  /\ At(w, "get")
  /\ req[w].url \notin DOMAIN entries
  /\ req' = [req EXCEPT ![w].pc = "fetch", ![w].started = now]
  /\ UNCHANGED <<now, version, entries>>

(* The guard is gone: the removal is by key.                                *)
Evict(w) ==
  /\ At(w, "evict")
  /\ entries' = Restrict(entries, DOMAIN entries \ {req[w].url})
  /\ req' = [req EXCEPT ![w].pc = "fetch", ![w].started = now]
  /\ UNCHANGED <<now, version>>

(* The origin answers the request as it was forwarded: with a delta update  *)
(* only where it was asked for one, and even there not always.              *)
OriginAnswers(w) ==
  /\ At(w, "fetch")
  /\ version[req[w].url] >= req[w].msn
  /\ \E delta \in {FALSE, req[w].kind = "skip"} :
       req' = [req EXCEPT ![w].pc = "stream",
                          ![w].body = [version |-> version[req[w].url],
                                       delta |-> delta, at |-> now]]
  /\ UNCHANGED <<now, version, entries>>

(* Mutant: the wait for the response headers has no timeout.                *)
FetchFailsLate(w) ==
  /\ At(w, "stream")
  /\ req' = [req EXCEPT ![w].pc = "failed"]
  /\ UNCHANGED <<now, version, entries>>

(* Send error, bad status, too large, not UTF-8, or the timeout; or the     *)
(* player went away and the handler is dropped.                             *)
FetchFails(w) ==
  /\ At(w, "fetch") \/ At(w, "stream")
  /\ req' = [req EXCEPT ![w].pc = "failed"]
  /\ UNCHANGED <<now, version, entries>>

Cacheable(k) == k # "blocking"

(* The body is complete: cache it under the origin url, and go on with it.  *)
Receive(w) ==
  /\ At(w, "stream")
  /\ entries' = IF Cacheable(req[w].kind)
                THEN Put(entries, req[w].url,
                         [body |-> req[w].body, fetched_at |-> now])
                ELSE entries
  /\ Serve(w, req[w].body, FALSE)
  /\ UNCHANGED <<now, version>>

Respond(w) ==
  /\ At(w, "served") \/ At(w, "failed")
  /\ req' = Restrict(req, DOMAIN req \ {w})
  /\ UNCHANGED <<now, version, entries>>

-----------------------------------------------------------------------------
(* The origin (external): a new segment, hence a new version.               *)
Publish(u) ==
  /\ version[u] < MaxVersion
  /\ version' = [version EXCEPT ![u] = @ + 1]
  /\ UNCHANGED <<now, entries, req>>

Fetching(w) == At(w, "fetch") \/ At(w, "stream")

(* No fetch outlasts the client's timeout.                                  *)
Tick ==
  /\ now < MaxTime
  /\ \A w \in DOMAIN req : Fetching(w) => now - req[w].started < FetchTimeout
  /\ now' = now + 1
  /\ UNCHANGED <<version, entries, req>>

Handle(w) ==
  \/ Hit(w)
  \/ FindStale(w)
  \/ Miss(w)
  \/ Evict(w)
  \/ OriginAnswers(w)
  \/ FetchFails(w)
  \/ Receive(w)
  \/ Respond(w)

Next ==
  \/ \E w \in Workers :
       \/ \E u \in Urls, k \in Kinds, m \in 0 .. MaxVersion : Begin(w, u, k, m)
       \/ Handle(w)
  \/ \E u \in Urls : Publish(u)
  \/ Tick

Spec == Init /\ [][Next]_vars

(* A handler keeps going: its fetch answers or times out.                   *)
FairSpec == Spec /\ \A w \in Workers : WF_vars(Handle(w))

-----------------------------------------------------------------------------
(* Properties                                                              *)

(* The state keeps its shape, the age of what is served included.           *)
TypeOK ==
  /\ now \in 0 .. MaxTime
  /\ version \in [Urls -> 0 .. MaxVersion]
  /\ DOMAIN entries \subseteq Urls
  /\ \A u \in DOMAIN entries : entries[u] \in Entry
  /\ DOMAIN req \subseteq Workers
  /\ \A w \in DOMAIN req : req[w] \in Request

(* A playlist is served at most a TTL and a fetch timeout after the origin  *)
(* gave it out, whatever the evictions and the order in which slow fetches  *)
(* overwrite each other's entries.                                          *)
BoundedStaleness ==
  \A w \in DOMAIN req : At(w, "served") =>
    req[w].age <= FetchTimeout + (IF req[w].cached THEN Ttl - 1 ELSE 0)

(* A player that asks the origin to block for a media sequence number is    *)
(* never answered with an older playlist, cached ones included.             *)
BlockingGetsItsVersion ==
  \A w \in DOMAIN req : At(w, "served") => req[w].body.version >= req[w].msn

(* Every request is answered, with a playlist or an error, even one whose   *)
(* media sequence number the origin never reaches.                          *)
RequestsAnswered ==
  \A w \in Workers : (w \in DOMAIN req) ~> (w \notin DOMAIN req)

(* Doc, cache.rs:3: it "deduplicates identical origin fetches".  A plain    *)
(* request may not be given a delta update that was fetched for another: no *)
(* fetch of its own would have brought it one.  (The other way round, a full *)
(* playlist for a request that allows a delta update, does no harm.)        *)
DeltasOnlyWhereAsked ==
  \A w \in DOMAIN req :
    At(w, "served") /\ req[w].body.delta => req[w].kind = "skip"

-----------------------------------------------------------------------------
(* Strengthening: what is known of one request, and of one entry, at time   *)
(* t; nothing cached or in flight is older than a fetch.                    *)
RequestInv(r, t) ==
  /\ r \in Request
  /\ r.started <= t
  /\ r.pc \in {"get", "evict"} => r.msn = 0
  /\ r.pc \in {"fetch", "stream"} => t - r.started <= FetchTimeout
  /\ r.pc = "stream" => /\ r.started <= r.body.at /\ r.body.at <= t
                        /\ r.body.version >= r.msn
  /\ r.pc = "served" =>
       /\ r.body.version >= r.msn
       /\ r.age <= FetchTimeout + (IF r.cached THEN Ttl - 1 ELSE 0)

EntryInv(e, t) ==
  /\ e \in Entry
  /\ e.fetched_at <= t
  /\ e.body.at <= e.fetched_at
  /\ e.fetched_at - e.body.at <= FetchTimeout

Inv ==
  /\ now \in 0 .. MaxTime
  /\ version \in [Urls -> 0 .. MaxVersion]
  /\ DOMAIN entries \subseteq Urls
  /\ \A u \in DOMAIN entries : EntryInv(entries[u], now)
  /\ DOMAIN req \subseteq Workers
  /\ \A w \in DOMAIN req : RequestInv(req[w], now)
=============================================================================
