------------------------- MODULE ManifestCacheProofs -------------------------
(* Proofs about ManifestCache for any number of urls and workers, any TTL   *)
(* and timeout: types, the staleness bound, and that a blocking request is  *)
(* never answered with an older playlist.                                   *)
EXTENDS ManifestCache, TLAPS

USE DEF Kinds, Body, Entry, Request

-----------------------------------------------------------------------------
(* A step that gives one worker a request in good order.                    *)
LEMMA RequestStep ==
  ASSUME Inv, NEW w \in DOMAIN req, NEW r, RequestInv(r, now),
         req' = [req EXCEPT ![w] = r], UNCHANGED <<now, version, entries>>
  PROVE  Inv'
<1>1. DOMAIN req' = DOMAIN req
  OBVIOUS
<1>2. \A v \in DOMAIN req : req'[v] = IF v = w THEN r ELSE req[v]
  OBVIOUS
<1>3. \A v \in DOMAIN req' : RequestInv(req'[v], now)
  BY <1>1, <1>2 DEF Inv
<1> QED BY <1>1, <1>3 DEF Inv

(* Moving on: the program counter alone changes, and the clock of a fetch.  *)
LEMMA RequestMoves ==
  ASSUME NEW r, NEW t \in 0 .. MaxTime, RequestInv(r, t)
  PROVE  /\ RequestInv([r EXCEPT !.pc = "failed"], t)
         /\ r.pc = "get" => RequestInv([r EXCEPT !.pc = "evict"], t)
         /\ RequestInv([r EXCEPT !.pc = "fetch", !.started = t], t)
<1>1. r \in Request
  BY DEF RequestInv
<1>2. [r EXCEPT !.pc = "failed"] \in Request
      /\ [r EXCEPT !.pc = "evict"] \in Request
      /\ [r EXCEPT !.pc = "fetch", !.started = t] \in Request
  BY <1>1
<1>3. RequestInv([r EXCEPT !.pc = "failed"], t)
  BY <1>1, <1>2 DEF RequestInv
<1>4. r.pc = "get" => RequestInv([r EXCEPT !.pc = "evict"], t)
  BY <1>1, <1>2 DEF RequestInv
<1>5. RequestInv([r EXCEPT !.pc = "fetch", !.started = t], t)
  BY <1>1, <1>2, TtlAssumption DEF RequestInv
<1> QED BY <1>3, <1>4, <1>5

LEMMA InitInv == Init => Inv
BY BoundsAssumption DEF Init, Inv

LEMMA BeginInv ==
  ASSUME Inv, NEW w \in Workers, NEW u \in Urls, NEW k \in Kinds,
         NEW m \in 0 .. MaxVersion, Begin(w, u, k, m)
  PROVE  Inv'
<1> DEFINE r == [pc |-> IF k = "blocking" THEN "fetch" ELSE "get",
                 url |-> u, kind |-> k, msn |-> m, started |-> now,
                 body |-> NoBody, cached |-> FALSE, age |-> 0]
<1>1. RequestInv(r, now)
  BY TtlAssumption, BoundsAssumption DEF Begin, Inv, RequestInv, NoBody
<1>2. req' = Put(req, w, r)
  BY DEF Begin
<1>3. DOMAIN req' = DOMAIN req \cup {w}
      /\ \A v \in DOMAIN req' : req'[v] = IF v = w THEN r ELSE req[v]
  <2> HIDE DEF r
  <2> QED BY <1>2 DEF Put
<1>4. \A v \in DOMAIN req' : RequestInv(req'[v], now)
  <2> HIDE DEF r
  <2> QED BY <1>1, <1>3 DEF Inv
<1> HIDE DEF r
<1> QED BY <1>3, <1>4 DEF Begin, Inv

(* Serving a body of known age: from a fetch, or from the cache.            *)
LEMMA ServeInv ==
  ASSUME Inv, NEW w \in DOMAIN req, NEW body \in Body, NEW cached \in BOOLEAN,
         body.at <= now, body.version >= req[w].msn,
         now - body.at <= FetchTimeout + (IF cached THEN Ttl - 1 ELSE 0)
  PROVE  RequestInv([req[w] EXCEPT !.pc = "served", !.body = body,
                                   !.cached = cached, !.age = now - body.at], now)
<1> DEFINE r == [req[w] EXCEPT !.pc = "served", !.body = body,
                               !.cached = cached, !.age = now - body.at]
<1>1. req[w] \in Request /\ req[w].started <= now
  BY DEF Inv, RequestInv
<1>2. now - body.at \in 0 .. MaxTime
  BY BoundsAssumption DEF Inv
<1>3. r \in Request
  BY <1>1, <1>2
<1>4. /\ r.pc = "served" /\ r.body = body /\ r.cached = cached
      /\ r.age = now - body.at /\ r.msn = req[w].msn /\ r.started = req[w].started
  BY <1>1
<1> HIDE DEF r
<1>5. RequestInv(r, now)
  BY <1>1, <1>3, <1>4 DEF RequestInv
<1> QED BY <1>5 DEF r

LEMMA HitInv ==
  ASSUME Inv, NEW w \in Workers, Hit(w)
  PROVE  Inv'
<1> DEFINE u == req[w].url
           b == entries[u].body
<1>1. w \in DOMAIN req /\ req[w].pc = "get" /\ u \in DOMAIN entries
      /\ now - entries[u].fetched_at < Ttl
  BY DEF Hit, At, Fresh
<1>2. EntryInv(entries[u], now) /\ RequestInv(req[w], now)
  BY <1>1 DEF Inv
<1>3. req[w].msn = 0 /\ b \in Body /\ b.version >= 0 /\ b.at <= now
  BY <1>1, <1>2 DEF EntryInv, RequestInv, Inv
<1>4. now - b.at <= FetchTimeout + (Ttl - 1)
  BY <1>1, <1>2, TtlAssumption DEF EntryInv, Inv
<1>5. RequestInv([req[w] EXCEPT !.pc = "served", !.body = b,
                                !.cached = TRUE, !.age = now - b.at], now)
  <2> HIDE DEF b
  <2> QED BY <1>1, <1>3, <1>4, ServeInv
<1>6. req' = [req EXCEPT ![w] = [req[w] EXCEPT !.pc = "served", !.body = b,
                                   !.cached = TRUE, !.age = now - b.at]]
  BY <1>1 DEF Hit, Serve
<1>7. UNCHANGED <<now, version, entries>>
  BY DEF Hit
<1> HIDE DEF b, u
<1> QED BY <1>1, <1>5, <1>6, <1>7, RequestStep

LEMMA FindStaleInv ==
  ASSUME Inv, NEW w \in Workers, FindStale(w)
  PROVE  Inv'
<1>1. w \in DOMAIN req /\ req[w].pc = "get" /\ RequestInv(req[w], now)
      /\ now \in 0 .. MaxTime
  BY DEF FindStale, At, Inv
<1>2. RequestInv([req[w] EXCEPT !.pc = "evict"], now)
  BY <1>1, RequestMoves
<1>3. req' = [req EXCEPT ![w] = [req[w] EXCEPT !.pc = "evict"]]
  BY <1>1 DEF FindStale
<1> QED BY <1>1, <1>2, <1>3, RequestStep DEF FindStale

LEMMA MissInv ==
  ASSUME Inv, NEW w \in Workers, Miss(w)
  PROVE  Inv'
<1>1. w \in DOMAIN req /\ RequestInv(req[w], now) /\ now \in 0 .. MaxTime
  BY DEF Miss, At, Inv
<1>2. RequestInv([req[w] EXCEPT !.pc = "fetch", !.started = now], now)
  BY <1>1, RequestMoves
<1>3. req' = [req EXCEPT ![w] = [req[w] EXCEPT !.pc = "fetch", !.started = now]]
  BY <1>1 DEF Miss
<1> QED BY <1>1, <1>2, <1>3, RequestStep DEF Miss

LEMMA EvictInv ==
  ASSUME Inv, NEW w \in Workers, Evict(w)
  PROVE  Inv'
<1>1. w \in DOMAIN req /\ RequestInv(req[w], now) /\ now \in 0 .. MaxTime
  BY DEF Evict, At, Inv
<1>2. RequestInv([req[w] EXCEPT !.pc = "fetch", !.started = now], now)
  BY <1>1, RequestMoves
<1>3. DOMAIN req' = DOMAIN req
      /\ \A v \in DOMAIN req : req'[v] =
           IF v = w THEN [req[w] EXCEPT !.pc = "fetch", !.started = now] ELSE req[v]
  BY <1>1 DEF Evict
<1>4. \A v \in DOMAIN req' : RequestInv(req'[v], now)
  BY <1>2, <1>3 DEF Inv
<1>5. DOMAIN entries' \subseteq DOMAIN entries
      /\ \A u \in DOMAIN entries' : entries'[u] = entries[u]
  BY DEF Evict, Restrict
<1> QED BY <1>3, <1>4, <1>5 DEF Evict, Inv

LEMMA OriginAnswersInv ==
  ASSUME Inv, NEW w \in Workers, OriginAnswers(w)
  PROVE  Inv'
<1>0. PICK delta \in {FALSE, req[w].kind = "skip"} :
        req' = [req EXCEPT ![w].pc = "stream",
                           ![w].body = [version |-> version[req[w].url],
                                        delta |-> delta, at |-> now]]
  BY DEF OriginAnswers
<1> DEFINE b == [version |-> version[req[w].url], delta |-> delta, at |-> now]
           r == [req[w] EXCEPT !.pc = "stream", !.body = b]
<1>1. w \in DOMAIN req /\ req[w].pc = "fetch" /\ RequestInv(req[w], now)
      /\ version[req[w].url] >= req[w].msn
  BY DEF OriginAnswers, At, Inv
<1>2. b \in Body /\ b.at = now /\ b.version >= req[w].msn
  <2>1. delta \in BOOLEAN
    OBVIOUS
  <2> QED BY <2>1, <1>1 DEF Inv, RequestInv
<1>3. RequestInv(r, now)
  <2> HIDE DEF b
  <2>1. req[w] \in Request
    BY <1>1 DEF RequestInv
  <2>2. r \in Request
    BY <1>2, <2>1
  <2>3. r.pc = "stream" /\ r.body = b /\ r.msn = req[w].msn
        /\ r.started = req[w].started
    BY <2>1
  <2> QED BY <1>1, <1>2, <2>2, <2>3 DEF RequestInv, Inv
<1>4. req' = [req EXCEPT ![w] = r]
  BY <1>0, <1>1
<1>5. UNCHANGED <<now, version, entries>>
  BY DEF OriginAnswers
<1> HIDE DEF r
<1> QED BY <1>1, <1>3, <1>4, <1>5, RequestStep

LEMMA FetchFailsInv ==
  ASSUME Inv, NEW w \in Workers, FetchFails(w)
  PROVE  Inv'
<1>1. w \in DOMAIN req /\ RequestInv(req[w], now) /\ now \in 0 .. MaxTime
  BY DEF FetchFails, At, Inv
<1>2. RequestInv([req[w] EXCEPT !.pc = "failed"], now)
  BY <1>1, RequestMoves
<1>3. req' = [req EXCEPT ![w] = [req[w] EXCEPT !.pc = "failed"]]
  BY <1>1 DEF FetchFails
<1> QED BY <1>1, <1>2, <1>3, RequestStep DEF FetchFails

LEMMA ReceiveInv ==
  ASSUME Inv, NEW w \in Workers, Receive(w)
  PROVE  Inv'
<1> DEFINE b == req[w].body
           r == [req[w] EXCEPT !.pc = "served", !.body = b,
                               !.cached = FALSE, !.age = now - b.at]
           e == [body |-> b, fetched_at |-> now]
<1>1. w \in DOMAIN req /\ req[w].pc = "stream" /\ RequestInv(req[w], now)
  BY DEF Receive, At, Inv
<1>2. b \in Body /\ b.at <= now /\ b.version >= req[w].msn
      /\ now - b.at <= FetchTimeout
  BY <1>1, TtlAssumption DEF Inv, RequestInv
<1>3. RequestInv(r, now)
  <2>1. now - b.at <= FetchTimeout + (IF FALSE THEN Ttl - 1 ELSE 0)
    BY <1>2, TtlAssumption DEF Inv
  <2> HIDE DEF b
  <2> QED BY <1>1, <1>2, <2>1, ServeInv
<1>4. EntryInv(e, now)
  BY <1>2 DEF EntryInv, Inv
<1>5. req' = [req EXCEPT ![w] = r]
  BY <1>1 DEF Receive, Serve
<1>6. req[w].url \in Urls
  BY <1>1 DEF RequestInv
<1>7. DOMAIN entries' \subseteq DOMAIN entries \cup {req[w].url}
      /\ \A u \in DOMAIN entries' :
           entries'[u] = e \/ (u \in DOMAIN entries /\ entries'[u] = entries[u])
  <2>1. entries' = Put(entries, req[w].url, e) \/ entries' = entries
    BY DEF Receive
  <2> HIDE DEF e
  <2> QED BY <2>1 DEF Put
<1>8. \A u \in DOMAIN entries' : EntryInv(entries'[u], now)
  <2> HIDE DEF e
  <2> QED BY <1>4, <1>7 DEF Inv
<1>9. \A v \in DOMAIN req' : RequestInv(req'[v], now)
  <2> HIDE DEF r
  <2> QED BY <1>3, <1>5 DEF Inv
<1>10. DOMAIN req' = DOMAIN req
  <2> HIDE DEF r
  <2> QED BY <1>5
<1> QED BY <1>6, <1>7, <1>8, <1>9, <1>10 DEF Receive, Inv

LEMMA RespondInv ==
  ASSUME Inv, NEW w \in Workers, Respond(w)
  PROVE  Inv'
BY DEF Respond, Restrict, Inv

LEMMA PublishInv ==
  ASSUME Inv, NEW u \in Urls, Publish(u)
  PROVE  Inv'
BY BoundsAssumption DEF Publish, Inv

(* Time passes: only the fetches in progress could be late, and are not.    *)
LEMMA TickInv ==
  ASSUME Inv, Tick
  PROVE  Inv'
<1>1. now' = now + 1 /\ now' \in 0 .. MaxTime /\ now \in 0 .. MaxTime
  BY BoundsAssumption DEF Tick, Inv
<1>2. \A w \in DOMAIN req : RequestInv(req[w], now')
  <2> SUFFICES ASSUME NEW w \in DOMAIN req PROVE RequestInv(req[w], now')
    OBVIOUS
  <2>1. RequestInv(req[w], now)
    BY DEF Inv
  <2>2. req[w].pc \in {"fetch", "stream"} => now - req[w].started < FetchTimeout
    BY DEF Tick, Fetching, At
  <2> QED BY <1>1, <2>1, <2>2, TtlAssumption DEF RequestInv
<1>3. \A u \in DOMAIN entries : EntryInv(entries[u], now')
  BY <1>1 DEF Inv, EntryInv
<1> QED BY <1>1, <1>2, <1>3 DEF Tick, Inv

LEMMA StutterInv == Inv /\ UNCHANGED vars => Inv'
BY DEF Inv, vars

LEMMA HandleInv ==
  ASSUME Inv, NEW w \in Workers, Handle(w)
  PROVE  Inv'
BY HitInv, FindStaleInv, MissInv, EvictInv, OriginAnswersInv, FetchFailsInv,
   ReceiveInv, RespondInv DEF Handle

THEOREM CacheInvariant == Spec => []Inv
<1>1. Inv /\ [Next]_vars => Inv'
  BY BeginInv, HandleInv, PublishInv, TickInv, StutterInv DEF Next
<1> QED BY <1>1, InitInv, PTL DEF Spec

(* The state keeps its shape; the age of a served body is never negative.   *)
THEOREM CacheTypeCorrect == Spec => []TypeOK
<1>1. Inv => TypeOK
  BY DEF Inv, TypeOK, EntryInv, RequestInv
<1> QED BY <1>1, CacheInvariant, PTL

(* No playlist is served more than a TTL and a fetch timeout after the      *)
(* origin gave it out, for every interleaving of lookups, evictions and     *)
(* slow fetches.                                                            *)
THEOREM StalenessBounded == Spec => []BoundedStaleness
<1>1. Inv => BoundedStaleness
  BY DEF Inv, RequestInv, BoundedStaleness, At
<1> QED BY <1>1, CacheInvariant, PTL

(* A request that names a media sequence number is never answered with an   *)
(* older playlist.                                                          *)
THEOREM BlockingServed == Spec => []BlockingGetsItsVersion
<1>1. Inv => BlockingGetsItsVersion
  BY DEF Inv, RequestInv, BlockingGetsItsVersion, At
<1> QED BY <1>1, CacheInvariant, PTL
=============================================================================
