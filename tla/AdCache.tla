------------------------------ MODULE AdCache -------------------------------
(***************************************************************************)
(* The per-session ad cache of the VAST provider (src/ad/vast_provider):   *)
(* get_ad_segments fills it, resolve_segment_with_tracking reads it and    *)
(* marks its entries visited, run_cleanup_cache evicts from it every 60 s. *)
(*                                                                         *)
(* The cache and the break counters are two DashMaps, which lock per       *)
(* operation and never across two.  So a call of get_ad_segments is        *)
(* modelled as its separate map operations (take a break index; then, per  *)
(* creative, read the length and later insert), and a cleanup as its own   *)
(* (retain by age, measure, snapshot, remove one key at a time, measure,   *)
(* collect the active sessions, retain the counters).  An operation over a *)
(* whole map (len, iter, retain) visits its shards in turn; here it is one *)
(* step, as it is for a map of one shard.                                  *)
(*                                                                         *)
(* A successful VAST answer is a "decision": a pod of 1..MaxPod creatives. *)
(* Its creatives are the ads <<decision, index>>.                          *)
(***************************************************************************)
EXTENDS Integers, FiniteSets, Functions

CONSTANTS
  Sessions,        \* session ids, as they come in the request path
  Workers,         \* request tasks that may be inside get_ad_segments at once
  MaxPod,          \* creatives in the longest pod the ad server returns
  MaxCacheSize,    \* MAX_CACHE_SIZE
  MaxAge,          \* MAX_AGE of an entry, in ticks
  OverflowChecks,  \* TRUE: a debug build, where usize subtraction panics
  MaxDecisions,    \* bound: pods the ad server ever returns
  MaxTime          \* bound: ticks of the clock

ASSUME WorkersAssumption   == IsFiniteSet(Workers) /\ Workers # {}
ASSUME CapacityAssumption  == MaxCacheSize \in Nat \ {0}
ASSUME PodAssumption       == MaxPod \in Nat \ {0}
ASSUME AgeAssumption       == MaxAge \in Nat \ {0}
ASSUME BoundsAssumption    == MaxDecisions \in Nat /\ MaxTime \in Nat
ASSUME BuildAssumption     == OverflowChecks \in BOOLEAN

VARIABLES
  now,      \* the monotonic clock (Instant)
  cache,    \* ad_cache: <<session, break, segment>> -> ResolvedCreative
  counter,  \* break_counter: session -> next break index
  calls,    \* the get_ad_segments calls that hold a pod, by worker
  cleaner,  \* the cleanup task
  decided,  \* pods returned so far; numbers the decisions
  handed,   \* history: how often the tracking of each ad was handed out
  epoch     \* history: how often the counter of each session was dropped

vars == <<now, cache, counter, calls, cleaner, decided, handed, epoch>>

-----------------------------------------------------------------------------
Segments  == 0 .. (MaxPod - 1)
Decisions == 1 .. MaxDecisions
Ads       == Decisions \X Segments

(* A cache key stands for "{session}:break-{b}-seg-{i}.ts": session ids     *)
(* hold no ':' (validate_session_id), so the text and the triple agree.     *)
Keys == Sessions \X Nat \X Segments

Entry == [decision : Decisions, total : 1 .. MaxPod, visited : BOOLEAN,
          at : 0 .. MaxTime, epoch : Nat]

Call == [pc : {"counter", "check", "insert"}, session : Sessions,
         decision : Decisions, total : 1 .. MaxPod,
         brk : Nat, epoch : Nat, seg : Segments]

CleanerSteps == {"idle", "age", "size", "snapshot", "trim", "report",
                 "sessions", "counters", "dead"}

CacheLen == Cardinality(DOMAIN cache)

Put(f, x, v) == [y \in DOMAIN f \cup {x} |-> IF y = x THEN v ELSE f[y]]

AdOf(k) == <<cache[k].decision, k[3]>>

Age(k) == now - cache[k].at

Init ==
  /\ now = 0
  /\ cache = [k \in {} |-> 0]
  /\ counter = [s \in {} |-> 0]
  /\ calls = [w \in {} |-> 0]
  /\ cleaner = [pc |-> "idle", before |-> 0, victims |-> {}, active |-> {}]
  /\ decided = 0
  /\ handed = [a \in Ads |-> 0]
  /\ epoch = [s \in Sessions |-> 0]

-----------------------------------------------------------------------------
(* get_ad_segments                                                         *)

(* fetch_vast failed, or answered without a creative: the call returns the  *)
(* slate or nothing before it touches either map.                           *)
NoPod(w, s) ==
  /\ w \notin DOMAIN calls
  /\ UNCHANGED vars

(* fetch_vast returned a pod of n creatives.                                *)
FetchPod(w, s, n) ==
  /\ w \notin DOMAIN calls
  /\ decided < MaxDecisions
  /\ decided' = decided + 1
  /\ calls' = Put(calls, w, [pc |-> "counter", session |-> s,
                             decision |-> decided + 1, total |-> n,
                             brk |-> 0, epoch |-> 0, seg |-> 0])
  /\ UNCHANGED <<now, cache, counter, cleaner, handed, epoch>>

(* Mutant: every pod of a session takes index 0.                            *)
NextIndexStuck(s) == 0

NextIndex(s) == IF s \in DOMAIN counter THEN counter[s] ELSE 0

(* break_counter.entry(..).or_insert(0), read and incremented under the     *)
(* entry's lock.                                                            *)
TakeBreakIndex(w) ==
  /\ w \in DOMAIN calls
  /\ calls[w].pc = "counter"
  /\ LET s == calls[w].session IN
       /\ counter' = Put(counter, s, NextIndex(s) + 1)
       /\ calls' = [calls EXCEPT ![w].pc = "check",
                                 ![w].brk = NextIndex(s),
                                 ![w].epoch = epoch[s]]
  /\ UNCHANGED <<now, cache, cleaner, decided, handed, epoch>>

(* Mutant: `>` for `>=` in the capacity check.                              *)
HasRoomInclusive == CacheLen <= MaxCacheSize

HasRoom == CacheLen < MaxCacheSize

(* The loop moves on to the next creative, or the call returns.             *)
NextSegment(w) ==
  calls' = IF calls[w].seg + 1 < calls[w].total
           THEN [calls EXCEPT ![w].pc = "check", ![w].seg = @ + 1]
           ELSE Restrict(calls, DOMAIN calls \ {w})

(* Mutant: a full cache makes the call wait.                                *)
CheckRoomWaits(w) ==
  /\ w \in DOMAIN calls
  /\ calls[w].pc = "check"
  /\ HasRoom
  /\ calls' = [calls EXCEPT ![w].pc = "insert"]
  /\ UNCHANGED <<now, cache, counter, cleaner, decided, handed, epoch>>

(* The length is read on its own; a full cache skips the insert.            *)
CheckRoom(w) ==
  /\ w \in DOMAIN calls
  /\ calls[w].pc = "check"
  /\ IF HasRoom THEN calls' = [calls EXCEPT ![w].pc = "insert"]
                ELSE NextSegment(w)
  /\ UNCHANGED <<now, cache, counter, cleaner, decided, handed, epoch>>

KeyOf(c) == <<c.session, c.brk, c.seg>>

NewEntry(c) == [decision |-> c.decision, total |-> c.total, visited |-> FALSE,
                at |-> now, epoch |-> c.epoch]

Insert(w) ==
  /\ w \in DOMAIN calls
  /\ calls[w].pc = "insert"
  /\ cache' = Put(cache, KeyOf(calls[w]), NewEntry(calls[w]))
  /\ NextSegment(w)
  /\ UNCHANGED <<now, counter, cleaner, decided, handed, epoch>>

-----------------------------------------------------------------------------
(* Mutant: the entry is not marked visited.                                 *)
ResolveUnmarked(k) ==
  /\ k \in DOMAIN cache
  /\ handed' = IF cache[k].visited THEN handed
               ELSE [handed EXCEPT ![AdOf(k)] = @ + 1]
  /\ UNCHANGED <<now, cache, counter, calls, cleaner, decided, epoch>>

(* resolve_segment_with_tracking: the entry is locked while it is read and  *)
(* marked.  A name that is not cached resolves to None and changes nothing. *)
Resolve(k) ==
  /\ k \in DOMAIN cache
  /\ IF cache[k].visited
     THEN UNCHANGED <<cache, handed>>
     ELSE /\ cache' = [cache EXCEPT ![k].visited = TRUE]
          /\ handed' = [handed EXCEPT ![AdOf(k)] = @ + 1]
  /\ UNCHANGED <<now, counter, calls, cleaner, decided, epoch>>

-----------------------------------------------------------------------------
(* run_cleanup_cache                                                       *)

CleanerAt(pc) == cleaner.pc = pc

CleanStart ==
  /\ CleanerAt("idle")
  /\ cleaner' = [cleaner EXCEPT !.pc = "age", !.before = CacheLen]
  /\ UNCHANGED <<now, cache, counter, calls, decided, handed, epoch>>

Fresh(k) == Age(k) < MaxAge

(* Mutant: an entry exactly MAX_AGE old is kept.                            *)
CleanAgeKeeps ==
  /\ CleanerAt("age")
  /\ cache' = Restrict(cache, {k \in DOMAIN cache : Age(k) <= MaxAge})
  /\ cleaner' = [cleaner EXCEPT !.pc = "size"]
  /\ UNCHANGED <<now, counter, calls, decided, handed, epoch>>

(* Pass 1: retain(elapsed < MAX_AGE).                                       *)
CleanAge ==
  /\ CleanerAt("age")
  /\ cache' = Restrict(cache, {k \in DOMAIN cache : Fresh(k)})
  /\ cleaner' = [cleaner EXCEPT !.pc = "size"]
  /\ UNCHANGED <<now, counter, calls, decided, handed, epoch>>

CleanMeasure ==
  /\ CleanerAt("size")
  /\ cleaner' = [cleaner EXCEPT
                   !.pc = IF CacheLen > MaxCacheSize THEN "snapshot" ELSE "report"]
  /\ UNCHANGED <<now, cache, counter, calls, decided, handed, epoch>>

(* The keys to evict are the oldest of the snapshot, as many as it has      *)
(* above the limit (saturating_sub); the unstable sort breaks ties anyhow.  *)
OldestOverflow(v) ==
  /\ Cardinality(v) = IF CacheLen > MaxCacheSize THEN CacheLen - MaxCacheSize ELSE 0
  /\ \A k \in v, l \in DOMAIN cache \ v : Age(k) >= Age(l)

CleanSnapshot ==
  /\ CleanerAt("snapshot")
  /\ \E v \in SUBSET DOMAIN cache :
       /\ OldestOverflow(v)
       /\ cleaner' = [cleaner EXCEPT !.pc = "trim", !.victims = v]
  /\ UNCHANGED <<now, cache, counter, calls, decided, handed, epoch>>

(* Removal is by key: whatever is stored under it by now goes.              *)
CleanTrim(k) ==
  /\ CleanerAt("trim")
  /\ k \in cleaner.victims
  /\ cache' = Restrict(cache, DOMAIN cache \ {k})
  /\ cleaner' = [cleaner EXCEPT !.victims = @ \ {k}]
  /\ UNCHANGED <<now, counter, calls, decided, handed, epoch>>

CleanTrimmed ==
  /\ CleanerAt("trim")
  /\ cleaner.victims = {}
  /\ cleaner' = [cleaner EXCEPT !.pc = "report"]
  /\ UNCHANGED <<now, cache, counter, calls, decided, handed, epoch>>

(* `before - after` on usize, evaluated whenever the two differ.            *)
Underflows == CacheLen > cleaner.before

CleanReport ==
  /\ CleanerAt("report")
  /\ cleaner' = [cleaner EXCEPT
       !.pc = IF OverflowChecks /\ Underflows THEN "dead" ELSE "sessions"]
  /\ UNCHANGED <<now, cache, counter, calls, decided, handed, epoch>>

CleanSessions ==
  /\ CleanerAt("sessions")
  /\ cleaner' = [cleaner EXCEPT !.pc = "counters",
                                !.active = {k[1] : k \in DOMAIN cache}]
  /\ UNCHANGED <<now, cache, counter, calls, decided, handed, epoch>>

(* Mutant: no counter is dropped.                                           *)
RetainedAll == DOMAIN counter

Retained == DOMAIN counter \cap cleaner.active

CleanCounters ==
  /\ CleanerAt("counters")
  /\ counter' = Restrict(counter, Retained)
  /\ epoch' = [s \in Sessions |-> IF s \in DOMAIN counter \ Retained
                                  THEN epoch[s] + 1 ELSE epoch[s]]
  /\ cleaner' = [cleaner EXCEPT !.pc = "idle", !.before = 0, !.active = {}]
  /\ UNCHANGED <<now, cache, calls, decided, handed>>

-----------------------------------------------------------------------------
Tick ==
  /\ now < MaxTime
  /\ now' = now + 1
  /\ UNCHANGED <<cache, counter, calls, cleaner, decided, handed, epoch>>

GetAdSegments(w) ==
  \/ \E s \in Sessions : NoPod(w, s)
  \/ \E s \in Sessions, n \in 1 .. MaxPod : FetchPod(w, s, n)
  \/ TakeBreakIndex(w)
  \/ CheckRoom(w)
  \/ Insert(w)

Cleanup ==
  \/ CleanStart
  \/ CleanAge
  \/ CleanMeasure
  \/ CleanSnapshot
  \/ \E k \in cleaner.victims : CleanTrim(k)
  \/ CleanTrimmed
  \/ CleanReport
  \/ CleanSessions
  \/ CleanCounters

Next ==
  \/ \E w \in Workers : GetAdSegments(w)
  \/ \E k \in DOMAIN cache : Resolve(k)
  \/ Cleanup
  \/ Tick

Spec == Init /\ [][Next]_vars

(* The cleanup task loops on a timer and never blocks; nothing is assumed   *)
(* about requests.                                                          *)
FairSpec == Spec /\ WF_vars(Cleanup)
-----------------------------------------------------------------------------
(* Properties                                                              *)

(* The state keeps its shape; in particular a call never runs past the last *)
(* creative of its pod, and every cached segment index is one of a pod.     *)
TypeOK ==
  /\ now \in 0 .. MaxTime
  /\ DOMAIN cache \subseteq Keys
  /\ \A k \in DOMAIN cache : cache[k] \in Entry
  /\ DOMAIN counter \subseteq Sessions
  /\ \A s \in DOMAIN counter : counter[s] \in Nat
  /\ DOMAIN calls \subseteq Workers
  /\ \A w \in DOMAIN calls : calls[w] \in Call /\ calls[w].seg < calls[w].total
  /\ cleaner \in [pc : CleanerSteps, before : Nat,
                  victims : SUBSET Keys, active : SUBSET Sessions]
  /\ decided \in 0 .. MaxDecisions
  /\ handed \in [Ads -> Nat]
  /\ epoch \in [Sessions -> Nat]

(* The length check and the insert are separate operations, so the limit   *)
(* can be overshot, but never by more than the calls that passed the check  *)
(* together: the cache holds at most one entry less than MAX_CACHE_SIZE     *)
(* plus the number of concurrent get_ad_segments calls.                     *)
BoundedOvershoot == CacheLen <= MaxCacheSize - 1 + Cardinality(Workers)

(* The tracking of a creative is handed out at most once, whatever the      *)
(* interleaving of its insertion, the ad requests, the evictions and the    *)
(* reuse of its name by a later pod.                                        *)
TrackedAtMostOnce == \A a \in Ads : handed[a] <= 1

(* As long as the session's counter has not been dropped in between, two    *)
(* concurrent calls of a session never share a break index: the entries of  *)
(* one break all come from one decision.                                    *)
NoMixedBreak ==
  \A k, l \in DOMAIN cache :
    /\ k[1] = l[1] /\ k[2] = l[2]
    /\ cache[k].epoch = cache[l].epoch
    => cache[k].decision = cache[l].decision

(* An insert replaces a live entry only when cleanup dropped the session's  *)
(* counter after the old entry's index was taken, and then never brings     *)
(* back an older decision over one of the same epoch.                       *)
NoOverwriteWithinEpoch ==
  [][\A k \in DOMAIN cache \cap DOMAIN cache' :
       cache[k].decision # cache'[k].decision
         => cache[k].epoch # cache'[k].epoch]_vars

HasEntry(s) == \E k \in DOMAIN cache : k[1] = s

(* An entry that has outlived MAX_AGE eventually leaves the cache (or is    *)
(* replaced by a fresh one): the cleanup task keeps running.                *)
StaleEntriesLeave ==
  \A k \in Sessions \X (0 .. (MaxDecisions - 1)) \X Segments :
    (k \in DOMAIN cache /\ ~Fresh(k)) ~> (k \notin DOMAIN cache \/ Fresh(k))

(* The counter of a session without entries is eventually dropped, so the   *)
(* counters of departed viewers do not accumulate.                          *)
IdleCountersLeave ==
  \A s \in Sessions :
    (s \in DOMAIN counter /\ ~HasEntry(s))
      ~> (s \notin DOMAIN counter \/ HasEntry(s))

-----------------------------------------------------------------------------
(* Strengthenings: what makes the invariants above inductive               *)

Inserting == {w \in DOMAIN calls : calls[w].pc = "insert"}

(* A call between its check and its insert already counts.                  *)
LenInv ==
  /\ IsFiniteSet(DOMAIN cache)
  /\ CacheLen + Cardinality(Inserting) <= MaxCacheSize - 1 + Cardinality(Workers)

(* A break index of the session's present epoch is below its counter.       *)
Below(s, b, e) ==
  /\ e <= epoch[s]
  /\ e = epoch[s] => s \in DOMAIN counter /\ b < counter[s]

HasIndex(w) == calls[w].pc # "counter"

IndexInv ==
  /\ \A k \in DOMAIN cache : Below(k[1], k[2], cache[k].epoch)
  /\ \A w \in DOMAIN calls :
       HasIndex(w) => Below(calls[w].session, calls[w].brk, calls[w].epoch)
  /\ NoMixedBreak
  /\ \A k \in DOMAIN cache, w \in DOMAIN calls :
       /\ HasIndex(w)
       /\ k[1] = calls[w].session /\ k[2] = calls[w].brk
       /\ cache[k].epoch = calls[w].epoch
       => cache[k].decision = calls[w].decision
  /\ \A v, w \in DOMAIN calls :
       /\ HasIndex(v) /\ HasIndex(w)
       /\ calls[v].session = calls[w].session /\ calls[v].brk = calls[w].brk
       /\ calls[v].epoch = calls[w].epoch
       => v = w

(* A decision belongs to one call, and its entries to one break, those      *)
(* the call has passed already.                                             *)
DecisionInv ==
  /\ \A k \in DOMAIN cache : cache[k].decision <= decided
  /\ \A w \in DOMAIN calls : calls[w].decision <= decided
  /\ \A v, w \in DOMAIN calls : calls[v].decision = calls[w].decision => v = w
  /\ \A k, l \in DOMAIN cache :
       cache[k].decision = cache[l].decision => k[1] = l[1] /\ k[2] = l[2]
  /\ \A k \in DOMAIN cache, w \in DOMAIN calls :
       cache[k].decision = calls[w].decision
         => /\ HasIndex(w)
            /\ k[1] = calls[w].session /\ k[2] = calls[w].brk
            /\ k[3] < calls[w].seg

(* An ad whose tracking is out is visited wherever it is cached, and no call *)
(* will insert it any more.                                                 *)
HandedInv ==
  \A a \in Ads : handed[a] # 0 =>
    /\ handed[a] = 1
    /\ a[1] <= decided
    /\ \A k \in DOMAIN cache : AdOf(k) = a => cache[k].visited
    /\ \A w \in DOMAIN calls : calls[w].decision = a[1] => a[2] < calls[w].seg

=============================================================================
