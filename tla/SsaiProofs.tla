----------------------------- MODULE SsaiProofs ------------------------------
(***************************************************************************)
(* Proofs about AdCache for every number of sessions and workers, every pod *)
(* and cache size and every bound: the state keeps its type, the cache      *)
(* overshoots its limit by less than the number of concurrent calls, no     *)
(* tracking is handed out twice, and no two decisions share a break of one  *)
(* epoch of a session's counter.                                            *)
(*                                                                         *)
(* And about server-side ad insertion end to end (Ssai).  The playlist     *)
(* handler and the ad handler use the VAST provider only as AdCache says,  *)
(* so what is proved of the cache holds under them; and the first playlist *)
(* of a session names the ads that were decided for it.                    *)
(*                                                                         *)
(* The latter needs the two counts of a break, its position in the         *)
(* playlist and the session's counter, to move together from the first     *)
(* break on; FirstInv says that they do as long as every break got a pod.  *)
(***************************************************************************)
EXTENDS Ssai, FiniteSetTheorems, TLAPS

(***************************************************************************)
(* The ad cache (AdCache)                                                  *)
(***************************************************************************)
USE DEF Segments, Decisions, Ads, Keys, Entry, Call, CleanerSteps

-----------------------------------------------------------------------------
(* Effects of the helpers                                                  *)

(* What the loop's step over a creative does to the calls.                  *)
LEMMA NextSegmentEffect ==
  ASSUME NEW w \in DOMAIN calls, NextSegment(w)
  PROVE  /\ DOMAIN calls' \subseteq DOMAIN calls
         /\ \A v \in DOMAIN calls' : v # w => calls'[v] = calls[v]
         /\ w \in DOMAIN calls' =>
              /\ calls[w].seg + 1 < calls[w].total
              /\ calls'[w] = [calls[w] EXCEPT !.pc = "check", !.seg = @ + 1]
<1>1. CASE calls[w].seg + 1 < calls[w].total
  <2>1. calls' = [calls EXCEPT ![w].pc = "check", ![w].seg = @ + 1]
    BY <1>1 DEF NextSegment
  <2> QED BY <1>1, <2>1
<1>2. CASE ~(calls[w].seg + 1 < calls[w].total)
  BY <1>2 DEF NextSegment, Restrict
<1> QED BY <1>1, <1>2

(* Records that stay records of their set.                                  *)
LEMMA CallUpdate ==
  \A c \in Call :
    /\ [c EXCEPT !.pc = "insert"] \in Call
    /\ \A i \in Segments : [c EXCEPT !.pc = "check", !.seg = i] \in Call
OBVIOUS

LEMMA EntryUpdate == \A e \in Entry : [e EXCEPT !.visited = TRUE] \in Entry
OBVIOUS

-----------------------------------------------------------------------------
(* Type correctness                                                        *)

LEMMA TypeInit == Init => TypeOK
BY CapacityAssumption, PodAssumption, BoundsAssumption DEF Init, TypeOK

LEMMA TypeFetchPod ==
  ASSUME TypeOK, NEW w \in Workers, NEW s \in Sessions, NEW n \in 1 .. MaxPod,
         FetchPod(w, s, n)
  PROVE  TypeOK'
<1> DEFINE c == [pc |-> "counter", session |-> s, decision |-> decided + 1,
                 total |-> n, brk |-> 0, epoch |-> 0, seg |-> 0]
<1>1. c \in Call /\ c.seg < c.total
  BY PodAssumption, BoundsAssumption DEF FetchPod, TypeOK
<1>2. calls' = Put(calls, w, c)
  BY DEF FetchPod
<1>3. DOMAIN calls' = DOMAIN calls \cup {w} /\ calls'[w] = c
      /\ \A v \in DOMAIN calls : v # w => calls'[v] = calls[v]
  <2> HIDE DEF c
  <2> QED BY <1>2 DEF Put
<1>4. \A v \in DOMAIN calls' : calls'[v] \in Call /\ calls'[v].seg < calls'[v].total
  <2> HIDE DEF c
  <2> QED BY <1>1, <1>3 DEF TypeOK
<1>5. decided' \in 0 .. MaxDecisions
  BY BoundsAssumption DEF FetchPod, TypeOK
<1> QED BY <1>3, <1>4, <1>5 DEF FetchPod, TypeOK

LEMMA TypeTakeBreakIndex ==
  ASSUME TypeOK, NEW w \in Workers, TakeBreakIndex(w)
  PROVE  TypeOK'
<1> DEFINE s == calls[w].session
<1>1. w \in DOMAIN calls /\ s \in Sessions /\ NextIndex(s) \in Nat
      /\ epoch[s] \in Nat
  BY DEF TakeBreakIndex, TypeOK, NextIndex
<1>2. counter' = Put(counter, s, NextIndex(s) + 1)
  BY DEF TakeBreakIndex
<1>3. DOMAIN counter' \subseteq Sessions /\ \A t \in DOMAIN counter' : counter'[t] \in Nat
  <2>1. DOMAIN counter' = DOMAIN counter \cup {s} /\ counter'[s] = NextIndex(s) + 1
        /\ \A t \in DOMAIN counter : t # s => counter'[t] = counter[t]
    <3> HIDE DEF s
    <3> QED BY <1>2 DEF Put
  <2> QED BY <1>1, <2>1 DEF TypeOK
<1>4. \A v \in DOMAIN calls' : calls'[v] \in Call /\ calls'[v].seg < calls'[v].total
  BY <1>1 DEF TakeBreakIndex, TypeOK
<1>5. DOMAIN calls' = DOMAIN calls
  BY DEF TakeBreakIndex
<1> QED BY <1>3, <1>4, <1>5 DEF TakeBreakIndex, TypeOK

(* The calls keep their type over the loop's step.                          *)
LEMMA TypeNextSegment ==
  ASSUME TypeOK, NEW w \in DOMAIN calls, NextSegment(w)
  PROVE  /\ DOMAIN calls' \subseteq Workers
         /\ \A v \in DOMAIN calls' :
              calls'[v] \in Call /\ calls'[v].seg < calls'[v].total
<1>1. CASE w \in DOMAIN calls'
  <2>1. calls'[w] = [calls[w] EXCEPT !.pc = "check", !.seg = @ + 1]
        /\ calls[w].seg + 1 < calls[w].total
    BY <1>1, NextSegmentEffect
  <2>2. calls[w] \in Call
    BY DEF TypeOK
  <2>3. calls[w].seg + 1 \in Segments
    BY <2>1, <2>2, PodAssumption
  <2>4. [calls[w] EXCEPT !.pc = "check", !.seg = calls[w].seg + 1] \in Call
    <3> HIDE DEF Call, Segments
    <3> QED BY <2>2, <2>3, CallUpdate
  <2>5. calls'[w] \in Call
    BY <2>1, <2>4
  <2>6. calls'[w].seg < calls'[w].total
    BY <2>1, <2>2
  <2> QED BY <2>5, <2>6, NextSegmentEffect DEF TypeOK
<1>2. CASE w \notin DOMAIN calls'
  BY <1>2, NextSegmentEffect DEF TypeOK
<1> QED BY <1>1, <1>2

LEMMA TypeCheckRoom ==
  ASSUME TypeOK, NEW w \in Workers, CheckRoom(w)
  PROVE  TypeOK'
<1>1. w \in DOMAIN calls
  BY DEF CheckRoom
<1>2. CASE HasRoom
  <2>1. calls' = [calls EXCEPT ![w] = [calls[w] EXCEPT !.pc = "insert"]]
    BY <1>1, <1>2 DEF CheckRoom
  <2>2. calls[w] \in Call /\ calls[w].seg < calls[w].total
    BY <1>1 DEF TypeOK
  <2>3. calls'[w] \in Call /\ calls'[w].seg < calls'[w].total
    BY <1>1, <2>1, <2>2, CallUpdate
  <2> QED BY <1>1, <2>1, <2>3 DEF CheckRoom, TypeOK
<1>3. CASE ~HasRoom
  <2>1. NextSegment(w)
    BY <1>3 DEF CheckRoom
  <2> QED BY <1>1, <2>1, TypeNextSegment DEF CheckRoom, TypeOK
<1> QED BY <1>2, <1>3

LEMMA TypeInsert ==
  ASSUME TypeOK, NEW w \in Workers, Insert(w)
  PROVE  TypeOK'
<1> DEFINE k == KeyOf(calls[w])
           e == NewEntry(calls[w])
<1>1. w \in DOMAIN calls /\ NextSegment(w) /\ cache' = Put(cache, k, e)
  BY DEF Insert
<1>2. k \in Keys /\ e \in Entry
  BY <1>1 DEF TypeOK, KeyOf, NewEntry
<1>3. DOMAIN cache' = DOMAIN cache \cup {k} /\ cache'[k] = e
      /\ \A l \in DOMAIN cache : l # k => cache'[l] = cache[l]
  <2> HIDE DEF k, e
  <2> QED BY <1>1 DEF Put
<1>4. DOMAIN cache' \subseteq Keys /\ \A l \in DOMAIN cache' : cache'[l] \in Entry
  <2> HIDE DEF k, e
  <2> QED BY <1>2, <1>3 DEF TypeOK
<1> QED BY <1>1, <1>4, TypeNextSegment DEF Insert, TypeOK

LEMMA TypeResolve ==
  ASSUME TypeOK, NEW k \in DOMAIN cache, Resolve(k)
  PROVE  TypeOK'
<1>1. CASE cache[k].visited
  BY <1>1 DEF Resolve, TypeOK
<1>2. CASE ~cache[k].visited
  <2>1. AdOf(k) \in Ads
    BY DEF AdOf, TypeOK
  <2>2. handed' \in [Ads -> Nat]
    BY <1>2, <2>1 DEF Resolve, TypeOK
  <2>3. cache' = [cache EXCEPT ![k] = [cache[k] EXCEPT !.visited = TRUE]]
    BY <1>2 DEF Resolve
  <2>4. DOMAIN cache' = DOMAIN cache /\ \A l \in DOMAIN cache' : cache'[l] \in Entry
    BY <2>3, EntryUpdate DEF TypeOK
  <2> QED BY <2>2, <2>4 DEF Resolve, TypeOK
<1> QED BY <1>1, <1>2

LEMMA TypeCleanup ==
  ASSUME TypeOK, IsFiniteSet(DOMAIN cache), Cleanup
  PROVE  TypeOK'
<1>0. CacheLen \in Nat
  BY FS_CardinalityType DEF CacheLen
<1>1. CASE CleanStart
  BY <1>0, <1>1 DEF CleanStart, TypeOK
<1>2. CASE CleanAge
  BY <1>2 DEF CleanAge, TypeOK, Restrict
<1>3. CASE CleanMeasure
  BY <1>3 DEF CleanMeasure, TypeOK
<1>4. CASE CleanSnapshot
  <2>1. PICK v \in SUBSET DOMAIN cache :
          cleaner' = [cleaner EXCEPT !.pc = "trim", !.victims = v]
    BY <1>4 DEF CleanSnapshot
  <2>2. v \in SUBSET Keys
    BY DEF TypeOK
  <2> QED BY <1>4, <2>1, <2>2 DEF CleanSnapshot, TypeOK
<1>5. ASSUME NEW k \in cleaner.victims, CleanTrim(k) PROVE TypeOK'
  BY <1>5 DEF CleanTrim, TypeOK, Restrict
<1>6. CASE CleanTrimmed
  BY <1>6 DEF CleanTrimmed, TypeOK
<1>7. CASE CleanReport
  BY <1>7 DEF CleanReport, TypeOK
<1>8. CASE CleanSessions
  <2>1. {k[1] : k \in DOMAIN cache} \in SUBSET Sessions
    BY DEF TypeOK
  <2> QED BY <1>8, <2>1 DEF CleanSessions, TypeOK
<1>9. CASE CleanCounters
  <2>1. epoch' \in [Sessions -> Nat]
    BY <1>9 DEF CleanCounters, TypeOK
  <2>2. DOMAIN counter' \subseteq Sessions /\ \A s \in DOMAIN counter' : counter'[s] \in Nat
    BY <1>9 DEF CleanCounters, TypeOK, Restrict, Retained
  <2> QED BY <1>9, <2>1, <2>2 DEF CleanCounters, TypeOK
<1> QED BY <1>1, <1>2, <1>3, <1>4, <1>5, <1>6, <1>7, <1>8, <1>9 DEF Cleanup

-----------------------------------------------------------------------------
(* The capacity                                                            *)

LEMMA LenInit == Init => LenInv
<1> SUFFICES ASSUME Init PROVE LenInv
  OBVIOUS
<1>1. DOMAIN cache = {} /\ Inserting = {}
  BY DEF Init, Inserting
<1>2. Cardinality(Workers) \in Nat \ {0}
  BY WorkersAssumption, FS_CardinalityType, FS_EmptySet
<1> QED BY <1>1, <1>2, FS_EmptySet, CapacityAssumption DEF LenInv, CacheLen

LEMMA Cardinalities ==
  ASSUME TypeOK, LenInv
  PROVE  /\ CacheLen \in Nat
         /\ IsFiniteSet(Inserting) /\ Cardinality(Inserting) \in Nat
         /\ Cardinality(Inserting) <= Cardinality(Workers)
         /\ Cardinality(Workers) \in Nat
<1>1. Inserting \in SUBSET Workers
  BY DEF TypeOK, Inserting
<1> QED BY <1>1, WorkersAssumption, FS_Subset, FS_CardinalityType DEF LenInv, CacheLen

(* A step that adds neither an entry nor a call about to insert.            *)
LEMMA LenShrinks ==
  ASSUME TypeOK, LenInv,
         DOMAIN cache' \subseteq DOMAIN cache, Inserting' \subseteq Inserting
  PROVE  LenInv'
<1>1. IsFiniteSet(DOMAIN cache') /\ CacheLen' <= CacheLen
  BY FS_Subset DEF LenInv, CacheLen
<1>2. Cardinality(Inserting') <= Cardinality(Inserting)
  BY Cardinalities, FS_Subset
<1>3. CacheLen' \in Nat /\ Cardinality(Inserting') \in Nat
  BY <1>1, Cardinalities, FS_Subset, FS_CardinalityType DEF CacheLen
<1> QED BY <1>1, <1>2, <1>3, Cardinalities, CapacityAssumption DEF LenInv

LEMMA LenCheckRoom ==
  ASSUME TypeOK, LenInv, NEW w \in Workers, CheckRoom(w)
  PROVE  LenInv'
<1>1. w \in DOMAIN calls /\ cache' = cache
  BY DEF CheckRoom
<1>2. CASE HasRoom
  <2>1. DOMAIN cache' = DOMAIN cache /\ CacheLen' = CacheLen
    BY <1>1 DEF CacheLen
  <2>2. Inserting' \in SUBSET Workers
    BY <1>1, <1>2 DEF CheckRoom, Inserting, TypeOK
  <2>3. Cardinality(Inserting') \in Nat
        /\ Cardinality(Inserting') <= Cardinality(Workers)
    BY <2>2, WorkersAssumption, FS_Subset, FS_CardinalityType
  <2> QED BY <1>2, <2>1, <2>3, Cardinalities, CapacityAssumption
          DEF LenInv, HasRoom
<1>3. CASE ~HasRoom
  <2>1. NextSegment(w)
    BY <1>3 DEF CheckRoom
  <2>2. w \in DOMAIN calls' => calls'[w].pc = "check"
    <3>1. calls[w] \in Call
      BY <1>1 DEF TypeOK
    <3> QED BY <1>1, <2>1, <3>1, NextSegmentEffect DEF Call
  <2>3. Inserting' \subseteq Inserting
    BY <1>1, <2>1, <2>2, NextSegmentEffect DEF Inserting
  <2> QED BY <1>1, <2>3, LenShrinks
<1> QED BY <1>2, <1>3

LEMMA LenInsert ==
  ASSUME TypeOK, LenInv, NEW w \in Workers, Insert(w)
  PROVE  LenInv'
<1> DEFINE k == KeyOf(calls[w])
<1>1. w \in DOMAIN calls /\ w \in Inserting /\ NextSegment(w)
  BY DEF Insert, Inserting
<1>2. DOMAIN cache' = DOMAIN cache \cup {k}
  BY DEF Insert, Put
<1>3. Inserting' \subseteq Inserting \ {w}
  BY <1>1, NextSegmentEffect DEF Inserting, TypeOK
<1>4. IsFiniteSet(DOMAIN cache') /\ CacheLen' <= CacheLen + 1 /\ CacheLen' \in Nat
  <2> HIDE DEF k
  <2>1. /\ IsFiniteSet(DOMAIN cache \cup {k})
        /\ Cardinality(DOMAIN cache \cup {k}) =
             IF k \in DOMAIN cache THEN CacheLen ELSE CacheLen + 1
    BY FS_AddElement DEF LenInv, CacheLen
  <2> QED BY <1>2, <2>1, Cardinalities DEF CacheLen
<1>5. Cardinality(Inserting') <= Cardinality(Inserting) - 1
      /\ Cardinality(Inserting') \in Nat
  BY <1>1, <1>3, Cardinalities, FS_RemoveElement, FS_Subset, FS_CardinalityType
<1> QED BY <1>4, <1>5, Cardinalities, CapacityAssumption DEF LenInv

LEMMA LenNext == TypeOK /\ LenInv /\ [Next]_vars => LenInv'
<1> SUFFICES ASSUME TypeOK, LenInv, [Next]_vars PROVE LenInv'
  OBVIOUS
<1>1. ASSUME NEW w \in Workers, NEW s \in Sessions, NEW n \in 1 .. MaxPod,
             FetchPod(w, s, n)
      PROVE LenInv'
  <2>1. Inserting' \subseteq Inserting /\ cache' = cache
    BY <1>1 DEF FetchPod, Inserting, Put
  <2> QED BY <2>1, LenShrinks
<1>2. ASSUME NEW w \in Workers, TakeBreakIndex(w) PROVE LenInv'
  <2>1. Inserting' \subseteq Inserting /\ cache' = cache
    BY <1>2 DEF TakeBreakIndex, Inserting, TypeOK
  <2> QED BY <2>1, LenShrinks
<1>3. ASSUME NEW w \in Workers, CheckRoom(w) PROVE LenInv'
  BY <1>3, LenCheckRoom
<1>4. ASSUME NEW w \in Workers, Insert(w) PROVE LenInv'
  BY <1>4, LenInsert
<1>5. ASSUME NEW k \in DOMAIN cache, Resolve(k) PROVE LenInv'
  <2>1. Inserting' = Inserting /\ DOMAIN cache' = DOMAIN cache
    BY <1>5 DEF Resolve, Inserting
  <2> QED BY <2>1, LenShrinks
<1>6. CASE Cleanup
  <2>1. calls' = calls /\ DOMAIN cache' \subseteq DOMAIN cache
    BY <1>6 DEF Cleanup, CleanStart, CleanAge, CleanMeasure, CleanSnapshot,
       CleanTrim, CleanTrimmed, CleanReport, CleanSessions, CleanCounters,
       Restrict
  <2> QED BY <2>1, LenShrinks DEF Inserting
<1>7. CASE Tick \/ UNCHANGED vars
  <2>1. calls' = calls /\ cache' = cache
    BY <1>7 DEF Tick, vars
  <2> QED BY <2>1, LenShrinks DEF Inserting
<1>8. ASSUME NEW w \in Workers, NEW s \in Sessions, NoPod(w, s) PROVE LenInv'
  BY <1>7, <1>8 DEF NoPod
<1> QED BY <1>1, <1>2, <1>3, <1>4, <1>5, <1>6, <1>7, <1>8
        DEF Next, GetAdSegments

-----------------------------------------------------------------------------
(* The first theorems                                                      *)

LEMMA TypeNext == TypeOK /\ LenInv /\ [Next]_vars => TypeOK'
<1> SUFFICES ASSUME TypeOK, LenInv, [Next]_vars PROVE TypeOK'
  OBVIOUS
<1>1. CASE UNCHANGED vars
  BY <1>1 DEF vars, TypeOK
<1>2. ASSUME NEW w \in Workers, GetAdSegments(w) PROVE TypeOK'
  BY <1>1, <1>2, TypeFetchPod, TypeTakeBreakIndex, TypeCheckRoom, TypeInsert
     DEF GetAdSegments, NoPod
<1>3. ASSUME NEW k \in DOMAIN cache, Resolve(k) PROVE TypeOK'
  BY <1>3, TypeResolve
<1>4. CASE Cleanup
  BY <1>4, TypeCleanup DEF LenInv
<1>5. CASE Tick
  BY <1>5, BoundsAssumption DEF Tick, TypeOK
<1> QED BY <1>1, <1>2, <1>3, <1>4, <1>5 DEF Next

(* Both hold together: the length is a number only while the cache is       *)
(* finite, and the length invariant needs the calls to be those of workers. *)
THEOREM TypeAndLen == Spec => [](TypeOK /\ LenInv)
<1>1. Init => TypeOK /\ LenInv
  BY TypeInit, LenInit
<1>2. TypeOK /\ LenInv /\ [Next]_vars => (TypeOK /\ LenInv)'
  BY TypeNext, LenNext
<1> QED BY <1>1, <1>2, PTL DEF Spec

(* Every reachable state of the ad cache has the declared shape.            *)
THEOREM TypeCorrect == Spec => []TypeOK
<1> QED BY TypeAndLen, PTL

(* The capacity check of get_ad_segments, although apart from the insert,   *)
(* keeps the cache below MAX_CACHE_SIZE plus the number of concurrent calls. *)
THEOREM Overshoot == Spec => []BoundedOvershoot
<1>1. TypeOK /\ LenInv => BoundedOvershoot
  <2> SUFFICES ASSUME TypeOK, LenInv PROVE BoundedOvershoot
    OBVIOUS
  <2> QED BY Cardinalities, CapacityAssumption DEF LenInv, BoundedOvershoot
<1> QED BY <1>1, TypeAndLen, PTL

-----------------------------------------------------------------------------
(* Break indices                                                           *)

(* A step after which every call and every entry is one from before it.     *)
CallsKept ==
  \A w \in DOMAIN calls' :
    /\ w \in DOMAIN calls
    /\ calls'[w].session = calls[w].session /\ calls'[w].brk = calls[w].brk
    /\ calls'[w].epoch = calls[w].epoch
    /\ calls'[w].decision = calls[w].decision
    /\ calls'[w].seg >= calls[w].seg
    /\ (calls'[w].pc = "counter") = (calls[w].pc = "counter")

EntriesKept ==
  \A k \in DOMAIN cache' :
    /\ k \in DOMAIN cache
    /\ cache'[k].epoch = cache[k].epoch
    /\ cache'[k].decision = cache[k].decision

LEMMA NextSegmentKeeps ==
  ASSUME TypeOK, NEW w \in DOMAIN calls, calls[w].pc # "counter", NextSegment(w)
  PROVE  CallsKept
<1>1. \A v \in DOMAIN calls : calls[v] \in Call /\ calls[v].seg \in Int
  BY DEF TypeOK
<1>2. DOMAIN calls' \subseteq DOMAIN calls
      /\ \A v \in DOMAIN calls' : v # w => calls'[v] = calls[v]
  BY NextSegmentEffect
<1>3. CASE w \in DOMAIN calls'
  <2>1. calls'[w] = [calls[w] EXCEPT !.pc = "check", !.seg = @ + 1]
    BY <1>3, NextSegmentEffect
  <2>2. /\ calls'[w].session = calls[w].session /\ calls'[w].brk = calls[w].brk
        /\ calls'[w].epoch = calls[w].epoch
        /\ calls'[w].decision = calls[w].decision
        /\ calls'[w].seg >= calls[w].seg /\ calls'[w].pc = "check"
    BY <1>1, <2>1
  <2> QED BY <1>1, <1>2, <2>2 DEF CallsKept
<1>4. CASE w \notin DOMAIN calls'
  BY <1>1, <1>2, <1>4 DEF CallsKept
<1> QED BY <1>3, <1>4

LEMMA CheckRoomKeeps ==
  ASSUME TypeOK, NEW w \in Workers, CheckRoom(w)
  PROVE  CallsKept
<1>1. CASE HasRoom
  <2>1. w \in DOMAIN calls /\ calls[w].pc = "check"
        /\ calls' = [calls EXCEPT ![w].pc = "insert"]
    BY <1>1 DEF CheckRoom
  <2> QED BY <2>1 DEF CallsKept, TypeOK
<1>2. CASE ~HasRoom
  BY <1>2, NextSegmentKeeps DEF CheckRoom
<1> QED BY <1>1, <1>2

LEMMA CleanupKeeps ==
  ASSUME Cleanup
  PROVE  /\ calls' = calls /\ handed' = handed /\ decided' = decided
         /\ DOMAIN cache' \subseteq DOMAIN cache
         /\ \A k \in DOMAIN cache' : cache'[k] = cache[k]
BY DEF Cleanup, CleanStart, CleanAge, CleanMeasure, CleanSnapshot, CleanTrim,
   CleanTrimmed, CleanReport, CleanSessions, CleanCounters, Restrict

LEMMA ResolveKeeps ==
  ASSUME TypeOK, NEW k \in DOMAIN cache, Resolve(k)
  PROVE  /\ DOMAIN cache' = DOMAIN cache
         /\ cache'[k].visited
         /\ \A l \in DOMAIN cache :
              /\ cache'[l].epoch = cache[l].epoch
              /\ cache'[l].decision = cache[l].decision
              /\ l # k => cache'[l].visited = cache[l].visited
BY DEF Resolve, TypeOK

LEMMA StutterKeeps == TypeOK /\ calls' = calls => CallsKept
BY DEF CallsKept, TypeOK

(* With the counters untouched, nothing about the indices changes.          *)
LEMMA IndexKept ==
  ASSUME IndexInv, CallsKept, EntriesKept, counter' = counter, epoch' = epoch
  PROVE  IndexInv'
<1>1. \A k \in DOMAIN cache' : Below(k[1], k[2], cache[k].epoch)'
  BY DEF IndexInv, EntriesKept, Below
<1>2. \A w \in DOMAIN calls' :
        HasIndex(w)' => Below(calls[w].session, calls[w].brk, calls[w].epoch)'
  BY DEF IndexInv, CallsKept, Below, HasIndex
<1>3. NoMixedBreak'
  BY DEF IndexInv, EntriesKept, NoMixedBreak
<1> QED BY <1>1, <1>2, <1>3 DEF IndexInv, EntriesKept, CallsKept, HasIndex

LEMMA IndexFetchPod ==
  ASSUME TypeOK, IndexInv, NEW w \in Workers, NEW s \in Sessions,
         NEW n \in 1 .. MaxPod, FetchPod(w, s, n)
  PROVE  IndexInv'
<1>1. /\ DOMAIN calls' = DOMAIN calls \cup {w}
      /\ calls'[w].pc = "counter"
      /\ \A v \in DOMAIN calls : calls'[v] = calls[v]
  BY DEF FetchPod, Put
<1>2. UNCHANGED <<cache, counter, epoch>>
  BY DEF FetchPod
<1>3. ASSUME NEW v \in DOMAIN calls', HasIndex(v)'
      PROVE  v \in DOMAIN calls /\ HasIndex(v) /\ calls'[v] = calls[v]
  BY <1>1, <1>3 DEF HasIndex
<1> QED BY <1>2, <1>3 DEF IndexInv, Below, NoMixedBreak

LEMMA IndexTakeBreakIndex ==
  ASSUME TypeOK, IndexInv, NEW w \in Workers, TakeBreakIndex(w)
  PROVE  IndexInv'
<1> DEFINE s == calls[w].session
<1>1. /\ w \in DOMAIN calls /\ s \in Sessions /\ ~HasIndex(w)
      /\ NextIndex(s) \in Nat /\ epoch[s] \in Nat
  BY DEF TakeBreakIndex, TypeOK, NextIndex, HasIndex
<1>2. /\ DOMAIN counter' = DOMAIN counter \cup {s}
      /\ counter'[s] = NextIndex(s) + 1
      /\ \A t \in DOMAIN counter : t # s => counter'[t] = counter[t]
      /\ UNCHANGED <<cache, epoch>>
  BY DEF TakeBreakIndex, Put
<1>3. /\ DOMAIN calls' = DOMAIN calls
      /\ \A v \in DOMAIN calls : v # w => calls'[v] = calls[v]
      /\ calls'[w].session = s /\ calls'[w].brk = NextIndex(s)
      /\ calls'[w].epoch = epoch[s]
  BY <1>1 DEF TakeBreakIndex, TypeOK
(* What was below the counter is below its new value, and not the index.    *)
<1>4. ASSUME NEW t \in Sessions, NEW b \in Nat, NEW e \in Nat, Below(t, b, e)
      PROVE  /\ Below(t, b, e)'
             /\ t = s /\ e = epoch[s] => b # NextIndex(s)
  <2>1. CASE t = s
    BY <1>1, <1>2, <1>4, <2>1 DEF Below, NextIndex, TypeOK
  <2>2. CASE t # s
    BY <1>2, <1>4, <2>2 DEF Below, TypeOK
  <2> QED BY <2>1, <2>2
<1>5. ASSUME NEW k \in DOMAIN cache
      PROVE  /\ Below(k[1], k[2], cache[k].epoch)'
             /\ k[1] = s /\ cache[k].epoch = epoch[s] => k[2] # NextIndex(s)
  <2>1. k[1] \in Sessions /\ k[2] \in Nat /\ cache[k].epoch \in Nat
    BY DEF TypeOK
  <2>2. Below(k[1], k[2], cache[k].epoch)
    BY DEF IndexInv
  <2> HIDE DEF s
  <2> QED BY <1>2, <1>4, <2>1, <2>2 DEF Below
<1>6. ASSUME NEW v \in DOMAIN calls, v # w, HasIndex(v)'
      PROVE  /\ HasIndex(v)
             /\ Below(calls[v].session, calls[v].brk, calls[v].epoch)'
             /\ calls[v].session = s /\ calls[v].epoch = epoch[s]
                  => calls[v].brk # NextIndex(s)
  <2>1. HasIndex(v) /\ calls'[v] = calls[v]
    BY <1>3, <1>6 DEF HasIndex
  <2>2. calls[v].session \in Sessions /\ calls[v].brk \in Nat /\ calls[v].epoch \in Nat
    BY DEF TypeOK
  <2>3. Below(calls[v].session, calls[v].brk, calls[v].epoch)
    BY <2>1 DEF IndexInv
  <2> HIDE DEF s
  <2> QED BY <1>2, <1>4, <2>1, <2>2, <2>3 DEF Below
<1>7. Below(calls[w].session, calls[w].brk, calls[w].epoch)'
  BY <1>1, <1>2, <1>3 DEF Below
<1>8. NoMixedBreak'
  BY <1>2 DEF IndexInv, NoMixedBreak
<1>9. \A k \in DOMAIN cache : Below(k[1], k[2], cache[k].epoch)'
  BY <1>5
<1>10. \A v \in DOMAIN calls :
         HasIndex(v)' => Below(calls[v].session, calls[v].brk, calls[v].epoch)'
  BY <1>6, <1>7
<1>11. \A k \in DOMAIN cache, v \in DOMAIN calls :
         /\ HasIndex(v)'
         /\ k[1] = calls'[v].session /\ k[2] = calls'[v].brk
         /\ cache[k].epoch = calls'[v].epoch
         => cache[k].decision = calls'[v].decision
  <2> HIDE DEF s
  <2> QED BY <1>3, <1>5, <1>6 DEF IndexInv
<1>12. \A u, v \in DOMAIN calls :
         /\ HasIndex(u)' /\ HasIndex(v)'
         /\ calls'[u].session = calls'[v].session /\ calls'[u].brk = calls'[v].brk
         /\ calls'[u].epoch = calls'[v].epoch
         => u = v
  <2> HIDE DEF s
  <2> QED BY <1>3, <1>6 DEF IndexInv
<1> QED BY <1>2, <1>3, <1>8, <1>9, <1>10, <1>11, <1>12 DEF IndexInv

(* What an insert stores, and that it leaves the calls alone otherwise.     *)
LEMMA InsertEffect ==
  ASSUME TypeOK, NEW w \in Workers, Insert(w)
  PROVE  LET k == <<calls[w].session, calls[w].brk, calls[w].seg>> IN
         /\ w \in DOMAIN calls /\ HasIndex(w)
         /\ CallsKept
         /\ DOMAIN cache' = DOMAIN cache \cup {k}
         /\ cache'[k].decision = calls[w].decision
         /\ cache'[k].epoch = calls[w].epoch
         /\ ~cache'[k].visited
         /\ \A l \in DOMAIN cache : l # k => cache'[l] = cache[l]
<1> DEFINE k == <<calls[w].session, calls[w].brk, calls[w].seg>>
           e == NewEntry(calls[w])
<1>1. w \in DOMAIN calls /\ HasIndex(w)
  BY DEF Insert, HasIndex
<1>2. CallsKept
  BY <1>1, NextSegmentKeeps DEF Insert, HasIndex
<1>3. cache' = Put(cache, k, e)
  BY DEF Insert, KeyOf
<1>4. /\ DOMAIN cache' = DOMAIN cache \cup {k}
      /\ cache'[k] = e
      /\ \A l \in DOMAIN cache : l # k => cache'[l] = cache[l]
  <2> HIDE DEF k, e
  <2> QED BY <1>3 DEF Put
<1>5. e.decision = calls[w].decision /\ e.epoch = calls[w].epoch /\ ~e.visited
  BY DEF NewEntry
<1> HIDE DEF e
<1> QED BY <1>1, <1>2, <1>4, <1>5

LEMMA IndexInsert ==
  ASSUME TypeOK, IndexInv, NEW w \in Workers, Insert(w)
  PROVE  IndexInv'
<1> DEFINE k == <<calls[w].session, calls[w].brk, calls[w].seg>>
<1>1. /\ w \in DOMAIN calls /\ HasIndex(w)
      /\ CallsKept
      /\ DOMAIN cache' = DOMAIN cache \cup {k}
      /\ cache'[k].decision = calls[w].decision
      /\ cache'[k].epoch = calls[w].epoch
      /\ \A l \in DOMAIN cache : l # k => cache'[l] = cache[l]
  BY InsertEffect
<1>2. k[1] = calls[w].session /\ k[2] = calls[w].brk
  OBVIOUS
<1>3. UNCHANGED <<counter, epoch>>
  BY DEF Insert
<1> HIDE DEF k
<1>4. \A l \in DOMAIN cache' : Below(l[1], l[2], cache[l].epoch)'
  BY <1>1, <1>2, <1>3 DEF IndexInv, Below
<1>5. \A v \in DOMAIN calls' :
        HasIndex(v)' => Below(calls[v].session, calls[v].brk, calls[v].epoch)'
  BY <1>1, <1>3 DEF IndexInv, CallsKept, Below, HasIndex
<1>6. NoMixedBreak'
  BY <1>1, <1>2 DEF IndexInv, NoMixedBreak
(* The new entry agrees with the other calls: two of them share no index.   *)
<1>7. \A l \in DOMAIN cache', v \in DOMAIN calls' :
        /\ HasIndex(v)'
        /\ l[1] = calls'[v].session /\ l[2] = calls'[v].brk
        /\ cache'[l].epoch = calls'[v].epoch
        => cache'[l].decision = calls'[v].decision
  BY <1>1, <1>2 DEF IndexInv, CallsKept, HasIndex
<1>8. \A u, v \in DOMAIN calls' :
        /\ HasIndex(u)' /\ HasIndex(v)'
        /\ calls'[u].session = calls'[v].session /\ calls'[u].brk = calls'[v].brk
        /\ calls'[u].epoch = calls'[v].epoch
        => u = v
  BY <1>1 DEF IndexInv, CallsKept, HasIndex
<1> QED BY <1>4, <1>5, <1>6, <1>7, <1>8 DEF IndexInv

LEMMA IndexCleanCounters ==
  ASSUME TypeOK, IndexInv, CleanCounters
  PROVE  IndexInv'
<1>1. UNCHANGED <<cache, calls>>
  BY DEF CleanCounters
(* A session that loses its counter moves on to an epoch nobody has.        *)
<1>2. ASSUME NEW s \in Sessions, NEW b \in Nat, NEW e \in Nat, Below(s, b, e)
      PROVE  Below(s, b, e)'
  <2>1. epoch[s] \in Nat /\ epoch'[s] =
          IF s \in DOMAIN counter \ Retained THEN epoch[s] + 1 ELSE epoch[s]
    BY DEF CleanCounters, TypeOK
  <2>2. s \in Retained => s \in DOMAIN counter' /\ counter'[s] = counter[s]
    BY DEF CleanCounters, Restrict
  <2> QED BY <1>2, <2>1, <2>2 DEF Below
<1>3. ASSUME NEW k \in DOMAIN cache
      PROVE  Below(k[1], k[2], cache[k].epoch)'
  <2>1. k[1] \in Sessions /\ k[2] \in Nat /\ cache[k].epoch \in Nat
    BY DEF TypeOK
  <2> QED BY <1>1, <1>2, <2>1 DEF IndexInv, Below
<1>4. ASSUME NEW w \in DOMAIN calls, HasIndex(w)
      PROVE  Below(calls[w].session, calls[w].brk, calls[w].epoch)'
  <2>1. /\ calls[w].session \in Sessions /\ calls[w].brk \in Nat
        /\ calls[w].epoch \in Nat
    BY DEF TypeOK
  <2> QED BY <1>1, <1>2, <1>4, <2>1 DEF IndexInv, Below
<1> QED BY <1>1, <1>3, <1>4 DEF IndexInv, NoMixedBreak, HasIndex

LEMMA IndexNext == TypeOK /\ IndexInv /\ [Next]_vars => IndexInv'
<1> SUFFICES ASSUME TypeOK, IndexInv, [Next]_vars PROVE IndexInv'
  OBVIOUS
<1>1. CASE UNCHANGED vars
  BY <1>1, StutterKeeps, IndexKept DEF vars, EntriesKept
<1>2. ASSUME NEW w \in Workers, CheckRoom(w) PROVE IndexInv'
  BY <1>2, CheckRoomKeeps, IndexKept DEF CheckRoom, EntriesKept
<1>3. ASSUME NEW w \in Workers, GetAdSegments(w) PROVE IndexInv'
  BY <1>1, <1>2, <1>3, IndexFetchPod, IndexTakeBreakIndex, IndexInsert
     DEF GetAdSegments, NoPod
<1>4. ASSUME NEW k \in DOMAIN cache, Resolve(k) PROVE IndexInv'
  <2>1. EntriesKept
    BY <1>4, ResolveKeeps DEF EntriesKept
  <2> QED BY <1>4, <2>1, StutterKeeps, IndexKept DEF Resolve
<1>5. CASE Cleanup
  <2>1. CASE CleanCounters
    BY <2>1, IndexCleanCounters
  <2>2. CASE ~CleanCounters
    <3>1. counter' = counter /\ epoch' = epoch
      BY <1>5, <2>2 DEF Cleanup, CleanStart, CleanAge, CleanMeasure,
         CleanSnapshot, CleanTrim, CleanTrimmed, CleanReport, CleanSessions
    <3>2. EntriesKept
      BY <1>5, CleanupKeeps DEF EntriesKept
    <3> QED BY <1>5, <3>1, <3>2, CleanupKeeps, StutterKeeps, IndexKept
  <2> QED BY <2>1, <2>2
<1>6. CASE Tick
  BY <1>6, StutterKeeps, IndexKept DEF Tick, EntriesKept
<1> QED BY <1>1, <1>3, <1>4, <1>5, <1>6 DEF Next

LEMMA IndexInit == Init => IndexInv
BY DEF Init, IndexInv, NoMixedBreak

THEOREM IndexInvariant == Spec => []IndexInv
<1>1. TypeOK /\ IndexInv /\ [Next]_vars => IndexInv'
  BY IndexNext
<1> QED BY <1>1, IndexInit, TypeAndLen, PTL DEF Spec

(* No two decisions ever share the entries of one break of one counter      *)
(* epoch: the counter serves concurrent manifest requests of a session.     *)
THEOREM BreaksUnmixed == Spec => []NoMixedBreak
<1>1. IndexInv => NoMixedBreak
  BY DEF IndexInv
<1> QED BY <1>1, IndexInvariant, PTL

(* An insert that meets a live entry of its own break and epoch meets one   *)
(* of its own decision; every other live entry under the name is stale.     *)
THEOREM NoOverwrite == Spec => NoOverwriteWithinEpoch
<1> DEFINE Safe == \A k \in DOMAIN cache \cap DOMAIN cache' :
                     cache[k].decision # cache'[k].decision
                       => cache[k].epoch # cache'[k].epoch
<1>1. ASSUME TypeOK, IndexInv, [Next]_vars PROVE [Safe]_vars
  <2>1. ASSUME NEW w \in Workers, Insert(w) PROVE Safe
    <3> DEFINE k == <<calls[w].session, calls[w].brk, calls[w].seg>>
    <3>1. /\ w \in DOMAIN calls /\ HasIndex(w)
          /\ cache'[k].decision = calls[w].decision
          /\ cache'[k].epoch = calls[w].epoch
          /\ \A l \in DOMAIN cache : l # k => cache'[l] = cache[l]
      BY <1>1, <2>1, InsertEffect
    <3>2. k[1] = calls[w].session /\ k[2] = calls[w].brk
      OBVIOUS
    <3> HIDE DEF k
    <3> QED BY <1>1, <3>1, <3>2 DEF IndexInv
  <2>2. ASSUME NEW w \in Workers, GetAdSegments(w), ~Insert(w) PROVE Safe
    <3>1. cache' = cache
      BY <2>2 DEF GetAdSegments, NoPod, FetchPod, TakeBreakIndex, CheckRoom, vars
    <3> QED BY <3>1
  <2>3. ASSUME NEW k \in DOMAIN cache, Resolve(k) PROVE Safe
    BY <1>1, <2>3, ResolveKeeps
  <2>4. CASE Cleanup
    BY <2>4, CleanupKeeps
  <2>5. CASE Tick
    BY <2>5 DEF Tick
  <2> QED BY <1>1, <2>1, <2>2, <2>3, <2>4, <2>5 DEF Next
<1>2. TypeOK /\ IndexInv /\ [Next]_vars => [Safe]_vars
  BY <1>1
<1> QED BY <1>2, TypeAndLen, IndexInvariant, PTL DEF Spec, NoOverwriteWithinEpoch

-----------------------------------------------------------------------------
(* Tracking                                                                *)

LEMMA DecisionInit == Init => DecisionInv
BY DEF Init, DecisionInv

LEMMA DecisionKept ==
  ASSUME TypeOK, TypeOK', DecisionInv, CallsKept, EntriesKept, decided' = decided
  PROVE  DecisionInv'
<1>1. \A w \in DOMAIN calls, i \in Nat :
        w \in DOMAIN calls' /\ i < calls[w].seg => i < calls'[w].seg
  BY DEF CallsKept, TypeOK
<1>2. \A k \in DOMAIN cache : k[3] \in Nat
  BY DEF TypeOK
<1>3. \A k \in DOMAIN cache', w \in DOMAIN calls' :
        cache'[k].decision = calls'[w].decision
          => /\ HasIndex(w)'
             /\ k[1] = calls'[w].session /\ k[2] = calls'[w].brk
             /\ k[3] < calls'[w].seg
  BY <1>1, <1>2 DEF DecisionInv, CallsKept, EntriesKept, HasIndex
<1> QED BY <1>3 DEF DecisionInv, CallsKept, EntriesKept

LEMMA DecisionFetchPod ==
  ASSUME TypeOK, DecisionInv, NEW w \in Workers, NEW s \in Sessions,
         NEW n \in 1 .. MaxPod, FetchPod(w, s, n)
  PROVE  DecisionInv'
<1>1. /\ w \notin DOMAIN calls
      /\ DOMAIN calls' = DOMAIN calls \cup {w}
      /\ calls'[w].decision = decided + 1
      /\ \A v \in DOMAIN calls : calls'[v] = calls[v]
      /\ cache' = cache /\ decided' = decided + 1
  BY DEF FetchPod, Put
<1>2. /\ decided \in Int
      /\ \A k \in DOMAIN cache : cache[k].decision \in Int
      /\ \A v \in DOMAIN calls : calls[v].decision \in Int
  BY DEF TypeOK
<1>3. /\ \A k \in DOMAIN cache : cache[k].decision < decided + 1
      /\ \A v \in DOMAIN calls : calls[v].decision < decided + 1
  BY <1>2 DEF DecisionInv
<1>4. \A v \in DOMAIN calls : HasIndex(v)' = HasIndex(v)
  BY <1>1 DEF HasIndex
<1>5. /\ \A k \in DOMAIN cache : cache[k].decision # decided + 1
      /\ \A v \in DOMAIN calls : calls[v].decision # decided + 1
  BY <1>2, <1>3
<1>6. /\ \A k \in DOMAIN cache' : cache'[k].decision <= decided'
      /\ \A v \in DOMAIN calls' : calls'[v].decision <= decided'
  BY <1>1, <1>2, <1>3
<1> QED BY <1>1, <1>4, <1>5, <1>6 DEF DecisionInv

LEMMA DecisionTakeBreakIndex ==
  ASSUME TypeOK, DecisionInv, NEW w \in Workers, TakeBreakIndex(w)
  PROVE  DecisionInv'
<1>1. /\ w \in DOMAIN calls /\ ~HasIndex(w)
      /\ DOMAIN calls' = DOMAIN calls
      /\ \A v \in DOMAIN calls : v # w => calls'[v] = calls[v]
      /\ calls'[w].decision = calls[w].decision
      /\ UNCHANGED <<cache, decided>>
  BY DEF TakeBreakIndex, HasIndex, TypeOK
<1>2. \A v \in DOMAIN calls : v # w => HasIndex(v)' = HasIndex(v)
  BY <1>1 DEF HasIndex
(* A call without an index has no entry yet.                                *)
<1>3. \A k \in DOMAIN cache : cache[k].decision # calls[w].decision
  BY <1>1 DEF DecisionInv
<1> QED BY <1>1, <1>2, <1>3 DEF DecisionInv

(* The call that stored a segment has moved past it, if it still runs.      *)
LEMMA InsertMovesOn ==
  ASSUME TypeOK, NEW w \in Workers, Insert(w), w \in DOMAIN calls'
  PROVE  calls'[w].seg = calls[w].seg + 1
<1>1. w \in DOMAIN calls /\ NextSegment(w)
  BY DEF Insert
<1>2. calls'[w] = [calls[w] EXCEPT !.pc = "check", !.seg = @ + 1]
  BY <1>1, NextSegmentEffect
<1>3. calls[w] \in Call
  BY <1>1 DEF TypeOK
<1> QED BY <1>2, <1>3

LEMMA DecisionInsert ==
  ASSUME TypeOK, TypeOK', DecisionInv, NEW w \in Workers, Insert(w)
  PROVE  DecisionInv'
<1> DEFINE k == <<calls[w].session, calls[w].brk, calls[w].seg>>
<1>1. /\ w \in DOMAIN calls /\ HasIndex(w)
      /\ CallsKept
      /\ DOMAIN cache' = DOMAIN cache \cup {k}
      /\ cache'[k].decision = calls[w].decision
      /\ \A l \in DOMAIN cache : l # k => cache'[l] = cache[l]
  BY InsertEffect
<1>2. /\ k[1] = calls[w].session /\ k[2] = calls[w].brk /\ k[3] = calls[w].seg
      /\ calls[w].seg \in Nat
  BY <1>1 DEF TypeOK
<1>3. decided' = decided
  BY DEF Insert
<1>4. w \in DOMAIN calls' => calls[w].seg < calls'[w].seg
  BY <1>2, InsertMovesOn
<1>5. \A v \in DOMAIN calls, i \in Nat :
        v \in DOMAIN calls' /\ i < calls[v].seg => i < calls'[v].seg
  BY <1>1 DEF CallsKept, TypeOK
<1>6. \A l \in DOMAIN cache : l[3] \in Nat
  BY DEF TypeOK
<1> HIDE DEF k
<1>7. \A l \in DOMAIN cache', v \in DOMAIN calls' :
        cache'[l].decision = calls'[v].decision
          => /\ HasIndex(v)'
             /\ l[1] = calls'[v].session /\ l[2] = calls'[v].brk
             /\ l[3] < calls'[v].seg
  <2> SUFFICES ASSUME NEW l \in DOMAIN cache', NEW v \in DOMAIN calls',
                      cache'[l].decision = calls'[v].decision
               PROVE  /\ HasIndex(v)'
                      /\ l[1] = calls'[v].session /\ l[2] = calls'[v].brk
                      /\ l[3] < calls'[v].seg
    OBVIOUS
  <2>1. CASE l = k
    <3>1. v = w
      BY <1>1, <2>1 DEF DecisionInv, CallsKept
    <3> QED BY <1>1, <1>2, <1>4, <2>1, <3>1 DEF CallsKept, HasIndex
  <2>2. CASE l # k
    BY <1>1, <1>5, <1>6, <2>2 DEF DecisionInv, CallsKept, HasIndex
  <2> QED BY <2>1, <2>2
<1>8. \A l, m \in DOMAIN cache' :
        cache'[l].decision = cache'[m].decision => l[1] = m[1] /\ l[2] = m[2]
  BY <1>1, <1>2 DEF DecisionInv
<1>9. \A l \in DOMAIN cache' : cache'[l].decision <= decided'
  BY <1>1, <1>3 DEF DecisionInv
<1> QED BY <1>1, <1>3, <1>7, <1>8, <1>9 DEF DecisionInv, CallsKept

LEMMA DecisionNext ==
  TypeOK /\ TypeOK' /\ DecisionInv /\ [Next]_vars => DecisionInv'
<1> SUFFICES ASSUME TypeOK, TypeOK', DecisionInv, [Next]_vars PROVE DecisionInv'
  OBVIOUS
<1>1. CASE UNCHANGED vars
  BY <1>1, StutterKeeps, DecisionKept DEF vars, EntriesKept
<1>2. ASSUME NEW w \in Workers, CheckRoom(w) PROVE DecisionInv'
  BY <1>2, CheckRoomKeeps, DecisionKept DEF CheckRoom, EntriesKept
<1>3. ASSUME NEW w \in Workers, GetAdSegments(w) PROVE DecisionInv'
  BY <1>1, <1>2, <1>3, DecisionFetchPod, DecisionTakeBreakIndex, DecisionInsert
     DEF GetAdSegments, NoPod
<1>4. ASSUME NEW k \in DOMAIN cache, Resolve(k) PROVE DecisionInv'
  <2>1. EntriesKept
    BY <1>4, ResolveKeeps DEF EntriesKept
  <2> QED BY <1>4, <2>1, StutterKeeps, DecisionKept DEF Resolve
<1>5. CASE Cleanup
  <2>1. EntriesKept
    BY <1>5, CleanupKeeps DEF EntriesKept
  <2> QED BY <1>5, <2>1, CleanupKeeps, StutterKeeps, DecisionKept
<1>6. CASE Tick
  BY <1>6, StutterKeeps, DecisionKept DEF Tick, EntriesKept
<1> QED BY <1>1, <1>3, <1>4, <1>5, <1>6 DEF Next

LEMMA HandedInit == Init => HandedInv
BY DEF Init, HandedInv

LEMMA HandedKept ==
  ASSUME TypeOK, TypeOK', HandedInv, CallsKept, EntriesKept,
         \A k \in DOMAIN cache' : cache'[k].visited = cache[k].visited,
         decided' = decided, handed' = handed
  PROVE  HandedInv'
<1>1. \A w \in DOMAIN calls, i \in Nat :
        w \in DOMAIN calls' /\ i < calls[w].seg => i < calls'[w].seg
  BY DEF CallsKept, TypeOK
<1>2. \A a \in Ads : a[2] \in Nat
  OBVIOUS
<1>3. \A k \in DOMAIN cache' : AdOf(k)' = AdOf(k)
  BY DEF AdOf, EntriesKept
<1> QED BY <1>1, <1>2, <1>3 DEF HandedInv, CallsKept, EntriesKept

LEMMA HandedFetchPod ==
  ASSUME TypeOK, HandedInv, NEW w \in Workers, NEW s \in Sessions,
         NEW n \in 1 .. MaxPod, FetchPod(w, s, n)
  PROVE  HandedInv'
<1>1. /\ DOMAIN calls' = DOMAIN calls \cup {w}
      /\ calls'[w].decision = decided + 1
      /\ \A v \in DOMAIN calls : v # w => calls'[v] = calls[v]
      /\ w \notin DOMAIN calls
      /\ UNCHANGED <<cache, handed>> /\ decided' = decided + 1
  BY DEF FetchPod, Put
<1>2. \A a \in Ads : a[1] \in Int /\ (a[1] <= decided => a[1] # decided + 1)
  BY DEF TypeOK
<1>3. \A a \in Ads : a[1] <= decided => a[1] <= decided'
  BY <1>1 DEF TypeOK
<1>4. \A k \in DOMAIN cache : AdOf(k)' = AdOf(k)
  BY <1>1 DEF AdOf
<1> QED BY <1>1, <1>2, <1>3, <1>4 DEF HandedInv

(* The segment an insert stores has not been handed out: its call would     *)
(* have passed it.                                                          *)
LEMMA HandedInsert ==
  ASSUME TypeOK, TypeOK', HandedInv, NEW w \in Workers, Insert(w)
  PROVE  HandedInv'
<1>0. PICK k : k = <<calls[w].session, calls[w].brk, calls[w].seg>>
  OBVIOUS
<1>1. /\ w \in DOMAIN calls
      /\ CallsKept
      /\ DOMAIN cache' = DOMAIN cache \cup {k}
      /\ cache'[k].decision = calls[w].decision
      /\ \A l \in DOMAIN cache : l # k => cache'[l] = cache[l]
  BY <1>0, InsertEffect
<1>2. k[3] = calls[w].seg /\ calls[w].seg \in Int
  BY <1>0, <1>1 DEF TypeOK
<1>3. UNCHANGED <<decided, handed>>
  BY DEF Insert
<1>4. \A v \in DOMAIN calls, i \in Nat :
        v \in DOMAIN calls' /\ i < calls[v].seg => i < calls'[v].seg
  BY <1>1 DEF CallsKept, TypeOK
<1>5. \A a \in Ads : a[2] \in Nat
  OBVIOUS
<1>6. \A l \in DOMAIN cache : l # k => AdOf(l)' = AdOf(l)
  BY <1>1 DEF AdOf
<1>7. AdOf(k)' = <<calls[w].decision, calls[w].seg>>
  BY <1>1, <1>2 DEF AdOf
<1>8. ASSUME NEW a \in Ads, handed'[a] # 0
      PROVE  /\ handed'[a] = 1
             /\ a[1] <= decided'
             /\ \A l \in DOMAIN cache' : AdOf(l)' = a => cache'[l].visited
             /\ \A v \in DOMAIN calls' :
                  calls'[v].decision = a[1] => a[2] < calls'[v].seg
  <2>1. handed[a] # 0
    BY <1>3, <1>8
  <2>2. AdOf(k)' # a
    <3>1. calls[w].decision = a[1] => a[2] < calls[w].seg
      BY <1>1, <2>1 DEF HandedInv
    <3>2. a[2] < calls[w].seg => a[2] # calls[w].seg
      BY <1>2, <1>5
    <3> QED BY <1>7, <3>1, <3>2
  <2>3. \A l \in DOMAIN cache' : AdOf(l)' = a => cache'[l].visited
    BY <1>1, <1>6, <2>1, <2>2 DEF HandedInv
  <2>4. \A v \in DOMAIN calls' : calls'[v].decision = a[1] => a[2] < calls'[v].seg
    BY <1>1, <1>4, <1>5, <2>1 DEF HandedInv, CallsKept
  <2> QED BY <1>3, <2>1, <2>3, <2>4 DEF HandedInv
<1> QED BY <1>8 DEF HandedInv

(* Only the first request of an entry gets the tracking; every other entry  *)
(* that holds the same ad would have the same key.                          *)
LEMMA HandedResolve ==
  ASSUME TypeOK, DecisionInv, HandedInv, NEW k \in DOMAIN cache, Resolve(k)
  PROVE  HandedInv'
<1>1. /\ DOMAIN cache' = DOMAIN cache
      /\ cache'[k].visited
      /\ \A l \in DOMAIN cache :
           /\ cache'[l].decision = cache[l].decision
           /\ l # k => cache'[l].visited = cache[l].visited
      /\ UNCHANGED <<calls, decided>>
  BY ResolveKeeps DEF Resolve
<1>2. \A l \in DOMAIN cache : AdOf(l)' = AdOf(l)
  BY <1>1 DEF AdOf
<1>3. CASE cache[k].visited
  <2>1. UNCHANGED <<cache, handed>>
    BY <1>3 DEF Resolve
  <2> QED BY <1>1, <1>2, <2>1 DEF HandedInv
<1>4. CASE ~cache[k].visited
  <2> DEFINE b == AdOf(k)
  <2>1. b \in Ads /\ b = <<cache[k].decision, k[3]>>
    BY DEF AdOf, TypeOK
  <2>2. handed[b] = 0 /\ handed' = [handed EXCEPT ![b] = @ + 1]
    BY <1>4, <2>1 DEF Resolve, HandedInv
  <2>3. handed'[b] = 1 /\ \A a \in Ads : a # b => handed'[a] = handed[a]
    <3> HIDE DEF b
    <3> QED BY <2>1, <2>2 DEF TypeOK
  <2>4. b[1] <= decided
    BY <2>1 DEF DecisionInv
  <2>5. \A l \in DOMAIN cache : AdOf(l) = b => l = k
    <3> SUFFICES ASSUME NEW l \in DOMAIN cache, AdOf(l) = AdOf(k) PROVE l = k
      OBVIOUS
    <3>1. cache[l].decision = cache[k].decision /\ l[3] = k[3]
      BY DEF AdOf
    <3>2. l[1] = k[1] /\ l[2] = k[2]
      BY <3>1 DEF DecisionInv
    <3>3. l \in Keys /\ k \in Keys
      BY DEF TypeOK
    <3> QED BY <3>1, <3>2, <3>3
  <2>6. \A w \in DOMAIN calls : calls[w].decision = b[1] => b[2] < calls[w].seg
    BY <2>1 DEF DecisionInv
  <2> HIDE DEF b
  <2>7. ASSUME NEW a \in Ads, handed'[a] # 0
        PROVE  /\ handed'[a] = 1
               /\ a[1] <= decided'
               /\ \A l \in DOMAIN cache' : AdOf(l)' = a => cache'[l].visited
               /\ \A v \in DOMAIN calls' :
                    calls'[v].decision = a[1] => a[2] < calls'[v].seg
    <3>1. CASE a = b
      BY <1>1, <1>2, <2>3, <2>4, <2>5, <2>6, <3>1
    <3>2. CASE a # b
      <4>1. handed[a] # 0
        BY <2>3, <2>7, <3>2
      <4>2. \A l \in DOMAIN cache : AdOf(l) = a => cache'[l].visited
        BY <1>1, <4>1 DEF HandedInv
      <4> QED BY <1>1, <1>2, <2>3, <3>2, <4>1, <4>2 DEF HandedInv
    <3> QED BY <3>1, <3>2
  <2> QED BY <2>7 DEF HandedInv
<1> QED BY <1>3, <1>4

LEMMA HandedNext ==
  TypeOK /\ TypeOK' /\ DecisionInv /\ HandedInv /\ [Next]_vars => HandedInv'
<1> SUFFICES ASSUME TypeOK, TypeOK', DecisionInv, HandedInv, [Next]_vars
             PROVE HandedInv'
  OBVIOUS
<1>1. CASE UNCHANGED vars
  BY <1>1, StutterKeeps, HandedKept DEF vars, EntriesKept
<1>2. ASSUME NEW w \in Workers, CheckRoom(w) PROVE HandedInv'
  BY <1>2, CheckRoomKeeps, HandedKept DEF CheckRoom, EntriesKept
<1>3. ASSUME NEW w \in Workers, TakeBreakIndex(w) PROVE HandedInv'
  <2>1. /\ DOMAIN calls' = DOMAIN calls
        /\ \A v \in DOMAIN calls : /\ calls'[v].decision = calls[v].decision
                                   /\ calls'[v].seg = calls[v].seg
        /\ UNCHANGED <<cache, decided, handed>>
    BY <1>3 DEF TakeBreakIndex, TypeOK
  <2>2. \A k \in DOMAIN cache : AdOf(k)' = AdOf(k)
    BY <2>1 DEF AdOf
  <2> QED BY <2>1, <2>2 DEF HandedInv
<1>4. ASSUME NEW w \in Workers, GetAdSegments(w) PROVE HandedInv'
  BY <1>1, <1>2, <1>3, <1>4, HandedFetchPod, HandedInsert
     DEF GetAdSegments, NoPod
<1>5. ASSUME NEW k \in DOMAIN cache, Resolve(k) PROVE HandedInv'
  BY <1>5, HandedResolve
<1>6. CASE Cleanup
  <2>1. EntriesKept
    BY <1>6, CleanupKeeps DEF EntriesKept
  <2> QED BY <1>6, <2>1, CleanupKeeps, StutterKeeps, HandedKept
<1>7. CASE Tick
  BY <1>7, StutterKeeps, HandedKept DEF Tick, EntriesKept
<1> QED BY <1>1, <1>4, <1>5, <1>6, <1>7 DEF Next

THEOREM TrackingInvariant == Spec => [](DecisionInv /\ HandedInv)
<1>1. Init => DecisionInv /\ HandedInv
  BY DecisionInit, HandedInit
<1>2. TypeOK /\ TypeOK' /\ DecisionInv /\ HandedInv /\ [Next]_vars
        => (DecisionInv /\ HandedInv)'
  BY DecisionNext, HandedNext
<1> QED BY <1>1, <1>2, TypeCorrect, PTL DEF Spec

(* Whatever the interleaving of inserts, ad requests, evictions and reused  *)
(* names, the tracking of a creative leaves the cache at most once.         *)
THEOREM TrackedOnce == Spec => []TrackedAtMostOnce
<1>1. TypeOK /\ HandedInv => TrackedAtMostOnce
  <2> SUFFICES ASSUME TypeOK, HandedInv, NEW a \in Ads PROVE handed[a] <= 1
    BY DEF TrackedAtMostOnce
  <2>1. CASE handed[a] = 0
    BY <2>1
  <2>2. CASE handed[a] # 0
    BY <2>2 DEF HandedInv
  <2> QED BY <2>1, <2>2
<1> QED BY <1>1, TypeCorrect, TrackingInvariant, PTL

HIDE DEF Segments, Decisions, Ads, Keys, Entry, Call, CleanerSteps

(***************************************************************************)
(* Playlists and ads end to end (Ssai)                                     *)
(***************************************************************************)

-----------------------------------------------------------------------------
(* The invariants                                                          *)

AdSegment == [uri : [slate : BOOLEAN, brk : Nat, seg : Nat], ad : Nat \X Nat]

(* The answer for a break is the pod of one decision, or none of it is an   *)
(* ad.                                                                      *)
IsPod(a, d)   == Len(a) > 0 /\ \A i \in DOMAIN a : a[i].ad = <<d, i - 1>>
IsFallback(a) == \A i \in DOMAIN a : a[i].ad[1] = 0

SsaiTypeOK ==
  /\ DOMAIN req \subseteq Workers
  /\ req \in [DOMAIN req -> [session : Sessions, answers : Seq(Seq(AdSegment))]]
  /\ \A w \in DOMAIN req :
       /\ Len(req[w].answers) <= Breaks
       /\ \A b \in 1 .. Len(req[w].answers) :
            \/ IsFallback(req[w].answers[b])
            \/ \E d \in Decisions : IsPod(req[w].answers[b], d)
  /\ requests \in [Sessions -> Nat]
  /\ DOMAIN manifest = Sessions
  (* A call of the provider is one that a playlist request waits for.       *)
  /\ \A w \in DOMAIN calls :
       /\ w \in DOMAIN req
       /\ calls[w].session = req[w].session
       /\ Len(req[w].answers) < Breaks

(* How far each session has got: nothing before its first request, and one  *)
(* worker at it or its playlist delivered until the second.                 *)
SessionInv ==
  \A s \in Sessions :
    /\ requests[s] = 0 =>
         /\ s \notin DOMAIN counter
         /\ \A k \in DOMAIN cache : k[1] # s
         /\ \A w \in DOMAIN req : req[w].session # s
         /\ manifest[s] = {}
    /\ requests[s] = 1 =>
         /\ \A v, w \in DOMAIN req : req[v].session = s /\ req[w].session = s => v = w
         /\ manifest[s] # {} => \A w \in DOMAIN req : req[w].session # s

(* Every break so far got a pod.                                            *)
AllPods(answers) ==
  \A b \in 1 .. Len(answers) : \E d \in Decisions : IsPod(answers[b], d)

(* The session is at its first request, and its counter was not dropped.    *)
FirstTime(s) == requests[s] = 1 /\ epoch[s] = 0

(* What the cache holds for the break at position b is of the pod that      *)
(* answered it.                                                             *)
Agrees(s, answers, b) ==
  \A k \in DOMAIN cache :
    k[1] = s /\ k[2] = b - 1 => IsPod(answers[b], cache[k].decision)

FirstOf(w) ==
  LET s == req[w].session
      answers == req[w].answers
  IN FirstTime(s) /\ AllPods(answers) =>
       /\ w \in DOMAIN calls /\ HasIndex(w)
            => calls[w].brk = Len(answers) /\ NextIndex(s) = Len(answers) + 1
       /\ ~ (w \in DOMAIN calls /\ HasIndex(w))
            => NextIndex(s) = Len(answers)
       /\ \A b \in 1 .. Len(answers) : Agrees(s, answers, b)

FirstInv == \A w \in DOMAIN req : FirstOf(w)

(* A filled first playlist names the cached ads as it should.               *)
DeliveredInv ==
  \A s \in Sessions :
    FirstTime(s) /\ AllBreaksFilled(s) =>
      \A m \in manifest[s] :
        /\ ~ m.name.slate
        /\ KeyFor(s, m.name) \in DOMAIN cache => AdOf(KeyFor(s, m.name)) = m.ad

-----------------------------------------------------------------------------
(* The steps                                                               *)

(* An answer appended to those of a request.                                *)
LEMMA AnswerAppended ==
  ASSUME NEW answers \in Seq(Seq(AdSegment)), NEW segments \in Seq(AdSegment)
  PROVE  /\ Append(answers, segments) \in Seq(Seq(AdSegment))
         /\ Len(answers) \in Nat
         /\ Len(Append(answers, segments)) = Len(answers) + 1
         /\ \A b \in 1 .. Len(answers) : Append(answers, segments)[b] = answers[b]
         /\ Append(answers, segments)[Len(answers) + 1] = segments
<1>1. /\ Append(answers, segments) \in Seq(Seq(AdSegment)) /\ Len(answers) \in Nat
      /\ Len(Append(answers, segments)) = Len(answers) + 1
  OBVIOUS
<1> HIDE DEF AdSegment
<1> QED  BY <1>1

LEMMA AnswerEffect ==
  ASSUME SsaiTypeOK, NEW w \in DOMAIN req, NEW segments \in Seq(AdSegment),
         Answer(w, segments)
  PROVE  /\ DOMAIN req' = DOMAIN req
         /\ req'[w] = [session |-> req[w].session,
                       answers |-> Append(req[w].answers, segments)]
         /\ \A v \in DOMAIN req : v # w => req'[v] = req[v]
         /\ \A v \in DOMAIN req : req'[v].session = req[v].session
<1>1. req[w] \in [session : Sessions, answers : Seq(Seq(AdSegment))]
  BY DEF SsaiTypeOK
<1>2. req' = [req EXCEPT ![w].answers = Append(@, segments)]
  BY DEF Answer
<1> HIDE DEF AdSegment
<1> QED  BY <1>1, <1>2

(* The pod a call returns is one of its decision; the fallback holds no ad. *)
LEMMA PodTyped ==
  ASSUME NEW c \in Call
  PROVE  PodSegments(c) \in Seq(AdSegment) /\ IsPod(PodSegments(c), c.decision)
<1>1. /\ c.total \in Nat /\ c.total >= 1 /\ c.brk \in Nat /\ c.decision \in Nat
  BY PodAssumption, BoundsAssumption DEF Call, Decisions
<1>2. ASSUME NEW i \in 1 .. c.total
      PROVE  [uri |-> BreakName(c.brk, i - 1), ad |-> <<c.decision, i - 1>>] \in AdSegment
  BY <1>1 DEF BreakName, AdSegment
<1>3. PodSegments(c) \in [1 .. c.total -> AdSegment]
  BY <1>2 DEF PodSegments
<1>4. PodSegments(c) \in Seq(AdSegment)
  BY <1>1, <1>3
<1>5. Len(PodSegments(c)) = c.total
  BY <1>1, <1>3, <1>4
<1>6. Len(PodSegments(c)) > 0
  BY <1>1, <1>5
<1> QED  BY <1>4, <1>6 DEF IsPod, PodSegments

LEMMA FallbackTyped ==
  FallbackSegments \in Seq(AdSegment) /\ IsFallback(FallbackSegments)
<1> DEFINE n == IF HasSlate THEN SlateLen ELSE 0
<1>1. n \in Nat
  BY SsaiAssumption
<1>2. FallbackSegments = [i \in 1 .. n |-> [uri |-> SlateName(i - 1), ad |-> <<0, i - 1>>]]
  BY DEF FallbackSegments
<1> HIDE DEF n
<1>3. FallbackSegments \in [1 .. n -> AdSegment]
  BY <1>1, <1>2 DEF SlateName, AdSegment
<1>4. FallbackSegments \in Seq(AdSegment)
  BY <1>1, <1>3
<1> QED  BY <1>2, <1>4 DEF IsFallback

(* The two kinds of answer exclude each other.                              *)
LEMMA PodNoFallback ==
  ASSUME NEW a \in Seq(AdSegment), NEW d \in Decisions, IsPod(a, d)
  PROVE  ~ IsFallback(a)
<1>1. 1 \in DOMAIN a
  BY DEF IsPod
<1>2. a[1].ad = <<d, 0>> /\ d # 0
  BY <1>1 DEF IsPod, Decisions
<1> QED  BY <1>1, <1>2 DEF IsFallback

(* A call and the request that waits for it.                                *)
LEMMA FillEffect ==
  ASSUME TypeOK, SsaiTypeOK, NEW w \in Workers, FillPod(w)
  PROVE  /\ w \in DOMAIN calls /\ w \in DOMAIN req
         /\ DOMAIN calls' \subseteq DOMAIN calls
         /\ \A v \in DOMAIN calls : v # w => v \in DOMAIN calls' /\ calls'[v] = calls[v]
         /\ UNCHANGED <<epoch, manifest, requests>>
         /\ w \in DOMAIN calls' => calls'[w].session = calls[w].session /\ req' = req
         /\ w \notin DOMAIN calls' => /\ HasIndex(w) /\ ~ TakeBreakIndex(w)
                                      /\ Answer(w, PodSegments(calls[w]))
<1>1. w \in DOMAIN calls /\ calls[w] \in Call
  BY DEF FillPod, TakeBreakIndex, CheckRoom, Insert, TypeOK
<1>2. w \in DOMAIN req
  BY <1>1 DEF SsaiTypeOK
<1>3. /\ DOMAIN calls' \subseteq DOMAIN calls
      /\ \A v \in DOMAIN calls : v # w => v \in DOMAIN calls' /\ calls'[v] = calls[v]
  <2>1. CASE TakeBreakIndex(w)
    <3>1. calls' = [calls EXCEPT ![w].pc = "check",
                                 ![w].brk = NextIndex(calls[w].session),
                                 ![w].epoch = epoch[calls[w].session]]
      BY <2>1 DEF TakeBreakIndex
    <3> QED  BY <1>1, <3>1
  <2>2. ASSUME NextSegment(w)
        PROVE  /\ DOMAIN calls' \subseteq DOMAIN calls
               /\ \A v \in DOMAIN calls : v # w => v \in DOMAIN calls' /\ calls'[v] = calls[v]
    <3>1. CASE calls[w].seg + 1 < calls[w].total
      BY <1>1, <2>2, <3>1 DEF NextSegment
    <3>2. CASE ~ (calls[w].seg + 1 < calls[w].total)
      BY <1>1, <2>2, <3>2 DEF NextSegment, Restrict
    <3> QED  BY <3>1, <3>2
  <2>3. CASE CheckRoom(w)
    BY <1>1, <2>2, <2>3 DEF CheckRoom
  <2>4. CASE Insert(w)
    BY <2>2, <2>4 DEF Insert
  <2> QED  BY <2>1, <2>3, <2>4 DEF FillPod
<1>4. UNCHANGED <<epoch, manifest, requests>>
  BY DEF FillPod, TakeBreakIndex, CheckRoom, Insert
<1>5. w \in DOMAIN calls' => calls'[w].session = calls[w].session
  <2>1. CASE TakeBreakIndex(w)
    BY <1>1, <2>1 DEF TakeBreakIndex, Call
  <2>2. CASE CheckRoom(w)
    BY <2>2, CheckRoomKeeps DEF CallsKept
  <2>3. CASE Insert(w)
    BY <2>3, InsertEffect DEF CallsKept
  <2> QED  BY <2>1, <2>2, <2>3 DEF FillPod
<1>6. w \notin DOMAIN calls' => HasIndex(w) /\ ~ TakeBreakIndex(w)
  BY <1>1 DEF FillPod, TakeBreakIndex, CheckRoom, Insert, HasIndex
<1>7. /\ w \in DOMAIN calls' => req' = req
      /\ w \notin DOMAIN calls' => Answer(w, PodSegments(calls[w]))
  BY DEF FillPod
<1> QED  BY <1>1, <1>2, <1>3, <1>4, <1>5, <1>6, <1>7

(* An insert leaves every other entry alone.                                *)
LEMMA InsertedEntry ==
  ASSUME TypeOK, NEW w \in Workers, Insert(w), NEW k \in DOMAIN cache'
  PROVE  \/ k \in DOMAIN cache /\ cache'[k].decision = cache[k].decision
         \/ /\ k[1] = calls[w].session /\ k[2] = calls[w].brk
            /\ cache'[k].decision = calls[w].decision
<1>0. PICK new : new = <<calls[w].session, calls[w].brk, calls[w].seg>>
  OBVIOUS
<1>1. /\ DOMAIN cache' = DOMAIN cache \cup {new}
      /\ cache'[new].decision = calls[w].decision
      /\ \A l \in DOMAIN cache : l # new => cache'[l] = cache[l]
  BY <1>0, InsertEffect
<1>2. new[1] = calls[w].session /\ new[2] = calls[w].brk
  BY <1>0
<1> QED  BY <1>1, <1>2

-----------------------------------------------------------------------------
(* Types, and the provider below                                           *)

LEMMA SsaiTypeInit == SsaiInit => SsaiTypeOK
BY SsaiAssumption DEF SsaiInit, SsaiTypeOK, Init

LEMMA SsaiTypeNext ==
  ASSUME TypeOK, SsaiTypeOK, [SsaiNext]_allVars
  PROVE  SsaiTypeOK'
<1> HIDE DEF AdSegment, Decisions, Call
<1>1. ASSUME NEW w \in Workers, NEW s \in Sessions, RequestPlaylist(w, s)
      PROVE  SsaiTypeOK'
  <2> DEFINE r == [session |-> s, answers |-> << >>]
  <2>1. /\ w \notin DOMAIN req
        /\ DOMAIN req' = DOMAIN req \cup {w}
        /\ req'[w] = r
        /\ \A v \in DOMAIN req : req'[v] = req[v]
        /\ calls' = calls /\ manifest' = manifest
        /\ requests' = [requests EXCEPT ![s] = @ + 1]
    BY <1>1 DEF RequestPlaylist, Put, vars
  <2>2. /\ r \in [session : Sessions, answers : Seq(Seq(AdSegment))]
        /\ Len(r.answers) = 0
    OBVIOUS
  <2> HIDE DEF r
  <2>3. req' \in [DOMAIN req' -> [session : Sessions, answers : Seq(Seq(AdSegment))]]
    <3>1. req' = Put(req, w, r)
      BY <1>1 DEF RequestPlaylist, r
    <3> QED  BY <2>1, <2>2, <3>1 DEF SsaiTypeOK, Put
  <2>4. ASSUME NEW v \in DOMAIN req'
        PROVE  /\ Len(req'[v].answers) <= Breaks
               /\ \A b \in 1 .. Len(req'[v].answers) :
                    \/ IsFallback(req'[v].answers[b])
                    \/ \E d \in Decisions : IsPod(req'[v].answers[b], d)
    <3>1. CASE v = w
      BY <3>1, <2>1, <2>2, SsaiAssumption
    <3>2. CASE v # w
      BY <3>2, <2>1 DEF SsaiTypeOK
    <3> QED  BY <3>1, <3>2
  <2>5. requests' \in [Sessions -> Nat] /\ DOMAIN manifest' = Sessions /\ DOMAIN req' \subseteq Workers
    BY <2>1 DEF SsaiTypeOK
  <2>6. \A v \in DOMAIN calls' : /\ v \in DOMAIN req'
                                /\ calls'[v].session = req'[v].session
                                /\ Len(req'[v].answers) < Breaks
    BY <2>1 DEF SsaiTypeOK
  <2> QED  BY <2>3, <2>4, <2>5, <2>6 DEF SsaiTypeOK
<1>2. ASSUME NEW w \in Workers, NEW n \in 1 .. MaxPod, AskPod(w, n)
      PROVE  SsaiTypeOK'
  <2>1. /\ w \in DOMAIN req /\ Len(req[w].answers) < Breaks
        /\ DOMAIN calls' = DOMAIN calls \cup {w}
        /\ calls'[w].session = req[w].session
        /\ \A v \in DOMAIN calls : calls'[v] = calls[v]
        /\ UNCHANGED ssaiVars
    BY <1>2 DEF AskPod, BreaksLeft, FetchPod, Put
  <2> QED  BY <2>1 DEF SsaiTypeOK, ssaiVars
<1>3. ASSUME NEW w \in Workers, NEW segments \in Seq(AdSegment), w \in DOMAIN req,
             Len(req[w].answers) < Breaks,
             IsFallback(segments) \/ \E d \in Decisions : IsPod(segments, d),
             Answer(w, segments)
      PROVE  /\ DOMAIN req' \subseteq Workers
             /\ req' \in [DOMAIN req' -> [session : Sessions, answers : Seq(Seq(AdSegment))]]
             /\ \A v \in DOMAIN req' :
                  /\ Len(req'[v].answers) <= Breaks
                  /\ \A b \in 1 .. Len(req'[v].answers) :
                       \/ IsFallback(req'[v].answers[b])
                       \/ \E d \in Decisions : IsPod(req'[v].answers[b], d)
  <2> DEFINE A == req[w].answers
             B == Append(A, segments)
  <2>1. /\ DOMAIN req' = DOMAIN req
        /\ req'[w] = [session |-> req[w].session, answers |-> B]
        /\ \A v \in DOMAIN req : v # w => req'[v] = req[v]
    BY <1>3, AnswerEffect
  <2>2. A \in Seq(Seq(AdSegment)) /\ req[w].session \in Sessions
    BY <1>3 DEF SsaiTypeOK
  <2>3. /\ B \in Seq(Seq(AdSegment)) /\ Len(A) \in Nat /\ Len(B) = Len(A) + 1
        /\ \A b \in 1 .. Len(A) : B[b] = A[b]
        /\ B[Len(A) + 1] = segments
    BY <2>2, AnswerAppended
  <2>4. Len(B) <= Breaks
    BY <2>3, <1>3, SsaiAssumption
  <2>5. \A b \in 1 .. Len(A) : IsFallback(A[b]) \/ \E d \in Decisions : IsPod(A[b], d)
    BY <1>3 DEF SsaiTypeOK
  <2> HIDE DEF B, A
  <2>6. ASSUME NEW b \in 1 .. Len(B)
        PROVE  IsFallback(B[b]) \/ \E d \in Decisions : IsPod(B[b], d)
    <3>1. b \in 1 .. Len(A) \/ b = Len(A) + 1
      BY <2>3
    <3>2. CASE b \in 1 .. Len(A)
      BY <3>2, <2>3, <2>5
    <3>3. CASE b = Len(A) + 1
      BY <3>3, <2>3, <1>3
    <3> QED  BY <3>1, <3>2, <3>3
  <2>7. req' = [v \in DOMAIN req |-> req'[v]]
    <3>1. req' = [req EXCEPT ![w].answers = Append(@, segments)]
      BY <1>3 DEF Answer
    <3> QED  BY <3>1
  <2>8. ASSUME NEW v \in DOMAIN req
        PROVE  req'[v] \in [session : Sessions, answers : Seq(Seq(AdSegment))]
    <3>1. CASE v = w
      BY <3>1, <2>1, <2>2, <2>3
    <3>2. CASE v # w
      BY <3>2, <2>1 DEF SsaiTypeOK
    <3> QED  BY <3>1, <3>2
  <2>9. req' \in [DOMAIN req' -> [session : Sessions, answers : Seq(Seq(AdSegment))]]
    BY <2>1, <2>7, <2>8
  <2>10. ASSUME NEW v \in DOMAIN req'
         PROVE  /\ Len(req'[v].answers) <= Breaks
                /\ \A b \in 1 .. Len(req'[v].answers) :
                     \/ IsFallback(req'[v].answers[b])
                     \/ \E d \in Decisions : IsPod(req'[v].answers[b], d)
    <3>1. CASE v = w
      BY <3>1, <2>1, <2>4, <2>6
    <3>2. CASE v # w
      BY <3>2, <2>1 DEF SsaiTypeOK
    <3> QED  BY <3>1, <3>2
  <2> QED  BY <2>1, <2>9, <2>10 DEF SsaiTypeOK
<1>4. ASSUME NEW w \in Workers, AskFallback(w)
      PROVE  SsaiTypeOK'
  <2>1. /\ w \in DOMAIN req /\ Len(req[w].answers) < Breaks
        /\ w \notin DOMAIN calls /\ calls' = calls
        /\ UNCHANGED <<manifest, requests>>
        /\ Answer(w, FallbackSegments)
    BY <1>4 DEF AskFallback, BreaksLeft, NoPod, vars
  <2>2. \A v \in DOMAIN req : v # w => req'[v] = req[v]
    BY <2>1, FallbackTyped, AnswerEffect
  <2>3. DOMAIN req' = DOMAIN req
    BY <2>1, FallbackTyped, AnswerEffect
  <2> QED  BY <1>3, <2>1, <2>2, <2>3, FallbackTyped DEF SsaiTypeOK
<1>5. ASSUME NEW w \in Workers, FillPod(w)
      PROVE  SsaiTypeOK'
  <2>1. /\ w \in DOMAIN calls /\ w \in DOMAIN req
        /\ DOMAIN calls' \subseteq DOMAIN calls
        /\ \A v \in DOMAIN calls : v # w => v \in DOMAIN calls' /\ calls'[v] = calls[v]
        /\ UNCHANGED <<epoch, manifest, requests>>
        /\ w \in DOMAIN calls' => calls'[w].session = calls[w].session /\ req' = req
        /\ w \notin DOMAIN calls' => Answer(w, PodSegments(calls[w]))
    BY <1>5, FillEffect
  <2>2. CASE w \in DOMAIN calls'
    BY <2>1, <2>2 DEF SsaiTypeOK
  <2>3. CASE w \notin DOMAIN calls'
    <3>1. calls[w] \in Call /\ calls[w].decision \in Decisions
      BY <2>1 DEF TypeOK, Call
    <3>2. PodSegments(calls[w]) \in Seq(AdSegment) /\ IsPod(PodSegments(calls[w]), calls[w].decision)
      BY <3>1, PodTyped
    <3>3. Len(req[w].answers) < Breaks
      BY <2>1 DEF SsaiTypeOK
    <3>4. /\ DOMAIN req' = DOMAIN req
          /\ \A v \in DOMAIN req : v # w => req'[v] = req[v]
      BY <2>1, <2>3, <3>2, AnswerEffect
    <3> QED  BY <1>3, <2>1, <2>3, <3>1, <3>2, <3>3, <3>4 DEF SsaiTypeOK
  <2> QED  BY <2>2, <2>3
<1>6. ASSUME NEW w \in Workers, DeliverPlaylist(w) \/ AbandonPlaylist(w)
      PROVE  SsaiTypeOK'
  <2>1. /\ w \in DOMAIN req /\ w \notin DOMAIN calls
        /\ req' = Restrict(req, DOMAIN req \ {w})
        /\ calls' = calls /\ requests' = requests
        /\ DOMAIN manifest' = DOMAIN manifest
    BY <1>6 DEF DeliverPlaylist, AbandonPlaylist, BreaksLeft, vars, SsaiTypeOK
  <2> QED  BY <2>1 DEF SsaiTypeOK, Restrict
<1>7. CASE calls' = calls /\ UNCHANGED ssaiVars
  BY <1>7 DEF SsaiTypeOK, ssaiVars
<1>8. AdRequests => calls' = calls /\ UNCHANGED ssaiVars
  BY DEF AdRequests, StartAd, Resolve
<1>9. Background => calls' = calls /\ UNCHANGED ssaiVars
  BY CleanupKeeps DEF Background, Tick
<1>10. UNCHANGED allVars => calls' = calls /\ UNCHANGED ssaiVars
  BY DEF allVars, vars
<1> QED  BY <1>1, <1>2, <1>4, <1>5, <1>6, <1>7, <1>8, <1>9, <1>10 DEF SsaiNext, Playlists

(* Each step of the pipeline is one of the provider's, or none.             *)
LEMMA ProviderStep ==
  ASSUME SsaiTypeOK, [SsaiNext]_allVars
  PROVE  [Next]_vars
<1>1. ASSUME NEW w \in Workers, NEW n \in 1 .. MaxPod, AskPod(w, n)
      PROVE  Next
  <2>1. FetchPod(w, req[w].session, n) /\ req[w].session \in Sessions
    BY <1>1 DEF AskPod, BreaksLeft, SsaiTypeOK
  <2> QED  BY <2>1 DEF Next, GetAdSegments
<1>2. ASSUME NEW w \in Workers, FillPod(w)
      PROVE  Next
  BY <1>2 DEF FillPod, Next, GetAdSegments
<1>3. ASSUME NEW w \in Workers,
             \/ \E s \in Sessions : RequestPlaylist(w, s)
             \/ AskFallback(w) \/ DeliverPlaylist(w) \/ AbandonPlaylist(w)
      PROVE  UNCHANGED vars
  BY <1>3 DEF RequestPlaylist, AskFallback, NoPod, DeliverPlaylist, AbandonPlaylist
<1>4. CASE AdRequests
  BY <1>4 DEF AdRequests, StartAd, Next, Resolve
<1>5. CASE Background
  BY <1>5 DEF Background, Next
<1>6. CASE UNCHANGED allVars
  BY <1>6 DEF allVars
<1> QED  BY <1>1, <1>2, <1>3, <1>4, <1>5, <1>6 DEF SsaiNext, Playlists

(* The pipeline uses the ad provider as the provider's specification says:  *)
(* every behaviour of the handlers is one of AdCache below.                 *)
THEOREM SsaiImplementsAdCache == SsaiSpec => Spec /\ []SsaiTypeOK
<1>1. SsaiInit => TypeOK /\ LenInv /\ SsaiTypeOK /\ Init
  BY TypeInit, LenInit, SsaiTypeInit DEF SsaiInit
<1>2. TypeOK /\ LenInv /\ SsaiTypeOK /\ [SsaiNext]_allVars
        => (TypeOK /\ LenInv /\ SsaiTypeOK)' /\ [Next]_vars
  BY SsaiTypeNext, ProviderStep, TypeNext, LenNext
<1> QED  BY <1>1, <1>2, PTL DEF SsaiSpec, Spec

-----------------------------------------------------------------------------
(* Sessions                                                                *)

LEMMA SessionInit == SsaiInit => SessionInv
BY DEF SsaiInit, Init, SessionInv

(* A step that adds no counter, no entry and no request, and delivers no    *)
(* playlist.                                                                *)
LEMMA SessionKept ==
  ASSUME SsaiTypeOK, SessionInv,
         \A s \in DOMAIN counter' : s \in DOMAIN counter \/ (s \in Sessions /\ requests[s] # 0),
         \A k \in DOMAIN cache' : k \in DOMAIN cache \/ requests[k[1]] # 0,
         \A w \in DOMAIN req' : w \in DOMAIN req /\ req'[w].session = req[w].session,
         UNCHANGED <<manifest, requests>>
  PROVE  SessionInv'
BY DEF SessionInv

(* The session of a request has started one.                                *)
LEMMA Started ==
  ASSUME TypeOK, SsaiTypeOK, SessionInv
  PROVE  /\ \A w \in DOMAIN req : req[w].session \in Sessions /\ requests[req[w].session] # 0
         /\ \A w \in DOMAIN calls : calls[w].session \in Sessions /\ requests[calls[w].session] # 0
<1>1. \A w \in DOMAIN req : req[w].session \in Sessions /\ requests[req[w].session] # 0
  BY DEF SsaiTypeOK, SessionInv
<1> QED  BY <1>1 DEF SsaiTypeOK

LEMMA SessionNext ==
  ASSUME TypeOK, SsaiTypeOK, SessionInv, [SsaiNext]_allVars
  PROVE  SessionInv'
<1> HIDE DEF AdSegment, Decisions, Call
<1>1. ASSUME NEW w \in Workers, NEW s \in Sessions, RequestPlaylist(w, s)
      PROVE  SessionInv'
  <2>1. /\ DOMAIN req' = DOMAIN req \cup {w}
        /\ w \notin DOMAIN req /\ req'[w].session = s
        /\ \A v \in DOMAIN req : req'[v] = req[v]
        /\ UNCHANGED <<vars, manifest>>
        /\ requests' = [requests EXCEPT ![s] = @ + 1]
    BY <1>1 DEF RequestPlaylist, Put
  <2>2. /\ requests[s] \in Nat /\ requests'[s] = requests[s] + 1
        /\ \A t \in Sessions : t # s => requests'[t] = requests[t]
    BY <2>1 DEF SsaiTypeOK
  <2>3. requests'[s] # 0 /\ (requests'[s] = 1 => requests[s] = 0)
    BY <2>2
  <2> QED  BY <2>1, <2>2, <2>3 DEF SessionInv, vars
<1>2. ASSUME NEW w \in Workers, NEW n \in 1 .. MaxPod, AskPod(w, n)
      PROVE  SessionInv'
  BY <1>2, SessionKept DEF AskPod, FetchPod, ssaiVars
<1>3. ASSUME NEW w \in Workers, AskFallback(w)
      PROVE  SessionInv'
  <2>1. /\ w \in DOMAIN req /\ Answer(w, FallbackSegments)
        /\ UNCHANGED <<vars, manifest, requests>>
    BY <1>3 DEF AskFallback, BreaksLeft, NoPod
  <2>2. \A v \in DOMAIN req' : v \in DOMAIN req /\ req'[v].session = req[v].session
    BY <2>1, FallbackTyped, AnswerEffect
  <2> QED  BY <2>1, <2>2, SessionKept DEF vars
<1>4. ASSUME NEW w \in Workers, FillPod(w)
      PROVE  SessionInv'
  <2>1. /\ w \in DOMAIN calls /\ w \in DOMAIN req
        /\ UNCHANGED <<manifest, requests>>
        /\ w \in DOMAIN calls' => req' = req
        /\ w \notin DOMAIN calls' => Answer(w, PodSegments(calls[w]))
    BY <1>4, FillEffect
  <2>2. \A v \in DOMAIN req' : v \in DOMAIN req /\ req'[v].session = req[v].session
    <3>1. calls[w] \in Call
      BY <2>1 DEF TypeOK
    <3>2. PodSegments(calls[w]) \in Seq(AdSegment)
      BY <3>1, PodTyped
    <3>3. CASE w \notin DOMAIN calls'
      BY <2>1, <3>2, <3>3, AnswerEffect
    <3>4. CASE w \in DOMAIN calls'
      BY <2>1, <3>4
    <3> QED  BY <3>3, <3>4
  <2>3. calls[w].session \in Sessions /\ requests[calls[w].session] # 0
    BY <2>1, Started
  <2>4. \A s \in DOMAIN counter' : s \in DOMAIN counter \/ (s \in Sessions /\ requests[s] # 0)
    BY <1>4, <2>3 DEF FillPod, TakeBreakIndex, CheckRoom, Insert, Put
  <2>5. \A k \in DOMAIN cache' : k \in DOMAIN cache \/ requests[k[1]] # 0
    <3>1. CASE Insert(w)
      <4>1. DOMAIN cache' = DOMAIN cache \cup {<<calls[w].session, calls[w].brk, calls[w].seg>>}
        BY <3>1, InsertEffect
      <4> QED  BY <2>3, <4>1
    <3>2. CASE ~ Insert(w)
      BY <1>4, <3>2 DEF FillPod, TakeBreakIndex, CheckRoom
    <3> QED  BY <3>1, <3>2
  <2> QED  BY <2>1, <2>2, <2>4, <2>5, SessionKept
<1>5. ASSUME NEW w \in Workers, DeliverPlaylist(w)
      PROVE  SessionInv'
  <2> DEFINE t == req[w].session
  <2>1. /\ w \in DOMAIN req
        /\ req' = Restrict(req, DOMAIN req \ {w})
        /\ \A s \in Sessions : s # t => manifest'[s] = manifest[s]
        /\ UNCHANGED <<vars, requests>>
    BY <1>5 DEF DeliverPlaylist, SsaiTypeOK
  <2>2. /\ DOMAIN req' = DOMAIN req \ {w}
        /\ \A v \in DOMAIN req' : req'[v] = req[v]
    BY <2>1 DEF Restrict
  <2>3. t \in Sessions /\ requests[t] # 0
    BY <2>1, Started
  <2> HIDE DEF t
  <2>4. ASSUME NEW v \in DOMAIN req', requests[t] = 1
        PROVE  req'[v].session # t
    <3>1. v \in DOMAIN req /\ v # w /\ req'[v] = req[v]
      BY <2>2
    <3> QED  BY <3>1, <2>1, <2>3, <2>4 DEF SessionInv, t
  <2>5. ASSUME NEW s \in Sessions, s # t
        PROVE  /\ requests[s] = 0 =>
                    /\ \A v \in DOMAIN req' : req'[v].session # s
                    /\ manifest'[s] = {}
               /\ requests[s] = 1 =>
                    /\ \A u, v \in DOMAIN req' : req'[u].session = s /\ req'[v].session = s => u = v
                    /\ manifest'[s] # {} => \A v \in DOMAIN req' : req'[v].session # s
    <3>1. \A v \in DOMAIN req' : v \in DOMAIN req /\ req'[v].session = req[v].session
      BY <2>2
    <3>2. manifest'[s] = manifest[s]
      BY <2>1, <2>5
    <3>3. /\ requests[s] = 0 =>
               /\ \A v \in DOMAIN req : req[v].session # s
               /\ manifest[s] = {}
          /\ requests[s] = 1 =>
               /\ \A u, v \in DOMAIN req : req[u].session = s /\ req[v].session = s => u = v
               /\ manifest[s] # {} => \A v \in DOMAIN req : req[v].session # s
      BY DEF SessionInv
    <3>4. requests[s] = 0 => /\ \A v \in DOMAIN req' : req'[v].session # s
                             /\ manifest'[s] = {}
      BY <3>1, <3>2, <3>3
    <3>5. ASSUME requests[s] = 1, NEW u \in DOMAIN req', NEW v \in DOMAIN req',
                 req'[u].session = s, req'[v].session = s
          PROVE  u = v
      BY <3>1, <3>3, <3>5
    <3>6. ASSUME requests[s] = 1, manifest'[s] # {}, NEW v \in DOMAIN req'
          PROVE  req'[v].session # s
      BY <3>1, <3>2, <3>3, <3>6
    <3> QED  BY <3>4, <3>5, <3>6
  <2>6. ASSUME NEW s \in Sessions, requests[s] = 0
        PROVE  s \notin DOMAIN counter' /\ \A k \in DOMAIN cache' : k[1] # s
    <3>1. counter' = counter /\ cache' = cache
      BY <2>1 DEF vars
    <3> QED  BY <2>6, <3>1 DEF SessionInv
  <2>7. requests' = requests
    BY <2>1
  <2> QED  BY <2>3, <2>4, <2>5, <2>6, <2>7 DEF SessionInv
<1>6. ASSUME NEW w \in Workers, AbandonPlaylist(w)
      PROVE  SessionInv'
  BY <1>6, SessionKept DEF AbandonPlaylist, Restrict, vars
<1>7. CASE AdRequests
  BY <1>7, SessionKept, ResolveKeeps DEF AdRequests, StartAd, Resolve, ssaiVars
<1>8. CASE Background
  <2>1. DOMAIN counter' \subseteq DOMAIN counter /\ DOMAIN cache' \subseteq DOMAIN cache
    BY <1>8, CleanupKeeps DEF Background, Tick, Cleanup, CleanStart, CleanAge, CleanMeasure,
       CleanSnapshot, CleanTrim, CleanTrimmed, CleanReport, CleanSessions,
       CleanCounters, Restrict, Retained
  <2>2. UNCHANGED ssaiVars
    BY <1>8 DEF Background
  <2> QED  BY <2>1, <2>2, SessionKept DEF ssaiVars
<1>9. CASE UNCHANGED allVars
  BY <1>9, SessionKept DEF allVars, vars, ssaiVars
<1> QED  BY <1>1, <1>2, <1>3, <1>4, <1>5, <1>6, <1>7, <1>8, <1>9 DEF SsaiNext, Playlists

-----------------------------------------------------------------------------
(* The first request of a session                                          *)

(* A worker whose request, call and session's index and entries a step      *)
(* leaves alone.                                                            *)
LEMMA FirstKept ==
  ASSUME NEW w \in DOMAIN req, FirstOf(w), req'[w] = req[w],
         FirstTime(req[w].session)' =>
           /\ FirstTime(req[w].session)
           /\ NextIndex(req[w].session)' = NextIndex(req[w].session),
         w \in DOMAIN calls' /\ HasIndex(w)' <=> w \in DOMAIN calls /\ HasIndex(w),
         w \in DOMAIN calls' /\ HasIndex(w)' => calls'[w].brk = calls[w].brk,
         \A k \in DOMAIN cache' : k[1] = req[w].session =>
           k \in DOMAIN cache /\ cache'[k].decision = cache[k].decision
  PROVE  FirstOf(w)'
<1> DEFINE s == req[w].session
           answers == req[w].answers
<1> SUFFICES ASSUME FirstTime(s)', AllPods(answers)
             PROVE  /\ w \in DOMAIN calls' /\ HasIndex(w)'
                         => calls'[w].brk = Len(answers) /\ NextIndex(s)' = Len(answers) + 1
                    /\ ~ (w \in DOMAIN calls' /\ HasIndex(w)')
                         => NextIndex(s)' = Len(answers)
                    /\ \A b \in 1 .. Len(answers) : Agrees(s, answers, b)'
  BY DEF FirstOf, AllPods
<1>1. FirstTime(s) /\ NextIndex(s)' = NextIndex(s)
  OBVIOUS
<1>2. \A b \in 1 .. Len(answers) : Agrees(s, answers, b)
  BY <1>1 DEF FirstOf
<1>3. \A b \in 1 .. Len(answers) : Agrees(s, answers, b)'
  BY <1>2 DEF Agrees
<1> QED  BY <1>1, <1>3 DEF FirstOf

(* A pod's answers less the last were pods too.                             *)
LEMMA AllPodsFront ==
  ASSUME NEW answers \in Seq(Seq(AdSegment)), NEW segments \in Seq(AdSegment),
         AllPods(Append(answers, segments))
  PROVE  AllPods(answers) /\ \E d \in Decisions : IsPod(segments, d)
<1> HIDE DEF AdSegment, Decisions
<1>1. /\ Len(answers) \in Nat
      /\ Len(Append(answers, segments)) = Len(answers) + 1
      /\ \A b \in 1 .. Len(answers) : Append(answers, segments)[b] = answers[b]
      /\ Append(answers, segments)[Len(answers) + 1] = segments
  BY AnswerAppended
<1>2. ASSUME NEW b \in 1 .. Len(answers)
      PROVE  \E d \in Decisions : IsPod(answers[b], d)
  <2>1. b \in 1 .. Len(Append(answers, segments))
    BY <1>1
  <2>2. \E d \in Decisions : IsPod(Append(answers, segments)[b], d)
    BY <2>1 DEF AllPods
  <2> QED  BY <2>2, <1>1
<1>3. Len(answers) + 1 \in 1 .. Len(Append(answers, segments))
  BY <1>1
<1>4. \E d \in Decisions : IsPod(Append(answers, segments)[Len(answers) + 1], d)
  BY <1>3 DEF AllPods
<1> QED  BY <1>1, <1>2, <1>4 DEF AllPods

(* In a session's first epoch, what is cached under the index of a running  *)
(* call is of its pod.                                                      *)
LEMMA FirstEpoch ==
  ASSUME TypeOK, IndexInv, NEW w \in DOMAIN calls, HasIndex(w),
         epoch[calls[w].session] = 0,
         NEW k \in DOMAIN cache, k[1] = calls[w].session, k[2] = calls[w].brk
  PROVE  cache[k].decision = calls[w].decision
<1>1. cache[k].epoch \in Nat /\ calls[w].epoch \in Nat
  BY DEF TypeOK, Entry, Call
<1>2. cache[k].epoch <= 0 /\ calls[w].epoch <= 0
  BY DEF IndexInv, Below
<1>3. cache[k].epoch = calls[w].epoch
  BY <1>1, <1>2
<1> QED  BY <1>3 DEF IndexInv

(* The worker whose call takes its index: the two counts agree.             *)
LEMMA FirstTakes ==
  ASSUME TypeOK, SsaiTypeOK, NEW w \in Workers, FillPod(w), FirstOf(w), TakeBreakIndex(w)
  PROVE  FirstOf(w)'
<1> DEFINE s == req[w].session
           answers == req[w].answers
<1> HIDE DEF AdSegment, Decisions, Call
<1>1. w \in DOMAIN calls /\ w \in DOMAIN req /\ calls[w] \in Call /\ ~ HasIndex(w)
      /\ calls[w].session = s /\ NextIndex(s) \in Nat
  BY DEF TakeBreakIndex, TypeOK, SsaiTypeOK, HasIndex, NextIndex
<1>2. w \in DOMAIN calls' /\ req' = req /\ UNCHANGED <<epoch, requests, cache>>
  BY <1>1 DEF FillPod, TakeBreakIndex
<1>3. calls'[w].pc = "check" /\ calls'[w].brk = NextIndex(s)
  BY <1>1 DEF TakeBreakIndex, Call
<1>4. counter' = Put(counter, s, NextIndex(s) + 1)
  BY <1>1 DEF TakeBreakIndex
<1>5. NextIndex(s)' = NextIndex(s) + 1
  BY <1>2, <1>4 DEF Put, NextIndex
<1>6. HasIndex(w)'
  BY <1>3 DEF HasIndex
<1> QED  BY <1>1, <1>2, <1>3, <1>5, <1>6 DEF FirstOf, FirstTime, Agrees

(* The worker whose call goes on to its next creative or returns: its pod   *)
(* answers the break that has its index.                                    *)
LEMMA FirstFills ==
  ASSUME TypeOK, SsaiTypeOK, IndexInv, NEW w \in Workers, FillPod(w), FirstOf(w),
         CheckRoom(w) \/ Insert(w)
  PROVE  FirstOf(w)'
<1> HIDE DEF AdSegment, Decisions, Call
<1>0. PICK s, answers, n : s = req[w].session /\ answers = req[w].answers /\ n = Len(answers)
  OBVIOUS
<1>1. /\ w \in DOMAIN calls /\ w \in DOMAIN req /\ calls[w] \in Call /\ HasIndex(w)
      /\ calls[w].session = s /\ calls[w].decision \in Decisions
      /\ answers \in Seq(Seq(AdSegment)) /\ n \in Nat
  BY <1>0 DEF CheckRoom, Insert, TypeOK, SsaiTypeOK, HasIndex, Call
<1>2. UNCHANGED <<epoch, requests, counter>>
  BY DEF FillPod, CheckRoom, Insert
<1>3. CallsKept
  BY CheckRoomKeeps, InsertEffect
<1>4. \A k \in DOMAIN cache' :
        \/ k \in DOMAIN cache /\ cache'[k].decision = cache[k].decision
        \/ k[1] = s /\ k[2] = calls[w].brk /\ cache'[k].decision = calls[w].decision
  <2>1. CASE CheckRoom(w)
    BY <2>1 DEF CheckRoom
  <2>2. CASE Insert(w)
    BY <2>2, <1>1, InsertedEntry
  <2> QED  BY <2>1, <2>2
<1>5. NextIndex(s)' = NextIndex(s) /\ FirstTime(s)' = FirstTime(s)
  BY <1>2 DEF NextIndex, FirstTime
<1>6. FirstTime(s) /\ AllPods(answers) =>
        /\ calls[w].brk = n /\ NextIndex(s) = n + 1
        /\ \A b \in 1 .. n : Agrees(s, answers, b)
  BY <1>0, <1>1 DEF FirstOf
<1>7. ASSUME FirstTime(s), AllPods(answers), NEW b \in 1 .. n
      PROVE  \A k \in DOMAIN cache' :
               k[1] = s /\ k[2] = b - 1 => IsPod(answers[b], cache'[k].decision)
  <2> SUFFICES ASSUME NEW k \in DOMAIN cache', k[1] = s, k[2] = b - 1
               PROVE  IsPod(answers[b], cache'[k].decision)
    OBVIOUS
  <2>1. k[2] # calls[w].brk
    BY <1>1, <1>6, <1>7
  <2>2. k \in DOMAIN cache /\ cache'[k].decision = cache[k].decision
    BY <2>1, <1>4
  <2>3. Agrees(s, answers, b)
    BY <1>6, <1>7
  <2> QED  BY <2>2, <2>3 DEF Agrees
<1>8. CASE w \in DOMAIN calls'
  <2>1. req' = req /\ HasIndex(w)' /\ calls'[w].brk = calls[w].brk
    BY <1>1, <1>3, <1>8 DEF FillPod, CallsKept, HasIndex
  <2> QED  BY <2>1, <1>0, <1>1, <1>5, <1>6, <1>7, <1>8 DEF FirstOf, Agrees
<1>9. CASE w \notin DOMAIN calls'
  <2> DEFINE segments == PodSegments(calls[w])
             all == Append(answers, segments)
  <2>1. Answer(w, segments)
    BY <1>9 DEF FillPod
  <2>2. segments \in Seq(AdSegment) /\ IsPod(segments, calls[w].decision)
    BY <1>1, PodTyped
  <2>3. req'[w] = [session |-> s, answers |-> all]
    BY <2>1, <2>2, <1>0, <1>1, AnswerEffect
  <2>4. /\ all \in Seq(Seq(AdSegment)) /\ Len(all) = n + 1
        /\ \A b \in 1 .. n : all[b] = answers[b]
        /\ all[n + 1] = segments
    BY <2>2, <1>0, <1>1, AnswerAppended
  <2>5. AllPods(all) => AllPods(answers)
    BY <2>2, <1>1, AllPodsFront
  <2> HIDE DEF all, segments
  <2>6. ASSUME FirstTime(s), AllPods(all), NEW b \in 1 .. n + 1,
               NEW k \in DOMAIN cache', k[1] = s, k[2] = b - 1
        PROVE  IsPod(all[b], cache'[k].decision)
    <3>1. AllPods(answers)
      BY <2>5, <2>6
    <3>2. calls[w].brk = n
      BY <1>6, <2>6, <3>1
    <3>3. CASE b \in 1 .. n
      BY <3>1, <3>3, <1>7, <2>4, <2>6
    <3>4. CASE b = n + 1
      <4>1. k[2] = calls[w].brk
        BY <3>2, <3>4, <2>6, <1>1
      <4>2. epoch[calls[w].session] = 0
        BY <2>6, <1>1 DEF FirstTime
      <4>3. cache'[k].decision = calls[w].decision
        BY <4>1, <4>2, <1>1, <1>4, <2>6, FirstEpoch
      <4> QED  BY <4>3, <3>4, <2>2, <2>4
    <3>5. b \in 1 .. n \/ b = n + 1
      BY <1>1
    <3> QED  BY <3>3, <3>4, <3>5
  <2>7. FirstTime(s) /\ AllPods(all) =>
          /\ NextIndex(s)' = Len(all)
          /\ \A b \in 1 .. Len(all) : \A k \in DOMAIN cache' :
               k[1] = s /\ k[2] = b - 1 => IsPod(all[b], cache'[k].decision)
    BY <2>4, <2>5, <2>6, <1>5, <1>6
  <2>8. req'[w].session = s /\ req'[w].answers = all
    BY <2>3
  <2> QED  BY <2>7, <2>8, <1>5, <1>9 DEF FirstOf, Agrees
<1> QED  BY <1>8, <1>9

LEMMA FirstInit == SsaiInit => FirstInv
BY DEF SsaiInit, FirstInv

LEMMA FirstNext ==
  ASSUME TypeOK, SsaiTypeOK, SessionInv, IndexInv, FirstInv, [SsaiNext]_allVars
  PROVE  FirstInv'
<1> HIDE DEF AdSegment, Decisions, Call
<1>0. /\ \A v \in DOMAIN req : req[v].session \in Sessions
      /\ \A s \in Sessions : requests[s] \in Nat
  BY DEF SsaiTypeOK
<1>1. ASSUME NEW w \in Workers, NEW s \in Sessions, RequestPlaylist(w, s)
      PROVE  FirstInv'
  <2>1. /\ DOMAIN req' = DOMAIN req \cup {w}
        /\ w \notin DOMAIN req /\ req'[w] = [session |-> s, answers |-> << >>]
        /\ \A v \in DOMAIN req : req'[v] = req[v]
        /\ UNCHANGED vars
        /\ requests' = [requests EXCEPT ![s] = @ + 1]
    BY <1>1 DEF RequestPlaylist, Put
  <2>2. ASSUME NEW v \in DOMAIN req
        PROVE  FirstOf(v)'
    <3>1. FirstTime(req[v].session)' => FirstTime(req[v].session)
      <4>1. CASE req[v].session = s
        <5>1. requests[s] # 0
          BY <4>1, Started
        <5>2. requests'[s] # 1
          BY <5>1, <2>1, <1>0 DEF SsaiTypeOK
        <5> QED  BY <5>2, <4>1, <2>1 DEF FirstTime
      <4>2. CASE req[v].session # s
        BY <4>2, <2>1, <1>0 DEF FirstTime, vars, SsaiTypeOK
      <4> QED  BY <4>1, <4>2
    <3> QED  BY <3>1, <2>1, FirstKept DEF FirstInv, vars, NextIndex, HasIndex
  <2>3. FirstOf(w)'
    <3>1. w \notin DOMAIN calls'
      BY <2>1 DEF SsaiTypeOK, vars
    <3>2. FirstTime(s)' => NextIndex(s)' = 0
      <4>1. FirstTime(s)' => requests[s] = 0
        BY <2>1, <1>0 DEF FirstTime, SsaiTypeOK
      <4> QED  BY <4>1, <2>1 DEF SessionInv, NextIndex, vars
    <3>3. req'[w].session = s /\ Len(req'[w].answers) = 0
      BY <2>1
    <3> QED  BY <3>1, <3>2, <3>3 DEF FirstOf
  <2> QED  BY <2>1, <2>2, <2>3 DEF FirstInv
<1>2. ASSUME NEW w \in Workers, NEW n \in 1 .. MaxPod, AskPod(w, n)
      PROVE  FirstInv'
  <2>1. /\ w \notin DOMAIN calls
        /\ DOMAIN calls' = DOMAIN calls \cup {w}
        /\ calls'[w].pc = "counter"
        /\ \A v \in DOMAIN calls : calls'[v] = calls[v]
        /\ UNCHANGED <<cache, counter, epoch, req, requests>>
    BY <1>2 DEF AskPod, FetchPod, Put, ssaiVars
  <2> QED  BY <2>1, FirstKept DEF FirstInv, FirstTime, NextIndex, HasIndex
<1>3. ASSUME NEW w \in Workers, AskFallback(w)
      PROVE  FirstInv'
  <2>1. /\ w \in DOMAIN req /\ Answer(w, FallbackSegments)
        /\ UNCHANGED <<vars, requests>>
    BY <1>3 DEF AskFallback, BreaksLeft, NoPod
  <2>2. /\ DOMAIN req' = DOMAIN req
        /\ req'[w].answers = Append(req[w].answers, FallbackSegments)
        /\ \A v \in DOMAIN req : v # w => req'[v] = req[v]
    <3>1. /\ DOMAIN req' = DOMAIN req
          /\ req'[w] = [session |-> req[w].session,
                        answers |-> Append(req[w].answers, FallbackSegments)]
          /\ \A v \in DOMAIN req : v # w => req'[v] = req[v]
      BY <2>1, FallbackTyped, AnswerEffect
    <3> QED  BY <3>1
  <2>3. ~ AllPods(req'[w].answers)
    BY <2>1, <2>2, FallbackTyped, AllPodsFront, PodNoFallback DEF SsaiTypeOK
  <2>4. FirstOf(w)'
    BY <2>3 DEF FirstOf, AllPods
  <2>5. ASSUME NEW v \in DOMAIN req, v # w
        PROVE  FirstOf(v)'
    BY <2>1, <2>2, <2>5, FirstKept DEF FirstInv, FirstTime, NextIndex, HasIndex, vars
  <2> QED  BY <2>2, <2>4, <2>5 DEF FirstInv
<1>4. ASSUME NEW w \in Workers, FillPod(w)
      PROVE  FirstInv'
  <2> DEFINE s == calls[w].session
  <2>1. /\ w \in DOMAIN calls /\ w \in DOMAIN req
        /\ DOMAIN calls' \subseteq DOMAIN calls
        /\ \A v \in DOMAIN calls : v # w => v \in DOMAIN calls' /\ calls'[v] = calls[v]
        /\ UNCHANGED <<epoch, manifest, requests>>
        /\ w \in DOMAIN calls' => req' = req
        /\ w \notin DOMAIN calls' => Answer(w, PodSegments(calls[w]))
    BY <1>4, FillEffect
  <2>2. /\ DOMAIN req' = DOMAIN req
        /\ \A v \in DOMAIN req : v # w => req'[v] = req[v]
    <3>1. CASE w \in DOMAIN calls'
      BY <3>1, <2>1
    <3>2. CASE w \notin DOMAIN calls'
      <4>1. PodSegments(calls[w]) \in Seq(AdSegment)
        BY <2>1, PodTyped DEF TypeOK
      <4> QED  BY <4>1, <3>2, <2>1, AnswerEffect
    <3> QED  BY <3>1, <3>2
  <2>3. FirstOf(w)'
    BY <1>4, <2>1, FirstTakes, FirstFills DEF FirstInv, FillPod
  <2>4. ASSUME NEW v \in DOMAIN req, v # w
        PROVE  FirstOf(v)'
    <3> DEFINE t == req[v].session
    <3>1. s = req[w].session /\ t \in Sessions
      BY <2>1, <1>0 DEF SsaiTypeOK
    <3>2. CASE requests[t] # 1
      BY <3>2, <2>1, <2>2, <2>4 DEF FirstOf, FirstTime
    <3>3. CASE requests[t] = 1
      <4>1. t # s
        BY <3>1, <3>3, <2>1, <2>4 DEF SessionInv
      <4>2. NextIndex(t)' = NextIndex(t)
        <5>1. counter' = counter \/ counter' = Put(counter, s, NextIndex(s) + 1)
          BY <1>4 DEF FillPod, TakeBreakIndex, CheckRoom, Insert
        <5>2. req'[v].session = t
          BY <2>2, <2>4
        <5> QED  BY <5>1, <5>2, <4>1 DEF Put, NextIndex
      <4>3. \A k \in DOMAIN cache' : k[1] = t =>
              k \in DOMAIN cache /\ cache'[k].decision = cache[k].decision
        <5>1. CASE Insert(w)
          BY <5>1, <4>1, InsertedEntry
        <5>2. CASE ~ Insert(w)
          BY <5>2, <1>4 DEF FillPod, TakeBreakIndex, CheckRoom
        <5> QED  BY <5>1, <5>2
      <4>4. FirstTime(t)' = FirstTime(t)
        BY <2>1, <2>2, <2>4 DEF FirstTime
      <4> QED  BY <4>2, <4>3, <4>4, <2>1, <2>2, <2>4, FirstKept DEF FirstInv, HasIndex
    <3> QED  BY <3>2, <3>3
  <2> QED  BY <2>2, <2>3, <2>4 DEF FirstInv
<1>5. ASSUME NEW w \in Workers, DeliverPlaylist(w) \/ AbandonPlaylist(w)
      PROVE  FirstInv'
  <2>1. /\ \A v \in DOMAIN req' : v \in DOMAIN req /\ req'[v] = req[v]
        /\ UNCHANGED <<vars, requests>>
    BY <1>5 DEF DeliverPlaylist, AbandonPlaylist, Restrict
  <2> QED  BY <2>1, FirstKept DEF FirstInv, vars, FirstTime, NextIndex, HasIndex
<1>6. CASE AdRequests
  <2>1. PICK k \in DOMAIN cache : Resolve(k)
    BY <1>6 DEF AdRequests, StartAd, Resolve
  <2>2. /\ UNCHANGED <<calls, counter, epoch>>
        /\ UNCHANGED ssaiVars
    BY <1>6, <2>1 DEF AdRequests, StartAd, Resolve
  <2>3. \A l \in DOMAIN cache' : l \in DOMAIN cache /\ cache'[l].decision = cache[l].decision
    BY <2>1, ResolveKeeps
  <2> QED  BY <2>2, <2>3, FirstKept DEF FirstInv, ssaiVars, FirstTime, NextIndex, HasIndex
<1>7. CASE Background
  <2>1. UNCHANGED ssaiVars /\ calls' = calls
        /\ \A k \in DOMAIN cache' : k \in DOMAIN cache /\ cache'[k] = cache[k]
    BY <1>7, CleanupKeeps DEF Background, Tick
  <2>2. ASSUME NEW s \in Sessions, epoch'[s] = 0
        PROVE  epoch[s] = 0 /\ NextIndex(s)' = NextIndex(s)
    <3>1. CASE CleanCounters
      <4>1. epoch[s] \in Nat
        BY DEF TypeOK
      <4>2. s \notin DOMAIN counter \ Retained /\ epoch[s] = 0
        BY <3>1, <2>2, <4>1 DEF CleanCounters
      <4> QED  BY <3>1, <4>2 DEF CleanCounters, Restrict, Retained, NextIndex
    <3>2. CASE ~ CleanCounters
      BY <1>7, <2>2, <3>2 DEF Background, Tick, Cleanup, CleanStart, CleanAge, CleanMeasure,
         CleanSnapshot, CleanTrim, CleanTrimmed, CleanReport, CleanSessions, NextIndex
    <3> QED  BY <3>1, <3>2
  <2> QED  BY <2>1, <2>2, <1>0, FirstKept DEF FirstInv, ssaiVars, FirstTime, HasIndex
<1>8. CASE UNCHANGED allVars
  BY <1>8, FirstKept DEF FirstInv, allVars, vars, ssaiVars, FirstTime, NextIndex, HasIndex
<1> QED  BY <1>1, <1>2, <1>3, <1>4, <1>5, <1>6, <1>7, <1>8 DEF SsaiNext, Playlists

-----------------------------------------------------------------------------
(* The playlist delivered                                                  *)

(* A name and the ad it was written for come from one segment of one        *)
(* answer.                                                                  *)
LEMMA StitchedFrom ==
  ASSUME NEW answers, NEW m \in Stitched(answers)
  PROVE  \E b \in DOMAIN answers : \E i \in DOMAIN answers[b] :
           m = [name |-> BreakName(b - 1, i - 1), ad |-> answers[b][i].ad]
BY DEF Stitched, StitchedName

(* A playlist with as many pods as breaks has a pod for every break: an     *)
(* answer names one decision at most.                                       *)
LEMMA FilledByPods ==
  ASSUME NEW answers \in Seq(Seq(AdSegment)), Len(answers) = Breaks,
         \A b \in 1 .. Len(answers) :
           IsFallback(answers[b]) \/ \E d \in Decisions : IsPod(answers[b], d),
         Cardinality({m.ad[1] : m \in Stitched(answers)} \ {0}) = Breaks
  PROVE  AllPods(answers)
<1> HIDE DEF AdSegment, Decisions
<1> DEFINE pods == {m.ad[1] : m \in Stitched(answers)} \ {0}
           Names(b) == answers[b][1].ad[1]
<1>0. Breaks \in Nat /\ Breaks > 0
  BY SsaiAssumption
<1>1. SUFFICES ASSUME NEW c \in 1 .. Breaks, IsFallback(answers[c])
               PROVE  FALSE
  BY <1>0 DEF AllPods
<1> DEFINE S == (1 .. Breaks) \ {c}
           f == [b \in S |-> Names(b)]
           T == {f[b] : b \in S}
<1>2. IsFiniteSet(S) /\ Cardinality(S) = Breaks - 1
  <2>1. IsFiniteSet(1 .. Breaks) /\ Cardinality(1 .. Breaks) = Breaks
    BY <1>0, FS_Interval
  <2>2. c \in 1 .. Breaks
    BY <1>1
  <2> QED  BY <2>1, <2>2, FS_RemoveElement
<1>3. f \in Surjection(S, T)
  <2>1. f \in [S -> T]
    OBVIOUS
  <2>2. \A y \in T : \E b \in S : f[b] = y
    OBVIOUS
  <2> HIDE DEF f, T, S
  <2> QED  BY <2>1, <2>2 DEF Surjection
<1>4. IsFiniteSet(T) /\ Cardinality(T) <= Breaks - 1
  BY <1>2, <1>3, FS_Surjection
<1>5. pods \subseteq T
  <2> SUFFICES ASSUME NEW x \in pods
               PROVE  x \in T
    OBVIOUS
  <2>1. PICK m \in Stitched(answers) : x = m.ad[1] /\ x # 0
    OBVIOUS
  <2>2. PICK b \in DOMAIN answers : \E i \in DOMAIN answers[b] :
           m = [name |-> BreakName(b - 1, i - 1), ad |-> answers[b][i].ad]
    BY StitchedFrom
  <2>3. PICK i \in DOMAIN answers[b] : m.ad = answers[b][i].ad
    BY <2>2
  <2>4. b \in 1 .. Breaks /\ b \in 1 .. Len(answers) /\ x = answers[b][i].ad[1]
    BY <2>1, <2>3
  <2>5. ~ IsFallback(answers[b])
    BY <2>1, <2>4 DEF IsFallback
  <2>6. b \in S
    BY <2>4, <2>5, <1>1
  <2>7. PICK d \in Decisions : IsPod(answers[b], d)
    BY <2>4, <2>5
  <2>8. answers[b] \in Seq(AdSegment)
    BY <2>4
  <2>9. 1 \in DOMAIN answers[b]
    BY <2>7, <2>8 DEF IsPod
  <2>10. answers[b][1].ad[1] = d /\ answers[b][i].ad[1] = d
    BY <2>7, <2>9 DEF IsPod
  <2>11. x = f[b]
    BY <2>4, <2>6, <2>10
  <2> QED  BY <2>6, <2>11
<1>6. Cardinality(pods) <= Cardinality(T) /\ Cardinality(pods) = Breaks
  BY <1>4, <1>5, FS_Subset
<1>7. Cardinality(T) \in Nat
  BY <1>4, FS_CardinalityType
<1> HIDE DEF pods, Names, S, f, T
<1> QED  BY <1>0, <1>4, <1>6, <1>7

LEMMA DeliveredInit == SsaiInit => DeliveredInv
BY DEF SsaiInit, DeliveredInv

(* Without a delivery, and with no more entries in the cache, what was      *)
(* delivered stays right.                                                   *)
LEMMA DeliveredKept ==
  ASSUME TypeOK, SsaiTypeOK, SessionInv, DeliveredInv, UNCHANGED <<manifest, requests>>,
         \A s \in Sessions : epoch'[s] = 0 => epoch[s] = 0,
         \A k \in DOMAIN cache' :
           \/ k \in DOMAIN cache /\ cache'[k].decision = cache[k].decision
           \/ \E w \in DOMAIN req : req[w].session = k[1]
  PROVE  DeliveredInv'
<1> SUFFICES ASSUME NEW s \in Sessions, FirstTime(s)', AllBreaksFilled(s),
                    NEW m \in manifest[s]
             PROVE  /\ ~ m.name.slate
                    /\ KeyFor(s, m.name) \in DOMAIN cache' => AdOf(KeyFor(s, m.name))' = m.ad
  BY DEF DeliveredInv, AllBreaksFilled
<1> DEFINE k == KeyFor(s, m.name)
<1>1. FirstTime(s)
  BY DEF FirstTime
<1>2. ~ m.name.slate /\ (k \in DOMAIN cache => AdOf(k) = m.ad)
  BY <1>1 DEF DeliveredInv
<1>3. \A w \in DOMAIN req : req[w].session # s
  BY <1>1 DEF SessionInv, FirstTime
<1>4. k[1] = s
  BY DEF KeyFor
<1> HIDE DEF k
<1>5. k \in DOMAIN cache' => k \in DOMAIN cache /\ cache'[k].decision = cache[k].decision
  BY <1>3, <1>4
<1> QED  BY <1>2, <1>5 DEF AdOf, k

LEMMA DeliveredNext ==
  ASSUME TypeOK, SsaiTypeOK, SessionInv, FirstInv, DeliveredInv, [SsaiNext]_allVars
  PROVE  DeliveredInv'
<1> HIDE DEF AdSegment, Decisions, Call
<1>1. ASSUME NEW w \in Workers, NEW s \in Sessions, RequestPlaylist(w, s)
      PROVE  DeliveredInv'
  <2>1. /\ UNCHANGED <<vars, manifest>>
        /\ requests' = [requests EXCEPT ![s] = @ + 1]
    BY <1>1 DEF RequestPlaylist
  <2>2. ASSUME NEW t \in Sessions, FirstTime(t)', manifest[t] # {}
        PROVE  FirstTime(t)
    <3>1. CASE t = s
      <4>1. requests[t] = 0
        BY <3>1, <2>1, <2>2 DEF FirstTime, SsaiTypeOK
      <4> QED  BY <4>1, <2>2 DEF SessionInv
    <3>2. CASE t # s
      BY <3>2, <2>1, <2>2 DEF FirstTime, SsaiTypeOK, vars
    <3> QED  BY <3>1, <3>2
  <2> QED  BY <2>1, <2>2 DEF DeliveredInv, vars, AllBreaksFilled, AdOf
<1>2. ASSUME NEW w \in Workers, DeliverPlaylist(w)
      PROVE  DeliveredInv'
  <2> DEFINE t == req[w].session
             answers == req[w].answers
  <2>1. /\ w \in DOMAIN req /\ w \notin DOMAIN calls
        /\ Len(answers) = Breaks
        /\ t \in Sessions /\ answers \in Seq(Seq(AdSegment))
        /\ UNCHANGED <<vars, requests>>
        /\ manifest' = [manifest EXCEPT ![t] = Stitched(answers)]
    BY <1>2 DEF DeliverPlaylist, SsaiTypeOK
  <2>2. \A b \in 1 .. Len(answers) :
          IsFallback(answers[b]) \/ \E d \in Decisions : IsPod(answers[b], d)
    BY <2>1 DEF SsaiTypeOK
  <2>3. FirstOf(w)
    BY <2>1 DEF FirstInv
  <2>4. DOMAIN manifest = Sessions
    BY DEF SsaiTypeOK
  <2>5. PICK u, all : u = t /\ all = answers
    OBVIOUS
  <2> HIDE DEF t, answers
  <2>6. ASSUME FirstTime(u), Cardinality({m.ad[1] : m \in Stitched(all)} \ {0}) = Breaks,
               NEW m \in Stitched(all)
        PROVE  /\ ~ m.name.slate
               /\ KeyFor(u, m.name) \in DOMAIN cache => AdOf(KeyFor(u, m.name)) = m.ad
    <3>1. AllPods(all)
      BY <2>1, <2>2, <2>5, <2>6, FilledByPods
    <3>2. \A b \in 1 .. Len(all) : Agrees(u, all, b)
      BY <3>1, <2>3, <2>5, <2>6 DEF FirstOf, t, answers
    <3>3. PICK b \in DOMAIN all : \E i \in DOMAIN all[b] :
             m = [name |-> BreakName(b - 1, i - 1), ad |-> all[b][i].ad]
      BY StitchedFrom
    <3>4. PICK i \in DOMAIN all[b] : m = [name |-> BreakName(b - 1, i - 1), ad |-> all[b][i].ad]
      BY <3>3
    <3>5. b \in 1 .. Len(all)
      BY <2>1, <2>5
    <3>6. m.name = [slate |-> FALSE, brk |-> b - 1, seg |-> i - 1] /\ m.ad = all[b][i].ad
      BY <3>4 DEF BreakName
    <3>7. KeyFor(u, m.name) = <<u, b - 1, i - 1>>
      BY <3>6 DEF KeyFor
    <3>8. ASSUME <<u, b - 1, i - 1>> \in DOMAIN cache
          PROVE  AdOf(<<u, b - 1, i - 1>>) = m.ad
      <4> DEFINE k == <<u, b - 1, i - 1>>
      <4>1. IsPod(all[b], cache[k].decision)
        BY <3>2, <3>5, <3>8 DEF Agrees
      <4>2. all[b][i].ad = <<cache[k].decision, i - 1>>
        BY <4>1, <3>4 DEF IsPod
      <4> QED  BY <4>2, <3>6 DEF AdOf
    <3> QED  BY <3>6, <3>7, <3>8
  <2>7. ASSUME NEW s \in Sessions, FirstTime(s), AllBreaksFilled(s)', NEW m \in manifest'[s]
        PROVE  /\ ~ m.name.slate
               /\ KeyFor(s, m.name) \in DOMAIN cache => AdOf(KeyFor(s, m.name)) = m.ad
    <3>1. CASE s = u
      <4>1. manifest'[s] = Stitched(all)
        BY <3>1, <2>1, <2>4, <2>5
      <4> QED  BY <4>1, <3>1, <2>6, <2>7 DEF AllBreaksFilled
    <3>2. CASE s # u
      <4>1. manifest'[s] = manifest[s]
        BY <3>2, <2>1, <2>4, <2>5
      <4> QED  BY <4>1, <2>7 DEF AllBreaksFilled, DeliveredInv
    <3> QED  BY <3>1, <3>2
  <2> QED  BY <2>1, <2>7 DEF DeliveredInv, FirstTime, vars, AdOf
<1>3. ASSUME NEW w \in Workers, NEW n \in 1 .. MaxPod, AskPod(w, n)
      PROVE  DeliveredInv'
  BY <1>3, DeliveredKept DEF AskPod, FetchPod, ssaiVars
<1>4. ASSUME NEW w \in Workers, AskFallback(w) \/ AbandonPlaylist(w)
      PROVE  DeliveredInv'
  BY <1>4, DeliveredKept DEF AskFallback, NoPod, AbandonPlaylist, vars
<1>5. ASSUME NEW w \in Workers, FillPod(w)
      PROVE  DeliveredInv'
  <2>1. /\ w \in DOMAIN calls /\ w \in DOMAIN req
        /\ UNCHANGED <<epoch, manifest, requests>>
    BY <1>5, FillEffect
  <2>2. calls[w].session = req[w].session
    BY <2>1 DEF SsaiTypeOK
  <2>3. \A k \in DOMAIN cache' :
          \/ k \in DOMAIN cache /\ cache'[k].decision = cache[k].decision
          \/ k[1] = req[w].session
    <3>1. CASE Insert(w)
      BY <3>1, <2>2, InsertedEntry
    <3>2. CASE ~ Insert(w)
      BY <1>5, <3>2 DEF FillPod, TakeBreakIndex, CheckRoom
    <3> QED  BY <3>1, <3>2
  <2> QED  BY <2>1, <2>3, DeliveredKept
<1>6. CASE AdRequests
  <2>1. PICK k \in DOMAIN cache : Resolve(k)
    BY <1>6 DEF AdRequests, StartAd, Resolve
  <2>2. UNCHANGED epoch /\ UNCHANGED ssaiVars
    BY <1>6, <2>1 DEF AdRequests, StartAd, Resolve
  <2>3. \A l \in DOMAIN cache' : l \in DOMAIN cache /\ cache'[l].decision = cache[l].decision
    BY <2>1, ResolveKeeps
  <2> QED  BY <2>2, <2>3, DeliveredKept DEF ssaiVars
<1>7. CASE Background
  <2>1. UNCHANGED ssaiVars
        /\ \A k \in DOMAIN cache' : k \in DOMAIN cache /\ cache'[k] = cache[k]
    BY <1>7, CleanupKeeps DEF Background, Tick
  <2>2. \A s \in Sessions : epoch'[s] = 0 => epoch[s] = 0
    <3>1. CASE CleanCounters
      BY <3>1 DEF CleanCounters, TypeOK
    <3>2. CASE ~ CleanCounters
      BY <1>7, <3>2 DEF Background, Tick, Cleanup, CleanStart, CleanAge, CleanMeasure,
         CleanSnapshot, CleanTrim, CleanTrimmed, CleanReport, CleanSessions
    <3> QED  BY <3>1, <3>2
  <2> QED  BY <2>1, <2>2, DeliveredKept DEF ssaiVars
<1>8. CASE UNCHANGED allVars
  BY <1>8, DeliveredKept DEF allVars, vars, ssaiVars
<1> QED  BY <1>1, <1>2, <1>3, <1>4, <1>5, <1>6, <1>7, <1>8 DEF SsaiNext, Playlists

LEMMA SsaiInvariant == SsaiSpec => [](SessionInv /\ FirstInv /\ DeliveredInv)
<1>1. SsaiInit => SessionInv /\ FirstInv /\ DeliveredInv
  BY SessionInit, FirstInit, DeliveredInit
<1>2. TypeOK /\ SsaiTypeOK /\ IndexInv /\ SessionInv /\ FirstInv /\ DeliveredInv
        /\ [SsaiNext]_allVars
      => (SessionInv /\ FirstInv /\ DeliveredInv)'
  BY SessionNext, FirstNext, DeliveredNext
<1> QED  BY <1>1, <1>2, SsaiImplementsAdCache, TypeCorrect, IndexInvariant, PTL DEF SsaiSpec

(* In the first playlist of a session, if the ad server filled every break  *)
(* and the session's counter was not dropped, each name resolves to the ad  *)
(* decided for it or to nothing (get_ad_segments, create_media_segment_     *)
(* from_ad), whatever other sessions and the cleanup do.                    *)
THEOREM FirstPlaylistNamed == SsaiSpec => []FirstPlaylistFaithful
<1>1. DeliveredInv => FirstPlaylistFaithful
  BY DEF DeliveredInv, FirstPlaylistFaithful, FirstTime, NameMeans, Resolves, ResolvedAd
<1> QED  BY <1>1, SsaiInvariant, PTL

(* The handlers above the provider neither overfill its cache beyond the    *)
(* bound nor get the tracking of a creative twice.                          *)
THEOREM SsaiCacheBounds == SsaiSpec => [](BoundedOvershoot /\ TrackedAtMostOnce)
BY SsaiImplementsAdCache, Overshoot, TrackedOnce, PTL
=============================================================================
