--------------------------- MODULE TrackingProofs ---------------------------
(* Proofs about Tracking: for a pod of any length each quartile is crossed  *)
(* at exactly one segment, whatever the order of the requests; no beacon is *)
(* fired twice; and the permits add up.                                     *)
EXTENDS Tracking, FiniteSetTheorems, TLAPS

-----------------------------------------------------------------------------
(* The thresholds                                                          *)

(* A quartile's threshold is crossed somewhere ...                          *)
LEMMA SomeCrossing ==
  ASSUME NEW n \in Nat \ {0}, NEW q \in 1 .. 3
  PROVE  \E i \in 0 .. (n - 1) : Reaches(i, n, q) /\ NotBefore(i, n, q)
<1>1. CASE n = 1
  BY <1>1 DEF Reaches, NotBefore
<1>2. CASE n # 1
  <2> DEFINE m == q * (n - 1)
             i == (m + 3) \div 4
  <2>1. m \in 1 .. 3 * (n - 1)
    <3>1. CASE q = 1 BY <3>1, <1>2
    <3>2. CASE q = 2 BY <3>2, <1>2
    <3>3. CASE q = 3 BY <3>3, <1>2
    <3> QED BY <3>1, <3>2, <3>3
  <2>2. m \in Nat /\ i \in Nat /\ 4 * i >= m /\ 4 * (i - 1) < m
    <3> HIDE DEF m
    <3> QED BY <2>1
  <2>3. i \in 0 .. (n - 1)
    <3> HIDE DEF i, m
    <3> QED BY <2>1, <2>2
  <2>4. Reaches(i, n, q) /\ NotBefore(i, n, q)
    BY <2>2 DEF Reaches, NotBefore
  <2> HIDE DEF i
  <2> QED BY <2>3, <2>4
<1> QED BY <1>1, <1>2

(* ... and nowhere else.                                                    *)
LEMMA OneCrossing ==
  ASSUME NEW n \in Nat \ {0}, NEW q \in 1 .. 3,
         NEW i \in 0 .. (n - 1), NEW j \in 0 .. (n - 1),
         Reaches(i, n, q), NotBefore(i, n, q), Reaches(j, n, q), NotBefore(j, n, q)
  PROVE  i = j
<1>1. CASE n = 1
  BY <1>1
<1>2. CASE n # 1
  <2> DEFINE m == q * (n - 1)
  <2>1. m \in Nat /\ m > 0
    <3>1. CASE q = 1 BY <3>1, <1>2
    <3>2. CASE q = 2 BY <3>2, <1>2
    <3>3. CASE q = 3 BY <3>3, <1>2
    <3> QED BY <3>1, <3>2, <3>3
  <2>2. 4 * i >= m /\ 4 * j >= m
    BY <1>2 DEF Reaches
  <2>3. (i = 0 \/ 4 * (i - 1) < m) /\ (j = 0 \/ 4 * (j - 1) < m)
    BY <1>2 DEF NotBefore
  <2> HIDE DEF m
  <2> QED BY <2>1, <2>2, <2>3
<1> QED BY <1>1, <1>2

LEMMA QuartersRange == \A e \in Quartiles : Quarters(e) \in 1 .. 3
BY DEF Quartiles, Quarters

(* Every event fires at exactly one of the segments, for every number of    *)
(* segments: "start" at the first, "complete" at the last, each quartile    *)
(* where its threshold is crossed.                                          *)
THEOREM EventsOnce ==
  ASSUME NEW n \in Nat \ {0}, NEW e \in Events
  PROVE  /\ \E i \in 0 .. (n - 1) : Fires(e, i, n)
         /\ \A i, j \in 0 .. (n - 1) : Fires(e, i, n) /\ Fires(e, j, n) => i = j
<1>1. CASE e \in Quartiles
  <2>1. \A i \in 0 .. (n - 1) : Fires(e, i, n) <=>
          Reaches(i, n, Quarters(e)) /\ NotBefore(i, n, Quarters(e))
    BY <1>1 DEF Fires, Quartiles
  <2>2. Quarters(e) \in 1 .. 3
    BY <1>1, QuartersRange
  <2>3. \E i \in 0 .. (n - 1) : Fires(e, i, n)
    BY <2>1, <2>2, SomeCrossing
  <2>4. \A i, j \in 0 .. (n - 1) : Fires(e, i, n) /\ Fires(e, j, n) => i = j
    BY <2>1, <2>2, OneCrossing
  <2> QED BY <2>3, <2>4
<1>2. CASE e = "start"
  <2>1. \A i \in 0 .. (n - 1) : Fires(e, i, n) <=> i = 0
    BY <1>2 DEF Fires, Quartiles
  <2> QED BY <2>1
<1>3. CASE e = "complete"
  <2>1. \A i \in 0 .. (n - 1) : Fires(e, i, n) <=> i = n - 1
    BY <1>3 DEF Fires, Quartiles
  <2> QED BY <2>1
<1> QED BY <1>1, <1>2, <1>3 DEF Events

(* The quartiles of one list come in order: a later one never fires at an   *)
(* earlier segment.                                                         *)
THEOREM QuartilesOrdered ==
  ASSUME NEW n \in Nat \ {0}, NEW p \in 1 .. 3, NEW q \in 1 .. 3, p <= q,
         NEW i \in 0 .. (n - 1), NEW j \in 0 .. (n - 1),
         Reaches(i, n, p), NotBefore(i, n, p), Reaches(j, n, q), NotBefore(j, n, q)
  PROVE  i <= j
<1>1. CASE n = 1
  BY <1>1
<1>2. CASE n # 1
  <2> DEFINE a == p * (n - 1)
             b == q * (n - 1)
  <2>1. a \in Nat /\ b \in Nat /\ a <= b
    <3>1. CASE p = 1 /\ q = 1 BY <3>1
    <3>2. CASE p = 1 /\ q = 2 BY <3>2
    <3>3. CASE p = 1 /\ q = 3 BY <3>3
    <3>4. CASE p = 2 /\ q = 2 BY <3>4
    <3>5. CASE p = 2 /\ q = 3 BY <3>5
    <3>6. CASE p = 3 /\ q = 3 BY <3>6
    <3> QED BY <3>1, <3>2, <3>3, <3>4, <3>5, <3>6
  <2>2. i = 0 \/ 4 * (i - 1) < a
    BY <1>2 DEF NotBefore
  <2>3. 4 * j >= b
    BY <1>2 DEF Reaches
  <2> HIDE DEF a, b
  <2> QED BY <2>1, <2>2, <2>3
<1> QED BY <1>1, <1>2

-----------------------------------------------------------------------------
(* The invariant                                                           *)

Inv == TypeOK /\ FiredInv /\ TaskInv

LEMMA BeaconsFinite == IsFiniteSet(Beacons)
<1>1. IsFiniteSet(Segments)
  BY PodAssumption, FS_Interval DEF Segments
<1>2. IsFiniteSet(Events \cup {"impression", "error"})
  <2>1. Events \cup {"impression", "error"} =
          {"firstQuartile", "midpoint", "thirdQuartile"}
            \cup ({"start", "complete"} \cup {"impression", "error"})
    BY DEF Events, Quartiles
  <2>2. IsFiniteSet({"firstQuartile", "midpoint", "thirdQuartile"})
    <3>1. IsFiniteSet({"firstQuartile"} \cup ({"midpoint"} \cup {"thirdQuartile"}))
      BY FS_Singleton, FS_Union
    <3>2. {"firstQuartile"} \cup ({"midpoint"} \cup {"thirdQuartile"}) =
            {"firstQuartile", "midpoint", "thirdQuartile"}
      OBVIOUS
    <3> QED BY <3>1, <3>2
  <2>3. IsFiniteSet({"start"} \cup {"complete"}) /\ IsFiniteSet({"impression"} \cup {"error"})
    BY FS_Singleton, FS_Union
  <2>4. {"start"} \cup {"complete"} = {"start", "complete"}
        /\ {"impression"} \cup {"error"} = {"impression", "error"}
    OBVIOUS
  <2> QED BY <2>1, <2>2, <2>3, <2>4, FS_Union
<1> QED BY <1>1, <1>2, FS_Product DEF Beacons

LEMMA PodSegments ==
  ASSUME TypeOK
  PROVE  0 .. (total - 1) \subseteq Segments
BY PodAssumption DEF TypeOK, Segments

LEMMA InitInv == Init => Inv
BY PermitsAssumption, FS_EmptySet
   DEF Init, Inv, TypeOK, FiredInv, TaskInv, FiredAtMostOnce, Segments, Beacons

(* Spawning beacons that were never fired.                                  *)
LEMMA SpawnFresh ==
  ASSUME TypeOK, TaskInv, FiredAtMostOnce, NEW bs \in SUBSET Beacons, Spawn(bs),
         \A b \in bs : fired[b] = 0, sending' = sending
  PROVE  /\ fired' \in [Beacons -> Nat]
         /\ \A b \in Beacons : fired'[b] = IF b \in bs THEN 1 ELSE fired[b]
         /\ waiting' \in SUBSET Beacons
         /\ FiredAtMostOnce'
         /\ TaskInv'
<1>1. \A b \in Beacons : fired'[b] = IF b \in bs THEN 1 ELSE fired[b]
  BY DEF Spawn, TypeOK
<1>2. fired' \in [Beacons -> Nat]
  BY DEF Spawn, TypeOK
<1>3. waiting' \in SUBSET Beacons
  BY DEF Spawn, TypeOK
<1>4. FiredAtMostOnce'
  BY <1>1 DEF FiredAtMostOnce
<1>5. TaskInv'
  <2>1. \A b \in waiting' \cup sending' : fired'[b] > 0
    BY <1>1 DEF Spawn, TypeOK, TaskInv
  <2>2. waiting' \cap sending' = {}
    <3>1. \A b \in bs : b \notin sending
      BY DEF TaskInv
    <3> QED BY <3>1 DEF Spawn, TaskInv
  <2> QED BY <2>1, <2>2 DEF TaskInv
<1> QED BY <1>1, <1>2, <1>3, <1>4, <1>5

LEMMA BeaconsOfTyped ==
  ASSUME NEW i \in Segments, NEW n
  PROVE  /\ BeaconsOf(i, n) \in SUBSET Beacons
         /\ \A j \in Segments, e \in Events :
              <<j, e>> \in BeaconsOf(i, n) <=> (j = i /\ Fires(e, i, n))
         /\ \A j \in Segments : <<j, "error">> \notin BeaconsOf(i, n)
         /\ \A b \in BeaconsOf(i, n) : b[1] = i
<1>1. "impression" \notin Events /\ "error" \notin Events
  BY DEF Events, Quartiles
<1> QED BY <1>1 DEF BeaconsOf, Beacons

LEMMA ServeAdInv ==
  ASSUME Inv, NEW i \in Segments, ServeAd(i)
  PROVE  Inv'
<1> DEFINE bs == IF i \in visited THEN {} ELSE BeaconsOf(i, total)
<1>1. i \in 0 .. (total - 1)
  BY PodAssumption DEF ServeAd, Inv, TypeOK, Segments
<1>2. bs \in SUBSET Beacons
  BY BeaconsOfTyped
<1>3. \A b \in bs : fired[b] = 0
  <2> SUFFICES ASSUME NEW b \in bs PROVE fired[b] = 0
    OBVIOUS
  <2>1. i \notin visited /\ b \in BeaconsOf(i, total)
    OBVIOUS
  <2>2. CASE \E e \in Events : b = <<i, e>>
    BY <2>1, <2>2 DEF Inv, FiredInv
  <2>3. CASE b = <<i, "impression">>
    BY <2>1, <2>3 DEF Inv, FiredInv
  <2> QED BY <2>1, <2>2, <2>3 DEF BeaconsOf
<1>4. Spawn(bs) /\ sending' = sending
  BY DEF ServeAd
<1>5. /\ fired' \in [Beacons -> Nat]
      /\ \A b \in Beacons : fired'[b] = IF b \in bs THEN 1 ELSE fired[b]
      /\ waiting' \in SUBSET Beacons
      /\ FiredAtMostOnce'
      /\ TaskInv'
  <2> HIDE DEF bs
  <2> QED BY <1>2, <1>3, <1>4, SpawnFresh DEF Inv, FiredInv
<1>6. TypeOK'
  <2>1. pending' \in SUBSET [seg : 0 .. (total - 1), tracked : BOOLEAN]
    <3> DEFINE t == i \notin visited
    <3>1. t \in BOOLEAN
      OBVIOUS
    <3>2. pending' = pending \cup {[seg |-> i, tracked |-> t]}
      BY DEF ServeAd
    <3> HIDE DEF t
    <3> QED BY <1>1, <3>1, <3>2 DEF Inv, TypeOK
  <2> QED BY <1>1, <1>5, <2>1 DEF ServeAd, Inv, TypeOK
<1>7. \A j \in Segments, e \in Events :
        fired'[<<j, e>>] = IF j \in visited' /\ Fires(e, j, total') THEN 1 ELSE 0
  <2> SUFFICES ASSUME NEW j \in Segments, NEW e \in Events
               PROVE  fired'[<<j, e>>] =
                        IF j \in visited' /\ Fires(e, j, total') THEN 1 ELSE 0
    OBVIOUS
  <2>1. <<j, e>> \in Beacons
    BY DEF Beacons
  <2>2. <<j, e>> \in bs <=> (i \notin visited /\ j = i /\ Fires(e, i, total))
    BY BeaconsOfTyped
  <2>3. fired[<<j, e>>] = IF j \in visited /\ Fires(e, j, total) THEN 1 ELSE 0
    BY DEF Inv, FiredInv
  <2>4. visited' = visited \cup {i} /\ total' = total
    BY DEF ServeAd
  <2> HIDE DEF bs
  <2> QED BY <1>5, <2>1, <2>2, <2>3, <2>4
<1>8. \A j \in Segments : j \notin visited' =>
        fired'[<<j, "impression">>] = 0 /\ fired'[<<j, "error">>] = 0
  <2> SUFFICES ASSUME NEW j \in Segments, j \notin visited'
               PROVE  fired'[<<j, "impression">>] = 0 /\ fired'[<<j, "error">>] = 0
    OBVIOUS
  <2>1. j # i /\ j \notin visited
    BY DEF ServeAd
  <2>2. <<j, "impression">> \in Beacons /\ <<j, "error">> \in Beacons
    BY DEF Beacons
  <2>3. <<j, "impression">> \notin bs /\ <<j, "error">> \notin bs
    BY <2>1, BeaconsOfTyped
  <2> HIDE DEF bs
  <2> QED BY <1>5, <2>1, <2>2, <2>3 DEF Inv, FiredInv
<1>9. \A p \in pending' : p.tracked => fired'[<<p.seg, "error">>] = 0
  <2> SUFFICES ASSUME NEW p \in pending', p.tracked
               PROVE  fired'[<<p.seg, "error">>] = 0
    OBVIOUS
  <2>1. p.seg \in Segments
    BY <1>6, PodAssumption DEF TypeOK, Segments
  <2>2. <<p.seg, "error">> \in Beacons /\ <<p.seg, "error">> \notin bs
    BY <2>1, BeaconsOfTyped DEF Beacons
  <2>3. fired[<<p.seg, "error">>] = 0
    <3>1. CASE p \in pending
      BY <3>1 DEF Inv, FiredInv
    <3>2. CASE p = [seg |-> i, tracked |-> i \notin visited]
      BY <3>2 DEF Inv, FiredInv
    <3> QED BY <3>1, <3>2 DEF ServeAd
  <2> HIDE DEF bs
  <2> QED BY <1>5, <2>2, <2>3
<1>10. \A p \in pending' : p.seg \in visited'
  BY DEF ServeAd, Inv, FiredInv
<1> QED BY <1>5, <1>6, <1>7, <1>8, <1>9, <1>10 DEF Inv, FiredInv

LEMMA FetchedInv ==
  ASSUME Inv, NEW p \in pending, Fetched(p)
  PROVE  Inv'
BY DEF Fetched, Inv, TypeOK, FiredInv, FiredAtMostOnce, TaskInv

LEMMA FetchFailsInv ==
  ASSUME Inv, NEW p \in pending, FetchFails(p)
  PROVE  Inv'
<1> DEFINE b == <<p.seg, "error">>
           bs == IF p.tracked THEN {b} ELSE {}
<1>1. p.seg \in Segments /\ p.seg \in visited
  BY PodSegments DEF Inv, TypeOK, FiredInv
<1>2. bs \in SUBSET Beacons /\ \A c \in bs : fired[c] = 0
  BY <1>1 DEF Inv, FiredInv, Beacons
<1>3. Spawn(bs) /\ sending' = sending
  BY DEF FetchFails
<1>4. /\ fired' \in [Beacons -> Nat]
      /\ \A c \in Beacons : fired'[c] = IF c \in bs THEN 1 ELSE fired[c]
      /\ waiting' \in SUBSET Beacons
      /\ FiredAtMostOnce'
      /\ TaskInv'
  <2> HIDE DEF bs
  <2> QED BY <1>2, <1>3, SpawnFresh DEF Inv, FiredInv
<1>5. TypeOK'
  BY <1>4 DEF FetchFails, Inv, TypeOK
<1>6. \A c \in bs : c = b
  OBVIOUS
<1>7. \A j \in Segments, e \in Events :
        fired'[<<j, e>>] = IF j \in visited' /\ Fires(e, j, total') THEN 1 ELSE 0
  <2>1. \A j \in Segments, e \in Events : <<j, e>> \in Beacons /\ <<j, e>> # b
    BY DEF Beacons, Events, Quartiles
  <2> HIDE DEF bs, b
  <2> QED BY <1>4, <1>6, <2>1 DEF FetchFails, Inv, FiredInv
<1>8. \A j \in Segments : j \notin visited' =>
        fired'[<<j, "impression">>] = 0 /\ fired'[<<j, "error">>] = 0
  <2>1. \A j \in Segments : j \notin visited =>
          /\ <<j, "impression">> \in Beacons /\ <<j, "impression">> # b
          /\ <<j, "error">> \in Beacons /\ <<j, "error">> # b
    BY <1>1 DEF Beacons
  <2> HIDE DEF bs, b
  <2> QED BY <1>4, <1>6, <2>1 DEF FetchFails, Inv, FiredInv
<1>9. \A q \in pending' : q.tracked => fired'[<<q.seg, "error">>] = 0
  <2> SUFFICES ASSUME NEW q \in pending', q.tracked
               PROVE  fired'[<<q.seg, "error">>] = 0
    OBVIOUS
  <2>1. q \in pending /\ q # p
    BY DEF FetchFails
  <2>2. q.seg \in Segments
    BY <2>1, PodSegments DEF Inv, TypeOK
  <2>3. <<q.seg, "error">> \in bs => q = p
    BY <2>1 DEF Inv, TypeOK
  <2>4. <<q.seg, "error">> \in Beacons /\ fired[<<q.seg, "error">>] = 0
    BY <2>1, <2>2 DEF Beacons, Inv, FiredInv
  <2> HIDE DEF bs, b
  <2> QED BY <1>4, <2>1, <2>3, <2>4
<1>10. \A q \in pending' : q.seg \in visited'
  BY DEF FetchFails, Inv, FiredInv
<1> QED BY <1>4, <1>5, <1>7, <1>8, <1>9, <1>10 DEF Inv, FiredInv

LEMMA AcquireInv ==
  ASSUME Inv, NEW b \in waiting, Acquire(b)
  PROVE  Inv'
<1>1. IsFiniteSet(sending) /\ b \notin sending /\ b \in Beacons
  BY BeaconsFinite, FS_Subset DEF Inv, TypeOK, TaskInv
<1>2. Cardinality(sending') = Cardinality(sending) + 1
  BY <1>1, FS_AddElement DEF Acquire
<1>3. permits' \in 0 .. Permits /\ permits' + Cardinality(sending') = Permits
  BY <1>1, <1>2, PermitsAssumption, FS_CardinalityType DEF Acquire, Inv, TypeOK
<1>4. TypeOK'
  BY <1>1, <1>3 DEF Acquire, Inv, TypeOK
<1>5. FiredInv'
  BY DEF Acquire, Inv, FiredInv, FiredAtMostOnce
<1>6. TaskInv'
  BY DEF Acquire, Inv, TaskInv
<1> QED BY <1>4, <1>5, <1>6 DEF Inv

LEMMA SentInv ==
  ASSUME Inv, NEW b \in sending, Sent(b)
  PROVE  Inv'
<1>1. IsFiniteSet(sending)
  BY BeaconsFinite, FS_Subset DEF Inv, TypeOK
<1>2. Cardinality(sending') = Cardinality(sending) - 1
      /\ Cardinality(sending') \in Nat
  BY <1>1, FS_RemoveElement, FS_CardinalityType DEF Sent
<1>3. permits' \in 0 .. Permits /\ permits' + Cardinality(sending') = Permits
  BY <1>1, <1>2, PermitsAssumption, FS_CardinalityType DEF Sent, Inv, TypeOK
<1>4. TypeOK'
  BY <1>3 DEF Sent, Inv, TypeOK
<1>5. FiredInv'
  BY DEF Sent, Inv, FiredInv, FiredAtMostOnce
<1>6. TaskInv'
  BY DEF Sent, Inv, TaskInv
<1> QED BY <1>4, <1>5, <1>6 DEF Inv

THEOREM TrackingInvariant == Spec => []Inv
<1>1. Inv /\ [Next]_vars => Inv'
  <2>1. Inv /\ UNCHANGED vars => Inv'
    BY DEF vars, Inv, TypeOK, FiredInv, FiredAtMostOnce, TaskInv
  <2> QED BY <2>1, ServeAdInv, FetchedInv, FetchFailsInv, AcquireInv, SentInv DEF Next
<1> QED BY <1>1, InitInv, PTL DEF Spec

(* The state keeps its shape, and the permits add up.                       *)
THEOREM TrackingTypeCorrect == Spec => []TypeOK
<1>1. Inv => TypeOK
  BY DEF Inv
<1> QED BY <1>1, TrackingInvariant, PTL

(* However often a segment is requested, each event of each creative and    *)
(* its error are reported at most once.                                     *)
THEOREM FiredOnce == Spec => []FiredAtMostOnce
<1>1. Inv => FiredAtMostOnce
  BY DEF Inv, FiredInv
<1> QED BY <1>1, TrackingInvariant, PTL

(* When a pod of any length has been requested completely, in any order,    *)
(* every kind of event was fired by exactly one of its segments.            *)
THEOREM PodCovered == Spec => []EachEventByOneSegment
<1>1. Inv => EachEventByOneSegment
  <2> SUFFICES ASSUME Inv, visited = 0 .. (total - 1), NEW e \in Events
               PROVE  Cardinality({i \in Segments : fired[<<i, e>>] > 0}) = 1
    BY DEF EachEventByOneSegment
  <2>1. total \in Nat \ {0} /\ visited \subseteq Segments
    BY PodAssumption, PodSegments DEF Inv, TypeOK
  <2>2. PICK i \in 0 .. (total - 1) : Fires(e, i, total)
    BY <2>1, EventsOnce
  <2>3. {j \in Segments : fired[<<j, e>>] > 0} = {i}
    <3>1. \A j \in Segments : fired[<<j, e>>] > 0 <=> j \in visited /\ Fires(e, j, total)
      BY DEF Inv, FiredInv
    <3>2. \A j \in visited : Fires(e, j, total) => j = i
      BY <2>1, <2>2, EventsOnce
    <3> QED BY <2>1, <2>2, <3>1, <3>2
  <2> QED BY <2>3, FS_Singleton
<1> QED BY <1>1, TrackingInvariant, PTL
=============================================================================
