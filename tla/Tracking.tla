------------------------------ MODULE Tracking -------------------------------
(***************************************************************************)
(* The beacons of one pod (src/ad/tracking.rs and serve_ad): which events  *)
(* the request for a segment fires, and how the fire-and-forget tasks      *)
(* share the permits of BEACON_SEMAPHORE.                                  *)
(*                                                                         *)
(* The VAST provider makes each creative of a pod one segment: creative i  *)
(* has its own list of events and is "segment i of total".  Its tracking   *)
(* is handed out at the first request (module AdCache proves once at most; *)
(* here the visited flag of a live cache entry).                           *)
(***************************************************************************)
EXTENDS Integers, FiniteSets

CONSTANTS
  MaxPod,    \* bound: creatives of the longest pod
  Permits,   \* permits of BEACON_SEMAPHORE
  MaxPending \* bound: ad requests in flight

ASSUME PodAssumption == MaxPod \in Nat \ {0}
ASSUME PermitsAssumption == Permits \in Nat \ {0} /\ MaxPending \in Nat

VARIABLES
  total,    \* creatives of the pod
  visited,  \* segments whose tracking was handed out
  pending,  \* ad requests waiting for their creative
  waiting,  \* beacon tasks before semaphore.acquire returns
  sending,  \* beacon tasks that hold a permit
  permits,  \* free permits
  fired     \* history: how often each beacon was spawned

vars == <<total, visited, pending, waiting, sending, permits, fired>>

-----------------------------------------------------------------------------
(* events_for_segment                                                      *)

Quartiles == {"firstQuartile", "midpoint", "thirdQuartile"}

Events == {"start", "complete"} \cup Quartiles

Quarters(e) == CASE e = "firstQuartile" -> 1
                 [] e = "midpoint"      -> 2
                 [] e = "thirdQuartile" -> 3

(* progress >= quarters / 4, where progress is i / (n - 1), or 1 for n = 1. *)
Reaches(i, n, quarters) == n = 1 \/ 4 * i >= quarters * (n - 1)

(* Mutant: `<=` for `<`.                                                    *)
NotBeforeInclusive(i, n, quarters) ==
  i = 0 \/ n = 1 \/ 4 * (i - 1) <= quarters * (n - 1)

(* prev_progress < quarters / 4, where there is none at the first segment.  *)
NotBefore(i, n, quarters) ==
  i = 0 \/ n = 1 \/ 4 * (i - 1) < quarters * (n - 1)

Fires(e, i, n) ==
  \/ e = "start" /\ i = 0
  \/ e = "complete" /\ i = n - 1
  \/ e \in Quartiles /\ Reaches(i, n, Quarters(e)) /\ NotBefore(i, n, Quarters(e))

(* What serve_ad fires before it fetches segment i.                         *)
BeaconsOf(i, n) ==
  {<<i, e>> : e \in {f \in Events : Fires(f, i, n)}}
    \cup (IF i = 0 THEN {<<i, "impression">>} ELSE {})

-----------------------------------------------------------------------------
Segments == 0 .. (MaxPod - 1)
Beacons  == Segments \X (Events \cup {"impression", "error"})

Init ==
  /\ total \in 1 .. MaxPod
  /\ visited = {}
  /\ pending = {}
  /\ waiting = {} /\ sending = {}
  /\ permits = Permits
  /\ fired = [b \in Beacons |-> 0]

(* fire_beacon spawns a task for each.                                      *)
Spawn(beacons) ==
  /\ waiting' = waiting \cup beacons
  /\ fired' = [b \in Beacons |-> IF b \in beacons THEN fired[b] + 1 ELSE fired[b]]

(* Mutant: the segment is not marked visited.                               *)
ServeAdUnmarked(i) ==
  /\ i < total
  /\ Cardinality(pending) < MaxPending
  /\ pending' = pending \cup {[seg |-> i, tracked |-> i \notin visited]}
  /\ Spawn(IF i \in visited THEN {} ELSE BeaconsOf(i, total))
  /\ UNCHANGED <<total, visited, sending, permits>>

(* serve_ad up to its fetch.                                                *)
ServeAd(i) ==
  /\ i < total
  /\ Cardinality(pending) < MaxPending
  /\ visited' = visited \cup {i}
  /\ pending' = pending \cup {[seg |-> i, tracked |-> i \notin visited]}
  /\ Spawn(IF i \in visited THEN {} ELSE BeaconsOf(i, total))
  /\ UNCHANGED <<total, sending, permits>>

(* The creative streams to the player, or the player has gone away.         *)
Fetched(p) ==
  /\ pending' = pending \ {p}
  /\ UNCHANGED <<total, visited, waiting, sending, permits, fired>>

FetchFails(p) ==
  /\ pending' = pending \ {p}
  /\ Spawn(IF p.tracked THEN {<<p.seg, "error">>} ELSE {})
  /\ UNCHANGED <<total, visited, sending, permits>>

(* A beacon task: take a permit, send, let the permit go; an answer, an     *)
(* error and the timeout of 2 s all end it.                                 *)
Acquire(b) ==
  /\ b \in waiting
  /\ permits > 0
  /\ permits' = permits - 1
  /\ waiting' = waiting \ {b}
  /\ sending' = sending \cup {b}
  /\ UNCHANGED <<total, visited, pending, fired>>

(* Mutant: the permit is forgotten.                                         *)
SentLeaks(b) ==
  /\ b \in sending
  /\ sending' = sending \ {b}
  /\ UNCHANGED <<total, visited, pending, waiting, permits, fired>>

Sent(b) ==
  /\ b \in sending
  /\ sending' = sending \ {b}
  /\ permits' = permits + 1
  /\ UNCHANGED <<total, visited, pending, waiting, fired>>

Next ==
  \/ \E i \in Segments : ServeAd(i)
  \/ \E p \in pending : Fetched(p) \/ FetchFails(p)
  \/ \E b \in waiting : Acquire(b)
  \/ \E b \in sending : Sent(b)

Spec == Init /\ [][Next]_vars

(* A free permit goes to a waiting task, whichever it is, and every send     *)
(* times out.  Nothing is assumed about the requests of the players.        *)
FairSpec ==
  /\ Spec
  /\ WF_vars(\E b \in waiting : Acquire(b))
  /\ WF_vars(\E b \in sending : Sent(b))

-----------------------------------------------------------------------------
(* Properties                                                              *)

(* The state keeps its shape, and no permit is lost or made up: those free  *)
(* and those held by a task are always all of them.                         *)
TypeOK ==
  /\ total \in 1 .. MaxPod
  /\ visited \in SUBSET (0 .. (total - 1))
  /\ pending \in SUBSET [seg : 0 .. (total - 1), tracked : BOOLEAN]
  /\ waiting \in SUBSET Beacons
  /\ sending \in SUBSET Beacons
  /\ permits \in 0 .. Permits
  /\ permits + Cardinality(sending) = Permits
  /\ fired \in [Beacons -> Nat]

(* Each event of each creative is reported at most once, its error         *)
(* included, however often and from however many players it is requested.   *)
FiredAtMostOnce == \A b \in Beacons : fired[b] <= 1

(* Once every segment of the pod has been requested, in whatever order,     *)
(* each kind of event has been fired by exactly one of its creatives: the   *)
(* thresholds leave no event out and repeat none, short pods included.      *)
EachEventByOneSegment ==
  visited = 0 .. (total - 1) =>
    \A e \in Events : Cardinality({i \in Segments : fired[<<i, e>>] > 0}) = 1

(* The beacon tasks that were spawned all come to their end, however few    *)
(* permits there are and whatever is requested meanwhile: none waits for    *)
(* ever for a permit.                                                       *)
BeaconsLeave ==
  (waiting \cup sending # {}) ~> (waiting \cup sending = {})

-----------------------------------------------------------------------------
(* Strengthening: a served segment has fired exactly its events, and its     *)
(* error beacon is still owed by at most the one request that got the       *)
(* tracking.                                                                *)
FiredInv ==
  /\ \A i \in Segments, e \in Events :
       fired[<<i, e>>] = IF i \in visited /\ Fires(e, i, total) THEN 1 ELSE 0
  /\ \A i \in Segments : i \notin visited =>
       fired[<<i, "impression">>] = 0 /\ fired[<<i, "error">>] = 0
  /\ \A p \in pending : p.tracked => fired[<<p.seg, "error">>] = 0
  /\ \A p \in pending : p.seg \in visited
  /\ FiredAtMostOnce

(* A task's beacon was fired, and it waits or sends, not both.              *)
TaskInv ==
  /\ \A b \in waiting \cup sending : fired[b] > 0
  /\ waiting \cap sending = {}
=============================================================================
