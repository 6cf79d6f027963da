-------------------------- MODULE DashStitchProofs --------------------------
(***************************************************************************)
(* Proofs about DashStitch for MPDs of every length with any event streams: *)
(* the scan finds exactly the SCTE-35 breaks, the reverse order of the      *)
(* insertions keeps the signal periods of the breaks to come in place, the  *)
(* stitched MPD is the origin's with each break's ad periods behind the     *)
(* period of its signal, the callbacks of SGAI replace just the SCTE-35     *)
(* streams, and (DashManifest) every track is led to where its MPD says.    *)
(***************************************************************************)
EXTENDS DashManifest, WellFoundedInduction, TLAPS

Periods == ContentPeriod \cup AdPeriod

(* Up to the signal period of the next break, the MPD is still the origin's. *)
PrefixKept ==
  /\ mpd \in Seq(Periods)
  /\ \A b \in 1 .. brk : \A i \in 1 .. breaks[b].period :
       i \in DOMAIN mpd /\ mpd[i] = origin[i]

(* DetectionExact with breaks as records instead of three indices.          *)
Found ==
  /\ \A j, k \in DOMAIN breaks : j < k => Before(breaks[j], breaks[k])
  /\ \A c \in ToSet(breaks) : IsSignal(c) /\ Before(c, Position)
  /\ \A c \in Break : IsSignal(c) /\ Before(c, Position) => c \in ToSet(breaks)

Inv ==
  /\ origin \in Seq(ContentPeriod)
  /\ period \in Nat \ {0} /\ stream \in Nat \ {0} /\ event \in Nat \ {0}
  /\ breaks \in Seq(Break)
  /\ fill \in Seq(0 .. MaxAds)
  /\ phase = "detect" => fill = << >>
  /\ phase = "ask" => Len(fill) <= Len(breaks)
  /\ phase = "interleave" => Len(fill) = Len(breaks)
  /\ brk \in 0 .. Len(breaks)
  /\ Found
  /\ phase \in {"detect", "ask"} => mpd = origin
  /\ phase = "interleave" => PrefixKept

-----------------------------------------------------------------------------
(* The scan                                                                *)

LEMMA StreamsTyped ==
  ASSUME origin \in Seq(ContentPeriod), NEW i \in DOMAIN origin
  PROVE  /\ i \in Nat \ {0}
         /\ origin[i].streams \in Seq(Stream)
         /\ \A s \in DOMAIN origin[i].streams :
              /\ s \in Nat \ {0}
              /\ origin[i].streams[s].events \in Seq({"break", "invalid"})
<1>1. i \in Nat \ {0} /\ origin[i] \in ContentPeriod
  OBVIOUS
<1>2. origin[i].streams \in Seq(Stream)
  BY <1>1 DEF ContentPeriod
<1>3. ASSUME NEW s \in DOMAIN origin[i].streams
      PROVE  s \in Nat \ {0} /\ origin[i].streams[s] \in Stream
  BY <1>2
<1> QED BY <1>1, <1>2, <1>3 DEF Stream

LEMMA FoundForm ==
  ASSUME origin \in Seq(ContentPeriod)
  PROVE  DetectionExact <=> Found
<1> DEFINE At(i, s, e) == [period |-> i, stream |-> s, event |-> e]
<1>1. ASSUME NEW c \in Break
      PROVE  c = At(c.period, c.stream, c.event)
  BY DEF Break
<1>2. ASSUME NEW i \in DOMAIN origin, NEW s \in DOMAIN origin[i].streams,
             NEW e \in DOMAIN origin[i].streams[s].events
      PROVE  At(i, s, e) \in Break
  <2>1. origin[i].streams[s].events \in Seq({"break", "invalid"})
    BY StreamsTyped
  <2>2. e \in Nat \ {0}
    BY <2>1
  <2> QED BY <2>2, StreamsTyped DEF Break
<1>3. ASSUME NEW c \in Break, IsSignal(c)
      PROVE  /\ c.period \in DOMAIN origin
             /\ c.stream \in DOMAIN origin[c.period].streams
             /\ c.event \in DOMAIN origin[c.period].streams[c.stream].events
  BY <1>3 DEF IsSignal
<1>4. ASSUME DetectionExact, NEW c \in Break, IsSignal(c), Before(c, Position)
      PROVE  c \in ToSet(breaks)
  <2>1. c = At(c.period, c.stream, c.event)
    BY <1>1
  <2> QED BY <1>3, <1>4, <2>1 DEF DetectionExact
<1> QED BY <1>2, <1>4 DEF DetectionExact, Found

LEMMA SameScan ==
  ASSUME Found, UNCHANGED <<origin, breaks, period, stream, event>>
  PROVE  Found'
<1>1. \A c : IsSignal(c)' <=> IsSignal(c)
  BY DEF IsSignal
<1>2. Position' = Position
  BY DEF Position
<1> QED BY <1>1, <1>2 DEF Found

LEMMA InitInv == Init => Inv
<1> SUFFICES ASSUME Init PROVE Inv
  OBVIOUS
<1>1. PICK n \in 0 .. MaxPeriods :
        \E s \in [1 .. n -> StreamLists], t \in [1 .. n -> TrackLists] :
          origin = [i \in 1 .. n |-> Content(i, s[i], t[i])]
  BY DEF Init
<1>2. PICK s \in [1 .. n -> StreamLists], t \in [1 .. n -> TrackLists] :
        origin = [i \in 1 .. n |-> Content(i, s[i], t[i])]
  BY <1>1
<1>3. \A i \in 1 .. n : Content(i, s[i], t[i]) \in ContentPeriod
  BY ListsAssumption DEF Content, ContentPeriod
<1>4. origin \in Seq(ContentPeriod)
  <2>1. n \in Nat
    BY SizesAssumption
  <2> QED BY <1>2, <1>3, <2>1
<1>5. Found
  <2>1. breaks = << >> /\ Position = [period |-> 1, stream |-> 1, event |-> 1]
    BY DEF Init, Position
  <2>2. ToSet(breaks) = {} /\ DOMAIN breaks = {}
    BY <2>1 DEF ToSet
  <2>3. \A c \in Break : ~Before(c, Position)
    BY <2>1 DEF Before, Break
  <2> QED BY <1>4, <2>2, <2>3 DEF Found
<1> QED BY <1>4, <1>5 DEF Init, Inv

(* A step of the scan over a place that is no signal.                       *)
LEMMA PassOver ==
  ASSUME Found, UNCHANGED <<origin, breaks>>, breaks \in Seq(Break),
         \A c \in Break : Before(c, Position) => Before(c, Position'),
         \A c \in Break : IsSignal(c) /\ Before(c, Position') => Before(c, Position)
  PROVE  Found'
<1>1. \A c : IsSignal(c)' <=> IsSignal(c)
  BY DEF IsSignal
<1>2. ToSet(breaks') = ToSet(breaks) /\ ToSet(breaks) \subseteq Break
  BY DEF ToSet
<1> QED BY <1>1, <1>2 DEF Found

LEMMA ScanEventFound ==
  ASSUME Inv, Found, ScanEvent
  PROVE  Found' /\ breaks' \in Seq(Break) /\ Len(breaks') >= Len(breaks)
<1> DEFINE b == [period |-> period, stream |-> stream, event |-> event]
<1>1. /\ event' = event + 1
      /\ period \in DOMAIN origin /\ stream \in DOMAIN origin[period].streams
      /\ origin[period].streams[stream].scheme = "scte"
      /\ event \in DOMAIN origin[period].streams[stream].events
      /\ UNCHANGED <<origin, period, stream>>
  <2>1. period \in DOMAIN origin
    BY DEF ScanEvent, AtEvent, Scanning, Inv
  <2>2. stream \in DOMAIN origin[period].streams
    BY <2>1, StreamsTyped DEF ScanEvent, AtEvent, Streams, Inv
  <2>3. origin[period].streams[stream].events \in Seq({"break", "invalid"})
    BY <2>1, <2>2, StreamsTyped DEF Inv
  <2>4. event \in DOMAIN origin[period].streams[stream].events
    BY <2>3 DEF ScanEvent, AtEvent, Streams, Inv
  <2> QED BY <2>1, <2>2, <2>4 DEF ScanEvent, AtEvent, Streams
<1>2. b \in Break /\ period \in Nat /\ stream \in Nat /\ event \in Nat
  BY DEF Inv, Break
<1>3. IsSignal(b) <=> origin[period].streams[stream].events[event] = "break"
  BY <1>1 DEF IsSignal
<1>4. \A c \in Break : Before(c, Position') <=> Before(c, Position) \/ c = b
  <2> SUFFICES ASSUME NEW c \in Break
               PROVE  Before(c, Position') <=> Before(c, Position) \/ c = b
    OBVIOUS
  <2>1. c = [period |-> c.period, stream |-> c.stream, event |-> c.event]
        /\ c.period \in Nat /\ c.stream \in Nat /\ c.event \in Nat
    BY DEF Break
  <2>2. c = b <=> c.period = period /\ c.stream = stream /\ c.event = event
    BY <2>1
  <2>3. Before(c, Position') <=> Before(c, Position) \/
          (c.period = period /\ c.stream = stream /\ c.event = event)
    BY <1>1, <1>2, <2>1 DEF Before, Position
  <2> QED BY <2>2, <2>3
<1>5. CASE ~IsSignal(b)
  <2>1. breaks' = breaks
    BY <1>3, <1>5 DEF ScanEvent, Streams
  <2> QED BY <1>1, <1>4, <1>5, <2>1, PassOver DEF Inv
<1>6. CASE IsSignal(b)
  <2>1. breaks' = Append(breaks, b) /\ breaks \in Seq(Break)
    BY <1>3, <1>6 DEF ScanEvent, Streams, Inv
  <2> HIDE DEF b
  <2>2. /\ breaks' \in Seq(Break)
        /\ Len(breaks') = Len(breaks) + 1 /\ Len(breaks) \in Nat
        /\ DOMAIN breaks' = 1 .. (Len(breaks) + 1)
        /\ DOMAIN breaks = 1 .. Len(breaks)
        /\ breaks'[Len(breaks) + 1] = b
        /\ \A j \in 1 .. Len(breaks) : breaks'[j] = breaks[j]
    BY <1>2, <2>1
  <2>3. ToSet(breaks') = ToSet(breaks) \cup {b} /\ ToSet(breaks) \subseteq Break
    BY <2>1, <2>2 DEF ToSet
  <2>4. \A j \in DOMAIN breaks : Before(breaks[j], b)
    <3>1. \A j \in DOMAIN breaks : Before(breaks[j], Position)
      BY DEF Found, ToSet
    <3> QED BY <3>1 DEF b, Position
  <2>5. \A j, k \in DOMAIN breaks' : j < k => Before(breaks'[j], breaks'[k])
    BY <2>2, <2>4 DEF Found
  <2>6. \A c : IsSignal(c)' <=> IsSignal(c)
    BY <1>1 DEF IsSignal
  <2>7. \A c \in ToSet(breaks') : IsSignal(c)' /\ Before(c, Position')
    BY <1>2, <1>4, <1>6, <2>3, <2>6 DEF Found
  <2>8. \A c \in Break : IsSignal(c)' /\ Before(c, Position') => c \in ToSet(breaks')
    BY <1>4, <2>3, <2>6 DEF Found
  <2> QED BY <2>2, <2>5, <2>7, <2>8 DEF Found
<1> QED BY <1>5, <1>6

LEMMA NextStreamFound ==
  ASSUME Inv, Found, NextStream
  PROVE  Found'
<1>1. /\ stream' = stream + 1 /\ event' = 1
      /\ period \in DOMAIN origin /\ stream \in DOMAIN origin[period].streams
      /\ UNCHANGED <<origin, period, breaks>>
      /\ phase = "detect"
  <2>1. period \in DOMAIN origin
    BY DEF NextStream, Scanning, Inv
  <2> QED BY <2>1, StreamsTyped DEF NextStream, Scanning, Streams, Inv
<1>2. origin[period].streams[stream].events \in Seq({"break", "invalid"})
  BY <1>1, StreamsTyped DEF Inv
<1>3. period \in Nat /\ stream \in Nat /\ event \in Nat \ {0}
  BY DEF Inv
<1>4. ASSUME NEW c \in Break, Before(c, Position)
      PROVE  Before(c, Position')
  BY <1>1, <1>3, <1>4 DEF Before, Position, Break
<1>5. ASSUME NEW c \in Break, IsSignal(c), Before(c, Position')
      PROVE  Before(c, Position)
  <2>1. c.period \in Nat /\ c.stream \in Nat /\ c.event \in Nat \ {0}
    BY DEF Break
  <2>2. \/ Before(c, Position)
        \/ c.period = period /\ c.stream = stream /\ c.event >= event
    BY <1>1, <1>3, <1>5, <2>1 DEF Before, Position
  <2>3. CASE c.period = period /\ c.stream = stream /\ c.event >= event
    <3>1. /\ origin[period].streams[stream].scheme = "scte"
          /\ c.event \in DOMAIN origin[period].streams[stream].events
      BY <1>5, <2>3 DEF IsSignal
    <3>2. event > Len(origin[period].streams[stream].events)
      BY <1>1, <1>2, <1>3, <3>1 DEF NextStream, AtEvent, Streams
    <3> QED BY <1>2, <1>3, <2>1, <2>3, <3>1, <3>2
  <2> QED BY <2>2, <2>3
<1> QED BY <1>1, <1>4, <1>5, PassOver DEF Inv

LEMMA NextPeriodFound ==
  ASSUME Inv, Found, NextPeriod
  PROVE  Found'
<1>1. /\ period' = period + 1 /\ stream' = 1 /\ event' = 1
      /\ period \in DOMAIN origin
      /\ stream > Len(origin[period].streams)
      /\ UNCHANGED <<origin, breaks>>
  BY DEF NextPeriod, Scanning, Streams, Inv
<1>2. origin[period].streams \in Seq(Stream)
  BY <1>1, StreamsTyped DEF Inv
<1>3. period \in Nat /\ stream \in Nat /\ event \in Nat \ {0}
  BY DEF Inv
<1>4. ASSUME NEW c \in Break, Before(c, Position)
      PROVE  Before(c, Position')
  BY <1>1, <1>3, <1>4 DEF Before, Position, Break
<1>5. ASSUME NEW c \in Break, IsSignal(c), Before(c, Position')
      PROVE  Before(c, Position)
  <2>1. c.period \in Nat /\ c.stream \in Nat \ {0} /\ c.event \in Nat \ {0}
    BY DEF Break
  <2>2. c.period < period \/ c.period = period
    BY <1>1, <1>3, <1>5, <2>1 DEF Before, Position
  <2>3. CASE c.period = period
    <3>1. c.stream \in DOMAIN origin[period].streams
      BY <1>5, <2>3 DEF IsSignal
    <3>2. c.stream < stream
      BY <1>1, <1>2, <1>3, <2>1, <3>1
    <3> QED BY <2>3, <3>2 DEF Before, Position
  <2> QED BY <2>2, <2>3 DEF Before, Position
<1> QED BY <1>1, <1>4, <1>5, PassOver DEF Inv

LEMMA DetectInv == Inv /\ Detect => Inv'
<1> SUFFICES ASSUME Inv, Detect PROVE Inv'
  OBVIOUS
<1>1. Found /\ breaks \in Seq(Break) /\ Len(breaks) \in Nat
  BY DEF Inv
<1>2. /\ phase = "detect" /\ UNCHANGED <<origin, fill, brk, mpd>>
      /\ brk \in Nat
  BY DEF Detect, ScanEvent, AtEvent, NextStream, NextPeriod, Detected, Scanning, Inv
<1>3. CASE ScanEvent
  <2>1. Found' /\ breaks' \in Seq(Break) /\ Len(breaks') >= Len(breaks)
    BY <1>1, <1>3, ScanEventFound
  <2>2. Found'
    BY <1>2, <2>1 DEF Inv
  <2>3. Len(breaks') \in Nat
    BY <2>1
  <2>4. brk' \in 0 .. Len(breaks')
    BY <1>1, <1>2, <2>1, <2>3 DEF Inv
  <2> QED BY <1>2, <1>3, <2>1, <2>2, <2>4 DEF ScanEvent, Inv
<1>4. CASE NextStream
  <2>1. Found'
    BY <1>1, <1>2, <1>4, NextStreamFound DEF Inv
  <2> QED BY <1>2, <1>4, <2>1 DEF NextStream, Inv
<1>5. CASE NextPeriod
  <2>1. Found'
    BY <1>1, <1>2, <1>5, NextPeriodFound DEF Inv
  <2> QED BY <1>2, <1>5, <2>1 DEF NextPeriod, Inv
<1>6. CASE Detected
  <2>1. UNCHANGED <<origin, breaks, period, stream, event>> /\ phase' # "interleave"
    BY <1>6 DEF Detected
  <2>2. Found'
    BY <2>1, SameScan DEF Inv
  <2> QED BY <1>2, <1>6, <2>1, <2>2 DEF Detected, Inv
<1> QED BY <1>3, <1>4, <1>5, <1>6 DEF Detect

-----------------------------------------------------------------------------
(* The stitching                                                           *)

LEMMA AskInv == Inv /\ Ask => Inv'
<1> SUFFICES ASSUME Inv, Ask PROVE Inv'
  OBVIOUS
<1>1. /\ phase = "ask" /\ mpd = origin
      /\ UNCHANGED <<origin, breaks, period, stream, event, mpd>>
  BY DEF Ask, Asked, AskAds, Inv
<1>2. Found'
  BY <1>1, SameScan DEF Inv
<1>3. CASE Asked
  <2>1. phase' = "interleave" /\ brk' = Len(breaks) /\ Len(fill) = Len(breaks) /\ fill' = fill
    BY <1>3 DEF Asked, FirstBreak
  <2>2. Len(breaks) \in Nat
    BY DEF Inv
  <2>3. mpd' \in Seq(Periods)
    BY <1>1 DEF Inv, Periods
  <2>4. ASSUME NEW b \in 1 .. Len(breaks), NEW i \in 1 .. breaks[b].period
        PROVE  i \in DOMAIN origin
    <3>1. breaks[b] \in ToSet(breaks) /\ breaks[b] \in Break
      BY DEF ToSet, Inv
    <3>2. breaks[b].period \in DOMAIN origin
      BY <3>1 DEF Inv, Found, IsSignal
    <3> QED BY <3>2 DEF Inv
  <2>5. PrefixKept'
    BY <1>1, <2>1, <2>3, <2>4 DEF PrefixKept
  <2> QED BY <1>1, <1>2, <2>1, <2>2, <2>5 DEF Inv
<1>4. ASSUME NEW n \in MinAds .. MaxAds, AskAds(n)
      PROVE  Inv'
  <2>1. n \in 0 .. MaxAds
    BY SizesAssumption DEF MinAds
  <2>2. fill' = Append(fill, n) /\ phase' = "ask" /\ brk' = brk /\ Len(fill) < Len(breaks)
    BY <1>1, <1>4 DEF AskAds
  <2>3. fill' \in Seq(0 .. MaxAds) /\ Len(fill') <= Len(breaks)
    BY <2>1, <2>2 DEF Inv
  <2> QED BY <1>1, <1>2, <2>2, <2>3 DEF Inv
<1> QED BY <1>3, <1>4 DEF Ask

(* What InsertAt leaves before the place of the new element.                *)
LEMMA InsertKeepsPrefix ==
  ASSUME NEW S, NEW s \in Seq(S), NEW e \in S, NEW p \in 1 .. (Len(s) + 1)
  PROVE  /\ InsertAt(s, p, e) \in Seq(S)
         /\ \A i \in 1 .. (p - 1) : /\ i \in DOMAIN InsertAt(s, p, e)
                                    /\ InsertAt(s, p, e)[i] = s[i]
<1> DEFINE l == SubSeq(s, 1, p - 1)
           r == SubSeq(s, p, Len(s))
<1>1. l \in Seq(S) /\ Len(l) = p - 1 /\ \A i \in 1 .. (p - 1) : l[i] = s[i]
  OBVIOUS
<1>2. r \in Seq(S) /\ Len(r) \in Nat
  OBVIOUS
<1>3. InsertAt(s, p, e) = (l \o <<e>>) \o r
  BY DEF InsertAt
<1> HIDE DEF l, r
<1>4. l \o <<e>> \in Seq(S) /\ Len(l \o <<e>>) = p
      /\ \A i \in 1 .. (p - 1) : (l \o <<e>>)[i] = l[i]
  BY <1>1
<1> QED BY <1>1, <1>2, <1>3, <1>4

LEMMA AdPeriodTyped ==
  ASSUME NEW b \in Nat \ {0}, NEW n \in Nat \ {0}, NEW types \in Seq(TrackTypes)
  PROVE  AdPeriodOf(b, n, types) \in AdPeriod
<1> DEFINE AdTrack == [type : TrackTypes, prefix : {"v", "a"}]
<1>1. \A t \in TrackTypes : [type |-> t, prefix |-> TrackPrefix(t)] \in AdTrack
  BY DEF TrackPrefix
<1>2. [type |-> "video", prefix |-> "v"] \in AdTrack
  BY DEF TrackTypes
<1>3. AdTracks(types) \in Seq(AdTrack)
  <2>1. CASE types = << >>
    BY <1>2, <2>1 DEF AdTracks
  <2>2. CASE types # << >>
    <3>1. AdTracks(types) =
            [i \in 1 .. Len(types) |-> [type |-> types[i], prefix |-> TrackPrefix(types[i])]]
      BY <2>2 DEF AdTracks
    <3>2. \A i \in 1 .. Len(types) : types[i] \in TrackTypes
      OBVIOUS
    <3> HIDE DEF AdTrack
    <3>3. \A i \in 1 .. Len(types) :
            [type |-> types[i], prefix |-> TrackPrefix(types[i])] \in AdTrack
      BY <1>1, <3>2
    <3> QED BY <3>1, <3>3
  <2> QED BY <2>1, <2>2
<1> QED BY <1>3 DEF AdPeriodOf, AdPeriod

LEMMA InsertInv == Inv /\ InsertPeriod => Inv'
<1> SUFFICES ASSUME Inv, InsertPeriod PROVE Inv'
  OBVIOUS
<1> DEFINE p == breaks[brk].period
           e == AdPeriodOf(brk, fill[brk], mpd[p].tracks)
<1>1. /\ phase = "interleave" /\ phase' = "interleave"
      /\ brk \in 1 .. Len(breaks) /\ brk' = brk - 1
      /\ fill[brk] > 0 /\ mpd' = InsertAt(mpd, p + 1, e)
      /\ UNCHANGED <<origin, breaks, period, stream, event, fill>>
  BY DEF InsertPeriod, Inv
<1>2. PrefixKept
  BY <1>1 DEF Inv
<1>3. Found'
  BY <1>1, SameScan DEF Inv
<1>4. \A b \in 1 .. Len(breaks) : breaks[b].period \in Nat \ {0}
  <2>1. \A b \in 1 .. Len(breaks) : breaks[b] \in Break
    BY DEF Inv
  <2> QED BY <2>1 DEF Break
<1>5. \A b \in 1 .. (brk - 1) : breaks[b].period <= p
  <2>1. ASSUME NEW b \in 1 .. (brk - 1)
        PROVE  breaks[b].period <= p
    <3>1. b \in DOMAIN breaks /\ brk \in DOMAIN breaks /\ b < brk
      BY <1>1 DEF Inv
    <3>2. Before(breaks[b], breaks[brk])
      BY <3>1 DEF Inv, Found
    <3> QED BY <1>1, <1>4, <3>1, <3>2 DEF Before, Inv
  <2> QED BY <2>1
<1>6. p \in DOMAIN mpd /\ mpd[p] = origin[p] /\ p \in DOMAIN origin /\ p \in Nat \ {0}
  <2>1. p \in DOMAIN mpd /\ mpd[p] = origin[p] /\ p \in Nat \ {0}
    BY <1>1, <1>2, <1>4 DEF PrefixKept
  <2>2. breaks[brk] \in ToSet(breaks)
    BY <1>1 DEF ToSet, Inv
  <2> QED BY <2>1, <2>2 DEF Inv, Found, IsSignal
<1>7. e \in Periods
  <2>1. origin[p] \in ContentPeriod
    BY <1>6 DEF Inv
  <2>2. mpd[p].tracks \in Seq(TrackTypes)
    BY <1>6, <2>1 DEF ContentPeriod
  <2>3. fill[brk] \in Nat \ {0} /\ brk \in Nat \ {0}
    BY <1>1, SizesAssumption DEF Inv
  <2> QED BY <2>2, <2>3, AdPeriodTyped DEF Periods
<1> HIDE DEF e
<1>8. mpd \in Seq(Periods) /\ p + 1 \in 1 .. (Len(mpd) + 1)
  BY <1>2, <1>6 DEF PrefixKept
<1>9. /\ mpd' \in Seq(Periods)
      /\ \A i \in 1 .. p : i \in DOMAIN mpd' /\ mpd'[i] = mpd[i]
  <2> DEFINE q == p + 1
  <2>0. mpd \in Seq(Periods)
    BY <1>8
  <2>1. q \in 1 .. (Len(mpd) + 1) /\ mpd' = InsertAt(mpd, q, e)
    BY <1>1, <1>8
  <2>2. \A i \in 1 .. p : i \in 1 .. (q - 1)
    BY <1>6
  <2> HIDE DEF p, q
  <2>3. /\ InsertAt(mpd, q, e) \in Seq(Periods)
        /\ \A i \in 1 .. (q - 1) : /\ i \in DOMAIN InsertAt(mpd, q, e)
                                   /\ InsertAt(mpd, q, e)[i] = mpd[i]
    BY <1>7, <2>0, <2>1, InsertKeepsPrefix, SMTT(30)
  <2>4. ASSUME NEW i \in 1 .. p
        PROVE  i \in DOMAIN mpd' /\ mpd'[i] = mpd[i]
    <3>1. i \in 1 .. (q - 1)
      BY <2>2
    <3>2. /\ i \in DOMAIN InsertAt(mpd, q, e)
          /\ InsertAt(mpd, q, e)[i] = mpd[i]
      BY <2>3, <3>1
    <3> QED BY <2>1, <3>2
  <2>5. mpd' \in Seq(Periods)
    BY <2>1, <2>3
  <2> QED BY <2>4, <2>5
<1>10. PrefixKept'
  <2>1. ASSUME NEW b \in 1 .. brk', NEW i \in 1 .. breaks[b].period
        PROVE  i \in DOMAIN mpd' /\ mpd'[i] = origin[i]
    <3>1. b \in 1 .. (brk - 1) /\ b \in 1 .. brk /\ b \in 1 .. Len(breaks)
      BY <1>1 DEF Inv
    <3>2. i \in 1 .. p
      BY <1>4, <1>5, <1>6, <3>1
    <3> QED BY <1>2, <1>9, <3>1, <3>2 DEF PrefixKept
  <2> QED BY <1>1, <1>9, <2>1 DEF PrefixKept
<1>11. brk' \in 0 .. Len(breaks')
  BY <1>1 DEF Inv
<1> QED BY <1>1, <1>3, <1>10, <1>11 DEF Inv

LEMMA StitchInv == Inv /\ Stitch => Inv'
<1> SUFFICES ASSUME Inv, Stitch PROVE Inv'
  OBVIOUS
<1>1. CASE SkipEmptyBreak
  <2>1. /\ phase = "interleave" /\ phase' = "interleave"
        /\ brk \in 1 .. Len(breaks) /\ brk' = brk - 1
        /\ UNCHANGED <<origin, breaks, period, stream, event, fill, mpd>>
    BY <1>1 DEF SkipEmptyBreak, Inv
  <2>2. Found'
    BY <2>1, SameScan DEF Inv
  <2>3. brk' \in 0 .. Len(breaks) /\ \A b \in 1 .. brk' : b \in 1 .. brk
    BY <2>1 DEF Inv
  <2>4. PrefixKept'
    BY <2>1, <2>3 DEF Inv, PrefixKept
  <2> QED BY <2>1, <2>2, <2>3, <2>4 DEF Inv
<1>2. CASE Interleaved
  <2>1. /\ UNCHANGED <<origin, breaks, period, stream, event, fill, brk, mpd>>
        /\ phase' = "done"
    BY <1>2 DEF Interleaved
  <2>2. Found'
    BY <2>1, SameScan DEF Inv
  <2> QED BY <2>1, <2>2 DEF Inv
<1> QED BY <1>1, <1>2, InsertInv DEF Stitch

LEMMA CallbacksInv == Inv /\ Callbacks => Inv'
<1> SUFFICES ASSUME Inv, Callbacks PROVE Inv'
  OBVIOUS
<1>1. /\ UNCHANGED <<origin, breaks, period, stream, event, fill, brk>>
      /\ phase \in {"inject", "strip"} /\ phase' \in {"inject", "strip", "done"}
  BY DEF Callbacks, Inject, Injected, Strip
<1>2. Found'
  BY <1>1, SameScan DEF Inv
<1> QED BY <1>1, <1>2 DEF Inv

LEMMA NextInv == Inv /\ [Next]_vars => Inv'
<1>1. Inv /\ UNCHANGED vars => Inv'
  <2> SUFFICES ASSUME Inv, UNCHANGED vars PROVE Inv'
    OBVIOUS
  <2>1. Found'
    BY SameScan DEF vars, Inv
  <2> QED BY <2>1 DEF vars, Inv, PrefixKept
<1> QED BY <1>1, DetectInv, AskInv, StitchInv, CallbacksInv DEF Next

THEOREM DashInvariant == Spec => []Inv
BY InitInv, NextInv, PTL DEF Spec

(* detect_dash_ad_breaks finds exactly the valid SCTE-35 events, once each  *)
(* and in the order of the document, in any MPD.                            *)
THEOREM DetectionCorrect == Spec => []DetectionExact
<1>1. Inv => DetectionExact
  BY FoundForm DEF Inv
<1> QED BY <1>1, DashInvariant, PTL

(* interleave_ads_mpd finds every signal period in its place, however many  *)
(* ad periods it has inserted before.                                       *)
THEOREM SignalPeriodsStay == Spec => []SignalsStay
<1>1. Inv => SignalsStay
  <2> SUFFICES ASSUME Inv, phase = "interleave", NEW b \in 1 .. brk
               PROVE  LET p == breaks[b].period
                      IN  p \in DOMAIN mpd /\ mpd[p] = origin[p]
    BY DEF SignalsStay
  <2>1. b \in 1 .. Len(breaks) /\ breaks[b] \in Break
    BY DEF Inv
  <2>2. breaks[b].period \in 1 .. breaks[b].period
    BY <2>1 DEF Break
  <2> QED BY <2>2 DEF Inv, PrefixKept
<1> QED BY <1>1, DashInvariant, PTL

-----------------------------------------------------------------------------
(* The stitched MPD                                                        *)

(* What the insertions have come to when breaks 1 .. n are still to be done. *)
Placed(n) ==
  /\ \A k \in DOMAIN mpd : Intended(mpd[k]) /\ (mpd[k].ad => mpd[k].id > n)
  /\ \A i \in DOMAIN origin : Has(mpd, FALSE, i)
  /\ \A b \in Filled : b > n => Has(mpd, TRUE, b)
  /\ InOrder(mpd)

Placing ==
  /\ mode \in {"ssai", "sgai"}
  /\ \A i \in DOMAIN origin : origin[i].id = i
  /\ phase \in {"inject", "strip"} => mode = "sgai"
  /\ phase = "interleave" => Placed(brk)
  /\ phase = "done" /\ mode = "ssai" => Placed(0)

LEMMA UntouchedPlaced ==
  ASSUME Inv, mpd = origin, \A i \in DOMAIN origin : origin[i].id = i,
         NEW n \in Nat, \A b \in Filled : b <= n
  PROVE  Placed(n)
<1>1. ASSUME NEW i \in DOMAIN origin
      PROVE  i \in Nat /\ origin[i].ad = FALSE /\ origin[i].id = i
  <2>1. origin[i] \in ContentPeriod /\ i \in Nat
    BY DEF Inv
  <2> QED BY <2>1 DEF ContentPeriod
<1>2. \A i \in DOMAIN origin : Intended(origin[i])
  BY <1>1 DEF Intended
<1>3. \A i \in DOMAIN origin : Has(origin, FALSE, i)
  BY <1>1 DEF Has
<1>4. InOrder(origin)
  <2>1. ASSUME NEW j \in DOMAIN origin, NEW k \in DOMAIN origin, j < k
        PROVE  GoesBefore(origin[j], origin[k])
    BY <1>1, <2>1 DEF GoesBefore, SignalOf
  <2> QED BY <2>1 DEF InOrder
<1>5. \A b \in Filled : ~(b > n)
  <2>1. \A b \in Filled : b \in Nat
    BY DEF Filled, Inv
  <2> QED BY <2>1
<1> QED BY <1>1, <1>2, <1>3, <1>4, <1>5 DEF Placed

LEMMA InitPlacing == Init => Placing
<1> SUFFICES ASSUME Init PROVE Placing
  OBVIOUS
<1>1. PICK n \in 0 .. MaxPeriods :
        \E s \in [1 .. n -> StreamLists], t \in [1 .. n -> TrackLists] :
          origin = [i \in 1 .. n |-> Content(i, s[i], t[i])]
  BY DEF Init
<1>2. \A i \in DOMAIN origin : origin[i].id = i
  BY <1>1 DEF Content
<1> QED BY <1>2 DEF Placing, Init

(* What InsertAt makes of a sequence, element by element.                   *)
LEMMA InsertElements ==
  ASSUME NEW S, NEW s \in Seq(S), NEW e \in S, NEW p \in 1 .. (Len(s) + 1)
  PROVE  /\ DOMAIN InsertAt(s, p, e) = 1 .. (Len(s) + 1)
         /\ \A i \in 1 .. (p - 1) : InsertAt(s, p, e)[i] = s[i]
         /\ InsertAt(s, p, e)[p] = e
         /\ \A i \in (p + 1) .. (Len(s) + 1) : InsertAt(s, p, e)[i] = s[i - 1]
<1> DEFINE l == SubSeq(s, 1, p - 1)
           r == SubSeq(s, p, Len(s))
<1>1. l \in Seq(S) /\ Len(l) = p - 1 /\ \A i \in 1 .. (p - 1) : l[i] = s[i]
  OBVIOUS
<1>2. r \in Seq(S) /\ Len(r) = Len(s) + 1 - p
      /\ \A i \in 1 .. (Len(s) + 1 - p) : r[i] = s[p + i - 1]
  OBVIOUS
<1>3. InsertAt(s, p, e) = (l \o <<e>>) \o r
  BY DEF InsertAt
<1>4. Len(s) \in Nat /\ p \in Nat
  OBVIOUS
<1> HIDE DEF l, r
<1>5. l \o <<e>> \in Seq(S) /\ Len(l \o <<e>>) = p
      /\ (\A i \in 1 .. (p - 1) : (l \o <<e>>)[i] = l[i])
      /\ (l \o <<e>>)[p] = e
  BY <1>1, <1>4
<1> DEFINE le == l \o <<e>>
<1>6. /\ le \in Seq(S) /\ Len(le) = p /\ InsertAt(s, p, e) = le \o r
      /\ (\A i \in 1 .. (p - 1) : le[i] = l[i]) /\ le[p] = e
  BY <1>3, <1>5
<1> HIDE DEF le
<1>7. DOMAIN InsertAt(s, p, e) = 1 .. (Len(s) + 1)
  <2>1. Len(r) \in Nat /\ Len(le) + Len(r) = Len(s) + 1
    BY <1>2, <1>4, <1>6
  <2>2. le \in Seq(S) /\ r \in Seq(S)
    BY <1>2, <1>6
  <2>3. DOMAIN (le \o r) = 1 .. (Len(le) + Len(r))
    BY <2>2
  <2> QED BY <1>6, <2>1, <2>3
<1>8. ASSUME NEW i \in 1 .. p
      PROVE  InsertAt(s, p, e)[i] = le[i]
  <2>1. i \in 1 .. Len(le)
    BY <1>6
  <2>2. (le \o r)[i] = le[i]
    BY <1>2, <1>6, <2>1
  <2> QED BY <1>6, <2>2
<1>9. ASSUME NEW i \in (p + 1) .. (Len(s) + 1)
      PROVE  InsertAt(s, p, e)[i] = s[i - 1]
  <2>1. InsertAt(s, p, e)[i] = r[i - p]
    BY <1>2, <1>4, <1>6
  <2>2. i - p \in 1 .. (Len(s) + 1 - p) /\ p + (i - p) - 1 = i - 1
    BY <1>4
  <2> QED BY <1>2, <2>1, <2>2
<1>10. ASSUME NEW i \in 1 .. (p - 1)
       PROVE  InsertAt(s, p, e)[i] = s[i]
  BY <1>1, <1>4, <1>6, <1>8
<1>11. InsertAt(s, p, e)[p] = e
  BY <1>4, <1>6, <1>8
<1> QED BY <1>7, <1>9, <1>10, <1>11

(* The new ad period goes between the periods up to its signal and the rest. *)
LEMMA InsertPlaced ==
  ASSUME Inv, Placing, InsertPeriod
  PROVE  Placed(brk)'
<1> DEFINE p == breaks[brk].period
           e == AdPeriodOf(brk, fill[brk], mpd[p].tracks)
           q == p + 1
<1>1. /\ phase = "interleave"
      /\ brk \in 1 .. Len(breaks) /\ brk' = brk - 1
      /\ fill[brk] > 0 /\ mpd' = InsertAt(mpd, q, e)
      /\ UNCHANGED <<origin, breaks, fill>>
  BY DEF InsertPeriod, Inv
<1>2. PrefixKept /\ Placed(brk)
  BY <1>1 DEF Inv, Placing
<1>3. \A b \in 1 .. Len(breaks) : breaks[b].period \in Nat \ {0}
  <2>1. \A b \in 1 .. Len(breaks) : breaks[b] \in Break
    BY DEF Inv
  <2> QED BY <2>1 DEF Break
<1>4. /\ p \in Nat \ {0} /\ p \in DOMAIN origin
      /\ \A i \in 1 .. p : i \in DOMAIN mpd /\ mpd[i] = origin[i] /\ i \in DOMAIN origin
  <2>1. p \in Nat \ {0}
    BY <1>1, <1>3
  <2>2. \A i \in 1 .. p : i \in DOMAIN mpd /\ mpd[i] = origin[i]
    BY <1>1, <1>2, <2>1 DEF PrefixKept
  <2>3. breaks[brk] \in ToSet(breaks)
    BY <1>1 DEF ToSet, Inv
  <2>4. p \in DOMAIN origin
    BY <2>3 DEF Inv, Found, IsSignal
  <2> QED BY <2>1, <2>2, <2>4 DEF Inv
<1>5. e = AdPeriodFor(brk) /\ e.ad = TRUE /\ e.id = brk /\ SignalOf(e) = p
  <2>1. mpd[p] = origin[p]
    BY <1>4
  <2>2. e = AdPeriodFor(brk)
    BY <2>1 DEF AdPeriodFor
  <2>3. e.ad = TRUE /\ e.id = brk
    BY DEF AdPeriodOf
  <2> QED BY <2>2, <2>3 DEF SignalOf
<1>6. brk \in Filled /\ brk \in Nat
  BY <1>1 DEF Filled, Inv
<1>7. mpd \in Seq(Periods) /\ Len(mpd) \in Nat /\ q \in 1 .. (Len(mpd) + 1)
      /\ DOMAIN mpd = 1 .. Len(mpd)
  BY <1>2, <1>4 DEF PrefixKept
<1>8. e \in Periods
  <2>1. origin[p] \in ContentPeriod /\ mpd[p] = origin[p]
    BY <1>4 DEF Inv
  <2>2. mpd[p].tracks \in Seq(TrackTypes)
    BY <2>1 DEF ContentPeriod
  <2>3. fill[brk] \in Nat \ {0} /\ brk \in Nat \ {0}
    BY <1>1, SizesAssumption DEF Inv
  <2> QED BY <2>2, <2>3, AdPeriodTyped DEF Periods
<1> HIDE DEF e
<1>9. /\ DOMAIN mpd' = 1 .. (Len(mpd) + 1)
      /\ \A i \in 1 .. p : mpd'[i] = mpd[i]
      /\ mpd'[q] = e
      /\ \A i \in (q + 1) .. (Len(mpd) + 1) : mpd'[i] = mpd[i - 1]
  <2>1. q - 1 = p
    BY <1>4
  <2> HIDE DEF p, q
  <2> QED BY <1>1, <1>7, <1>8, <2>1, InsertElements
(* An element of the new MPD is the ad period or one of the old ones.       *)
<1>10. ASSUME NEW k \in DOMAIN mpd'
       PROVE  \/ k \in 1 .. p /\ k \in DOMAIN mpd /\ mpd'[k] = mpd[k]
              \/ k = q /\ mpd'[k] = e
              \/ k \in (q + 1) .. (Len(mpd) + 1) /\ k - 1 \in DOMAIN mpd /\ mpd'[k] = mpd[k - 1]
  BY <1>4, <1>7, <1>9
<1>11. ASSUME NEW k \in DOMAIN mpd
       PROVE  \E j \in DOMAIN mpd' : mpd'[j] = mpd[k]
  <2>1. CASE k <= p
    BY <1>4, <1>7, <1>9, <2>1
  <2>2. CASE ~(k <= p)
    <3>1. k + 1 \in (q + 1) .. (Len(mpd) + 1) /\ k + 1 \in DOMAIN mpd' /\ (k + 1) - 1 = k
      BY <1>4, <1>7, <1>9, <2>2
    <3> QED BY <1>9, <3>1
  <2> QED BY <2>1, <2>2
<1>12. q \in DOMAIN mpd'
  BY <1>7, <1>9
<1>13. Filled' = Filled
  BY <1>1 DEF Filled
<1>14. Intended(e)
  BY <1>5, <1>6 DEF Intended
<1>15. ASSUME NEW k \in DOMAIN mpd'
       PROVE  Intended(mpd'[k]) /\ (mpd'[k].ad => mpd'[k].id > brk')
  <2>1. CASE mpd'[k] = e
    BY <1>1, <1>5, <1>6, <1>14, <2>1
  <2>2. ASSUME NEW j \in DOMAIN mpd, mpd'[k] = mpd[j]
        PROVE  Intended(mpd'[k]) /\ (mpd'[k].ad => mpd'[k].id > brk')
    <3>1. Intended(mpd[j]) /\ (mpd[j].ad => mpd[j].id > brk)
      BY <1>2 DEF Placed
    <3>2. mpd[j].ad => mpd[j].id \in Nat
      BY <3>1 DEF Intended, Filled, Inv
    <3> QED BY <1>1, <1>6, <2>2, <3>1, <3>2
  <2> QED BY <1>10, <2>1, <2>2
<1>16. ASSUME NEW i \in DOMAIN origin
       PROVE  Has(mpd', FALSE, i)
  <2>1. PICK k \in DOMAIN mpd : mpd[k].ad = FALSE /\ mpd[k].id = i
    BY <1>2 DEF Placed, Has
  <2> QED BY <1>11, <2>1 DEF Has
<1>17. ASSUME NEW b \in Filled, b > brk'
       PROVE  Has(mpd', TRUE, b)
  <2>1. CASE b = brk
    BY <1>5, <1>9, <1>12, <2>1 DEF Has
  <2>2. CASE b # brk
    <3>1. b \in Nat
      BY DEF Filled, Inv
    <3>2. b > brk
      BY <1>1, <1>6, <1>17, <2>2, <3>1
    <3>3. PICK k \in DOMAIN mpd : mpd[k].ad = TRUE /\ mpd[k].id = b
      BY <1>2, <3>2 DEF Placed, Has
    <3> QED BY <1>11, <3>3 DEF Has
  <2> QED BY <2>1, <2>2
(* The order.                                                               *)
<1>18. ASSUME NEW j \in DOMAIN mpd, NEW k \in DOMAIN mpd, j < k
       PROVE  GoesBefore(mpd[j], mpd[k])
  BY <1>2, <1>18 DEF Placed, InOrder
<1>19. ASSUME NEW i \in 1 .. p
       PROVE  mpd[i].ad = FALSE /\ mpd[i].id = i /\ SignalOf(mpd[i]) = i
  <2>1. mpd[i] = origin[i] /\ origin[i] \in ContentPeriod /\ origin[i].id = i
    BY <1>4 DEF Inv, Placing
  <2>2. mpd[i].ad = FALSE /\ mpd[i].id = i
    BY <2>1 DEF ContentPeriod
  <2> QED BY <2>2 DEF SignalOf
<1>20. ASSUME NEW i \in 1 .. p
       PROVE  GoesBefore(mpd[i], e)
  <2>1. SignalOf(mpd[i]) = i /\ mpd[i].ad = FALSE
    BY <1>19
  <2> QED BY <1>4, <1>5, <2>1 DEF GoesBefore
<1>21. ASSUME NEW k \in DOMAIN mpd, k > p
       PROVE  GoesBefore(e, mpd[k])
  <2>1. p \in 1 .. p /\ p \in DOMAIN mpd
    BY <1>4
  <2>2. GoesBefore(mpd[p], mpd[k])
    BY <1>18, <1>21, <2>1
  <2>3. SignalOf(mpd[p]) = p /\ mpd[p].ad = FALSE
    BY <1>19, <2>1
  <2>4. p < SignalOf(mpd[k]) \/ (p = SignalOf(mpd[k]) /\ mpd[k].ad)
    BY <2>2, <2>3 DEF GoesBefore
  <2>5. mpd[k].ad => brk < mpd[k].id
    <3>1. Intended(mpd[k]) /\ (mpd[k].ad => mpd[k].id > brk)
      BY <1>2 DEF Placed
    <3>2. mpd[k].ad => mpd[k].id \in Nat
      BY <3>1 DEF Intended, Filled, Inv
    <3> QED BY <1>6, <3>1, <3>2
  <2> QED BY <1>5, <2>4, <2>5 DEF GoesBefore
<1>22. ASSUME NEW j \in DOMAIN mpd', NEW k \in DOMAIN mpd', j < k
       PROVE  GoesBefore(mpd'[j], mpd'[k])
  <2>1. j \in Nat /\ k \in Nat
    BY <1>7, <1>9
  <2>2. CASE k \in 1 .. p
    <3>1. j \in 1 .. p /\ j \in DOMAIN mpd /\ k \in DOMAIN mpd
      BY <1>4, <1>9, <1>22, <2>1, <2>2
    <3> QED BY <1>9, <1>18, <1>22, <2>2, <3>1
  <2>3. CASE k = q
    <3>1. j \in 1 .. p
      BY <1>4, <1>9, <1>22, <2>1, <2>3
    <3> QED BY <1>9, <1>20, <2>3, <3>1
  <2>4. CASE k \in (q + 1) .. (Len(mpd) + 1)
    <3>1. k - 1 \in DOMAIN mpd /\ mpd'[k] = mpd[k - 1] /\ k - 1 > p
      BY <1>4, <1>7, <1>9, <2>1, <2>4
    <3>2. CASE j \in 1 .. p
      <4>1. j \in DOMAIN mpd /\ mpd'[j] = mpd[j] /\ j < k - 1
        BY <1>4, <1>9, <2>1, <3>1, <3>2
      <4> QED BY <1>18, <3>1, <4>1
    <3>3. CASE j = q
      BY <1>9, <1>21, <3>1, <3>3
    <3>4. CASE j \in (q + 1) .. (Len(mpd) + 1)
      <4>1. j - 1 \in DOMAIN mpd /\ mpd'[j] = mpd[j - 1] /\ j - 1 < k - 1
        BY <1>4, <1>7, <1>9, <1>22, <2>1, <3>4
      <4> QED BY <1>18, <3>1, <4>1
    <3> QED BY <1>10, <3>2, <3>3, <3>4
  <2> QED BY <1>10, <2>2, <2>3, <2>4
<1>23. InOrder(mpd)'
  BY <1>1, <1>22 DEF InOrder, GoesBefore, SignalOf
<1>24. (\A k \in DOMAIN mpd : Intended(mpd[k]) /\ (mpd[k].ad => mpd[k].id > brk))'
  BY <1>1, <1>13, <1>15 DEF Intended, AdPeriodFor
<1>25. (\A i \in DOMAIN origin : Has(mpd, FALSE, i))'
  BY <1>1, <1>16 DEF Has
<1>26. (\A b \in Filled : b > brk => Has(mpd, TRUE, b))'
  BY <1>13, <1>17 DEF Has
<1> QED BY <1>23, <1>24, <1>25, <1>26 DEF Placed

LEMMA NextPlacing == Inv /\ Placing /\ [Next]_vars => Placing'
<1> SUFFICES ASSUME Inv, Placing, [Next]_vars PROVE Placing'
  OBVIOUS
<1>0. Len(breaks) \in Nat /\ DOMAIN breaks = 1 .. Len(breaks)
  BY DEF Inv
<1>1. CASE ScanEvent \/ NextStream \/ NextPeriod
  BY <1>1 DEF ScanEvent, AtEvent, NextStream, NextPeriod, Scanning, Placing
<1>2. CASE Detected
  <2>1. /\ UNCHANGED <<origin, mode, breaks, fill, mpd>> /\ mpd = origin
        /\ phase' \in {"done", "ask", "inject"}
        /\ phase' = "inject" => mode # "ssai"
        /\ phase' = "done" => breaks = << >>
    BY <1>2 DEF Detected, Inv
  <2>2. mode' = "ssai" /\ phase' = "done" => Placed(0)
    <3>1. breaks = << >> => \A b \in Filled : b <= 0
      BY DEF Filled
    <3> QED BY <2>1, <3>1, UntouchedPlaced DEF Placing
  <2>3. Placed(0)' <=> Placed(0)
    BY <2>1 DEF Placed, Intended, Filled, AdPeriodFor, Has, InOrder, GoesBefore, SignalOf
  <2>4. phase' = "inject" => mode' = "sgai"
    BY <1>2 DEF Detected, Placing
  <2> QED BY <2>1, <2>2, <2>3, <2>4 DEF Placing
<1>3. CASE Asked
  <2>1. /\ UNCHANGED <<origin, mode, breaks, fill, mpd>> /\ mpd = origin
        /\ phase' = "interleave" /\ brk' = Len(breaks)
    BY <1>3 DEF Asked, FirstBreak, Inv
  <2>2. Placed(Len(breaks))
    <3>1. \A b \in Filled : b <= Len(breaks)
      BY <1>0 DEF Filled
    <3> QED BY <1>0, <2>1, <3>1, UntouchedPlaced DEF Placing
  <2>3. Placed(brk)'
    BY <2>1, <2>2 DEF Placed, Intended, Filled, AdPeriodFor, Has, InOrder, GoesBefore, SignalOf
  <2> QED BY <2>1, <2>3 DEF Placing
<1>4. CASE \E n \in MinAds .. MaxAds : AskAds(n)
  BY <1>4 DEF AskAds, Placing
<1>5. CASE SkipEmptyBreak
  <2>1. /\ UNCHANGED <<origin, mode, breaks, fill, mpd>>
        /\ phase = "interleave" /\ phase' = "interleave" /\ brk' = brk - 1
        /\ brk \in Nat /\ fill[brk] = 0
    BY <1>5 DEF SkipEmptyBreak, Inv
  <2>2. Placed(brk)
    BY <2>1 DEF Placing
  <2>3. \A b \in Filled : b \in Nat /\ b # brk
    BY <1>0, <2>1 DEF Filled
  <2>4. \A b \in Filled : b > brk - 1 => b > brk
    BY <2>1, <2>3
  <2>5. \A k \in DOMAIN mpd : mpd[k].ad => mpd[k].id > brk - 1
    <3>1. \A k \in DOMAIN mpd : mpd[k].ad => mpd[k].id \in Nat /\ mpd[k].id > brk
      BY <2>2, <2>3 DEF Placed, Intended
    <3> QED BY <2>1, <3>1
  <2>6. Placed(brk - 1)
    BY <2>2, <2>4, <2>5 DEF Placed
  <2>7. Placed(brk)'
    BY <2>1, <2>6 DEF Placed, Intended, Filled, AdPeriodFor, Has, InOrder, GoesBefore, SignalOf
  <2> QED BY <2>1, <2>7 DEF Placing
<1>6. CASE InsertPeriod
  <2>1. Placed(brk)'
    BY <1>6, InsertPlaced
  <2>2. UNCHANGED <<origin, mode>> /\ phase' = "interleave"
    BY <1>6 DEF InsertPeriod
  <2> QED BY <2>1, <2>2 DEF Placing
<1>7. CASE Interleaved
  <2>1. UNCHANGED <<origin, mode, breaks, fill, mpd>> /\ phase' = "done" /\ Placed(0)
    BY <1>7 DEF Interleaved, Placing
  <2>2. Placed(0)'
    BY <2>1 DEF Placed, Intended, Filled, AdPeriodFor, Has, InOrder, GoesBefore, SignalOf
  <2> QED BY <2>1, <2>2 DEF Placing
<1>8. CASE Callbacks
  <2>1. UNCHANGED <<origin, mode>> /\ mode = "sgai"
        /\ phase' \in {"inject", "strip", "done"}
    BY <1>8 DEF Callbacks, Inject, Injected, Strip, Placing
  <2> QED BY <2>1 DEF Placing
<1>9. CASE UNCHANGED vars
  BY <1>9 DEF vars, Placing, Placed, Intended, Filled, AdPeriodFor, Has, InOrder,
              GoesBefore, SignalOf
<1> QED BY <1>1, <1>2, <1>3, <1>4, <1>5, <1>6, <1>7, <1>8, <1>9 DEF Next, Detect, Ask, Stitch

(* interleave_ads_mpd leaves the periods of the origin in their order, each *)
(* followed by the ad periods of its own filled breaks in the order of the  *)
(* breaks, in an MPD of any length with any number of breaks per period.    *)
THEOREM PeriodsAreAsIntended == Spec => []InterleavedAsIntended
<1>1. Inv /\ Placing => InterleavedAsIntended
  <2> SUFFICES ASSUME Inv, Placed(0)
               PROVE  /\ \A k \in DOMAIN mpd : Intended(mpd[k])
                      /\ \A i \in DOMAIN origin : Has(mpd, FALSE, i)
                      /\ \A b \in Filled : Has(mpd, TRUE, b)
                      /\ InOrder(mpd)
    BY DEF Placing, InterleavedAsIntended
  <2>1. \A b \in Filled : b > 0
    BY DEF Filled, Inv
  <2> QED BY <2>1 DEF Placed
<1> QED BY <1>1, InitPlacing, NextPlacing, DashInvariant, PTL DEF Spec

-----------------------------------------------------------------------------
(* The callbacks.  A set of natural numbers has a least one: this stands    *)
(* for the inductions below.                                                *)
LEMMA Least ==
  ASSUME NEW T, T \subseteq Nat, T # {}
  PROVE  \E x \in T : \A y \in T : x <= y
<1> DEFINE R == {ss \in Nat \X Nat : ss[1] < ss[2]}
<1>1. IsWellFoundedOn(R, Nat)
  BY NatLessThanWellFounded DEF OpToRel
<1>2. \A x, y \in Nat : <<y, x>> \in R <=> y < x
  OBVIOUS
<1> HIDE DEF R
<1>3. PICK x \in T : \A y \in T : ~(<<y, x>> \in R)
  BY <1>1, WFMin
<1>4. x \in Nat /\ \A y \in T : y \in Nat /\ ~(y < x)
  BY <1>2, <1>3
<1>5. \A y \in T : x <= y
  BY <1>4
<1> QED BY <1>5

LEMMA JoinTyped ==
  ASSUME NEW T, NEW a \in Seq(T), NEW b \in Seq(T)
  PROVE  a \o b \in Seq(T) /\ (a \o b = << >> <=> a = << >> /\ b = << >>)
<1>1. Len(a) \in Nat /\ Len(b) \in Nat /\ Len(a \o b) = Len(a) + Len(b) /\ a \o b \in Seq(T)
  OBVIOUS
<1>2. \A c \in Seq(T) : c = << >> <=> Len(c) = 0
  OBVIOUS
<1> QED BY <1>1, <1>2

(* f holds what the first 1, ..., n lists of ss come to.                    *)
Joins(f, ss, n) ==
  f = [i \in 1 .. n |-> IF i = 1 THEN ss[i] ELSE f[i - 1] \o ss[i]]

LEMMA JoinsTyped ==
  ASSUME NEW T, NEW ss \in Seq(Seq(T)), NEW n \in 1 .. Len(ss), NEW f, Joins(f, ss, n)
  PROVE  f \in [1 .. n -> Seq(T)]
<1>1. n \in Nat /\ \A i \in 1 .. n : ss[i] \in Seq(T)
  OBVIOUS
<1>2. /\ DOMAIN f = 1 .. n
      /\ \A i \in 1 .. n : f[i] = IF i = 1 THEN ss[i] ELSE f[i - 1] \o ss[i]
  BY DEF Joins
<1> DEFINE B == {i \in 1 .. n : f[i] \notin Seq(T)}
<1>3. B = {}
  <2> SUFFICES ASSUME B # {} PROVE FALSE
    OBVIOUS
  <2>1. B \subseteq Nat
    BY <1>1
  <2>2. PICK i \in B : \A j \in B : i <= j
    BY <2>1, Least
  <2>3. i # 1
    BY <1>1, <1>2
  <2>4. i - 1 \in 1 .. n /\ i - 1 \notin B
    BY <1>1, <2>2, <2>3
  <2>5. f[i - 1] \in Seq(T) /\ f[i] = f[i - 1] \o ss[i] /\ ss[i] \in Seq(T)
    BY <1>1, <1>2, <2>3, <2>4
  <2>6. f[i] \in Seq(T)
    BY <2>5, JoinTyped
  <2>7. f[i] \notin Seq(T)
    BY <2>2
  <2> QED BY <2>6, <2>7
<1> QED BY <1>2, <1>3, Joins(f, ss, n) DEF Joins

LEMMA JoinsExist ==
  ASSUME NEW T, NEW ss \in Seq(Seq(T)), NEW n \in 1 .. Len(ss)
  PROVE  \E f : Joins(f, ss, n)
<1>1. Len(ss) \in Nat
  OBVIOUS
<1> DEFINE B == {m \in 1 .. Len(ss) : ~ \E f : Joins(f, ss, m)}
<1>2. B = {}
  <2> SUFFICES ASSUME B # {} PROVE FALSE
    OBVIOUS
  <2>1. B \subseteq Nat
    BY <1>1
  <2>2. PICK m \in B : \A j \in B : m <= j
    BY <2>1, Least
  <2>3. m \in 1 .. Len(ss) /\ ~ \E f : Joins(f, ss, m)
    OBVIOUS
  <2>4. CASE m = 1
    <3>1. Joins([i \in 1 .. 1 |-> ss[i]], ss, 1)
      BY DEF Joins
    <3> QED BY <2>3, <2>4, <3>1
  <2>5. CASE m # 1
    <3>0. m \in Nat /\ m - 1 \in 1 .. Len(ss)
      BY <1>1, <2>3, <2>5
    <3> HIDE DEF B
    <3>1. m - 1 \notin B
      BY <2>2, <3>0
    <3>2. PICK g : Joins(g, ss, m - 1)
      BY <3>0, <3>1 DEF B
    <3> DEFINE f == [i \in 1 .. m |-> IF i = m THEN g[m - 1] \o ss[m] ELSE g[i]]
    <3>3. \A i \in 1 .. (m - 1) : g[i] = IF i = 1 THEN ss[i] ELSE g[i - 1] \o ss[i]
      BY <3>2 DEF Joins
    <3>4. ASSUME NEW i \in 1 .. m
          PROVE  f[i] = IF i = 1 THEN ss[i] ELSE f[i - 1] \o ss[i]
      <4>1. CASE i = m
        <5>1. m \in 1 .. m /\ m - 1 \in 1 .. m /\ m - 1 # m
          BY <2>5, <3>0
        <5>2. f[m] = g[m - 1] \o ss[m] /\ f[m - 1] = g[m - 1]
          BY <5>1
        <5> QED BY <2>5, <4>1, <5>2
      <4>2. CASE i # m
        <5>1. i \in 1 .. (m - 1) /\ f[i] = g[i]
          BY <2>3, <4>2
        <5>2. i # 1 => f[i - 1] = g[i - 1]
          BY <2>3, <4>2
        <5> QED BY <3>3, <5>1, <5>2
      <4> QED BY <4>1, <4>2
    <3>5. DOMAIN f = 1 .. m
      OBVIOUS
    <3>6. f = [i \in 1 .. m |-> f[i]]
      OBVIOUS
    <3> HIDE DEF f
    <3>7. Joins(f, ss, m)
      BY <3>4, <3>6 DEF Joins
    <3> QED BY <2>3, <3>7
  <2> QED BY <2>4, <2>5
<1> QED BY <1>2

(* The joins of a list of lists, and of the same list with one more.        *)
LEMMA JoinsNext ==
  ASSUME NEW T, NEW ss \in Seq(Seq(T)), ss # << >>, NEW t \in Seq(T),
         NEW f, Joins(f, ss, Len(ss)), NEW g, Joins(g, Append(ss, t), Len(ss) + 1)
  PROVE  g[Len(ss) + 1] = f[Len(ss)] \o t
<1> SUFFICES ASSUME NEW tt, tt = Append(ss, t), NEW n, n = Len(ss)
             PROVE  g[n + 1] = f[n] \o t
  OBVIOUS
<1>1. n \in Nat \ {0} /\ tt[n + 1] = t /\ \A i \in 1 .. n : ss[i] = tt[i]
  OBVIOUS
<1>2. \A i \in 1 .. n : f[i] = IF i = 1 THEN ss[i] ELSE f[i - 1] \o ss[i]
  BY DEF Joins
<1>3. \A i \in 1 .. (n + 1) : g[i] = IF i = 1 THEN tt[i] ELSE g[i - 1] \o tt[i]
  BY DEF Joins
<1> DEFINE B == {i \in 1 .. n : f[i] # g[i]}
<1>4. B = {}
  <2> SUFFICES ASSUME B # {} PROVE FALSE
    OBVIOUS
  <2>1. B \subseteq Nat
    BY <1>1
  <2>2. PICK i \in B : \A j \in B : i <= j
    BY <2>1, Least
  <2>3. i \in 1 .. n /\ i \in Nat /\ i \in 1 .. (n + 1) /\ f[i] # g[i]
    BY <1>1
  <2>4. i # 1
    BY <1>1, <1>2, <1>3, <2>3
  <2>5. i - 1 \in 1 .. n
    BY <1>1, <2>3, <2>4
  <2>6. i - 1 \notin B
    BY <2>2, <2>3
  <2>7. f[i - 1] = g[i - 1]
    BY <2>5, <2>6
  <2> QED BY <1>1, <1>2, <1>3, <2>3, <2>4, <2>7
<1>5. n \in 1 .. n /\ n + 1 \in 1 .. (n + 1) /\ n + 1 # 1 /\ (n + 1) - 1 = n
  BY <1>1
<1>6. f[n] = g[n]
  BY <1>4, <1>5
<1>7. g[n + 1] = g[(n + 1) - 1] \o tt[n + 1]
  BY <1>3, <1>5
<1> QED BY <1>1, <1>5, <1>6, <1>7

LEMMA FlattenIsJoin ==
  ASSUME NEW T, NEW ss \in Seq(Seq(T)), ss # << >>
  PROVE  \E f : /\ Joins(f, ss, Len(ss)) /\ f \in [1 .. Len(ss) -> Seq(T)]
                /\ FlattenSeq(ss) = f[Len(ss)]
<1>1. Len(ss) \in Nat \ {0} /\ Len(ss) \in 1 .. Len(ss)
  OBVIOUS
<1> DEFINE f == CHOOSE f : f = [i \in 1 .. Len(ss) |-> IF i = 1 THEN ss[i] ELSE f[i - 1] \o ss[i]]
<1>2. FlattenSeq(ss) = f[Len(ss)]
  BY <1>1 DEF FlattenSeq
<1>3. \E g : g = [i \in 1 .. Len(ss) |-> IF i = 1 THEN ss[i] ELSE g[i - 1] \o ss[i]]
  BY <1>1, JoinsExist DEF Joins
<1>4. f = [i \in 1 .. Len(ss) |-> IF i = 1 THEN ss[i] ELSE f[i - 1] \o ss[i]]
  BY <1>3
<1> HIDE DEF f
<1>5. Joins(f, ss, Len(ss))
  BY <1>4 DEF Joins
<1>6. f \in [1 .. Len(ss) -> Seq(T)]
  BY <1>1, <1>5, JoinsTyped
<1> QED BY <1>2, <1>5, <1>6

LEMMA FlattenTyped ==
  ASSUME NEW T, NEW ss \in Seq(Seq(T))
  PROVE  FlattenSeq(ss) \in Seq(T)
<1>1. CASE ss = << >>
  BY <1>1 DEF FlattenSeq
<1>2. CASE ss # << >>
  <2>1. PICK f \in [1 .. Len(ss) -> Seq(T)] : FlattenSeq(ss) = f[Len(ss)]
    BY <1>2, FlattenIsJoin
  <2>2. Len(ss) \in 1 .. Len(ss)
    BY <1>2
  <2> QED BY <2>1, <2>2
<1> QED BY <1>1, <1>2

LEMMA FlattenAppend ==
  ASSUME NEW T, NEW ss \in Seq(Seq(T)), NEW t \in Seq(T)
  PROVE  FlattenSeq(Append(ss, t)) = FlattenSeq(ss) \o t
<1>1. Append(ss, t) \in Seq(Seq(T)) /\ Len(Append(ss, t)) = Len(ss) + 1 /\ Len(ss) \in Nat
  OBVIOUS
<1>2. Append(ss, t) # << >>
  <2>1. Len(<< >>) = 0 /\ Len(Append(ss, t)) # 0
    BY <1>1
  <2> QED BY <2>1
<1>3. PICK g : /\ Joins(g, Append(ss, t), Len(Append(ss, t)))
               /\ FlattenSeq(Append(ss, t)) = g[Len(Append(ss, t))]
  <2> DEFINE tt == Append(ss, t)
  <2>1. tt \in Seq(Seq(T)) /\ tt # << >>
    BY <1>1, <1>2
  <2> HIDE DEF tt
  <2>2. \E g : Joins(g, tt, Len(tt)) /\ FlattenSeq(tt) = g[Len(tt)]
    BY <2>1, FlattenIsJoin
  <2> QED BY <2>2 DEF tt
<1>4. CASE ss = << >>
  <2>1. FlattenSeq(ss) = << >>
    BY <1>4 DEF FlattenSeq
  <2>2. Len(ss) = 0 /\ Append(ss, t)[1] = t
    BY <1>4
  <2>3. Len(Append(ss, t)) = 1
    BY <1>1, <2>2
  <2>4. g[1] = Append(ss, t)[1]
    BY <1>3, <2>3 DEF Joins
  <2> QED BY <1>3, <2>1, <2>2, <2>3, <2>4
<1>5. CASE ss # << >>
  <2>1. PICK f : Joins(f, ss, Len(ss)) /\ FlattenSeq(ss) = f[Len(ss)]
    BY <1>5, FlattenIsJoin
  <2>2. g[Len(ss) + 1] = f[Len(ss)] \o t
    BY <1>1, <1>3, <1>5, <2>1, JoinsNext
  <2> QED BY <1>1, <1>3, <2>1, <2>2
<1> QED BY <1>4, <1>5

LEMMA FlattenEmpty ==
  ASSUME NEW T, NEW ss \in Seq(Seq(T))
  PROVE  FlattenSeq(ss) = << >> <=> \A i \in DOMAIN ss : ss[i] = << >>
<1>1. CASE ss = << >>
  BY <1>1 DEF FlattenSeq
<1>2. CASE ss # << >>
  <2> DEFINE n == Len(ss)
  <2>1. n \in Nat /\ n \in 1 .. n /\ DOMAIN ss = 1 .. n /\ \A i \in 1 .. n : ss[i] \in Seq(T)
    BY <1>2
  <2>2. PICK f \in [1 .. n -> Seq(T)] : Joins(f, ss, n) /\ FlattenSeq(ss) = f[n]
    BY <1>2, FlattenIsJoin
  <2> HIDE DEF n
  <2>3. \A i \in 1 .. n : f[i] = IF i = 1 THEN ss[i] ELSE f[i - 1] \o ss[i]
    BY <2>2 DEF Joins
  <2> DEFINE AsSaid(i) == f[i] = << >> <=> \A j \in 1 .. i : ss[j] = << >>
             B == {i \in 1 .. n : ~AsSaid(i)}
  <2>4. AsSaid(1)
    BY <2>1, <2>3
  <2> HIDE DEF AsSaid
  <2>5. B = {}
    <3> SUFFICES ASSUME B # {} PROVE FALSE
      OBVIOUS
    <3>1. B \subseteq Nat
      BY <2>1
    <3>2. PICK i \in B : \A j \in B : i <= j
      BY <3>1, Least
    <3>3. i \in 1 .. n /\ ~AsSaid(i)
      OBVIOUS
    <3>4. i # 1
      BY <2>4, <3>3
    <3>5. i \in Nat /\ i - 1 \in 1 .. n
      BY <2>1, <3>3, <3>4
    <3>6. AsSaid(i - 1)
      BY <3>2, <3>5
    <3>7. f[i] = f[i - 1] \o ss[i] /\ f[i - 1] \in Seq(T) /\ ss[i] \in Seq(T)
      BY <2>1, <2>3, <3>3, <3>4, <3>5
    <3>8. f[i] = << >> <=> f[i - 1] = << >> /\ ss[i] = << >>
      BY <3>7, JoinTyped
    <3>9. 1 .. i = (1 .. (i - 1)) \cup {i}
      BY <3>5
    <3>10. AsSaid(i)
      BY <3>6, <3>8, <3>9 DEF AsSaid
    <3> QED BY <3>3, <3>10
  <2>6. AsSaid(n)
    BY <2>1, <2>5
  <2> QED BY <2>1, <2>2, <2>6 DEF AsSaid
<1> QED BY <1>1, <1>2

LEMMA StripAppended ==
  ASSUME NEW T, NEW ss \in Seq(T), NEW c \in T, c.scheme # "scte"
  PROVE  /\ WithoutScte(ss) \in Seq(T)
         /\ WithoutScte(Append(ss, c)) = WithoutScte(ss) \o <<c>>
<1> DEFINE Kept(s) == IF s.scheme = "scte" THEN << >> ELSE <<s>>
           kept == [i \in DOMAIN ss |-> Kept(ss[i])]
<1>1. \A s \in T : Kept(s) \in Seq(T)
  OBVIOUS
<1>2. DOMAIN ss = 1 .. Len(ss) /\ Len(ss) \in Nat /\ \A i \in DOMAIN ss : ss[i] \in T
  OBVIOUS
<1>3. Kept(c) = <<c>>
  OBVIOUS
<1> HIDE DEF Kept
<1>4. kept \in Seq(Seq(T)) /\ Len(kept) = Len(ss)
  BY <1>1, <1>2
<1>5. WithoutScte(ss) = FlattenSeq(kept)
  BY DEF WithoutScte, Kept
<1> DEFINE all == [i \in DOMAIN Append(ss, c) |-> Kept(Append(ss, c)[i])]
<1>6. WithoutScte(Append(ss, c)) = FlattenSeq(all)
  BY DEF WithoutScte, Kept
<1>7. all = Append(kept, <<c>>)
  <2>1. /\ DOMAIN Append(ss, c) = 1 .. (Len(ss) + 1)
        /\ \A i \in 1 .. Len(ss) : Append(ss, c)[i] = ss[i]
        /\ Append(ss, c)[Len(ss) + 1] = c
    BY <1>2
  <2>2. DOMAIN all = 1 .. (Len(ss) + 1) /\ all[Len(ss) + 1] = <<c>>
        /\ \A i \in 1 .. Len(ss) : all[i] = kept[i]
    BY <1>2, <1>3, <2>1
  <2> HIDE DEF kept
  <2>3. /\ DOMAIN Append(kept, <<c>>) = 1 .. (Len(ss) + 1)
        /\ Append(kept, <<c>>)[Len(ss) + 1] = <<c>>
        /\ \A i \in 1 .. Len(ss) : Append(kept, <<c>>)[i] = kept[i]
    BY <1>2, <1>4
  <2>4. all = [i \in 1 .. (Len(ss) + 1) |-> all[i]]
    BY <2>2
  <2>5. Append(kept, <<c>>) = [i \in 1 .. (Len(ss) + 1) |-> Append(kept, <<c>>)[i]]
    BY <1>4, <2>3
  <2>6. \A i \in 1 .. (Len(ss) + 1) : all[i] = Append(kept, <<c>>)[i]
    <3> HIDE DEF all
    <3> QED BY <1>2, <2>2, <2>3
  <2> HIDE DEF all
  <2> QED BY <2>4, <2>5, <2>6
<1> HIDE DEF all, kept
<1>8. FlattenSeq(kept) \in Seq(T)
  BY <1>4, FlattenTyped
<1>9. FlattenSeq(Append(kept, <<c>>)) = FlattenSeq(kept) \o <<c>>
  <2>1. <<c>> \in Seq(T)
    OBVIOUS
  <2> QED BY <1>4, <2>1, FlattenAppend
<1> QED BY <1>5, <1>6, <1>7, <1>8, <1>9

(* The periods with a break: the keys of breaks_by_period.                  *)
Signalled == {b.period : b \in ToSet(breaks)}

LEMMA BreaksAtEmpty ==
  ASSUME breaks \in Seq(Break), NEW p
  PROVE  BreaksAt(p) = << >> <=> p \notin Signalled
<1> DEFINE At(b) == IF breaks[b].period = p THEN <<b>> ELSE << >>
           at == [b \in DOMAIN breaks |-> At(b)]
<1>1. DOMAIN breaks = 1 .. Len(breaks) /\ Len(breaks) \in Nat
  OBVIOUS
<1>2. \A b \in Nat : At(b) \in Seq(Nat) /\ (At(b) = << >> <=> breaks[b].period # p)
  OBVIOUS
<1>3. BreaksAt(p) = FlattenSeq(at)
  BY DEF BreaksAt
<1> HIDE DEF At
<1>4. at \in Seq(Seq(Nat)) /\ DOMAIN at = DOMAIN breaks
  BY <1>1, <1>2
<1>5. \A b \in DOMAIN breaks : at[b] = At(b)
  OBVIOUS
<1> HIDE DEF at
<1>6. BreaksAt(p) = << >> <=> \A b \in DOMAIN breaks : at[b] = << >>
  BY <1>3, <1>4, FlattenEmpty
<1>7. ASSUME NEW b \in DOMAIN breaks
      PROVE  at[b] = << >> <=> breaks[b].period # p
  <2>1. b \in Nat /\ at[b] = At(b)
    BY <1>1, <1>5
  <2>2. At(b) = << >> <=> breaks[b].period # p
    BY <1>2, <2>1
  <2> QED BY <2>1, <2>2
<1>8. p \in Signalled <=> \E b \in DOMAIN breaks : breaks[b].period = p
  BY DEF Signalled, ToSet
<1> QED BY <1>6, <1>7, <1>8

(* A period while the callbacks go in.                                      *)
PeriodNow(i) ==
  IF i \in Signalled \ todo
  THEN [origin[i] EXCEPT !.streams = Append(@, CallbackStream(i))]
  ELSE origin[i]

(* CallbacksExact needs to know, all through inject_dash_callbacks, which   *)
(* periods have their callback stream by now and that no other has one.     *)
Calling ==
  /\ mode \in {"ssai", "sgai"}
  /\ phase \in {"ask", "interleave"} => mode = "ssai"
  /\ phase \in {"inject", "strip"} =>
       /\ todo \subseteq Signalled
       /\ DOMAIN mpd = DOMAIN origin
       /\ \A i \in DOMAIN origin : mpd[i] = PeriodNow(i)
  /\ phase = "strip" => todo = {}
  /\ CallbacksExact

LEMMA InitCalling == Init => Calling
BY DEF Init, Calling, CallbacksExact

LEMMA SameCallbacks ==
  ASSUME UNCHANGED <<origin, breaks>>
  PROVE  /\ Signalled' = Signalled
         /\ \A i : CallbackStream(i)' = CallbackStream(i) /\ BreaksAt(i)' = BreaksAt(i)
BY DEF Signalled, CallbackStream, BreaksAt

(* Writing the streams of a period twice is writing them once.              *)
LEMMA StreamsWritten ==
  ASSUME NEW r \in ContentPeriod, NEW a, NEW b
  PROVE  [[r EXCEPT !.streams = a] EXCEPT !.streams = b] = [r EXCEPT !.streams = b]
BY DEF ContentPeriod

LEMMA InjectCalling ==
  ASSUME Inv, Calling, NEW p \in todo, Inject(p)
  PROVE  Calling'
<1>1. /\ phase = "inject" /\ todo' = todo \ {p}
      /\ mpd' = [mpd EXCEPT ![p].streams = Append(@, CallbackStream(p))]
      /\ UNCHANGED <<origin, mode, phase, breaks>>
  BY DEF Inject
<1>2. /\ p \in Signalled /\ todo \subseteq Signalled /\ DOMAIN mpd = DOMAIN origin
      /\ \A i \in DOMAIN origin : mpd[i] = PeriodNow(i)
  BY <1>1 DEF Calling
<1>3. Signalled' = Signalled /\ \A i : CallbackStream(i)' = CallbackStream(i)
  BY <1>1, SameCallbacks
<1>4. DOMAIN mpd' = DOMAIN origin
  BY <1>1, <1>2
<1>5. ASSUME NEW i \in DOMAIN origin
      PROVE  mpd'[i] = PeriodNow(i)'
  <2>1. CASE i = p
    <3>1. mpd[p] = origin[p]
      BY <1>2, <2>1 DEF PeriodNow
    <3>2. mpd'[p] = [origin[p] EXCEPT !.streams = Append(@, CallbackStream(p))]
      BY <1>1, <1>2, <2>1, <3>1
    <3>3. p \in Signalled' \ todo'
      BY <1>1, <1>2, <1>3
    <3> QED BY <1>1, <1>3, <2>1, <3>2, <3>3 DEF PeriodNow
  <2>2. CASE i # p
    <3>1. mpd'[i] = mpd[i]
      BY <1>1, <1>2, <2>2
    <3>2. i \in Signalled' \ todo' <=> i \in Signalled \ todo
      BY <1>1, <1>3, <2>2
    <3>3. PeriodNow(i)' = PeriodNow(i)
      BY <1>1, <1>3, <3>2 DEF PeriodNow
    <3> QED BY <1>2, <3>1, <3>3
  <2> QED BY <2>1, <2>2
<1>6. CallbacksExact'
  BY <1>1 DEF CallbacksExact
<1> QED BY <1>1, <1>2, <1>3, <1>4, <1>5, <1>6 DEF Calling

LEMMA StripCalling ==
  ASSUME Inv, Calling, Strip
  PROVE  Calling'
<1>1. /\ phase = "strip" /\ phase' = "done"
      /\ mpd' = [i \in DOMAIN mpd |-> [mpd[i] EXCEPT !.streams = WithoutScte(@)]]
      /\ UNCHANGED <<origin, mode, breaks>>
  BY DEF Strip
<1>2. /\ todo = {} /\ DOMAIN mpd = DOMAIN origin
      /\ \A i \in DOMAIN origin : mpd[i] = PeriodNow(i)
  BY <1>1 DEF Calling
<1> DEFINE Own(i) == IF BreaksAt(i) = << >> THEN << >> ELSE <<CallbackStream(i)>>
<1>3. ASSUME NEW i \in DOMAIN origin
      PROVE  mpd'[i] = [origin[i] EXCEPT !.streams = WithoutScte(@) \o Own(i)]
  <2> DEFINE r == origin[i]
             T == Stream \cup {CallbackStream(i)}
             c == CallbackStream(i)
  <2>1. r \in ContentPeriod /\ r.streams \in Seq(T)
    <3>1. r \in ContentPeriod
      BY DEF Inv
    <3>2. r.streams \in Seq(Stream)
      BY <3>1 DEF ContentPeriod
    <3> QED BY <3>1, <3>2
  <2>2. c.scheme # "scte" /\ c \in T
    BY DEF CallbackStream
  <2>3. mpd'[i] = [mpd[i] EXCEPT !.streams = WithoutScte(mpd[i].streams)]
    BY <1>1, <1>2
  <2>4. mpd[i] = IF i \in Signalled THEN [r EXCEPT !.streams = Append(r.streams, c)] ELSE r
    BY <1>2 DEF PeriodNow
  <2>5. i \in Signalled <=> BreaksAt(i) # << >>
    BY BreaksAtEmpty DEF Inv
  <2> HIDE DEF r, T, c
  <2>6. /\ WithoutScte(r.streams) \in Seq(T)
        /\ WithoutScte(Append(r.streams, c)) = WithoutScte(r.streams) \o <<c>>
    BY <2>1, <2>2, StripAppended
  <2>7. CASE i \in Signalled
    <3>0. mpd[i] = [r EXCEPT !.streams = Append(r.streams, c)]
      BY <2>4, <2>7
    <3>1. mpd[i].streams = Append(r.streams, c)
      BY <2>1, <3>0 DEF ContentPeriod
    <3>2. mpd'[i] = [[r EXCEPT !.streams = Append(r.streams, c)]
                       EXCEPT !.streams = WithoutScte(r.streams) \o <<c>>]
      BY <2>3, <2>6, <3>0, <3>1
    <3>3. mpd'[i] = [r EXCEPT !.streams = WithoutScte(r.streams) \o <<c>>]
      BY <2>1, <3>2, StreamsWritten
    <3>4. Own(i) = <<c>>
      BY <2>5, <2>7 DEF c
    <3> QED BY <3>3, <3>4 DEF r
  <2>8. CASE i \notin Signalled
    <3>1. mpd'[i] = [r EXCEPT !.streams = WithoutScte(r.streams)]
      BY <2>3, <2>4, <2>8
    <3>2. Own(i) = << >>
      BY <2>5, <2>8
    <3>3. WithoutScte(r.streams) \o << >> = WithoutScte(r.streams)
      BY <2>6
    <3> QED BY <3>1, <3>2, <3>3 DEF r
  <2> QED BY <2>7, <2>8
<1>4. DOMAIN mpd' = DOMAIN origin
  BY <1>1, <1>2
<1>5. \A i : Own(i)' = Own(i)
  BY <1>1, SameCallbacks
<1> HIDE DEF Own
<1>6. CallbacksExact'
  <2>1. \A i \in DOMAIN origin' :
          mpd'[i] = [origin'[i] EXCEPT !.streams = WithoutScte(@) \o Own(i)']
    BY <1>1, <1>3, <1>5
  <2> QED BY <1>1, <1>4, <2>1 DEF CallbacksExact, Own
<1> QED BY <1>1, <1>6 DEF Calling

LEMMA NextCalling == Inv /\ Calling /\ [Next]_vars => Calling'
<1> SUFFICES ASSUME Inv, Calling, [Next]_vars PROVE Calling'
  OBVIOUS
<1>1. CASE ScanEvent \/ NextStream \/ NextPeriod
  BY <1>1 DEF ScanEvent, AtEvent, NextStream, NextPeriod, Scanning, Calling, CallbacksExact
<1>2. CASE Detected
  <2>1. /\ UNCHANGED <<origin, mode, breaks, mpd>> /\ mpd = origin
        /\ phase' = IF breaks = << >> THEN "done" ELSE IF mode = "ssai" THEN "ask" ELSE "inject"
        /\ todo' = IF mode = "sgai" THEN Signalled ELSE {}
    BY <1>2 DEF Detected, Inv, Signalled
  <2>2. Signalled' = Signalled
    BY <2>1, SameCallbacks
  <2>3. phase' = "inject" => todo' = Signalled' /\ \A i \in DOMAIN origin' : PeriodNow(i)' = origin'[i]
    BY <2>1, <2>2 DEF PeriodNow, Calling
  <2>4. CallbacksExact'
    BY <2>1 DEF CallbacksExact
  <2> QED BY <2>1, <2>2, <2>3, <2>4 DEF Calling
<1>3. CASE Ask
  <2>1. /\ phase = "ask" /\ phase' \in {"ask", "interleave"} /\ UNCHANGED mode
    BY <1>3 DEF Ask, Asked, AskAds
  <2> QED BY <2>1 DEF Calling, CallbacksExact
<1>4. CASE Stitch
  <2>1. /\ phase = "interleave" /\ phase' \in {"interleave", "done"} /\ UNCHANGED mode
    BY <1>4 DEF Stitch, SkipEmptyBreak, InsertPeriod, Interleaved
  <2> QED BY <2>1 DEF Calling, CallbacksExact
<1>5. CASE Injected
  <2>1. /\ phase = "inject" /\ phase' = "strip" /\ todo = {}
        /\ UNCHANGED <<origin, mode, breaks, todo, mpd>>
    BY <1>5 DEF Injected
  <2>2. \A i : PeriodNow(i)' = PeriodNow(i)
    BY <2>1, SameCallbacks DEF PeriodNow
  <2>3. Signalled' = Signalled
    BY <2>1, SameCallbacks
  <2> QED BY <2>1, <2>2, <2>3 DEF Calling, CallbacksExact
<1>6. CASE Strip
  BY <1>6, StripCalling
<1>7. CASE \E p \in todo : Inject(p)
  BY <1>7, InjectCalling
<1>8. CASE UNCHANGED vars
  <2>1. UNCHANGED <<origin, mode, phase, breaks, todo, mpd>>
    BY <1>8 DEF vars
  <2>2. \A i : PeriodNow(i)' = PeriodNow(i)
    BY <2>1, SameCallbacks DEF PeriodNow
  <2>3. Signalled' = Signalled /\ \A i : CallbackStream(i)' = CallbackStream(i) /\ BreaksAt(i)' = BreaksAt(i)
    BY <2>1, SameCallbacks
  <2> QED BY <2>1, <2>2, <2>3 DEF Calling, CallbacksExact
<1> QED BY <1>1, <1>2, <1>3, <1>4, <1>5, <1>6, <1>7, <1>8 DEF Next, Detect, Callbacks

(* inject_dash_callbacks and strip_scte35_event_streams together leave each *)
(* period its streams of other schemes, in order, and one callback stream   *)
(* for exactly its own breaks, in whatever order the hash map gives the     *)
(* periods and however many streams and events there are.                   *)
THEOREM CallbacksAreExact == Spec => []CallbacksExact
<1>1. Calling => CallbacksExact
  BY DEF Calling
<1> QED BY <1>1, InitCalling, NextCalling, DashInvariant, PTL DEF Spec

-----------------------------------------------------------------------------
(* The BaseURLs                                                            *)

LEMMA TurnTyped ==
  ASSUME NEW T, NEW list \in Seq(T), list # << >>, NEW n \in Nat \ {0}
  PROVE  InTurn(list, n) \in T /\ InTurn(list, n) \in ToSet(list)
<1>1. Len(list) \in Nat \ {0}
  OBVIOUS
<1>2. ((n - 1) % Len(list)) \in 0 .. (Len(list) - 1)
  BY <1>1
<1>3. ((n - 1) % Len(list)) + 1 \in DOMAIN list
  BY <1>1, <1>2
<1> QED BY <1>3 DEF InTurn, ToSet

LEMMA UrlTyped ==
  ASSUME NEW ref \in Url
  PROVE  /\ ref.absolute \in BOOLEAN /\ ref.query \in BOOLEAN
         /\ ref.parts \in Seq(Parts) /\ Len(ref.parts) \in Nat /\ Len(ref.parts) > 0
         /\ ref.parts[1] = Head(ref.parts)
         /\ Up \notin ToSet(ref.parts) /\ Head(ref.parts) # Up
         /\ ref.absolute => Head(ref.parts) # Root /\ Len(ref.parts) > 1 /\ ref.parts[2] # Root
         /\ Head(ref.parts) = Root => Len(ref.parts) > 1
<1>1. /\ ref.absolute \in BOOLEAN /\ ref.query \in BOOLEAN
      /\ ref.parts \in Seq(Parts) /\ ref.parts # << >>
      /\ {Up, Query} \cap ToSet(ref.parts) = {}
      /\ ref.absolute => Head(ref.parts) # Root /\ Len(ref.parts) > 1 /\ ref.parts[2] # Root
      /\ Head(ref.parts) = Root => Len(ref.parts) > 1
  BY DEF Url
<1>2. Len(ref.parts) \in Nat /\ Len(ref.parts) > 0 /\ 1 \in DOMAIN ref.parts
      /\ ref.parts[1] = Head(ref.parts)
  BY <1>1
<1>3. Up \notin ToSet(ref.parts)
  BY <1>1
<1>4. Head(ref.parts) # Up
  BY <1>2, <1>3 DEF ToSet
<1> QED BY <1>1, <1>2, <1>3, <1>4

LEMMA HeadTyped ==
  ASSUME NEW T, NEW s \in Seq(T), s # << >>
  PROVE  Head(s) \in T
OBVIOUS

LEMMA Specials ==
  Root \in Parts /\ Query \in Parts /\ Root # Query /\ Root # Up /\ Query # Up
<1>1. Root[1] = "" /\ Query[1] = "?" /\ Up[1] = ".."
  BY DEF Root, Query, Up
<1> QED BY <1>1, PartsAssumption

LEMMA FrontParts ==
  ASSUME NEW p \in Seq(Parts), Len(p) > 0
  PROVE  /\ Front(p) \in Seq(Parts) /\ Len(Front(p)) = Len(p) - 1
         /\ Last(p) = p[Len(p)] /\ Last(p) \in Parts
         /\ p = Append(Front(p), Last(p))
<1>1. Len(p) \in Nat /\ DOMAIN p = 1 .. Len(p) /\ Len(p) \in DOMAIN p
  OBVIOUS
<1>2. Front(p) = SubSeq(p, 1, Len(p) - 1) /\ Last(p) = p[Len(p)]
  BY DEF Front, Last
<1>3. /\ Front(p) \in Seq(Parts) /\ Len(Front(p)) = Len(p) - 1
      /\ \A k \in 1 .. (Len(p) - 1) : Front(p)[k] = p[k]
  BY <1>1, <1>2
<1>4. Last(p) \in Parts
  BY <1>1, <1>2
<1> DEFINE f == Front(p)
           l == Last(p)
<1>5. f \in Seq(Parts) /\ l \in Parts /\ Len(f) = Len(p) - 1
  BY <1>3, <1>4
<1>6. l = p[Len(p)] /\ \A k \in 1 .. (Len(p) - 1) : f[k] = p[k]
  BY <1>2, <1>3
<1> HIDE DEF f, l
<1> DEFINE q == Append(f, l)
<1>7. /\ q \in Seq(Parts) /\ Len(q) = Len(f) + 1 /\ q[Len(f) + 1] = l
      /\ \A k \in 1 .. Len(f) : q[k] = f[k]
  BY <1>5
<1> HIDE DEF q
<1>9. ASSUME NEW k \in 1 .. Len(p)
      PROVE  q[k] = p[k]
  <2>1. \A n \in Nat : \A h \in 1 .. n : h \in 1 .. (n - 1) \/ h = n
    OBVIOUS
  <2>2. CASE k = Len(p)
    <3>1. Len(f) + 1 = Len(p)
      BY <1>1, <1>5
    <3> QED BY <1>6, <1>7, <2>2, <3>1
  <2>3. CASE k \in 1 .. (Len(p) - 1)
    <3>1. k \in 1 .. Len(f)
      BY <1>5, <2>3
    <3> QED BY <1>6, <1>7, <2>3, <3>1
  <2> QED BY <1>1, <1>9, <2>1, <2>2, <2>3
<1>10. Len(q) = Len(p)
  BY <1>1, <1>5, <1>7
<1>8. Append(f, l) = p
  <2>1. q = p
    BY <1>7, <1>9, <1>10
  <2> QED BY <2>1 DEF q
<1> QED BY <1>2, <1>3, <1>4, <1>8 DEF f, l

LEMMA FrontAppended ==
  ASSUME NEW p \in Seq(Parts), NEW x \in Parts
  PROVE  /\ Append(p, x) \in Seq(Parts) /\ Len(Append(p, x)) = Len(p) + 1
         /\ Last(Append(p, x)) = x /\ Front(Append(p, x)) = p
         /\ p # << >> => Head(Append(p, x)) = Head(p)
<1> DEFINE q == Append(p, x)
<1>1. /\ q \in Seq(Parts) /\ Len(q) = Len(p) + 1 /\ q[Len(p) + 1] = x
      /\ Len(p) \in Nat /\ DOMAIN p = 1 .. Len(p) /\ \A k \in 1 .. Len(p) : q[k] = p[k]
  OBVIOUS
<1>2. p # << >> => Head(q) = Head(p)
  BY <1>1
<1> HIDE DEF q
<1>3. Last(q) = x
  BY <1>1 DEF Last
<1>4. /\ Front(q) \in Seq(Parts) /\ Len(Front(q)) = Len(p)
      /\ \A k \in 1 .. Len(p) : Front(q)[k] = p[k]
  BY <1>1 DEF Front
<1>5. Front(q) = p
  BY <1>1, <1>4
<1> QED BY <1>1, <1>2, <1>3, <1>5 DEF q

LEMMA FrontJoined ==
  ASSUME NEW b \in Seq(Parts), NEW p \in Seq(Parts), Len(p) > 0
  PROVE  /\ b \o p \in Seq(Parts) /\ Len(b \o p) = Len(b) + Len(p)
         /\ Last(b \o p) = Last(p) /\ Front(b \o p) = b \o Front(p)
<1>1. Front(p) \in Seq(Parts) /\ Last(p) \in Parts /\ p = Append(Front(p), Last(p))
  BY FrontParts
<1>2. PICK f \in Seq(Parts), l \in Parts : f = Front(p) /\ l = Last(p)
  BY <1>1
<1>3. b \o p = Append(b \o f, l) /\ b \o f \in Seq(Parts)
  <2>1. p = Append(f, l)
    BY <1>1, <1>2
  <2>2. b \o Append(f, l) = Append(b \o f, l)
    OBVIOUS
  <2> QED BY <2>1, <2>2
<1>4. Last(b \o p) = l /\ Front(b \o p) = b \o f
  <2>1. PICK q \in Seq(Parts) : q = b \o f
    BY <1>3
  <2>2. Last(Append(q, l)) = l /\ Front(Append(q, l)) = q
    BY FrontAppended
  <2> QED BY <1>3, <2>1, <2>2
<1>5. b \o p \in Seq(Parts) /\ Len(b \o p) = Len(b) + Len(p)
  OBVIOUS
<1> QED BY <1>2, <1>4, <1>5

LEMMA TextTyped ==
  ASSUME NEW ref \in Url, NEW x, x = Text(ref), NEW n, n = Len(ref.parts)
  PROVE  /\ x \in Seq(Parts) /\ Head(x) = Head(ref.parts)
         /\ ref.query => Len(x) = n + 1 /\ Last(x) # Root
         /\ ~ref.query => x = ref.parts
<1>1. ref.parts \in Seq(Parts) /\ Len(ref.parts) > 0 /\ ref.query \in BOOLEAN
  BY UrlTyped
<1>2. CASE ref.query
  <2>1. x = Append(ref.parts, Query)
    BY <1>2 DEF Text
  <2>2. ref.parts # << >>
    BY <1>1
  <2> QED BY <1>1, <1>2, <2>1, <2>2, Specials, FrontAppended
<1>3. CASE ~ref.query
  BY <1>1, <1>3 DEF Text
<1> QED BY <1>1, <1>2, <1>3

LEMMA Trimmed ==
  ASSUME NEW p \in Seq(Parts), Len(p) > 0
  PROVE  /\ trim_end(p) \in Seq(Parts)
         /\ Last(p) = Root => trim_end(p) = Front(p) /\ Len(trim_end(p)) = Len(p) - 1
         /\ Last(p) # Root => trim_end(p) = p
         /\ Len(trim_end(p)) >= Len(p) - 1
<1>1. Front(p) \in Seq(Parts) /\ Len(Front(p)) = Len(p) - 1 /\ Len(p) \in Nat
  BY FrontParts
<1>2. CASE Last(p) = Root
  BY <1>1, <1>2 DEF trim_end
<1>3. CASE Last(p) # Root
  BY <1>1, <1>3 DEF trim_end
<1> QED BY <1>2, <1>3

-----------------------------------------------------------------------------
(* What the code has come to, as text, and the directory by the standard:   *)
(* the same, the same but for a '/' at the end, or one that lies deeper.    *)
Same(b, m)    == b = m /\ Last(b) # Root
Slashed(b, m) == b = Append(m, Root)
Deeper(b, m)  == Len(trim_end(b)) > Len(m)

Level(b, m) ==
  /\ b \in Seq(Parts) /\ Len(b) > 1 /\ Len(trim_end(b)) > 1
  /\ m \in Seq(Parts) /\ Len(m) > 0
  /\ Same(b, m) \/ Slashed(b, m) \/ Deeper(b, m)

Clean(urls)      == urls # << >> /\ Plain(Head(urls))
Unclean(urls)    == urls # << >> /\ ~Plain(Head(urls))
Overruling(urls) == urls # << >> /\ Head(urls).absolute

(* One of the three only.                                                   *)
LEMMA Apart ==
  ASSUME NEW b, NEW m, Level(b, m)
  PROVE  /\ trim_end(b) \in Seq(Parts)
         /\ Same(b, m) \/ Slashed(b, m) => trim_end(b) = m
         /\ Deeper(b, m) => b # m /\ b # Append(m, Root)
         /\ Same(b, m) => b # Append(m, Root)
         /\ Slashed(b, m) => b # m
         /\ Append(m, Root) \in Seq(Parts)
<1>1. /\ b \in Seq(Parts) /\ Len(b) > 1 /\ m \in Seq(Parts) /\ Len(m) \in Nat /\ Len(b) \in Nat
      /\ Root \in Parts /\ Len(b) > 0 /\ Len(m) > 0
  BY Specials DEF Level
<1>2. /\ Append(m, Root) \in Seq(Parts) /\ Len(Append(m, Root)) = Len(m) + 1
      /\ Last(Append(m, Root)) = Root /\ Front(Append(m, Root)) = m
  BY <1>1, FrontAppended
<1>3. /\ trim_end(b) \in Seq(Parts)
      /\ Last(b) = Root => trim_end(b) = Front(b)
      /\ Last(b) # Root => trim_end(b) = b
  BY <1>1, Trimmed
<1>4. Same(b, m) \/ Slashed(b, m) => trim_end(b) = m
  BY <1>2, <1>3 DEF Same, Slashed
<1>5. Slashed(b, m) => b # m
  BY <1>2 DEF Slashed
<1>6. ASSUME Deeper(b, m) PROVE b # m /\ b # Append(m, Root)
  <2>1. Len(trim_end(b)) <= Len(b)
    BY <1>1, Trimmed
  <2>2. b # m
    BY <1>1, <1>6, <2>1, <1>3 DEF Deeper
  <2>3. b # Append(m, Root)
    <3>1. b = Append(m, Root) => trim_end(b) = m
      BY <1>2, <1>3
    <3> QED BY <1>1, <1>6, <3>1 DEF Deeper
  <2> QED BY <2>2, <2>3
<1> QED BY <1>2, <1>3, <1>4, <1>5, <1>6 DEF Same

(* What a BaseURL makes of them.                                            *)
Down(b, m, b1, m1, urls) ==
  /\ Level(b1, m1)
  /\ urls = << >> => b1 = b /\ m1 = m
  /\ Clean(urls) /\ (Same(b, m) \/ Slashed(b, m) \/ Overruling(urls)) => Slashed(b1, m1)
  /\ Unclean(urls) => Deeper(b1, m1)
  /\ urls # << >> /\ ~Overruling(urls) /\ Deeper(b, m) => Deeper(b1, m1)

LEMMA AbsoluteDown ==
  ASSUME NEW ref \in Url, ref.absolute, NEW p, p = ref.parts, NEW x, x = Text(ref)
  PROVE  /\ Level(x, Front(p))
         /\ Plain(ref) => Slashed(x, Front(p))
         /\ ~Plain(ref) => Deeper(x, Front(p))
<1>1. /\ p \in Seq(Parts) /\ Len(p) \in Nat /\ Len(p) > 1 /\ Len(p) > 0
      /\ Head(p) # Root /\ p[2] # Root
  BY UrlTyped
<1>2. /\ Front(p) \in Seq(Parts) /\ Len(Front(p)) = Len(p) - 1
      /\ Last(p) = p[Len(p)] /\ p = Append(Front(p), Last(p))
  BY <1>1, FrontParts
<1>3. /\ x \in Seq(Parts)
      /\ ref.query => Len(x) = Len(p) + 1 /\ Last(x) # Root
      /\ ~ref.query => x = p
  BY TextTyped
<1>4. Len(x) > 1 /\ Len(x) > 0
  BY <1>1, <1>3
<1>5. CASE Plain(ref)
  <2>1. x = p /\ Last(p) = Root /\ Len(p) > 2
    <3>1. x = p /\ Last(p) = Root
      BY <1>3, <1>5 DEF Plain
    <3>2. Len(p) # 2
      BY <1>1, <1>2, <3>1
    <3>3. Len(p) > 2
      <4>1. \A n \in Nat : n > 1 /\ n # 2 => n > 2
        OBVIOUS
      <4> QED BY <1>1, <3>2, <4>1
    <3> QED BY <3>1, <3>3
  <2>2. Len(trim_end(x)) = Len(p) - 1
    BY <1>3, <1>4, <2>1, Trimmed
  <2>3. Slashed(x, Front(p))
    BY <1>2, <2>1 DEF Slashed
  <2> QED BY <1>1, <1>2, <1>3, <1>4, <1>5, <2>1, <2>2, <2>3 DEF Level
<1>6. CASE ~Plain(ref)
  <2>1. Last(x) # Root
    BY <1>1, <1>3, <1>6 DEF Plain
  <2>2. trim_end(x) = x
    BY <1>3, <1>4, <2>1, Trimmed
  <2>3. Deeper(x, Front(p))
    BY <1>1, <1>2, <1>3, <2>2 DEF Deeper
  <2> QED BY <1>1, <1>2, <1>3, <1>4, <1>6, <2>2, <2>3 DEF Level
<1> QED BY <1>5, <1>6

LEMMA RootedDown ==
  ASSUME NEW b, NEW m, Level(b, m), NEW ref \in Url, ~ref.absolute,
         NEW p, p = ref.parts, Head(p) = Root, NEW x, x = Text(ref),
         NEW b1, b1 = trim_end(b) \o Tail(x), NEW m1, m1 = Front(<<Head(m)>> \o Tail(p))
  PROVE  Level(b1, m1) /\ Deeper(b1, m1)
<1>1. /\ p \in Seq(Parts) /\ Len(p) \in Nat /\ Len(p) > 1
  BY UrlTyped
<1>2. /\ x \in Seq(Parts)
      /\ ref.query => Len(x) = Len(p) + 1 /\ Last(x) # Root
      /\ ~ref.query => x = p
  BY TextTyped
<1>3. Len(x) \in Nat /\ Len(x) >= Len(p)
  BY <1>1, <1>2
<1>4. /\ Tail(x) \in Seq(Parts) /\ Len(Tail(x)) = Len(x) - 1
      /\ Tail(p) \in Seq(Parts) /\ Len(Tail(p)) = Len(p) - 1
  BY <1>1, <1>2, <1>3
<1>5. /\ trim_end(b) \in Seq(Parts) /\ Len(trim_end(b)) > 1 /\ Len(trim_end(b)) \in Nat
      /\ m \in Seq(Parts) /\ Len(m) > 0
  BY Apart DEF Level
<1>6. b1 \in Seq(Parts) /\ Len(b1) = Len(trim_end(b)) + (Len(x) - 1)
  BY <1>4, <1>5
<1>7. <<Head(m)>> \in Seq(Parts) /\ Len(<<Head(m)>>) = 1
  BY <1>5
<1>8. m1 \in Seq(Parts) /\ Len(m1) = Len(p) - 1
  <2>1. <<Head(m)>> \o Tail(p) \in Seq(Parts) /\ Len(<<Head(m)>> \o Tail(p)) = Len(p)
    BY <1>1, <1>4, <1>7
  <2>2. PICK q \in Seq(Parts) : q = <<Head(m)>> \o Tail(p)
    BY <2>1
  <2>3. Len(q) > 0 /\ Len(q) = Len(p)
    BY <1>1, <2>1, <2>2
  <2>4. Front(q) \in Seq(Parts) /\ Len(Front(q)) = Len(q) - 1
    BY <2>3, FrontParts
  <2> QED BY <2>2, <2>3, <2>4
<1>9. Len(b1) > Len(p) /\ Len(b1) > 0 /\ Len(b1) \in Nat /\ Len(b1) > 2
  BY <1>1, <1>2, <1>3, <1>5, <1>6
<1>10. trim_end(b1) \in Seq(Parts) /\ Len(trim_end(b1)) >= Len(b1) - 1
  BY <1>6, <1>9, Trimmed
<1>11. Len(trim_end(b1)) \in Nat
  BY <1>10
<1>12. Deeper(b1, m1)
  BY <1>1, <1>8, <1>9, <1>10, <1>11 DEF Deeper
<1>13. Len(trim_end(b1)) > 1 /\ Len(m1) > 0 /\ Len(b1) > 1
  BY <1>1, <1>8, <1>9, <1>10, <1>11
<1> QED BY <1>6, <1>8, <1>12, <1>13 DEF Level

LEMMA RelativeDown ==
  ASSUME NEW b, NEW m, Level(b, m), NEW ref \in Url, ~ref.absolute,
         NEW p, p = ref.parts, Head(p) # Root, NEW x, x = Text(ref),
         NEW b1, b1 = trim_end(b) \o x, NEW m1, m1 = Front(m \o p)
  PROVE  /\ Level(b1, m1)
         /\ Plain(ref) /\ (Same(b, m) \/ Slashed(b, m)) => Slashed(b1, m1)
         /\ ~Plain(ref) => Deeper(b1, m1)
         /\ Deeper(b, m) => Deeper(b1, m1)
<1>1. p \in Seq(Parts) /\ Len(p) \in Nat /\ Len(p) > 0 /\ p[1] = Head(p)
  BY UrlTyped
<1>2. /\ x \in Seq(Parts)
      /\ ref.query => Len(x) = Len(p) + 1 /\ Last(x) # Root
      /\ ~ref.query => x = p
  BY TextTyped
<1>3. Len(x) \in Nat /\ Len(x) >= Len(p) /\ Len(x) > 0
  BY <1>1, <1>2
<1>4. /\ Front(p) \in Seq(Parts) /\ Len(Front(p)) = Len(p) - 1
      /\ Last(p) = p[Len(p)] /\ p = Append(Front(p), Last(p))
  BY <1>1, FrontParts
<1> DEFINE e == trim_end(b)
<1>5. /\ e \in Seq(Parts) /\ Len(e) > 1 /\ Len(e) \in Nat
      /\ m \in Seq(Parts) /\ Len(m) \in Nat /\ Len(m) > 0
      /\ Same(b, m) \/ Slashed(b, m) => e = m
      /\ Same(b, m) \/ Slashed(b, m) \/ Deeper(b, m)
      /\ Deeper(b, m) => Len(e) > Len(m)
      /\ b1 = e \o x
  BY Apart DEF Level, Deeper
<1> HIDE DEF e
<1>6. /\ b1 \in Seq(Parts) /\ Len(b1) = Len(e) + Len(x) /\ Last(b1) = Last(x)
      /\ Front(b1) = e \o Front(x)
  <2>1. PICK y \in Seq(Parts), z \in Seq(Parts) : y = e /\ z = x
    BY <1>2, <1>5
  <2>2. Len(z) > 0
    BY <1>3, <2>1
  <2>3. /\ y \o z \in Seq(Parts) /\ Len(y \o z) = Len(y) + Len(z)
        /\ Last(y \o z) = Last(z) /\ Front(y \o z) = y \o Front(z)
    BY <2>2, FrontJoined
  <2> QED BY <1>5, <2>1, <2>3
<1>7. m1 = m \o Front(p) /\ m1 \in Seq(Parts) /\ Len(m1) = Len(m) + (Len(p) - 1)
  <2>1. PICK y \in Seq(Parts), z \in Seq(Parts), f \in Seq(Parts) : y = m /\ z = p /\ f = Front(p)
    BY <1>1, <1>4, <1>5
  <2>2. Front(y \o z) = y \o Front(z)
    BY <1>1, <2>1, FrontJoined
  <2>3. y \o f \in Seq(Parts) /\ Len(y \o f) = Len(y) + Len(f)
    OBVIOUS
  <2> QED BY <1>4, <2>1, <2>2, <2>3
<1>8. Len(b1) > 1 /\ Len(b1) > 0 /\ Len(m1) > 0 /\ Len(e) >= Len(m)
  BY <1>1, <1>3, <1>5, <1>6, <1>7
<1>9. CASE Plain(ref)
  <2>1. x = p /\ Last(p) = Root
    BY <1>2, <1>9 DEF Plain
  <2>2. Len(p) > 1
    BY <1>1, <1>4, <2>1
  <2>3. Len(trim_end(b1)) = Len(e) + (Len(p) - 1)
    <3>1. Len(trim_end(b1)) = Len(b1) - 1
      BY <1>6, <1>8, <2>1, Trimmed
    <3>2. Len(b1) = Len(e) + Len(p)
      BY <1>6, <2>1
    <3> QED BY <1>1, <1>5, <3>1, <3>2
  <2>4. ASSUME Same(b, m) \/ Slashed(b, m)
        PROVE  Slashed(b1, m1)
    <3>1. b1 = m \o Append(Front(p), Root)
      BY <1>4, <1>5, <2>1, <2>4
    <3>2. m \o Append(Front(p), Root) = Append(m \o Front(p), Root)
      BY <1>4, <1>5, Specials
    <3> QED BY <1>7, <3>1, <3>2 DEF Slashed
  <2>5. Deeper(b, m) => Deeper(b1, m1)
    BY <1>1, <1>5, <1>7, <2>3 DEF Deeper
  <2>6. Len(trim_end(b1)) > 1
    BY <1>1, <1>5, <2>2, <2>3
  <2> QED BY <1>5, <1>6, <1>7, <1>8, <1>9, <2>4, <2>5, <2>6 DEF Level
<1>10. CASE ~Plain(ref)
  <2>1. Last(x) # Root
    BY <1>2, <1>10 DEF Plain
  <2>2. trim_end(b1) = b1
    BY <1>6, <1>8, <2>1, Trimmed
  <2>3. Deeper(b1, m1)
    BY <1>1, <1>3, <1>5, <1>6, <1>7, <1>8, <2>2 DEF Deeper
  <2> QED BY <1>6, <1>7, <1>8, <1>10, <2>2, <2>3 DEF Level
<1> QED BY <1>9, <1>10

LEMMA LevelDown ==
  ASSUME NEW b, NEW m, Level(b, m), NEW urls \in Seq(Url),
         NEW b1, b1 = Inherit(b, urls), NEW m1, m1 = InDirectory(m, urls)
  PROVE  Down(b, m, b1, m1, urls)
<1>1. CASE urls = << >>
  <2>1. b1 = b /\ m1 = m
    BY <1>1 DEF Inherit, InDirectory
  <2> QED BY <1>1, <2>1 DEF Down, Clean, Unclean, Overruling
<1>2. CASE urls # << >>
  <2>1. PICK ref \in Url : ref = Head(urls)
    BY <1>2, HeadTyped
  <2>2. PICK p, x : p = ref.parts /\ x = Text(ref)
    OBVIOUS
  <2>3. /\ b1 = compose_url(b, ref) /\ m1 = Front(Resolved(m, ref))
        /\ Clean(urls) <=> Plain(ref)
        /\ Unclean(urls) <=> ~Plain(ref)
        /\ Overruling(urls) <=> ref.absolute
    BY <1>2, <2>1 DEF Inherit, InDirectory, Clean, Unclean, Overruling
  <2>4. /\ ref.absolute \in BOOLEAN /\ Head(p) # Up /\ Head(x) = Head(p)
        /\ ref.absolute => Head(p) # Root
    BY <2>2, UrlTyped, TextTyped
  <2>5. CASE ref.absolute
    <3>1. b1 = x /\ m1 = Front(p)
      BY <2>2, <2>3, <2>4, <2>5 DEF compose_url, Resolved
    <3>2. /\ Level(x, Front(p))
          /\ Plain(ref) => Slashed(x, Front(p))
          /\ ~Plain(ref) => Deeper(x, Front(p))
      BY <2>2, <2>5, AbsoluteDown
    <3> QED BY <1>2, <2>3, <2>5, <3>1, <3>2 DEF Down
  <2>6. CASE ~ref.absolute /\ Head(p) = Root
    <3>1. b1 = trim_end(b) \o Tail(x) /\ m1 = Front(<<Head(m)>> \o Tail(p))
      BY <2>2, <2>3, <2>4, <2>6, Specials DEF compose_url, trim_start, Resolved
    <3>2. Level(b1, m1) /\ Deeper(b1, m1)
      BY <2>2, <2>6, <3>1, RootedDown
    <3>3. ~Plain(ref)
      BY <2>2, <2>6 DEF Plain
    <3> QED BY <1>2, <2>3, <3>2, <3>3 DEF Down
  <2>7. CASE ~ref.absolute /\ Head(p) # Root
    <3>1. b1 = trim_end(b) \o x /\ m1 = Front(m \o p)
      BY <2>2, <2>3, <2>4, <2>7 DEF compose_url, trim_start, Resolved
    <3>2. /\ Level(b1, m1)
          /\ Plain(ref) /\ (Same(b, m) \/ Slashed(b, m)) => Slashed(b1, m1)
          /\ ~Plain(ref) => Deeper(b1, m1)
          /\ Deeper(b, m) => Deeper(b1, m1)
      BY <2>2, <2>7, <3>1, RelativeDown
    <3> QED BY <1>2, <2>3, <2>7, <3>2 DEF Down
  <2> QED BY <2>4, <2>5, <2>6, <2>7
<1> QED BY <1>1, <1>2

LEMMA OriginLevel == Level(OriginBase, OriginBase) /\ Same(OriginBase, OriginBase)
<1>1. /\ DOMAIN OriginBase = 1 .. 2 /\ OriginBase = <<OriginBase[1], OriginBase[2]>>
      /\ OriginBase[2] = <<"live">>
  BY DEF OriginBase
<1>2. OriginBase[1] \in Parts /\ OriginBase[2] \in Parts
  BY <1>1, PartsAssumption DEF ToSet
<1>3. ASSUME NEW x \in Parts, NEW y \in Parts
      PROVE  <<x, y>> \in Seq(Parts) /\ Len(<<x, y>>) = 2
  OBVIOUS
<1>4. OriginBase \in Seq(Parts) /\ Len(OriginBase) = 2
  BY <1>1, <1>2, <1>3
<1>5. Last(OriginBase) # Root
  <2>1. Last(OriginBase)[1] = "live" /\ Root[1] = ""
    BY <1>1, <1>4 DEF Last, Root
  <2> QED BY <2>1
<1>6. trim_end(OriginBase) = OriginBase
  BY <1>4, <1>5, Trimmed
<1>7. Len(OriginBase) > 1 /\ Len(OriginBase) > 0
  BY <1>4
<1> HIDE DEF OriginBase
<1> QED BY <1>4, <1>5, <1>6, <1>7 DEF Level, Same

(* Without BaseURLs the code has the directory itself; with BaseURLs it has *)
(* it with a '/' as long as each that counts is as the code takes it.       *)
LEMMA Levels ==
  ASSUME NEW l1 \in Seq(Url), NEW l2 \in Seq(Url), NEW l3 \in Seq(Url), NEW l4 \in Seq(Url),
         NEW b1, NEW b2, NEW b3, NEW b4, NEW m1, NEW m2, NEW m3, NEW m4,
         b1 = Inherit(OriginBase, l1), m1 = InDirectory(OriginBase, l1),
         b2 = Inherit(b1, l2), m2 = InDirectory(m1, l2),
         b3 = Inherit(b2, l3), m3 = InDirectory(m2, l3),
         b4 = Inherit(b3, l4), m4 = InDirectory(m3, l4),
         NEW ls, ls = <<l1, l2, l3, l4>>
  PROVE  /\ Level(b4, m4)
         /\ b4 = m4 <=> Bare(ls)
         /\ b4 = Append(m4, Root) <=> ~Bare(ls) /\ Resolvable(ls)
<1>1. Down(OriginBase, OriginBase, b1, m1, l1)
  BY OriginLevel, LevelDown
<1>2. Down(b1, m1, b2, m2, l2)
  <2>1. Level(b1, m1)
    BY <1>1 DEF Down
  <2> QED BY <2>1, LevelDown
<1>3. Down(b2, m2, b3, m3, l3)
  <2>1. Level(b2, m2)
    BY <1>2 DEF Down
  <2> QED BY <2>1, LevelDown
<1>4. Down(b3, m3, b4, m4, l4)
  <2>1. Level(b3, m3)
    BY <1>3 DEF Down
  <2> QED BY <2>1, LevelDown
<1>5. /\ DOMAIN ls = {1, 2, 3, 4}
      /\ ls[1] = l1 /\ ls[2] = l2 /\ ls[3] = l3 /\ ls[4] = l4
  OBVIOUS
<1>6. Bare(ls) <=> l1 = << >> /\ l2 = << >> /\ l3 = << >> /\ l4 = << >>
  BY <1>5 DEF Bare
<1>7. Resolvable(ls) <=>
        /\ Unclean(l1) => Overruling(l2) \/ Overruling(l3) \/ Overruling(l4)
        /\ Unclean(l2) => Overruling(l3) \/ Overruling(l4)
        /\ Unclean(l3) => Overruling(l4)
        /\ ~Unclean(l4)
  <2>1. Resolvable(ls) <=>
          \A l \in {1, 2, 3, 4} : Unclean(ls[l]) =>
            \E k \in {1, 2, 3, 4} : k > l /\ Overruling(ls[k])
    BY <1>5 DEF Resolvable, Unclean, Overruling
  <2> QED BY <1>5, <2>1
<1>8. \A l \in {l1, l2, l3, l4} :
        /\ l # << >> <=> Clean(l) \/ Unclean(l)
        /\ Overruling(l) => l # << >>
  BY DEF Clean, Unclean, Overruling
<1>9. Bare(ls) => Same(b4, m4)
  BY <1>1, <1>2, <1>3, <1>4, <1>6, OriginLevel DEF Down
<1>10. ASSUME NEW b, NEW m, NEW c, NEW n, NEW l, Down(b, m, c, n, l)
       PROVE  /\ Level(c, n)
              /\ l = << >> => c = b /\ n = m
              /\ Clean(l) /\ (Same(b, m) \/ Slashed(b, m) \/ Overruling(l)) => Slashed(c, n)
              /\ Unclean(l) => Deeper(c, n)
              /\ l # << >> /\ ~Overruling(l) /\ Deeper(b, m) => Deeper(c, n)
  BY <1>10 DEF Down
<1>11. /\ l1 = << >> => Same(b1, m1)
       /\ Clean(l1) => Slashed(b1, m1)
       /\ Unclean(l1) => Deeper(b1, m1)
  BY <1>1, <1>10, OriginLevel
<1>12. /\ l2 = << >> => b2 = b1 /\ m2 = m1
       /\ Clean(l2) /\ (Same(b1, m1) \/ Slashed(b1, m1) \/ Overruling(l2)) => Slashed(b2, m2)
       /\ Unclean(l2) => Deeper(b2, m2)
       /\ ~Overruling(l2) /\ Deeper(b1, m1) => Deeper(b2, m2)
  BY <1>2, <1>10
<1>13. /\ l3 = << >> => b3 = b2 /\ m3 = m2
       /\ Clean(l3) /\ (Same(b2, m2) \/ Slashed(b2, m2) \/ Overruling(l3)) => Slashed(b3, m3)
       /\ Unclean(l3) => Deeper(b3, m3)
       /\ ~Overruling(l3) /\ Deeper(b2, m2) => Deeper(b3, m3)
  BY <1>3, <1>10
<1>14. /\ l4 = << >> => b4 = b3 /\ m4 = m3
       /\ Clean(l4) /\ (Same(b3, m3) \/ Slashed(b3, m3) \/ Overruling(l4)) => Slashed(b4, m4)
       /\ Unclean(l4) => Deeper(b4, m4)
       /\ ~Overruling(l4) /\ Deeper(b3, m3) => Deeper(b4, m4)
  BY <1>4, <1>10
<1>15. ~Bare(ls) /\ Resolvable(ls) => Slashed(b4, m4)
  BY <1>6, <1>7, <1>8, <1>11, <1>12, <1>13, <1>14
<1>16. ~Resolvable(ls) => Deeper(b4, m4)
  BY <1>7, <1>8, <1>11, <1>12, <1>13, <1>14
<1>17. Level(b4, m4)
  BY <1>4, <1>10
<1>18. Bare(ls) => Resolvable(ls)
  BY <1>6, <1>7, <1>8
<1>19. /\ Deeper(b4, m4) => b4 # m4 /\ b4 # Append(m4, Root)
       /\ Same(b4, m4) => b4 = m4 /\ b4 # Append(m4, Root)
       /\ Slashed(b4, m4) => b4 # m4 /\ b4 = Append(m4, Root)
  BY <1>17, Apart DEF Same, Slashed
<1> QED BY <1>9, <1>15, <1>16, <1>17, <1>18, <1>19

(* The template of a track, in directory b for the code and m for the MPD.  *)
LEMMA MediaReaches ==
  ASSUME NEW b \in Seq(Parts), NEW m \in Seq(Parts), Len(b) > 1, Len(m) > 0, NEW media \in Url
  PROVE  Reaches(rewrite_segment_template(media, b), Target(m, media)) <=>
           InTemplate(media) /\ b = m
<1> DEFINE p == media.parts
<1>1. /\ media.absolute \in BOOLEAN /\ media.query \in BOOLEAN
      /\ p \in Seq(Parts) /\ Len(p) > 0 /\ Up \notin ToSet(p) /\ Head(p) # Up
      /\ (media.absolute => Head(p) # Root)
      /\ InTemplate(media) <=> ~media.absolute /\ ~media.query /\ Head(p) # Root
  BY UrlTyped DEF InTemplate
<1>2. Reaches(rewrite_segment_template(media, b), Target(m, media)) <=>
        Resource((IF media.query THEN ConfigOrigin ELSE b) \o p, FALSE)
          = Resource(Resolved(m, media), media.query)
  BY <1>1 DEF Reaches, rewrite_segment_template, serve_segment, Target
<1>3. Reaches(rewrite_segment_template(media, b), Target(m, media)) <=>
        ~media.query /\ b \o p = Resolved(m, media)
  BY <1>1, <1>2 DEF Resource
<1>4. /\ b \o p \in Seq(Parts) /\ Len(b \o p) = Len(b) + Len(p)
      /\ Len(b) \in Nat /\ Len(m) \in Nat /\ Len(p) \in Nat
      /\ DOMAIN b = 1 .. Len(b) /\ DOMAIN m = 1 .. Len(m)
  BY <1>1
<1>5. CASE media.absolute
  <2>1. Resolved(m, media) = p
    BY <1>1, <1>5 DEF Resolved
  <2>2. b \o p # p
    BY <1>4
  <2> QED BY <1>1, <1>3, <1>5, <2>1, <2>2
<1>6. CASE ~media.absolute /\ Head(p) = Root
  <2>1. Resolved(m, media) = <<Head(m)>> \o Tail(p)
    BY <1>1, <1>6 DEF Resolved
  <2>2. <<Head(m)>> \in Seq(Parts) /\ Len(<<Head(m)>>) = 1
    OBVIOUS
  <2>3. Tail(p) \in Seq(Parts) /\ Len(Tail(p)) = Len(p) - 1
    BY <1>1
  <2>4. Len(<<Head(m)>> \o Tail(p)) = 1 + (Len(p) - 1)
    BY <2>2, <2>3
  <2>5. Len(<<Head(m)>> \o Tail(p)) # Len(b \o p)
    BY <1>4, <2>4
  <2>6. b \o p # Resolved(m, media)
    BY <2>1, <2>5
  <2> QED BY <1>1, <1>3, <1>6, <2>6
<1>7. CASE ~media.absolute /\ Head(p) # Root
  <2>1. Resolved(m, media) = m \o p
    BY <1>1, <1>7 DEF Resolved
  <2>2. b \o p = m \o p => b = m
    <3> SUFFICES ASSUME b \o p = m \o p PROVE b = m
      OBVIOUS
    <3>1. m \o p \in Seq(Parts) /\ Len(m \o p) = Len(m) + Len(p)
      BY <1>1
    <3>2. Len(b) = Len(m)
      <4>1. Len(b \o p) = Len(m \o p)
        OBVIOUS
      <4> HIDE DEF p
      <4>2. Len(b) + Len(p) = Len(m) + Len(p)
        BY <1>4, <3>1, <4>1
      <4>3. \A x, y, z \in Nat : x + z = y + z => x = y
        OBVIOUS
      <4>4. Len(b) \in Nat /\ Len(m) \in Nat /\ Len(p) \in Nat
        BY <1>4
      <4> QED BY <4>2, <4>3, <4>4
    <3>3. ASSUME NEW k \in 1 .. Len(b) PROVE b[k] = m[k]
      <4>1. (b \o p)[k] = b[k]
        BY <1>1
      <4>2. (m \o p)[k] = m[k]
        BY <1>1, <3>2
      <4> QED BY <4>1, <4>2
    <3> QED BY <3>2, <3>3, <1>4
  <2>3. b \o p = Resolved(m, media) <=> b = m
    BY <2>1, <2>2
  <2> QED BY <1>1, <1>3, <1>7, <2>3
<1> QED BY <1>1, <1>5, <1>6, <1>7

LEMMA AddressingTyped ==
  ASSUME NEW a \in Addressings, NEW i \in Nat \ {0}, NEW t \in Nat \ {0}
  PROVE  /\ a.mpd \in Seq(Url) /\ PeriodUrls(a, i) \in Seq(Url)
         /\ TrackOf(a, i, t) \in Track
<1>1. /\ a.mpd \in Seq(Url)
      /\ a.periods \in Seq(Seq(Url)) /\ a.periods # << >>
      /\ a.tracks \in Seq(Track) /\ a.tracks # << >>
  BY AddressingsAssumption
<1>2. PeriodUrls(a, i) \in Seq(Url)
  BY <1>1, TurnTyped DEF PeriodUrls
<1>3. TrackOf(a, i, t) \in Track
  <2>1. i + t \in Nat \ {0}
    OBVIOUS
  <2> QED BY <1>1, <2>1, TurnTyped DEF TrackOf
<1> QED BY <1>1, <1>2, <1>3

(* Whatever the BaseURLs and the media, the uri of a track leads where      *)
(* TrackReached says, and nowhere else that it could be meant to.           *)
LEMMA TrackReaches ==
  ASSUME NEW a \in Addressings, NEW i \in Nat \ {0}, NEW t \in Nat \ {0}
  PROVE  TrackReached(a, i, t, TrackUri(a, i, t))
<1>1. PICK track : track = TrackOf(a, i, t)
  OBVIOUS
<1>2. /\ a.mpd \in Seq(Url) /\ PeriodUrls(a, i) \in Seq(Url)
      /\ track.set \in Seq(Url) /\ track.rep \in Seq(Url) /\ track.media \in Url
      /\ track.at \in {"rep", "set", "none"}
  BY <1>1, AddressingTyped DEF Track
<1>3. CASE track.at = "none"
  BY <1>1, <1>3 DEF TrackUri, TrackReached
<1>4. CASE track.at # "none"
  <2>1. PICK l4 : l4 = IF track.at = "rep" THEN track.rep ELSE << >>
    OBVIOUS
  <2>2. l4 \in Seq(Url)
    BY <1>2, <2>1
  <2>3. PICK l2, l3, bases : l2 = PeriodUrls(a, i) /\ l3 = track.set /\ bases = Bases(a, i, t)
    OBVIOUS
  <2>4. bases = <<a.mpd, l2, l3, l4>>
    BY <1>1, <2>1, <2>3 DEF Bases
  <2>5. PICK b1, b2, b3, b4 :
          /\ b1 = Inherit(OriginBase, a.mpd) /\ b2 = Inherit(b1, l2)
          /\ b3 = Inherit(b2, l3) /\ b4 = Inherit(b3, l4)
    OBVIOUS
  <2>6. PICK m1, m2, m3, m4 :
          /\ m1 = InDirectory(OriginBase, a.mpd) /\ m2 = InDirectory(m1, l2)
          /\ m3 = InDirectory(m2, l3) /\ m4 = InDirectory(m3, l4)
    OBVIOUS
  <2>7. m4 = MeantBase(a, i, t)
    <3>1. bases[1] = a.mpd /\ bases[2] = l2 /\ bases[3] = l3 /\ bases[4] = l4
      BY <2>4
    <3> QED BY <2>3, <2>6, <3>1 DEF MeantBase
  <2>8. TrackUri(a, i, t) = rewrite_segment_template(track.media, b4)
    <3>1. b3 = AdaptationBase(a, i, t)
      BY <1>1, <2>3, <2>5 DEF AdaptationBase, PeriodBase, MpdBase
    <3>2. track.at = "rep" => b4 = ReprOrigin(a, i, t)
      BY <1>1, <2>1, <2>5, <3>1 DEF ReprOrigin
    <3>3. track.at = "set" => b4 = b3
      BY <2>1, <2>5 DEF Inherit
    <3> QED BY <1>1, <1>2, <1>4, <3>1, <3>2, <3>3 DEF TrackUri
  <2>9. /\ Level(b4, m4)
        /\ b4 = m4 <=> Bare(bases)
        /\ b4 = Append(m4, Root) <=> ~Bare(bases) /\ Resolvable(bases)
    <3>1. PICK l1 \in Seq(Url) : l1 = a.mpd
      BY <1>2
    <3>2. l2 \in Seq(Url) /\ l3 \in Seq(Url)
      BY <1>2, <2>3
    <3>3. bases = <<l1, l2, l3, l4>> /\ b1 = Inherit(OriginBase, l1) /\ m1 = InDirectory(OriginBase, l1)
      BY <2>4, <2>5, <2>6, <3>1
    <3> QED BY <2>2, <2>5, <2>6, <3>2, <3>3, Levels
  <2>10. /\ b4 \in Seq(Parts) /\ Len(b4) > 1 /\ m4 \in Seq(Parts) /\ Len(m4) > 0
         /\ Append(m4, Root) \in Seq(Parts) /\ Len(Append(m4, Root)) > 0
    <3>1. b4 \in Seq(Parts) /\ Len(b4) > 1 /\ m4 \in Seq(Parts) /\ Len(m4) > 0
      BY <2>9 DEF Level
    <3> QED BY <3>1, Specials
  <2>11. /\ Reaches(TrackUri(a, i, t), Target(m4, track.media)) <=> InTemplate(track.media) /\ b4 = m4
         /\ Reaches(TrackUri(a, i, t), Target(Append(m4, Root), track.media)) <=>
              InTemplate(track.media) /\ b4 = Append(m4, Root)
    <3>1. PICK m5 \in Seq(Parts) : m5 = Append(m4, Root)
      BY <2>10
    <3>2. Len(m5) > 0 /\ b4 \in Seq(Parts) /\ m4 \in Seq(Parts) /\ Len(b4) > 1 /\ Len(m4) > 0
      BY <2>10, <3>1
    <3>3. Reaches(rewrite_segment_template(track.media, b4), Target(m4, track.media)) <=>
            InTemplate(track.media) /\ b4 = m4
      BY <1>2, <3>2, MediaReaches
    <3>4. Reaches(rewrite_segment_template(track.media, b4), Target(m5, track.media)) <=>
            InTemplate(track.media) /\ b4 = m5
      BY <1>2, <3>2, MediaReaches
    <3> QED BY <2>8, <3>1, <3>3, <3>4
  <2> QED BY <1>1, <1>4, <2>3, <2>7, <2>9, <2>11 DEF TrackReached
<1> QED BY <1>3, <1>4

-----------------------------------------------------------------------------
(* The MPD that is served                                                  *)

(* Without breaks nothing is done to the MPD.                               *)
Quiet ==
  /\ phase \notin {"detect", "done"} => breaks # << >>
  /\ phase = "done" /\ breaks = << >> => mpd = origin

LEMMA InitQuiet == Init => Quiet
BY DEF Init, Quiet

LEMMA NextQuiet == Inv /\ Quiet /\ [Next]_vars => Quiet'
<1> SUFFICES ASSUME Inv, Quiet, [Next]_vars PROVE Quiet'
  OBVIOUS
<1>1. CASE ScanEvent \/ NextStream \/ NextPeriod
  BY <1>1 DEF ScanEvent, AtEvent, NextStream, NextPeriod, Scanning, Quiet
<1>2. CASE Detected
  <2>1. mpd = origin
    BY <1>2 DEF Inv, Detected
  <2> QED BY <1>2, <2>1 DEF Detected, Quiet
<1>3. CASE Ask
  BY <1>3 DEF Ask, Asked, AskAds, Quiet
<1>4. CASE Stitch
  BY <1>4 DEF Stitch, SkipEmptyBreak, InsertPeriod, Interleaved, Quiet
<1>5. CASE Callbacks
  BY <1>5 DEF Callbacks, Injected, Strip, Inject, Quiet
<1>6. CASE UNCHANGED vars
  BY <1>6 DEF vars, Quiet
<1> QED BY <1>1, <1>2, <1>3, <1>4, <1>5, <1>6 DEF Next, Detect

(* The periods of the origin are all there, with their own tracks.          *)
TracksKept ==
  /\ \A k \in DOMAIN mpd : ~mpd[k].ad =>
       mpd[k].id \in DOMAIN origin /\ mpd[k].tracks = origin[mpd[k].id].tracks
  /\ \A i \in DOMAIN origin : \E k \in DOMAIN mpd : ~mpd[k].ad /\ mpd[k].id = i

LEMMA DoneTracksKept ==
  ASSUME Inv, Placing, Calling, Quiet, phase = "done"
  PROVE  TracksKept
<1>1. \A i \in DOMAIN origin : origin[i] \in ContentPeriod /\ origin[i].ad = FALSE /\ origin[i].id = i
  <2>1. \A i \in DOMAIN origin : origin[i] \in ContentPeriod
    BY DEF Inv
  <2>2. \A c \in ContentPeriod : c.ad = FALSE
    BY DEF ContentPeriod
  <2> QED BY <2>1, <2>2 DEF Placing
<1>2. CASE mode = "ssai"
  <2>1. Placed(0)
    BY <1>2 DEF Placing
  <2>2. \A k \in DOMAIN mpd : ~mpd[k].ad => mpd[k].id \in DOMAIN origin /\ mpd[k] = origin[mpd[k].id]
    BY <2>1 DEF Placed, Intended
  <2>3. \A i \in DOMAIN origin : \E k \in DOMAIN mpd : mpd[k].ad = FALSE /\ mpd[k].id = i
    BY <2>1 DEF Placed, Has
  <2> QED BY <2>2, <2>3 DEF TracksKept
<1>3. CASE breaks = << >>
  <2>1. mpd = origin
    BY <1>3 DEF Quiet
  <2> QED BY <1>1, <2>1 DEF TracksKept
<1>4. CASE mode = "sgai" /\ breaks # << >>
  <2>1. /\ DOMAIN mpd = DOMAIN origin
        /\ \A i \in DOMAIN origin : \E streams : mpd[i] = [origin[i] EXCEPT !.streams = streams]
    BY <1>4 DEF Calling, CallbacksExact
  <2>2. ASSUME NEW c \in ContentPeriod, NEW streams
        PROVE  LET d == [c EXCEPT !.streams = streams]
               IN  d.ad = c.ad /\ d.id = c.id /\ d.tracks = c.tracks
    BY DEF ContentPeriod
  <2>3. ASSUME NEW i \in DOMAIN origin
        PROVE  mpd[i].ad = FALSE /\ mpd[i].id = i /\ mpd[i].tracks = origin[i].tracks
    <3>1. PICK streams : mpd[i] = [origin[i] EXCEPT !.streams = streams]
      BY <2>1
    <3>2. LET d == [origin[i] EXCEPT !.streams = streams]
          IN  d.ad = origin[i].ad /\ d.id = origin[i].id /\ d.tracks = origin[i].tracks
      BY <1>1, <2>2
    <3> QED BY <1>1, <3>1, <3>2
  <2> QED BY <2>1, <2>3 DEF TracksKept
<1> QED BY <1>2, <1>3, <1>4 DEF Placing

Answering == Answered => phase = "done" /\ TracksReachOrigin

Serving == Inv /\ Placing /\ Calling /\ Quiet /\ Answering

LEMMA ServeTracks ==
  ASSUME Serving, NEW a \in Addressings, ServeManifest(a)
  PROVE  TracksReachOrigin'
<1>1. TracksKept
  BY DoneTracksKept DEF Serving, ServeManifest
<1> DEFINE ps      == response'.periods
           content == {k \in DOMAIN ps : ~ps[k].ad}
<1>2. response' = [origin |-> a, periods |-> rewrite_dash_urls(a)] /\ origin' = origin
  BY DEF ServeManifest, vars
<1>3. response'.origin = a /\ ps = [k \in DOMAIN mpd |-> RewrittenPeriod(a, mpd[k])]
  BY <1>2 DEF rewrite_dash_urls
<1>4. DOMAIN ps = DOMAIN mpd
  BY <1>3
<1>5. ASSUME NEW k \in DOMAIN mpd
      PROVE  /\ ps[k].ad = mpd[k].ad /\ ps[k].id = mpd[k].id
             /\ DOMAIN ps[k].uris = DOMAIN mpd[k].tracks
             /\ ~mpd[k].ad => \A t \in DOMAIN mpd[k].tracks : ps[k].uris[t] = TrackUri(a, mpd[k].id, t)
  <2>1. ps[k] = RewrittenPeriod(a, mpd[k])
    BY <1>3
  <2> HIDE DEF ps
  <2> QED BY <2>1 DEF RewrittenPeriod
<1> HIDE DEF ps
<1>6. {ps[k].id : k \in content} = DOMAIN origin
  BY <1>1, <1>4, <1>5 DEF TracksKept
<1>7. ASSUME NEW k \in content
      PROVE  /\ DOMAIN ps[k].uris = DOMAIN origin[ps[k].id].tracks
             /\ \A t \in DOMAIN origin[ps[k].id].tracks :
                  TrackReached(a, ps[k].id, t, ps[k].uris[t])
  <2> DEFINE i == mpd[k].id
  <2>1. /\ k \in DOMAIN mpd /\ ~mpd[k].ad /\ ps[k].id = i
        /\ i \in DOMAIN origin /\ mpd[k].tracks = origin[i].tracks
    BY <1>1, <1>4, <1>5 DEF TracksKept
  <2>2. i \in Nat \ {0} /\ origin[i] \in ContentPeriod
    BY <2>1 DEF Serving, Inv
  <2>3. origin[i].tracks \in Seq(TrackTypes)
    BY <2>2 DEF ContentPeriod
  <2>4. \A t \in DOMAIN origin[i].tracks : t \in Nat \ {0}
    BY <2>3
  <2> HIDE DEF i
  <2>5. \A t \in DOMAIN origin[i].tracks : ps[k].uris[t] = TrackUri(a, i, t)
    BY <1>5, <2>1 DEF i
  <2>6. DOMAIN ps[k].uris = DOMAIN origin[i].tracks
    BY <1>5, <2>1
  <2>7. \A t \in DOMAIN origin[i].tracks : TrackReached(a, i, t, ps[k].uris[t])
    BY <2>2, <2>4, <2>5, TrackReaches
  <2> QED BY <2>1, <2>6, <2>7
<1> QED BY <1>2, <1>3, <1>6, <1>7 DEF TracksReachOrigin, ps

LEMMA DoneStays == phase = "done" /\ [Next]_vars => UNCHANGED vars
BY DEF Next, Detect, Ask, Stitch, Callbacks, ScanEvent, AtEvent, Scanning, NextStream, NextPeriod, Detected,
       Asked, AskAds, SkipEmptyBreak, InsertPeriod, Interleaved, Injected, Strip, Inject

LEMMA NextServing == Serving /\ [ManifestNext]_allVars => Serving'
<1> SUFFICES ASSUME Serving, [ManifestNext]_allVars PROVE Serving'
  OBVIOUS
<1>1. [Next]_vars
  BY DEF ManifestNext, ServeManifest, allVars
<1>2. Inv' /\ Placing' /\ Calling' /\ Quiet'
  <2>1. Inv /\ Placing /\ Calling /\ Quiet
    BY DEF Serving
  <2> QED BY <1>1, <2>1, NextInv, NextPlacing, NextCalling, NextQuiet
<1>3. Answering'
  <2>1. CASE UNCHANGED response
    <3> SUFFICES ASSUME Answered PROVE phase' = "done" /\ TracksReachOrigin'
      BY <2>1 DEF Answering, Answered
    <3>1. phase = "done" /\ TracksReachOrigin
      BY DEF Serving, Answering
    <3>2. UNCHANGED vars
      BY <1>1, <3>1, DoneStays
    <3>3. phase' = "done" /\ origin' = origin
      BY <3>1, <3>2 DEF vars
    <3> QED BY <2>1, <3>1, <3>3 DEF TracksReachOrigin, Answered
  <2>2. CASE \E a \in Addressings : ServeManifest(a)
    <3>1. PICK a \in Addressings : ServeManifest(a)
      BY <2>2
    <3>2. TracksReachOrigin'
      BY <3>1, ServeTracks
    <3>3. phase' = "done"
      BY <3>1 DEF ServeManifest, vars
    <3> QED BY <3>2, <3>3 DEF Answering
  <2> QED BY <2>1, <2>2 DEF ManifestNext, allVars
<1> QED BY <1>2, <1>3 DEF Serving

(* For every stitched MPD and all BaseURLs at its four levels: a track of   *)
(* the origin is fetched from where the MPD says if there is no BaseURL, and *)
(* from there but for a second '/' before the file if those that count end  *)
(* in '/', have no query and are not from the root; otherwise from neither. *)
THEOREM TracksAreReached == ManifestSpec => []TracksReachOrigin
<1>1. ManifestInit => Serving
  <2>1. ManifestInit => Init /\ ~Answered
    BY DEF ManifestInit, Answered
  <2> QED BY <2>1, InitInv, InitPlacing, InitCalling, InitQuiet DEF Serving, Answering
<1>2. Serving => TracksReachOrigin
  BY DEF Serving, Answering, TracksReachOrigin
<1> QED BY <1>1, <1>2, NextServing, PTL DEF ManifestSpec
=============================================================================
