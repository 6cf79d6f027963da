----------------------------- MODULE DashStitch ------------------------------
(***************************************************************************)
(* The DASH manifest handler from the parsed MPD to the stitched one:      *)
(* detect_dash_ad_breaks (src/dash/cue.rs) finds the SCTE-35 events of the *)
(* periods; in SSAI mode the provider is asked for the ads of each break   *)
(* and interleave_ads_mpd (src/dash/interleaver.rs) puts in ad periods; in *)
(* SGAI mode inject_dash_callbacks and strip_scte35_event_streams          *)
(* (src/dash/sgai.rs) replace the events by callbacks.                     *)
(*                                                                         *)
(* Periods, streams, events and breaks are counted from 1 here, from 0 in  *)
(* the code.  An event is "break", or "invalid" when it has no duration or *)
(* one out of bounds.                                                      *)
(***************************************************************************)
EXTENDS Integers, Sequences, SequencesExt, FiniteSets

CONSTANTS
  StreamLists,  \* lists of event streams a content period may have
  TrackLists,   \* lists of content types of its adaptation sets
  Provider,     \* AD_PROVIDER: "static", "demo" or "vast"
  MaxPeriods,   \* bound: periods of the longest MPD
  MaxAds        \* bound: ads of the fullest break

Schemes == {"scte", "callback", "other"}

(* refs is what the events of a callback stream refer to: breaks.           *)
Stream == [scheme : Schemes, events : Seq({"break", "invalid"}),
           refs : Seq(Nat \ {0})]

(* "other" is any other content type, and none at all.                      *)
TrackTypes == {"video", "audio", "other"}

ASSUME ListsAssumption == /\ StreamLists \subseteq Seq(Stream)
                          /\ TrackLists \subseteq Seq(TrackTypes)
ASSUME ProviderAssumption == Provider \in {"static", "demo", "vast"}
ASSUME SizesAssumption == MaxPeriods \in Nat /\ MaxAds \in Nat \ {0}

VARIABLES
  origin,   \* the periods of the origin's MPD
  mode,     \* STITCHING_MODE
  phase,    \* "detect", "ask", "interleave", "inject", "strip", "done"
  period, stream, event,  \* the position of the scan
  breaks,   \* ad_breaks
  fill,     \* number of ad segments of the breaks asked for so far
  brk,      \* the break the interleaver has come to, counting down
  todo,     \* breaks_by_period: the periods that still get their callbacks
  mpd       \* mpd.periods

vars == <<origin, mode, phase, period, stream, event, breaks, fill, brk, todo, mpd>>

-----------------------------------------------------------------------------
ContentPeriod == [ad : {FALSE}, id : Nat \ {0}, tracks : Seq(TrackTypes),
                  streams : Seq(Stream), segs : {0}]

(* An ad track is known by its content type and the prefix of its names.    *)
AdPeriod == [ad : {TRUE}, id : Nat \ {0},
             tracks : Seq([type : TrackTypes, prefix : {"v", "a"}]),
             streams : {<< >>}, segs : Nat \ {0}]

Content(i, streams, tracks) ==
  [ad |-> FALSE, id |-> i, tracks |-> tracks, streams |-> streams, segs |-> 0]

Init ==
  /\ \E n \in 0 .. MaxPeriods :
       \E s \in [1 .. n -> StreamLists], t \in [1 .. n -> TrackLists] :
         origin = [i \in 1 .. n |-> Content(i, s[i], t[i])]
  /\ mode \in {"ssai", "sgai"}
  /\ phase = "detect"
  /\ period = 1 /\ stream = 1 /\ event = 1
  /\ breaks = << >>
  /\ fill = << >>
  /\ brk = 0
  /\ todo = {}
  /\ mpd = origin

-----------------------------------------------------------------------------
(* detect_dash_ad_breaks                                                   *)

Scanning == phase = "detect" /\ period <= Len(origin)

Streams == origin[period].streams

(* Mutant: the scheme is not looked at.                                     *)
AtEventOfAnyScheme ==
  /\ Scanning
  /\ stream <= Len(Streams)
  /\ event <= Len(Streams[stream].events)

AtEvent ==
  /\ Scanning
  /\ stream <= Len(Streams)
  /\ Streams[stream].scheme = "scte"
  /\ event <= Len(Streams[stream].events)

ScanEvent ==
  /\ AtEvent
  /\ breaks' = IF Streams[stream].events[event] = "break"
               THEN Append(breaks, [period |-> period, stream |-> stream, event |-> event])
               ELSE breaks
  /\ event' = event + 1
  /\ UNCHANGED <<origin, mode, phase, period, stream, fill, brk, todo, mpd>>

(* The stream is of another scheme, or has no more events.                  *)
NextStream ==
  /\ Scanning
  /\ stream <= Len(Streams)
  /\ ~AtEvent
  /\ stream' = stream + 1
  /\ event' = 1
  /\ UNCHANGED <<origin, mode, phase, period, breaks, fill, brk, todo, mpd>>

NextPeriod ==
  /\ Scanning
  /\ stream > Len(Streams)
  /\ period' = period + 1
  /\ stream' = 1
  /\ event' = 1
  /\ UNCHANGED <<origin, mode, phase, breaks, fill, brk, todo, mpd>>

(* Without breaks the MPD stays as it is, SCTE-35 streams included.         *)
Detected ==
  /\ phase = "detect"
  /\ period > Len(origin)
  /\ phase' = IF breaks = << >> THEN "done"
              ELSE IF mode = "ssai" THEN "ask" ELSE "inject"
  /\ todo' = IF mode = "sgai" THEN {b.period : b \in ToSet(breaks)} ELSE {}
  /\ UNCHANGED <<origin, mode, period, stream, event, breaks, fill, brk, mpd>>

-----------------------------------------------------------------------------
(* get_ad_segments, once for each break                                     *)

(* The static and the demo provider give one segment at least; an empty     *)
(* VAST answer without a slate gives none.                                  *)
MinAds == IF Provider = "vast" THEN 0 ELSE 1

AskAds(n) ==
  /\ phase = "ask"
  /\ Len(fill) < Len(breaks)
  /\ fill' = Append(fill, n)
  /\ UNCHANGED <<origin, mode, phase, period, stream, event, breaks, brk, todo, mpd>>

(* Mutant: one too few.                                                     *)
FirstBreakButLast == Len(breaks) - 1

(* The breaks are taken from the last on.                                   *)
FirstBreak == Len(breaks)

Asked ==
  /\ phase = "ask"
  /\ Len(fill) = Len(breaks)
  /\ phase' = "interleave"
  /\ brk' = FirstBreak
  /\ UNCHANGED <<origin, mode, period, stream, event, breaks, fill, todo, mpd>>

-----------------------------------------------------------------------------
(* interleave_ads_mpd                                                       *)

(* "a" for audio; everything else has the names of the video.               *)
TrackPrefix(type) == IF type = "audio" THEN "a" ELSE "v"

AdTracks(types) ==
  IF types = << >>
  THEN <<[type |-> "video", prefix |-> "v"]>>
  ELSE [i \in DOMAIN types |-> [type |-> types[i], prefix |-> TrackPrefix(types[i])]]

(* create_ad_period                                                         *)
AdPeriodOf(b, n, types) ==
  [ad |-> TRUE, id |-> b, tracks |-> AdTracks(types), streams |-> << >>, segs |-> n]

SkipEmptyBreak ==
  /\ phase = "interleave"
  /\ brk > 0
  /\ fill[brk] = 0
  /\ brk' = brk - 1
  /\ UNCHANGED <<origin, mode, phase, period, stream, event, breaks, fill, todo, mpd>>

(* Mutant: the ad period goes before its signal period.                     *)
InsertPeriodBefore ==
  /\ phase = "interleave"
  /\ brk > 0
  /\ fill[brk] > 0
  /\ LET p == breaks[brk].period IN
       mpd' = InsertAt(mpd, p, AdPeriodOf(brk, fill[brk], mpd[p].tracks))
  /\ brk' = brk - 1
  /\ UNCHANGED <<origin, mode, phase, period, stream, event, breaks, fill, todo>>

(* The signal period is looked up in the MPD as it is by now; the ad period *)
(* goes after it, with its tracks.                                          *)
InsertPeriod ==
  /\ phase = "interleave"
  /\ brk > 0
  /\ fill[brk] > 0
  /\ LET p == breaks[brk].period IN
       mpd' = InsertAt(mpd, p + 1, AdPeriodOf(brk, fill[brk], mpd[p].tracks))
  /\ brk' = brk - 1
  /\ UNCHANGED <<origin, mode, phase, period, stream, event, breaks, fill, todo>>

Interleaved ==
  /\ phase = "interleave"
  /\ brk = 0
  /\ phase' = "done"
  /\ UNCHANGED <<origin, mode, period, stream, event, breaks, fill, brk, todo, mpd>>

-----------------------------------------------------------------------------
(* inject_dash_callbacks and strip_scte35_event_streams                     *)

BreaksAt(p) ==
  FlattenSeq([b \in DOMAIN breaks |-> IF breaks[b].period = p THEN <<b>> ELSE << >>])

CallbackStream(p) == [scheme |-> "callback", events |-> << >>, refs |-> BreaksAt(p)]

(* One stream per period; the hash map gives the periods in any order.      *)
Inject(p) ==
  /\ phase = "inject"
  /\ p \in todo
  /\ todo' = todo \ {p}
  /\ mpd' = [mpd EXCEPT ![p].streams = Append(@, CallbackStream(p))]
  /\ UNCHANGED <<origin, mode, phase, period, stream, event, breaks, fill, brk>>

Injected ==
  /\ phase = "inject"
  /\ todo = {}
  /\ phase' = "strip"
  /\ UNCHANGED <<origin, mode, period, stream, event, breaks, fill, brk, todo, mpd>>

WithoutScte(streams) ==
  FlattenSeq([s \in DOMAIN streams |->
                IF streams[s].scheme = "scte" THEN << >> ELSE <<streams[s]>>])

(* Mutant: only the periods that got a callback are stripped.               *)
StripSignalled ==
  /\ phase = "strip"
  /\ mpd' = [i \in DOMAIN mpd |->
               IF BreaksAt(i) = << >> THEN mpd[i]
               ELSE [mpd[i] EXCEPT !.streams = WithoutScte(@)]]
  /\ phase' = "done"
  /\ UNCHANGED <<origin, mode, period, stream, event, breaks, fill, brk, todo>>

Strip ==
  /\ phase = "strip"
  /\ mpd' = [i \in DOMAIN mpd |->
               [mpd[i] EXCEPT !.streams = WithoutScte(@)]]
  /\ phase' = "done"
  /\ UNCHANGED <<origin, mode, period, stream, event, breaks, fill, brk, todo>>

-----------------------------------------------------------------------------
(* The ad handler on the names of an ad period                              *)

(* parse_dash_init and parse_dash_segment of the demo provider.             *)
DemoType(prefix) == IF prefix = "a" THEN "audio" ELSE "video"

(* The type of the file resolve_segment_url finds for the names of a track. *)
(* The static provider and the ad cache know only the names of HLS.         *)
ResolvedType(prefix) == IF Provider = "demo" THEN DemoType(prefix) ELSE "none"

-----------------------------------------------------------------------------
Detect    == ScanEvent \/ NextStream \/ NextPeriod \/ Detected
Ask       == Asked \/ \E n \in MinAds .. MaxAds : AskAds(n)
Stitch    == SkipEmptyBreak \/ InsertPeriod \/ Interleaved
Callbacks == Injected \/ Strip \/ \E p \in todo : Inject(p)

Next == Detect \/ Ask \/ Stitch \/ Callbacks

Spec == Init /\ [][Next]_vars

-----------------------------------------------------------------------------
(* Properties                                                              *)

Break == [period : Nat \ {0}, stream : Nat \ {0}, event : Nat \ {0}]

IsSignal(b) ==
  /\ b.period \in DOMAIN origin
  /\ b.stream \in DOMAIN origin[b.period].streams
  /\ LET s == origin[b.period].streams[b.stream]
     IN s.scheme = "scte" /\ b.event \in DOMAIN s.events /\ s.events[b.event] = "break"

Before(a, b) ==
  \/ a.period < b.period
  \/ a.period = b.period /\ a.stream < b.stream
  \/ a.period = b.period /\ a.stream = b.stream /\ a.event < b.event

Position == [period |-> period, stream |-> stream, event |-> event]

(* At any point of the scan, the breaks are the valid SCTE-35 events before *)
(* that point, once each and in the order of the document.                  *)
DetectionExact ==
  /\ \A j, k \in DOMAIN breaks : j < k => Before(breaks[j], breaks[k])
  /\ \A b \in ToSet(breaks) : IsSignal(b) /\ Before(b, Position)
  /\ \A i \in DOMAIN origin : \A s \in DOMAIN origin[i].streams :
       \A e \in DOMAIN origin[i].streams[s].events :
         LET b == [period |-> i, stream |-> s, event |-> e]
         IN IsSignal(b) /\ Before(b, Position) => b \in ToSet(breaks)

(* "Iterate ad breaks in reverse order to preserve period indices when      *)
(* inserting": a break the interleaver still has to come to finds its own   *)
(* signal period at its index, whatever was inserted before.                *)
SignalsStay ==
  phase = "interleave" =>
    \A b \in 1 .. brk : LET p == breaks[b].period
                        IN p \in DOMAIN mpd /\ mpd[p] = origin[p]

(* The ad period that break b is to get.                                    *)
AdPeriodFor(b) == AdPeriodOf(b, fill[b], origin[breaks[b].period].tracks)

Filled == {b \in DOMAIN breaks : fill[b] > 0}

(* The period of the origin that a period of the MPD is, or follows.        *)
SignalOf(s) == IF s.ad THEN breaks[s.id].period ELSE s.id

GoesBefore(s, t) ==
  \/ SignalOf(s) < SignalOf(t)
  \/ SignalOf(s) = SignalOf(t) /\ t.ad /\ (s.ad => s.id < t.id)

InOrder(periods) ==
  \A j, k \in DOMAIN periods : j < k => GoesBefore(periods[j], periods[k])

(* A period of the origin, or the ad period of a break that got ads.        *)
Intended(s) ==
  IF s.ad THEN s.id \in Filled /\ s = AdPeriodFor(s.id)
          ELSE s.id \in DOMAIN origin /\ s = origin[s.id]

Has(periods, ad, id) == \E k \in DOMAIN periods : periods[k].ad = ad /\ periods[k].id = id

(* The MPD stitched by interleave_ads_mpd is the origin's, each period      *)
(* followed by the ad periods of its own breaks that got ads, in the order  *)
(* of the breaks, with the period's own tracks.                             *)
InterleavedAsIntended ==
  phase = "done" /\ mode = "ssai" =>
    /\ \A k \in DOMAIN mpd : Intended(mpd[k])
    /\ \A i \in DOMAIN origin : Has(mpd, FALSE, i)
    /\ \A b \in Filled : Has(mpd, TRUE, b)
    /\ InOrder(mpd)

(* In SGAI mode no SCTE-35 stream is left once there is a break, the other  *)
(* streams stay in order, and each period with breaks ends with one         *)
(* callback stream for just those breaks, whatever order the hash map has.  *)
CallbacksExact ==
  phase = "done" /\ mode = "sgai" /\ breaks # << >> =>
    /\ DOMAIN mpd = DOMAIN origin
    /\ \A i \in DOMAIN origin :
         mpd[i] = [origin[i] EXCEPT !.streams =
                     WithoutScte(@) \o
                     (IF BreaksAt(i) = << >> THEN << >> ELSE <<CallbackStream(i)>>)]

(* "Each track gets its own init and data segment URLs with a track-type    *)
(* prefix (...) so the ad provider can resolve them to the correct demuxed  *)
(* files": the names of an audio or a video track of an ad period resolve   *)
(* to files of that type.                                                   *)
NamesResolve ==
  \A i \in DOMAIN mpd : mpd[i].ad =>
    \A t \in ToSet(mpd[i].tracks) :
      t.type \in {"audio", "video"} => ResolvedType(t.prefix) = t.type
=============================================================================
