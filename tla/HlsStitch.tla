------------------------------ MODULE HlsStitch -----------------------------
(***************************************************************************)
(* What turns an origin media playlist into a stitched one:                *)
(* detect_ad_breaks (src/hls/cue.rs) scans the segments' CUE tags; in SSAI *)
(* mode interleave_ads (src/ad/interleaver.rs) copies the segments and     *)
(* puts the ads in, any number for each break; in SGAI mode                *)
(* inject_interstitials (src/hls/interstitial.rs) marks the breaks with    *)
(* DateRanges and takes the CUE tags away.                                 *)
(*                                                                         *)
(* Segments and ads are their indices, counted from 0 as in the code; the  *)
(* origin's own discontinuity marks are left out, those the interleaver    *)
(* sets are kept.  "cont" is a CUE-OUT-CONT, or a CUE-OUT whose duration   *)
(* does not parse; "other" is any tag that is no cue.  Every segment lasts  *)
(* one unit of time; the dates of the origin drift from that.              *)
(***************************************************************************)
EXTENDS Integers, Sequences, SequencesExt

CONSTANTS
  TagLists,     \* the lists of tags a segment may carry
  Ranges,       \* the sets of segments that may have a daterange of the origin
  MaxSegments,  \* bound: segments of the longest playlist
  MaxAds        \* bound: ads of the fullest break

ASSUME TagsAssumption == TagLists \subseteq Seq({"out", "in", "cont", "other"})
ASSUME RangesAssumption == \A ranged \in Ranges : ranged \subseteq Nat
ASSUME SizesAssumption == MaxSegments \in Nat /\ MaxAds \in Nat

VARIABLES
  tags,     \* the playlist: unknown_tags of the segments 0 .. Segs - 1
  phase,    \* "detect", "ask", "stitch", "done"; SGAI: "mark", "marked"
  index,    \* segment under the scan, then segment_index of the interleaver
  tag,      \* position in the tag list of the segment under the scan
  current,  \* current_break: start index of the open break, or -1
  breaks,   \* ad_breaks
  fill,     \* number of ads of each break
  brk,      \* position in breaks
  out,      \* new_segments
  marked    \* SGAI: the segments, with their tags, date and daterange: "own" is
            \* the origin's, else brk and start are the marker's, if there is
            \* one; "ranged" keeps whether the origin had put one there

vars == <<tags, phase, index, tag, current, breaks, fill, brk, out, marked>>

Segs == Len(tags)

TagsOf(i) == tags[i + 1]

None == -1

Break(s, e) == [start |-> s, end |-> e]

Init ==
  /\ tags \in UNION {[1 .. n -> TagLists] : n \in 0 .. MaxSegments}
  /\ phase = "detect"
  /\ index = 0 /\ tag = 1
  /\ current = None
  /\ breaks = << >>
  /\ fill = << >>
  /\ brk = 1
  /\ out = << >>
  /\ marked = << >>

-----------------------------------------------------------------------------
(* detect_ad_breaks                                                        *)

AtTag(t) ==
  /\ phase = "detect"
  /\ index < Segs
  /\ tag <= Len(TagsOf(index))
  /\ TagsOf(index)[tag] = t

NextTag == tag' = tag + 1 /\ UNCHANGED <<tags, phase, index, fill, brk, out, marked>>

(* Mutant: the break stays open.                                            *)
CueInKeepsOpen ==
  /\ AtTag("in")
  /\ breaks' = IF current = None THEN breaks
               ELSE Append(breaks, Break(current, index))
  /\ UNCHANGED current
  /\ NextTag

(* A CUE-IN closes the open break before its own segment.                   *)
CueIn ==
  /\ AtTag("in")
  /\ IF current = None
     THEN UNCHANGED <<current, breaks>>
     ELSE /\ breaks' = Append(breaks, Break(current, index))
          /\ current' = None
  /\ NextTag

(* Mutant: a CUE-OUT always starts a break.                                 *)
CueOutRestarts ==
  /\ AtTag("out")
  /\ current' = index
  /\ UNCHANGED breaks
  /\ NextTag

(* A CUE-OUT inside an open break is ignored.                               *)
CueOut ==
  /\ AtTag("out")
  /\ current' = IF current = None THEN index ELSE current
  /\ UNCHANGED breaks
  /\ NextTag

OtherTag ==
  /\ AtTag("cont") \/ AtTag("other")
  /\ UNCHANGED <<current, breaks>>
  /\ NextTag

NextSegment ==
  /\ phase = "detect"
  /\ index < Segs
  /\ tag > Len(TagsOf(index))
  /\ index' = index + 1
  /\ tag' = 1
  /\ UNCHANGED <<tags, phase, current, breaks, fill, brk, out, marked>>

(* A break left open ends with the playlist.                                *)
EndOfPlaylist ==
  /\ phase = "detect"
  /\ index = Segs
  /\ breaks' = IF current = None THEN breaks
               ELSE Append(breaks, Break(current, Segs))
  /\ current' = None
  /\ phase' = "ask"
  /\ UNCHANGED <<tags, index, tag, fill, brk, out, marked>>

-----------------------------------------------------------------------------
(* process_playlist: ads for every break; without a break no interleaving.  *)
AskAds ==
  /\ phase = "ask"
  /\ fill' \in [1 .. Len(breaks) -> 0 .. MaxAds]
  /\ index' = 0
  /\ phase' = "stitch"
  /\ UNCHANGED <<tags, tag, current, breaks, brk, out, marked>>

-----------------------------------------------------------------------------
(* interleave_ads                                                          *)

Content(i, d)  == [ad |-> FALSE, brk |-> 0, seg |-> i, disc |-> d]
AdSeg(b, i, d) == [ad |-> TRUE,  brk |-> b, seg |-> i, disc |-> d]

OutSegment == [ad : BOOLEAN, brk : Nat, seg : Nat, disc : BOOLEAN]

(* The ads of a break; the first one carries the discontinuity.             *)
AdRun(b) == [i \in 1 .. fill[b] |-> AdSeg(b - 1, i - 1, i = 1)]

(* Content before the break, one segment at a time.                         *)
CopyBefore ==
  /\ phase = "stitch"
  /\ brk <= Len(breaks)
  /\ index < breaks[brk].start /\ index < Segs
  /\ out' = Append(out, Content(index, FALSE))
  /\ index' = index + 1
  /\ UNCHANGED <<tags, phase, tag, current, breaks, fill, brk, marked>>

AtBreak ==
  /\ phase = "stitch"
  /\ brk <= Len(breaks)
  /\ ~(index < breaks[brk].start /\ index < Segs)

(* A break without ads keeps its content.                                   *)
SkipEmptyBreak ==
  /\ AtBreak
  /\ fill[brk] = 0
  /\ brk' = brk + 1
  /\ UNCHANGED <<tags, phase, index, tag, current, breaks, fill, out, marked>>

(* Mutant: the scan moves past the end even at the end of the playlist.     *)
InsertAdsPastEnd ==
  /\ AtBreak
  /\ fill[brk] > 0
  /\ LET end == breaks[brk].end IN
       /\ out' = (out \o AdRun(brk)) \o
                 (IF end < Segs THEN <<Content(end, TRUE)>> ELSE << >>)
       /\ index' = end + 1
  /\ brk' = brk + 1
  /\ UNCHANGED <<tags, phase, tag, current, breaks, fill, marked>>

(* Mutant: the ads go in, the content stays.                                *)
InsertAdsKeepsContent ==
  /\ AtBreak
  /\ fill[brk] > 0
  /\ out' = out \o AdRun(brk)
  /\ brk' = brk + 1
  /\ UNCHANGED <<tags, phase, index, tag, current, breaks, fill, marked>>

(* Mutant: no ads in a break that ends with the playlist.                   *)
InsertAdsNotLast ==
  /\ AtBreak
  /\ fill[brk] > 0
  /\ LET end == breaks[brk].end IN
       IF end < Segs
       THEN /\ out' = (out \o AdRun(brk)) \o <<Content(end, TRUE)>>
            /\ index' = end + 1
       ELSE UNCHANGED <<out, index>>
  /\ brk' = brk + 1
  /\ UNCHANGED <<tags, phase, tag, current, breaks, fill, marked>>

(* The ads go in, the scan jumps to the end of the break, and the segment   *)
(* there, if any, is copied at once with a discontinuity.                   *)
InsertAds ==
  /\ AtBreak
  /\ fill[brk] > 0
  /\ LET end == breaks[brk].end IN
       IF end < Segs
       THEN /\ out' = (out \o AdRun(brk)) \o <<Content(end, TRUE)>>
            /\ index' = end + 1
       ELSE /\ out' = out \o AdRun(brk)
            /\ index' = end
  /\ brk' = brk + 1
  /\ UNCHANGED <<tags, phase, tag, current, breaks, fill, marked>>

CopyRest ==
  /\ phase = "stitch"
  /\ brk > Len(breaks)
  /\ index < Segs
  /\ out' = Append(out, Content(index, FALSE))
  /\ index' = index + 1
  /\ UNCHANGED <<tags, phase, tag, current, breaks, fill, brk, marked>>

Finish ==
  /\ phase = "stitch"
  /\ brk > Len(breaks)
  /\ index >= Segs
  /\ phase' = "done"
  /\ UNCHANGED <<tags, index, tag, current, breaks, fill, brk, out, marked>>

-----------------------------------------------------------------------------
(* ensure_program_date_time and inject_interstitials                       *)

NoDate == -1

(* dated is the set of segments with a date of the origin.                  *)
Dates(dated) ==
  [i \in 1 .. Segs |->
     IF dated = {} THEN i - 1 ELSE IF i - 1 \in dated THEN 2 * (i - 1) ELSE NoDate]

(* Without breaks the playlist is passed on as it is.  Without any date     *)
(* the segments are dated one after the other from a fixed time.  ranged    *)
(* are the segments with an EXT-X-DATERANGE of the origin.                  *)
EnsureDates(dated, ranged) ==
  /\ phase = "ask"
  /\ marked' = [i \in 1 .. Segs |->
                  [tags |-> tags[i], brk |-> None, start |-> NoDate,
                   date |-> IF breaks = << >> THEN NoDate ELSE Dates(dated)[i],
                   own |-> i - 1 \in ranged, ranged |-> i - 1 \in ranged]]
  /\ phase' = IF breaks = << >> THEN "marked" ELSE "mark"
  /\ UNCHANGED <<tags, index, tag, current, breaks, fill, brk, out>>

Anchors(i) == {j \in 0 .. i : marked[j + 1].date # NoDate}

(* Mutant: it counts from the first date.                                   *)
DateAtFromFirst(i) ==
  LET a == CHOOSE j \in Anchors(i) : \A k \in Anchors(i) : k >= j
  IN IF Anchors(i) = {} THEN NoDate ELSE marked[a + 1].date + (i - a)

(* compute_pdt_at: from the last date at or before segment i on.            *)
DateAt(i) ==
  LET a == CHOOSE j \in Anchors(i) : \A k \in Anchors(i) : k <= j
  IN IF Anchors(i) = {} THEN NoDate ELSE marked[a + 1].date + (i - a)

(* A break that starts before every date gets no marker.  A segment has one *)
(* daterange: the marker takes the place of the origin's, and of that of a  *)
(* break that starts at the same segment.                                   *)
MarkBreak ==
  /\ phase = "mark"
  /\ brk <= Len(breaks)
  /\ LET i == breaks[brk].start IN
       marked' = IF i >= Segs \/ DateAt(i) = NoDate THEN marked
                 ELSE [marked EXCEPT ![i + 1] = [tags |-> @.tags, date |-> @.date,
                                                 brk |-> brk - 1, start |-> DateAt(i),
                                                 own |-> FALSE, ranged |-> @.ranged]]
  /\ brk' = brk + 1
  /\ UNCHANGED <<tags, phase, index, tag, current, breaks, fill, out>>

NotCues(list) ==
  FlattenSeq([k \in DOMAIN list |-> IF list[k] = "other" THEN <<list[k]>> ELSE << >>])

WithoutCues(seg) ==
  [tags |-> NotCues(seg.tags), date |-> seg.date,
   brk |-> seg.brk, start |-> seg.start, own |-> seg.own, ranged |-> seg.ranged]

(* remove_cue_tags: on every segment, also for breaks without a marker.     *)
StripCues ==
  /\ phase = "mark"
  /\ brk > Len(breaks)
  /\ marked' = [i \in DOMAIN marked |-> WithoutCues(marked[i])]
  /\ phase' = "marked"
  /\ UNCHANGED <<tags, index, tag, current, breaks, fill, brk, out>>

-----------------------------------------------------------------------------
Detect == CueIn \/ CueOut \/ OtherTag \/ NextSegment \/ EndOfPlaylist

Stitch == CopyBefore \/ SkipEmptyBreak \/ InsertAds \/ CopyRest \/ Finish

Mark ==
  \/ MarkBreak \/ StripCues
  \/ \E d \in SUBSET (0 .. (Segs - 1)), r \in Ranges : EnsureDates(d, r)

Next == Detect \/ AskAds \/ Stitch \/ Mark

Spec == Init /\ [][Next]_vars

-----------------------------------------------------------------------------
(* Properties                                                              *)

MarksOK ==
  phase \in {"mark", "marked"} =>
    /\ DOMAIN marked = 1 .. Segs
    /\ \A i \in 1 .. Segs : marked[i].brk \in {None} \cup 0 .. (Len(breaks) - 1)

(* The indices stay in their ranges: no access of the loops is out of       *)
(* bounds, and the interleaver ends at most one past the playlist.          *)
TypeOK ==
  /\ tags \in Seq(TagLists)
  /\ phase \in {"detect", "ask", "stitch", "done", "mark", "marked"}
  /\ index \in 0 .. Segs
  /\ tag \in Nat \ {0}
  /\ current \in {None} \cup 0 .. Segs
  /\ breaks \in Seq([start : 0 .. Segs, end : 0 .. Segs])
  /\ phase \in {"stitch", "done"} => fill \in [1 .. Len(breaks) -> 0 .. MaxAds]
  /\ brk \in 1 .. (Len(breaks) + 1)
  /\ out \in Seq(OutSegment)
  /\ MarksOK

(* The breaks come in order and do not overlap, and an open one starts      *)
(* after all of them: what every consumer of detect_ad_breaks relies on.    *)
BreaksInOrder ==
  /\ \A b \in DOMAIN breaks : breaks[b].start <= breaks[b].end
  /\ \A b, c \in DOMAIN breaks : b < c => breaks[b].end <= breaks[c].start
  /\ current # None => \A b \in DOMAIN breaks : breaks[b].end <= current

(* is_in_ad_break                                                           *)
InAdBreak(i) == \E b \in DOMAIN breaks : breaks[b].start <= i /\ i < breaks[b].end

(* Tag n of segment i comes before tag p of segment m.                      *)
ComesBefore(i, n, m, p) == i < m \/ (i = m /\ n < p)

(* The last cue before tag n of segment i is a CUE-OUT.                     *)
LastCueIsOut(i, n) ==
  \E j \in 0 .. (Segs - 1) : \E k \in DOMAIN TagsOf(j) :
    /\ TagsOf(j)[k] = "out"
    /\ ComesBefore(j, k, i, n)
    /\ \A m \in 0 .. (Segs - 1) : \A p \in DOMAIN TagsOf(m) :
         TagsOf(m)[p] \in {"out", "in"} =>
           ~(ComesBefore(j, k, m, p) /\ ComesBefore(m, p, i, n))

(* A segment is in a detected break exactly when the last cue at or before  *)
(* it is a CUE-OUT, however the cues are nested, repeated or missing.       *)
DetectionExact ==
  phase # "detect" =>
    \A i \in 0 .. (Segs - 1) : InAdBreak(i) <=> LastCueIsOut(i + 1, 1)

(* Strengthening: while the scan runs, everything found lies behind it.     *)
BehindTheScan ==
  phase = "detect" =>
    /\ \A b \in DOMAIN breaks : breaks[b].end <= index
    /\ current <= index

Filled(b) == fill[b] > 0

InFilled(i) ==
  \E b \in DOMAIN breaks : Filled(b) /\ breaks[b].start <= i /\ i < breaks[b].end

(* No break with ads starts where an earlier one with ads ends.             *)
Separated ==
  \A b, c \in DOMAIN breaks :
    b < c /\ Filled(b) /\ Filled(c) => breaks[b].end < breaks[c].start

(* The ads of a break, in the playlist: each once, the first one marked.     *)
AdsOf(b) == {AdSeg(b - 1, i - 1, i = 1) : i \in 1 .. fill[b]}

(* Content i, marked when a break has just ended.                           *)
ContentOf(i) == Content(i, \E b \in DOMAIN breaks : Filled(b) /\ breaks[b].end = i)

(* What the interleaver is meant to put into the playlist: all ads, and the *)
(* content that no ad replaces.                                             *)
Intended ==
  (UNION {AdsOf(b) : b \in DOMAIN breaks})
    \cup {ContentOf(i) : i \in {j \in 0 .. (Segs - 1) : ~InFilled(j)}}

(* Where on the origin's playlist s belongs.                                *)
Position(s) == IF s.ad THEN breaks[s.brk + 1].start ELSE s.seg

(* s belongs before t: at an earlier place, or at the same one an ad before *)
(* the content and before the later ads of its break.                       *)
Earlier(s, t) ==
  \/ Position(s) < Position(t)
  \/ Position(s) = Position(t) /\ s.ad /\ (t.ad => s.seg < t.seg)

(* With breaks apart from each other the interleaver builds exactly that    *)
(* playlist: nothing lost, added, repeated or out of place, and every       *)
(* change between content and ads marked.                                   *)
StitchedAsIntended ==
  phase = "done" /\ Separated =>
    /\ {out[j] : j \in DOMAIN out} = Intended
    /\ \A j, k \in DOMAIN out : j < k => Earlier(out[j], out[k])

(* Whatever the breaks, every ad of every break is in the playlist once, in *)
(* order, and only the first of a break is marked.                          *)
AdsInOrder ==
  phase = "done" =>
    /\ {out[j] : j \in {k \in DOMAIN out : out[k].ad}}
         = UNION {AdsOf(b) : b \in DOMAIN breaks}
    /\ \A j, k \in DOMAIN out :
         j < k /\ out[j].ad /\ out[k].ad =>
           \/ out[j].brk < out[k].brk
           \/ out[j].brk = out[k].brk /\ out[j].seg < out[k].seg

(* When segment i starts: at its own date, or when segment i - 1 ends.      *)
Timeline ==
  LET t[i \in -1 .. (Segs - 1)] ==
        IF i = -1 THEN NoDate
        ELSE IF marked[i + 1].date # NoDate THEN marked[i + 1].date
        ELSE IF t[i - 1] = NoDate THEN NoDate ELSE t[i - 1] + 1
  IN t

(* In SGAI mode a segment has a marker exactly when a break starts there at *)
(* a time that is known, and the marker has that time; it is the one of the *)
(* break that holds the segment, if one does.  Every other segment keeps    *)
(* the daterange that the origin gave it, or none; one that has a marker    *)
(* loses the origin's (interstitial.rs:136).  Of the other tags the cues    *)
(* are gone, and nothing else.                                              *)
MarkersExact ==
  phase = "marked" /\ breaks # << >> =>
    \A i \in 0 .. (Segs - 1) :
      LET seg == marked[i + 1]
          starting == {b \in DOMAIN breaks : breaks[b].start = i}
      IN  /\ seg.tags = NotCues(tags[i + 1])
          /\ \/ /\ starting = {} \/ Timeline[i] = NoDate
                /\ seg.brk = None /\ seg.own = seg.ranged
             \/ /\ starting # {} /\ Timeline[i] # NoDate
                /\ seg.brk + 1 \in starting /\ seg.start = Timeline[i] /\ ~ seg.own
                /\ \A b \in starting : i < breaks[b].end => seg.brk = b - 1
=============================================================================
