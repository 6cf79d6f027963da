------------------------------- MODULE LiveHls -------------------------------
(* One playlist on its way to the player (HlsPlaylist), or a live stream,   *)
(* playlist after playlist.  The playlists of a stream are windows of it,   *)
(* and each is stitched from the start: nothing of the last one is kept     *)
(* (process_playlist in src/src/server/handlers/playlist.rs).  A player     *)
(* knows a segment by its number, which starts from the                     *)
(* EXT-X-MEDIA-SEQUENCE of the playlist, and a marker by its id.            *)
EXTENDS HlsPlaylist

CONSTANTS
  Streams, \* per stream: its mode, its segments' tags, how many ads fill a
           \* break that starts at a segment, and which segments have a date
  Window   \* bound: segments of a playlist of the origin

ASSUME StreamsAssumption ==
  \A s \in Streams :
    /\ s.tags \in Seq(TagLists)
    /\ s.pods \in Seq(Nat) /\ Len(s.pods) = Len(s.tags)
    /\ s.dated \subseteq Nat

VARIABLES
  live,   \* the stream, or Vod
  first,  \* number of the playlist's first segment
  seen,   \* the player has taken in this playlist
  next,   \* number of the segment the player plays next
  played, \* what the player has played
  shown   \* the markers the player was shown

liveVars == <<live, first, seen, next, played, shown>>
hlsVars  == <<allVars, liveVars>>

(* A playlist that is not of a live stream.                                 *)
Vod == [mode |-> "vod", tags |-> << >>, pods |-> << >>, dated |-> {}]

Length == Len(live.tags)

LiveInit ==
  /\ \/ live = Vod
     \/ /\ live \in Streams
        /\ \E n \in 1 .. Window : n <= Length /\ tags = SubSeq(live.tags, 1, n)
  /\ PlaylistInit
  /\ first = 0
  /\ seen = FALSE
  /\ next = 0
  /\ played = << >>
  /\ shown = {}

(* Which ads, and which dates, a playlist has is a matter of the stream;    *)
(* where it has a daterange of the origin is left open.                     *)
AskLive ==
  /\ live.mode = "ssai"
  /\ AskAds
  /\ \A b \in DOMAIN breaks : fill'[b] = live.pods[first + breaks[b].start + 1]
  /\ UNCHANGED liveVars

DateLive ==
  /\ live.mode = "sgai"
  /\ LET dated == {i \in 0 .. Segs - 1 : first + i \in live.dated}
     IN  \E ranged \in Ranges : EnsureDates(dated, ranged)
  /\ UNCHANGED liveVars

(* What the segment numbered n of the stitched playlist is of the stream:   *)
(* the interleaver leaves EXT-X-MEDIA-SEQUENCE as the origin had it.        *)
SegmentNumbered(n) ==
  LET seg == out[n - first + 1] IN
  IF seg.ad THEN [ad |-> TRUE, start |-> first + breaks[seg.brk + 1].start, seg |-> seg.seg]
  ELSE [ad |-> FALSE, start |-> first + seg.seg, seg |-> 0]

(* The player plays on from where it is; numbers that are gone it skips.    *)
Play ==
  /\ phase = "done" /\ ~seen
  /\ LET from == IF next < first THEN first ELSE next
         end  == first + Len(out)
     IN  /\ played' = played \o [i \in 1 .. (end - from) |-> SegmentNumbered(from + i - 1)]
         /\ next' = IF end > from THEN end ELSE from
  /\ seen' = TRUE
  /\ UNCHANGED <<vars, live, first, shown>>

(* The markers, and where on the stream they are.  HlsStitch counts the     *)
(* dates of the origin from the window's first segment.                     *)
Shown(i) ==
  [id |-> marked[i].brk, first |-> first, segment |-> first + i - 1,
   origin |-> \E j \in 0 .. Segs - 1 : first + j \in live.dated,
   start |-> marked[i].start
             + (IF \E j \in 0 .. Segs - 1 : first + j \in live.dated THEN 2 * first ELSE 0)]

Show ==
  /\ phase = "marked" /\ ~seen
  /\ shown' = shown \cup {Shown(i) : i \in {j \in 1 .. Segs : marked[j].brk # None}}
  /\ seen' = TRUE
  /\ UNCHANGED <<vars, live, first, next, played>>

(* The next playlist: segments were added, and at the front some may have   *)
(* gone; the handler starts anew.                                           *)
Refresh ==
  /\ seen /\ seen' = FALSE
  /\ \E from \in first .. Length, end \in first + Segs + 1 .. Length :
       /\ from < end /\ end - from <= Window
       /\ first' = from
       /\ tags' = SubSeq(live.tags, from + 1, end)
  /\ phase' = "detect"
  /\ index' = 0 /\ tag' = 1 /\ current' = None /\ breaks' = << >>
  /\ fill' = << >> /\ brk' = 1 /\ out' = << >> /\ marked' = << >>
  /\ UNCHANGED <<live, next, played, shown>>

Handle == (Detect \/ Stitch \/ MarkBreak \/ StripCues) /\ UNCHANGED liveVars

LiveNext ==
  \/ live = Vod /\ PlaylistNext /\ UNCHANGED liveVars
  \/ /\ live # Vod
     /\ Handle \/ AskLive \/ DateLive \/ Play \/ Show \/ Refresh
     /\ UNCHANGED response

LiveSpec == LiveInit /\ [][LiveNext]_hlsVars

(************************** Properties *************************************)

(* Where on the stream a segment is played: an ad in place of a segment.    *)
Place(p) == p.start + p.seg

(* Where the break ends that starts at segment s.                           *)
EndOf(s) ==
  LET ends == {e \in s + 1 .. Length - 1 : "in" \in ToSet(live.tags[e + 1])} IN
  IF ends = {} THEN Length ELSE CHOOSE e \in ends : \A f \in ends : e <= f

Starts == {s \in 0 .. Length - 1 : "out" \in ToSet(live.tags[s + 1])}

(* Every break is filled by as many ads as it has segments, or by none.     *)
Matched == \A s \in Starts : live.pods[s + 1] \in {0, EndOf(s) - s}

(* No segment both ends a break and starts one: the interleaver copies the  *)
(* segment behind a break without a look at the next one.                   *)
CuesApart == \A i \in 1 .. Length : ~({"out", "in"} \subseteq ToSet(live.tags[i]))

(* If the ads of each break are as many as the segments they replace, and   *)
(* breaks are apart, the numbers mean the same in every playlist, although  *)
(* each is stitched by itself from what its window holds of a break: the    *)
(* player plays every place of the stream once, in order, and a break to    *)
(* its end as ads once it has begun so.                                     *)
PlaysThrough ==
  Matched /\ CuesApart =>
    /\ \A i, j \in DOMAIN played : i < j => Place(played[i]) < Place(played[j])
    /\ seen /\ live.mode = "ssai" =>
         \A n \in first .. first + Segs - 1 : \E i \in DOMAIN played : Place(played[i]) = n
    /\ \A i, j \in DOMAIN played :
         played[i].ad /\ ~played[j].ad /\ i < j => EndOf(played[i].start) <= played[j].start

(* From playlist to playlist a break keeps the start date of its marker, as *)
(* long as the dates are the origin's or nothing has left at the front, and *)
(* then it keeps its id too.                                                *)
MarkersStay ==
  \A m, n \in shown :
    m.segment = n.segment /\ m.origin = n.origin =>
      /\ m.origin \/ m.first = n.first => m.start = n.start
      /\ m.first = n.first => m.id = n.id
=============================================================================
