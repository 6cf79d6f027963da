-------------------------- MODULE HlsStitchProofs ---------------------------
(***************************************************************************)
(* Proofs about HlsStitch, for playlists of every length with any tags, and *)
(* about LiveHls, for streams of every length and windows of every size.   *)
(*                                                                         *)
(* One playlist: the loops stay within their arrays; the breaks are those  *)
(* that the last cue decides; the stitched playlist has each ad once, and  *)
(* is the intended one; the markers are those of breaks at a known time.   *)
(* Each of these needs to be known of the loop while it runs: ScanExact,   *)
(* AdsPassed, IntendedSoFar, MarkersSoFar.                                 *)
(*                                                                         *)
(* A live stream: the handler starts anew (Fresh) with each playlist, so   *)
(* all of this holds of each; what the markers of two playlists have in    *)
(* common is what the windows say of the same stream, and so is what the   *)
(* numbers of their segments mean to a player that plays one after another. *)
(*                                                                         *)
(* The text of an answer (HlsPlaylist): every kind of line leads where it  *)
(* was meant to, and a text has no lines but of these kinds.               *)
(* A text has its tags in place because of where the members of a joined    *)
(* list are among those of its parts (FlattenPlaces), and of what the       *)
(* answer's regions are (Regions).                                          *)
(***************************************************************************)
EXTENDS LiveHls, SequenceTheorems, FiniteSetTheorems, WellFoundedInduction, TLAPS

Inv == TypeOK /\ BreaksInOrder /\ BehindTheScan

BreakRecord == [start : 0 .. Segs, end : 0 .. Segs]

(* What the typing of breaks says of a single one.                          *)
LEMMA BreakTyped ==
  ASSUME TypeOK, NEW b \in DOMAIN breaks
  PROVE  breaks[b].start \in 0 .. Segs /\ breaks[b].end \in 0 .. Segs
<1>1. breaks \in Seq(BreakRecord)
  BY DEF TypeOK, BreakRecord
<1>2. breaks[b] \in BreakRecord
  BY <1>1
<1> QED BY <1>2 DEF BreakRecord

(* Where the handler starts from with a playlist of the origin, of whatever *)
(* length: initially, and anew with every playlist of a live stream.        *)
Fresh ==
  /\ tags \in Seq(TagLists)
  /\ phase = "detect"
  /\ index = 0 /\ tag = 1 /\ current = None /\ breaks = << >>
  /\ fill = << >> /\ brk = 1 /\ out = << >> /\ marked = << >>

LEMMA InitFresh == Init => Fresh
<1> SUFFICES ASSUME Init PROVE Fresh
  OBVIOUS
<1>1. PICK n \in 0 .. MaxSegments : tags \in [1 .. n -> TagLists]
  BY DEF Init
<1>2. tags \in Seq(TagLists)
  BY <1>1, SizesAssumption
<1> QED BY <1>2 DEF Init, Fresh

LEMMA FreshInv == Fresh => Inv
<1> SUFFICES ASSUME Fresh PROVE Inv
  OBVIOUS
<1>1. Segs \in Nat
  BY DEF Fresh, Segs
<1> QED BY <1>1 DEF Fresh, Inv, TypeOK, MarksOK, BreaksInOrder, BehindTheScan, None

(* Appending a break that starts after all others and ends at or before the *)
(* scan's position keeps the order.                                         *)
LEMMA AppendBreak ==
  ASSUME Inv, phase = "detect", current # None,
         breaks' = Append(breaks, Break(current, index)), current' = None,
         index' = index, tags' = tags
  PROVE  /\ breaks' \in Seq(BreakRecord)
         /\ Len(breaks') = Len(breaks) + 1
         /\ BreaksInOrder'
         /\ \A b \in DOMAIN breaks' : breaks'[b].end <= index'
<1> DEFINE r == Break(current, index)
<1>1. r \in BreakRecord /\ r.start = current /\ r.end = index
  BY DEF Inv, TypeOK, Break, BreakRecord
<1>2. breaks \in Seq(BreakRecord)
  BY DEF Inv, TypeOK, BreakRecord
<1>3. current <= index /\ current \in Int /\ index \in Int
  BY DEF Inv, BehindTheScan, TypeOK
<1> HIDE DEF r
<1>4. /\ breaks' \in Seq(BreakRecord)
      /\ Len(breaks') = Len(breaks) + 1
      /\ DOMAIN breaks' = 1 .. (Len(breaks) + 1)
      /\ DOMAIN breaks = 1 .. Len(breaks) /\ Len(breaks) \in Nat
      /\ breaks'[Len(breaks) + 1] = r
      /\ \A b \in 1 .. Len(breaks) : breaks'[b] = breaks[b]
  BY <1>1, <1>2 DEF r
<1>5. \A b \in 1 .. Len(breaks) :
        /\ breaks[b].start <= breaks[b].end
        /\ breaks[b].end <= current /\ breaks[b].end <= index
  BY <1>4 DEF Inv, BreaksInOrder, BehindTheScan
<1>6. \A b, c \in 1 .. Len(breaks) : b < c => breaks[b].end <= breaks[c].start
  BY <1>4 DEF Inv, BreaksInOrder
<1>7. \A b \in DOMAIN breaks' : breaks'[b].start <= breaks'[b].end
  BY <1>1, <1>3, <1>4, <1>5
<1>8. \A b, c \in DOMAIN breaks' : b < c => breaks'[b].end <= breaks'[c].start
  BY <1>1, <1>3, <1>4, <1>5, <1>6
<1>9. \A b \in DOMAIN breaks' : breaks'[b].end <= index'
  BY <1>1, <1>3, <1>4, <1>5
<1> QED BY <1>4, <1>7, <1>8, <1>9 DEF BreaksInOrder

LEMMA DetectInv == Inv /\ Detect => Inv'
<1> SUFFICES ASSUME Inv, Detect PROVE Inv'
  OBVIOUS
<1>0. Segs \in Nat /\ index \in Int /\ index >= 0 /\ tag \in Nat /\ MarksOK'
  <2>1. phase' \in {"detect", "ask"}
    BY DEF Detect, CueIn, CueOut, OtherTag, AtTag, NextTag, NextSegment, EndOfPlaylist
  <2> QED BY <2>1 DEF Inv, TypeOK, Segs, MarksOK
<1>1. CASE CueIn
  <2>1. CASE current = None
    BY <1>0, <1>1, <2>1 DEF CueIn, AtTag, NextTag, Inv, TypeOK, BreaksInOrder,
       BehindTheScan, Segs
  <2>2. CASE current # None
    <3>1. /\ phase = "detect" /\ current' = None
          /\ breaks' = Append(breaks, Break(current, index))
          /\ UNCHANGED <<tags, phase, index, fill, brk, out>> /\ tag' = tag + 1
      BY <1>1, <2>2 DEF CueIn, AtTag, NextTag
    <3>2. /\ breaks' \in Seq(BreakRecord)
          /\ Len(breaks') = Len(breaks) + 1
          /\ BreaksInOrder'
          /\ \A b \in DOMAIN breaks' : breaks'[b].end <= index'
      BY <2>2, <3>1, AppendBreak
    <3>3. BehindTheScan'
      BY <1>0, <3>1, <3>2 DEF BehindTheScan, None
    <3>4. brk' \in 1 .. (Len(breaks') + 1)
      BY <3>1, <3>2 DEF Inv, TypeOK
    <3>5. TypeOK'
      BY <1>0, <3>1, <3>2, <3>4 DEF Inv, TypeOK, BreakRecord, Segs
    <3> QED BY <3>2, <3>3, <3>5 DEF Inv
  <2> QED BY <2>1, <2>2
<1>2. CASE CueOut
  <2>1. /\ phase = "detect" /\ index < Segs
        /\ current' = IF current = None THEN index ELSE current
        /\ UNCHANGED <<tags, phase, index, breaks, fill, brk, out>>
        /\ tag' = tag + 1
    BY <1>2 DEF CueOut, AtTag, NextTag
  <2> QED BY <1>0, <2>1 DEF Inv, TypeOK, BreaksInOrder, BehindTheScan, Segs, None
<1>3. CASE OtherTag
  BY <1>0, <1>3 DEF OtherTag, AtTag, NextTag, Inv, TypeOK, BreaksInOrder,
     BehindTheScan, Segs
<1>4. CASE NextSegment
  <2>1. /\ index < Segs /\ index' = index + 1 /\ tag' = 1
        /\ UNCHANGED <<tags, phase, current, breaks, fill, brk, out>>
    BY <1>4 DEF NextSegment
  <2>2. /\ \A b \in DOMAIN breaks : breaks[b].end \in Int
        /\ current \in Int
    <3>1. \A b \in DOMAIN breaks : breaks[b].end \in Int
      BY <1>0, BreakTyped DEF Inv
    <3>2. current \in Int
      BY <1>0 DEF Inv, TypeOK, None
    <3> QED BY <3>1, <3>2
  <2>3. BehindTheScan'
    BY <1>0, <2>1, <2>2 DEF Inv, BehindTheScan
  <2> QED BY <1>0, <2>1, <2>3 DEF Inv, TypeOK, BreaksInOrder, Segs
<1>5. CASE EndOfPlaylist
  <2>1. /\ phase = "detect" /\ index = Segs /\ current' = None /\ phase' = "ask"
        /\ breaks' = IF current = None THEN breaks
                     ELSE Append(breaks, Break(current, Segs))
        /\ UNCHANGED <<tags, index, tag, fill, brk, out>>
    BY <1>5 DEF EndOfPlaylist
  <2>2. CASE current = None
    BY <1>0, <2>1, <2>2 DEF Inv, TypeOK, BreaksInOrder, BehindTheScan, Segs
  <2>3. CASE current # None
    <3>1. /\ breaks' \in Seq(BreakRecord)
          /\ Len(breaks') = Len(breaks) + 1
          /\ BreaksInOrder'
      BY <2>1, <2>3, AppendBreak
    <3>2. brk' \in 1 .. (Len(breaks') + 1)
      BY <2>1, <3>1 DEF Inv, TypeOK
    <3>3. TypeOK'
      BY <1>0, <2>1, <3>1, <3>2 DEF Inv, TypeOK, BreakRecord, Segs
    <3> QED BY <2>1, <3>1, <3>3 DEF Inv, BehindTheScan
  <2> QED BY <2>2, <2>3
<1> QED BY <1>1, <1>2, <1>3, <1>4, <1>5 DEF Detect

LEMMA StitchInv == Inv /\ (AskAds \/ Stitch) => Inv'
<1> SUFFICES ASSUME Inv, AskAds \/ Stitch PROVE Inv'
  OBVIOUS
<1>0. /\ Segs \in Nat /\ index \in 0 .. Segs
      /\ Len(breaks) \in Nat /\ brk \in 1 .. (Len(breaks) + 1)
      /\ out \in Seq(OutSegment)
      /\ MarksOK'
  <2>1. phase' \in {"stitch", "done"}
    BY DEF AskAds, Stitch, CopyBefore, AtBreak, SkipEmptyBreak, InsertAds, CopyRest, Finish
  <2> QED BY <2>1 DEF Inv, TypeOK, Segs, MarksOK
<1>1. CASE AskAds
  BY <1>0, <1>1 DEF AskAds, Inv, TypeOK, BreaksInOrder, BehindTheScan, Segs
<1>2. ASSUME Stitch,
             tags' = tags, breaks' = breaks, current' = current, fill' = fill,
             tag' = tag, phase \in {"stitch", "done"}, phase' \in {"stitch", "done"},
             index' \in 0 .. Segs, brk' \in 1 .. (Len(breaks) + 1),
             out' \in Seq(OutSegment)
      PROVE  Inv'
  BY <1>0, <1>2 DEF Inv, TypeOK, BreaksInOrder, BehindTheScan, Segs
<1>4. CASE CopyBefore
  <2>1. out' \in Seq(OutSegment)
    <3> DEFINE c == [ad |-> FALSE, brk |-> 0, seg |-> index, disc |-> FALSE]
    <3>1. c \in OutSegment
      BY <1>0 DEF OutSegment
    <3>2. out' = Append(out, c)
      BY <1>4 DEF CopyBefore, Content
    <3> HIDE DEF c
    <3> QED BY <1>0, <3>1, <3>2
  <2>2. index' \in 0 .. Segs
    BY <1>0, <1>4 DEF CopyBefore
  <2> QED BY <1>0, <1>2, <1>4, <2>1, <2>2 DEF CopyBefore, Stitch
<1>5. CASE SkipEmptyBreak
  BY <1>0, <1>2, <1>5 DEF SkipEmptyBreak, AtBreak, Stitch, Inv, TypeOK
<1>6. CASE InsertAds
  <2>1. brk \in 1 .. Len(breaks) /\ breaks[brk].end \in 0 .. Segs
        /\ fill[brk] \in Nat
    <3>1. brk \in 1 .. Len(breaks) /\ phase = "stitch"
      BY <1>0, <1>6 DEF InsertAds, AtBreak
    <3>2. fill \in [1 .. Len(breaks) -> 0 .. MaxAds]
      BY <3>1 DEF Inv, TypeOK
    <3>3. fill[brk] \in Nat
      BY <3>1, <3>2, SizesAssumption
    <3>4. DOMAIN breaks = 1 .. Len(breaks)
      BY DEF Inv, TypeOK
    <3> QED BY <3>1, <3>3, <3>4, BreakTyped DEF Inv
  <2>2. AdRun(brk) \in Seq(OutSegment)
    <3>1. \A i \in 1 .. fill[brk] :
            [ad |-> TRUE, brk |-> brk - 1, seg |-> i - 1, disc |-> i = 1] \in OutSegment
      BY <1>0, <2>1 DEF OutSegment
    <3>2. AdRun(brk) = [i \in 1 .. fill[brk] |->
            [ad |-> TRUE, brk |-> brk - 1, seg |-> i - 1, disc |-> i = 1]]
      BY DEF AdRun, AdSeg
    <3>3. AdRun(brk) \in [1 .. fill[brk] -> OutSegment]
      BY <3>1, <3>2, Zenon
    <3> QED BY <2>1, <3>3
  <2>3. out' \in Seq(OutSegment)
    <3> DEFINE c == [ad |-> FALSE, brk |-> 0, seg |-> breaks[brk].end, disc |-> TRUE]
    <3>1. c \in OutSegment
      BY <1>0, <2>1 DEF OutSegment
    <3>2. \/ out' = (out \o AdRun(brk)) \o <<c>>
          \/ out' = out \o AdRun(brk)
      BY <1>6 DEF InsertAds, Content
    <3> HIDE DEF c
    <3>3. out \o AdRun(brk) \in Seq(OutSegment)
      BY <1>0, <2>2
    <3>4. <<c>> \in Seq(OutSegment)
      BY <3>1
    <3>5. (out \o AdRun(brk)) \o <<c>> \in Seq(OutSegment)
      BY <3>3, <3>4
    <3> QED BY <3>2, <3>3, <3>5
  <2>4. index' \in 0 .. Segs /\ brk' \in 1 .. (Len(breaks) + 1)
    <3> DEFINE end == breaks[brk].end
    <3>1. end \in 0 .. Segs /\ Segs \in Nat /\ brk \in 1 .. Len(breaks) /\ Len(breaks) \in Nat
      BY <1>0, <2>1
    <3>2. brk' = brk + 1 /\ (index' = end \/ (index' = end + 1 /\ end < Segs))
      BY <1>6 DEF InsertAds
    <3> HIDE DEF end
    <3> QED BY <3>1, <3>2
  <2> QED BY <1>2, <1>6, <2>3, <2>4 DEF InsertAds, AtBreak, Stitch
<1>7. CASE CopyRest
  <2>1. out' \in Seq(OutSegment)
    <3> DEFINE c == [ad |-> FALSE, brk |-> 0, seg |-> index, disc |-> FALSE]
    <3>1. c \in OutSegment
      BY <1>0 DEF OutSegment
    <3>2. out' = Append(out, c)
      BY <1>7 DEF CopyRest, Content
    <3> HIDE DEF c
    <3> QED BY <1>0, <3>1, <3>2
  <2>2. index' \in 0 .. Segs
    BY <1>0, <1>7 DEF CopyRest
  <2> QED BY <1>0, <1>2, <1>7, <2>1, <2>2 DEF CopyRest, Stitch
<1>8. CASE Finish
  BY <1>0, <1>2, <1>8 DEF Finish, Stitch, Inv, TypeOK
<1> QED BY <1>1, <1>4, <1>5, <1>6, <1>7, <1>8 DEF Stitch

LEMMA MarkInv == Inv /\ Mark => Inv'
<1> SUFFICES ASSUME Inv, Mark PROVE Inv'
  OBVIOUS
<1>0. Segs \in Nat /\ Len(breaks) \in Nat /\ brk \in 1 .. (Len(breaks) + 1)
  BY DEF Inv, TypeOK, Segs
<1>1. /\ UNCHANGED <<tags, index, tag, current, breaks, fill, out>>
      /\ phase \in {"ask", "mark"} /\ phase' \in {"mark", "marked"}
  BY DEF Mark, MarkBreak, StripCues, EnsureDates
<1>2. ASSUME MarksOK', brk' \in 1 .. (Len(breaks) + 1)
      PROVE  Inv'
  BY <1>1, <1>2 DEF Inv, TypeOK, BreaksInOrder, BehindTheScan, Segs
<1>3. ASSUME NEW d \in SUBSET (0 .. (Segs - 1)), NEW r \in Ranges, EnsureDates(d, r)
      PROVE  Inv'
  <2>1. brk' = brk /\ DOMAIN marked' = 1 .. Segs
        /\ \A i \in 1 .. Segs : marked'[i].brk = None
    BY <1>3 DEF EnsureDates
  <2>2. MarksOK'
    BY <1>1, <2>1 DEF MarksOK, Segs
  <2> QED BY <1>0, <1>2, <2>1, <2>2
<1>4. ASSUME MarkBreak
      PROVE  Inv'
  <2>1. brk \in 1 .. Len(breaks) /\ brk' = brk + 1 /\ phase = "mark" /\ phase' = "mark"
    BY <1>0, <1>4 DEF MarkBreak
  <2>2. DOMAIN marked = 1 .. Segs
        /\ \A i \in 1 .. Segs : marked[i].brk \in {None} \cup 0 .. (Len(breaks) - 1)
    BY <2>1 DEF Inv, TypeOK, MarksOK
  <2>3. DOMAIN marked' = 1 .. Segs
        /\ \A i \in 1 .. Segs : marked'[i].brk \in {marked[i].brk, brk - 1}
    <3> DEFINE j == breaks[brk].start + 1
               new == [tags |-> marked[j].tags, date |-> marked[j].date,
                       brk |-> brk - 1, start |-> DateAt(breaks[brk].start),
                       own |-> FALSE, ranged |-> marked[j].ranged]
    <3>1. marked' = marked \/ marked' = [marked EXCEPT ![j] = new]
      BY <1>4 DEF MarkBreak
    <3>2. new.brk = brk - 1
      OBVIOUS
    <3> HIDE DEF j, new
    <3>3. CASE marked' = marked
      BY <2>2, <3>3
    <3>4. CASE marked' = [marked EXCEPT ![j] = new]
      <4>1. DOMAIN marked' = 1 .. Segs
        BY <2>2, <3>4
      <4>2. \A i \in 1 .. Segs : marked'[i] \in {marked[i], new}
        BY <2>2, <3>4
      <4> QED BY <3>2, <4>1, <4>2
    <3> QED BY <3>1, <3>3, <3>4
  <2>4. MarksOK'
    <3>1. brk - 1 \in 0 .. (Len(breaks) - 1)
      BY <1>0, <2>1
    <3>2. \A i \in 1 .. Segs : marked'[i].brk \in {None} \cup 0 .. (Len(breaks) - 1)
      BY <2>2, <2>3, <3>1
    <3> QED BY <1>1, <2>3, <3>2 DEF MarksOK, Segs
  <2> QED BY <1>0, <1>2, <2>1, <2>4
<1>5. ASSUME StripCues
      PROVE  Inv'
  <2>1. brk' = brk /\ phase = "mark"
    BY <1>5 DEF StripCues
  <2>2. DOMAIN marked = 1 .. Segs
        /\ \A i \in 1 .. Segs : marked[i].brk \in {None} \cup 0 .. (Len(breaks) - 1)
    BY <2>1 DEF Inv, TypeOK, MarksOK
  <2>3. DOMAIN marked' = 1 .. Segs
        /\ \A i \in 1 .. Segs : marked'[i].brk = marked[i].brk
    <3>1. \A seg : WithoutCues(seg).brk = seg.brk
      BY Zenon DEF WithoutCues
    <3> QED BY <1>5, <2>2, <3>1 DEF StripCues
  <2>4. MarksOK'
    BY <1>1, <2>2, <2>3 DEF MarksOK, Segs
  <2> QED BY <1>0, <1>2, <2>1, <2>4
<1> QED BY <1>3, <1>4, <1>5 DEF Mark

THEOREM StitchInvariant == Spec => []Inv
<1>1. Inv /\ [Next]_vars => Inv'
  <2>1. Inv /\ UNCHANGED vars => Inv'
    BY DEF vars, Inv, TypeOK, MarksOK, BreaksInOrder, BehindTheScan, Segs
  <2> QED BY <2>1, DetectInv, StitchInv, MarkInv DEF Next
<1> QED BY <1>1, InitFresh, FreshInv, PTL DEF Spec

(* The two loops never read or write outside their arrays.                  *)
THEOREM StitchTypeCorrect == Spec => []TypeOK
<1>1. Inv => TypeOK
  BY DEF Inv
<1> QED BY <1>1, StitchInvariant, PTL

(* detect_ad_breaks returns breaks in order that do not overlap, whatever   *)
(* the tags of the playlist are.                                            *)
THEOREM BreaksOrdered == Spec => []BreaksInOrder
<1>1. Inv => BreaksInOrder
  BY DEF Inv
<1> QED BY <1>1, StitchInvariant, PTL

-----------------------------------------------------------------------------
(* Detection.  While the scan runs, the open break says what the last cue   *)
(* behind the scan is, and the found breaks, with the open one, say it for  *)
(* every segment that was scanned.                                          *)
ScanExact ==
  phase = "detect" =>
    /\ current # None <=> LastCueIsOut(index, tag)
    /\ \A i \in 0 .. (index - 1) :
         InAdBreak(i) \/ (current # None /\ current <= i) <=> LastCueIsOut(i + 1, 1)

DetectionInv == DetectionExact /\ ScanExact

LEMMA TagsTyped ==
  ASSUME TypeOK
  PROVE  /\ Segs \in Nat
         /\ \A i \in 0 .. (Segs - 1) :
              /\ TagsOf(i) \in Seq({"out", "in", "cont", "other"})
              /\ DOMAIN TagsOf(i) = 1 .. Len(TagsOf(i))
              /\ Len(TagsOf(i)) \in Nat
<1>1. tags \in Seq(TagLists) /\ Segs = Len(tags) /\ Segs \in Nat
  BY DEF TypeOK, Segs
<1>2. ASSUME NEW i \in 0 .. (Segs - 1)
      PROVE  TagsOf(i) \in Seq({"out", "in", "cont", "other"})
  <2>1. i + 1 \in 1 .. Len(tags)
    BY <1>1
  <2>2. tags[i + 1] \in TagLists
    BY <1>1, <2>1
  <2> QED BY <2>2, TagsAssumption DEF TagsOf
<1> QED BY <1>1, <1>2

(* Before the first tag there is no cue.                                    *)
LEMMA NothingScanned == ASSUME TypeOK PROVE ~LastCueIsOut(0, 1)
<1>1. ASSUME NEW j \in 0 .. (Segs - 1), NEW k \in DOMAIN TagsOf(j)
      PROVE  ~ComesBefore(j, k, 0, 1)
  BY TagsTyped, <1>1 DEF ComesBefore
<1> QED BY <1>1 DEF LastCueIsOut

(* Behind the last tag of a segment is before the first of the next.        *)
LEMMA SegmentScanned ==
  ASSUME TypeOK, NEW i \in 0 .. (Segs - 1), NEW n \in Nat, n > Len(TagsOf(i))
  PROVE  LastCueIsOut(i + 1, 1) <=> LastCueIsOut(i, n)
<1>1. ASSUME NEW j \in 0 .. (Segs - 1), NEW k \in DOMAIN TagsOf(j)
      PROVE  ComesBefore(j, k, i + 1, 1) <=> ComesBefore(j, k, i, n)
  <2>1. k \in 1 .. Len(TagsOf(j)) /\ Len(TagsOf(j)) \in Nat /\ Len(TagsOf(i)) \in Nat
    BY TagsTyped, <1>1
  <2> QED BY <2>1, <1>1 DEF ComesBefore
<1> QED BY <1>1 DEF LastCueIsOut

(* What a tag does to the last cue.                                         *)
LEMMA TagScanned ==
  ASSUME TypeOK, NEW i \in 0 .. (Segs - 1), NEW n \in 1 .. Len(TagsOf(i))
  PROVE  /\ TagsOf(i)[n] = "out" => LastCueIsOut(i, n + 1)
         /\ TagsOf(i)[n] = "in" => ~LastCueIsOut(i, n + 1)
         /\ TagsOf(i)[n] \notin {"out", "in"} =>
              (LastCueIsOut(i, n + 1) <=> LastCueIsOut(i, n))
<1>0. n \in DOMAIN TagsOf(i) /\ n \in Nat
  BY TagsTyped
<1>1. ASSUME NEW j \in 0 .. (Segs - 1), NEW k \in DOMAIN TagsOf(j)
      PROVE  /\ ComesBefore(j, k, i, n + 1) <=> ComesBefore(j, k, i, n) \/ (j = i /\ k = n)
             /\ ~(ComesBefore(i, n, j, k) /\ ComesBefore(j, k, i, n + 1))
             /\ ~ComesBefore(j, k, i, n) \/ ~(j = i /\ k = n)
             /\ ComesBefore(j, k, i, n) => ComesBefore(j, k, i, n + 1)
  <2>1. k \in Nat
    BY TagsTyped, <1>1
  <2> QED BY <2>1, <1>0, <1>1 DEF ComesBefore
<1>2. ASSUME TagsOf(i)[n] = "out"
      PROVE  LastCueIsOut(i, n + 1)
  BY <1>0, <1>1, <1>2 DEF LastCueIsOut
<1>3. ASSUME TagsOf(i)[n] = "in"
      PROVE  ~LastCueIsOut(i, n + 1)
  <2> SUFFICES ASSUME NEW j \in 0 .. (Segs - 1), NEW k \in DOMAIN TagsOf(j),
                      ComesBefore(j, k, i, n + 1), TagsOf(j)[k] = "out",
                      ComesBefore(j, k, i, n) => TagsOf(i)[n] \notin {"out", "in"}
               PROVE  FALSE
    BY <1>0, <1>1 DEF LastCueIsOut
  <2> QED BY <1>1, <1>3
<1>4. ASSUME TagsOf(i)[n] \notin {"out", "in"}
      PROVE  LastCueIsOut(i, n + 1) <=> LastCueIsOut(i, n)
  <2>1. ASSUME NEW j \in 0 .. (Segs - 1), NEW k \in DOMAIN TagsOf(j),
               TagsOf(j)[k] \in {"out", "in"}
        PROVE  ComesBefore(j, k, i, n + 1) <=> ComesBefore(j, k, i, n)
    BY <1>1, <1>4, <2>1
  <2> QED BY <2>1 DEF LastCueIsOut
<1> QED BY <1>2, <1>3, <1>4

LEMMA FreshDetection == Fresh => DetectionInv
<1> SUFFICES ASSUME Fresh PROVE DetectionInv
  OBVIOUS
<1>1. TypeOK
  BY FreshInv DEF Inv
<1>2. ~LastCueIsOut(0, 1)
  BY <1>1, NothingScanned
<1>3. phase = "detect" /\ index = 0 /\ tag = 1 /\ current = None
  BY DEF Fresh
<1> QED BY <1>2, <1>3 DEF DetectionInv, DetectionExact, ScanExact

(* A new break at the end covers the segments from where it opened.         *)
LEMMA BreakAppended ==
  ASSUME Inv, phase = "detect", current # None,
         breaks' = Append(breaks, Break(current, index)),
         NEW i \in Nat, i < index
  PROVE  InAdBreak(i)' <=> InAdBreak(i) \/ current <= i
<1> DEFINE r == Break(current, index)
<1>1. breaks \in Seq(BreakRecord) /\ current \in Nat /\ index \in Nat
  BY DEF Inv, TypeOK, BreakRecord, None, Segs
<1>2. r.start = current /\ r.end = index
  BY DEF Break
<1> HIDE DEF r
<1>3. /\ DOMAIN breaks' = 1 .. (Len(breaks) + 1)
      /\ DOMAIN breaks = 1 .. Len(breaks) /\ Len(breaks) \in Nat
      /\ breaks'[Len(breaks) + 1] = r
      /\ \A b \in 1 .. Len(breaks) : breaks'[b] = breaks[b]
  BY <1>1 DEF r
<1>4. InAdBreak(i)' <=> \E b \in DOMAIN breaks' : breaks'[b].start <= i /\ i < breaks'[b].end
  BY DEF InAdBreak
<1>5. ASSUME InAdBreak(i)' PROVE InAdBreak(i) \/ current <= i
  <2>1. PICK b \in 1 .. (Len(breaks) + 1) : breaks'[b].start <= i /\ i < breaks'[b].end
    BY <1>3, <1>4, <1>5
  <2>2. CASE b \in 1 .. Len(breaks)
    BY <1>3, <2>1, <2>2 DEF InAdBreak
  <2>3. CASE b = Len(breaks) + 1
    BY <1>2, <1>3, <2>1, <2>3
  <2> QED BY <1>3, <2>2, <2>3
<1>6. ASSUME InAdBreak(i) PROVE InAdBreak(i)'
  BY <1>3, <1>4, <1>6 DEF InAdBreak
<1>7. ASSUME current <= i PROVE InAdBreak(i)'
  <2>1. Len(breaks) + 1 \in DOMAIN breaks'
    BY <1>3
  <2> QED BY <1>2, <1>3, <1>4, <1>7, <2>1
<1> QED BY <1>5, <1>6, <1>7

(* While the scan runs only cues and segments count.                        *)
LEMMA DetectionStep == Inv /\ DetectionInv /\ Detect => DetectionInv'
<1> SUFFICES ASSUME Inv, DetectionInv, Detect PROVE DetectionInv'
  OBVIOUS
<1>0. /\ phase = "detect" /\ tags' = tags /\ TypeOK
      /\ Segs \in Nat /\ index \in 0 .. Segs /\ tag \in Nat
      /\ current \in Int /\ current <= index
  <2>1. phase = "detect" /\ tags' = tags
    BY DEF Detect, CueIn, CueOut, OtherTag, AtTag, NextTag, NextSegment, EndOfPlaylist
  <2> QED BY <2>1 DEF Inv, TypeOK, BehindTheScan, Segs, None
<1>1. /\ current # None <=> LastCueIsOut(index, tag)
      /\ \A i \in 0 .. (index - 1) :
           InAdBreak(i) \/ (current # None /\ current <= i) <=> LastCueIsOut(i + 1, 1)
  BY <1>0 DEF DetectionInv, ScanExact
<1>2. \A i, n : LastCueIsOut(i, n)' <=> LastCueIsOut(i, n)
  BY <1>0 DEF LastCueIsOut, Segs, TagsOf
<1>3. ASSUME phase' = "detect",
             current' # None <=> LastCueIsOut(index', tag'),
             \A i \in 0 .. (index' - 1) :
               InAdBreak(i)' \/ (current' # None /\ current' <= i) <=> LastCueIsOut(i + 1, 1)
      PROVE  DetectionInv'
  <2>1. LastCueIsOut(index, tag)' <=> LastCueIsOut(index', tag')
    BY <1>0 DEF LastCueIsOut, Segs, TagsOf
  <2>2. ScanExact'
    BY <1>2, <1>3, <2>1 DEF ScanExact, None
  <2> QED BY <1>3, <2>2 DEF DetectionInv, DetectionExact
<1>4. CASE CueIn
  <2>1. /\ phase' = "detect" /\ index' = index /\ tag' = tag + 1
        /\ index \in 0 .. (Segs - 1) /\ tag \in 1 .. Len(TagsOf(index))
        /\ TagsOf(index)[tag] = "in"
    BY <1>0, <1>4, TagsTyped DEF CueIn, AtTag, NextTag, TypeOK
  <2>2. ~LastCueIsOut(index, tag + 1)
    BY <1>0, <2>1, TagScanned
  <2>3. CASE current = None
    <3>1. current' = None /\ breaks' = breaks
      BY <1>4, <2>3 DEF CueIn
    <3>2. \A i : InAdBreak(i)' <=> InAdBreak(i)
      BY <3>1 DEF InAdBreak
    <3> QED BY <1>1, <1>3, <2>1, <2>2, <2>3, <3>1, <3>2
  <2>4. CASE current # None
    <3>1. current' = None /\ breaks' = Append(breaks, Break(current, index))
      BY <1>4, <2>4 DEF CueIn
    <3>2. \A i \in 0 .. (index - 1) : InAdBreak(i)' <=> InAdBreak(i) \/ current <= i
      <4> SUFFICES ASSUME NEW i \in 0 .. (index - 1)
                   PROVE  InAdBreak(i)' <=> InAdBreak(i) \/ current <= i
        OBVIOUS
      <4>1. i \in Nat /\ i < index
        BY <1>0
      <4> QED BY <1>0, <2>4, <3>1, <4>1, BreakAppended
    <3> QED BY <1>1, <1>3, <2>1, <2>2, <2>4, <3>1, <3>2
  <2> QED BY <2>3, <2>4
<1>5. CASE CueOut
  <2>1. /\ phase' = "detect" /\ index' = index /\ tag' = tag + 1
        /\ index \in 0 .. (Segs - 1) /\ tag \in 1 .. Len(TagsOf(index))
        /\ TagsOf(index)[tag] = "out"
        /\ breaks' = breaks
        /\ current' = IF current = None THEN index ELSE current
    BY <1>0, <1>5, TagsTyped DEF CueOut, AtTag, NextTag, TypeOK
  <2>2. LastCueIsOut(index, tag + 1)
    BY <1>0, <2>1, TagScanned
  <2>3. \A i : InAdBreak(i)' <=> InAdBreak(i)
    BY <2>1 DEF InAdBreak
  <2>4. current' # None
    BY <1>0, <2>1 DEF None
  <2>5. \A i \in 0 .. (index - 1) : current' <= i <=> current # None /\ current <= i
    BY <1>0, <2>1
  <2> QED BY <1>1, <1>3, <2>1, <2>2, <2>3, <2>4, <2>5
<1>6. CASE OtherTag
  <2>1. /\ phase' = "detect" /\ index' = index /\ tag' = tag + 1
        /\ index \in 0 .. (Segs - 1) /\ tag \in 1 .. Len(TagsOf(index))
        /\ TagsOf(index)[tag] \notin {"out", "in"}
        /\ breaks' = breaks /\ current' = current
    BY <1>0, <1>6, TagsTyped DEF OtherTag, AtTag, NextTag, TypeOK
  <2>2. LastCueIsOut(index, tag + 1) <=> LastCueIsOut(index, tag)
    BY <1>0, <2>1, TagScanned
  <2>3. \A i : InAdBreak(i)' <=> InAdBreak(i)
    BY <2>1 DEF InAdBreak
  <2> QED BY <1>1, <1>3, <2>1, <2>2, <2>3
<1>7. CASE NextSegment
  <2>1. /\ phase' = "detect" /\ index' = index + 1 /\ tag' = 1
        /\ index \in 0 .. (Segs - 1) /\ tag > Len(TagsOf(index))
        /\ breaks' = breaks /\ current' = current
    BY <1>0, <1>7 DEF NextSegment
  <2>2. LastCueIsOut(index + 1, 1) <=> LastCueIsOut(index, tag)
    BY <1>0, <2>1, SegmentScanned
  <2>3. \A i : InAdBreak(i)' <=> InAdBreak(i)
    BY <2>1 DEF InAdBreak
  <2>4. ~InAdBreak(index)
    <3> SUFFICES ASSUME NEW b \in DOMAIN breaks, index < breaks[b].end PROVE FALSE
      BY DEF InAdBreak
    <3>1. breaks[b].end <= index /\ breaks[b].end \in Nat
      BY <1>0, BreakTyped DEF Inv, BehindTheScan
    <3> QED BY <1>0, <3>1
  <2>5. \A i \in 0 .. index :
          InAdBreak(i) \/ (current # None /\ current <= i) <=> LastCueIsOut(i + 1, 1)
    <3>1. InAdBreak(index) \/ (current # None /\ current <= index)
            <=> LastCueIsOut(index + 1, 1)
      BY <1>0, <1>1, <2>2, <2>4
    <3>2. \A i \in 0 .. index : i \in 0 .. (index - 1) \/ i = index
      BY <1>0
    <3> QED BY <1>1, <3>1, <3>2
  <2>6. 0 .. (index' - 1) = 0 .. index
    BY <1>0, <2>1
  <2> QED BY <1>1, <1>3, <2>1, <2>2, <2>3, <2>5, <2>6
<1>8. CASE EndOfPlaylist
  <2>1. /\ phase' = "ask" /\ index = Segs
        /\ breaks' = IF current = None THEN breaks
                     ELSE Append(breaks, Break(current, index))
    BY <1>8 DEF EndOfPlaylist
  <2>2. \A i \in 0 .. (index - 1) :
          InAdBreak(i)' <=> InAdBreak(i) \/ (current # None /\ current <= i)
    <3>1. CASE current = None
      BY <2>1, <3>1 DEF InAdBreak
    <3>2. CASE current # None
      <4> SUFFICES ASSUME NEW i \in 0 .. (index - 1)
                   PROVE  InAdBreak(i)' <=> InAdBreak(i) \/ current <= i
        BY <3>2
      <4>1. i \in Nat /\ i < index
        BY <1>0
      <4> QED BY <1>0, <2>1, <3>2, <4>1, BreakAppended
    <3> QED BY <3>1, <3>2
  <2>3. Segs' = index
    BY <1>0, <2>1 DEF Segs
  <2>4. DetectionExact'
    BY <1>1, <1>2, <2>2, <2>3 DEF DetectionExact
  <2> QED BY <2>1, <2>4 DEF DetectionInv, ScanExact
<1> QED BY <1>4, <1>5, <1>6, <1>7, <1>8 DEF Detect

(* Once detected, the breaks stay as they are.                              *)
LEMMA DetectionKept ==
  DetectionInv /\ (AskAds \/ Stitch \/ Mark \/ UNCHANGED vars) => DetectionInv'
<1> SUFFICES ASSUME DetectionInv, AskAds \/ Stitch \/ Mark \/ UNCHANGED vars
             PROVE  DetectionInv'
  OBVIOUS
<1>1. tags' = tags /\ breaks' = breaks
  BY DEF AskAds, Stitch, CopyBefore, AtBreak, SkipEmptyBreak, InsertAds, CopyRest,
     Finish, Mark, MarkBreak, StripCues, EnsureDates, vars
<1>2. CASE UNCHANGED vars
  <2>1. UNCHANGED <<tags, phase, index, tag, current, breaks>>
    BY <1>2 DEF vars
  <2>2. (LastCueIsOut(index, tag)' <=> LastCueIsOut(index, tag)) /\ Segs' = Segs
    BY <2>1 DEF LastCueIsOut, Segs, TagsOf
  <2>3. \A i : (InAdBreak(i)' <=> InAdBreak(i))
               /\ (LastCueIsOut(i + 1, 1)' <=> LastCueIsOut(i + 1, 1))
    BY <2>1 DEF InAdBreak, LastCueIsOut, Segs, TagsOf
  <2> QED BY <2>1, <2>2, <2>3 DEF DetectionInv, DetectionExact, ScanExact, None
<1>3. CASE AskAds \/ Stitch \/ Mark
  <2>1. phase # "detect" /\ phase' # "detect"
    BY <1>3 DEF AskAds, Stitch, CopyBefore, AtBreak, SkipEmptyBreak, InsertAds, CopyRest,
       Finish, Mark, MarkBreak, StripCues, EnsureDates
  <2>2. \A i : (InAdBreak(i)' <=> InAdBreak(i))
               /\ (LastCueIsOut(i + 1, 1)' <=> LastCueIsOut(i + 1, 1))
    BY <1>1 DEF InAdBreak, LastCueIsOut, Segs, TagsOf
  <2>3. Segs' = Segs
    BY <1>1 DEF Segs
  <2> QED BY <2>1, <2>2, <2>3 DEF DetectionInv, DetectionExact, ScanExact
<1> QED BY <1>2, <1>3

(* A segment lies in a detected break exactly when the last cue at or       *)
(* before it is a CUE-OUT, on every playlist.                               *)
THEOREM DetectionIsExact == Spec => []DetectionExact
<1>1. Inv /\ DetectionInv /\ [Next]_vars => DetectionInv'
  BY DetectionStep, DetectionKept DEF Next
<1>2. DetectionInv => DetectionExact
  BY DEF DetectionInv
<1> QED BY <1>1, <1>2, InitFresh, FreshDetection, StitchInvariant, PTL DEF Spec

-----------------------------------------------------------------------------
(* Interleaving.  The facts about the breaks that all its steps use.        *)
Interleaving == phase \in {"stitch", "done"}

LEMMA BreakFacts ==
  ASSUME Inv
  PROVE  /\ Segs \in Nat /\ index \in 0 .. Segs
         /\ Len(breaks) \in Nat /\ DOMAIN breaks = 1 .. Len(breaks)
         /\ brk \in 1 .. (Len(breaks) + 1)
         /\ \A b \in 1 .. Len(breaks) :
              /\ breaks[b].start \in 0 .. Segs /\ breaks[b].end \in 0 .. Segs
              /\ breaks[b].start <= breaks[b].end
         /\ \A b, c \in 1 .. Len(breaks) : b < c => breaks[b].end <= breaks[c].start
         /\ Interleaving => \A b \in 1 .. Len(breaks) : fill[b] \in Nat
         /\ Len(out) \in Nat /\ DOMAIN out = 1 .. Len(out)
<1>1. /\ Segs \in Nat /\ index \in 0 .. Segs
      /\ Len(breaks) \in Nat /\ DOMAIN breaks = 1 .. Len(breaks)
      /\ brk \in 1 .. (Len(breaks) + 1)
      /\ Len(out) \in Nat /\ DOMAIN out = 1 .. Len(out)
  BY DEF Inv, TypeOK, Segs
<1>2. ASSUME Interleaving, NEW b \in 1 .. Len(breaks)
      PROVE  fill[b] \in Nat
  <2>1. fill \in [1 .. Len(breaks) -> 0 .. MaxAds]
    BY <1>2 DEF Interleaving, Inv, TypeOK
  <2> QED BY <2>1, SizesAssumption
<1> QED BY <1>1, <1>2, BreakTyped DEF Inv, BreaksInOrder

(* What an operator says of breaks, their ads and the playlist's length     *)
(* stays the same while these do.                                           *)
LEMMA Unmoved ==
  ASSUME tags' = tags, breaks' = breaks, fill' = fill
  PROVE  /\ Segs' = Segs
         /\ \A b : AdsOf(b)' = AdsOf(b) /\ (Filled(b)' <=> Filled(b))
         /\ \A i : ContentOf(i)' = ContentOf(i) /\ (InFilled(i)' <=> InFilled(i))
         /\ \A s, t : Earlier(s, t)' <=> Earlier(s, t)
         /\ Separated' <=> Separated
  BY DEF Segs, AdsOf, Filled, ContentOf, InFilled, Position, Earlier, Separated

LEMMA ContentFields ==
  \A i, d : /\ ~Content(i, d).ad /\ Content(i, d).seg = i
            /\ Content(i, d).disc = d
  BY Zenon DEF Content

LEMMA AdFields ==
  \A b, i, d : /\ AdSeg(b, i, d).ad /\ AdSeg(b, i, d).brk = b
               /\ AdSeg(b, i, d).seg = i
  BY Zenon DEF AdSeg

(* One more content segment in the playlist.                                *)
LEMMA ContentAppended ==
  ASSUME TypeOK, out' = Append(out, Content(index, FALSE))
  PROVE  /\ DOMAIN out' = 1 .. (Len(out) + 1)
         /\ out'[Len(out) + 1] = Content(index, FALSE)
         /\ \A j \in 1 .. Len(out) : out'[j] = out[j]
<1> DEFINE c == Content(index, FALSE)
<1>1. out \in Seq(OutSegment) /\ index \in Nat
  BY DEF TypeOK, Segs
<1>2. c \in OutSegment
  BY <1>1 DEF Content, OutSegment
<1>3. out' = Append(out, c)
  OBVIOUS
<1> HIDE DEF c
<1>4. Append(out, c) \in Seq(OutSegment) /\ Len(Append(out, c)) = Len(out) + 1
  BY <1>1, <1>2, AppendProperties
<1>5. Append(out, c)[Len(out) + 1] = c
  BY <1>1, <1>2, AppendProperties
<1>6. \A j \in 1 .. Len(out) : Append(out, c)[j] = out[j]
  BY <1>1, <1>2, AppendProperties
<1>7. DOMAIN Append(out, c) = 1 .. (Len(out) + 1)
  BY <1>4
<1> QED BY <1>3, <1>5, <1>6, <1>7 DEF c

(* The ads of a break in the playlist, and the content after them.          *)
LEMMA AdsInserted ==
  ASSUME Inv, InsertAds
  PROVE  /\ brk \in 1 .. Len(breaks) /\ fill[brk] \in Nat /\ fill[brk] > 0
         /\ \A j \in 1 .. Len(out) : out'[j] = out[j]
         /\ \A j \in 1 .. fill[brk] : out'[Len(out) + j] = AdSeg(brk - 1, j - 1, j = 1)
         /\ breaks[brk].end < Segs =>
              /\ DOMAIN out' = 1 .. (Len(out) + fill[brk] + 1)
              /\ out'[Len(out) + fill[brk] + 1] = Content(breaks[brk].end, TRUE)
              /\ index' = breaks[brk].end + 1
         /\ ~(breaks[brk].end < Segs) =>
              DOMAIN out' = 1 .. (Len(out) + fill[brk]) /\ index' = breaks[brk].end
<1> DEFINE N == Len(out)
           n == fill[brk]
           end == breaks[brk].end
<1>1. /\ brk \in 1 .. Len(breaks) /\ n \in Nat /\ n > 0
      /\ end \in 0 .. Segs /\ Segs \in Nat /\ N \in Nat
  BY BreakFacts DEF InsertAds, AtBreak, Interleaving
<1>2. /\ AdRun(brk) \in Seq(OutSegment) /\ Len(AdRun(brk)) = n
      /\ \A j \in 1 .. n : AdRun(brk)[j] = AdSeg(brk - 1, j - 1, j = 1)
  <2>1. \A i \in 1 .. n : AdSeg(brk - 1, i - 1, i = 1) \in OutSegment
    <3> SUFFICES ASSUME NEW i \in 1 .. n
                 PROVE  AdSeg(brk - 1, i - 1, i = 1) \in OutSegment
      OBVIOUS
    <3>1. brk - 1 \in Nat /\ i - 1 \in Nat /\ (i = 1) \in BOOLEAN
      BY <1>1
    <3> QED BY <3>1 DEF AdSeg, OutSegment
  <2>2. AdRun(brk) = [i \in 1 .. n |-> AdSeg(brk - 1, i - 1, i = 1)]
    BY DEF AdRun
  <2>3. AdRun(brk) \in [1 .. n -> OutSegment]
    BY <2>1, <2>2, Zenon
  <2>4. AdRun(brk) \in Seq(OutSegment) /\ Len(AdRun(brk)) = n
    BY <1>1, <2>3
  <2> QED BY <2>2, <2>4
<1>3. out \in Seq(OutSegment)
  BY DEF Inv, TypeOK
<1> DEFINE both == out \o AdRun(brk)
<1>4. /\ both \in Seq(OutSegment) /\ Len(both) = N + n
      /\ \A j \in 1 .. N : both[j] = out[j]
      /\ \A j \in 1 .. n : both[N + j] = AdSeg(brk - 1, j - 1, j = 1)
  <2>1. both \in Seq(OutSegment) /\ Len(both) = Len(out) + Len(AdRun(brk))
    <3>1. AdRun(brk) \in Seq(OutSegment)
      BY <1>2
    <3> QED BY <1>3, <3>1, ConcatProperties
  <2>2. ASSUME NEW j \in 1 .. N
        PROVE  both[j] = out[j]
    <3>1. j \in 1 .. (N + n) /\ j <= N
      BY <1>1
    <3> QED BY <1>2, <1>3, <3>1, ConcatProperties
  <2>3. ASSUME NEW j \in 1 .. n
        PROVE  both[N + j] = AdRun(brk)[j]
    <3>1. N + j \in 1 .. (N + n) /\ ~(N + j <= N) /\ (N + j) - N = j
      BY <1>1
    <3> QED BY <1>2, <1>3, <3>1, ConcatProperties
  <2>4. Len(both) = N + n
    BY <1>2, <2>1
  <2> QED BY <1>2, <2>1, <2>2, <2>3, <2>4
<1>5. CASE end < Segs
  <2> DEFINE c == Content(end, TRUE)
  <2>1. c \in OutSegment
    BY <1>1 DEF Content, OutSegment
  <2>2. out' = both \o <<c>> /\ index' = end + 1
    BY <1>5 DEF InsertAds
  <2> HIDE DEF both, c
  <2>3. out' = Append(both, c)
    BY <1>4, <2>1, <2>2, AppendIsConcat
  <2>4. out' \in Seq(OutSegment) /\ Len(out') = N + n + 1
    BY <1>4, <2>1, <2>3, AppendProperties
  <2>5. out'[N + n + 1] = c
    BY <1>4, <2>1, <2>3, AppendProperties
  <2>6. \A j \in 1 .. (N + n) : out'[j] = both[j]
    BY <1>4, <2>1, <2>3, AppendProperties
  <2>7. \A j \in 1 .. N : out'[j] = out[j]
    <3>1. \A j \in 1 .. N : j \in 1 .. (N + n)
      BY <1>1
    <3> QED BY <1>4, <2>6, <3>1
  <2>8. \A j \in 1 .. n : out'[N + j] = AdSeg(brk - 1, j - 1, j = 1)
    <3>1. \A j \in 1 .. n : N + j \in 1 .. (N + n)
      BY <1>1
    <3> QED BY <1>4, <2>6, <3>1
  <2>9. DOMAIN out' = 1 .. (N + n + 1)
    BY <2>4
  <2> QED BY <1>1, <1>5, <2>2, <2>5, <2>7, <2>8, <2>9 DEF c
<1>6. CASE ~(end < Segs)
  <2>1. out' = both /\ index' = end
    BY <1>6 DEF InsertAds
  <2> HIDE DEF both
  <2>2. DOMAIN out' = 1 .. (N + n)
    BY <1>1, <1>4, <2>1
  <2>3. /\ \A j \in 1 .. N : out'[j] = out[j]
        /\ \A j \in 1 .. n : out'[N + j] = AdSeg(brk - 1, j - 1, j = 1)
    BY <1>4, <2>1
  <2> QED BY <1>1, <1>6, <2>1, <2>2, <2>3
<1> QED BY <1>5, <1>6

(* Between two steps the playlist holds the ads of the breaks passed.       *)
AdsPassed ==
  /\ phase \in {"detect", "ask"} => out = << >> /\ brk = 1
  /\ phase = "done" => brk = Len(breaks) + 1 /\ index = Segs
  /\ Interleaving =>
       /\ \A j \in DOMAIN out :
            out[j].ad => /\ out[j].brk + 1 \in 1 .. (brk - 1)
                         /\ out[j] \in AdsOf(out[j].brk + 1)
       /\ \A b \in 1 .. (brk - 1) : \A s \in AdsOf(b) : \E j \in DOMAIN out : out[j] = s
       /\ \A j, k \in DOMAIN out :
            j < k /\ out[j].ad /\ out[k].ad =>
              \/ out[j].brk < out[k].brk
              \/ out[j].brk = out[k].brk /\ out[j].seg < out[k].seg

LEMMA FreshAdsPassed == Fresh => AdsPassed
  BY DEF Fresh, AdsPassed, Interleaving

(* Content in the playlist changes nothing for the ads.                     *)
LEMMA AdsPassedContent ==
  ASSUME Inv, AdsPassed, Interleaving, out' = Append(out, Content(index, FALSE)),
         brk' = brk, phase' = "stitch", tags' = tags, breaks' = breaks, fill' = fill
  PROVE  AdsPassed'
<1> DEFINE N == Len(out)
<1>1. DOMAIN out' = 1 .. (N + 1) /\ DOMAIN out = 1 .. N /\ N \in Nat
  BY BreakFacts, ContentAppended DEF Inv
<1>0. \A j \in 1 .. N : out'[j] = out[j]
  BY ContentAppended DEF Inv
<1>9. ~out'[N + 1].ad
  BY ContentAppended, ContentFields DEF Inv
<1>2. \A b : AdsOf(b)' = AdsOf(b)
  BY Unmoved
<1> HIDE DEF N
<1>3. ASSUME NEW j \in DOMAIN out', out'[j].ad
      PROVE  j \in DOMAIN out /\ out'[j] = out[j]
  <2>1. j # N + 1
    BY <1>3, <1>9, Zenon
  <2>2. j \in 1 .. N
    BY <1>1, <2>1
  <2> QED BY <1>0, <1>1, <2>2
<1>4. \A j \in DOMAIN out : j \in DOMAIN out' /\ out'[j] = out[j]
  <2>1. \A j \in 1 .. N : j \in 1 .. (N + 1)
    BY <1>1
  <2> QED BY <1>0, <1>1, <2>1
<1>5. ASSUME NEW j \in DOMAIN out', out'[j].ad
      PROVE  out'[j].brk + 1 \in 1 .. (brk - 1) /\ out'[j] \in AdsOf(out'[j].brk + 1)
  BY <1>3, <1>5 DEF AdsPassed
<1>6. ASSUME NEW b \in 1 .. (brk - 1), NEW s \in AdsOf(b)
      PROVE  \E j \in DOMAIN out' : out'[j] = s
  <2>1. PICK j \in DOMAIN out : out[j] = s
    BY <1>6 DEF AdsPassed
  <2> QED BY <1>4, <2>1
<1>7. ASSUME NEW j \in DOMAIN out', NEW k \in DOMAIN out', j < k, out'[j].ad, out'[k].ad
      PROVE  \/ out'[j].brk < out'[k].brk
             \/ out'[j].brk = out'[k].brk /\ out'[j].seg < out'[k].seg
  <2>1. j \in DOMAIN out /\ k \in DOMAIN out /\ out'[j] = out[j] /\ out'[k] = out[k]
    BY <1>3, <1>7
  <2>2. out[j].ad /\ out[k].ad
    BY <1>7, <2>1, Zenon
  <2>3. \/ out[j].brk < out[k].brk
        \/ out[j].brk = out[k].brk /\ out[j].seg < out[k].seg
    BY <1>7, <2>1, <2>2 DEF AdsPassed
  <2> QED BY <2>1, <2>3, Zenon
<1> QED BY <1>2, <1>5, <1>6, <1>7 DEF AdsPassed, Interleaving

LEMMA AdsPassedInsert ==
  ASSUME Inv, AdsPassed, InsertAds
  PROVE  AdsPassed'
<1> DEFINE N == Len(out)
           n == fill[brk]
           end == breaks[brk].end
<1>0. /\ brk \in 1 .. Len(breaks) /\ n \in Nat /\ n > 0
      /\ \A j \in 1 .. N : out'[j] = out[j]
      /\ \A j \in 1 .. n : out'[N + j] = AdSeg(brk - 1, j - 1, j = 1)
      /\ end < Segs => /\ DOMAIN out' = 1 .. (N + n + 1)
                       /\ out'[N + n + 1] = Content(end, TRUE)
                       /\ index' = end + 1
      /\ ~(end < Segs) => DOMAIN out' = 1 .. (N + n) /\ index' = end
  BY AdsInserted
<1>1. brk \in 1 .. Len(breaks) /\ n \in Nat /\ n > 0
  BY <1>0
<1>a. \A j \in 1 .. N : out'[j] = out[j]
  BY <1>0
<1>b. \A j \in 1 .. n : out'[N + j] = AdSeg(brk - 1, j - 1, j = 1)
  BY <1>0
<1>c. \/ DOMAIN out' = 1 .. (N + n + 1) /\ ~out'[N + n + 1].ad
      \/ DOMAIN out' = 1 .. (N + n)
  <2>1. ~Content(end, TRUE).ad
    BY ContentFields
  <2> HIDE DEF N, n, end
  <2> QED BY <1>0, <2>1, Zenon
<1>2. /\ brk' = brk + 1 /\ phase' = "stitch" /\ Interleaving
      /\ tags' = tags /\ breaks' = breaks /\ fill' = fill
  BY DEF InsertAds, AtBreak, Interleaving
<1>3. N \in Nat /\ DOMAIN out = 1 .. N /\ brk \in Nat
  BY BreakFacts
<1>4. AdsOf(brk) = {AdSeg(brk - 1, i - 1, i = 1) : i \in 1 .. n}
  BY DEF AdsOf
<1>5. \A b : AdsOf(b)' = AdsOf(b)
  BY <1>2, Unmoved
<1> HIDE DEF N, n, end
<1>6. \A j \in DOMAIN out' :
        out'[j].ad =>
          \/ j \in 1 .. N /\ out'[j] = out[j]
          \/ \E i \in 1 .. n : j = N + i /\ out'[j] = AdSeg(brk - 1, i - 1, i = 1)
  <2> SUFFICES ASSUME NEW j \in DOMAIN out', out'[j].ad, j \notin 1 .. N
               PROVE  \E i \in 1 .. n : j = N + i /\ out'[j] = AdSeg(brk - 1, i - 1, i = 1)
    BY <1>a
  <2>1. j \in (N + 1) .. (N + n)
    <3>1. CASE DOMAIN out' = 1 .. (N + n + 1) /\ ~out'[N + n + 1].ad
      <4>1. j # N + n + 1 /\ j \in 1 .. (N + n + 1)
        BY <3>1, Zenon
      <4> QED BY <1>1, <1>3, <4>1
    <3>2. CASE DOMAIN out' = 1 .. (N + n)
      <4>1. j \in 1 .. (N + n)
        BY <3>2, Zenon
      <4> QED BY <1>1, <1>3, <4>1
    <3> QED BY <1>c, <3>1, <3>2
  <2>2. j - N \in 1 .. n /\ j = N + (j - N)
    BY <1>1, <1>3, <2>1
  <2>3. out'[N + (j - N)] = AdSeg(brk - 1, (j - N) - 1, (j - N) = 1)
    BY <1>b, <2>2, Zenon
  <2> QED BY <2>2, <2>3
<1>7. /\ \A j \in 1 .. N : j \in DOMAIN out'
      /\ \A i \in 1 .. n : N + i \in DOMAIN out'
  <2>1. /\ \A j \in 1 .. N : j \in 1 .. (N + n) /\ j \in 1 .. (N + n + 1)
        /\ \A i \in 1 .. n : N + i \in 1 .. (N + n) /\ N + i \in 1 .. (N + n + 1)
    BY <1>1, <1>3
  <2> QED BY <1>c, <2>1
<1>8. ASSUME NEW j \in DOMAIN out', out'[j].ad
      PROVE  out'[j].brk + 1 \in 1 .. brk /\ out'[j] \in AdsOf(out'[j].brk + 1)
  <2>1. CASE j \in 1 .. N /\ out'[j] = out[j]
    <3>1. out[j].brk + 1 \in 1 .. (brk - 1) /\ out[j] \in AdsOf(out[j].brk + 1)
      BY <1>2, <1>3, <1>8, <2>1 DEF AdsPassed
    <3> QED BY <1>3, <2>1, <3>1
  <2>2. CASE \E i \in 1 .. n : j = N + i /\ out'[j] = AdSeg(brk - 1, i - 1, i = 1)
    <3>1. PICK i \in 1 .. n : out'[j] = AdSeg(brk - 1, i - 1, i = 1)
      BY <2>2
    <3>2. out'[j].brk + 1 = brk
      BY <1>3, <3>1, AdFields
    <3>3. out'[j] \in AdsOf(brk)
      BY <1>4, <3>1
    <3> QED BY <1>1, <1>3, <3>2, <3>3
  <2> QED BY <1>6, <1>8, <2>1, <2>2
<1>9. ASSUME NEW b \in 1 .. brk, NEW s \in AdsOf(b)
      PROVE  \E j \in DOMAIN out' : out'[j] = s
  <2>1. CASE b = brk
    <3>1. PICK i \in 1 .. n : s = AdSeg(brk - 1, i - 1, i = 1)
      BY <1>4, <1>9, <2>1
    <3> QED BY <1>b, <1>7, <3>1
  <2>2. CASE b # brk
    <3>1. b \in 1 .. (brk - 1)
      BY <1>3, <2>2
    <3>2. PICK j \in DOMAIN out : out[j] = s
      BY <1>2, <1>9, <3>1 DEF AdsPassed
    <3> QED BY <1>a, <1>3, <1>7, <3>2
  <2> QED BY <2>1, <2>2
<1>10. ASSUME NEW j \in DOMAIN out', NEW k \in DOMAIN out', j < k, out'[j].ad, out'[k].ad
       PROVE  \/ out'[j].brk < out'[k].brk
              \/ out'[j].brk = out'[k].brk /\ out'[j].seg < out'[k].seg
  <2>0. j \in Int /\ k \in Int
    <3>1. 1 .. (N + n) \subseteq Int /\ 1 .. (N + n + 1) \subseteq Int
      BY <1>1, <1>3
    <3> QED BY <1>c, <3>1
  <2>1. CASE k \in 1 .. N /\ out'[k] = out[k]
    <3>1. j \in 1 .. N
      <4>1. j \in 1 .. N \/ \E i \in 1 .. n : j = N + i
        BY <1>6, <1>10
      <4> QED BY <1>1, <1>3, <1>10, <2>0, <2>1, <4>1
    <3>2. j \in DOMAIN out /\ k \in DOMAIN out /\ out'[j] = out[j]
      BY <1>a, <1>3, <2>1, <3>1
    <3> QED BY <1>2, <1>10, <2>1, <3>2 DEF AdsPassed
  <2>2. ASSUME NEW i \in 1 .. n, k = N + i, out'[k] = AdSeg(brk - 1, i - 1, i = 1)
        PROVE  \/ out'[j].brk < out'[k].brk
               \/ out'[j].brk = out'[k].brk /\ out'[j].seg < out'[k].seg
    <3>1. out'[k].brk = brk - 1 /\ out'[k].seg = i - 1
      BY <2>2, AdFields
    <3>2. CASE j \in 1 .. N /\ out'[j] = out[j]
      <4>1. out[j].brk + 1 \in 1 .. (brk - 1)
        BY <1>2, <1>3, <1>10, <3>2 DEF AdsPassed
      <4>2. out[j].brk \in Int
        <5>1. out[j] \in OutSegment
          BY <1>3, <3>2 DEF Inv, TypeOK
        <5> QED BY <5>1 DEF OutSegment
      <4> QED BY <1>3, <3>1, <3>2, <4>1, <4>2
    <3>3. ASSUME NEW h \in 1 .. n, j = N + h, out'[j] = AdSeg(brk - 1, h - 1, h = 1)
          PROVE  out'[j].brk = out'[k].brk /\ out'[j].seg < out'[k].seg
      <4>1. out'[j].brk = brk - 1 /\ out'[j].seg = h - 1
        BY <3>3, AdFields
      <4>2. h < i
        BY <1>1, <1>3, <1>10, <2>2, <3>3
      <4> QED BY <3>1, <4>1, <4>2
    <3> QED BY <1>6, <1>10, <3>2, <3>3
  <2> QED BY <1>6, <1>10, <2>1, <2>2
<1>11. 1 .. (brk' - 1) = 1 .. brk
  BY <1>2, <1>3
<1> QED BY <1>2, <1>5, <1>8, <1>9, <1>10, <1>11 DEF AdsPassed, Interleaving

LEMMA AdsPassedStep == Inv /\ AdsPassed /\ [Next]_vars => AdsPassed'
<1> SUFFICES ASSUME Inv, AdsPassed, [Next]_vars PROVE AdsPassed'
  OBVIOUS
<1>1. CASE Detect
  <2>1. phase = "detect" /\ phase' \in {"detect", "ask"} /\ out' = out /\ brk' = brk
    BY <1>1 DEF Detect, CueIn, CueOut, OtherTag, AtTag, NextTag, NextSegment, EndOfPlaylist
  <2> QED BY <2>1 DEF AdsPassed, Interleaving
<1>2. CASE AskAds
  <2>1. phase' = "stitch" /\ out' = << >> /\ brk' = 1
    BY <1>2 DEF AskAds, AdsPassed
  <2> QED BY <2>1 DEF AdsPassed, Interleaving
<1>3. CASE Mark
  <2>1. phase' \in {"mark", "marked"}
    BY <1>3 DEF Mark, MarkBreak, StripCues, EnsureDates
  <2> QED BY <2>1 DEF AdsPassed, Interleaving
<1>4. CASE CopyBefore
  BY <1>4, AdsPassedContent DEF CopyBefore, Interleaving
<1>5. CASE CopyRest
  BY <1>5, AdsPassedContent DEF CopyRest, Interleaving
<1>6. CASE InsertAds
  BY <1>6, AdsPassedInsert
<1>7. CASE SkipEmptyBreak
  <2>1. /\ brk' = brk + 1 /\ phase = "stitch" /\ phase' = "stitch" /\ fill[brk] = 0
        /\ tags' = tags /\ breaks' = breaks /\ fill' = fill /\ out' = out
    BY <1>7 DEF SkipEmptyBreak, AtBreak
  <2>2. AdsOf(brk) = {} /\ \A b : AdsOf(b)' = AdsOf(b)
    BY <2>1, Unmoved DEF AdsOf
  <2>3. brk \in Nat
    BY BreakFacts
  <2>4. \A b \in 1 .. (brk' - 1) : b \in 1 .. (brk - 1) \/ b = brk
    BY <2>1, <2>3
  <2>5. \A b \in 1 .. (brk - 1) : b \in 1 .. (brk' - 1)
    BY <2>1, <2>3
  <2> QED BY <2>1, <2>2, <2>4, <2>5 DEF AdsPassed, Interleaving
<1>8. CASE Finish
  <2>1. /\ phase = "stitch" /\ phase' = "done" /\ brk > Len(breaks) /\ index >= Segs
        /\ UNCHANGED <<tags, breaks, fill, out, brk, index>>
    BY <1>8 DEF Finish
  <2>2. brk = Len(breaks) + 1 /\ index = Segs
    BY <2>1, BreakFacts
  <2>3. (\A b : AdsOf(b)' = AdsOf(b)) /\ Segs' = Segs
    BY <2>1, Unmoved
  <2> QED BY <2>1, <2>2, <2>3 DEF AdsPassed, Interleaving
<1>9. CASE UNCHANGED vars
  <2>1. UNCHANGED <<tags, phase, index, breaks, fill, out, brk>>
    BY <1>9 DEF vars
  <2>2. (\A b : AdsOf(b)' = AdsOf(b)) /\ Segs' = Segs
    BY <2>1, Unmoved
  <2> QED BY <2>1, <2>2 DEF AdsPassed, Interleaving
<1> QED BY <1>1, <1>2, <1>3, <1>4, <1>5, <1>6, <1>7, <1>8, <1>9 DEF Next, Stitch

LEMMA AdsPassedInvariant == Spec => []AdsPassed
  BY InitFresh, FreshAdsPassed, AdsPassedStep, StitchInvariant, PTL DEF Spec

LEMMA AdsInOrderIf == Inv /\ AdsPassed => AdsInOrder
<1> SUFFICES ASSUME Inv, AdsPassed, phase = "done" PROVE AdsInOrder
  BY DEF AdsInOrder
<1>1. 1 .. (brk - 1) = DOMAIN breaks /\ Interleaving
  BY BreakFacts DEF AdsPassed, Interleaving
<1>2. ASSUME NEW j \in DOMAIN out, out[j].ad
      PROVE  out[j] \in UNION {AdsOf(b) : b \in DOMAIN breaks}
  BY <1>1, <1>2 DEF AdsPassed
<1>3. ASSUME NEW b \in DOMAIN breaks, NEW s \in AdsOf(b)
      PROVE  s \in {out[j] : j \in {k \in DOMAIN out : out[k].ad}}
  <2>1. PICK j \in DOMAIN out : out[j] = s
    BY <1>1, <1>3 DEF AdsPassed
  <2>2. s.ad
    BY <1>3, AdFields DEF AdsOf
  <2> QED BY <2>1, <2>2
<1> QED BY <1>1, <1>2, <1>3 DEF AdsPassed, AdsInOrder

(* Every ad of every break is in the finished playlist once and in order,   *)
(* and only the first of a break is marked, whatever the breaks.            *)
THEOREM AdsAreInOrder == Spec => []AdsInOrder
<1> QED BY AdsInOrderIf, AdsPassedInvariant, StitchInvariant, PTL

-----------------------------------------------------------------------------
(* With breaks apart from each other: the scan is past every break filled   *)
(* and not yet past the start of the others, and the playlist is what it is *)
(* meant to be as far as the scan has come.                                 *)
Between ==
  \A b \in 1 .. Len(breaks) : Filled(b) =>
    /\ b < brk => /\ breaks[b].end <= index
                  /\ index < Segs => breaks[b].end < index
    /\ b >= brk => index <= breaks[b].start

ContentSoFar ==
  /\ \A j \in DOMAIN out :
       ~out[j].ad => /\ out[j].seg \in 0 .. (index - 1)
                     /\ ~InFilled(out[j].seg)
                     /\ out[j] = ContentOf(out[j].seg)
  /\ \A i \in 0 .. (index - 1) :
       ~InFilled(i) => \E j \in DOMAIN out : out[j] = ContentOf(i)

InOrderSoFar == \A j, k \in DOMAIN out : j < k => Earlier(out[j], out[k])

IntendedSoFar ==
  Interleaving /\ Separated => Between /\ ContentSoFar /\ InOrderSoFar

(* A segment outside, and not right behind, the filled breaks.              *)
LEMMA PlainContent ==
  ASSUME Inv, NEW i \in Nat,
         \A b \in 1 .. Len(breaks) :
           Filled(b) => breaks[b].end < i \/ i < breaks[b].start
  PROVE  ~InFilled(i) /\ ContentOf(i) = Content(i, FALSE)
<1>1. /\ DOMAIN breaks = 1 .. Len(breaks)
      /\ \A b \in 1 .. Len(breaks) :
           /\ breaks[b].start \in Nat /\ breaks[b].end \in Nat
           /\ breaks[b].start <= breaks[b].end
  BY BreakFacts
<1>2. ~InFilled(i)
  BY <1>1 DEF InFilled
<1>3. ~\E b \in DOMAIN breaks : Filled(b) /\ breaks[b].end = i
  BY <1>1
<1>4. (\E b \in DOMAIN breaks : Filled(b) /\ breaks[b].end = i) = FALSE
  BY <1>3
<1>5. ContentOf(i) = Content(i, FALSE)
  BY <1>4, Zenon DEF ContentOf
<1> QED BY <1>2, <1>5

(* Where an element of the playlist belongs lies behind the scan.           *)
LEMMA PlacedBehind ==
  ASSUME Inv, AdsPassed, Interleaving, Between, ContentSoFar, NEW j \in DOMAIN out
  PROVE  /\ Position(out[j]) \in Int
         /\ out[j].ad =>
              \E b \in 1 .. Len(breaks) :
                b < brk /\ Filled(b) /\ Position(out[j]) = breaks[b].start
         /\ ~out[j].ad => Position(out[j]) < index
<1>1. /\ Segs \in Nat /\ index \in 0 .. Segs /\ Len(breaks) \in Nat
      /\ brk \in 1 .. (Len(breaks) + 1)
      /\ \A b \in 1 .. Len(breaks) : breaks[b].start \in 0 .. Segs
  BY BreakFacts
<1>2. CASE out[j].ad
  <2> DEFINE b == out[j].brk + 1
  <2>1. b \in 1 .. (brk - 1) /\ out[j] \in AdsOf(b)
    BY <1>2 DEF AdsPassed
  <2>2. fill[b] \in Nat
    BY <1>1, <2>1, BreakFacts
  <2>3. Filled(b)
    <3>1. PICK i \in 1 .. fill[b] : TRUE
      BY <2>1 DEF AdsOf
    <3> QED BY <2>2, <3>1 DEF Filled
  <2>4. Position(out[j]) = breaks[b].start
    BY <1>2 DEF Position
  <2> HIDE DEF b
  <2>5. b \in 1 .. Len(breaks) /\ b < brk
    BY <1>1, <2>1
  <2> QED BY <1>1, <1>2, <2>3, <2>4, <2>5
<1>3. CASE ~out[j].ad
  <2>1. Position(out[j]) = out[j].seg /\ out[j].seg \in 0 .. (index - 1)
    BY <1>3 DEF ContentSoFar, Position
  <2> QED BY <1>1, <1>3, <2>1
<1> QED BY <1>2, <1>3

(* Content under the scan goes where it belongs: outside the filled breaks. *)
LEMMA IntendedContent ==
  ASSUME Inv, AdsPassed, IntendedSoFar, Interleaving, Separated,
         out' = Append(out, Content(index, FALSE)), index' = index + 1, brk' = brk,
         tags' = tags, breaks' = breaks, fill' = fill, index < Segs,
         \A b \in 1 .. Len(breaks) : b >= brk => index < breaks[b].start
  PROVE  (Between /\ ContentSoFar /\ InOrderSoFar)'
<1> DEFINE N == Len(out)
           c == Content(index, FALSE)
<1>1. /\ Segs \in Nat /\ index \in Nat /\ Len(breaks) \in Nat /\ brk \in Nat
      /\ N \in Nat /\ DOMAIN out = 1 .. N
  BY BreakFacts
<1>2. \A b \in 1 .. Len(breaks) :
        /\ breaks[b].start \in 0 .. Segs /\ breaks[b].end \in 0 .. Segs
        /\ breaks[b].start <= breaks[b].end
  BY BreakFacts
<1>3. Between /\ ContentSoFar /\ InOrderSoFar
  BY DEF IntendedSoFar
<1>4. \A b \in 1 .. Len(breaks) :
        Filled(b) => breaks[b].end < index \/ index < breaks[b].start
  <2> SUFFICES ASSUME NEW b \in 1 .. Len(breaks), Filled(b)
               PROVE  breaks[b].end < index \/ index < breaks[b].start
    OBVIOUS
  <2>1. CASE b < brk
    BY <1>3, <2>1 DEF Between
  <2>2. CASE b >= brk
    BY <2>2
  <2> QED BY <1>1, <2>1, <2>2
<1>5. ~InFilled(index) /\ ContentOf(index) = c
  BY <1>1, <1>4, PlainContent
<1>6. /\ Segs' = Segs /\ Len(breaks)' = Len(breaks)
      /\ \A b : Filled(b)' <=> Filled(b)
      /\ \A i : ContentOf(i)' = ContentOf(i) /\ (InFilled(i)' <=> InFilled(i))
      /\ \A s, t : Earlier(s, t)' <=> Earlier(s, t)
  BY Unmoved
<1>7. Between'
  <2> SUFFICES ASSUME NEW b \in 1 .. Len(breaks), Filled(b)
               PROVE  /\ b < brk => /\ breaks[b].end <= index + 1
                                    /\ breaks[b].end < index + 1
                      /\ b >= brk => index + 1 <= breaks[b].start
    BY <1>6 DEF Between
  <2>1. breaks[b].start \in Nat /\ breaks[b].end \in Nat
    BY <1>2
  <2>2. b < brk => breaks[b].end <= index
    BY <1>3 DEF Between
  <2> QED BY <1>1, <2>1, <2>2
<1>8. DOMAIN out' = 1 .. (N + 1)
  BY ContentAppended DEF Inv
<1>9. out'[N + 1] = c /\ ~c.ad /\ c.seg = index
  BY ContentAppended, ContentFields DEF Inv
<1>10. \A j \in 1 .. N : out'[j] = out[j]
  BY ContentAppended DEF Inv
<1> HIDE DEF N, c
<1>11. ASSUME NEW j \in DOMAIN out'
       PROVE  (j \in DOMAIN out /\ out'[j] = out[j]) \/ j = N + 1
  <2>1. j \in 1 .. N \/ j = N + 1
    BY <1>1, <1>8
  <2> QED BY <1>1, <1>10, <2>1
<1>12. ContentSoFar'
  <2>1. ASSUME NEW j \in DOMAIN out', ~out'[j].ad
        PROVE  /\ out'[j].seg \in 0 .. index
               /\ ~InFilled(out'[j].seg)
               /\ out'[j] = ContentOf(out'[j].seg)
    <3>1. CASE j = N + 1
      <4>1. out'[j].seg = index /\ out'[j] = c
        BY <1>9, <3>1, Zenon
      <4>2. index \in 0 .. index
        BY <1>1
      <4> QED BY <1>5, <4>1, <4>2, Zenon
    <3>2. CASE j \in DOMAIN out /\ out'[j] = out[j]
      <4>1. ~out[j].ad
        BY <2>1, <3>2, Zenon
      <4>2. /\ out[j].seg \in 0 .. (index - 1)
            /\ ~InFilled(out[j].seg)
            /\ out[j] = ContentOf(out[j].seg)
        BY <1>3, <3>2, <4>1 DEF ContentSoFar
      <4>3. out[j].seg \in 0 .. index
        BY <1>1, <4>2
      <4> QED BY <3>2, <4>2, <4>3
    <3> QED BY <1>11, <2>1, <3>1, <3>2
  <2>2. ASSUME NEW i \in 0 .. index, ~InFilled(i)
        PROVE  \E j \in DOMAIN out' : out'[j] = ContentOf(i)
    <3>1. CASE i = index
      <4>1. N + 1 \in DOMAIN out'
        BY <1>1, <1>8
      <4> QED BY <1>5, <1>9, <3>1, <4>1
    <3>2. CASE i # index
      <4>1. i \in 0 .. (index - 1)
        BY <1>1, <3>2
      <4>2. PICK j \in DOMAIN out : out[j] = ContentOf(i)
        BY <1>3, <2>2, <4>1 DEF ContentSoFar
      <4>3. j \in DOMAIN out'
        BY <1>1, <1>8
      <4> QED BY <1>1, <1>10, <4>2, <4>3
    <3> QED BY <3>1, <3>2
  <2>3. 0 .. (index' - 1) = 0 .. index
    BY <1>1
  <2> QED BY <1>6, <2>1, <2>2, <2>3 DEF ContentSoFar
<1>13. InOrderSoFar'
  <2> SUFFICES ASSUME NEW j \in DOMAIN out', NEW k \in DOMAIN out', j < k
               PROVE  Earlier(out'[j], out'[k])
    BY <1>6 DEF InOrderSoFar
  <2>1. j \in DOMAIN out /\ out'[j] = out[j]
    <3>1. j \in 1 .. (N + 1) /\ k \in 1 .. (N + 1)
      BY <1>8
    <3>2. j \in 1 .. N
      BY <1>1, <3>1
    <3> QED BY <1>1, <1>10, <3>2
  <2>2. CASE k \in DOMAIN out /\ out'[k] = out[k]
    BY <1>3, <2>1, <2>2 DEF InOrderSoFar
  <2>3. CASE k = N + 1
    <3>1. Position(c) = index
      BY <1>9 DEF Position
    <3>2. Position(out[j]) < index
      <4>1. CASE ~out[j].ad
        BY <1>3, <2>1, <4>1, PlacedBehind
      <4>2. CASE out[j].ad
        <5>1. PICK b \in 1 .. Len(breaks) :
                b < brk /\ Filled(b) /\ Position(out[j]) = breaks[b].start
          BY <1>3, <2>1, <4>2, PlacedBehind
        <5>2. breaks[b].end < index
          BY <1>3, <5>1 DEF Between
        <5> QED BY <1>1, <1>2, <5>1, <5>2
      <4> QED BY <4>1, <4>2
    <3> QED BY <1>9, <2>1, <2>3, <3>1, <3>2 DEF Earlier
  <2> QED BY <1>11, <2>2, <2>3
<1> QED BY <1>7, <1>12, <1>13

(* The ads of a break go in where it starts, and the content at its end     *)
(* right behind them.                                                       *)
LEMMA IntendedInsert ==
  ASSUME Inv, AdsPassed, IntendedSoFar, Interleaving, Separated, InsertAds
  PROVE  (Between /\ ContentSoFar /\ InOrderSoFar)'
<1> DEFINE N == Len(out)
           n == fill[brk]
           start == breaks[brk].start
           end == breaks[brk].end
           c == Content(end, TRUE)
<1>0. /\ brk \in 1 .. Len(breaks) /\ n \in Nat /\ n > 0
      /\ \A j \in 1 .. N : out'[j] = out[j]
      /\ \A j \in 1 .. n : out'[N + j] = AdSeg(brk - 1, j - 1, j = 1)
      /\ end < Segs => /\ DOMAIN out' = 1 .. (N + n + 1)
                       /\ out'[N + n + 1] = c
                       /\ index' = end + 1
      /\ ~(end < Segs) => DOMAIN out' = 1 .. (N + n) /\ index' = end
  BY AdsInserted
<1>1. /\ Segs \in Nat /\ index \in 0 .. Segs /\ Len(breaks) \in Nat
      /\ brk \in 1 .. Len(breaks) /\ n \in Nat /\ N \in Nat /\ DOMAIN out = 1 .. N
  BY <1>0, BreakFacts
<1>2. \A b \in 1 .. Len(breaks) :
        /\ breaks[b].start \in 0 .. Segs /\ breaks[b].end \in 0 .. Segs
        /\ breaks[b].start <= breaks[b].end
  BY BreakFacts
<1>3. start \in 0 .. Segs /\ end \in 0 .. Segs /\ start <= end
  BY <1>1, <1>2
<1>4. brk' = brk + 1 /\ tags' = tags /\ breaks' = breaks /\ fill' = fill
  BY DEF InsertAds
<1>5. /\ Segs' = Segs /\ Len(breaks)' = Len(breaks)
      /\ \A b : Filled(b)' <=> Filled(b)
      /\ \A i : ContentOf(i)' = ContentOf(i) /\ (InFilled(i)' <=> InFilled(i))
      /\ \A s, t : Earlier(s, t)' <=> Earlier(s, t)
  BY <1>4, Unmoved
<1>6. Between /\ ContentSoFar /\ InOrderSoFar
  BY DEF IntendedSoFar
<1>7. Filled(brk)
  BY <1>0 DEF Filled
<1>8. index = start
  <2>1. ~(index < start /\ index < Segs)
    BY DEF InsertAds, AtBreak
  <2>2. index <= start
    BY <1>1, <1>6, <1>7 DEF Between
  <2> QED BY <1>1, <1>3, <2>1, <2>2
<1>9. \A b \in 1 .. Len(breaks) : Filled(b) /\ b < brk => breaks[b].end < start
  <2>1. DOMAIN breaks = 1 .. Len(breaks)
    BY BreakFacts
  <2> QED BY <1>1, <1>7, <2>1 DEF Separated
<1>10. \A b \in 1 .. Len(breaks) : Filled(b) /\ b > brk => end < breaks[b].start
  <2>1. DOMAIN breaks = 1 .. Len(breaks)
    BY BreakFacts
  <2> QED BY <1>1, <1>7, <2>1 DEF Separated
<1>11. /\ \A j \in 1 .. N : out'[j] = out[j]
       /\ \A j \in 1 .. n : out'[N + j] = AdSeg(brk - 1, j - 1, j = 1)
  BY <1>0
<1>12. \/ end < Segs /\ DOMAIN out' = 1 .. (N + n + 1) /\ out'[N + n + 1] = c
          /\ index' = end + 1
       \/ end = Segs /\ DOMAIN out' = 1 .. (N + n) /\ index' = end
  <2> HIDE DEF N, n, end, start, c
  <2>1. end < Segs \/ (end = Segs /\ ~(end < Segs))
    <3>1. Segs \in Nat /\ end \in 0 .. Segs
      BY <1>1, <1>3
    <3> QED BY <3>1
  <2> QED BY <1>0, <2>1, Zenon
<1>13. ~c.ad /\ c.seg = end
  BY ContentFields
<1>14. end < Segs => ~InFilled(end) /\ ContentOf(end) = c
  <2> SUFFICES ASSUME end < Segs PROVE ~InFilled(end) /\ ContentOf(end) = c
    OBVIOUS
  <2>0. DOMAIN breaks = 1 .. Len(breaks)
    BY BreakFacts
  <2>1. ASSUME NEW b \in 1 .. Len(breaks), Filled(b)
        PROVE  ~(breaks[b].start <= end /\ end < breaks[b].end)
    <3>1. b < brk \/ b = brk \/ b > brk
      BY <1>1
    <3>2. breaks[b].start \in Nat /\ breaks[b].end \in Nat
      BY <1>2
    <3>3. CASE b < brk
      <4>1. breaks[b].end < start
        BY <1>9, <2>1, <3>3
      <4> QED BY <1>3, <3>2, <4>1
    <3>4. CASE b > brk
      <4>1. end < breaks[b].start
        BY <1>10, <2>1, <3>4
      <4> QED BY <1>3, <3>2, <4>1
    <3>5. CASE b = brk
      BY <1>3, <3>5
    <3> QED BY <3>1, <3>3, <3>4, <3>5
  <2>2. ~InFilled(end)
    BY <2>0, <2>1 DEF InFilled
  <2>3. (\E b \in DOMAIN breaks : Filled(b) /\ breaks[b].end = end) = TRUE
    BY <1>1, <1>7, <2>0
  <2>4. ContentOf(end) = c
    <3> HIDE DEF end
    <3> QED BY <2>3, Zenon DEF ContentOf
  <2> QED BY <2>2, <2>4
<1>15. \A i : start <= i /\ i < end => InFilled(i)
  <2>1. DOMAIN breaks = 1 .. Len(breaks)
    BY BreakFacts
  <2> QED BY <1>1, <1>7, <2>1 DEF InFilled
<1>16. \A j \in 1 .. n :
         /\ out'[N + j].ad /\ out'[N + j].seg = j - 1
         /\ (Position(out'[N + j]) = start)
  <2> SUFFICES ASSUME NEW j \in 1 .. n
               PROVE  /\ out'[N + j].ad /\ out'[N + j].seg = j - 1
                      /\ Position(out'[N + j]) = start
    OBVIOUS
  <2>1. out'[N + j] = AdSeg(brk - 1, j - 1, j = 1)
    BY <1>11
  <2>2. (brk - 1) + 1 = brk
    BY <1>1
  <2> QED BY <2>1, <2>2, AdFields DEF Position
<1>17. \A j \in DOMAIN out : Position(out[j]) \in Int /\ Position(out[j]) < start
  <2> SUFFICES ASSUME NEW j \in DOMAIN out
               PROVE  Position(out[j]) \in Int /\ Position(out[j]) < start
    OBVIOUS
  <2>1. CASE ~out[j].ad
    BY <1>6, <1>8, <2>1, PlacedBehind
  <2>2. CASE out[j].ad
    <3>1. PICK b \in 1 .. Len(breaks) :
            b < brk /\ Filled(b) /\ Position(out[j]) = breaks[b].start
      BY <1>6, <2>2, PlacedBehind
    <3>2. breaks[b].end < start
      BY <1>9, <3>1
    <3> QED BY <1>2, <1>3, <3>1, <3>2
  <2> QED BY <2>1, <2>2
<1>18. end <= index' /\ index' \in Int /\ index <= end /\ (index' < Segs => end < index')
  <2> HIDE DEF N, n, end, start, c
  <2>1. index' = end + 1 \/ (index' = end /\ end = Segs)
    BY <1>12
  <2>2. end \in Int /\ start \in Int /\ Segs \in Int /\ start <= end
    BY <1>1, <1>3
  <2> QED BY <1>8, <2>1, <2>2
<1>19. Between'
  <2> SUFFICES ASSUME NEW b \in 1 .. Len(breaks), Filled(b)
               PROVE  /\ b < brk + 1 => /\ breaks[b].end <= index'
                                        /\ index' < Segs => breaks[b].end < index'
                      /\ b >= brk + 1 => index' <= breaks[b].start
    BY <1>4, <1>5 DEF Between
  <2>0. breaks[b].start \in 0 .. Segs /\ breaks[b].end \in 0 .. Segs
    BY <1>2
  <2>1. CASE b < brk
    <3>1. breaks[b].end < start
      BY <1>9, <2>1
    <3>2. b < brk + 1 /\ ~(b >= brk + 1)
      BY <1>1, <2>1
    <3>3. breaks[b].end < end
      <4> HIDE DEF start, end
      <4> QED BY <1>3, <2>0, <3>1
    <3>4. breaks[b].end < index'
      <4> HIDE DEF start, end
      <4> QED BY <1>3, <1>18, <2>0, <3>3
    <3> QED BY <1>18, <2>0, <3>2, <3>4
  <2>2. CASE b = brk
    BY <1>1, <1>3, <1>18, <2>2
  <2>3. CASE b > brk
    <3>1. end < breaks[b].start
      BY <1>10, <2>3
    <3>2. index' <= breaks[b].start
      <4> HIDE DEF N, n, end, start, c
      <4>1. index' = end + 1 \/ index' = end
        BY <1>12
      <4> QED BY <1>3, <2>0, <3>1, <4>1
    <3> QED BY <1>1, <2>3, <3>2
  <2> QED BY <1>1, <2>1, <2>2, <2>3
<1> HIDE DEF N, n, start, end, c
<1>20. ASSUME NEW j \in DOMAIN out'
       PROVE  \/ j \in DOMAIN out /\ out'[j] = out[j]
              \/ \E i \in 1 .. n : j = N + i
              \/ end < Segs /\ j = N + n + 1 /\ out'[j] = c
  <2>1. j \in 1 .. (N + n) \/ (end < Segs /\ j = N + n + 1 /\ out'[N + n + 1] = c)
    <3>1. CASE end < Segs /\ DOMAIN out' = 1 .. (N + n + 1) /\ out'[N + n + 1] = c
      <4>1. j \in 1 .. (N + n + 1)
        BY <3>1, Zenon
      <4> QED BY <1>1, <3>1, <4>1
    <3>2. CASE DOMAIN out' = 1 .. (N + n)
      BY <3>2, Zenon
    <3> QED BY <1>12, <3>1, <3>2
  <2>2. CASE j \in 1 .. (N + n)
    <3>1. j \in 1 .. N \/ (j - N \in 1 .. n /\ j = N + (j - N))
      BY <1>1, <2>2
    <3>2. CASE j \in 1 .. N
      BY <1>1, <1>11, <3>2
    <3>3. CASE j - N \in 1 .. n /\ j = N + (j - N)
      BY <3>3, Zenon
    <3> QED BY <3>1, <3>2, <3>3
  <2>3. CASE end < Segs /\ j = N + n + 1 /\ out'[N + n + 1] = c
    BY <2>3
  <2> QED BY <2>1, <2>2, <2>3
<1>21. /\ \A j \in 1 .. N : j \in DOMAIN out'
       /\ end < Segs => N + n + 1 \in DOMAIN out' /\ out'[N + n + 1] = c
  <2>1. /\ \A j \in 1 .. N : j \in 1 .. (N + n) /\ j \in 1 .. (N + n + 1)
        /\ N + n + 1 \in 1 .. (N + n + 1)
    BY <1>1
  <2>2. end = Segs => ~(end < Segs)
    BY <1>1
  <2> QED BY <1>12, <2>1, <2>2, Zenon
<1>22. ContentSoFar'
  <2>1. ASSUME NEW j \in DOMAIN out', ~out'[j].ad
        PROVE  /\ out'[j].seg \in 0 .. (index' - 1)
               /\ ~InFilled(out'[j].seg)
               /\ out'[j] = ContentOf(out'[j].seg)
    <3>1. CASE j \in DOMAIN out /\ out'[j] = out[j]
      <4>1. ~out[j].ad
        BY <2>1, <3>1, Zenon
      <4>2. /\ out[j].seg \in 0 .. (index - 1)
            /\ ~InFilled(out[j].seg)
            /\ out[j] = ContentOf(out[j].seg)
        BY <1>6, <3>1, <4>1 DEF ContentSoFar
      <4>3. out[j].seg \in 0 .. (index' - 1)
        BY <1>1, <1>3, <1>18, <4>2
      <4> QED BY <3>1, <4>2, <4>3
    <3>2. CASE \E i \in 1 .. n : j = N + i
      BY <1>16, <2>1, <3>2, Zenon
    <3>3. CASE end < Segs /\ j = N + n + 1 /\ out'[j] = c
      <4>1. out'[j].seg = end
        BY <1>13, <3>3, Zenon
      <4>2. end \in 0 .. (index' - 1)
        <5>1. end # Segs
          BY <1>1, <3>3
        <5>2. index' = end + 1
          BY <1>12, <5>1
        <5> QED BY <1>1, <1>3, <5>2
      <4> QED BY <1>14, <3>3, <4>1, <4>2, Zenon
    <3> QED BY <1>20, <3>1, <3>2, <3>3
  <2>2. ASSUME NEW i \in 0 .. (index' - 1), ~InFilled(i)
        PROVE  \E j \in DOMAIN out' : out'[j] = ContentOf(i)
    <3>1. i \in 0 .. (index - 1) \/ (start <= i /\ i < end) \/ (i = end /\ end < Segs)
      BY <1>1, <1>3, <1>8, <1>12
    <3>2. CASE i \in 0 .. (index - 1)
      <4>1. PICK j \in DOMAIN out : out[j] = ContentOf(i)
        BY <1>6, <2>2, <3>2 DEF ContentSoFar
      <4> QED BY <1>1, <1>11, <1>21, <4>1
    <3>3. CASE start <= i /\ i < end
      BY <1>15, <2>2, <3>3
    <3>4. CASE i = end /\ end < Segs
      BY <1>14, <1>21, <3>4, Zenon
    <3> QED BY <3>1, <3>2, <3>3, <3>4
  <2> QED BY <1>5, <2>1, <2>2 DEF ContentSoFar
<1>23. InOrderSoFar'
  <2> SUFFICES ASSUME NEW j \in DOMAIN out', NEW k \in DOMAIN out', j < k
               PROVE  Earlier(out'[j], out'[k])
    BY <1>5 DEF InOrderSoFar
  <2>1. CASE j \in DOMAIN out /\ out'[j] = out[j]
    <3>1. Position(out'[j]) \in Int /\ Position(out'[j]) < start
      BY <1>17, <2>1
    <3>2. CASE k \in DOMAIN out /\ out'[k] = out[k]
      BY <1>6, <2>1, <3>2 DEF InOrderSoFar
    <3>3. CASE \E i \in 1 .. n : k = N + i
      <4>1. Position(out'[k]) = start
        BY <1>16, <3>3, Zenon
      <4> QED BY <3>1, <4>1 DEF Earlier
    <3>4. CASE end < Segs /\ k = N + n + 1 /\ out'[k] = c
      <4>1. Position(out'[k]) = end
        BY <1>13, <3>4 DEF Position
      <4> QED BY <1>1, <1>3, <3>1, <4>1 DEF Earlier
    <3> QED BY <1>20, <3>2, <3>3, <3>4
  <2>2. ASSUME NEW h \in 1 .. n, j = N + h
        PROVE  Earlier(out'[j], out'[k])
    <3>1. out'[j].ad /\ out'[j].seg = h - 1 /\ Position(out'[j]) = start
      BY <1>16, <2>2
    <3>2. ~(k \in DOMAIN out)
      BY <1>1, <2>2
    <3>3. ASSUME NEW i \in 1 .. n, k = N + i
          PROVE  Earlier(out'[j], out'[k])
      <4>1. out'[k].seg = i - 1 /\ Position(out'[k]) = start
        BY <1>16, <3>3
      <4>2. h - 1 < i - 1
        BY <1>1, <2>2, <3>3
      <4> QED BY <3>1, <4>1, <4>2 DEF Earlier
    <3>4. CASE end < Segs /\ k = N + n + 1 /\ out'[k] = c
      <4>1. Position(out'[k]) = end /\ ~out'[k].ad
        BY <1>13, <3>4 DEF Position
      <4>2. start < end \/ start = end
        BY <1>1, <1>3
      <4> QED BY <3>1, <4>1, <4>2 DEF Earlier
    <3> QED BY <1>20, <3>2, <3>3, <3>4
  <2>3. ~(end < Segs /\ j = N + n + 1 /\ out'[j] = c)
    <3> SUFFICES ASSUME end < Segs, j = N + n + 1 PROVE FALSE
      OBVIOUS
    <3>1. k \in 1 .. (N + n + 1)
      <4>1. end # Segs
        BY <1>1
      <4> QED BY <1>12, <4>1, Zenon
    <3> QED BY <1>1, <3>1
  <2> QED BY <1>20, <2>1, <2>2, <2>3
<1> QED BY <1>19, <1>22, <1>23

LEMMA FreshIntended == Fresh => IntendedSoFar
  BY DEF Fresh, IntendedSoFar, Interleaving

LEMMA IntendedStep == Inv /\ AdsPassed /\ IntendedSoFar /\ [Next]_vars => IntendedSoFar'
<1> SUFFICES ASSUME Inv, AdsPassed, IntendedSoFar, [Next]_vars, (Interleaving /\ Separated)'
             PROVE  (Between /\ ContentSoFar /\ InOrderSoFar)'
  BY DEF IntendedSoFar
<1>0. /\ Segs \in Nat /\ index \in 0 .. Segs /\ Len(breaks) \in Nat
      /\ brk \in 1 .. (Len(breaks) + 1)
      /\ \A b \in 1 .. Len(breaks) : breaks[b].start \in 0 .. Segs
      /\ \A b \in 1 .. Len(breaks) : breaks[b].end \in 0 .. Segs
      /\ \A b \in 1 .. Len(breaks) : breaks[b].start <= breaks[b].end
  BY BreakFacts
<1>1. CASE Detect \/ Mark
  <2>1. phase' \in {"detect", "ask", "mark", "marked"}
    BY <1>1 DEF Detect, CueIn, CueOut, OtherTag, AtTag, NextTag, NextSegment,
       EndOfPlaylist, Mark, MarkBreak, StripCues, EnsureDates
  <2> QED BY <2>1 DEF Interleaving
<1>2. CASE AskAds
  <2>1. out' = << >> /\ brk' = 1 /\ index' = 0 /\ breaks' = breaks /\ tags' = tags
    BY <1>2 DEF AskAds, AdsPassed
  <2>2. Between'
    <3>1. Len(breaks)' = Len(breaks)
      BY <2>1
    <3> QED BY <1>0, <2>1, <3>1 DEF Between
  <2>3. ContentSoFar' /\ InOrderSoFar'
    BY <2>1 DEF ContentSoFar, InOrderSoFar
  <2> QED BY <2>2, <2>3
<1>3. ASSUME tags' = tags, breaks' = breaks, fill' = fill, phase \in {"stitch", "done"}
      PROVE  Interleaving /\ Separated /\ Between /\ ContentSoFar /\ InOrderSoFar
  BY <1>3, Unmoved DEF IntendedSoFar, Interleaving
<1>4. CASE CopyBefore
  <2>1. /\ brk \in 1 .. Len(breaks) /\ index < breaks[brk].start /\ index < Segs
        /\ out' = Append(out, Content(index, FALSE)) /\ index' = index + 1
        /\ UNCHANGED <<tags, breaks, fill, brk>> /\ phase = "stitch"
    BY <1>0, <1>4 DEF CopyBefore
  <2>2. ASSUME NEW b \in 1 .. Len(breaks), b >= brk
        PROVE  index < breaks[b].start
    <3>1. CASE b = brk
      BY <2>1, <3>1
    <3>2. CASE b # brk
      <4>1. breaks[brk].end <= breaks[b].start
        BY <1>0, <2>1, <2>2, <3>2, BreakFacts
      <4> QED BY <1>0, <2>1, <4>1
    <3> QED BY <3>1, <3>2
  <2> QED BY <1>3, <2>1, <2>2, IntendedContent
<1>5. CASE CopyRest
  <2>1. /\ brk > Len(breaks) /\ index < Segs
        /\ out' = Append(out, Content(index, FALSE)) /\ index' = index + 1
        /\ UNCHANGED <<tags, breaks, fill, brk>> /\ phase = "stitch"
    BY <1>5 DEF CopyRest
  <2>2. \A b \in 1 .. Len(breaks) : b >= brk => index < breaks[b].start
    BY <1>0, <2>1
  <2> QED BY <1>3, <2>1, <2>2, IntendedContent
<1>6. CASE InsertAds
  <2>1. UNCHANGED <<tags, breaks, fill>> /\ phase = "stitch"
    BY <1>6 DEF InsertAds, AtBreak
  <2> QED BY <1>3, <1>6, <2>1, IntendedInsert
<1>7. ASSUME UNCHANGED <<tags, breaks, fill, out, index>>, phase \in {"stitch", "done"},
             \/ brk' = brk
             \/ brk' = brk + 1 /\ fill[brk] = 0
      PROVE  (Between /\ ContentSoFar /\ InOrderSoFar)'
  <2>1. /\ Segs' = Segs /\ Len(breaks)' = Len(breaks)
        /\ \A b : Filled(b)' <=> Filled(b)
        /\ \A i : ContentOf(i)' = ContentOf(i) /\ (InFilled(i)' <=> InFilled(i))
        /\ \A s, t : Earlier(s, t)' <=> Earlier(s, t)
    BY <1>7, Unmoved
  <2>2. Between /\ ContentSoFar /\ InOrderSoFar
    BY <1>3, <1>7
  <2>3. ContentSoFar' /\ InOrderSoFar'
    BY <1>7, <2>1, <2>2 DEF ContentSoFar, InOrderSoFar
  <2>4. Between'
    <3> SUFFICES ASSUME NEW b \in 1 .. Len(breaks), Filled(b)
                 PROVE  /\ b < brk' => /\ breaks[b].end <= index
                                       /\ index < Segs => breaks[b].end < index
                        /\ b >= brk' => index <= breaks[b].start
      BY <1>7, <2>1 DEF Between
    <3>1. /\ b < brk => /\ breaks[b].end <= index
                        /\ index < Segs => breaks[b].end < index
          /\ b >= brk => index <= breaks[b].start
      BY <2>2 DEF Between
    <3>2. fill[brk] = 0 => b # brk
      BY DEF Filled
    <3>3. (b < brk' <=> b < brk) /\ (b >= brk' <=> b >= brk)
      BY <1>0, <1>7, <3>2
    <3> QED BY <3>1, <3>3
  <2> QED BY <2>3, <2>4
<1>8. CASE SkipEmptyBreak
  BY <1>7, <1>8 DEF SkipEmptyBreak, AtBreak
<1>9. CASE Finish
  BY <1>7, <1>9 DEF Finish
<1>10. CASE UNCHANGED vars
  <2>1. UNCHANGED <<tags, breaks, fill, out, index, brk, phase>>
    BY <1>10 DEF vars
  <2> QED BY <1>7, <2>1 DEF Interleaving
<1> QED BY <1>1, <1>2, <1>4, <1>5, <1>6, <1>8, <1>9, <1>10 DEF Next, Stitch

LEMMA StitchedAsIntendedIf == Inv /\ AdsPassed /\ IntendedSoFar => StitchedAsIntended
<1> SUFFICES ASSUME Inv, AdsPassed, IntendedSoFar, phase = "done", Separated
             PROVE  /\ {out[j] : j \in DOMAIN out} = Intended
                    /\ \A j, k \in DOMAIN out : j < k => Earlier(out[j], out[k])
  BY DEF StitchedAsIntended
<1>1. Interleaving /\ ContentSoFar /\ InOrderSoFar
  BY DEF IntendedSoFar, Interleaving
<1>2. index = Segs /\ 1 .. (brk - 1) = DOMAIN breaks
  BY BreakFacts DEF AdsPassed
<1>3. ASSUME NEW j \in DOMAIN out
      PROVE  out[j] \in Intended
  <2>1. CASE out[j].ad
    BY <1>1, <1>2, <2>1 DEF AdsPassed, Intended
  <2>2. CASE ~out[j].ad
    <3>1. /\ out[j].seg \in 0 .. (Segs - 1)
          /\ ~InFilled(out[j].seg)
          /\ out[j] = ContentOf(out[j].seg)
      BY <1>1, <1>2, <2>2 DEF ContentSoFar
    <3>2. out[j].seg \in {i \in 0 .. (Segs - 1) : ~InFilled(i)}
      BY <3>1
    <3>3. out[j] \in {ContentOf(i) : i \in {h \in 0 .. (Segs - 1) : ~InFilled(h)}}
      BY <3>1, <3>2, Zenon
    <3> QED BY <3>3, Zenon DEF Intended
  <2> QED BY <2>1, <2>2
<1>4. ASSUME NEW b \in DOMAIN breaks, NEW s \in AdsOf(b)
      PROVE  s \in {out[j] : j \in DOMAIN out}
  BY <1>1, <1>2, <1>4 DEF AdsPassed
<1>5. ASSUME NEW i \in 0 .. (Segs - 1), ~InFilled(i)
      PROVE  ContentOf(i) \in {out[j] : j \in DOMAIN out}
  BY <1>1, <1>2, <1>5 DEF ContentSoFar
<1>6. Intended \subseteq {out[j] : j \in DOMAIN out}
  <2> SUFFICES ASSUME NEW s \in Intended
               PROVE  s \in {out[j] : j \in DOMAIN out}
    OBVIOUS
  <2>1. \/ \E b \in DOMAIN breaks : s \in AdsOf(b)
        \/ \E i \in 0 .. (Segs - 1) : ~InFilled(i) /\ s = ContentOf(i)
    <3>1. CASE s \in UNION {AdsOf(b) : b \in DOMAIN breaks}
      BY <3>1
    <3>2. CASE s \in {ContentOf(i) : i \in {h \in 0 .. (Segs - 1) : ~InFilled(h)}}
      BY <3>2
    <3> QED BY <3>1, <3>2, Zenon DEF Intended
  <2> QED BY <1>4, <1>5, <2>1, Zenon
<1>7. {out[j] : j \in DOMAIN out} \subseteq Intended
  BY <1>3
<1>8. \A j, k \in DOMAIN out : j < k => Earlier(out[j], out[k])
  BY <1>1 DEF InOrderSoFar
<1> QED BY <1>6, <1>7, <1>8, Zenon

(* With breaks apart from each other the finished playlist holds exactly    *)
(* the ads and the content no ad replaces, each where it belongs and with   *)
(* the right mark: interleave_ads loses, adds, repeats and moves nothing.   *)
THEOREM StitchingIsAsIntended == Spec => []StitchedAsIntended
<1>1. Spec => []IntendedSoFar
  BY InitFresh, FreshIntended, IntendedStep, AdsPassedInvariant, StitchInvariant, PTL DEF Spec
<1> QED BY StitchedAsIntendedIf, <1>1, AdsPassedInvariant, StitchInvariant, PTL

-----------------------------------------------------------------------------
(* Marking.  A set of natural numbers has a least one: this stands for the  *)
(* inductions below.                                                        *)
LEMMA Least ==
  ASSUME NEW T, T \subseteq Nat, T # {}
  PROVE  \E x \in T : \A y \in T : x <= y
<1> DEFINE R == {ss \in Nat \X Nat : ss[1] < ss[2]}
<1>1. IsWellFoundedOn(R, Nat)
  BY NatLessThanWellFounded DEF OpToRel
<1>2. \A x, y \in Nat : <<y, x>> \in R <=> y < x
  OBVIOUS
<1> HIDE DEF R
<1>3. PICK x \in T : \A y \in T : ~(<<y, x>> \in R)
  BY <1>1, WFMin
<1>4. x \in Nat /\ \A y \in T : y \in Nat /\ ~(y < x)
  BY <1>2, <1>3
<1>5. \A y \in T : x <= y
  BY <1>4
<1> QED BY <1>5

Dated ==
  /\ DOMAIN marked = 1 .. Segs
  /\ \A i \in 1 .. Segs : marked[i].date \in Int /\ marked[i].date >= NoDate

(* The last date at or before a segment.                                    *)
LEMMA LastAnchor ==
  ASSUME Segs \in Nat, Dated, NEW i \in 0 .. (Segs - 1), NEW j \in Anchors(i)
  PROVE  \E a \in Anchors(i) : /\ \A k \in Anchors(i) : k <= a
                               /\ DateAt(i) = marked[a + 1].date + (i - a)
<1>1. Anchors(i) \subseteq 0 .. i /\ i \in Nat
  BY DEF Anchors
<1> DEFINE T == {i - k : k \in Anchors(i)}
<1>2. T \subseteq Nat /\ i - j \in T
  BY <1>1
<1>3. PICK x \in T : \A y \in T : x <= y
  BY <1>2, Least
<1>4. PICK a \in Anchors(i) : x = i - a
  OBVIOUS
<1>5. \A k \in Anchors(i) : k <= a
  <2> SUFFICES ASSUME NEW k \in Anchors(i) PROVE k <= a
    OBVIOUS
  <2>1. i - a <= i - k
    BY <1>3, <1>4
  <2>2. a \in Int /\ k \in Int /\ i \in Int
    BY <1>1
  <2> QED BY <2>1, <2>2
<1> DEFINE c == CHOOSE h \in Anchors(i) : \A k \in Anchors(i) : k <= h
<1>6. c \in Anchors(i) /\ \A k \in Anchors(i) : k <= c
  BY <1>5
<1>7. DateAt(i) = marked[c + 1].date + (i - c)
  BY DEF DateAt
<1> HIDE DEF c
<1> QED BY <1>6, <1>7

(* compute_pdt_at follows the recurrence of the timeline.                   *)
LEMMA DateRecurrence ==
  ASSUME Segs \in Nat, Dated, NEW i \in 0 .. (Segs - 1)
  PROVE  DateAt(i) = IF marked[i + 1].date # NoDate THEN marked[i + 1].date
                     ELSE IF i = 0 THEN NoDate
                     ELSE IF DateAt(i - 1) = NoDate THEN NoDate ELSE DateAt(i - 1) + 1
<1>0. /\ i \in Nat
      /\ \A k \in 0 .. i : k + 1 \in 1 .. Segs
  OBVIOUS
<1>1. \A k \in 0 .. i : marked[k + 1].date \in Int /\ marked[k + 1].date >= NoDate
  BY <1>0 DEF Dated
<1>2. \A k : k \in Anchors(i) <=> k \in 0 .. i /\ marked[k + 1].date # NoDate
  BY DEF Anchors
<1>3. CASE marked[i + 1].date # NoDate
  <2>1. i \in Anchors(i)
    BY <1>0, <1>2, <1>3
  <2>2. PICK a \in Anchors(i) : /\ \A k \in Anchors(i) : k <= a
                                /\ DateAt(i) = marked[a + 1].date + (i - a)
    BY <2>1, LastAnchor
  <2>3. a = i
    <3>1. a \in 0 .. i /\ i <= a
      BY <1>2, <2>1, <2>2
    <3> QED BY <1>0, <3>1
  <2>4. marked[i + 1].date \in Int
    BY <1>0, <1>1
  <2> QED BY <1>0, <1>3, <2>2, <2>3, <2>4
<1>4. CASE marked[i + 1].date = NoDate
  <2>1. CASE i = 0
    <3>1. Anchors(i) = {}
      <4>1. \A k \in 0 .. i : k = i
        BY <2>1
      <4> QED BY <1>2, <1>4, <4>1
    <3> QED BY <1>4, <2>1, <3>1 DEF DateAt
  <2>2. CASE i # 0
    <3>0. i - 1 \in 0 .. (Segs - 1)
      BY <1>0, <2>2
    <3>1. Anchors(i) = Anchors(i - 1)
      <4>1. \A k \in 0 .. i : k = i \/ k \in 0 .. (i - 1)
        BY <1>0
      <4>2. \A k \in 0 .. (i - 1) : k \in 0 .. i
        BY <1>0
      <4> QED BY <1>2, <1>4, <4>1, <4>2 DEF Anchors
    <3>2. CASE Anchors(i) = {}
      BY <1>4, <2>2, <3>1, <3>2 DEF DateAt
    <3>3. CASE Anchors(i) # {}
      <4>1. PICK j : j \in Anchors(i)
        BY <3>3
      <4>2. PICK a \in Anchors(i) : /\ \A k \in Anchors(i) : k <= a
                                    /\ DateAt(i) = marked[a + 1].date + (i - a)
        BY <4>1, LastAnchor
      <4>3. PICK c \in Anchors(i - 1) :
              /\ \A k \in Anchors(i - 1) : k <= c
              /\ DateAt(i - 1) = marked[c + 1].date + ((i - 1) - c)
        BY <3>0, <3>1, <4>1, LastAnchor
      <4>4. a \in 0 .. (i - 1) /\ a <= c /\ c <= a /\ c \in 0 .. (i - 1)
        BY <3>1, <4>2, <4>3 DEF Anchors
      <4>5. a = c
        BY <1>0, <4>4
      <4>6. marked[a + 1].date \in Int /\ marked[a + 1].date >= 0
        <5>1. a \in 0 .. i /\ marked[a + 1].date # NoDate
          BY <1>2, <4>2
        <5>2. marked[a + 1].date \in Int /\ marked[a + 1].date >= NoDate
          BY <1>1, <5>1
        <5> QED BY <5>1, <5>2 DEF NoDate
      <4>7. /\ DateAt(i) = marked[a + 1].date + (i - a)
            /\ DateAt(i - 1) = marked[a + 1].date + ((i - 1) - a)
        BY <4>2, <4>3, <4>5
      <4>8. a \in Int /\ a <= i - 1
        BY <1>0, <4>4
      <4>9. DateAt(i) = DateAt(i - 1) + 1 /\ DateAt(i - 1) # NoDate
        BY <1>0, <4>6, <4>7, <4>8 DEF NoDate
      <4> QED BY <1>4, <2>2, <4>9
    <3> QED BY <3>2, <3>3
  <2> QED BY <2>1, <2>2
<1> QED BY <1>3, <1>4

(* The timeline of the property is what the code computes.                  *)
LEMMA TimelineIsDateAt ==
  ASSUME Segs \in Nat, Dated, NEW i \in 0 .. (Segs - 1)
  PROVE  Timeline[i] = DateAt(i)
<1> DEFINE Rule(t, k) == IF k = -1 THEN NoDate
                         ELSE IF marked[k + 1].date # NoDate THEN marked[k + 1].date
                         ELSE IF t[k - 1] = NoDate THEN NoDate ELSE t[k - 1] + 1
           g == [k \in -1 .. (Segs - 1) |-> IF k = -1 THEN NoDate ELSE DateAt(k)]
<1>1. \A k \in -1 .. (Segs - 1) : g[k] = Rule(g, k)
  <2> SUFFICES ASSUME NEW k \in -1 .. (Segs - 1) PROVE g[k] = Rule(g, k)
    OBVIOUS
  <2>1. CASE k = -1
    BY <2>1
  <2>2. CASE k # -1
    <3>1. k \in 0 .. (Segs - 1) /\ k - 1 \in -1 .. (Segs - 1)
      BY <2>2
    <3>2. g[k] = DateAt(k) /\ g[k - 1] = IF k = 0 THEN NoDate ELSE DateAt(k - 1)
      BY <2>2, <3>1
    <3>3. DateAt(k) = IF marked[k + 1].date # NoDate THEN marked[k + 1].date
                      ELSE IF k = 0 THEN NoDate
                      ELSE IF DateAt(k - 1) = NoDate THEN NoDate ELSE DateAt(k - 1) + 1
      BY <3>1, DateRecurrence
    <3> HIDE DEF g
    <3> QED BY <2>2, <3>2, <3>3
  <2> QED BY <2>1, <2>2
<1>2. g = [k \in -1 .. (Segs - 1) |-> Rule(g, k)]
  BY <1>1
<1>3. Timeline = CHOOSE t : t = [k \in -1 .. (Segs - 1) |-> Rule(t, k)]
  BY DEF Timeline
<1>4. Timeline = [k \in -1 .. (Segs - 1) |-> Rule(Timeline, k)]
  <2>1. \E t : t = [k \in -1 .. (Segs - 1) |-> Rule(t, k)]
    BY <1>2
  <2> QED BY <1>3, <2>1
<1>5. \A k \in -1 .. (Segs - 1) : Timeline[k] = Rule(Timeline, k)
  BY <1>4
<1> HIDE DEF g
<1> DEFINE T == {k \in 0 .. Segs : Timeline[k - 1] # g[k - 1]}
<1>6. T = {}
  <2> SUFFICES ASSUME T # {} PROVE FALSE
    OBVIOUS
  <2>1. T \subseteq Nat
    OBVIOUS
  <2>2. PICK x \in T : \A y \in T : x <= y
    BY <2>1, Least
  <2>3. x \in 0 .. Segs /\ x - 1 \in -1 .. (Segs - 1) /\ Timeline[x - 1] # g[x - 1]
    OBVIOUS
  <2>4. Timeline[x - 1] = Rule(Timeline, x - 1) /\ g[x - 1] = Rule(g, x - 1)
    BY <1>1, <1>5, <2>3
  <2>5. x # 0
    BY <2>3, <2>4
  <2>6. x - 1 \in 0 .. Segs /\ ~(x <= x - 1)
    BY <2>3, <2>5
  <2>7. Timeline[(x - 1) - 1] = g[(x - 1) - 1]
    BY <2>2, <2>6
  <2> QED BY <2>3, <2>4, <2>7
<1>7. i + 1 \in 0 .. Segs /\ (i + 1) - 1 = i
  OBVIOUS
<1>8. Timeline[i] = g[i]
  BY <1>6, <1>7
<1> QED BY <1>8 DEF g

(* While the breaks are marked, the dates stay, each marker is of a break   *)
(* passed that starts there, and each break passed with content has its own.*)
MarkersSoFar ==
  phase \in {"mark", "marked"} /\ breaks # << >> =>
    /\ Dated
    /\ phase = "marked" => brk = Len(breaks) + 1
    /\ \A i \in 1 .. Segs :
         /\ phase = "mark" => marked[i].tags = tags[i]
         /\ phase = "marked" => marked[i].tags = NotCues(tags[i])
         /\ marked[i].brk # None => /\ marked[i].brk + 1 \in 1 .. (brk - 1)
                                    /\ breaks[marked[i].brk + 1].start = i - 1
    /\ \A b \in 1 .. (brk - 1) :
         LET i == breaks[b].start IN
           i < breaks[b].end /\ DateAt(i) # NoDate =>
             marked[i + 1].brk = b - 1 /\ marked[i + 1].start = DateAt(i)

LEMMA FreshMarkers == Fresh => MarkersSoFar
  BY DEF Fresh, MarkersSoFar

(* The first dates.                                                         *)
LEMMA MarkersDated ==
  ASSUME Inv, AdsPassed, NEW d \in SUBSET (0 .. (Segs - 1)), NEW r \in Ranges,
         EnsureDates(d, r)
  PROVE  MarkersSoFar'
<1>1. /\ tags' = tags /\ breaks' = breaks /\ brk' = 1
      /\ phase' = IF breaks = << >> THEN "marked" ELSE "mark"
  BY DEF EnsureDates, AdsPassed
<1>2. CASE breaks = << >>
  BY <1>1, <1>2 DEF MarkersSoFar
<1>3. CASE breaks # << >>
  <2>1. marked' = [i \in 1 .. Segs |->
                     [tags |-> tags[i], brk |-> None, start |-> NoDate, date |-> Dates(d)[i],
                      own |-> i - 1 \in r, ranged |-> i - 1 \in r]]
    BY <1>3 DEF EnsureDates
  <2>2. \A i \in 1 .. Segs : marked'[i].tags = tags[i] /\ marked'[i].brk = None
                             /\ marked'[i].date = Dates(d)[i]
    BY <2>1
  <2>3. Segs \in Nat /\ Segs' = Segs
    BY <1>1, BreakFacts DEF Segs
  <2>4. ASSUME NEW i \in 1 .. Segs
        PROVE  Dates(d)[i] \in Int /\ Dates(d)[i] >= NoDate
    <3>1. Dates(d)[i] = IF d = {} THEN i - 1
                        ELSE IF i - 1 \in d THEN 2 * (i - 1) ELSE NoDate
      BY <2>4 DEF Dates
    <3> QED BY <2>3, <3>1 DEF NoDate
  <2>5. Dated'
    BY <2>1, <2>2, <2>3, <2>4 DEF Dated, NoDate
  <2>6. 1 .. (brk' - 1) = {}
    BY <1>1
  <2> QED BY <1>1, <1>3, <2>2, <2>3, <2>5, <2>6 DEF MarkersSoFar, None
<1> QED BY <1>2, <1>3

(* The dates alone make the times of the breaks.                            *)
LEMMA SameDates ==
  ASSUME Segs \in Nat, Segs' = Segs, Dated,
         \A i \in 1 .. Segs : marked'[i].date = marked[i].date
  PROVE  \A i \in 0 .. (Segs - 1) : DateAt(i)' = DateAt(i)
<1> SUFFICES ASSUME NEW i \in 0 .. (Segs - 1) PROVE DateAt(i)' = DateAt(i)
  OBVIOUS
<1>1. \A j \in 0 .. i : marked'[j + 1].date = marked[j + 1].date
  BY DEF NoDate
<1>2. Anchors(i)' = Anchors(i)
  BY <1>1 DEF Anchors
<1>3. CASE Anchors(i) = {}
  BY <1>2, <1>3 DEF DateAt
<1>4. CASE Anchors(i) # {}
  <2> DEFINE a == CHOOSE j \in Anchors(i) : \A k \in Anchors(i) : k <= j
  <2>1. a \in 0 .. i
    <3>1. PICK j : j \in Anchors(i)
      BY <1>4
    <3>2. \E h \in Anchors(i) : \A k \in Anchors(i) : k <= h
      BY <3>1, LastAnchor
    <3>3. a \in Anchors(i)
      BY <3>2
    <3> QED BY <3>3 DEF Anchors
  <2>2. DateAt(i) = marked[a + 1].date + (i - a)
    BY <1>4 DEF DateAt
  <2>3. DateAt(i)' = marked'[a + 1].date + (i - a)
    BY <1>2, <1>4 DEF DateAt
  <2> HIDE DEF a
  <2> QED BY <1>1, <2>1, <2>2, <2>3
<1> QED BY <1>3, <1>4

(* One more break is marked: only an empty one can lose its marker to it.   *)
LEMMA MarkersBreak ==
  ASSUME Inv, MarkersSoFar, MarkBreak
  PROVE  MarkersSoFar'
<1> DEFINE s == breaks[brk].start
           new == [tags |-> marked[s + 1].tags, date |-> marked[s + 1].date,
                   brk |-> brk - 1, start |-> DateAt(s),
                   own |-> FALSE, ranged |-> marked[s + 1].ranged]
<1>1. /\ Segs \in Nat /\ Len(breaks) \in Nat /\ brk \in 1 .. Len(breaks)
      /\ tags' = tags /\ breaks' = breaks /\ brk' = brk + 1
      /\ phase = "mark" /\ phase' = "mark" /\ Segs' = Segs
  BY BreakFacts DEF MarkBreak, Segs
<1>2. CASE breaks = << >>
  BY <1>1, <1>2 DEF MarkersSoFar
<1>3. CASE breaks # << >>
  <2>1. /\ Dated
        /\ \A i \in 1 .. Segs :
             /\ marked[i].tags = tags[i]
             /\ marked[i].brk # None => /\ marked[i].brk + 1 \in 1 .. (brk - 1)
                                        /\ breaks[marked[i].brk + 1].start = i - 1
    BY <1>1, <1>3 DEF MarkersSoFar
  <2>2. ASSUME NEW b \in 1 .. (brk - 1), breaks[b].start < breaks[b].end,
               DateAt(breaks[b].start) # NoDate
        PROVE  /\ marked[breaks[b].start + 1].brk = b - 1
               /\ marked[breaks[b].start + 1].start = DateAt(breaks[b].start)
    BY <1>1, <1>3, <2>2 DEF MarkersSoFar
  <2>3. s \in 0 .. Segs /\ breaks[brk].end \in 0 .. Segs /\ s <= breaks[brk].end
    BY <1>1, BreakFacts
  <2>4. CASE s >= Segs \/ DateAt(s) = NoDate
    <3>1. marked' = marked
      BY <2>4 DEF MarkBreak
    <3>2. Dated'
      BY <1>1, <2>1, <3>1 DEF Dated
    <3>3. \A i \in 0 .. (Segs - 1) : DateAt(i)' = DateAt(i)
      BY <3>1 DEF DateAt, Anchors
    <3>4. ASSUME NEW i \in 1 .. Segs, marked[i].brk # None
          PROVE  /\ marked[i].brk + 1 \in 1 .. brk
                 /\ breaks[marked[i].brk + 1].start = i - 1
      BY <1>1, <2>1, <3>4
    <3>5. ASSUME NEW b \in 1 .. brk, breaks[b].start < breaks[b].end,
                 DateAt(breaks[b].start)' # NoDate
          PROVE  /\ marked[breaks[b].start + 1].brk = b - 1
                 /\ marked[breaks[b].start + 1].start = DateAt(breaks[b].start)'
      <4>1. breaks[b].start \in 0 .. (Segs - 1)
        <5>1. b \in 1 .. Len(breaks)
          BY <1>1
        <5>2. breaks[b].start \in 0 .. Segs /\ breaks[b].end \in 0 .. Segs
          BY <5>1, BreakFacts
        <5>3. Segs \in Nat
          BY <1>1
        <5> QED BY <3>5, <5>2, <5>3
      <4>2. DateAt(breaks[b].start)' = DateAt(breaks[b].start)
        BY <3>3, <4>1, <1>1
      <4>3. b # brk
        <5>1. ~(breaks[b].start >= Segs)
          BY <1>1, <4>1
        <5> QED BY <2>4, <3>5, <4>2, <5>1
      <4>4. b \in 1 .. (brk - 1)
        BY <1>1, <4>3
      <4> QED BY <2>2, <3>5, <4>2, <4>4
    <3>6. 1 .. (brk' - 1) = 1 .. brk
      BY <1>1
    <3> QED BY <1>1, <1>3, <2>1, <3>1, <3>2, <3>4, <3>5, <3>6 DEF MarkersSoFar
  <2>5. CASE ~(s >= Segs \/ DateAt(s) = NoDate)
    <3>0. s + 1 \in 1 .. Segs
      BY <1>1, <2>3, <2>5
    <3>1. marked' = [marked EXCEPT ![s + 1] = new]
      BY <2>5 DEF MarkBreak
    <3>2. DOMAIN marked = 1 .. Segs
      BY <2>1 DEF Dated
    <3>3. /\ new.tags = marked[s + 1].tags /\ new.date = marked[s + 1].date
          /\ new.brk = brk - 1 /\ new.start = DateAt(s)
      OBVIOUS
    <3> HIDE DEF new
    <3>4. /\ DOMAIN marked' = 1 .. Segs /\ marked'[s + 1] = new
          /\ \A i \in 1 .. Segs : i # s + 1 => marked'[i] = marked[i]
      BY <3>0, <3>1, <3>2
    <3>5. \A i \in 1 .. Segs : /\ marked'[i].date = marked[i].date
                               /\ marked'[i].tags = marked[i].tags
      BY <3>3, <3>4
    <3>6. Dated'
      BY <1>1, <2>1, <3>4, <3>5 DEF Dated, NoDate
    <3>7. \A i \in 0 .. (Segs - 1) : DateAt(i)' = DateAt(i)
      BY <1>1, <2>1, <3>5, SameDates
    <3>8. ASSUME NEW i \in 1 .. Segs, marked'[i].brk # None
          PROVE  /\ marked'[i].brk + 1 \in 1 .. brk
                 /\ breaks[marked'[i].brk + 1].start = i - 1
      <4>1. CASE i = s + 1
        <5>1. marked'[i].brk + 1 = brk
          BY <1>1, <3>3, <3>4, <4>1
        <5>2. s = i - 1
          BY <2>3, <4>1
        <5> QED BY <1>1, <5>1, <5>2
      <4>2. CASE i # s + 1
        <5>1. marked'[i] = marked[i]
          BY <3>4, <4>2
        <5>2. /\ marked[i].brk + 1 \in 1 .. (brk - 1)
              /\ breaks[marked[i].brk + 1].start = i - 1
          BY <2>1, <3>8, <5>1
        <5> QED BY <1>1, <5>1, <5>2
      <4> QED BY <4>1, <4>2
    <3>9. ASSUME NEW b \in 1 .. brk, breaks[b].start < breaks[b].end,
                 DateAt(breaks[b].start)' # NoDate
          PROVE  /\ marked'[breaks[b].start + 1].brk = b - 1
                 /\ marked'[breaks[b].start + 1].start = DateAt(breaks[b].start)'
      <4>0. /\ b \in 1 .. Len(breaks)
            /\ breaks[b].start \in 0 .. Segs /\ breaks[b].end \in 0 .. Segs
        <5>1. b \in 1 .. Len(breaks)
          BY <1>1
        <5> QED BY <5>1, BreakFacts
      <4>1. breaks[b].start \in 0 .. (Segs - 1) /\ breaks[b].start + 1 \in 1 .. Segs
        <5>1. Segs \in Nat
          BY <1>1
        <5> QED BY <3>9, <4>0, <5>1
      <4>2. DateAt(breaks[b].start)' = DateAt(breaks[b].start)
        BY <3>7, <4>1, <1>1
      <4>3. CASE b = brk
        BY <3>3, <3>4, <4>2, <4>3
      <4>4. CASE b # brk
        <5>1. b \in 1 .. (brk - 1) /\ b < brk
          BY <1>1, <4>4
        <5>2. breaks[b].end <= s
          BY <1>1, <4>0, <5>1, BreakFacts
        <5>3. breaks[b].start + 1 # s + 1
          BY <2>3, <3>9, <4>0, <5>2
        <5>4. marked'[breaks[b].start + 1] = marked[breaks[b].start + 1]
          BY <3>4, <4>1, <5>3
        <5> QED BY <2>2, <3>9, <4>2, <5>1, <5>4
      <4> QED BY <4>3, <4>4
    <3>10. 1 .. (brk' - 1) = 1 .. brk
      BY <1>1
    <3>11. \A i \in 1 .. Segs : marked'[i].tags = tags[i]
      BY <2>1, <3>5
    <3> QED BY <1>1, <1>3, <3>6, <3>8, <3>9, <3>10, <3>11 DEF MarkersSoFar
  <2> QED BY <2>4, <2>5
<1> QED BY <1>2, <1>3

LEMMA MarkersStrip ==
  ASSUME Inv, MarkersSoFar, StripCues
  PROVE  MarkersSoFar'
<1>1. /\ Segs \in Nat /\ Len(breaks) \in Nat /\ brk = Len(breaks) + 1
      /\ tags' = tags /\ breaks' = breaks /\ brk' = brk
      /\ phase = "mark" /\ phase' = "marked" /\ Segs' = Segs
      /\ marked' = [i \in DOMAIN marked |-> WithoutCues(marked[i])]
  BY BreakFacts DEF StripCues, Segs
<1>2. CASE breaks = << >>
  BY <1>1, <1>2 DEF MarkersSoFar
<1>3. CASE breaks # << >>
  <2>1. /\ Dated
        /\ \A i \in 1 .. Segs :
             /\ marked[i].tags = tags[i]
             /\ marked[i].brk # None => /\ marked[i].brk + 1 \in 1 .. (brk - 1)
                                        /\ breaks[marked[i].brk + 1].start = i - 1
    BY <1>1, <1>3 DEF MarkersSoFar
  <2>2. ASSUME NEW b \in 1 .. (brk - 1), breaks[b].start < breaks[b].end,
               DateAt(breaks[b].start) # NoDate
        PROVE  /\ marked[breaks[b].start + 1].brk = b - 1
               /\ marked[breaks[b].start + 1].start = DateAt(breaks[b].start)
    BY <1>1, <1>3, <2>2 DEF MarkersSoFar
  <2>3. DOMAIN marked = 1 .. Segs
    BY <2>1 DEF Dated
  <2>4. \A i \in 1 .. Segs : marked'[i] = WithoutCues(marked[i])
    BY <1>1, <2>3
  <2>5. \A seg : /\ WithoutCues(seg).date = seg.date /\ WithoutCues(seg).brk = seg.brk
                 /\ WithoutCues(seg).start = seg.start
    BY Zenon DEF WithoutCues
  <2>6. \A i \in 1 .. Segs : /\ marked'[i].date = marked[i].date
                             /\ marked'[i].brk = marked[i].brk
                             /\ marked'[i].start = marked[i].start
    BY <2>4, <2>5
  <2>7. ASSUME NEW i \in 1 .. Segs
        PROVE  marked'[i].tags = NotCues(tags[i])
    <3>1. WithoutCues(marked[i]).tags = NotCues(marked[i].tags)
      BY DEF WithoutCues
    <3>2. marked[i].tags = tags[i]
      BY <2>1
    <3> QED BY <2>4, <3>1, <3>2
  <2>8. Dated'
    <3>1. DOMAIN marked' = 1 .. Segs
      BY <1>1, <2>3
    <3> QED BY <1>1, <2>1, <2>6, <3>1 DEF Dated, NoDate
  <2>9. \A i \in 0 .. (Segs - 1) : DateAt(i)' = DateAt(i)
    BY <1>1, <2>1, <2>6, SameDates
  <2>10. ASSUME NEW b \in 1 .. (brk - 1), breaks[b].start < breaks[b].end,
                DateAt(breaks[b].start)' # NoDate
         PROVE  /\ marked'[breaks[b].start + 1].brk = b - 1
                /\ marked'[breaks[b].start + 1].start = DateAt(breaks[b].start)'
    <3>0. breaks[b].start \in 0 .. Segs /\ breaks[b].end \in 0 .. Segs
      <4>1. b \in 1 .. Len(breaks)
        BY <1>1
      <4> QED BY <4>1, BreakFacts
    <3>1. breaks[b].start \in 0 .. (Segs - 1) /\ breaks[b].start + 1 \in 1 .. Segs
      <4>1. Segs \in Nat
        BY <1>1
      <4> QED BY <2>10, <3>0, <4>1
    <3>2. DateAt(breaks[b].start)' = DateAt(breaks[b].start)
      BY <2>9, <3>1, <1>1
    <3> QED BY <2>2, <2>6, <2>10, <3>1, <3>2
  <2>11. \A i \in 1 .. Segs :
           marked'[i].brk # None => /\ marked'[i].brk + 1 \in 1 .. (brk - 1)
                                    /\ breaks[marked'[i].brk + 1].start = i - 1
    BY <2>1, <2>6
  <2>12. brk' = Len(breaks') + 1
    BY <1>1
  <2>13. \A b \in 1 .. (brk' - 1) :
           breaks'[b].start < breaks'[b].end /\ DateAt(breaks[b].start)' # NoDate =>
             /\ marked'[breaks'[b].start + 1].brk = b - 1
             /\ marked'[breaks'[b].start + 1].start = DateAt(breaks[b].start)'
    BY <1>1, <2>10
  <2>14. \A i \in 1 .. Segs' :
           /\ phase' = "mark" => marked'[i].tags = tags'[i]
           /\ marked'[i].tags = NotCues(tags'[i])
           /\ marked'[i].brk # None => /\ marked'[i].brk + 1 \in 1 .. (brk' - 1)
                                       /\ breaks'[marked'[i].brk + 1].start = i - 1
    BY <1>1, <2>7, <2>11
  <2> QED BY <2>8, <2>12, <2>13, <2>14 DEF MarkersSoFar, None
<1> QED BY <1>2, <1>3

LEMMA MarkersStep == Inv /\ AdsPassed /\ MarkersSoFar /\ [Next]_vars => MarkersSoFar'
<1> SUFFICES ASSUME Inv, AdsPassed, MarkersSoFar, [Next]_vars PROVE MarkersSoFar'
  OBVIOUS
<1>1. CASE Detect \/ AskAds \/ Stitch
  <2>1. phase' \in {"detect", "ask", "stitch", "done"}
    BY <1>1 DEF Detect, CueIn, CueOut, OtherTag, AtTag, NextTag, NextSegment,
       EndOfPlaylist, AskAds, Stitch, CopyBefore, AtBreak, SkipEmptyBreak, InsertAds,
       CopyRest, Finish
  <2> QED BY <2>1 DEF MarkersSoFar
<1>2. CASE Mark
  BY <1>2, MarkersBreak, MarkersStrip, MarkersDated DEF Mark
<1>3. CASE UNCHANGED vars
  <2>1. UNCHANGED <<tags, phase, breaks, brk, marked>>
    BY <1>3 DEF vars
  <2>2. Dated' <=> Dated
    BY <2>1 DEF Dated, Segs
  <2>3. \A i : DateAt(i)' = DateAt(i)
    BY <2>1 DEF DateAt, Anchors
  <2>4. Segs' = Segs
    BY <2>1 DEF Segs
  <2> QED BY <2>1, <2>2, <2>3, <2>4 DEF MarkersSoFar
<1> QED BY <1>1, <1>2, <1>3 DEF Next

(* Where no marker is, the daterange is as the origin had it; where one is,  *)
(* it has taken its place, at a time that is known.  Every break passed that *)
(* starts at a known time has left a marker where it starts, its own or one  *)
(* of a later break.                                                        *)
MarkersPlaced ==
  phase \in {"mark", "marked"} /\ breaks # << >> =>
    /\ \A i \in 1 .. Segs :
         /\ marked[i].brk = None => marked[i].own = marked[i].ranged
         /\ marked[i].brk # None =>
              ~ marked[i].own /\ marked[i].start = DateAt(i - 1) /\ DateAt(i - 1) # NoDate
    /\ \A b \in 1 .. (brk - 1) :
         breaks[b].start < Segs /\ DateAt(breaks[b].start) # NoDate =>
           marked[breaks[b].start + 1].brk # None

LEMMA FreshPlaced == Fresh => MarkersPlaced
  BY DEF Fresh, MarkersPlaced

LEMMA PlacedDated ==
  ASSUME Inv, AdsPassed, NEW d \in SUBSET (0 .. (Segs - 1)), NEW r \in Ranges,
         EnsureDates(d, r)
  PROVE  MarkersPlaced'
<1>1. tags' = tags /\ brk' = 1 /\ Segs' = Segs
  BY DEF EnsureDates, AdsPassed, Segs
<1>2. \A i \in 1 .. Segs : marked'[i].brk = None /\ marked'[i].own = marked'[i].ranged
  BY DEF EnsureDates
<1>3. 1 .. (brk' - 1) = {}
  BY <1>1
<1> QED BY <1>1, <1>2, <1>3 DEF MarkersPlaced

LEMMA PlacedBreak ==
  ASSUME Inv, MarkersSoFar, MarkersPlaced, MarkBreak
  PROVE  MarkersPlaced'
<1> DEFINE s == breaks[brk].start
           new == [tags |-> marked[s + 1].tags, date |-> marked[s + 1].date,
                   brk |-> brk - 1, start |-> DateAt(s),
                   own |-> FALSE, ranged |-> marked[s + 1].ranged]
<1>1. /\ Segs \in Nat /\ Len(breaks) \in Nat /\ brk \in 1 .. Len(breaks)
      /\ tags' = tags /\ breaks' = breaks /\ brk' = brk + 1
      /\ phase = "mark" /\ phase' = "mark" /\ Segs' = Segs /\ breaks # << >>
      /\ s \in 0 .. Segs
  BY BreakFacts DEF MarkBreak, Segs
<1>2. Dated
  BY <1>1 DEF MarkersSoFar
<1>3. ASSUME NEW i \in 1 .. Segs
      PROVE  /\ marked[i].brk = None => marked[i].own = marked[i].ranged
             /\ marked[i].brk # None =>
                  ~ marked[i].own /\ marked[i].start = DateAt(i - 1) /\ DateAt(i - 1) # NoDate
  BY <1>1, <1>3 DEF MarkersPlaced
<1>4. ASSUME NEW b \in 1 .. (brk - 1), breaks[b].start < Segs,
             DateAt(breaks[b].start) # NoDate
      PROVE  marked[breaks[b].start + 1].brk # None
  BY <1>1, <1>4 DEF MarkersPlaced
<1>5. 1 .. (brk' - 1) = 1 .. brk /\ \A b \in 1 .. brk : b \in 1 .. (brk - 1) \/ b = brk
  BY <1>1
<1>6. \A b \in 1 .. brk : breaks[b].start \in 0 .. Segs
  <2>1. \A b \in 1 .. brk : b \in 1 .. Len(breaks)
    BY <1>1
  <2> QED BY <2>1, BreakFacts
<1>7. CASE s >= Segs \/ DateAt(s) = NoDate
  <2>1. marked' = marked
    BY <1>7 DEF MarkBreak
  <2>2. \A i : DateAt(i)' = DateAt(i)
    BY <2>1 DEF DateAt, Anchors
  <2>3. ASSUME NEW b \in 1 .. brk, breaks[b].start < Segs, DateAt(breaks[b].start) # NoDate
        PROVE  marked[breaks[b].start + 1].brk # None
    <3>1. b # brk
      BY <1>1, <1>7, <2>3
    <3> QED BY <1>4, <1>5, <2>3, <3>1
  <2> QED BY <1>1, <1>3, <1>5, <2>1, <2>2, <2>3 DEF MarkersPlaced
<1>8. CASE ~(s >= Segs \/ DateAt(s) = NoDate)
  <2>0. s + 1 \in 1 .. Segs
    BY <1>1, <1>8
  <2>1. marked' = [marked EXCEPT ![s + 1] = new]
    BY <1>8 DEF MarkBreak
  <2>2. DOMAIN marked = 1 .. Segs
    BY <1>2 DEF Dated
  <2>3. /\ new.date = marked[s + 1].date /\ new.brk = brk - 1 /\ new.start = DateAt(s)
        /\ new.own = FALSE
    OBVIOUS
  <2> HIDE DEF new
  <2>4. /\ marked'[s + 1] = new
        /\ \A i \in 1 .. Segs : i # s + 1 => marked'[i] = marked[i]
    BY <2>0, <2>1, <2>2
  <2>5. \A i \in 1 .. Segs : marked'[i].date = marked[i].date
    BY <2>3, <2>4
  <2>6. \A i \in 0 .. (Segs - 1) : DateAt(i)' = DateAt(i)
    BY <1>1, <1>2, <2>5, SameDates
  <2>7. brk - 1 # None
    BY <1>1 DEF None
  <2>8. ASSUME NEW i \in 1 .. Segs
        PROVE  /\ marked'[i].brk = None => marked'[i].own = marked'[i].ranged
               /\ marked'[i].brk # None =>
                    ~ marked'[i].own /\ marked'[i].start = DateAt(i - 1)
                    /\ DateAt(i - 1) # NoDate
    <3>1. CASE i = s + 1
      <4>1. i - 1 = s
        BY <1>1, <3>1
      <4>2. marked'[i] = new
        BY <2>4, <3>1
      <4> QED BY <1>8, <2>3, <2>7, <4>1, <4>2
    <3>2. CASE i # s + 1
      <4>1. marked'[i] = marked[i]
        BY <2>4, <3>2
      <4> QED BY <1>3, <4>1
    <3> QED BY <3>1, <3>2
  <2>9. ASSUME NEW b \in 1 .. brk, breaks[b].start < Segs, DateAt(breaks[b].start) # NoDate
        PROVE  marked'[breaks[b].start + 1].brk # None
    <3>1. CASE breaks[b].start = s
      BY <2>3, <2>4, <2>7, <3>1
    <3>2. CASE breaks[b].start # s
      <4>1. b \in 1 .. (brk - 1)
        BY <1>5, <3>2
      <4>2. breaks[b].start + 1 \in 1 .. Segs /\ breaks[b].start + 1 # s + 1
        BY <1>1, <1>6, <2>9, <3>2
      <4>3. marked'[breaks[b].start + 1] = marked[breaks[b].start + 1]
        BY <2>4, <4>2
      <4> QED BY <1>4, <2>9, <4>1, <4>3
    <3> QED BY <3>1, <3>2
  <2>10. \A i \in 1 .. Segs : i - 1 \in 0 .. (Segs - 1)
    BY <1>1
  <2>11. \A i \in 1 .. Segs : DateAt(i - 1)' = DateAt(i - 1)
    BY <2>6, <2>10
  <2>12. ASSUME NEW b \in 1 .. brk, breaks[b].start < Segs
         PROVE  DateAt(breaks[b].start)' = DateAt(breaks[b].start)
    <3>1. breaks[b].start \in 0 .. (Segs - 1)
      BY <1>1, <1>6, <2>12
    <3> QED BY <1>1, <2>6, <3>1
  <2>13. ASSUME NEW b \in 1 .. brk, breaks[b].start < Segs,
                DateAt(breaks[b].start)' # NoDate
         PROVE  marked'[breaks[b].start + 1].brk # None
    BY <2>9, <2>12, <2>13
  <2> QED BY <1>1, <1>5, <2>8, <2>11, <2>13 DEF MarkersPlaced
<1> QED BY <1>7, <1>8

LEMMA PlacedStrip ==
  ASSUME Inv, MarkersSoFar, MarkersPlaced, StripCues
  PROVE  MarkersPlaced'
<1>1. /\ Segs \in Nat
      /\ tags' = tags /\ breaks' = breaks /\ brk' = brk
      /\ phase = "mark" /\ phase' = "marked" /\ Segs' = Segs
      /\ marked' = [i \in DOMAIN marked |-> WithoutCues(marked[i])]
      /\ brk = Len(breaks) + 1
  BY BreakFacts DEF StripCues, Segs
<1>2. CASE breaks = << >>
  BY <1>1, <1>2 DEF MarkersPlaced
<1>3. CASE breaks # << >>
  <2>1. Dated /\ DOMAIN marked = 1 .. Segs
    BY <1>1, <1>3 DEF MarkersSoFar, Dated
  <2>2. \A seg : /\ WithoutCues(seg).date = seg.date /\ WithoutCues(seg).brk = seg.brk
                 /\ WithoutCues(seg).start = seg.start /\ WithoutCues(seg).own = seg.own
                 /\ WithoutCues(seg).ranged = seg.ranged
    BY Zenon DEF WithoutCues
  <2>3. \A i \in 1 .. Segs : marked'[i] = WithoutCues(marked[i])
    BY <1>1, <2>1
  <2>4. \A i \in 1 .. Segs : /\ marked'[i].date = marked[i].date
                             /\ marked'[i].brk = marked[i].brk
                             /\ marked'[i].start = marked[i].start
                             /\ marked'[i].own = marked[i].own
                             /\ marked'[i].ranged = marked[i].ranged
    BY <2>2, <2>3
  <2>5. \A i \in 0 .. (Segs - 1) : DateAt(i)' = DateAt(i)
    BY <1>1, <2>1, <2>4, SameDates
  <2>6. \A i \in 1 .. Segs : i - 1 \in 0 .. (Segs - 1)
    BY <1>1
  <2>7. \A i \in 1 .. Segs : DateAt(i - 1)' = DateAt(i - 1)
    BY <2>5, <2>6
  <2>8. ASSUME NEW b \in 1 .. (brk - 1), breaks[b].start < Segs
        PROVE  /\ DateAt(breaks[b].start)' = DateAt(breaks[b].start)
               /\ marked'[breaks[b].start + 1].brk = marked[breaks[b].start + 1].brk
    <3>1. b \in 1 .. Len(breaks)
      BY <1>1
    <3>2. breaks[b].start \in 0 .. Segs
      BY <3>1, BreakFacts
    <3>3. breaks[b].start \in 0 .. (Segs - 1) /\ breaks[b].start + 1 \in 1 .. Segs
      BY <1>1, <2>8, <3>2
    <3> QED BY <1>1, <2>4, <2>5, <3>3
  <2>9. ASSUME NEW i \in 1 .. Segs
        PROVE  /\ marked[i].brk = None => marked[i].own = marked[i].ranged
               /\ marked[i].brk # None =>
                    ~ marked[i].own /\ marked[i].start = DateAt(i - 1) /\ DateAt(i - 1) # NoDate
    BY <1>1, <1>3, <2>9 DEF MarkersPlaced
  <2>10. ASSUME NEW b \in 1 .. (brk - 1), breaks[b].start < Segs,
                DateAt(breaks[b].start)' # NoDate
         PROVE  marked'[breaks[b].start + 1].brk # None
    BY <1>1, <1>3, <2>8, <2>10 DEF MarkersPlaced
  <2>11. ASSUME NEW i \in 1 .. Segs
         PROVE  /\ marked'[i].brk = None => marked'[i].own = marked'[i].ranged
                /\ marked'[i].brk # None =>
                     ~ marked'[i].own /\ marked'[i].start = DateAt(i - 1)'
                     /\ DateAt(i - 1)' # NoDate
    BY <2>4, <2>7, <2>9
  <2>12. None' = None /\ NoDate' = NoDate
    OBVIOUS
  <2> QED BY <1>1, <2>10, <2>11, <2>12 DEF MarkersPlaced
<1> QED BY <1>2, <1>3

LEMMA PlacedStep ==
  Inv /\ AdsPassed /\ MarkersSoFar /\ MarkersPlaced /\ [Next]_vars => MarkersPlaced'
<1> SUFFICES ASSUME Inv, AdsPassed, MarkersSoFar, MarkersPlaced, [Next]_vars
             PROVE  MarkersPlaced'
  OBVIOUS
<1>1. CASE Detect \/ AskAds \/ Stitch
  <2>1. phase' \in {"detect", "ask", "stitch", "done"}
    BY <1>1 DEF Detect, CueIn, CueOut, OtherTag, AtTag, NextTag, NextSegment,
       EndOfPlaylist, AskAds, Stitch, CopyBefore, AtBreak, SkipEmptyBreak, InsertAds,
       CopyRest, Finish
  <2> QED BY <2>1 DEF MarkersPlaced
<1>2. CASE Mark
  BY <1>2, PlacedBreak, PlacedStrip, PlacedDated DEF Mark
<1>3. CASE UNCHANGED vars
  <2>1. UNCHANGED <<tags, phase, breaks, brk, marked>>
    BY <1>3 DEF vars
  <2>2. \A i : DateAt(i)' = DateAt(i)
    BY <2>1 DEF DateAt, Anchors
  <2>3. Segs' = Segs
    BY <2>1 DEF Segs
  <2> QED BY <2>1, <2>2, <2>3 DEF MarkersPlaced
<1> QED BY <1>1, <1>2, <1>3 DEF Next

LEMMA MarkerExact ==
  ASSUME Inv, MarkersSoFar, MarkersPlaced, phase = "marked", breaks # << >>,
         NEW i \in 0 .. (Segs - 1),
         NEW seg, seg = marked[i + 1],
         NEW starting, starting = {b \in DOMAIN breaks : breaks[b].start = i}
  PROVE  /\ seg.tags = NotCues(tags[i + 1])
         /\ \/ /\ starting = {} \/ Timeline[i] = NoDate
               /\ seg.brk = None /\ seg.own = seg.ranged
            \/ /\ starting # {} /\ Timeline[i] # NoDate
               /\ seg.brk + 1 \in starting /\ seg.start = Timeline[i] /\ ~ seg.own
               /\ \A b \in starting : i < breaks[b].end => seg.brk = b - 1
<1>1. /\ Segs \in Nat /\ Len(breaks) \in Nat /\ i + 1 \in 1 .. Segs /\ (i + 1) - 1 = i
      /\ DOMAIN breaks = 1 .. Len(breaks)
  BY BreakFacts
<1>2. Dated /\ brk = Len(breaks) + 1 /\ brk - 1 = Len(breaks)
  BY <1>1 DEF MarkersSoFar
<1>3. Timeline[i] = DateAt(i)
  BY <1>1, <1>2, TimelineIsDateAt
<1>4. /\ seg.tags = NotCues(tags[i + 1])
      /\ seg.brk # None => seg.brk + 1 \in 1 .. (brk - 1) /\ breaks[seg.brk + 1].start = i
  BY <1>1 DEF MarkersSoFar
<1>5. /\ seg.brk = None => seg.own = seg.ranged
      /\ seg.brk # None => ~ seg.own /\ seg.start = DateAt(i) /\ DateAt(i) # NoDate
  BY <1>1 DEF MarkersPlaced
<1>6. ASSUME NEW b \in starting
      PROVE  b \in 1 .. (brk - 1) /\ breaks[b].start = i
  BY <1>1, <1>2
<1>7. ASSUME NEW b \in starting, Timeline[i] # NoDate
      PROVE  seg.brk # None
  <2>1. b \in 1 .. (brk - 1) /\ breaks[b].start = i /\ i < Segs
    BY <1>1, <1>6
  <2> QED BY <1>3, <1>7, <2>1 DEF MarkersPlaced
<1>8. ASSUME NEW b \in starting, i < breaks[b].end, Timeline[i] # NoDate
      PROVE  seg.brk = b - 1
  <2>1. b \in 1 .. (brk - 1) /\ breaks[b].start = i
    BY <1>6
  <2> QED BY <1>3, <1>8, <2>1 DEF MarkersSoFar
<1>9. CASE seg.brk = None
  <2>1. starting = {} \/ Timeline[i] = NoDate
    BY <1>7, <1>9
  <2> QED BY <1>4, <1>5, <1>9, <2>1
<1>10. CASE seg.brk # None
  <2>1. seg.brk + 1 \in starting
    BY <1>1, <1>2, <1>4, <1>10
  <2>2. Timeline[i] # NoDate
    BY <1>3, <1>5, <1>10
  <2> QED BY <1>3, <1>4, <1>5, <1>8, <1>10, <2>1, <2>2
<1> QED BY <1>9, <1>10

LEMMA MarkersExactIf == Inv /\ MarkersSoFar /\ MarkersPlaced => MarkersExact
<1> SUFFICES ASSUME Inv, MarkersSoFar, MarkersPlaced, phase = "marked", breaks # << >>
             PROVE  MarkersExact
  BY DEF MarkersExact
<1>1. ASSUME NEW i \in 0 .. (Segs - 1)
      PROVE  LET seg == marked[i + 1]
                 starting == {b \in DOMAIN breaks : breaks[b].start = i}
             IN  /\ seg.tags = NotCues(tags[i + 1])
                 /\ \/ /\ starting = {} \/ Timeline[i] = NoDate
                       /\ seg.brk = None /\ seg.own = seg.ranged
                    \/ /\ starting # {} /\ Timeline[i] # NoDate
                       /\ seg.brk + 1 \in starting /\ seg.start = Timeline[i] /\ ~ seg.own
                       /\ \A b \in starting : i < breaks[b].end => seg.brk = b - 1
  <2> DEFINE seg == marked[i + 1]
             starting == {b \in DOMAIN breaks : breaks[b].start = i}
  <2>1. /\ seg.tags = NotCues(tags[i + 1])
        /\ \/ /\ starting = {} \/ Timeline[i] = NoDate
              /\ seg.brk = None /\ seg.own = seg.ranged
           \/ /\ starting # {} /\ Timeline[i] # NoDate
              /\ seg.brk + 1 \in starting /\ seg.start = Timeline[i] /\ ~ seg.own
              /\ \A b \in starting : i < breaks[b].end => seg.brk = b - 1
    <3>1. seg = marked[i + 1] /\ starting = {b \in DOMAIN breaks : breaks[b].start = i}
      OBVIOUS
    <3> HIDE DEF seg, starting
    <3> QED BY <3>1, MarkerExact
  <2> QED BY Zenon, <2>1
<1> QED BY Zenon, <1>1 DEF MarkersExact

(* In SGAI mode, on every playlist with any dates: a segment has a marker   *)
(* exactly when a break starts there at a known time, with that time, and of *)
(* the break that holds the segment if one does; the marker takes the place *)
(* of a daterange of the origin, and every other segment keeps its own; of  *)
(* the other tags the cues are gone and nothing else.                       *)
THEOREM MarkersAreExact == Spec => []MarkersExact
<1>1. Spec => []MarkersSoFar
  BY InitFresh, FreshMarkers, MarkersStep, AdsPassedInvariant, StitchInvariant, PTL DEF Spec
<1>2. Spec => []MarkersPlaced
  BY InitFresh, FreshPlaced, PlacedStep, <1>1, AdsPassedInvariant, StitchInvariant, PTL DEF Spec
<1> QED BY MarkersExactIf, <1>1, <1>2, StitchInvariant, PTL

-----------------------------------------------------------------------------
(* Live streams.  The handler starts anew with every playlist, so what holds *)
(* of one playlist holds of each of a stream.                               *)
AllInv == Inv /\ DetectionInv /\ AdsPassed /\ IntendedSoFar /\ MarkersSoFar
          /\ MarkersPlaced

LEMMA FreshAll == Fresh => AllInv
  BY FreshInv, FreshDetection, FreshAdsPassed, FreshIntended, FreshMarkers,
     FreshPlaced DEF AllInv

LEMMA AllStep == AllInv /\ [Next]_vars => AllInv'
<1> SUFFICES ASSUME AllInv, [Next]_vars PROVE AllInv'
  OBVIOUS
<1>1. Inv'
  <2>1. Inv /\ UNCHANGED vars => Inv'
    BY DEF vars, Inv, TypeOK, MarksOK, BreaksInOrder, BehindTheScan, Segs
  <2> QED BY <2>1, DetectInv, StitchInv, MarkInv DEF AllInv, Next
<1>2. DetectionInv'
  BY DetectionStep, DetectionKept DEF AllInv, Next
<1> QED BY <1>1, <1>2, AdsPassedStep, IntendedStep, MarkersStep, PlacedStep DEF AllInv

LiveOK ==
  /\ live = Vod \/ live \in Streams
  /\ first \in Nat

(* What a step does to the playlist and its stitching.                      *)
LEMMA LiveSteps ==
  ASSUME AllInv, LiveOK, LiveNext
  PROVE  [Next]_vars \/ Fresh'
<1>1. CASE live = Vod /\ PlaylistNext
  BY <1>1 DEF PlaylistNext, ServeMedia, ServeMaster
<1>2. CASE Handle
  BY <1>2 DEF Handle, Next, Mark
<1>3. CASE AskLive
  BY <1>3 DEF AskLive, Next
<1>4. CASE DateLive
  <2> DEFINE d == {i \in 0 .. (Segs - 1) : first + i \in live.dated}
  <2>1. (\E r \in Ranges : EnsureDates(d, r)) /\ d \in SUBSET (0 .. (Segs - 1))
    BY <1>4 DEF DateLive
  <2> HIDE DEF d
  <2> QED BY <2>1 DEF Next, Mark
<1>5. CASE Play \/ Show
  BY <1>5 DEF Play, Show
<1>6. CASE Refresh /\ live # Vod
  <2>1. PICK from \in first .. Length, end \in (first + Segs + 1) .. Length :
          from < end /\ tags' = SubSeq(live.tags, from + 1, end)
    BY <1>6 DEF Refresh
  <2>2. live.tags \in Seq(TagLists) /\ Length = Len(live.tags) /\ Length \in Nat
    BY <1>6, StreamsAssumption DEF LiveOK, Length
  <2>3. Segs \in Nat /\ first \in Nat
    BY BreakFacts DEF AllInv, LiveOK
  <2>4. from + 1 \in 1 .. Len(live.tags) /\ end \in 1 .. Len(live.tags)
    BY <2>1, <2>2, <2>3
  <2>5. tags' \in Seq(TagLists)
    BY <2>1, <2>2, <2>4
  <2> QED BY <1>6, <2>5 DEF Refresh, Fresh
<1> QED BY <1>1, <1>2, <1>3, <1>4, <1>5, <1>6 DEF LiveNext

LEMMA LiveOKStep == AllInv /\ LiveOK /\ [LiveNext]_hlsVars => LiveOK'
<1> SUFFICES ASSUME AllInv, LiveOK, [LiveNext]_hlsVars PROVE LiveOK'
  OBVIOUS
<1>1. CASE Refresh
  <2>1. live' = live /\ \E from \in first .. Length : first' = from
    BY <1>1 DEF Refresh
  <2> QED BY <2>1 DEF LiveOK
<1>2. CASE ~Refresh
  <2>1. UNCHANGED <<live, first>>
    BY <1>2 DEF LiveNext, Handle, AskLive, DateLive, Play, Show, hlsVars, liveVars
  <2> QED BY <2>1 DEF LiveOK
<1> QED BY <1>1, <1>2

LEMMA LiveInvariant == LiveSpec => [](AllInv /\ LiveOK)
<1>1. LiveInit => AllInv /\ LiveOK
  BY InitFresh, FreshAll DEF LiveInit, PlaylistInit, LiveOK
<1>2. AllInv /\ LiveOK /\ [LiveNext]_hlsVars => (AllInv /\ LiveOK)'
  <2> SUFFICES ASSUME AllInv, LiveOK, [LiveNext]_hlsVars PROVE AllInv'
    BY LiveOKStep
  <2>1. Fresh' => AllInv'
    BY FreshAll, PTL
  <2>2. CASE UNCHANGED hlsVars
    BY <2>2, AllStep DEF hlsVars, allVars
  <2> QED BY <2>1, <2>2, LiveSteps, AllStep
<1> QED BY <1>1, <1>2, PTL DEF LiveSpec

(* Every playlist of a live stream, and every other one on its way to the   *)
(* player, is scanned, stitched and marked as a single playlist is, whatever *)
(* window of the stream it is and whatever came before it.                  *)
THEOREM LivePlaylistsExact ==
  LiveSpec => [](/\ TypeOK /\ BreaksInOrder /\ DetectionExact
                 /\ AdsInOrder /\ StitchedAsIntended /\ MarkersExact)
<1>1. AllInv => /\ TypeOK /\ BreaksInOrder /\ DetectionExact
                /\ AdsInOrder /\ StitchedAsIntended /\ MarkersExact
  BY AdsInOrderIf, StitchedAsIntendedIf, MarkersExactIf DEF AllInv, Inv, DetectionInv
<1> QED BY <1>1, LiveInvariant, PTL

-----------------------------------------------------------------------------
(* The numbers of the breaks.  A CUE-OUT starts a break unless one is open; *)
(* the number of a break is how many of these come before it.               *)

(* LastCueIsOut for any list of segments' tags.                             *)
LastOut(T, i, n) ==
  \E j \in 0 .. (Len(T) - 1) : \E k \in DOMAIN T[j + 1] :
    /\ ComesBefore(j, k, i, n)
    /\ T[j + 1][k] = "out"
    /\ \A m \in 0 .. (Len(T) - 1) : \A p \in DOMAIN T[m + 1] :
         ComesBefore(j, k, m, p) /\ ComesBefore(m, p, i, n) =>
           T[m + 1][p] \notin {"out", "in"}

(* Where breaks are started before tag n of segment i.                      *)
Opened(T, i, n) ==
  {p \in (0 .. (Len(T) - 1)) \X Nat :
     /\ p[2] \in DOMAIN T[p[1] + 1]
     /\ ComesBefore(p[1], p[2], i, n)
     /\ T[p[1] + 1][p[2]] = "out"
     /\ ~LastOut(T, p[1], p[2])}

LEMMA LastOutOfTags == \A i, n : LastCueIsOut(i, n) <=> LastOut(tags, i, n)
  BY DEF LastCueIsOut, LastOut, Segs, TagsOf

LEMMA TagListTyped ==
  ASSUME NEW T \in Seq(TagLists), NEW j \in 0 .. (Len(T) - 1)
  PROVE  DOMAIN T[j + 1] = 1 .. Len(T[j + 1]) /\ Len(T[j + 1]) \in Nat
<1>1. j + 1 \in 1 .. Len(T)
  OBVIOUS
<1>2. T[j + 1] \in TagLists
  BY <1>1
<1>3. T[j + 1] \in Seq({"out", "in", "cont", "other"})
  BY <1>2, TagsAssumption
<1> QED BY <1>3

(* What comes before a segment depends on the segments before it.           *)
LEMMA SameLastOut ==
  ASSUME NEW T \in Seq(TagLists), NEW U \in Seq(TagLists), NEW h \in Nat,
         h <= Len(T), h <= Len(U), \A j \in 1 .. h : T[j] = U[j],
         NEW i \in 0 .. (h - 1), NEW n \in Nat,
         LastOut(T, i, n)
  PROVE  LastOut(U, i, n)
<1>0. PICK j \in 0 .. (Len(T) - 1) : \E k \in DOMAIN T[j + 1] :
        /\ ComesBefore(j, k, i, n)
        /\ T[j + 1][k] = "out"
        /\ \A m \in 0 .. (Len(T) - 1) : \A p \in DOMAIN T[m + 1] :
             ComesBefore(j, k, m, p) /\ ComesBefore(m, p, i, n) =>
               T[m + 1][p] \notin {"out", "in"}
  BY DEF LastOut
<1>1. PICK k \in DOMAIN T[j + 1] :
        /\ ComesBefore(j, k, i, n)
        /\ T[j + 1][k] = "out"
        /\ \A m \in 0 .. (Len(T) - 1) : \A p \in DOMAIN T[m + 1] :
             ComesBefore(j, k, m, p) /\ ComesBefore(m, p, i, n) =>
               T[m + 1][p] \notin {"out", "in"}
  BY <1>0
<1>2. \A m \in Int : m >= 0 /\ m <= i => /\ m \in 0 .. (Len(T) - 1) /\ m \in 0 .. (Len(U) - 1)
                                         /\ T[m + 1] = U[m + 1]
  <2>1. \A m \in Int : m >= 0 /\ m <= i => m + 1 \in 1 .. h
    OBVIOUS
  <2> QED BY <2>1
<1>3. \A m \in Int : \A p : ComesBefore(m, p, i, n) => m <= i
  BY DEF ComesBefore
<1>4. j \in 0 .. (Len(U) - 1) /\ T[j + 1] = U[j + 1]
  BY <1>1, <1>2, <1>3
<1>5. ASSUME NEW m \in 0 .. (Len(U) - 1), NEW p \in DOMAIN U[m + 1],
             ComesBefore(j, k, m, p), ComesBefore(m, p, i, n)
      PROVE  U[m + 1][p] \notin {"out", "in"}
  <2>1. m \in 0 .. (Len(T) - 1) /\ T[m + 1] = U[m + 1]
    BY <1>2, <1>3, <1>5
  <2> QED BY <1>1, <1>5, <2>1
<1> QED BY <1>1, <1>4, <1>5 DEF LastOut

LEMMA OpenedIn ==
  ASSUME NEW T \in Seq(TagLists), NEW U \in Seq(TagLists), NEW h \in Nat,
         h <= Len(T), h <= Len(U), \A j \in 1 .. h : T[j] = U[j]
  PROVE  Opened(T, h, 1) \subseteq Opened(U, h, 1)
<1> SUFFICES ASSUME NEW p \in Opened(T, h, 1) PROVE p \in Opened(U, h, 1)
  OBVIOUS
<1>1. /\ p \in (0 .. (Len(T) - 1)) \X Nat
      /\ p[2] \in DOMAIN T[p[1] + 1]
      /\ ComesBefore(p[1], p[2], h, 1)
      /\ T[p[1] + 1][p[2]] = "out"
      /\ ~LastOut(T, p[1], p[2])
  BY DEF Opened
<1>2. p[1] \in 0 .. (Len(T) - 1) /\ p[2] \in Nat /\ p[2] >= 1
  <2>1. p[1] \in 0 .. (Len(T) - 1)
    BY <1>1
  <2>2. DOMAIN T[p[1] + 1] = 1 .. Len(T[p[1] + 1]) /\ Len(T[p[1] + 1]) \in Nat
    BY <2>1, TagListTyped
  <2> QED BY <1>1, <2>1, <2>2
<1>3. p[1] \in 0 .. (h - 1) /\ p[1] \in 0 .. (Len(U) - 1) /\ p[1] + 1 \in 1 .. h
  BY <1>1, <1>2 DEF ComesBefore
<1>4. T[p[1] + 1] = U[p[1] + 1]
  BY <1>3
<1>5. ~LastOut(U, p[1], p[2])
  BY <1>1, <1>2, <1>3, SameLastOut
<1>6. p \in (0 .. (Len(U) - 1)) \X Nat
  BY <1>1, <1>2, <1>3
<1> QED BY <1>1, <1>4, <1>5, <1>6 DEF Opened

LEMMA SameOpened ==
  ASSUME NEW T \in Seq(TagLists), NEW U \in Seq(TagLists), NEW h \in Nat,
         h <= Len(T), h <= Len(U), \A j \in 1 .. h : T[j] = U[j]
  PROVE  Opened(T, h, 1) = Opened(U, h, 1)
<1>1. Opened(T, h, 1) \subseteq Opened(U, h, 1)
  BY OpenedIn
<1>2. Opened(U, h, 1) \subseteq Opened(T, h, 1)
  BY OpenedIn
<1> QED BY <1>1, <1>2

(* Scanning one tag opens a break or not.                                   *)
LEMMA TagOpened ==
  ASSUME TypeOK, NEW i \in 0 .. (Segs - 1), NEW n \in 1 .. Len(TagsOf(i))
  PROVE  Opened(tags, i, n + 1) =
           IF TagsOf(i)[n] = "out" /\ ~LastCueIsOut(i, n)
           THEN Opened(tags, i, n) \cup {<<i, n>>} ELSE Opened(tags, i, n)
<1>0. /\ tags \in Seq(TagLists) /\ Segs = Len(tags) /\ n \in Nat
      /\ n \in DOMAIN tags[i + 1] /\ TagsOf(i) = tags[i + 1]
      /\ LastCueIsOut(i, n) <=> LastOut(tags, i, n)
  <2>1. tags \in Seq(TagLists) /\ Segs = Len(tags) /\ TagsOf(i) = tags[i + 1]
    BY DEF TypeOK, Segs, TagsOf
  <2>2. Len(TagsOf(i)) \in Nat /\ DOMAIN TagsOf(i) = 1 .. Len(TagsOf(i))
    BY TagsTyped
  <2> QED BY <2>1, <2>2, LastOutOfTags
<1>1. ASSUME NEW p \in (0 .. (Len(tags) - 1)) \X Nat
      PROVE  ComesBefore(p[1], p[2], i, n + 1) <=> ComesBefore(p[1], p[2], i, n) \/ p = <<i, n>>
  <2>1. p = <<p[1], p[2]>> /\ p[1] \in 0 .. (Len(tags) - 1) /\ p[2] \in Nat
    OBVIOUS
  <2>2. p = <<i, n>> <=> p[1] = i /\ p[2] = n
    BY <2>1
  <2>3. i \in Int /\ p[1] \in Int
    BY <2>1
  <2> QED BY <1>0, <2>1, <2>2, <2>3 DEF ComesBefore
<1>2. <<i, n>> \in (0 .. (Len(tags) - 1)) \X Nat
  BY <1>0
<1>3. ASSUME NEW p
      PROVE  p \in Opened(tags, i, n + 1) <=>
               \/ p \in Opened(tags, i, n)
               \/ p = <<i, n>> /\ TagsOf(i)[n] = "out" /\ ~LastCueIsOut(i, n)
  <2>1. CASE p = <<i, n>>
    <3>1. p[1] = i /\ p[2] = n /\ ~ComesBefore(i, n, i, n)
      BY <1>0, <2>1 DEF ComesBefore
    <3> QED BY <1>0, <1>1, <1>2, <2>1, <3>1 DEF Opened
  <2>2. CASE p # <<i, n>>
    BY <1>1, <2>2 DEF Opened
  <2> QED BY <2>1, <2>2
<1> QED BY <1>3

LEMMA SegmentOpened ==
  ASSUME TypeOK, NEW i \in 0 .. (Segs - 1), NEW n \in Nat, n > Len(TagsOf(i))
  PROVE  Opened(tags, i + 1, 1) = Opened(tags, i, n)
<1>0. tags \in Seq(TagLists) /\ Segs = Len(tags) /\ TagsOf(i) = tags[i + 1] /\ i \in Int
  BY DEF TypeOK, Segs, TagsOf
<1>1. ASSUME NEW p \in (0 .. (Len(tags) - 1)) \X Nat, p[2] \in DOMAIN tags[p[1] + 1]
      PROVE  ComesBefore(p[1], p[2], i + 1, 1) <=> ComesBefore(p[1], p[2], i, n)
  <2>1. p[1] \in 0 .. (Len(tags) - 1) /\ p[2] \in Nat
    OBVIOUS
  <2>2. p[2] >= 1 /\ p[2] <= Len(tags[p[1] + 1]) /\ Len(tags[p[1] + 1]) \in Nat
    BY <1>0, <1>1, <2>1, TagListTyped
  <2>3. CASE p[1] = i
    <3>1. p[2] < n
      BY <1>0, <2>1, <2>2, <2>3
    <3> QED BY <1>0, <2>1, <2>3, <3>1 DEF ComesBefore
  <2>4. CASE p[1] # i
    BY <1>0, <2>1, <2>2, <2>4 DEF ComesBefore
  <2> QED BY <2>3, <2>4
<1> QED BY <1>1 DEF Opened

LEMMA NothingOpened == ASSUME TypeOK PROVE Opened(tags, 0, 1) = {}
<1> SUFFICES ASSUME NEW p \in Opened(tags, 0, 1) PROVE FALSE
  OBVIOUS
<1>1. tags \in Seq(TagLists)
  BY DEF TypeOK
<1>2. p[1] \in 0 .. (Len(tags) - 1) /\ p[2] \in DOMAIN tags[p[1] + 1]
      /\ ComesBefore(p[1], p[2], 0, 1)
  BY DEF Opened
<1>3. p[2] >= 1 /\ p[2] \in Nat
  BY <1>1, <1>2, TagListTyped
<1> QED BY <1>2, <1>3 DEF ComesBefore

(* How many breaks have started so far, the open one included, and where.   *)
Started == Len(breaks) + (IF current = None THEN 0 ELSE 1)
StartOf(b) == IF b <= Len(breaks) THEN breaks[b].start ELSE current

(* The breaks that start before segment i are numbered from 1 on.           *)
StartsCounted(i) ==
  LET opened == Opened(tags, i, 1) IN
  /\ IsFiniteSet(opened) /\ Cardinality(opened) <= Started
  /\ \A b \in 1 .. Started : StartOf(b) < i <=> b <= Cardinality(opened)

ScanCounted ==
  /\ phase = "detect" =>
       /\ IsFiniteSet(Opened(tags, index, tag))
       /\ Cardinality(Opened(tags, index, tag)) = Started
       /\ \A i \in 0 .. index : StartsCounted(i)
  /\ phase # "detect" => current = None /\ \A i \in 0 .. Segs : StartsCounted(i)

LEMMA FreshCounted == Fresh => ScanCounted
<1> SUFFICES ASSUME Fresh PROVE ScanCounted
  OBVIOUS
<1>1. Opened(tags, 0, 1) = {}
  BY FreshInv, NothingOpened DEF Inv
<1>2. Started = 0 /\ index = 0 /\ tag = 1 /\ phase = "detect"
  BY DEF Fresh, Started
<1>3. \A i \in 0 .. index : i = 0
  BY <1>2
<1>4. StartsCounted(0)
  BY <1>1, <1>2, FS_EmptySet DEF StartsCounted
<1> QED BY <1>1, <1>2, <1>3, <1>4, FS_EmptySet DEF ScanCounted

LEMMA StartTyped ==
  ASSUME Inv
  PROVE  /\ Len(breaks) \in Nat /\ Started \in Nat /\ Segs \in Nat
         /\ \A b \in 1 .. Started : StartOf(b) \in Nat
         /\ phase = "detect" => \A b \in 1 .. Started : StartOf(b) <= index
<1>1. /\ Len(breaks) \in Nat /\ DOMAIN breaks = 1 .. Len(breaks)
      /\ Segs \in Nat /\ index \in Nat
  BY BreakFacts
<1>2. current # None => current \in Nat
  BY <1>1 DEF Inv, TypeOK, None
<1>3. ASSUME NEW b \in 1 .. Started
      PROVE  StartOf(b) \in Nat /\ (phase = "detect" => StartOf(b) <= index)
  <2>1. CASE b <= Len(breaks)
    <3>1. b \in 1 .. Len(breaks)
      BY <1>1, <2>1 DEF Started
    <3>2. breaks[b].start \in 0 .. Segs /\ breaks[b].end \in 0 .. Segs
          /\ breaks[b].start <= breaks[b].end
      BY <3>1, BreakFacts
    <3>3. phase = "detect" => breaks[b].end <= index
      BY <1>1, <3>1 DEF Inv, BehindTheScan
    <3>4. breaks[b].start \in Nat /\ breaks[b].end \in Nat
      BY <1>1, <3>2
    <3>5. phase = "detect" => breaks[b].start <= index
      BY <1>1, <3>2, <3>3, <3>4
    <3> QED BY <2>1, <3>4, <3>5 DEF StartOf
  <2>2. CASE ~(b <= Len(breaks))
    <3>1. current # None
      BY <1>1, <2>2 DEF Started
    <3>2. phase = "detect" => current <= index
      BY DEF Inv, BehindTheScan
    <3> QED BY <1>2, <2>2, <3>1, <3>2 DEF StartOf
  <2> QED BY <2>1, <2>2
<1>4. Started \in Nat
  BY <1>1 DEF Started
<1> QED BY <1>1, <1>3, <1>4

LEMMA SameNumbers ==
  ASSUME tags' = tags, Started' = Started,
         \A b \in 1 .. Started : StartOf(b)' = StartOf(b)
  PROVE  \A i : StartsCounted(i) => StartsCounted(i)'
  BY DEF StartsCounted

(* Closing the open break changes no number.                                *)
LEMMA BreakClosed ==
  ASSUME Inv, current # None, breaks' = Append(breaks, Break(current, index)), current' = None
  PROVE  /\ Started' = Started
         /\ \A b \in 1 .. Started : StartOf(b)' = StartOf(b)
<1> DEFINE r == Break(current, index)
<1>1. breaks \in Seq(BreakRecord) /\ Len(breaks) \in Nat
  BY DEF Inv, TypeOK, BreakRecord
<1>2. r.start = current
  BY DEF Break
<1> HIDE DEF r
<1>3. breaks' = Append(breaks, r)
  BY DEF r
<1>4. /\ Len(breaks') = Len(breaks) + 1
      /\ \A b \in 1 .. Len(breaks) : breaks'[b] = breaks[b]
      /\ breaks'[Len(breaks) + 1] = r
  BY <1>1, <1>3
<1>5. Started' = Started /\ Started = Len(breaks) + 1
  BY <1>1, <1>4 DEF Started, None
<1>6. ASSUME NEW b \in 1 .. Started
      PROVE  StartOf(b)' = StartOf(b)
  <2>1. b <= Len(breaks') /\ b \in Nat
    BY <1>1, <1>4, <1>5
  <2>2. CASE b <= Len(breaks)
    BY <1>1, <1>4, <2>1, <2>2 DEF StartOf
  <2>3. CASE ~(b <= Len(breaks))
    <3>1. b = Len(breaks) + 1
      BY <1>1, <1>5, <2>3
    <3> QED BY <1>2, <1>4, <2>1, <2>3, <3>1 DEF StartOf
  <2> QED BY <2>2, <2>3
<1> QED BY <1>5, <1>6

LEMMA CountedStep == Inv /\ DetectionInv /\ ScanCounted /\ Detect => ScanCounted'
<1> SUFFICES ASSUME Inv, DetectionInv, ScanCounted, Detect PROVE ScanCounted'
  OBVIOUS
<1>0. /\ phase = "detect" /\ tags' = tags /\ Segs' = Segs /\ TypeOK
      /\ Segs \in Nat /\ index \in 0 .. Segs /\ tag \in Nat
      /\ Started \in Nat /\ Len(breaks) \in Nat
  BY StartTyped DEF Detect, CueIn, CueOut, OtherTag, AtTag, NextTag, NextSegment,
     EndOfPlaylist, Inv, TypeOK, Segs
<1>1. /\ current # None <=> LastCueIsOut(index, tag)
      /\ IsFiniteSet(Opened(tags, index, tag))
      /\ Cardinality(Opened(tags, index, tag)) = Started
      /\ \A i \in 0 .. index : StartsCounted(i)
  BY <1>0 DEF ScanCounted, DetectionInv, ScanExact
<1>2. CASE CueIn \/ OtherTag
  <2>1. /\ phase' = "detect" /\ index' = index /\ tag' = tag + 1
        /\ index \in 0 .. (Segs - 1) /\ tag \in 1 .. Len(TagsOf(index))
        /\ TagsOf(index)[tag] # "out"
        /\ \/ breaks' = breaks /\ current' = current
           \/ /\ current # None /\ current' = None
              /\ breaks' = Append(breaks, Break(current, index))
    <3>1. /\ phase' = "detect" /\ index' = index /\ tag' = tag + 1
          /\ index < Segs /\ tag <= Len(TagsOf(index))
          /\ TagsOf(index)[tag] # "out"
      BY <1>2 DEF CueIn, OtherTag, AtTag, NextTag
    <3>2. \/ breaks' = breaks /\ current' = current
          \/ /\ current # None /\ current' = None
             /\ breaks' = Append(breaks, Break(current, index))
      BY <1>2 DEF CueIn, OtherTag
    <3>3. index \in Nat /\ Segs \in Nat /\ tag \in Nat /\ tag >= 1
      BY <1>0 DEF TypeOK, Segs
    <3>4. index \in 0 .. (Segs - 1)
      BY <3>1, <3>3
    <3>5. Len(TagsOf(index)) \in Nat
      BY <1>0, <3>4, TagsTyped
    <3>6. tag \in 1 .. Len(TagsOf(index))
      BY <3>1, <3>3, <3>5
    <3> QED BY <3>1, <3>2, <3>4, <3>6
  <2>2. Opened(tags, index, tag + 1) = Opened(tags, index, tag)
    BY <1>0, <2>1, TagOpened
  <2>3. Started' = Started /\ \A b \in 1 .. Started : StartOf(b)' = StartOf(b)
    BY <2>1, BreakClosed DEF Started, StartOf
  <2>4. \A i : StartsCounted(i) => StartsCounted(i)'
    BY <1>0, <2>3, SameNumbers
  <2>5. Opened(tags, index, tag)' = Opened(tags, index, tag)
    BY <1>0, <2>1, <2>2
  <2> QED BY <1>1, <2>1, <2>3, <2>4, <2>5 DEF ScanCounted
<1>3. CASE CueOut
  <2>1. /\ phase' = "detect" /\ index' = index /\ tag' = tag + 1
        /\ index \in 0 .. (Segs - 1) /\ tag \in 1 .. Len(TagsOf(index))
        /\ TagsOf(index)[tag] = "out"
        /\ breaks' = breaks
        /\ current' = IF current = None THEN index ELSE current
    BY <1>0, <1>3, TagsTyped DEF CueOut, AtTag, NextTag, TypeOK
  <2>2. CASE current # None
    <3>1. Opened(tags, index, tag)' = Opened(tags, index, tag)
      BY <1>0, <1>1, <2>1, <2>2, TagOpened
    <3>2. Started' = Started /\ \A b \in 1 .. Started : StartOf(b)' = StartOf(b)
      BY <2>1, <2>2 DEF Started, StartOf
    <3>3. \A i : StartsCounted(i) => StartsCounted(i)'
      BY <1>0, <3>2, SameNumbers
    <3> QED BY <1>1, <2>1, <3>1, <3>2, <3>3 DEF ScanCounted
  <2>3. CASE current = None
    <3>1. Opened(tags, index, tag)' = Opened(tags, index, tag) \cup {<<index, tag>>}
      BY <1>0, <1>1, <2>1, <2>3, TagOpened
    <3>2. <<index, tag>> \notin Opened(tags, index, tag)
      <4>1. ~ComesBefore(index, tag, index, tag)
        BY <1>0 DEF ComesBefore
      <4> QED BY <4>1 DEF Opened
    <3>3. current' = index /\ current' # None /\ index \in Nat
      BY <1>0, <2>1, <2>3 DEF None
    <3>4. Started = Len(breaks) /\ Started' = Started + 1
      BY <1>0, <2>1, <2>3, <3>3 DEF Started, None
    <3>5. /\ \A b \in 1 .. Started : StartOf(b)' = StartOf(b)
          /\ \A b : b = Started + 1 => StartOf(b)' = index
      BY <1>0, <2>1, <3>3, <3>4 DEF StartOf
    <3>6. /\ IsFiniteSet(Opened(tags, index, tag)')
          /\ Cardinality(Opened(tags, index, tag)') = Started + 1
      BY <1>1, <3>1, <3>2, FS_AddElement
    <3>7. ASSUME NEW i \in 0 .. index
          PROVE  StartsCounted(i)'
      <4> DEFINE c == Cardinality(Opened(tags, i, 1))
      <4>1. /\ IsFiniteSet(Opened(tags, i, 1)) /\ c <= Started /\ c \in Nat
            /\ \A b \in 1 .. Started : StartOf(b) < i <=> b <= c
        BY <1>1, FS_CardinalityType DEF StartsCounted
      <4>2. Opened(tags, i, 1)' = Opened(tags, i, 1)
        BY <1>0
      <4> HIDE DEF c
      <4>3. ASSUME NEW b \in 1 .. (Started + 1)
            PROVE  StartOf(b)' < i <=> b <= c
        <5>1. CASE b \in 1 .. Started
          BY <3>5, <4>1, <5>1
        <5>2. CASE b = Started + 1
          <6>1. StartOf(b)' = index
            BY <3>5, <5>2
          <6>2. ~(index < i) /\ ~(b <= c)
            BY <1>0, <3>3, <4>1, <5>2
          <6> QED BY <6>1, <6>2
        <5> QED BY <1>0, <5>1, <5>2
      <4>4. c <= Started'
        BY <1>0, <3>4, <4>1
      <4> QED BY <3>4, <4>1, <4>2, <4>3, <4>4 DEF StartsCounted, c
    <3> QED BY <2>1, <3>4, <3>6, <3>7 DEF ScanCounted
  <2> QED BY <2>2, <2>3
<1>4. CASE NextSegment
  <2>1. /\ phase' = "detect" /\ index' = index + 1 /\ tag' = 1
        /\ index \in 0 .. (Segs - 1) /\ tag > Len(TagsOf(index))
        /\ breaks' = breaks /\ current' = current
    BY <1>0, <1>4 DEF NextSegment
  <2>2. Opened(tags, index + 1, 1) = Opened(tags, index, tag)
    BY <1>0, <2>1, SegmentOpened
  <2>3. Opened(tags, index, tag)' = Opened(tags, index, tag)
    BY <1>0, <2>1, <2>2
  <2>4. Started' = Started /\ \A b : StartOf(b)' = StartOf(b)
    BY <2>1 DEF Started, StartOf
  <2>5. \A i : StartsCounted(i) => StartsCounted(i)'
    BY <1>0, <2>4, SameNumbers
  <2>6. StartsCounted(index + 1)
    <3>1. \A b \in 1 .. Started : StartOf(b) < index + 1 /\ b <= Started
      BY <1>0, StartTyped
    <3> QED BY <1>0, <1>1, <2>2, <3>1 DEF StartsCounted
  <2>7. \A i \in 0 .. index' : i \in 0 .. index \/ i = index + 1
    BY <1>0, <2>1
  <2> QED BY <1>1, <2>1, <2>3, <2>4, <2>5, <2>6, <2>7 DEF ScanCounted
<1>5. CASE EndOfPlaylist
  <2>1. /\ phase' # "detect" /\ index = Segs /\ current' = None
        /\ \/ current = None /\ breaks' = breaks
           \/ current # None /\ breaks' = Append(breaks, Break(current, index))
    BY <1>5 DEF EndOfPlaylist
  <2>2. Started' = Started /\ \A b \in 1 .. Started : StartOf(b)' = StartOf(b)
    BY <2>1, BreakClosed DEF Started, StartOf
  <2>3. \A i : StartsCounted(i) => StartsCounted(i)'
    BY <1>0, <2>2, SameNumbers
  <2> QED BY <1>0, <1>1, <2>1, <2>3 DEF ScanCounted
<1> QED BY <1>2, <1>3, <1>4, <1>5 DEF Detect

LEMMA CountedKept ==
  Inv /\ ScanCounted /\ (AskAds \/ Stitch \/ Mark \/ UNCHANGED vars) => ScanCounted'
<1> SUFFICES ASSUME Inv, ScanCounted, AskAds \/ Stitch \/ Mark \/ UNCHANGED vars
             PROVE  ScanCounted'
  OBVIOUS
<1>1. UNCHANGED <<tags, breaks, current>>
  BY DEF AskAds, Stitch, CopyBefore, AtBreak, SkipEmptyBreak, InsertAds, CopyRest,
     Finish, Mark, MarkBreak, StripCues, EnsureDates, vars
<1>2. Started' = Started /\ \A b : StartOf(b)' = StartOf(b)
  BY <1>1 DEF Started, StartOf
<1>3. (\A i : StartsCounted(i) => StartsCounted(i)') /\ Segs' = Segs
  BY <1>1, <1>2, SameNumbers DEF Segs
<1>4. CASE UNCHANGED vars
  <2>1. UNCHANGED <<index, tag, phase>>
    BY <1>4 DEF vars
  <2> QED BY <1>1, <1>2, <1>3, <2>1 DEF ScanCounted
<1>5. CASE AskAds \/ Stitch \/ Mark
  <2>1. phase # "detect" /\ phase' # "detect"
    BY <1>5 DEF AskAds, Stitch, CopyBefore, AtBreak, SkipEmptyBreak, InsertAds, CopyRest,
       Finish, Mark, MarkBreak, StripCues, EnsureDates
  <2> QED BY <1>1, <1>3, <2>1 DEF ScanCounted
<1> QED BY <1>4, <1>5

(* The marker of a segment is the last break's that starts there, with the  *)
(* time the segment starts at.                                              *)
MarkersLast ==
  phase \in {"mark", "marked"} =>
    /\ breaks = << >> => phase = "marked" /\ \A i \in 1 .. Segs : marked[i].brk = None
    /\ breaks # << >> =>
         \A i \in 1 .. Segs : marked[i].brk # None =>
           /\ marked[i].start = DateAt(i - 1) /\ DateAt(i - 1) # NoDate
           /\ \A c \in 1 .. (brk - 1) : breaks[c].start = i - 1 => c <= marked[i].brk + 1

LEMMA LastBreak ==
  ASSUME Inv, MarkersSoFar, MarkersLast, MarkBreak
  PROVE  MarkersLast'
<1> DEFINE s == breaks[brk].start
           new == [tags |-> marked[s + 1].tags, date |-> marked[s + 1].date,
                   brk |-> brk - 1, start |-> DateAt(s),
                   own |-> FALSE, ranged |-> marked[s + 1].ranged]
<1>1. /\ Segs \in Nat /\ Len(breaks) \in Nat /\ brk \in 1 .. Len(breaks)
      /\ tags' = tags /\ breaks' = breaks /\ brk' = brk + 1
      /\ phase = "mark" /\ phase' = "mark" /\ Segs' = Segs /\ breaks # << >>
      /\ s \in 0 .. Segs
  BY BreakFacts DEF MarkBreak, Segs
<1>2. /\ Dated
      /\ \A i \in 1 .. Segs : marked[i].brk # None => marked[i].brk + 1 \in 1 .. (brk - 1)
  BY <1>1 DEF MarkersSoFar
<1>3. \A i \in 1 .. Segs : marked[i].brk # None =>
        /\ marked[i].start = DateAt(i - 1) /\ DateAt(i - 1) # NoDate
        /\ \A c \in 1 .. (brk - 1) : breaks[c].start = i - 1 => c <= marked[i].brk + 1
  BY <1>1 DEF MarkersLast
<1>4. 1 .. (brk' - 1) = 1 .. brk /\ \A c \in 1 .. brk : c \in 1 .. (brk - 1) \/ c = brk
  BY <1>1
<1>5. CASE s >= Segs \/ DateAt(s) = NoDate
  <2>1. marked' = marked
    BY <1>5 DEF MarkBreak
  <2>2. \A i : DateAt(i)' = DateAt(i)
    BY <2>1 DEF DateAt, Anchors
  <2>3. ASSUME NEW i \in 1 .. Segs, marked[i].brk # None
        PROVE  s # i - 1
    <3>1. DateAt(i - 1) # NoDate
      BY <1>3, <2>3
    <3> QED BY <1>1, <1>5, <3>1
  <2>4. ASSUME NEW i \in 1 .. Segs, marked[i].brk # None,
               NEW c \in 1 .. brk, breaks[c].start = i - 1
        PROVE  c <= marked[i].brk + 1
    <3>1. c # brk
      BY <2>3, <2>4
    <3>2. c \in 1 .. (brk - 1)
      BY <1>4, <3>1
    <3> QED BY <1>3, <2>4, <3>2
  <2> QED BY <1>1, <1>3, <1>4, <2>1, <2>2, <2>4 DEF MarkersLast, None
<1>6. CASE ~(s >= Segs \/ DateAt(s) = NoDate)
  <2>0. s + 1 \in 1 .. Segs
    BY <1>1, <1>6
  <2>1. marked' = [marked EXCEPT ![s + 1] = new]
    BY <1>6 DEF MarkBreak
  <2>2. DOMAIN marked = 1 .. Segs
    BY <1>2 DEF Dated
  <2>3. new.date = marked[s + 1].date /\ new.brk = brk - 1 /\ new.start = DateAt(s)
    OBVIOUS
  <2> HIDE DEF new
  <2>4. /\ marked'[s + 1] = new
        /\ \A i \in 1 .. Segs : i # s + 1 => marked'[i] = marked[i]
    BY <2>0, <2>1, <2>2
  <2>5. \A i \in 1 .. Segs : marked'[i].date = marked[i].date
    BY <2>3, <2>4
  <2>6. \A i \in 0 .. (Segs - 1) : DateAt(i)' = DateAt(i)
    BY <1>1, <1>2, <2>5, SameDates
  <2>7. ASSUME NEW i \in 1 .. Segs, marked'[i].brk # None
        PROVE  /\ marked'[i].start = DateAt(i - 1) /\ DateAt(i - 1) # NoDate
               /\ \A c \in 1 .. brk : breaks[c].start = i - 1 => c <= marked'[i].brk + 1
    <3>1. CASE i = s + 1
      <4>1. i - 1 = s /\ marked'[i].brk + 1 = brk
        BY <1>1, <2>3, <2>4, <3>1
      <4>2. \A c \in 1 .. brk : c <= brk
        BY <1>1
      <4>3. marked'[i].start = DateAt(s)
        BY <2>3, <2>4, <3>1
      <4> QED BY <1>6, <4>1, <4>2, <4>3
    <3>2. CASE i # s + 1
      <4>1. marked'[i] = marked[i]
        BY <2>4, <3>2
      <4>2. s # i - 1
        BY <1>1, <3>2
      <4>3. \A c \in 1 .. brk : breaks[c].start = i - 1 => c \in 1 .. (brk - 1)
        BY <1>4, <4>2
      <4> QED BY <1>3, <2>7, <4>1, <4>3
    <3> QED BY <3>1, <3>2
  <2>8. \A i \in 1 .. Segs : i - 1 \in 0 .. (Segs - 1)
    BY <1>1
  <2>9. \A i \in 1 .. Segs : DateAt(i - 1)' = DateAt(i - 1)
    BY <2>6, <2>8
  <2> QED BY <1>1, <1>4, <2>7, <2>9 DEF MarkersLast, None
<1> QED BY <1>5, <1>6

LEMMA LastStrip ==
  ASSUME Inv, MarkersSoFar, MarkersLast, StripCues
  PROVE  MarkersLast'
<1>1. /\ Segs \in Nat
      /\ tags' = tags /\ breaks' = breaks /\ brk' = brk
      /\ phase = "mark" /\ phase' = "marked" /\ Segs' = Segs
      /\ marked' = [i \in DOMAIN marked |-> WithoutCues(marked[i])]
  BY BreakFacts DEF StripCues, Segs
<1>2. breaks # << >>
  BY <1>1 DEF MarkersLast
<1>3. Dated /\ DOMAIN marked = 1 .. Segs
  BY <1>1, <1>2 DEF MarkersSoFar, Dated
<1>4. \A seg : /\ WithoutCues(seg).date = seg.date /\ WithoutCues(seg).brk = seg.brk
               /\ WithoutCues(seg).start = seg.start
  BY Zenon DEF WithoutCues
<1>5. \A i \in 1 .. Segs : marked'[i] = WithoutCues(marked[i])
  BY <1>1, <1>3
<1>6. \A i \in 1 .. Segs : /\ marked'[i].date = marked[i].date
                           /\ marked'[i].brk = marked[i].brk
                           /\ marked'[i].start = marked[i].start
  BY <1>4, <1>5
<1>7. \A i \in 0 .. (Segs - 1) : DateAt(i)' = DateAt(i)
  BY <1>1, <1>3, <1>6, SameDates
<1>8. \A i \in 1 .. Segs : i - 1 \in 0 .. (Segs - 1)
  BY <1>1
<1>9. \A i \in 1 .. Segs : DateAt(i - 1)' = DateAt(i - 1)
  BY <1>7, <1>8
<1>10. \A i \in 1 .. Segs : marked[i].brk # None =>
         /\ marked[i].start = DateAt(i - 1) /\ DateAt(i - 1) # NoDate
         /\ \A c \in 1 .. (brk - 1) : breaks[c].start = i - 1 => c <= marked[i].brk + 1
  BY <1>1, <1>2 DEF MarkersLast
<1> QED BY <1>1, <1>2, <1>6, <1>9, <1>10 DEF MarkersLast, None

LEMMA LastStep == Inv /\ MarkersSoFar /\ MarkersLast /\ [Next]_vars => MarkersLast'
<1> SUFFICES ASSUME Inv, MarkersSoFar, MarkersLast, [Next]_vars PROVE MarkersLast'
  OBVIOUS
<1>1. CASE Detect \/ AskAds \/ Stitch
  <2>1. phase' \in {"detect", "ask", "stitch", "done"}
    BY <1>1 DEF Detect, CueIn, CueOut, OtherTag, AtTag, NextTag, NextSegment,
       EndOfPlaylist, AskAds, Stitch, CopyBefore, AtBreak, SkipEmptyBreak, InsertAds,
       CopyRest, Finish
  <2> QED BY <2>1 DEF MarkersLast
<1>2. ASSUME NEW d \in SUBSET (0 .. (Segs - 1)), NEW r \in Ranges, EnsureDates(d, r)
      PROVE  MarkersLast'
  <2>1. /\ breaks' = breaks /\ tags' = tags
        /\ phase' = IF breaks = << >> THEN "marked" ELSE "mark"
        /\ \A i \in 1 .. Segs : marked'[i].brk = None
    BY <1>2 DEF EnsureDates
  <2> QED BY <2>1 DEF MarkersLast, Segs, None
<1>3. CASE UNCHANGED vars
  <2>1. UNCHANGED <<tags, phase, breaks, brk, marked>>
    BY <1>3 DEF vars
  <2>2. \A i : DateAt(i)' = DateAt(i)
    BY <2>1 DEF DateAt, Anchors
  <2> QED BY <2>1, <2>2 DEF MarkersLast, Segs, None
<1> QED BY <1>1, <1>2, <1>3, LastBreak, LastStrip DEF Next, Mark

(* A marker's number is that of the last break before the next segment.     *)
LEMMA MarkerNumber ==
  ASSUME Inv, ScanCounted, MarkersSoFar, MarkersLast, phase = "marked",
         NEW i \in 1 .. Segs, marked[i].brk # None
  PROVE  marked[i].brk = Cardinality(Opened(tags, i, 1)) - 1 /\ breaks # << >>
<1> DEFINE c == marked[i].brk + 1
           m == Cardinality(Opened(tags, i, 1))
<1>1. /\ breaks # << >> /\ brk = Len(breaks) + 1 /\ c \in 1 .. Len(breaks)
      /\ breaks[c].start = i - 1 /\ Len(breaks) \in Nat /\ Segs \in Nat
  <2>1. breaks # << >>
    BY DEF MarkersLast
  <2>2. Len(breaks) \in Nat /\ Segs \in Nat
    BY BreakFacts
  <2> QED BY <2>1, <2>2 DEF MarkersSoFar
<1>2. \A d \in 1 .. Len(breaks) : breaks[d].start = i - 1 => d <= c
  BY <1>1 DEF MarkersLast
<1>3. /\ m \in Nat /\ m <= Len(breaks)
      /\ \A d \in 1 .. Len(breaks) : breaks[d].start < i <=> d <= m
  <2>1. Started = Len(breaks) /\ StartsCounted(i)
    BY <1>1 DEF ScanCounted, Started
  <2>2. \A d \in 1 .. Len(breaks) : StartOf(d) = breaks[d].start
    BY <1>1 DEF StartOf
  <2> QED BY <2>1, <2>2, FS_CardinalityType DEF StartsCounted
<1> HIDE DEF c, m
<1>4. c <= m
  BY <1>1, <1>3
<1>5. ~(c < m)
  <2> SUFFICES ASSUME c < m PROVE FALSE
    OBVIOUS
  <2>1. m \in 1 .. Len(breaks) /\ c \in 1 .. Len(breaks)
    BY <1>1, <1>3, <1>4
  <2>2. breaks[m].start < i
    BY <1>3, <2>1
  <2>3. breaks[c].end <= breaks[m].start
    BY <2>1, BreakFacts
  <2>4. breaks[c].start <= breaks[c].end /\ breaks[c].end \in 0 .. Segs
        /\ breaks[m].start \in 0 .. Segs
    BY <2>1, BreakFacts
  <2>5. breaks[m].start = i - 1
    BY <1>1, <2>2, <2>3, <2>4
  <2> QED BY <1>1, <1>2, <1>3, <2>1, <2>5
<1>6. c = m
  BY <1>1, <1>3, <1>4, <1>5
<1>7. marked[i].brk = c - 1
  <2>1. marked[i].brk \in Int
    BY DEF Inv, TypeOK, MarksOK, None
  <2> QED BY <2>1 DEF c
<1> QED BY <1>1, <1>6, <1>7 DEF m

(* The time of a marker: of the last date from there back, or from the      *)
(* first segment without any.                                               *)
DatedHere == {j \in 0 .. (Segs - 1) : first + j \in live.dated}

WindowDated ==
  \A i \in 1 .. Segs :
    marked[i].date = IF DatedHere = {} THEN i - 1
                     ELSE IF i - 1 \in DatedHere THEN 2 * (i - 1) ELSE NoDate

LEMMA MarkerTime ==
  ASSUME Segs \in Nat, Dated, WindowDated, NEW i \in 1 .. Segs, DateAt(i - 1) # NoDate
  PROVE  /\ DatedHere = {} => DateAt(i - 1) = i - 1
         /\ DatedHere # {} =>
              \E a \in DatedHere : /\ a <= i - 1
                                   /\ \A k \in DatedHere : k <= i - 1 => k <= a
                                   /\ DateAt(i - 1) = a + i - 1
<1>1. PICK j : j \in Anchors(i - 1)
  BY DEF DateAt
<1>2. i - 1 \in 0 .. (Segs - 1)
  OBVIOUS
<1>3. PICK a \in Anchors(i - 1) :
        /\ \A k \in Anchors(i - 1) : k <= a
        /\ DateAt(i - 1) = marked[a + 1].date + (i - 1 - a)
  BY <1>1, <1>2, LastAnchor
<1>4. /\ a \in 0 .. (i - 1) /\ a + 1 \in 1 .. Segs /\ (a + 1) - 1 = a
      /\ marked[a + 1].date # NoDate
  BY <1>3 DEF Anchors
<1>5. CASE DatedHere = {}
  <2>1. marked[i].date = i - 1 /\ marked[a + 1].date = a
    BY <1>4, <1>5 DEF WindowDated
  <2>2. i - 1 \in Anchors(i - 1)
    <3>1. (i - 1) + 1 = i /\ i - 1 # NoDate
      BY DEF NoDate
    <3> QED BY <2>1, <3>1 DEF Anchors
  <2>3. a = i - 1
    BY <1>3, <1>4, <2>2
  <2> QED BY <1>3, <1>4, <1>5, <2>1, <2>3
<1>6. CASE DatedHere # {}
  <2>1. a \in DatedHere /\ marked[a + 1].date = 2 * a
    BY <1>4, <1>6 DEF WindowDated
  <2>2. ASSUME NEW k \in DatedHere, k <= i - 1
        PROVE  k <= a
    <3>1. k \in 0 .. (i - 1) /\ k + 1 \in 1 .. Segs /\ (k + 1) - 1 = k
      BY <2>2 DEF DatedHere
    <3>2. marked[k + 1].date = 2 * k /\ 2 * k # NoDate
      BY <1>6, <3>1 DEF WindowDated, NoDate
    <3> QED BY <1>3, <3>1, <3>2 DEF Anchors
  <2>3. DateAt(i - 1) = a + i - 1
    BY <1>3, <1>4, <2>1
  <2> QED BY <1>4, <1>6, <2>1, <2>2, <2>3
<1> QED BY <1>5, <1>6

-----------------------------------------------------------------------------
(* The markers of a live stream.  A playlist is a window of the stream, and *)
(* its dates are those of the stream in the window.                         *)
WindowInv ==
  live # Vod =>
    /\ first + Segs <= Length
    /\ \A i \in 1 .. Segs : tags[i] = live.tags[first + i]
    /\ phase \in {"mark", "marked"} /\ breaks # << >> => WindowDated

(* The stream from segment f on.                                            *)
Rest(f) == SubSeq(live.tags, f + 1, Length)

(* A marker that was shown, in terms of the stream and the window's start.  *)
MarkerOf(m) ==
  /\ m.first \in Nat /\ m.segment \in m.first .. (Length - 1)
  /\ m.id = Cardinality(Opened(Rest(m.first), m.segment - m.first + 1, 1)) - 1
  /\ m.origin =>
       \E a \in live.dated : /\ a <= m.segment
                             /\ \A n \in live.dated : n <= m.segment => n <= a
                             /\ m.start = a + m.segment
  /\ ~m.origin => m.start = m.segment - m.first

ShownInv ==
  /\ live = Vod => shown = {}
  /\ \A m \in shown : MarkerOf(m)

LiveAll ==
  AllInv /\ LiveOK /\ ScanCounted /\ MarkersLast /\ WindowInv /\ ShownInv

LEMMA StreamTyped ==
  ASSUME LiveOK, live # Vod
  PROVE  /\ live.tags \in Seq(TagLists) /\ Length = Len(live.tags) /\ Length \in Nat
         /\ live.pods \in Seq(Nat) /\ Len(live.pods) = Length
         /\ live.dated \subseteq Nat
         /\ first \in Nat
  BY StreamsAssumption DEF LiveOK, Length

LEMMA LiveInitAll == LiveInit => LiveAll
<1> SUFFICES ASSUME LiveInit PROVE LiveAll
  OBVIOUS
<1>1. Fresh
  BY InitFresh DEF LiveInit, PlaylistInit
<1>2. AllInv /\ ScanCounted
  BY <1>1, FreshAll, FreshCounted
<1>3. LiveOK /\ first = 0
  BY DEF LiveInit, LiveOK
<1>4. MarkersLast /\ phase = "detect"
  BY <1>1 DEF Fresh, MarkersLast
<1>5. ShownInv
  BY DEF LiveInit, ShownInv
<1>6. ASSUME live # Vod
      PROVE  first + Segs <= Length /\ \A i \in 1 .. Segs : tags[i] = live.tags[first + i]
  <2>1. PICK n \in 1 .. Window : n <= Length /\ tags = SubSeq(live.tags, 1, n)
    BY <1>6 DEF LiveInit
  <2>2. live.tags \in Seq(TagLists) /\ Length = Len(live.tags) /\ Length \in Nat
    BY <1>3, <1>6, StreamTyped
  <2>3. n \in Nat /\ Segs = n
    BY <2>1 DEF Segs
  <2>4. n \in 1 .. Length
    BY <2>1, <2>2, <2>3
  <2>5. \A i \in 1 .. n : tags[i] = live.tags[i]
    BY <2>1, <2>2, <2>4
  <2>6. \A i \in 1 .. n : 0 + i = i
    BY <2>3
  <2> QED BY <1>3, <2>1, <2>2, <2>3, <2>5, <2>6
<1> QED BY <1>2, <1>3, <1>4, <1>5, <1>6 DEF LiveAll, WindowInv

(* A step of the handler leaves the window where it is.                     *)
LEMMA WindowKept ==
  ASSUME AllInv, LiveOK, WindowInv, UNCHANGED <<tags, live, first>>,
         phase' \in {"mark", "marked"} /\ breaks' # << >> =>
           /\ phase \in {"mark", "marked"} /\ breaks # << >>
           /\ \A i \in 1 .. Segs : marked'[i].date = marked[i].date
  PROVE  WindowInv'
<1>1. Segs' = Segs /\ Length' = Length /\ DatedHere' = DatedHere
  BY DEF Segs, Length, DatedHere
<1> QED BY <1>1 DEF WindowInv, WindowDated, NoDate

LEMMA WindowStep ==
  ASSUME AllInv, LiveOK, WindowInv, MarkersLast, LiveNext
  PROVE  WindowInv'
<1>0. /\ Segs \in Nat
      /\ phase = "mark" => breaks # << >> /\ DOMAIN marked = 1 .. Segs
  BY BreakFacts DEF AllInv, MarkersLast, MarkersSoFar, Dated
<1>1. CASE live = Vod /\ PlaylistNext /\ UNCHANGED liveVars
  BY <1>1 DEF liveVars, WindowInv
<1>2. CASE Handle
  <2>1. UNCHANGED <<tags, live, first>>
    BY <1>2 DEF Handle, liveVars, Detect, CueIn, CueOut, OtherTag, AtTag, NextTag,
       NextSegment, EndOfPlaylist, Stitch, CopyBefore, AtBreak, SkipEmptyBreak,
       InsertAds, CopyRest, Finish, MarkBreak, StripCues
  <2>2. CASE Detect \/ Stitch
    <3>1. phase' \in {"detect", "ask", "stitch", "done"}
      BY <2>2 DEF Detect, CueIn, CueOut, OtherTag, AtTag, NextTag, NextSegment,
         EndOfPlaylist, Stitch, CopyBefore, AtBreak, SkipEmptyBreak, InsertAds,
         CopyRest, Finish
    <3> QED BY <2>1, <3>1, WindowKept
  <2>3. CASE MarkBreak
    <3>1. phase = "mark" /\ breaks' = breaks
      BY <2>3 DEF MarkBreak
    <3>2. \A i \in 1 .. Segs : marked'[i].date = marked[i].date
      <4> DEFINE j == breaks[brk].start + 1
                 new == [tags |-> marked[j].tags, date |-> marked[j].date,
                         brk |-> brk - 1, start |-> DateAt(breaks[brk].start),
                         own |-> FALSE, ranged |-> marked[j].ranged]
      <4>1. marked' = marked \/ marked' = [marked EXCEPT ![j] = new]
        BY <2>3 DEF MarkBreak
      <4>2. new.date = marked[j].date
        OBVIOUS
      <4> HIDE DEF new
      <4> QED BY <1>0, <3>1, <4>1, <4>2
    <3> QED BY <1>0, <2>1, <3>1, <3>2, WindowKept
  <2>4. CASE StripCues
    <3>1. phase = "mark" /\ breaks' = breaks
          /\ marked' = [i \in DOMAIN marked |-> WithoutCues(marked[i])]
      BY <2>4 DEF StripCues
    <3>2. \A seg : WithoutCues(seg).date = seg.date
      BY Zenon DEF WithoutCues
    <3>3. \A i \in 1 .. Segs : marked'[i].date = marked[i].date
      BY <1>0, <3>1, <3>2
    <3> QED BY <1>0, <2>1, <3>1, <3>3, WindowKept
  <2> QED BY <1>2, <2>2, <2>3, <2>4 DEF Handle
<1>3. CASE AskLive
  <2>1. UNCHANGED <<tags, live, first>> /\ phase' = "stitch"
    BY <1>3 DEF AskLive, AskAds, liveVars
  <2> QED BY <2>1, WindowKept
<1>4. CASE DateLive
  <2>0. PICK r \in Ranges : EnsureDates(DatedHere, r)
    BY <1>4 DEF DateLive, DatedHere
  <2>1. UNCHANGED <<tags, live, first, breaks>>
    BY <1>4, <2>0 DEF DateLive, EnsureDates, liveVars
  <2>2. Segs' = Segs /\ Length' = Length /\ DatedHere' = DatedHere
    BY <2>1 DEF Segs, Length, DatedHere
  <2>3. ASSUME breaks # << >>, NEW i \in 1 .. Segs
        PROVE  marked'[i].date = IF DatedHere = {} THEN i - 1
                                 ELSE IF i - 1 \in DatedHere THEN 2 * (i - 1) ELSE NoDate
    BY <2>0, <2>3 DEF EnsureDates, Dates
  <2> QED BY <2>1, <2>2, <2>3 DEF WindowInv, WindowDated, NoDate
<1>5. CASE Play \/ Show
  <2>1. UNCHANGED <<tags, live, first, phase, breaks, marked>>
    BY <1>5 DEF Play, Show, vars
  <2> QED BY <2>1, WindowKept
<1>6. CASE Refresh /\ live # Vod
  <2>1. PICK from \in first .. Length, end \in (first + Segs + 1) .. Length :
          from < end /\ first' = from /\ tags' = SubSeq(live.tags, from + 1, end)
    BY <1>6 DEF Refresh
  <2>2. live.tags \in Seq(TagLists) /\ Length = Len(live.tags) /\ Length \in Nat /\ first \in Nat
    BY <1>6, StreamTyped
  <2>3. from \in Nat /\ end \in Nat /\ from < end /\ end <= Length
    BY <1>0, <2>1, <2>2
  <2>4. from + 1 \in 1 .. Len(live.tags) /\ end \in 1 .. Len(live.tags)
    BY <2>2, <2>3
  <2>5. Len(tags') = end - from /\ \A i \in 1 .. (end - from) : tags'[i] = live.tags[from + i]
    <3>1. Len(tags') = end - from
      BY <2>1, <2>2, <2>3, <2>4
    <3>2. ASSUME NEW i \in 1 .. (end - from)
          PROVE  tags'[i] = live.tags[from + i]
      <4>1. tags'[i] = live.tags[from + 1 + i - 1] /\ from + 1 + i - 1 = from + i
        BY <2>1, <2>2, <2>3, <2>4
      <4> QED BY <4>1
    <3> QED BY <3>1, <3>2
  <2>6. Segs' = end - from /\ live' = live /\ Length' = Length /\ phase' = "detect"
    BY <1>6, <2>5 DEF Refresh, Segs, Length
  <2>7. from + (end - from) <= Length
    BY <2>3
  <2> QED BY <2>1, <2>5, <2>6, <2>7 DEF WindowInv
<1> QED BY <1>1, <1>2, <1>3, <1>4, <1>5, <1>6 DEF LiveNext

(* The breaks before a segment are numbered alike in the window and in the  *)
(* rest of the stream.                                                      *)
LEMMA RestOpened ==
  ASSUME AllInv, LiveOK, WindowInv, live # Vod, NEW i \in 1 .. Segs
  PROVE  Opened(tags, i, 1) = Opened(Rest(first), i, 1)
<1>1. /\ live.tags \in Seq(TagLists) /\ Length = Len(live.tags) /\ Length \in Nat
      /\ first \in Nat /\ Segs \in Nat /\ tags \in Seq(TagLists) /\ Segs = Len(tags)
      /\ first + Segs <= Length
      /\ \A j \in 1 .. Segs : tags[j] = live.tags[first + j]
  BY StreamTyped, BreakFacts DEF AllInv, Inv, TypeOK, Segs, WindowInv
<1>2. first + 1 \in 1 .. Len(live.tags) /\ Length \in 1 .. Len(live.tags)
  BY <1>1
<1>3. Rest(first) \in Seq(TagLists) /\ Len(Rest(first)) = Length - first
  BY <1>1, <1>2 DEF Rest
<1>4. ASSUME NEW j \in 1 .. i
      PROVE  tags[j] = Rest(first)[j]
  <2>1. j \in 1 .. (Length - first)
    BY <1>1
  <2>2. Rest(first)[j] = live.tags[first + 1 + j - 1] /\ first + 1 + j - 1 = first + j
    BY <1>1, <1>2, <2>1 DEF Rest
  <2> QED BY <1>1, <2>2
<1>5. i \in Nat /\ i <= Len(tags) /\ i <= Len(Rest(first))
  BY <1>1, <1>3
<1> QED BY <1>1, <1>3, <1>4, <1>5, SameOpened

LEMMA ShownMarker ==
  ASSUME LiveAll, live # Vod, phase = "marked", NEW i \in 1 .. Segs, marked[i].brk # None
  PROVE  MarkerOf(Shown(i))
<1> DEFINE m == Shown(i)
           o == \E j \in 0 .. (Segs - 1) : first + j \in live.dated
<1>1. /\ m.id = marked[i].brk /\ m.first = first /\ m.segment = first + i - 1
      /\ m.origin = o
      /\ m.start = marked[i].start + (IF o THEN 2 * first ELSE 0)
  BY DEF Shown
<1>2. o <=> DatedHere # {}
  BY DEF DatedHere
<1> HIDE DEF m, o
<1>3. /\ first \in Nat /\ Segs \in Nat /\ Length \in Nat /\ live.dated \subseteq Nat
      /\ first + Segs <= Length
  BY StreamTyped, BreakFacts DEF LiveAll, AllInv, WindowInv
<1>4. marked[i].brk = Cardinality(Opened(tags, i, 1)) - 1 /\ breaks # << >>
  BY MarkerNumber DEF LiveAll, AllInv
<1>5. Opened(tags, i, 1) = Opened(Rest(first), i, 1)
  BY RestOpened DEF LiveAll
<1>6. m.segment - m.first + 1 = i
  BY <1>1, <1>3
<1>7. m.id = Cardinality(Opened(Rest(m.first), m.segment - m.first + 1, 1)) - 1
  BY <1>1, <1>4, <1>5, <1>6
<1>8. m.segment \in m.first .. (Length - 1)
  BY <1>1, <1>3
<1>9. /\ Dated /\ WindowDated
      /\ marked[i].start = DateAt(i - 1) /\ DateAt(i - 1) # NoDate
  BY <1>4 DEF LiveAll, AllInv, MarkersSoFar, MarkersLast, WindowInv
<1>10. CASE DatedHere = {}
  <2>1. DateAt(i - 1) = i - 1
    BY <1>3, <1>9, <1>10, MarkerTime
  <2>2. m.start = i - 1 /\ ~m.origin
    BY <1>1, <1>2, <1>9, <1>10, <2>1
  <2>3. m.segment - m.first = i - 1
    BY <1>1, <1>3
  <2> QED BY <1>1, <1>3, <1>7, <1>8, <2>2, <2>3 DEF MarkerOf, m
<1>11. CASE DatedHere # {}
  <2>1. PICK a \in DatedHere : /\ a <= i - 1
                               /\ \A k \in DatedHere : k <= i - 1 => k <= a
                               /\ DateAt(i - 1) = a + i - 1
    BY <1>3, <1>9, <1>11, MarkerTime
  <2>2. a \in 0 .. (Segs - 1) /\ first + a \in live.dated
    BY DEF DatedHere
  <2>3. m.start = a + i - 1 + 2 * first /\ m.origin
    BY <1>1, <1>2, <1>9, <1>11, <2>1
  <2>4. m.start = (first + a) + m.segment /\ first + a <= m.segment
    BY <1>1, <1>3, <2>1, <2>2, <2>3
  <2>5. ASSUME NEW n \in live.dated, n <= m.segment
        PROVE  n <= first + a
    <3>1. n \in Nat
      BY <1>3
    <3>2. CASE n < first
      BY <1>3, <2>2, <3>1, <3>2
    <3>3. CASE ~(n < first)
      <4>1. n - first \in 0 .. (Segs - 1) /\ first + (n - first) = n /\ n - first <= i - 1
        BY <1>1, <1>3, <2>5, <3>1, <3>3
      <4>2. n - first \in DatedHere
        BY <4>1 DEF DatedHere
      <4>3. n - first <= a
        BY <2>1, <4>1, <4>2
      <4> QED BY <1>3, <2>2, <3>1, <4>3
    <3> QED BY <3>2, <3>3
  <2> QED BY <1>1, <1>3, <1>7, <1>8, <2>2, <2>3, <2>4, <2>5 DEF MarkerOf, m
<1> QED BY <1>10, <1>11

LEMMA ShownStep == LiveAll /\ LiveNext => ShownInv'
<1> SUFFICES ASSUME LiveAll, LiveNext PROVE ShownInv'
  OBVIOUS
<1>1. live' = live /\ Length' = Length /\ \A f : Rest(f)' = Rest(f)
  <2>1. live' = live
    BY DEF LiveNext, Handle, AskLive, DateLive, Play, Show, Refresh, liveVars
  <2> QED BY <2>1 DEF Length, Rest
<1>2. \A m : MarkerOf(m) => MarkerOf(m)'
  BY <1>1 DEF MarkerOf
<1>3. CASE Show /\ live # Vod
  <2>1. /\ phase = "marked"
        /\ shown' = shown \cup {Shown(i) : i \in {j \in 1 .. Segs : marked[j].brk # None}}
    BY <1>3 DEF Show
  <2>2. ASSUME NEW m \in shown'
        PROVE  MarkerOf(m)
    <3>1. CASE m \in shown
      BY <3>1 DEF LiveAll, ShownInv
    <3>2. CASE m \notin shown
      <4>1. PICK i \in {j \in 1 .. Segs : marked[j].brk # None} : m = Shown(i)
        BY <2>1, <2>2, <3>2
      <4> QED BY <1>3, <2>1, <4>1, ShownMarker
    <3> QED BY <3>1, <3>2
  <2> QED BY <1>1, <1>2, <1>3, <2>2 DEF ShownInv
<1>4. CASE ~(Show /\ live # Vod)
  <2>1. shown' = shown
    BY <1>4 DEF LiveNext, Handle, AskLive, DateLive, Play, Refresh, liveVars
  <2> QED BY <1>1, <1>2, <2>1 DEF LiveAll, ShownInv
<1> QED BY <1>3, <1>4

LEMMA LiveAllInvariant == LiveSpec => []LiveAll
<1>1. LiveAll /\ [LiveNext]_hlsVars => LiveAll'
  <2> SUFFICES ASSUME LiveAll, [LiveNext]_hlsVars PROVE LiveAll'
    OBVIOUS
  <2>1. (Fresh => AllInv /\ ScanCounted)'
    BY FreshAll, FreshCounted, PTL
  <2>2. (Fresh => MarkersLast)'
    BY DEF Fresh, MarkersLast
  <2>3. ASSUME [Next]_vars
        PROVE  AllInv' /\ MarkersLast' /\ ScanCounted'
    <3>1. AllInv' /\ MarkersLast'
      BY <2>3, AllStep, LastStep DEF LiveAll, AllInv
    <3>2. ScanCounted'
      BY <2>3, CountedStep, CountedKept DEF LiveAll, AllInv, Next
    <3> QED BY <3>1, <3>2
  <2>4. CASE UNCHANGED hlsVars
    <3>1. UNCHANGED vars /\ UNCHANGED liveVars
      BY <2>4 DEF hlsVars, allVars
    <3>2. WindowInv'
      BY <3>1, WindowKept DEF LiveAll, vars, liveVars
    <3>3. ShownInv'
      BY <3>1 DEF LiveAll, ShownInv, liveVars, MarkerOf, Length, Rest
    <3> QED BY <2>3, <2>4, <3>1, <3>2, <3>3, LiveOKStep DEF LiveAll
  <2>5. CASE LiveNext
    <3>1. [Next]_vars \/ Fresh'
      BY <2>5, LiveSteps DEF LiveAll
    <3>2. AllInv' /\ ScanCounted' /\ MarkersLast'
      BY <2>1, <2>2, <2>3, <3>1, AllStep, LastStep, CountedStep, CountedKept DEF LiveAll
    <3> QED BY <2>5, <3>2, LiveOKStep, WindowStep, ShownStep DEF LiveAll
  <2> QED BY <2>4, <2>5
<1> QED BY <1>1, LiveInitAll, PTL DEF LiveSpec

(* A break of a live stream keeps the start date of its marker from         *)
(* playlist to playlist while the dates are the origin's or nothing has     *)
(* left at the front, and then its id too, for streams of any length and    *)
(* windows of any size.                                                     *)
THEOREM MarkersKeepStill == LiveSpec => []MarkersStay
<1>1. LiveAll => MarkersStay
  <2> SUFFICES ASSUME LiveAll, NEW m \in shown, NEW n \in shown,
                      m.segment = n.segment, m.origin = n.origin
               PROVE  /\ m.origin \/ m.first = n.first => m.start = n.start
                      /\ m.first = n.first => m.id = n.id
    BY DEF MarkersStay
  <2>1. MarkerOf(m) /\ MarkerOf(n) /\ live # Vod
    BY DEF LiveAll, ShownInv
  <2>2. CASE m.origin
    <3>1. PICK a \in live.dated : /\ a <= m.segment
                                  /\ \A k \in live.dated : k <= m.segment => k <= a
                                  /\ m.start = a + m.segment
      BY <2>1, <2>2 DEF MarkerOf
    <3>2. PICK b \in live.dated : /\ b <= n.segment
                                  /\ \A k \in live.dated : k <= n.segment => k <= b
                                  /\ n.start = b + n.segment
      BY <2>1, <2>2 DEF MarkerOf
    <3>3. a <= b /\ b <= a /\ a \in Nat /\ b \in Nat
      BY <2>1, <3>1, <3>2, StreamTyped DEF LiveAll
    <3>4. a = b
      BY <3>3
    <3>5. m.start = n.start
      BY <3>1, <3>2, <3>4
    <3> QED BY <2>1, <3>5 DEF MarkerOf
  <2>3. CASE ~m.origin
    BY <2>1, <2>3 DEF MarkerOf
  <2> QED BY <2>2, <2>3
<1> QED BY <1>1, LiveAllInvariant, PTL

-----------------------------------------------------------------------------
(* What a player of a live stream plays.                                   *)

(* A break starts at a CUE-OUT and ends at the first CUE-IN after that      *)
(* segment, or with the playlist; so far for the open one.                  *)
HasIn(T, i) == "in" \in ToSet(T[i + 1])

Cued(T, start, end) ==
  /\ start \in 0 .. (Len(T) - 1) /\ "out" \in ToSet(T[start + 1])
  /\ \A i \in (start + 1) .. (end - 1) : ~HasIn(T, i)

BreaksCued ==
  /\ \A b \in 1 .. Len(breaks) :
       /\ Cued(tags, breaks[b].start, breaks[b].end)
       /\ breaks[b].end < Segs => HasIn(tags, breaks[b].end)
  /\ current # None =>
       /\ phase = "detect"
       /\ Cued(tags, current, index)
       /\ current < index /\ index < Segs =>
            \A p \in 1 .. (tag - 1) : TagsOf(index)[p] # "in"

LEMMA FreshCued == Fresh => BreaksCued
  BY DEF Fresh, BreaksCued, None

LEMMA CuedOn ==
  ASSUME NEW T, NEW s \in Nat, NEW e \in Nat, Cued(T, s, e), s < e => ~HasIn(T, e)
  PROVE  Cued(T, s, e + 1)
<1>1. \A i \in (s + 1) .. ((e + 1) - 1) : i \in (s + 1) .. (e - 1) \/ (i = e /\ s < e)
  OBVIOUS
<1> QED BY <1>1 DEF Cued

(* The tag under the scan is one of its segment.                            *)
LEMMA TagInSegment ==
  ASSUME TypeOK, index < Segs, tag <= Len(TagsOf(index))
  PROVE  TagsOf(index)[tag] \in ToSet(tags[index + 1])
<1>1. index \in 0 .. (Segs - 1) /\ tag \in Nat /\ tag >= 1
  BY DEF TypeOK, Segs
<1>2. DOMAIN TagsOf(index) = 1 .. Len(TagsOf(index)) /\ Len(TagsOf(index)) \in Nat
  BY <1>1, TagsTyped
<1>3. tag \in DOMAIN TagsOf(index)
  BY <1>1, <1>2
<1> QED BY <1>3 DEF ToSet, TagsOf

(* A break is found.                                                        *)
LEMMA BreakFound ==
  ASSUME Inv, BreaksCued, phase = "detect", current # None, tags' = tags,
         breaks' = Append(breaks, Break(current, index)), current' = None,
         index < Segs => HasIn(tags, index)
  PROVE  BreaksCued'
<1> DEFINE r == Break(current, index)
<1>1. breaks \in Seq(BreakRecord) /\ r \in BreakRecord /\ r.start = current /\ r.end = index
  BY DEF Inv, TypeOK, Break, BreakRecord
<1> HIDE DEF r
<1>2. /\ Len(breaks') = Len(breaks) + 1 /\ Len(breaks) \in Nat
      /\ breaks'[Len(breaks) + 1] = r
      /\ \A b \in 1 .. Len(breaks) : breaks'[b] = breaks[b]
  BY <1>1 DEF r
<1>3. ASSUME NEW b \in 1 .. Len(breaks')
      PROVE  /\ Cued(tags, breaks'[b].start, breaks'[b].end)
             /\ breaks'[b].end < Segs => HasIn(tags, breaks'[b].end)
  <2>1. CASE b \in 1 .. Len(breaks)
    BY <1>2, <2>1 DEF BreaksCued
  <2>2. CASE b = Len(breaks) + 1
    BY <1>1, <1>2, <2>2 DEF BreaksCued
  <2> QED BY <1>2, <2>1, <2>2
<1>4. Segs' = Segs
  BY DEF Segs
<1> QED BY <1>3, <1>4 DEF BreaksCued, None

LEMMA CuedStep == Inv /\ BreaksCued /\ [Next]_vars => BreaksCued'
<1> SUFFICES ASSUME Inv, BreaksCued, [Next]_vars PROVE BreaksCued'
  OBVIOUS
<1>0. /\ Segs \in Nat /\ index \in 0 .. Segs /\ tag \in Nat /\ tag >= 1 /\ TypeOK
      /\ current # None => current \in Nat
  BY DEF Inv, TypeOK, Segs, None
<1>1. CASE CueIn
  <2>1. /\ phase = "detect" /\ index < Segs /\ tag <= Len(TagsOf(index))
        /\ TagsOf(index)[tag] = "in" /\ UNCHANGED <<tags, phase, index>>
    BY <1>1 DEF CueIn, AtTag, NextTag
  <2>2. HasIn(tags, index)
    BY <1>0, <2>1, TagInSegment DEF HasIn
  <2>3. CASE current = None
    BY <1>1, <2>1, <2>3 DEF CueIn, BreaksCued, Segs, None
  <2>4. CASE current # None
    BY <1>1, <2>1, <2>2, <2>4, BreakFound DEF CueIn
  <2> QED BY <2>3, <2>4
<1>2. CASE CueOut
  <2>1. /\ phase = "detect" /\ index < Segs /\ tag <= Len(TagsOf(index))
        /\ TagsOf(index)[tag] = "out" /\ UNCHANGED <<tags, phase, index, breaks>>
        /\ current' = (IF current = None THEN index ELSE current) /\ tag' = tag + 1
    BY <1>2 DEF CueOut, AtTag, NextTag
  <2>2. "out" \in ToSet(tags[index + 1])
    BY <1>0, <2>1, TagInSegment
  <2>3. CASE current = None
    <3>1. Cued(tags, index, index)
      <4>1. \A i \in (index + 1) .. (index - 1) : FALSE
        BY <1>0
      <4>2. index \in 0 .. (Len(tags) - 1)
        BY <1>0, <2>1 DEF Segs
      <4> QED BY <2>2, <4>1, <4>2 DEF Cued
    <3>2. Segs' = Segs /\ TagsOf(index)' = TagsOf(index) /\ ~(current' < index')
      BY <1>0, <2>1, <2>3 DEF Segs, TagsOf
    <3> QED BY <2>1, <2>3, <3>1, <3>2 DEF BreaksCued
  <2>4. CASE current # None
    <3>1. Segs' = Segs /\ TagsOf(index)' = TagsOf(index) /\ current' = current
      BY <2>1, <2>4 DEF Segs, TagsOf
    <3>2. \A p \in 1 .. (tag' - 1) : p \in 1 .. (tag - 1) \/ p = tag
      BY <1>0, <2>1
    <3> QED BY <2>1, <2>4, <3>1, <3>2 DEF BreaksCued
  <2> QED BY <2>3, <2>4
<1>3. CASE OtherTag
  <2>1. /\ phase = "detect" /\ UNCHANGED <<tags, phase, index, breaks, current>>
        /\ TagsOf(index)[tag] # "in" /\ tag' = tag + 1
    BY <1>3 DEF OtherTag, AtTag, NextTag
  <2>2. Segs' = Segs /\ TagsOf(index)' = TagsOf(index)
    BY <2>1 DEF Segs, TagsOf
  <2>3. \A p \in 1 .. (tag' - 1) : p \in 1 .. (tag - 1) \/ p = tag
    BY <1>0, <2>1
  <2> QED BY <2>1, <2>2, <2>3 DEF BreaksCued, None
<1>4. CASE NextSegment
  <2>1. /\ phase = "detect" /\ index < Segs /\ tag > Len(TagsOf(index))
        /\ UNCHANGED <<tags, phase, breaks, current>>
        /\ index' = index + 1 /\ tag' = 1
    BY <1>4 DEF NextSegment
  <2>2. Segs' = Segs /\ \A p \in 1 .. (tag' - 1) : FALSE
    BY <2>1 DEF Segs
  <2>3. ASSUME current # None
        PROVE  Cued(tags, current, index')
    <3>1. ASSUME current < index PROVE ~HasIn(tags, index)
      <4>1. \A p \in 1 .. (tag - 1) : TagsOf(index)[p] # "in"
        BY <2>1, <2>3, <3>1 DEF BreaksCued
      <4>2. DOMAIN TagsOf(index) = 1 .. Len(TagsOf(index)) /\ Len(TagsOf(index)) \in Nat
        BY <1>0, <2>1, TagsTyped
      <4>3. \A p \in DOMAIN TagsOf(index) : p \in 1 .. (tag - 1)
        BY <1>0, <2>1, <4>2
      <4> QED BY <4>1, <4>3 DEF HasIn, ToSet, TagsOf
    <3>2. Cued(tags, current, index)
      BY <2>3 DEF BreaksCued
    <3> QED BY <1>0, <2>1, <2>3, <3>1, <3>2, CuedOn
  <2> QED BY <2>1, <2>2, <2>3 DEF BreaksCued, None
<1>5. CASE EndOfPlaylist
  <2>1. /\ phase = "detect" /\ index = Segs /\ current' = None /\ tags' = tags
        /\ breaks' = IF current = None THEN breaks
                     ELSE Append(breaks, Break(current, index))
    BY <1>5 DEF EndOfPlaylist
  <2>2. CASE current = None
    BY <2>1, <2>2 DEF BreaksCued, Segs, None
  <2>3. CASE current # None
    BY <1>0, <2>1, <2>3, BreakFound
  <2> QED BY <2>2, <2>3
<1>6. CASE AskAds \/ Stitch \/ Mark
  <2>1. /\ phase \in {"ask", "stitch", "mark"} /\ UNCHANGED <<tags, breaks, current>>
    BY <1>6 DEF AskAds, Stitch, CopyBefore, AtBreak, SkipEmptyBreak, InsertAds, CopyRest,
       Finish, Mark, MarkBreak, StripCues, EnsureDates
  <2>2. current = None
    BY <2>1 DEF BreaksCued
  <2> QED BY <2>1, <2>2 DEF BreaksCued, Segs, None
<1>7. CASE UNCHANGED vars
  <2>1. UNCHANGED <<tags, phase, index, tag, current, breaks>>
    BY <1>7 DEF vars
  <2>2. Segs' = Segs /\ TagsOf(index)' = TagsOf(index)
    BY <2>1 DEF Segs, TagsOf
  <2> QED BY <2>1, <2>2 DEF BreaksCued, None
<1> QED BY <1>1, <1>2, <1>3, <1>4, <1>5, <1>6, <1>7 DEF Next, Detect

(* The ads of a break are those of the stream.                              *)
PodsInv ==
  live # Vod =>
    /\ phase \in {"mark", "marked"} => live.mode = "sgai"
    /\ Interleaving =>
         \A b \in 1 .. Len(breaks) : fill[b] = live.pods[first + breaks[b].start + 1]

LEMMA PodsInit == LiveInit => PodsInv
<1> SUFFICES ASSUME LiveInit PROVE PodsInv
  OBVIOUS
<1>1. phase = "detect"
  BY InitFresh DEF LiveInit, PlaylistInit, Fresh
<1> QED BY <1>1 DEF PodsInv, Interleaving

LEMMA PodsStep == AllInv /\ PodsInv /\ [LiveNext]_hlsVars => PodsInv'
<1> SUFFICES ASSUME AllInv, PodsInv, [LiveNext]_hlsVars, live' # Vod PROVE PodsInv'
  BY DEF PodsInv
<1>1. ASSUME UNCHANGED <<phase, breaks, fill, live, first>> PROVE PodsInv'
  BY <1>1 DEF PodsInv, Interleaving
<1>2. ASSUME phase' \in {"detect", "ask"} PROVE PodsInv'
  BY <1>2 DEF PodsInv, Interleaving
<1>3. CASE live = Vod /\ PlaylistNext /\ UNCHANGED liveVars
  BY <1>3 DEF liveVars
<1>4. CASE Handle /\ Detect
  <2>1. phase' \in {"detect", "ask"}
    BY <1>4 DEF Detect, CueIn, CueOut, OtherTag, AtTag, NextTag, NextSegment, EndOfPlaylist
  <2> QED BY <1>2, <2>1
<1>5. CASE Handle /\ Stitch
  <2>1. /\ UNCHANGED <<breaks, fill, live, first>>
        /\ phase = "stitch" /\ phase' \in {"stitch", "done"}
    BY <1>5 DEF Handle, liveVars, Stitch, CopyBefore, AtBreak, SkipEmptyBreak,
       InsertAds, CopyRest, Finish
  <2> QED BY <2>1 DEF PodsInv, Interleaving
<1>6. CASE Handle /\ (MarkBreak \/ StripCues)
  <2>1. UNCHANGED <<live, first>> /\ phase = "mark" /\ phase' \in {"mark", "marked"}
    BY <1>6 DEF Handle, liveVars, MarkBreak, StripCues
  <2> QED BY <2>1 DEF PodsInv, Interleaving
<1>7. CASE AskLive
  <2>1. /\ UNCHANGED <<breaks, live, first>> /\ phase' = "stitch"
        /\ \A b \in DOMAIN breaks : fill'[b] = live.pods[first + breaks[b].start + 1]
    BY <1>7 DEF AskLive, AskAds, liveVars
  <2>2. DOMAIN breaks = 1 .. Len(breaks)
    BY BreakFacts DEF AllInv
  <2> QED BY <2>1, <2>2 DEF PodsInv, Interleaving
<1>8. CASE DateLive
  <2>1. live' = live /\ live.mode = "sgai" /\ phase' \in {"mark", "marked"}
    BY <1>8 DEF DateLive, EnsureDates, liveVars
  <2> QED BY <2>1 DEF PodsInv, Interleaving
<1>9. CASE Play \/ Show
  BY <1>1, <1>9 DEF Play, Show, vars
<1>10. CASE Refresh
  BY <1>2, <1>10 DEF Refresh
<1>11. CASE UNCHANGED hlsVars
  BY <1>1, <1>11 DEF hlsVars, allVars, vars, liveVars
<1> QED BY <1>3, <1>4, <1>5, <1>6, <1>7, <1>8, <1>9, <1>10, <1>11 DEF LiveNext, Handle

(* EndOf: the first CUE-IN behind a segment of the stream, or its end.      *)
LEMMA EndOfIs ==
  ASSUME Length \in Nat, NEW s \in Nat, s < Length
  PROVE  /\ EndOf(s) \in (s + 1) .. Length
         /\ EndOf(s) < Length => HasIn(live.tags, EndOf(s))
         /\ \A i \in (s + 1) .. (EndOf(s) - 1) : ~HasIn(live.tags, i)
<1> DEFINE ends == {e \in (s + 1) .. (Length - 1) : HasIn(live.tags, e)}
<1>1. EndOf(s) = IF ends = {} THEN Length ELSE CHOOSE e \in ends : \A f \in ends : e <= f
  BY DEF EndOf, HasIn
<1>2. \A e : e \in ends <=> e \in (s + 1) .. (Length - 1) /\ HasIn(live.tags, e)
  OBVIOUS
<1> HIDE DEF ends
<1>3. CASE ends = {}
  <2>1. EndOf(s) = Length
    BY <1>1, <1>3
  <2> QED BY <1>2, <1>3, <2>1
<1>4. CASE ends # {}
  <2>1. ends \subseteq Nat
    BY <1>2
  <2>2. \E e \in ends : \A f \in ends : e <= f
    BY <1>4, <2>1, Least
  <2>3. EndOf(s) \in ends /\ \A f \in ends : EndOf(s) <= f
    BY <1>1, <1>4, <2>2
  <2>4. EndOf(s) \in (s + 1) .. (Length - 1) /\ HasIn(live.tags, EndOf(s))
    BY <1>2, <2>3
  <2>5. ASSUME NEW i \in (s + 1) .. (EndOf(s) - 1)
        PROVE  ~HasIn(live.tags, i)
    <3>1. i \in (s + 1) .. (Length - 1) /\ ~(EndOf(s) <= i)
      BY <2>4
    <3> QED BY <1>2, <2>3, <3>1
  <2> QED BY <2>4, <2>5
<1> QED BY <1>3, <1>4

(* There is one such place.                                                 *)
LEMMA EndOfOnly ==
  ASSUME Length \in Nat, NEW s \in Nat, s < Length, NEW e \in (s + 1) .. Length,
         \A i \in (s + 1) .. (e - 1) : ~HasIn(live.tags, i)
  PROVE  /\ e <= EndOf(s)
         /\ HasIn(live.tags, e) => EndOf(s) = e
<1>1. /\ EndOf(s) \in (s + 1) .. Length
      /\ EndOf(s) < Length => HasIn(live.tags, EndOf(s))
      /\ \A i \in (s + 1) .. (EndOf(s) - 1) : ~HasIn(live.tags, i)
  BY EndOfIs
<1>2. e <= EndOf(s)
  <2>1. ASSUME EndOf(s) < e PROVE FALSE
    <3>1. EndOf(s) < Length /\ EndOf(s) \in (s + 1) .. (e - 1)
      BY <1>1, <2>1
    <3> QED BY <1>1, <3>1
  <2> QED BY <1>1, <2>1
<1>3. ASSUME HasIn(live.tags, e) PROVE EndOf(s) <= e
  <2>1. ASSUME e < EndOf(s) PROVE FALSE
    <3>1. e \in (s + 1) .. (EndOf(s) - 1)
      BY <1>1, <2>1
    <3> QED BY <1>1, <1>3, <3>1
  <2> QED BY <1>1, <2>1
<1> QED BY <1>1, <1>2, <1>3

(* The premises of PlaysThrough.                                            *)
Regular == live # Vod /\ Matched /\ CuesApart

(* Where in the stitched playlist the ads of a break should end.            *)
Ends(b) == EndOf(first + breaks[b].start) - first

(* Every break has segments, and if it is filled as many ads as it would    *)
(* have segments if the window did not end; no break starts where another   *)
(* one ends.                                                                *)
LEMMA BreakFits ==
  ASSUME AllInv, LiveOK, WindowInv, BreaksCued, PodsInv, Regular, Interleaving,
         NEW b \in 1 .. Len(breaks)
  PROVE  /\ breaks[b].start \in Nat /\ breaks[b].end \in Nat
         /\ breaks[b].start < breaks[b].end /\ breaks[b].end <= Segs
         /\ Ends(b) \in Nat /\ breaks[b].end <= Ends(b)
         /\ breaks[b].end < Segs => Ends(b) = breaks[b].end
         /\ Filled(b) => fill[b] = Ends(b) - breaks[b].start
<1> DEFINE start == breaks[b].start
           end == breaks[b].end
           s == first + start
<1>1. /\ start \in Nat /\ end \in Nat /\ start <= end /\ end <= Segs
      /\ Segs \in Nat /\ first \in Nat /\ Length \in Nat /\ Segs = Len(tags)
  BY BreakFacts, StreamTyped DEF AllInv, Regular, Segs
<1>2. first + Segs <= Length
  BY DEF WindowInv, Regular
<1>3. \A i \in Nat : i < Segs => tags[i + 1] = live.tags[first + i + 1]
  <2>1. \A i \in Nat : i < Segs => i + 1 \in 1 .. Segs /\ first + (i + 1) = first + i + 1
    BY <1>1
  <2> QED BY <2>1 DEF WindowInv, Regular
<1>4. /\ start < Segs /\ "out" \in ToSet(tags[start + 1])
      /\ \A i \in (start + 1) .. (end - 1) : ~HasIn(tags, i)
      /\ end < Segs => HasIn(tags, end)
  BY <1>1 DEF BreaksCued, Cued
<1>5. start < end
  <2> SUFFICES ASSUME start = end PROVE FALSE
    BY <1>1
  <2>1. {"out", "in"} \subseteq ToSet(live.tags[first + start + 1])
    BY <1>1, <1>3, <1>4 DEF HasIn
  <2>2. first + start + 1 \in 1 .. Length
    BY <1>1, <1>2, <1>4
  <2> QED BY <2>1, <2>2 DEF Regular, CuesApart
<1>6. "out" \in ToSet(live.tags[s + 1])
  BY <1>1, <1>3, <1>4
<1>7. end < Segs => HasIn(live.tags, first + end)
  BY <1>1, <1>3, <1>4 DEF HasIn
<1>8. ASSUME NEW i \in (s + 1) .. ((first + end) - 1)
      PROVE  ~HasIn(live.tags, i)
  <2> DEFINE o == i - first
  <2>1. i \in Int /\ first + start + 1 <= i /\ i <= first + end - 1
    BY <1>1
  <2>2. /\ o \in (start + 1) .. (end - 1) /\ o \in Nat /\ o < Segs
        /\ first + o + 1 = i + 1
    <3> HIDE DEF start, end
    <3>1. o \in Int /\ start + 1 <= o /\ o <= end - 1 /\ first + o + 1 = i + 1
      BY <1>1, <2>1
    <3> HIDE DEF o
    <3> QED BY <1>1, <3>1
  <2> HIDE DEF o
  <2>3. tags[o + 1] = live.tags[i + 1]
    BY <1>3, <2>2
  <2>4. ~HasIn(tags, o)
    BY <1>4, <2>2
  <2> QED BY <2>3, <2>4, Zenon DEF HasIn
<1>9. s \in Nat /\ s < Length /\ first + end \in (s + 1) .. Length
  <2>1. start < Segs
    BY <1>4
  <2> HIDE DEF start, end
  <2> QED BY <1>1, <1>2, <1>5, <2>1
<1> HIDE DEF s
<1>10. /\ first + end <= EndOf(s) /\ EndOf(s) \in (s + 1) .. Length
       /\ end < Segs => EndOf(s) = first + end
  BY <1>1, <1>7, <1>8, <1>9, EndOfIs, EndOfOnly
<1>11. Ends(b) = EndOf(s) - first
  BY DEF Ends, s
<1>12. s \in Starts
  BY <1>1, <1>6, <1>9 DEF Starts
<1>13. fill[b] = live.pods[s + 1]
  BY DEF PodsInv, Regular, s
<1>14. fill[b] \in {0, EndOf(s) - s}
  BY <1>12, <1>13 DEF Regular, Matched
<1>15. Filled(b) => fill[b] = Ends(b) - start
  <2>1. EndOf(s) - s = (EndOf(s) - first) - start
    BY <1>1, <1>9, <1>10 DEF s
  <2> QED BY <1>11, <1>14, <2>1 DEF Filled
<1> HIDE DEF start, end
<1>16. Ends(b) \in Nat /\ end <= Ends(b) /\ (end < Segs => Ends(b) = end)
  BY <1>1, <1>9, <1>10, <1>11
<1> QED BY <1>1, <1>5, <1>15, <1>16 DEF start, end

LEMMA BreaksApart ==
  ASSUME AllInv, LiveOK, WindowInv, BreaksCued, PodsInv, Regular, Interleaving
  PROVE  Separated
<1> SUFFICES ASSUME NEW b \in 1 .. Len(breaks), NEW c \in 1 .. Len(breaks), b < c,
                    ~(breaks[b].end < breaks[c].start)
             PROVE  FALSE
  BY BreakFacts DEF Separated, AllInv
<1> DEFINE e == breaks[b].end
<1>1. e <= breaks[c].start
  BY BreakFacts DEF AllInv
<1>2. /\ e \in Nat /\ breaks[c].start \in Nat /\ breaks[c].end \in Nat
      /\ breaks[c].start < breaks[c].end /\ breaks[c].end <= Segs
  BY BreakFits
<1>3. breaks[c].start = e /\ e < Segs /\ Segs \in Nat
  BY <1>1, <1>2 DEF Segs
<1>4. HasIn(tags, e) /\ "out" \in ToSet(tags[e + 1])
  BY <1>3 DEF BreaksCued, Cued
<1> HIDE DEF e
<1>5. first + Segs <= Length /\ first \in Nat /\ Length \in Nat
  BY StreamTyped DEF WindowInv, Regular
<1>6. tags[e + 1] = live.tags[first + (e + 1)]
  <2>1. e + 1 \in 1 .. Segs
    BY <1>2, <1>3
  <2> QED BY <2>1 DEF WindowInv, Regular
<1>7. first + (e + 1) \in 1 .. Length
  BY <1>2, <1>3, <1>5
<1>8. {"out", "in"} \subseteq ToSet(live.tags[first + (e + 1)])
  BY <1>4, <1>6 DEF HasIn
<1> QED BY <1>7, <1>8 DEF Regular, CuesApart

(* A segment is an ad of break b.                                           *)
OfBreak(s, b) == s.ad /\ s.brk + 1 = b

(* Every segment of the stitched playlist is where it belongs.  The last    *)
(* break may reach beyond the window.                                       *)
Aligned ==
  Interleaving /\ Regular =>
    /\ index <= Len(out) /\ (index < Segs => Len(out) = index)
    /\ \A k \in 1 .. Len(out) : ~out[k].ad => out[k].seg = k - 1
    /\ \A k \in 1 .. Len(out) : \A b \in 1 .. Len(breaks) :
         OfBreak(out[k], b) =>
           breaks[b].start + out[k].seg = k - 1 /\ Ends(b) <= Len(out)
    /\ \A j, k \in 1 .. Len(out) : \A b \in 1 .. Len(breaks) :
         j < k /\ OfBreak(out[j], b) /\ ~out[k].ad => Ends(b) < k

(* What is said of the stream and its breaks stays the same with them.      *)
LEMMA SameStream ==
  ASSUME live' = live, first' = first, breaks' = breaks
  PROVE  (Regular' <=> Regular) /\ \A b : Ends(b)' = Ends(b)
<1>1. Length' = Length /\ Starts' = Starts /\ \A s : EndOf(s)' = EndOf(s)
  BY DEF Length, Starts, EndOf
<1>2. Matched' <=> Matched
  BY <1>1 DEF Matched
<1>3. CuesApart' <=> CuesApart
  BY <1>1 DEF CuesApart
<1>4. \A b : Ends(b)' = Ends(b)
  <2>1. \A b : Ends(b)' = EndOf(first + breaks[b].start) - first
    BY DEF Ends, EndOf, Length
  <2> QED BY <2>1 DEF Ends
<1> QED BY <1>2, <1>3, <1>4 DEF Regular

LEMMA SameRange ==
  ASSUME NEW m \in Nat, NEW n \in Nat, 1 .. m = 1 .. n
  PROVE  m = n
<1>1. m > n => m \in 1 .. m /\ m \notin 1 .. n
  OBVIOUS
<1>2. n > m => n \in 1 .. n /\ n \notin 1 .. m
  OBVIOUS
<1> QED BY <1>1, <1>2

LEMMA AlignedContent ==
  ASSUME Inv, Inv', Aligned, Regular, Interleaving, index < Segs,
         out' = Append(out, Content(index, FALSE)), index' = index + 1,
         UNCHANGED <<tags, breaks, live, first>>,
         \A b \in 1 .. Len(breaks) : Ends(b) \in Nat
  PROVE  Aligned'
<1> DEFINE N == Len(out)
<1>1. /\ N = index /\ N \in Nat
      /\ \A k \in 1 .. N : ~out[k].ad => out[k].seg = k - 1
      /\ \A k \in 1 .. N : \A b \in 1 .. Len(breaks) :
           OfBreak(out[k], b) =>
             breaks[b].start + out[k].seg = k - 1 /\ Ends(b) <= N
      /\ \A j, k \in 1 .. N : \A b \in 1 .. Len(breaks) :
           j < k /\ OfBreak(out[j], b) /\ ~out[k].ad => Ends(b) < k
  BY BreakFacts DEF Aligned
<1>2. /\ DOMAIN out' = 1 .. (N + 1)
      /\ out'[N + 1] = Content(index, FALSE)
      /\ \A j \in 1 .. N : out'[j] = out[j]
  BY ContentAppended DEF Inv
<1>3. ~out'[N + 1].ad /\ out'[N + 1].seg = index
  <2>1. ~Content(index, FALSE).ad /\ Content(index, FALSE).seg = index
    BY ContentFields
  <2> QED BY <1>2, <2>1, Zenon
<1>4. Len(out') = N + 1
  <2>1. Len(out') \in Nat /\ DOMAIN out' = 1 .. Len(out')
    BY DEF Inv, TypeOK
  <2> QED BY <1>1, <1>2, <2>1, SameRange
<1>5. /\ breaks' = breaks /\ Segs' = Segs
      /\ \A b : Ends(b)' = Ends(b)
  BY SameStream DEF Segs
<1>0. N = index /\ N \in Nat
  BY <1>1
<1> HIDE DEF N
<1>6. ASSUME NEW k \in 1 .. (N + 1), ~out'[k].ad
      PROVE  out'[k].seg = k - 1
  <2>1. CASE k = N + 1
    <3>1. out'[k].seg = index
      BY <1>3, <2>1, Zenon
    <3>2. k - 1 = index
      BY <1>0, <2>1
    <3> QED BY <3>1, <3>2, Zenon
  <2>2. CASE k \in 1 .. N
    BY <1>1, <1>2, <1>6, <2>2
  <2>3. k = N + 1 \/ k \in 1 .. N
    BY <1>0
  <2> QED BY <2>1, <2>2, <2>3, Zenon
<1>7. ASSUME NEW k \in 1 .. (N + 1), NEW b \in 1 .. Len(breaks), OfBreak(out'[k], b)
      PROVE  /\ k \in 1 .. N /\ OfBreak(out[k], b)
             /\ breaks[b].start + out'[k].seg = k - 1 /\ Ends(b) <= N
  <2>1. k # N + 1
    BY <1>3, <1>7 DEF OfBreak
  <2>2. k \in 1 .. N
    BY <1>1, <2>1
  <2> QED BY <1>1, <1>2, <1>7, <2>2
<1>8. ASSUME NEW j \in 1 .. (N + 1), NEW k \in 1 .. (N + 1), NEW b \in 1 .. Len(breaks),
             j < k, OfBreak(out'[j], b), ~out'[k].ad
      PROVE  Ends(b) < k
  <2>1. j \in 1 .. N /\ OfBreak(out[j], b) /\ Ends(b) <= N
    BY <1>7, <1>8
  <2>2. CASE k = N + 1
    BY <1>1, <2>1, <2>2
  <2>3. CASE k \in 1 .. N
    BY <1>1, <1>2, <1>8, <2>1, <2>3
  <2>4. k = N + 1 \/ k \in 1 .. N
    BY <1>0
  <2> QED BY <2>2, <2>3, <2>4
<1>9. ASSUME NEW b \in 1 .. Len(breaks), Ends(b) <= N PROVE Ends(b) <= N + 1
  <2>1. Ends(b) \in Nat
    OBVIOUS
  <2> QED BY <1>0, <1>9, <2>1
<1>10. index' <= Len(out') /\ (index' < Segs' => Len(out') = index')
  BY <1>1, <1>4
<1>11. \A k \in 1 .. Len(out') : ~out'[k].ad => out'[k].seg = k - 1
  BY <1>4, <1>6
<1>12. \A k \in 1 .. Len(out') : \A b \in 1 .. Len(breaks') :
         OfBreak(out'[k], b) =>
           breaks'[b].start + out'[k].seg = k - 1 /\ Ends(b)' <= Len(out')
  BY <1>4, <1>5, <1>7, <1>9
<1>13. \A j, k \in 1 .. Len(out') : \A b \in 1 .. Len(breaks') :
         j < k /\ OfBreak(out'[j], b) /\ ~out'[k].ad => Ends(b)' < k
  BY <1>4, <1>5, <1>8
<1> QED BY <1>10, <1>11, <1>12, <1>13, Zenon DEF Aligned

(* The ads of a break take its segments' places.                            *)
LEMMA AlignedInsert ==
  ASSUME AllInv, Inv', LiveOK, WindowInv, BreaksCued, PodsInv, Aligned, Regular,
         InsertAds, UNCHANGED <<live, first>>
  PROVE  Aligned'
<1> DEFINE N == Len(out)
           n == fill[brk]
           start == breaks[brk].start
           end == breaks[brk].end
           E == Ends(brk)
<1>1. /\ Interleaving /\ brk \in 1 .. Len(breaks) /\ Filled(brk)
      /\ tags' = tags /\ breaks' = breaks /\ Segs' = Segs
  <2>1. Interleaving /\ brk <= Len(breaks) /\ Filled(brk) /\ tags' = tags /\ breaks' = breaks
    BY DEF InsertAds, AtBreak, Interleaving, Filled
  <2> QED BY <2>1, BreakFacts DEF AllInv, Segs
<1>2. \A b : Ends(b)' = Ends(b)
  BY <1>1, SameStream
<1>3. /\ start \in Nat /\ end \in Nat /\ start < end /\ end <= Segs
      /\ E \in Nat /\ end <= E /\ (end < Segs => E = end)
      /\ n = E - start /\ Segs \in Nat
  BY <1>1, BreakFits DEF Segs
<1>4. N = start
  <2>1. index <= start
    BY <1>1, BreaksApart DEF AllInv, IntendedSoFar, Between
  <2>2. ~(index < start /\ index < Segs)
    BY DEF InsertAds, AtBreak
  <2>3. index \in Nat
    BY BreakFacts DEF AllInv
  <2>4. index = start /\ index < Segs
    BY <1>3, <2>1, <2>2, <2>3
  <2> QED BY <1>1, <2>4 DEF Aligned
<1>5. /\ \A k \in 1 .. N : ~out[k].ad => out[k].seg = k - 1
      /\ \A k \in 1 .. N : \A b \in 1 .. Len(breaks) :
           OfBreak(out[k], b) =>
             breaks[b].start + out[k].seg = k - 1 /\ Ends(b) <= N
      /\ \A j, k \in 1 .. N : \A b \in 1 .. Len(breaks) :
           j < k /\ OfBreak(out[j], b) /\ ~out[k].ad => Ends(b) < k
  BY <1>1 DEF Aligned
<1>6. /\ n \in Nat /\ n > 0
      /\ \A j \in 1 .. N : out'[j] = out[j]
      /\ \A j \in 1 .. n : out'[N + j] = AdSeg(brk - 1, j - 1, j = 1)
      /\ end < Segs => /\ DOMAIN out' = 1 .. (N + n + 1)
                       /\ out'[N + n + 1] = Content(end, TRUE)
                       /\ index' = end + 1
      /\ ~(end < Segs) => DOMAIN out' = 1 .. (N + n) /\ index' = end
  <2>1. Inv
    BY DEF AllInv
  <2> QED BY <2>1, AdsInserted
<1>7. \A b \in 1 .. Len(breaks) : Ends(b) \in Nat
  BY <1>1, BreakFits
<1>a. brk \in Nat /\ Len(breaks) \in Nat
  BY BreakFacts DEF AllInv
<1>b. Len(out') \in Nat /\ DOMAIN out' = 1 .. Len(out')
  BY DEF Inv, TypeOK
<1> HIDE DEF N, n, start, end, E
<1>8. N \in Nat /\ N + n = E
  BY <1>3, <1>4, <1>6
<1>9. ASSUME NEW i \in 1 .. n
      PROVE  out'[N + i].ad /\ out'[N + i].seg = i - 1 /\ out'[N + i].brk = brk - 1
  <2> DEFINE ad == AdSeg(brk - 1, i - 1, i = 1)
  <2>1. ad.ad /\ ad.seg = i - 1 /\ ad.brk = brk - 1
    BY AdFields
  <2>2. out'[N + i] = ad
    BY <1>6
  <2> HIDE DEF ad
  <2> QED BY <2>1, <2>2
<1>10. ASSUME end < Segs
       PROVE  ~out'[N + n + 1].ad /\ out'[N + n + 1].seg = end
  <2> DEFINE c == Content(end, TRUE)
  <2>1. ~c.ad /\ c.seg = end
    BY ContentFields
  <2>2. out'[N + n + 1] = c
    BY <1>6, <1>10
  <2> HIDE DEF c
  <2> QED BY <2>1, <2>2, Zenon
<1>11. /\ end < Segs => Len(out') = E + 1 /\ index' = end + 1
       /\ ~(end < Segs) => Len(out') = E /\ index' = end
  <2>1. ASSUME end < Segs PROVE Len(out') = E + 1
    <3>1. 1 .. Len(out') = 1 .. (E + 1)
      BY <1>6, <1>8, <1>b, <2>1
    <3>2. E + 1 \in Nat
      BY <1>3
    <3> QED BY <1>b, <3>1, <3>2, SameRange
  <2>2. ASSUME ~(end < Segs) PROVE Len(out') = E
    <3>1. 1 .. Len(out') = 1 .. E
      BY <1>6, <1>8, <1>b, <2>2
    <3> QED BY <1>3, <1>b, <3>1, SameRange
  <2> QED BY <1>6, <2>1, <2>2
<1>12. Len(out') \in Nat /\ E <= Len(out') /\ N <= E
  BY <1>3, <1>6, <1>8, <1>11
<1>13. index' <= Len(out') /\ (index' < Segs' => Len(out') = index')
  BY <1>1, <1>3, <1>11
<1>14. ASSUME NEW k \in 1 .. Len(out')
       PROVE  \/ k \in 1 .. N
              \/ k - N \in 1 .. n /\ k = N + (k - N)
              \/ end < Segs /\ k = N + n + 1 /\ k = E + 1
  BY <1>3, <1>6, <1>8, <1>11
<1>15. ASSUME NEW k \in 1 .. Len(out'), ~out'[k].ad
       PROVE  /\ k \notin 1 .. N => end < Segs /\ k = N + n + 1 /\ k = E + 1
              /\ out'[k].seg = k - 1
  <2>1. ~(k - N \in 1 .. n /\ k = N + (k - N))
    BY <1>9, <1>15
  <2>2. ASSUME k \in 1 .. N PROVE out'[k].seg = k - 1
    BY <1>5, <1>6, <1>15, <2>2
  <2>3. ASSUME end < Segs, k = N + n + 1, k = E + 1 PROVE out'[k].seg = k - 1
    <3>1. out'[k].seg = end
      BY <1>10, <2>3
    <3>2. k - 1 = end
      BY <1>3, <2>3
    <3> QED BY <3>1, <3>2, Zenon
  <2> QED BY <1>14, <2>1, <2>2, <2>3
<1>16. ASSUME NEW k \in 1 .. Len(out'), NEW b \in 1 .. Len(breaks), OfBreak(out'[k], b)
       PROVE  /\ breaks[b].start + out'[k].seg = k - 1
              /\ Ends(b) <= E
              /\ k \in 1 .. N => OfBreak(out[k], b) /\ Ends(b) <= N
              /\ k \notin 1 .. N => b = brk
  <2>1. ASSUME k \in 1 .. N
        PROVE  /\ breaks[b].start + out'[k].seg = k - 1
               /\ OfBreak(out[k], b) /\ Ends(b) <= N
    <3>1. out'[k] = out[k]
      BY <1>6, <2>1
    <3>2. OfBreak(out[k], b)
      BY <1>16, <3>1
    <3>3. breaks[b].start + out[k].seg = k - 1 /\ Ends(b) <= N
      BY <1>5, <2>1, <3>2
    <3> QED BY <3>1, <3>2, <3>3
  <2>2. ASSUME k - N \in 1 .. n, k = N + (k - N)
        PROVE  b = brk /\ breaks[b].start + out'[k].seg = k - 1
    <3>1. out'[k].brk = brk - 1 /\ out'[k].seg = (k - N) - 1
      BY <1>9, <2>2
    <3>2. b = brk
      BY <1>16, <1>a, <3>1 DEF OfBreak
    <3>3. start + ((k - N) - 1) = k - 1
      BY <1>3, <1>4
    <3>4. breaks[b].start = start
      BY <3>2 DEF start
    <3> QED BY <3>1, <3>2, <3>3, <3>4
  <2>3. ~(end < Segs /\ k = N + n + 1 /\ k = E + 1)
    BY <1>10, <1>16 DEF OfBreak
  <2>4. b = brk => Ends(b) = E
    BY DEF E
  <2>5. Ends(b) \in Nat
    BY <1>7
  <2>6. CASE k \in 1 .. N
    BY <1>3, <1>8, <1>12, <2>1, <2>5, <2>6
  <2>7. CASE k \notin 1 .. N
    <3>1. k - N \in 1 .. n /\ k = N + (k - N)
      BY <1>14, <2>3, <2>7
    <3> QED BY <1>3, <2>2, <2>4, <2>7, <3>1
  <2> QED BY <2>6, <2>7
<1>17. ASSUME NEW k \in 1 .. Len(out'), NEW b \in 1 .. Len(breaks), OfBreak(out'[k], b)
       PROVE  breaks[b].start + out'[k].seg = k - 1 /\ Ends(b) <= Len(out')
  <2>1. breaks[b].start + out'[k].seg = k - 1 /\ Ends(b) <= E
    BY <1>16, <1>17
  <2>2. Ends(b) \in Nat
    BY <1>7
  <2> QED BY <1>3, <1>12, <2>1, <2>2
<1>18. ASSUME NEW j \in 1 .. Len(out'), NEW k \in 1 .. Len(out'), NEW b \in 1 .. Len(breaks),
              j < k, OfBreak(out'[j], b), ~out'[k].ad
       PROVE  Ends(b) < k
  <2>1. CASE k \in 1 .. N
    <3>1. j \in 1 .. N
      BY <1>8, <1>18, <2>1
    <3>2. OfBreak(out[j], b)
      BY <1>16, <1>18, <3>1
    <3>3. ~out[k].ad
      BY <1>6, <1>18, <2>1
    <3> QED BY <1>5, <1>18, <2>1, <3>1, <3>2, <3>3
  <2>2. CASE k \notin 1 .. N
    <3>1. k = E + 1
      BY <1>15, <1>18, <2>2
    <3>2. Ends(b) <= E
      BY <1>16, <1>18
    <3> QED BY <1>3, <1>7, <3>1, <3>2
  <2> QED BY <2>1, <2>2
<1> QED BY <1>1, <1>2, <1>13, <1>15, <1>17, <1>18 DEF Aligned

LEMMA AlignedStep ==
  ASSUME AllInv, Inv', LiveOK, WindowInv, BreaksCued, PodsInv, Aligned, [LiveNext]_hlsVars
  PROVE  Aligned'
<1> SUFFICES ASSUME Regular', Interleaving' PROVE Aligned'
  BY DEF Aligned
<1>1. ASSUME UNCHANGED <<tags, index, breaks, out, live, first>>, Interleaving
      PROVE  Aligned'
  <2>1. Regular /\ \A b : Ends(b)' = Ends(b)
    BY <1>1, SameStream
  <2> QED BY <1>1, <2>1 DEF Aligned, Segs, Interleaving
<1>2. ASSUME phase' \notin {"stitch", "done"} PROVE FALSE
  BY <1>2 DEF Interleaving
<1>3. CASE live = Vod /\ PlaylistNext /\ UNCHANGED liveVars
  BY <1>3 DEF liveVars, Regular
<1>4. CASE Handle /\ Detect
  <2>1. phase' \in {"detect", "ask"}
    BY <1>4 DEF Detect, CueIn, CueOut, OtherTag, AtTag, NextTag, NextSegment, EndOfPlaylist
  <2> QED BY <1>2, <2>1
<1>5. CASE Handle /\ Stitch
  <2>1. Interleaving /\ UNCHANGED <<tags, breaks, live, first>>
    BY <1>5 DEF Handle, liveVars, Stitch, CopyBefore, AtBreak, SkipEmptyBreak,
       InsertAds, CopyRest, Finish, Interleaving
  <2>2. Regular
    BY <2>1, SameStream
  <2>3. CASE CopyBefore \/ CopyRest
    <3>1. index < Segs /\ out' = Append(out, Content(index, FALSE)) /\ index' = index + 1
      BY <2>3 DEF CopyBefore, CopyRest
    <3>2. \A b \in 1 .. Len(breaks) : Ends(b) \in Nat
      BY <2>1, <2>2, BreakFits
    <3> QED BY <2>1, <2>2, <3>1, <3>2, AlignedContent DEF AllInv
  <2>4. CASE SkipEmptyBreak \/ Finish
    BY <1>1, <2>1, <2>4 DEF SkipEmptyBreak, Finish
  <2>5. CASE InsertAds
    BY <2>1, <2>2, <2>5, AlignedInsert
  <2> QED BY <1>5, <2>3, <2>4, <2>5 DEF Stitch
<1>6. CASE Handle /\ (MarkBreak \/ StripCues)
  <2>1. phase' \in {"mark", "marked"}
    BY <1>6 DEF MarkBreak, StripCues
  <2> QED BY <1>2, <2>1
<1>7. CASE AskLive
  <2>1. /\ UNCHANGED <<tags, breaks, out, live, first>>
        /\ phase = "ask" /\ index' = 0
    BY <1>7 DEF AskLive, AskAds, liveVars
  <2>2. out' = << >>
    BY <2>1 DEF AllInv, AdsPassed
  <2>3. Len(out') = 0 /\ \A k : k \notin 1 .. Len(out')
    BY <2>2
  <2> QED BY <2>1, <2>3 DEF Aligned
<1>8. CASE DateLive
  <2>1. phase' \in {"mark", "marked"}
    BY <1>8 DEF DateLive, EnsureDates
  <2> QED BY <1>2, <2>1
<1>9. CASE Play \/ Show
  <2>1. UNCHANGED <<tags, phase, index, breaks, out, live, first>>
    BY <1>9 DEF Play, Show, vars
  <2> QED BY <1>1, <2>1 DEF Interleaving
<1>10. CASE Refresh
  BY <1>2, <1>10 DEF Refresh
<1>11. CASE UNCHANGED hlsVars
  <2>1. UNCHANGED <<tags, phase, index, breaks, out, live, first>>
    BY <1>11 DEF hlsVars, allVars, vars, liveVars
  <2> QED BY <1>1, <2>1 DEF Interleaving
<1> QED BY <1>3, <1>4, <1>5, <1>6, <1>7, <1>8, <1>9, <1>10, <1>11 DEF LiveNext, Handle

(* What the player has played, up to the segment numbered next.             *)
PlayedSegment == [ad : BOOLEAN, start : Nat, seg : Nat]

PlayedTyped ==
  /\ next \in Nat
  /\ played \in Seq(PlayedSegment)
  /\ live = Vod => played = << >>

PlayedInOrder(plays) ==
  \A i, j \in 1 .. Len(plays) : i < j => Place(plays[i]) < Place(plays[j])

PlayedBefore(plays, n) ==
  \A i \in 1 .. Len(plays) :
    Place(plays[i]) < n /\ (plays[i].ad => EndOf(plays[i].start) \in 0 .. n)

PlayedAll(plays, from, n) ==
  \A m \in from .. (n - 1) : \E i \in 1 .. Len(plays) : Place(plays[i]) = m

PlayedToEnd(plays) ==
  \A i, j \in 1 .. Len(plays) :
    i < j /\ plays[i].ad /\ ~plays[j].ad => EndOf(plays[i].start) <= plays[j].start

PlayedInv ==
  /\ PlayedTyped
  /\ Regular => /\ PlayedInOrder(played)
                /\ PlayedBefore(played, next)
                /\ PlayedAll(played, first, next)
                /\ PlayedToEnd(played)
                /\ seen /\ live.mode = "ssai" => first + Segs <= next

LEMMA PlayedInit == LiveInit => PlayedInv
<1> SUFFICES ASSUME LiveInit PROVE PlayedInv
  OBVIOUS
<1>1. next = 0 /\ first = 0 /\ played = << >> /\ ~seen
  BY DEF LiveInit
<1>2. PlayedTyped /\ Len(played) = 0
  BY <1>1 DEF PlayedTyped
<1>3. \A i : i \notin 1 .. Len(played)
  BY <1>2
<1>4. \A m : m \notin first .. (next - 1)
  BY <1>1
<1> QED BY <1>1, <1>2, <1>3, <1>4 DEF PlayedInv, PlayedInOrder, PlayedBefore, PlayedAll, PlayedToEnd

(* Playing on: what is added lies from the next number on, one after the    *)
(* other, and its breaks end before it does.                                *)
LEMMA PlayedOn ==
  ASSUME NEW from \in Nat, NEW m \in Nat, PlayedTyped, next <= from,
         NEW more \in Seq(PlayedSegment), Len(more) = m,
         \A i \in 1 .. m : Place(more[i]) = from + i - 1,
         \A i \in 1 .. m : more[i].ad => EndOf(more[i].start) \in 0 .. (from + m),
         \A i \in 1 .. m : ~more[i].ad => more[i].start = from + i - 1,
         \A i, j \in 1 .. m :
           i < j /\ more[i].ad /\ ~more[j].ad => EndOf(more[i].start) <= more[j].start,
         PlayedInOrder(played), PlayedBefore(played, next), PlayedToEnd(played)
  PROVE  /\ PlayedInOrder(played \o more)
         /\ PlayedBefore(played \o more, from + m)
         /\ PlayedToEnd(played \o more)
         /\ \A lo \in Nat : (next = from \/ lo = from) /\ PlayedAll(played, lo, next) =>
              PlayedAll(played \o more, lo, from + m)
<1> DEFINE N == Len(played)
           both == played \o more
<1>1. /\ N \in Nat /\ Len(both) = N + m
      /\ \A i \in 1 .. N : both[i] = played[i] /\ both[i] \in PlayedSegment
      /\ \A i \in 1 .. m : both[N + i] = more[i] /\ more[i] \in PlayedSegment
  <2>1. played \in Seq(PlayedSegment) /\ N \in Nat
    BY DEF PlayedTyped
  <2>2. Len(both) = N + m
    BY <2>1, ConcatProperties
  <2>3. ASSUME NEW i \in 1 .. N PROVE both[i] = played[i] /\ played[i] \in PlayedSegment
    <3>1. i \in 1 .. (N + m) /\ i <= N
      BY <2>1
    <3>2. both[i] = played[i]
      BY <2>1, <3>1, ConcatProperties
    <3> QED BY <2>1, <3>2
  <2>4. ASSUME NEW i \in 1 .. m PROVE both[N + i] = more[i] /\ more[i] \in PlayedSegment
    <3>1. N + i \in 1 .. (N + m) /\ ~(N + i <= N) /\ (N + i) - N = i
      BY <2>1
    <3>2. both[N + i] = more[i]
      BY <2>1, <3>1, ConcatProperties
    <3> QED BY <3>2
  <2> QED BY <2>1, <2>2, <2>3, <2>4
<1> HIDE DEF both
<1>2. ASSUME NEW i \in 1 .. Len(both)
      PROVE  \/ i \in 1 .. N /\ both[i] = played[i]
             \/ /\ i \notin 1 .. N
                /\ \E k \in 1 .. m : i = N + k /\ both[i] = more[k]
  <2>1. CASE i \in 1 .. N
    BY <1>1, <2>1
  <2>2. CASE i \notin 1 .. N
    <3>1. i - N \in 1 .. m /\ i = N + (i - N)
      BY <1>1, <2>2
    <3> QED BY <1>1, <2>2, <3>1
  <2> QED BY <2>1, <2>2
<1>3. next \in Nat
  BY DEF PlayedTyped
<1>4. \A i \in 1 .. N : Place(played[i]) \in Nat
  BY <1>1 DEF PlayedSegment, Place
<1>5. \A i \in 1 .. N : Place(played[i]) < next
  BY DEF PlayedBefore
<1>6. \A i \in 1 .. N : played[i].ad => EndOf(played[i].start) \in 0 .. next
  BY DEF PlayedBefore
<1> HIDE DEF N
<1>7. PlayedInOrder(both)
  <2> SUFFICES ASSUME NEW i \in 1 .. Len(both), NEW j \in 1 .. Len(both), i < j
               PROVE  Place(both[i]) < Place(both[j])
    BY DEF PlayedInOrder
  <2>1. CASE i \in 1 .. N /\ j \in 1 .. N
    BY <1>1, <2>1 DEF PlayedInOrder, N
  <2>2. CASE i \in 1 .. N /\ j \notin 1 .. N
    <3>1. PICK k \in 1 .. m : j = N + k /\ both[j] = more[k]
      BY <1>2, <2>2
    <3>2. Place(both[j]) = from + k - 1
      BY <3>1
    <3>3. both[i] = played[i] /\ Place(played[i]) < next /\ Place(played[i]) \in Nat
      BY <1>1, <1>4, <1>5, <2>2
    <3>4. \A a \in Nat : a < next => a < from + k - 1
      BY <1>3
    <3> QED BY <3>2, <3>3, <3>4
  <2>3. CASE i \notin 1 .. N
    <3>1. PICK k \in 1 .. m : i = N + k /\ both[i] = more[k]
      BY <1>2, <2>3
    <3>2. j \notin 1 .. N
      BY <1>1, <3>1
    <3>3. PICK l \in 1 .. m : j = N + l /\ both[j] = more[l]
      BY <1>2, <3>2
    <3>4. Place(both[i]) = from + k - 1
      BY <3>1
    <3>5. Place(both[j]) = from + l - 1
      BY <3>3
    <3>6. k < l
      BY <1>1, <3>1, <3>3
    <3> QED BY <3>4, <3>5, <3>6
  <2> QED BY <2>1, <2>2, <2>3
<1>8. PlayedBefore(both, from + m)
  <2> SUFFICES ASSUME NEW i \in 1 .. Len(both)
               PROVE  /\ Place(both[i]) < from + m
                      /\ both[i].ad => EndOf(both[i].start) \in 0 .. (from + m)
    BY DEF PlayedBefore
  <2>1. CASE i \in 1 .. N
    <3>1. both[i] = played[i]
      BY <1>1, <2>1
    <3>2. Place(played[i]) < from + m
      <4>1. Place(played[i]) < next /\ Place(played[i]) \in Nat
        BY <1>4, <1>5, <2>1
      <4> QED BY <1>3, <4>1
    <3>3. ASSUME played[i].ad PROVE EndOf(played[i].start) \in 0 .. (from + m)
      <4>1. EndOf(played[i].start) \in 0 .. next
        BY <1>6, <2>1, <3>3
      <4> QED BY <1>3, <4>1
    <3> QED BY <3>1, <3>2, <3>3
  <2>2. CASE i \notin 1 .. N
    <3>1. PICK k \in 1 .. m : i = N + k /\ both[i] = more[k]
      BY <1>2, <2>2
    <3>2. Place(more[k]) = from + k - 1 /\ from + k - 1 < from + m
      BY <3>1
    <3> QED BY <3>1, <3>2
  <2> QED BY <2>1, <2>2
<1>9. PlayedToEnd(both)
  <2> SUFFICES ASSUME NEW i \in 1 .. Len(both), NEW j \in 1 .. Len(both), i < j,
                      both[i].ad, ~both[j].ad
               PROVE  EndOf(both[i].start) <= both[j].start
    BY DEF PlayedToEnd
  <2>1. CASE i \in 1 .. N /\ j \in 1 .. N
    BY <1>1, <2>1 DEF PlayedToEnd, N
  <2>2. CASE i \in 1 .. N /\ j \notin 1 .. N
    <3>1. PICK k \in 1 .. m : j = N + k /\ both[j] = more[k]
      BY <1>2, <2>2
    <3>2. both[j].start = from + k - 1
      BY <3>1
    <3>3. both[i] = played[i] /\ EndOf(played[i].start) \in 0 .. next
      BY <1>1, <1>6, <2>2
    <3>4. \A a \in 0 .. next : a <= from + k - 1
      BY <1>3
    <3> QED BY <3>2, <3>3, <3>4
  <2>3. CASE i \notin 1 .. N
    <3>1. PICK k \in 1 .. m : i = N + k /\ both[i] = more[k]
      BY <1>2, <2>3
    <3>2. j \notin 1 .. N
      BY <1>1, <3>1
    <3>3. PICK l \in 1 .. m : j = N + l /\ both[j] = more[l]
      BY <1>2, <3>2
    <3>4. k < l
      BY <1>1, <3>1, <3>3
    <3>5. EndOf(more[k].start) <= more[l].start
      BY <3>1, <3>3, <3>4
    <3> QED BY <3>1, <3>3, <3>5
  <2> QED BY <2>1, <2>2, <2>3
<1>10. ASSUME NEW lo \in Nat, next = from \/ lo = from, PlayedAll(played, lo, next)
       PROVE  PlayedAll(both, lo, from + m)
  <2> SUFFICES ASSUME NEW x \in lo .. (from + m - 1)
               PROVE  \E i \in 1 .. Len(both) : Place(both[i]) = x
    BY DEF PlayedAll
  <2>1. CASE x < next
    <3>1. x \in lo .. (next - 1)
      BY <1>3, <2>1
    <3>2. PICK i \in 1 .. N : Place(played[i]) = x
      BY <1>10, <3>1 DEF PlayedAll, N
    <3>3. i \in 1 .. Len(both) /\ both[i] = played[i]
      BY <1>1, <3>2
    <3> QED BY <3>2, <3>3
  <2>2. CASE ~(x < next)
    <3>1. x - from + 1 \in 1 .. m /\ from + (x - from + 1) - 1 = x
      BY <1>3, <1>10, <2>2
    <3>2. PICK k \in 1 .. m : from + k - 1 = x
      BY <3>1
    <3>3. N + k \in 1 .. Len(both) /\ both[N + k] = more[k]
      BY <1>1, <3>2
    <3> QED BY <3>2, <3>3
  <2> QED BY <2>1, <2>2
<1> QED BY <1>7, <1>8, <1>9, <1>10 DEF both
(* The segments of a stitched playlist, by their numbers.                   *)
LEMMA NumberedTyped ==
  ASSUME AllInv, LiveOK, phase = "done",
         NEW n \in Nat, NEW k \in 1 .. Len(out), k = n - first + 1
  PROVE  /\ SegmentNumbered(n) \in PlayedSegment
         /\ SegmentNumbered(n).ad <=> out[k].ad
         /\ ~out[k].ad => /\ SegmentNumbered(n).start = first + out[k].seg
                          /\ SegmentNumbered(n).seg = 0
         /\ out[k].ad => \E b \in 1 .. Len(breaks) :
              /\ OfBreak(out[k], b)
              /\ SegmentNumbered(n).start = first + breaks[b].start
              /\ SegmentNumbered(n).seg = out[k].seg
<1> DEFINE seg == out[k]
<1>1. seg.ad \in BOOLEAN /\ seg.seg \in Nat /\ first \in Nat
  <2>1. out \in Seq(OutSegment) /\ first \in Nat
    BY DEF AllInv, Inv, TypeOK, LiveOK
  <2>2. out[k] \in OutSegment
    BY <2>1
  <2> QED BY <2>1, <2>2 DEF OutSegment
<1>2. CASE ~seg.ad
  <2>1. SegmentNumbered(n) = [ad |-> FALSE, start |-> first + seg.seg, seg |-> 0]
    BY <1>2 DEF SegmentNumbered
  <2> HIDE DEF seg
  <2>2. SegmentNumbered(n) \in PlayedSegment
    BY <1>1, <2>1 DEF PlayedSegment
  <2> QED BY <1>2, <2>1, <2>2 DEF seg
<1>3. CASE seg.ad
  <2> DEFINE b == seg.brk + 1
  <2>1. b \in 1 .. (brk - 1)
    BY <1>3, BreakFacts DEF AllInv, AdsPassed, Interleaving
  <2>2. b \in 1 .. Len(breaks) /\ breaks[b].start \in Nat
    <3>1. b \in 1 .. Len(breaks)
      BY <2>1, BreakFacts DEF AllInv
    <3>2. breaks[b].start \in 0 .. Segs /\ Segs \in Nat
      BY <3>1, BreakFacts DEF AllInv
    <3> QED BY <3>1, <3>2
  <2>3. SegmentNumbered(n) = [ad |-> TRUE, start |-> first + breaks[b].start, seg |-> seg.seg]
    BY <1>3 DEF SegmentNumbered
  <2>4. OfBreak(seg, b)
    BY <1>3 DEF OfBreak
  <2> HIDE DEF b, seg
  <2>5. SegmentNumbered(n) \in PlayedSegment
    BY <1>1, <2>2, <2>3 DEF PlayedSegment
  <2> QED BY <1>3, <2>2, <2>3, <2>4, <2>5 DEF seg
<1> QED BY <1>2, <1>3

(* Where a break ends on the stream.                                        *)
LEMMA EndOnStream ==
  ASSUME AllInv, LiveOK, WindowInv, BreaksCued, PodsInv, Regular, Interleaving,
         NEW b \in 1 .. Len(breaks)
  PROVE  /\ Ends(b) \in Nat /\ first \in Nat
         /\ EndOf(first + breaks[b].start) = first + Ends(b)
<1> DEFINE s == first + breaks[b].start
<1>1. /\ breaks[b].start \in Nat /\ breaks[b].start < breaks[b].end /\ breaks[b].end <= Segs
      /\ breaks[b].end \in Nat /\ Ends(b) \in Nat
  BY BreakFits
<1>2. first + Segs <= Length /\ first \in Nat /\ Length \in Nat /\ Segs \in Nat
  BY StreamTyped DEF WindowInv, Regular, Segs
<1>3. s \in Nat /\ s < Length
  BY <1>1, <1>2
<1>4. Ends(b) = EndOf(s) - first
  BY DEF Ends
<1> HIDE DEF s
<1>5. EndOf(s) \in (s + 1) .. Length
  BY <1>2, <1>3, EndOfIs
<1>6. EndOf(s) = first + Ends(b)
  BY <1>2, <1>3, <1>4, <1>5
<1> QED BY <1>1, <1>2, <1>6 DEF s

LEMMA NumberedPlace ==
  ASSUME AllInv, LiveOK, WindowInv, BreaksCued, PodsInv, Aligned, Regular, phase = "done",
         NEW n \in Nat, first <= n, n < first + Len(out)
  PROVE  /\ Place(SegmentNumbered(n)) = n
         /\ ~SegmentNumbered(n).ad => SegmentNumbered(n).start = n
         /\ SegmentNumbered(n).ad =>
              /\ EndOf(SegmentNumbered(n).start) \in 0 .. (first + Len(out))
              /\ \A l \in Nat : n < l /\ l < first + Len(out) /\ ~SegmentNumbered(l).ad =>
                   EndOf(SegmentNumbered(n).start) <= l
<1> DEFINE k == n - first + 1
           seg == SegmentNumbered(n)
<1>1. first \in Nat /\ Len(out) \in Nat /\ Interleaving
  BY BreakFacts DEF AllInv, LiveOK, Interleaving
<1>2. k \in 1 .. Len(out) /\ k = n - first + 1 /\ first + (k - 1) = n
  BY <1>1
<1>3. /\ seg.ad <=> out[k].ad
      /\ ~out[k].ad => seg.start = first + out[k].seg /\ seg.seg = 0
      /\ out[k].ad => \E b \in 1 .. Len(breaks) :
           OfBreak(out[k], b) /\ seg.start = first + breaks[b].start /\ seg.seg = out[k].seg
  BY <1>2, NumberedTyped
<1> HIDE DEF k, seg
<1>4. CASE ~out[k].ad
  <2>1. out[k].seg = k - 1
    BY <1>1, <1>2, <1>4 DEF Aligned
  <2>2. seg.start = n /\ seg.seg = 0
    BY <1>2, <1>3, <1>4, <2>1
  <2>3. Place(seg) = n
    BY <2>2 DEF Place
  <2> QED BY <1>3, <1>4, <2>2, <2>3 DEF seg
<1>5. CASE out[k].ad
  <2>1. PICK b \in 1 .. Len(breaks) :
          OfBreak(out[k], b) /\ seg.start = first + breaks[b].start /\ seg.seg = out[k].seg
    BY <1>3, <1>5
  <2>2. breaks[b].start + out[k].seg = k - 1 /\ Ends(b) <= Len(out)
    BY <1>1, <1>2, <2>1 DEF Aligned
  <2>3. Ends(b) \in Nat /\ EndOf(seg.start) = first + Ends(b)
    BY <1>1, <2>1, EndOnStream
  <2>4. Place(seg) = n
    <3>1. breaks[b].start \in Nat /\ out[k].seg \in Nat
      <4>1. breaks[b].start \in Nat
        BY <1>1, BreakFits
      <4>2. out[k].seg \in Nat
        <5>1. out \in Seq(OutSegment)
          BY DEF AllInv, Inv, TypeOK
        <5>2. out[k] \in OutSegment
          BY <1>2, <5>1
        <5> QED BY <5>2 DEF OutSegment
      <4> QED BY <4>1, <4>2
    <3>2. (first + breaks[b].start) + out[k].seg = n
      <4>1. first \in Nat /\ first + (k - 1) = n
        BY <1>1, <1>2
      <4>2. breaks[b].start + out[k].seg = k - 1
        BY <2>2
      <4>3. \A x, y \in Nat : (first + x) + y = first + (x + y)
        BY <4>1
      <4>4. (first + breaks[b].start) + out[k].seg = first + (breaks[b].start + out[k].seg)
        BY <3>1, <4>3
      <4> QED BY <4>1, <4>2, <4>4, Zenon
    <3> QED BY <2>1, <3>2 DEF Place
  <2>5. EndOf(seg.start) \in 0 .. (first + Len(out))
    BY <1>1, <2>2, <2>3
  <2>6. ASSUME NEW l \in Nat, n < l, l < first + Len(out), ~SegmentNumbered(l).ad
        PROVE  EndOf(seg.start) <= l
    <3> DEFINE h == l - first + 1
    <3>1. h \in 1 .. Len(out) /\ h = l - first + 1 /\ k < h
      BY <1>1, <1>2, <2>6 DEF k
    <3>2. ~out[h].ad
      BY <2>6, <3>1, NumberedTyped
    <3>3. Ends(b) < h
      BY <1>1, <1>2, <2>1, <3>1, <3>2 DEF Aligned
    <3>4. first + Ends(b) <= l
      BY <1>1, <2>3, <3>1, <3>3
    <3> QED BY <2>3, <3>4
  <2> QED BY <1>3, <1>5, <2>4, <2>5, <2>6 DEF seg
<1> QED BY <1>4, <1>5

(* The player's step.                                                       *)
LEMMA PlayedPlay ==
  ASSUME AllInv, LiveOK, WindowInv, BreaksCued, PodsInv, Aligned, PlayedInv,
         live # Vod, Play
  PROVE  PlayedInv'
<1> DEFINE from == IF next < first THEN first ELSE next
           end  == first + Len(out)
           m    == IF end > from THEN end - from ELSE 0
           more == [i \in 1 .. (end - from) |-> SegmentNumbered(from + i - 1)]
<1>1. /\ played' = played \o more /\ next' = (IF end > from THEN end ELSE from)
      /\ seen' /\ UNCHANGED <<vars, live, first>> /\ phase = "done"
  BY DEF Play
<1>2. first \in Nat /\ Len(out) \in Nat /\ Segs \in Nat /\ next \in Nat /\ PlayedTyped
  BY BreakFacts DEF AllInv, LiveOK, PlayedInv, PlayedTyped
<1>3. /\ from \in Nat /\ end \in Nat /\ next <= from /\ first <= from
      /\ next = from \/ first = from
  BY <1>2
<1> HIDE DEF from, end
<1>4. /\ m \in Nat /\ end <= from + m /\ (m > 0 => from + m = end)
      /\ 1 .. (end - from) = 1 .. m
  <2>1. CASE end > from
    BY <1>3, <2>1
  <2>2. CASE ~(end > from)
    BY <1>3, <2>2
  <2> QED BY <2>1, <2>2
<1>5. next' = from + m
  <2>1. CASE end > from
    BY <1>1, <1>3, <2>1
  <2>2. CASE ~(end > from)
    BY <1>1, <1>3, <2>2
  <2> QED BY <2>1, <2>2
<1> HIDE DEF m
<1>6. ASSUME NEW i \in 1 .. m
      PROVE  /\ from + i - 1 \in Nat /\ first <= from + i - 1
             /\ from + i - 1 < first + Len(out)
  <2>1. from + m = first + Len(out)
    BY <1>4 DEF end
  <2> QED BY <1>2, <1>3, <1>4, <2>1
<1>7. ASSUME NEW i \in 1 .. m
      PROVE  SegmentNumbered(from + i - 1) \in PlayedSegment
  <2> DEFINE n == from + i - 1
             k == n - first + 1
  <2>1. n \in Nat /\ first <= n /\ n < first + Len(out)
    BY <1>6
  <2> HIDE DEF n
  <2>2. k \in 1 .. Len(out) /\ k = n - first + 1
    BY <1>2, <2>1
  <2>3. SegmentNumbered(n) \in PlayedSegment
    BY <1>1, <2>1, <2>2, NumberedTyped
  <2> QED BY <2>3 DEF n
<1>8. more = [i \in 1 .. m |-> SegmentNumbered(from + i - 1)]
  BY <1>4
<1> HIDE DEF more
<1>9. /\ more \in Seq(PlayedSegment) /\ Len(more) = m
      /\ \A i \in 1 .. m : more[i] = SegmentNumbered(from + i - 1)
  <2>1. more \in [1 .. m -> PlayedSegment]
    BY <1>7, <1>8, Zenon
  <2>2. m \in Nat
    BY <1>4
  <2>3. more \in Seq(PlayedSegment) /\ Len(more) = m
    BY <2>1, <2>2
  <2>4. \A i \in 1 .. m : more[i] = SegmentNumbered(from + i - 1)
    BY <1>8, Zenon
  <2> QED BY <2>3, <2>4
<1>10. PlayedTyped'
  <2>1. played \o more \in Seq(PlayedSegment)
    BY <1>2, <1>9, ConcatProperties DEF PlayedTyped
  <2>2. next' \in Nat
    BY <1>3, <1>4, <1>5
  <2> QED BY <1>1, <2>1, <2>2 DEF PlayedTyped
<1>11. ASSUME Regular
       PROVE  /\ PlayedInOrder(played')
              /\ PlayedBefore(played', next')
              /\ PlayedToEnd(played')
              /\ PlayedAll(played', first, next')
  <2>1. ASSUME NEW i \in 1 .. m
        PROVE  /\ Place(more[i]) = from + i - 1
               /\ ~more[i].ad => more[i].start = from + i - 1
               /\ more[i].ad => EndOf(more[i].start) \in 0 .. (from + m)
    <3> DEFINE n == from + i - 1
    <3>1. n \in Nat /\ first <= n /\ n < first + Len(out) /\ more[i] = SegmentNumbered(n)
      BY <1>6, <1>9
    <3>2. from + m = first + Len(out)
      BY <1>4 DEF end
    <3> HIDE DEF n
    <3>3. /\ Place(SegmentNumbered(n)) = n
          /\ ~SegmentNumbered(n).ad => SegmentNumbered(n).start = n
          /\ SegmentNumbered(n).ad =>
               EndOf(SegmentNumbered(n).start) \in 0 .. (first + Len(out))
      BY <1>1, <1>11, <3>1, NumberedPlace
    <3> QED BY <3>1, <3>2, <3>3 DEF n
  <2>2. ASSUME NEW i \in 1 .. m, NEW j \in 1 .. m, i < j, more[i].ad, ~more[j].ad
        PROVE  EndOf(more[i].start) <= more[j].start
    <3> DEFINE n == from + i - 1
               l == from + j - 1
    <3>1. /\ n \in Nat /\ first <= n /\ n < first + Len(out) /\ more[i] = SegmentNumbered(n)
          /\ l \in Nat /\ l < first + Len(out) /\ more[j] = SegmentNumbered(l)
      BY <1>6, <1>9
    <3>2. n < l
      BY <1>3, <2>2
    <3>3. more[j].start = l
      BY <2>1, <2>2
    <3> HIDE DEF n, l
    <3>4. EndOf(SegmentNumbered(n).start) <= l
      BY <1>1, <1>11, <2>2, <3>1, <3>2, NumberedPlace
    <3> QED BY <3>1, <3>3, <3>4
  <2>3. /\ PlayedInOrder(played) /\ PlayedBefore(played, next)
        /\ PlayedAll(played, first, next) /\ PlayedToEnd(played)
    BY <1>11 DEF PlayedInv
  <2>4. from \in Nat /\ m \in Nat /\ next <= from
    BY <1>3, <1>4
  <2>5. /\ PlayedInOrder(played \o more)
        /\ PlayedBefore(played \o more, from + m)
        /\ PlayedToEnd(played \o more)
        /\ \A lo \in Nat : (next = from \/ lo = from) /\ PlayedAll(played, lo, next) =>
             PlayedAll(played \o more, lo, from + m)
    BY <1>2, <1>9, <2>1, <2>2, <2>3, <2>4, PlayedOn
  <2>6. PlayedAll(played \o more, first, from + m)
    BY <1>2, <1>3, <2>3, <2>5
  <2> QED BY <1>1, <1>5, <2>5, <2>6
<1>12. Regular => first + Segs <= next'
  <2>1. ASSUME Regular PROVE Segs <= Len(out)
    <3>1. index = Segs /\ Interleaving
      BY <1>1 DEF AllInv, AdsPassed, Interleaving
    <3> QED BY <2>1, <3>1 DEF Aligned
  <2> QED BY <1>2, <1>3, <1>4, <1>5, <2>1 DEF end
<1>13. /\ Regular' <=> Regular
       /\ Segs' = Segs /\ first' = first
       /\ \A plays, n : PlayedBefore(plays, n)' <=> PlayedBefore(plays, n)
       /\ \A plays : PlayedToEnd(plays)' <=> PlayedToEnd(plays)
  <2>1. live' = live /\ first' = first /\ breaks' = breaks /\ tags' = tags
    BY <1>1 DEF vars
  <2>2. \A s : EndOf(s)' = EndOf(s)
    BY <2>1 DEF EndOf, Length
  <2> QED BY <2>1, <2>2, SameStream DEF Segs, PlayedBefore, PlayedToEnd
<1> QED BY <1>10, <1>11, <1>12, <1>13 DEF PlayedInv, PlayedInOrder, PlayedAll
(* The other steps: what was played stays, and so does what is to come.     *)
LEMMA PlayedKept ==
  ASSUME PlayedInv, UNCHANGED <<live, first, next, played>>, Segs' = Segs,
         seen' = seen \/ live.mode = "sgai"
  PROVE  PlayedInv'
<1>1. /\ Regular' <=> Regular
      /\ PlayedTyped'
      /\ \A plays, n : PlayedBefore(plays, n)' <=> PlayedBefore(plays, n)
      /\ \A plays : PlayedToEnd(plays)' <=> PlayedToEnd(plays)
  <2>1. \A s : EndOf(s)' = EndOf(s)
    BY DEF EndOf, Length
  <2>2. Length' = Length /\ Starts' = Starts
    BY DEF Length, Starts
  <2>3. (Matched' <=> Matched) /\ (CuesApart' <=> CuesApart)
    BY <2>1, <2>2 DEF Matched, CuesApart
  <2>4. PlayedTyped'
    BY DEF PlayedInv, PlayedTyped
  <2> QED BY <2>1, <2>3, <2>4 DEF Regular, PlayedBefore, PlayedToEnd
<1> QED BY <1>1 DEF PlayedInv, PlayedInOrder, PlayedAll

(* The next window starts no earlier: nothing new is behind the player.     *)
LEMMA PlayedRefresh ==
  ASSUME LiveOK, PlayedInv, Refresh, live # Vod
  PROVE  PlayedInv'
<1>1. /\ UNCHANGED <<live, next, played>> /\ ~seen'
      /\ \E from \in first .. Length : first' = from
  BY DEF Refresh
<1>2. first \in Nat /\ first' \in Nat /\ first <= first' /\ next \in Nat
  <2>1. first \in Nat /\ next \in Nat
    BY DEF LiveOK, PlayedInv, PlayedTyped
  <2> QED BY <1>1, <2>1
<1>3. /\ Regular' <=> Regular
      /\ PlayedTyped'
      /\ \A plays, n : PlayedBefore(plays, n)' <=> PlayedBefore(plays, n)
      /\ \A plays : PlayedToEnd(plays)' <=> PlayedToEnd(plays)
  <2>1. \A s : EndOf(s)' = EndOf(s)
    BY <1>1 DEF EndOf, Length
  <2>2. Length' = Length /\ Starts' = Starts
    BY <1>1 DEF Length, Starts
  <2>3. (Matched' <=> Matched) /\ (CuesApart' <=> CuesApart)
    BY <1>1, <2>1, <2>2 DEF Matched, CuesApart
  <2>4. PlayedTyped'
    BY <1>1 DEF PlayedInv, PlayedTyped
  <2> QED BY <1>1, <2>1, <2>3, <2>4 DEF Regular, PlayedBefore, PlayedToEnd
<1>4. PlayedAll(played, first, next) => PlayedAll(played, first', next)
  <2>1. \A m \in first' .. (next - 1) : m \in first .. (next - 1)
    BY <1>2
  <2> QED BY <2>1 DEF PlayedAll
<1> QED BY <1>1, <1>3, <1>4 DEF PlayedInv, PlayedInOrder, PlayedAll

LEMMA PlayedStep ==
  ASSUME AllInv, LiveOK, WindowInv, BreaksCued, PodsInv, Aligned, PlayedInv,
         [LiveNext]_hlsVars
  PROVE  PlayedInv'
<1>1. CASE live = Vod /\ PlaylistNext /\ UNCHANGED liveVars
  <2>1. live' = Vod /\ UNCHANGED <<next, played>> /\ live = Vod
    BY <1>1 DEF liveVars
  <2> QED BY <2>1 DEF PlayedInv, PlayedTyped, Regular
<1>2. CASE live # Vod /\ (Handle \/ AskLive \/ DateLive)
  <2>1. UNCHANGED liveVars
    BY <1>2 DEF Handle, AskLive, DateLive
  <2>2. tags' = tags
    BY <1>2 DEF Handle, Detect, CueIn, CueOut, OtherTag, NextTag, NextSegment, EndOfPlaylist,
       Stitch, CopyBefore, AtBreak, SkipEmptyBreak, InsertAds, CopyRest, Finish, MarkBreak,
       StripCues, AskLive, AskAds, DateLive, EnsureDates
  <2> QED BY <2>1, <2>2, PlayedKept DEF liveVars, Segs
<1>3. CASE live # Vod /\ Play
  BY <1>3, PlayedPlay
<1>4. CASE live # Vod /\ Show
  <2>1. UNCHANGED <<live, first, next, played, tags>> /\ phase = "marked"
    BY <1>4 DEF Show, vars
  <2>2. live.mode = "sgai"
    BY <1>4, <2>1 DEF PodsInv
  <2> QED BY <2>1, <2>2, PlayedKept DEF Segs
<1>5. CASE live # Vod /\ Refresh
  BY <1>5, PlayedRefresh
<1>6. CASE UNCHANGED hlsVars
  <2>1. UNCHANGED <<live, first, next, played, tags, seen>>
    BY <1>6 DEF hlsVars, allVars, vars, liveVars
  <2> QED BY <2>1, PlayedKept DEF Segs
<1> QED BY <1>1, <1>2, <1>3, <1>4, <1>5, <1>6 DEF LiveNext

LivePlays == LiveAll /\ BreaksCued /\ PodsInv /\ Aligned /\ PlayedInv

LEMMA LivePlaysInvariant == LiveSpec => []LivePlays
<1>1. LiveInit => BreaksCued /\ PodsInv /\ Aligned /\ PlayedInv
  <2> SUFFICES ASSUME LiveInit PROVE BreaksCued /\ Aligned
    BY PodsInit, PlayedInit
  <2>1. Fresh
    BY InitFresh DEF LiveInit, PlaylistInit
  <2> QED BY <2>1, FreshCued DEF Fresh, Aligned, Interleaving
<1>2. /\ LiveAll /\ LiveAll' /\ BreaksCued /\ PodsInv /\ Aligned /\ PlayedInv
      /\ [LiveNext]_hlsVars
      => (BreaksCued /\ PodsInv /\ Aligned /\ PlayedInv)'
  <2> SUFFICES ASSUME LiveAll, LiveAll', BreaksCued, PodsInv, Aligned, PlayedInv,
                      [LiveNext]_hlsVars
               PROVE  BreaksCued' /\ PodsInv' /\ Aligned' /\ PlayedInv'
    OBVIOUS
  <2>1. BreaksCued'
    <3>1. (Fresh => BreaksCued)'
      BY FreshCued, PTL
    <3>2. CASE UNCHANGED hlsVars
      BY <3>2, CuedStep DEF LiveAll, AllInv, hlsVars, allVars
    <3>3. CASE LiveNext
      <4>1. [Next]_vars \/ Fresh'
        BY <3>3, LiveSteps DEF LiveAll
      <4> QED BY <3>1, <4>1, CuedStep DEF LiveAll, AllInv
    <3> QED BY <3>2, <3>3
  <2>2. PodsInv'
    BY PodsStep DEF LiveAll
  <2>3. Aligned'
    BY AlignedStep DEF LiveAll, AllInv
  <2>4. PlayedInv'
    BY PlayedStep DEF LiveAll
  <2> QED BY <2>1, <2>2, <2>3, <2>4
<1> QED BY <1>1, <1>2, LiveAllInvariant, PTL DEF LiveSpec, LivePlays

(* A player of a live stream plays each place of the stream once, in order, *)
(* and a break it began as ads to its end so, for streams of any length,    *)
(* windows of any size and whatever leaves at the front between playlists,  *)
(* if the ads of each break are as many as its segments and no segment both *)
(* ends a break and starts one.                                             *)
THEOREM StreamsPlayThrough == LiveSpec => []PlaysThrough
<1>1. LivePlays => PlaysThrough
  <2> SUFFICES ASSUME LivePlays, Matched, CuesApart
               PROVE  /\ \A i, j \in DOMAIN played : i < j => Place(played[i]) < Place(played[j])
                      /\ seen /\ live.mode = "ssai" =>
                           \A n \in first .. first + Segs - 1 :
                             \E i \in DOMAIN played : Place(played[i]) = n
                      /\ \A i, j \in DOMAIN played :
                           played[i].ad /\ ~played[j].ad /\ i < j =>
                             EndOf(played[i].start) <= played[j].start
    BY DEF PlaysThrough
  <2>0. DOMAIN played = 1 .. Len(played)
    <3>1. played \in Seq(PlayedSegment)
      BY DEF LivePlays, PlayedInv, PlayedTyped
    <3> QED BY <3>1
  <2>1. CASE live = Vod
    <3>1. played = << >> /\ live.mode # "ssai"
      BY <2>1 DEF LivePlays, PlayedInv, PlayedTyped, Vod
    <3>2. \A i : i \notin DOMAIN played
      BY <3>1
    <3> QED BY <3>1, <3>2
  <2>2. CASE live # Vod
    <3>1. /\ PlayedInOrder(played) /\ PlayedToEnd(played)
          /\ PlayedAll(played, first, next)
          /\ seen /\ live.mode = "ssai" => first + Segs <= next
      BY <2>2 DEF LivePlays, PlayedInv, Regular
    <3>2. first \in Nat /\ Segs \in Nat /\ next \in Nat
      BY DEF LivePlays, LiveAll, LiveOK, PlayedInv, PlayedTyped, AllInv, Inv, TypeOK, Segs
    <3>3. ASSUME first + Segs <= next, NEW n \in first .. first + Segs - 1
          PROVE  \E i \in DOMAIN played : Place(played[i]) = n
      <4>1. n \in first .. (next - 1)
        BY <3>2, <3>3
      <4> QED BY <2>0, <3>1, <4>1 DEF PlayedAll
    <3> QED BY <2>0, <3>1, <3>3 DEF PlayedInOrder, PlayedToEnd
  <2> QED BY <2>1, <2>2
<1> QED BY <1>1, LivePlaysInvariant, PTL

-----------------------------------------------------------------------------
(* FlattenSeq: the lists of ss joined one by one.                           *)
LEMMA JoinTyped ==
  ASSUME NEW T, NEW a \in Seq(T), NEW b \in Seq(T)
  PROVE  a \o b \in Seq(T) /\ (a \o b = << >> <=> a = << >> /\ b = << >>)
<1>1. Len(a) \in Nat /\ Len(b) \in Nat /\ Len(a \o b) = Len(a) + Len(b) /\ a \o b \in Seq(T)
  OBVIOUS
<1>2. \A c \in Seq(T) : c = << >> <=> Len(c) = 0
  OBVIOUS
<1> QED BY <1>1, <1>2

(* f holds what the first 1, ..., n lists of ss come to.                    *)
Joins(f, ss, n) ==
  f = [i \in 1 .. n |-> IF i = 1 THEN ss[i] ELSE f[i - 1] \o ss[i]]

LEMMA JoinsTyped ==
  ASSUME NEW T, NEW ss \in Seq(Seq(T)), NEW n \in 1 .. Len(ss), NEW f, Joins(f, ss, n)
  PROVE  f \in [1 .. n -> Seq(T)]
<1>1. n \in Nat /\ \A i \in 1 .. n : ss[i] \in Seq(T)
  OBVIOUS
<1>2. /\ DOMAIN f = 1 .. n
      /\ \A i \in 1 .. n : f[i] = IF i = 1 THEN ss[i] ELSE f[i - 1] \o ss[i]
  BY DEF Joins
<1> DEFINE B == {i \in 1 .. n : f[i] \notin Seq(T)}
<1>3. B = {}
  <2> SUFFICES ASSUME B # {} PROVE FALSE
    OBVIOUS
  <2>1. B \subseteq Nat
    BY <1>1
  <2>2. PICK i \in B : \A j \in B : i <= j
    BY <2>1, Least
  <2>3. i # 1
    BY <1>1, <1>2
  <2>4. i - 1 \in 1 .. n /\ i - 1 \notin B
    BY <1>1, <2>2, <2>3
  <2>5. f[i - 1] \in Seq(T) /\ f[i] = f[i - 1] \o ss[i] /\ ss[i] \in Seq(T)
    BY <1>1, <1>2, <2>3, <2>4
  <2>6. f[i] \in Seq(T)
    BY <2>5, JoinTyped
  <2>7. f[i] \notin Seq(T)
    BY <2>2
  <2> QED BY <2>6, <2>7
<1> QED BY <1>2, <1>3, Joins(f, ss, n) DEF Joins

LEMMA JoinsExist ==
  ASSUME NEW T, NEW ss \in Seq(Seq(T)), NEW n \in 1 .. Len(ss)
  PROVE  \E f : Joins(f, ss, n)
<1>1. Len(ss) \in Nat
  OBVIOUS
<1> DEFINE B == {m \in 1 .. Len(ss) : ~ \E f : Joins(f, ss, m)}
<1>2. B = {}
  <2> SUFFICES ASSUME B # {} PROVE FALSE
    OBVIOUS
  <2>1. B \subseteq Nat
    BY <1>1
  <2>2. PICK m \in B : \A j \in B : m <= j
    BY <2>1, Least
  <2>3. m \in 1 .. Len(ss) /\ ~ \E f : Joins(f, ss, m)
    OBVIOUS
  <2>4. CASE m = 1
    <3>1. Joins([i \in 1 .. 1 |-> ss[i]], ss, 1)
      BY DEF Joins
    <3> QED BY <2>3, <2>4, <3>1
  <2>5. CASE m # 1
    <3>0. m \in Nat /\ m - 1 \in 1 .. Len(ss)
      BY <1>1, <2>3, <2>5
    <3> HIDE DEF B
    <3>1. m - 1 \notin B
      BY <2>2, <3>0
    <3>2. PICK g : Joins(g, ss, m - 1)
      BY <3>0, <3>1 DEF B
    <3> DEFINE f == [i \in 1 .. m |-> IF i = m THEN g[m - 1] \o ss[m] ELSE g[i]]
    <3>3. \A i \in 1 .. (m - 1) : g[i] = IF i = 1 THEN ss[i] ELSE g[i - 1] \o ss[i]
      BY <3>2 DEF Joins
    <3>4. ASSUME NEW i \in 1 .. m
          PROVE  f[i] = IF i = 1 THEN ss[i] ELSE f[i - 1] \o ss[i]
      <4>1. CASE i = m
        <5>1. m \in 1 .. m /\ m - 1 \in 1 .. m /\ m - 1 # m
          BY <2>5, <3>0
        <5>2. f[m] = g[m - 1] \o ss[m] /\ f[m - 1] = g[m - 1]
          BY <5>1
        <5> QED BY <2>5, <4>1, <5>2
      <4>2. CASE i # m
        <5>1. i \in 1 .. (m - 1) /\ f[i] = g[i]
          BY <2>3, <4>2
        <5>2. i # 1 => f[i - 1] = g[i - 1]
          BY <2>3, <4>2
        <5> QED BY <3>3, <5>1, <5>2
      <4> QED BY <4>1, <4>2
    <3>5. DOMAIN f = 1 .. m
      OBVIOUS
    <3>6. f = [i \in 1 .. m |-> f[i]]
      OBVIOUS
    <3> HIDE DEF f
    <3>7. Joins(f, ss, m)
      BY <3>4, <3>6 DEF Joins
    <3> QED BY <2>3, <3>7
  <2> QED BY <2>4, <2>5
<1> QED BY <1>2

LEMMA FlattenIsJoin ==
  ASSUME NEW T, NEW ss \in Seq(Seq(T)), ss # << >>
  PROVE  \E f : /\ Joins(f, ss, Len(ss)) /\ f \in [1 .. Len(ss) -> Seq(T)]
                /\ FlattenSeq(ss) = f[Len(ss)]
<1>1. Len(ss) \in Nat \ {0} /\ Len(ss) \in 1 .. Len(ss)
  OBVIOUS
<1> DEFINE f == CHOOSE f : f = [i \in 1 .. Len(ss) |-> IF i = 1 THEN ss[i] ELSE f[i - 1] \o ss[i]]
<1>2. FlattenSeq(ss) = f[Len(ss)]
  BY <1>1 DEF FlattenSeq
<1>3. \E g : g = [i \in 1 .. Len(ss) |-> IF i = 1 THEN ss[i] ELSE g[i - 1] \o ss[i]]
  BY <1>1, JoinsExist DEF Joins
<1>4. f = [i \in 1 .. Len(ss) |-> IF i = 1 THEN ss[i] ELSE f[i - 1] \o ss[i]]
  BY <1>3
<1> HIDE DEF f
<1>5. Joins(f, ss, Len(ss))
  BY <1>4 DEF Joins
<1>6. f \in [1 .. Len(ss) -> Seq(T)]
  BY <1>1, <1>5, JoinsTyped
<1> QED BY <1>2, <1>5, <1>6

LEMMA FlattenTyped ==
  ASSUME NEW T, NEW ss \in Seq(Seq(T))
  PROVE  FlattenSeq(ss) \in Seq(T)
<1>1. CASE ss = << >>
  BY <1>1 DEF FlattenSeq
<1>2. CASE ss # << >>
  <2>1. PICK f \in [1 .. Len(ss) -> Seq(T)] : FlattenSeq(ss) = f[Len(ss)]
    BY <1>2, FlattenIsJoin
  <2>2. Len(ss) \in 1 .. Len(ss)
    BY <1>2
  <2> QED BY <2>1, <2>2
<1> QED BY <1>1, <1>2

LEMMA FlattenEmpty ==
  ASSUME NEW T, NEW ss \in Seq(Seq(T))
  PROVE  FlattenSeq(ss) = << >> <=> \A i \in DOMAIN ss : ss[i] = << >>
<1>1. CASE ss = << >>
  BY <1>1 DEF FlattenSeq
<1>2. CASE ss # << >>
  <2> DEFINE n == Len(ss)
  <2>1. n \in Nat /\ n \in 1 .. n /\ DOMAIN ss = 1 .. n /\ \A i \in 1 .. n : ss[i] \in Seq(T)
    BY <1>2
  <2>2. PICK f \in [1 .. n -> Seq(T)] : Joins(f, ss, n) /\ FlattenSeq(ss) = f[n]
    BY <1>2, FlattenIsJoin
  <2> HIDE DEF n
  <2>3. \A i \in 1 .. n : f[i] = IF i = 1 THEN ss[i] ELSE f[i - 1] \o ss[i]
    BY <2>2 DEF Joins
  <2> DEFINE AsSaid(i) == f[i] = << >> <=> \A j \in 1 .. i : ss[j] = << >>
             B == {i \in 1 .. n : ~AsSaid(i)}
  <2>4. AsSaid(1)
    BY <2>1, <2>3
  <2> HIDE DEF AsSaid
  <2>5. B = {}
    <3> SUFFICES ASSUME B # {} PROVE FALSE
      OBVIOUS
    <3>1. B \subseteq Nat
      BY <2>1
    <3>2. PICK i \in B : \A j \in B : i <= j
      BY <3>1, Least
    <3>3. i \in 1 .. n /\ ~AsSaid(i)
      OBVIOUS
    <3>4. i # 1
      BY <2>4, <3>3
    <3>5. i \in Nat /\ i - 1 \in 1 .. n
      BY <2>1, <3>3, <3>4
    <3>6. AsSaid(i - 1)
      BY <3>2, <3>5
    <3>7. f[i] = f[i - 1] \o ss[i] /\ f[i - 1] \in Seq(T) /\ ss[i] \in Seq(T)
      BY <2>1, <2>3, <3>3, <3>4, <3>5
    <3>8. f[i] = << >> <=> f[i - 1] = << >> /\ ss[i] = << >>
      BY <3>7, JoinTyped
    <3>9. 1 .. i = (1 .. (i - 1)) \cup {i}
      BY <3>5
    <3>10. AsSaid(i)
      BY <3>6, <3>8, <3>9 DEF AsSaid
    <3> QED BY <3>3, <3>10
  <2>6. AsSaid(n)
    BY <2>1, <2>5
  <2> QED BY <2>1, <2>2, <2>6 DEF AsSaid
<1> QED BY <1>1, <1>2

-----------------------------------------------------------------------------
(* What is written is of segments that the playlist has; a playlist without *)
(* breaks is marked in no way.                                              *)
LinesInv ==
  /\ \A k \in DOMAIN out : ~out[k].ad => out[k].seg \in 0 .. (Segs - 1)
  /\ phase = "mark" => breaks # << >>
  /\ phase = "marked" /\ breaks = << >> => \A i \in 1 .. Segs : marked[i].tags = tags[i]

LEMMA FreshLines == Fresh => LinesInv
  BY DEF Fresh, LinesInv

LEMMA LinesStep == Inv /\ LinesInv /\ [Next]_vars => LinesInv'
<1> SUFFICES ASSUME Inv, LinesInv, [Next]_vars PROVE LinesInv'
  OBVIOUS
<1>0. /\ Segs \in Nat /\ index \in 0 .. Segs /\ TypeOK
      /\ Len(out) \in Nat /\ DOMAIN out = 1 .. Len(out)
  BY DEF Inv, TypeOK, Segs
<1>1. CASE UNCHANGED vars
  BY <1>1 DEF vars, LinesInv, Segs
<1>2. CASE Detect \/ AskAds
  BY <1>2 DEF Detect, CueIn, CueOut, OtherTag, AtTag, NextTag, NextSegment, EndOfPlaylist, AskAds,
              LinesInv, Segs
<1>3. CASE CopyBefore \/ CopyRest
  <2>1. /\ out' = Append(out, Content(index, FALSE)) /\ index < Segs
        /\ phase' = "stitch" /\ UNCHANGED tags
    BY <1>3 DEF CopyBefore, CopyRest
  <2>2. /\ DOMAIN out' = 1 .. (Len(out) + 1)
        /\ out'[Len(out) + 1] = Content(index, FALSE)
        /\ \A j \in 1 .. Len(out) : out'[j] = out[j]
    BY <1>0, <2>1, ContentAppended
  <2>3. Segs' = Segs /\ Content(index, FALSE).seg = index
    BY <2>1 DEF Segs, Content
  <2>4. out'[Len(out) + 1].seg = index
    BY <2>2, <2>3
  <2>5. ASSUME NEW k \in DOMAIN out', ~out'[k].ad
        PROVE  out'[k].seg \in 0 .. (Segs - 1)
    <3>1. CASE k \in 1 .. Len(out)
      <4>1. out'[k] = out[k] /\ k \in DOMAIN out
        BY <1>0, <2>2, <3>1
      <4>2. ~out[k].ad
        BY <2>5, <4>1
      <4>3. out[k].seg \in 0 .. (Segs - 1)
        BY <4>1, <4>2 DEF LinesInv
      <4> QED BY <4>1, <4>3
    <3>2. CASE k \notin 1 .. Len(out)
      <4>1. k = Len(out) + 1
        BY <1>0, <2>2, <3>2
      <4>2. out'[k].seg = index
        BY <2>4, <4>1, Zenon
      <4>3. index \in 0 .. (Segs - 1)
        BY <1>0, <2>1
      <4> QED BY <4>2, <4>3
    <3> QED BY <3>1, <3>2
  <2> QED BY <2>1, <2>3, <2>5 DEF LinesInv
<1>4. CASE SkipEmptyBreak \/ Finish
  BY <1>4 DEF SkipEmptyBreak, AtBreak, Finish, LinesInv, Segs
<1>5. CASE InsertAds
  <2> DEFINE N == Len(out)
             n == fill[brk]
             end == breaks[brk].end
  <2>1. /\ n \in Nat
        /\ \A j \in 1 .. N : out'[j] = out[j]
        /\ \A j \in 1 .. n : out'[N + j] = AdSeg(brk - 1, j - 1, j = 1)
        /\ end < Segs => DOMAIN out' = 1 .. (N + n + 1) /\ out'[N + n + 1] = Content(end, TRUE)
        /\ ~(end < Segs) => DOMAIN out' = 1 .. (N + n)
    BY <1>5, AdsInserted
  <2>2. phase' = "stitch" /\ UNCHANGED tags
    BY <1>5 DEF InsertAds, AtBreak
  <2>3. end \in Nat
    BY <1>5, BreakFacts DEF InsertAds, AtBreak, Interleaving
  <2>4. (\A b, i, f : AdSeg(b, i, f).ad) /\ Content(end, TRUE).seg = end
    BY DEF AdSeg, Content
  <2> HIDE DEF n, end
  <2>5. ASSUME NEW k \in DOMAIN out', ~out'[k].ad
        PROVE  out'[k].seg \in 0 .. (Segs - 1)
    <3>1. CASE k \in 1 .. N
      <4>1. out'[k] = out[k] /\ k \in DOMAIN out
        BY <1>0, <2>1, <3>1
      <4>2. ~out[k].ad
        BY <2>5, <4>1
      <4>3. out[k].seg \in 0 .. (Segs - 1)
        BY <4>1, <4>2 DEF LinesInv
      <4> QED BY <4>1, <4>3
    <3>2. CASE k \in (N + 1) .. (N + n)
      <4>1. k - N \in 1 .. n /\ k = N + (k - N)
        BY <1>0, <2>1, <3>2
      <4>2. out'[k] = AdSeg(brk - 1, (k - N) - 1, (k - N) = 1)
        BY <2>1, <4>1
      <4>3. out'[k].ad
        BY <4>2 DEF AdSeg
      <4> QED BY <2>5, <4>3
    <3>3. CASE k = N + n + 1 /\ end < Segs
      <4>1. out'[k] = Content(end, TRUE)
        BY <2>1, <3>3
      <4>2. out'[k].seg = end
        BY <2>4, <4>1, Zenon
      <4> QED BY <1>0, <2>3, <3>3, <4>2
    <3>4. k \in 1 .. N \/ k \in (N + 1) .. (N + n) \/ (k = N + n + 1 /\ end < Segs)
      <4>1. k \in DOMAIN out' /\ N \in Nat /\ n \in Nat
        BY <1>0, <2>1, <2>5
      <4> HIDE DEF N
      <4>2. end < Segs => k \in 1 .. (N + n + 1)
        BY <2>1, <4>1
      <4>3. ~(end < Segs) => k \in 1 .. (N + n)
        BY <2>1, <4>1
      <4> QED BY <4>1, <4>2, <4>3
    <3> QED BY <3>1, <3>2, <3>3, <3>4
  <2>6. Segs' = Segs
    BY <2>2 DEF Segs
  <2> QED BY <2>2, <2>5, <2>6 DEF LinesInv
<1>6. CASE MarkBreak \/ StripCues
  BY <1>6 DEF MarkBreak, StripCues, LinesInv, Segs
<1>7. ASSUME NEW d \in SUBSET (0 .. (Segs - 1)), NEW r \in Ranges, EnsureDates(d, r)
      PROVE  LinesInv'
  <2>1. /\ UNCHANGED <<tags, breaks, out>>
        /\ phase' = IF breaks = << >> THEN "marked" ELSE "mark"
        /\ \A i \in 1 .. Segs : marked'[i].tags = tags[i]
    BY <1>7 DEF EnsureDates
  <2> QED BY <2>1 DEF LinesInv, Segs
<1> QED BY <1>1, <1>2, <1>3, <1>4, <1>5, <1>6, <1>7 DEF Next, Stitch, Mark

LEMMA LinesInvariant == LiveSpec => [](AllInv /\ LinesInv)
<1>1. LiveInit => LinesInv
  BY InitFresh, FreshLines DEF LiveInit, PlaylistInit
<1>2. AllInv /\ LiveOK /\ LinesInv /\ [LiveNext]_hlsVars => LinesInv'
  <2> SUFFICES ASSUME AllInv, LiveOK, LinesInv, [LiveNext]_hlsVars PROVE LinesInv'
    OBVIOUS
  <2>1. Fresh' => LinesInv'
    BY FreshLines, PTL
  <2>2. CASE UNCHANGED hlsVars
    BY <2>2, LinesStep DEF AllInv, hlsVars, allVars
  <2> QED BY <2>1, <2>2, LiveSteps, LinesStep DEF AllInv
<1> QED BY <1>1, <1>2, LiveInvariant, PTL DEF LiveSpec

-----------------------------------------------------------------------------
(* Urls.  Short lists of parts, put together and taken apart.               *)
LEMMA Tuples ==
  ASSUME NEW T, NEW x \in Seq(T)
  PROVE  /\ Len(x) = 1 => x = <<x[1]>>
         /\ Len(x) = 2 => x = <<x[1], x[2]>>
         /\ Len(x) = 3 => x = <<x[1], x[2], x[3]>>
<1>1. ASSUME Len(x) = 1 PROVE x = <<x[1]>>
  <2>1. x[1] \in T /\ <<x[1]>> \in Seq(T)
    BY <1>1
  <2>2. \A i \in 1 .. 1 : x[i] = <<x[1]>>[i]
    OBVIOUS
  <2> QED BY <1>1, <2>1, <2>2, SeqEqual
<1>2. ASSUME Len(x) = 2 PROVE x = <<x[1], x[2]>>
  <2> DEFINE y == <<x[1], x[2]>>
  <2>1. x[1] \in T /\ x[2] \in T
    BY <1>2
  <2>2. y \in Seq(T) /\ Len(y) = 2
    BY <2>1
  <2>3. \A i \in 1 .. 2 : x[i] = y[i]
    OBVIOUS
  <2> HIDE DEF y
  <2>4. x = y
    BY <1>2, <2>2, <2>3, SeqEqual
  <2> QED BY <2>4 DEF y
<1>3. ASSUME Len(x) = 3 PROVE x = <<x[1], x[2], x[3]>>
  <2> DEFINE y == <<x[1], x[2], x[3]>>
  <2>1. x[1] \in T /\ x[2] \in T /\ x[3] \in T
    BY <1>3
  <2>2. y \in Seq(T) /\ Len(y) = 3
    BY <2>1
  <2>3. \A i \in 1 .. 3 : x[i] = y[i]
    OBVIOUS
  <2> HIDE DEF y
  <2>4. x = y
    BY <1>3, <2>2, <2>3, SeqEqual
  <2> QED BY <2>4 DEF y
<1> QED BY <1>1, <1>2, <1>3

LEMMA PartsJoined ==
  ASSUME NEW a, NEW b, NEW c
  PROVE  /\ <<a, b>> \o <<c>> = <<a, b, c>>
         /\ <<a>> \o <<b>> = <<a, b>>
<1> DEFINE T == {a, b, c}
<1>1. <<a, b>> \in Seq(T) /\ <<a>> \in Seq(T)
      /\ <<c>> \in Seq(T) /\ <<b>> \in Seq(T)
  OBVIOUS
<1> HIDE DEF T
<1>2. ASSUME NEW s \in Seq(T), NEW t \in Seq(T)
      PROVE  /\ s \o t \in Seq(T) /\ Len(s \o t) = Len(s) + Len(t)
             /\ \A i \in 1 .. Len(s) + Len(t) :
                  (s \o t)[i] = IF i <= Len(s) THEN s[i] ELSE t[i - Len(s)]
  BY ConcatProperties
<1>3. ASSUME NEW s, s = <<a, b>> \o <<c>> PROVE s = <<a, b, c>>
  <2>1. s \in Seq(T) /\ Len(s) = 3
        /\ \A i \in 1 .. 3 : s[i] = IF i <= 2 THEN <<a, b>>[i] ELSE <<c>>[i - 2]
    BY <1>1, <1>2, <1>3
  <2>2. s[1] = a /\ s[2] = b /\ s[3] = c
    BY <2>1
  <2>3. s = <<s[1], s[2], s[3]>>
    BY <2>1, Tuples
  <2> QED BY <2>2, <2>3
<1>4. ASSUME NEW s, s = <<a>> \o <<b>> PROVE s = <<a, b>>
  <2>1. s \in Seq(T) /\ Len(s) = 2
        /\ \A i \in 1 .. 2 : s[i] = IF i <= 1 THEN <<a>>[i] ELSE <<b>>[i - 1]
    BY <1>1, <1>2, <1>4
  <2>2. s[1] = a /\ s[2] = b
    BY <2>1
  <2>3. s = <<s[1], s[2]>>
    BY <2>1, Tuples
  <2> QED BY <2>2, <2>3
<1> QED BY <1>3, <1>4, Zenon

LEMMA OnePart ==
  ASSUME NEW T, NEW x \in Seq(T), NEW m \in 1 .. Len(x)
  PROVE  SubSeq(x, m, m) = <<x[m]>>
<1> DEFINE s == SubSeq(x, m, m)
<1>1. s \in Seq(T) /\ Len(s) = 1 /\ s[1] = x[m]
  OBVIOUS
<1> HIDE DEF s
<1>2. s = <<s[1]>>
  BY <1>1, Tuples
<1> QED BY <1>1, <1>2 DEF s

LEMMA LastOfThree ==
  ASSUME NEW a, NEW b, NEW c
  PROVE  Last(<<a, b, c>>) = c /\ Front(<<a, b, c>>) = <<a, b>>
<1> DEFINE T == {a, b, c}
<1>1. Last(<<a, b, c>>) = c
  BY DEF Last
<1>2. Front(<<a, b, c>>) = <<a, b>>
  <2> DEFINE x == <<a, b, c>>
             s == SubSeq(x, 1, 2)
  <2>1. Front(x) = s
    BY DEF Front
  <2>2. \A i \in 1 .. 2 : x[i] \in T
    OBVIOUS
  <2>3. x[1] = a /\ x[2] = b
    OBVIOUS
  <2> HIDE DEF x, T
  <2>4. s \in Seq(T) /\ Len(s) = 2 /\ \A i \in 1 .. 2 : s[i] = x[i]
    <3>1. \A i \in 1 .. 2 - 1 + 1 : s[i] = x[1 + i - 1]
      BY <2>2, SubSeqProperties
    <3>2. s \in Seq(T) /\ Len(s) = 2
      BY <2>2, SubSeqProperties
    <3> HIDE DEF s
    <3> QED BY <3>1, <3>2
  <2> HIDE DEF s
  <2>5. s = <<s[1], s[2]>>
    BY <2>4, Tuples
  <2>6. s[1] = a /\ s[2] = b
    BY <2>3, <2>4
  <2> QED BY <2>1, <2>5, <2>6 DEF x
<1> QED BY <1>1, <1>2

LEMMA PartsTaken ==
  ASSUME NEW a, NEW b
  PROVE  Head(<<a, b>>) = a /\ Tail(<<a, b>>) = <<b>> /\ Front(<<a, b>>) = <<a>>
<1> DEFINE T == {a, b}
<1>1. Head(<<a, b>>) = a /\ Tail(<<a, b>>) = <<b>>
  OBVIOUS
<1>2. Front(<<a, b>>) = <<a>>
  <2>1. <<a, b>> \in Seq(T) /\ 1 \in 1 .. Len(<<a, b>>) /\ <<a, b>>[1] = a
        /\ Len(<<a, b>>) - 1 = 1
    OBVIOUS
  <2> QED BY OnePart, <2>1 DEF Front
<1> QED BY <1>1, <1>2

LEMMA TwoAndOne ==
  ASSUME NEW a, NEW b, NEW c
  PROVE  <<a, b>> \o <<c>> = <<a, b, c>>
  BY PartsJoined

(* How the layouts name a file.                                             *)
Layouts6 == {"relative", "absolute", "stitched", "rooted", "queried", "up"}

LEMMA RefFields ==
  ASSUME NEW l \in Layouts6, NEW f
  PROVE  /\ Ref(l, f).query \in BOOLEAN /\ (Ref(l, f).query <=> l = "queried")
         /\ Ref(l, f).absolute <=> l \in {"absolute", "stitched"}
         /\ l = "absolute" => Ref(l, f).parts = << <<"cdn">>, <<"dir">>, f>>
         /\ l = "stitched" => Ref(l, f).parts = << <<"other">>, <<"stitch">>, f>>
         /\ l = "rooted" => Ref(l, f).parts = <<Root, f>>
         /\ l = "up" => Ref(l, f).parts = <<Up, f>>
         /\ l \in {"relative", "queried"} => Ref(l, f).parts = << <<"dir">>, f>>
<1>1. Ref(l, f).query \in BOOLEAN /\ (Ref(l, f).query <=> l = "queried")
  BY DEF Ref
<1>2. Ref(l, f).absolute <=> l \in {"absolute", "stitched"}
  BY DEF Ref
<1>3. l = "absolute" => Ref(l, f).parts = << <<"cdn">>, <<"dir">>, f>>
  BY DEF Ref
<1>4. l = "stitched" => Ref(l, f).parts = << <<"other">>, <<"stitch">>, f>>
  BY DEF Ref
<1>5. l = "rooted" => Ref(l, f).parts = <<Root, f>>
  BY DEF Ref
<1>6. l = "up" => Ref(l, f).parts = <<Up, f>>
  BY DEF Ref
<1>7. l \in {"relative", "queried"} => Ref(l, f).parts = << <<"dir">>, f>>
  BY DEF Ref
<1> QED BY <1>1, <1>2, <1>3, <1>4, <1>5, <1>6, <1>7

Beneath(a, f) == OriginBase \o <<a, f>>

LEMMA BeneathOrigin ==
  ASSUME NEW a, NEW f
  PROVE  /\ Len(Beneath(a, f)) = 4
         /\ Beneath(a, f)[1] = <<"origin">> /\ Beneath(a, f)[2] = <<"live">>
         /\ Beneath(a, f)[3] = a /\ Beneath(a, f)[4] = f
         /\ Beneath(a, f) # << <<"origin">>, f>> /\ Beneath(a, f) # << >>
<1> DEFINE T == {a, f, <<"origin">>, <<"live">>}
<1>1. OriginBase \in Seq(T) /\ <<a, f>> \in Seq(T)
      /\ Len(OriginBase) = 2 /\ Len(<<a, f>>) = 2
      /\ OriginBase[1] = <<"origin">> /\ OriginBase[2] = <<"live">>
      /\ <<a, f>>[1] = a /\ <<a, f>>[2] = f
  BY DEF OriginBase
<1> DEFINE x == OriginBase
           y == <<a, f>>
           z == Beneath(a, f)
<1>0. z = x \o y
  BY DEF Beneath
<1> HIDE DEF T, x, y, z
<1>2. Len(z) = 4 /\ \A i \in 1 .. 4 : z[i] = IF i <= 2 THEN x[i] ELSE y[i - 2]
  <2>1. x \in Seq(T) /\ y \in Seq(T) /\ Len(x) = 2 /\ Len(y) = 2
    BY <1>1 DEF x, y
  <2>2. Len(x \o y) = Len(x) + Len(y)
        /\ \A i \in 1 .. Len(x) + Len(y) :
             (x \o y)[i] = IF i <= Len(x) THEN x[i] ELSE y[i - Len(x)]
    BY <2>1, ConcatProperties
  <2> QED BY <1>0, <2>1, <2>2
<1>3. z[1] = <<"origin">> /\ z[2] = <<"live">> /\ z[3] = a /\ z[4] = f
  <2>1. x[1] = <<"origin">> /\ x[2] = <<"live">> /\ y[1] = a /\ y[2] = f
    BY <1>1 DEF x, y
  <2>2. z[1] = x[1] /\ z[2] = x[2] /\ z[3] = y[1] /\ z[4] = y[2]
    BY <1>2
  <2> QED BY <2>1, <2>2
<1>4. Len(<< <<"origin">>, f>>) = 2 /\ Len(<< >>) = 0
  OBVIOUS
<1>5. z # << <<"origin">>, f>> /\ z # << >>
  BY <1>2, <1>4
<1> QED BY <1>2, <1>3, <1>5 DEF z

LEMMA SameResource ==
  ASSUME NEW p, NEW r, NEW q, NEW s
  PROVE  Resource(p, s) = Resource(r, q) <=> p = r /\ q = s
  BY DEF Resource

(* Where a reference without a host leads.                                  *)
LEMMA TargetOf ==
  ASSUME NEW ref, NEW a, NEW f, ~ref.absolute, ref.parts = <<a, f>>
  PROVE  Target(OriginBase, ref) =
           Resource(IF a \in {Root, Up} THEN << <<"origin">>, f>> ELSE Beneath(a, f),
                    ref.query)
<1>1. Head(ref.parts) = a /\ Tail(ref.parts) = <<f>>
  OBVIOUS
<1>2. Head(OriginBase) = <<"origin">> /\ Front(OriginBase) = << <<"origin">> >>
  BY PartsTaken DEF OriginBase
<1>3. << <<"origin">> >> \o <<f>> = << <<"origin">>, f>>
  BY PartsJoined
<1>4. Up # Root
  BY DEF Up, Root
<1>5. Resolved(OriginBase, ref) = IF a = Root THEN << <<"origin">> >> \o <<f>>
                                  ELSE IF a = Up THEN << <<"origin">> >> \o <<f>>
                                  ELSE OriginBase \o <<a, f>>
  BY <1>1, <1>2, <1>4 DEF Resolved
<1> QED BY <1>3, <1>5 DEF Target, Beneath

LEMMA SegmentOf ==
  ASSUME NEW ref, NEW a, NEW f, ~ref.absolute, ref.parts = <<a, f>>, f # Up
  PROVE  serve_segment(SegmentUri(ref)) =
           IF a = Up THEN Resource(<< >>, FALSE)
           ELSE Resource((IF ref.query THEN ConfigOrigin ELSE OriginBase) \o <<a, f>>, FALSE)
<1> DEFINE uri == SegmentUri(ref)
<1>1. uri.path = <<a, f>> /\ uri.origin = OriginBase /\ uri.query = ref.query
  BY DEF SegmentUri
<1>2. ToSet(<<a, f>>) = {a, f}
  BY DEF ToSet
<1> HIDE DEF uri
<1>3. serve_segment(uri) = IF a = Up THEN Rejected
        ELSE Resource((IF ref.query THEN ConfigOrigin ELSE OriginBase) \o <<a, f>>, FALSE)
  BY <1>1, <1>2 DEF serve_segment
<1> QED BY <1>3 DEF Rejected, uri

LEMMA AbsoluteSegment ==
  ASSUME NEW ref, NEW c, NEW e, NEW f, ref.absolute, ref.query = FALSE, ref.parts = <<c, e, f>>,
         f # Up, c # Up, c # Root
  PROVE  serve_segment(SegmentUri(ref)) = Target(OriginBase, ref)
<1> DEFINE uri == SegmentUri(ref)
<1>1. uri.path = <<f>> /\ uri.origin = <<c, e>> /\ uri.query = FALSE
  <2>1. Last(<<c, e, f>>) = f /\ Front(<<c, e, f>>) = <<c, e>>
    BY LastOfThree, Zenon
  <2>2. Last(ref.parts) = f /\ Front(ref.parts) = <<c, e>>
    BY <2>1, Zenon
  <2> QED BY <2>2 DEF SegmentUri
<1>2. ToSet(<<f>>) = {f}
  BY DEF ToSet
<1>3. <<c, e>> \o <<f>> = <<c, e, f>>
  BY TwoAndOne, Zenon
<1> HIDE DEF uri
<1>4. serve_segment(uri) = Resource(<<c, e, f>>, FALSE)
  BY <1>1, <1>2, <1>3 DEF serve_segment
<1>5. Resolved(OriginBase, ref) = <<c, e, f>>
  <2>1. Head(ref.parts) = c
    OBVIOUS
  <2> QED BY <2>1 DEF Resolved
<1> QED BY <1>4, <1>5, Zenon DEF uri, Target

(* A file is no step upwards.                                               *)
Files == {<<"playlist", i>> : i \in Nat} \cup {<<"seg", i>> : i \in Nat}
           \cup {<<"tail", i>> : i \in Nat} \cup {<<"part", i, j>> : i \in Nat, j \in Nat}

LEMMA FilesAreNames == \A f \in Files : f # Up
<1>1. \A i : <<"playlist", i>> # <<"..">>
  OBVIOUS
<1>2. \A i : <<"seg", i>> # <<"..">>
  OBVIOUS
<1>3. \A i : <<"tail", i>> # <<"..">>
  OBVIOUS
<1>4. \A i, j : <<"part", i, j>> # <<"..">>
  OBVIOUS
<1> SUFFICES ASSUME NEW f \in Files, f = <<"..">> PROVE FALSE
  BY DEF Up
<1>5. CASE f \in {<<"playlist", i>> : i \in Nat}
  BY <1>1, <1>5
<1>6. CASE f \in {<<"seg", i>> : i \in Nat}
  BY <1>2, <1>6
<1>7. CASE f \in {<<"tail", i>> : i \in Nat}
  BY <1>3, <1>7
<1>8. CASE f \in {<<"part", i, j>> : i \in Nat, j \in Nat}
  BY <1>4, <1>8
<1> QED BY <1>5, <1>6, <1>7, <1>8 DEF Files

(* serve_segment fetches what the origin meant, but for the layouts that    *)
(* rewrite_segment_uri cannot express.                                      *)
LEMMA SegmentUriLeads ==
  ASSUME NEW l \in Layouts6, NEW f \in Files
  PROVE  (serve_segment(SegmentUri(Ref(l, f))) = Target(OriginBase, Ref(l, f)))
           <=> l \in Expressible("segment")
<1>0. f # Up
  BY FilesAreNames
<1>1. Expressible("segment") = {"relative", "absolute", "stitched"}
  BY DEF Expressible
<1>2. CASE l \in {"absolute", "stitched"}
  <2> DEFINE c == IF l = "absolute" THEN <<"cdn">> ELSE <<"other">>
             e == IF l = "absolute" THEN <<"dir">> ELSE <<"stitch">>
             ref == Ref(l, f)
  <2>1. ref.parts = <<c, e, f>> /\ ref.absolute /\ ref.query = FALSE
    BY <1>2, RefFields
  <2>2. c # Up /\ c # Root
    BY DEF Up, Root
  <2> HIDE DEF c, e, ref
  <2>3. serve_segment(SegmentUri(ref)) = Target(OriginBase, ref)
    BY <1>0, <2>1, <2>2, AbsoluteSegment
  <2> QED BY <1>1, <1>2, <2>3 DEF ref
<1>3. CASE l \notin {"absolute", "stitched"}
  <2> DEFINE a == IF l = "rooted" THEN Root ELSE IF l = "up" THEN Up ELSE <<"dir">>
             ref == Ref(l, f)
  <2>1. ref.parts = <<a, f>> /\ ~ref.absolute /\ ref.query \in BOOLEAN
        /\ (ref.query <=> l = "queried")
    BY <1>3, RefFields DEF Layouts6
  <2>2. Root # Up /\ <<"dir">> # Up /\ <<"dir">> # Root
    BY DEF Root, Up
  <2>3. (a = Root <=> l = "rooted") /\ (a = Up <=> l = "up")
    BY <2>2
  <2> HIDE DEF a, ref
  <2>4. Target(OriginBase, ref) =
          Resource(IF a \in {Root, Up} THEN << <<"origin">>, f>> ELSE Beneath(a, f),
                   ref.query)
    BY <2>1, TargetOf
  <2>5. serve_segment(SegmentUri(ref)) =
           IF a = Up THEN Resource(<< >>, FALSE)
           ELSE Resource((IF ref.query THEN ConfigOrigin ELSE OriginBase) \o <<a, f>>, FALSE)
    BY <1>0, <2>1, SegmentOf
  <2> DEFINE here == Beneath(a, f)
             there == << <<"origin">>, f>>
             default == ConfigOrigin \o <<a, f>>
             no == FALSE
  <2>6. here = OriginBase \o <<a, f>>
    BY DEF Beneath
  <2>7. here # there /\ << >> # there
    BY BeneathOrigin
  <2>8. \A p, r, q, s : Resource(p, s) = Resource(r, q) <=> p = r /\ q = s
    BY SameResource
  <2> HIDE DEF here, there, default, no
  <2>9. CASE l = "relative"
    <3>1. Target(OriginBase, ref) = Resource(here, ref.query)
          /\ serve_segment(SegmentUri(ref)) = Resource(here, FALSE)
      BY <2>1, <2>3, <2>4, <2>5, <2>6, <2>9 DEF here
    <3>2. ref.query = FALSE
      BY <2>1, <2>9
    <3> QED BY <1>1, <2>9, <3>1, <3>2 DEF ref
  <2>10. CASE l = "rooted"
    <3>1. Target(OriginBase, ref) = Resource(there, ref.query)
          /\ serve_segment(SegmentUri(ref)) = Resource(here, FALSE)
      BY <2>1, <2>3, <2>4, <2>5, <2>6, <2>10 DEF here, there
    <3>2. Resource(here, no) # Resource(there, ref.query)
      BY <2>7, <2>8
    <3> QED BY <1>1, <2>10, <3>1, <3>2 DEF ref, no
  <2>11. CASE l = "up"
    <3>1. Target(OriginBase, ref) = Resource(there, ref.query)
          /\ serve_segment(SegmentUri(ref)) = Resource(<< >>, FALSE)
      BY <2>1, <2>3, <2>4, <2>5, <2>11 DEF there
    <3>2. Resource(<< >>, no) # Resource(there, ref.query)
      BY <2>7, <2>8
    <3> QED BY <1>1, <2>11, <3>1, <3>2 DEF ref, no
  <2>12. CASE l = "queried"
    <3>1. Target(OriginBase, ref) = Resource(here, ref.query)
          /\ serve_segment(SegmentUri(ref)) = Resource(default, FALSE)
      BY <2>1, <2>3, <2>4, <2>5, <2>6, <2>12 DEF here, default
    <3>2. ref.query # no
      BY <2>1, <2>12 DEF no
    <3>3. Resource(default, no) # Resource(here, ref.query)
      BY <2>8, <3>2
    <3> QED BY <1>1, <2>12, <3>1, <3>3 DEF ref, no
  <2> QED BY <1>3, <2>9, <2>10, <2>11, <2>12 DEF Layouts6
<1> QED BY <1>2, <1>3

(* ".." as the http client resolves it.                                     *)

LEMMA WithoutUpSame ==
  ASSUME NEW T, NEW x \in Seq(T), \A i \in DOMAIN x : x[i] # Up
  PROVE  WithoutUp(x) = x
<1>1. {i \in 1 .. Len(x) : x[i] = Up} = {}
  OBVIOUS
<1>2. SelectInSeq(x, LAMBDA part : part = Up) = 0
  BY <1>1 DEF SelectInSeq
<1> QED BY <1>2 DEF WithoutUp

LEMMA WithoutUpThird ==
  ASSUME NEW T, NEW x \in Seq(T), Len(x) = 4, x[1] # Up, x[2] # Up, x[3] = Up, x[4] # Up
  PROVE  WithoutUp(x) = <<x[1], x[4]>>
<1>1. {i \in 1 .. Len(x) : x[i] = Up} = {3}
  OBVIOUS
<1>2. SelectInSeq(x, LAMBDA part : part = Up) = Min({3})
  BY <1>1 DEF SelectInSeq
<1>3. SelectInSeq(x, LAMBDA part : part = Up) = 3
  BY <1>2 DEF Min
<1>4. WithoutUp(x) = SubSeq(x, 1, 3 - 2) \o SubSeq(x, 3 + 1, Len(x))
  BY <1>3, 3 # 0, Zenon DEF WithoutUp
<1>5. SubSeq(x, 1, 1) = <<x[1]>> /\ SubSeq(x, 4, 4) = <<x[4]>>
  BY OnePart
<1>6. <<x[1]>> \o <<x[4]>> = <<x[1], x[4]>>
  BY PartsJoined
<1>7. 3 - 2 = 1 /\ 3 + 1 = 4 /\ Len(x) = 4
  OBVIOUS
<1> QED BY <1>4, <1>5, <1>6, <1>7, Zenon

(* serve_playlist fetches what the origin meant, but for the layout that    *)
(* rewrite_playlist_uri cannot express.                                     *)
LEMMA PlaylistUriLeads ==
  ASSUME NEW l \in Layouts6, NEW f \in Files, NEW track
  PROVE  (serve_playlist(PlaylistUri(Ref(l, f), track)) = Target(OriginBase, Ref(l, f)))
           <=> l \in Expressible("playlist")
<1> DEFINE ref == Ref(l, f)
           uri == PlaylistUri(ref, track)
<1>0. f # Up
  BY FilesAreNames
<1>1. Expressible("playlist") = {"relative", "absolute", "stitched", "queried", "up"}
  BY DEF Expressible
<1>2. uri.query = ref.query
      /\ uri.origin = IF ref.absolute THEN ref.parts ELSE OriginBase \o ref.parts
  BY DEF PlaylistUri
<1>3. serve_playlist(uri) = Resource(WithoutUp(uri.origin), ref.query)
  BY <1>2 DEF serve_playlist
<1> HIDE DEF uri
<1>4. CASE l \in {"absolute", "stitched"}
  <2> DEFINE c == IF l = "absolute" THEN <<"cdn">> ELSE <<"other">>
             e == IF l = "absolute" THEN <<"dir">> ELSE <<"stitch">>
  <2>1. ref.parts = <<c, e, f>> /\ ref.absolute
    BY <1>4, RefFields
  <2>2. c # Up /\ c # Root /\ e # Up
    BY DEF Up, Root
  <2> HIDE DEF c, e, ref
  <2>3. <<c, e, f>> \in Seq({c, e, f}) /\ \A i \in DOMAIN <<c, e, f>> : <<c, e, f>>[i] # Up
    BY <1>0, <2>2
  <2>4. WithoutUp(<<c, e, f>>) = <<c, e, f>>
    BY <2>3, WithoutUpSame
  <2>5. Head(ref.parts) = c
    BY <2>1
  <2>6. Resolved(OriginBase, ref) = <<c, e, f>>
    BY <2>1, <2>2, <2>5 DEF Resolved
  <2>7. serve_playlist(uri) = Target(OriginBase, ref)
    BY <1>2, <1>3, <2>1, <2>4, <2>6 DEF Target
  <2> QED BY <1>1, <1>4, <2>7 DEF ref, uri
<1>5. CASE l \notin {"absolute", "stitched"}
  <2> DEFINE a == IF l = "rooted" THEN Root ELSE IF l = "up" THEN Up ELSE <<"dir">>
  <2>1. ref.parts = <<a, f>> /\ ~ref.absolute
    BY <1>5, RefFields DEF Layouts6
  <2>2. Root # Up /\ <<"dir">> # Up /\ <<"dir">> # Root
    BY DEF Root, Up
  <2>3. (a = Root <=> l = "rooted") /\ (a = Up <=> l = "up")
    BY <2>2
  <2> HIDE DEF a, ref
  <2> DEFINE x == Beneath(a, f)
             there == << <<"origin">>, f>>
  <2>4. Target(OriginBase, ref) = Resource(IF a \in {Root, Up} THEN there ELSE x, ref.query)
    BY <2>1, TargetOf
  <2>5. uri.origin = x
    BY <1>2, <2>1 DEF Beneath
  <2>6. /\ Len(x) = 4 /\ x[1] = <<"origin">> /\ x[2] = <<"live">> /\ x[3] = a /\ x[4] = f
        /\ x # there
    BY BeneathOrigin DEF there
  <2>7. \E T : x \in Seq(T)
    <3> DEFINE T == {a, f, <<"origin">>, <<"live">>}
    <3>1. OriginBase \in Seq(T) /\ <<a, f>> \in Seq(T)
      BY DEF OriginBase
    <3> HIDE DEF T
    <3>2. x \in Seq(T)
      BY <3>1 DEF Beneath
    <3> QED BY <3>2
  <2>8. <<"origin">> # Up /\ <<"live">> # Up
    BY DEF Up
  <2> HIDE DEF x
  <2>9. PICK T : x \in Seq(T)
    BY <2>7
  <2>10. a = Up => WithoutUp(x) = there
    <3>1. a = Up => WithoutUp(x) = <<x[1], x[4]>>
      BY <1>0, <2>6, <2>8, <2>9, WithoutUpThird
    <3> QED BY <2>6, <3>1
  <2>11. a # Up => WithoutUp(x) = x
    <3>1. DOMAIN x = 1 .. 4
      BY <2>6, <2>9
    <3>2. a # Up => \A i \in DOMAIN x : x[i] # Up
      BY <1>0, <2>6, <2>8, <3>1
    <3> QED BY <2>9, <3>2, WithoutUpSame
  <2> HIDE DEF there
  <2>12. CASE a = Root
    <3>1. serve_playlist(uri) = Resource(x, ref.query)
          /\ Target(OriginBase, ref) = Resource(there, ref.query)
      BY <1>3, <2>2, <2>4, <2>5, <2>11, <2>12
    <3>2. Resource(x, ref.query) # Resource(there, ref.query)
      BY <2>6, SameResource
    <3> QED BY <1>1, <2>3, <2>12, <3>1, <3>2 DEF ref, uri
  <2>13. CASE a # Root
    <3>1. serve_playlist(uri) = Target(OriginBase, ref)
      BY <1>3, <2>4, <2>5, <2>10, <2>11, <2>13
    <3> QED BY <1>1, <1>5, <2>3, <2>13, <3>1 DEF ref, uri, Layouts6
  <2> QED BY <2>12, <2>13
<1> QED BY <1>4, <1>5

-----------------------------------------------------------------------------
(* Lines that lead where they are meant to.                                 *)
DeliveryOK(d) ==
  /\ d.layout \in Layouts6 /\ d.length \in Nat /\ d.provider \in {"static", "demo"}
  /\ d.header \in Seq(HeaderKinds)

LEMMA SegmentLeads ==
  ASSUME NEW d, DeliveryOK(d), NEW f \in Files, NEW line,
         line.uri = SegmentUri(Ref(d.layout, f)), line.meant = f
  PROVE  Leads(d, line)
<1>1. line.uri.to = "segment"
  BY DEF SegmentUri
<1>2. (serve_segment(line.uri) = Target(OriginBase, Ref(d.layout, line.meant)))
        <=> d.layout \in Expressible("segment")
  BY SegmentUriLeads DEF DeliveryOK
<1> QED BY <1>1, <1>2 DEF Leads

LEMMA PlaylistLeads ==
  ASSUME NEW d, DeliveryOK(d), NEW f \in Files, NEW line, NEW track,
         line.uri = PlaylistUri(Ref(d.layout, f), track), line.meant = f
  PROVE  Leads(d, line)
<1>1. line.uri.to = "playlist"
  BY DEF PlaylistUri
<1>2. (serve_playlist(line.uri) = Target(OriginBase, Ref(d.layout, line.meant)))
        <=> d.layout \in Expressible("playlist")
  BY PlaylistUriLeads DEF DeliveryOK
<1> QED BY <1>1, <1>2 DEF Leads

LEMMA ContentLeads ==
  ASSUME NEW d, DeliveryOK(d), NEW f \in Files, NEW line,
         line.uri = ContentUri(Ref(d.layout, f)), line.meant = f
  PROVE  Leads(d, line) /\ line.uri.to # "raw"
<1>1. CASE <<"stitch">> \in ToSet(Ref(d.layout, f).parts)
  <2>1. line.uri.to = "direct" /\ line.uri.ref = Ref(d.layout, f)
    BY <1>1 DEF ContentUri
  <2> QED BY <2>1 DEF Leads
<1>2. CASE <<"stitch">> \notin ToSet(Ref(d.layout, f).parts)
  <2>1. line.uri = SegmentUri(Ref(d.layout, f)) /\ line.uri.to = "segment"
    BY <1>2 DEF ContentUri, SegmentUri
  <2> QED BY <2>1, SegmentLeads
<1> QED BY <1>1, <1>2

LEMMA AdLeads ==
  ASSUME NEW d, DeliveryOK(d), NEW b, NEW s, NEW line,
         line.uri = AdUri(b, s), line.meant = <<"ad", b, s>>
  PROVE  Leads(d, line) /\ line.uri.to # "raw"
<1>1. line.uri.to = "ad" /\ line.uri.name = Name(b, "seg", s, "ts")
  BY DEF AdUri
<1>2. line.meant[2] = b /\ line.meant[3] = s
  OBVIOUS
<1>3. IsHlsName(line.uri.name) /\ line.uri.name.brk = b /\ line.uri.name.seg = s
  BY <1>1 DEF IsHlsName, Name
<1>4. d.provider = "static" =>
        resolve_segment_url(d.provider, line.uri.name) =
          [source |-> "static", file |-> s % SegmentCount]
  BY <1>3 DEF resolve_segment_url, StaticUrl
<1>5. d.provider = "demo" =>
        resolve_segment_url(d.provider, line.uri.name) =
          [source |-> Creatives[(b % NumCreatives) + 1], file |-> s % SegmentCount]
  BY <1>3 DEF resolve_segment_url, DemoUrl
<1>6. d.provider = "static" \/ d.provider = "demo"
  BY DEF DeliveryOK
<1> QED BY <1>1, <1>2, <1>4, <1>5, <1>6 DEF Leads

(* ceil of the quotient is enough.                                          *)
LEMMA PodFills ==
  ASSUME NEW length \in Nat, NEW each \in {1, 10}
  PROVE  /\ NumSegments(length, each) \in Nat
         /\ each * NumSegments(length, each) >= length
<1>1. CASE each = 1
  BY <1>1 DEF NumSegments
<1>2. CASE each = 10
  BY <1>2 DEF NumSegments
<1> QED BY <1>1, <1>2

LEMMA AssetsLead ==
  ASSUME NEW d, DeliveryOK(d), NEW line, line.uri = AssetUri(d.length)
  PROVE  Leads(d, line) /\ line.uri.to # "raw"
<1>1. line.uri.to = "assets" /\ line.uri.dur = d.length
  BY DEF AssetUri
<1> DEFINE each == AdLength(d.provider)
           assets == serve_asset_list(line.uri, d.provider)
           n == NumSegments(d.length, each)
<1>2. each \in {1, 10}
  BY DEF AdLength
<1>3. d.length \in Nat
  BY DEF DeliveryOK
<1> HIDE DEF each
<1>4. n \in Nat /\ each * n >= d.length
  BY <1>2, <1>3, PodFills
<1>5. CASE d.length > MaxDur
  <2>1. assets = << >>
    BY <1>1, <1>5 DEF serve_asset_list
  <2>2. Len(assets) = 0
    BY <2>1
  <2> HIDE DEF assets
  <2>3. ~(each * Len(assets) >= d.length)
    BY <1>2, <1>3, <1>5, <2>2 DEF MaxDur
  <2> QED BY <1>1, <1>3, <1>5, <2>3 DEF Leads, MaxDur, assets, each
<1>6. CASE ~(d.length > MaxDur)
  <2>1. assets = get_ad_creatives(d.length, each)
    BY <1>1, <1>6 DEF serve_asset_list, each
  <2>2. assets = [i \in 1 .. n |-> [file |-> i - 1, duration |-> each]]
    BY <2>1 DEF get_ad_creatives
  <2> HIDE DEF assets, n
  <2>3. Len(assets) = n
    BY <1>4, <2>2
  <2> QED BY <1>1, <1>3, <1>4, <1>6, <2>3 DEF Leads, MaxDur, assets, each
<1> QED BY <1>5, <1>6

LEMMA PlainLeads ==
  ASSUME NEW d, NEW line, line.uri = NoUri
  PROVE  Leads(d, line) /\ line.uri.to # "raw"
  BY DEF NoUri, Leads

-----------------------------------------------------------------------------
(* The lines of a text: of segments and headers, and those that are still   *)
(* raw before rewrite_ll_hls_uris.                                          *)
PartLs(d) == {Named(d, "PART", <<"part", i, j>>) : i \in Nat, j \in Nat}
TailLs(d) == UNION {{Named(d, kind, <<"tail", i>>) : i \in Nat} : kind \in TailKinds}

SegmentLs(d) ==
  {ContentLine(d, i) : i \in Nat}
    \cup {Line("SEGMENT", AdUri(b, s), <<"ad", b, s>>) : b \in Nat, s \in Nat}
    \cup {Line("DATERANGE", AssetUri(d.length), <<"break", b>>) : b \in Nat}

HeaderLs ==
  {Line(kind, NoUri, << >>) : kind \in {"EXTM3U", "TARGETDURATION"}}
    \cup {Line(kind, NoUri, <<i>>) : kind \in HeaderKinds, i \in Nat}

TextLs(d) == HeaderLs \cup SegmentLs(d) \cup PartLs(d) \cup TailLs(d)

LEMMA LineFields ==
  ASSUME NEW kind, NEW uri, NEW meant
  PROVE  /\ Line(kind, uri, meant).tag = kind /\ Line(kind, uri, meant).uri = uri
         /\ Line(kind, uri, meant).meant = meant
  BY DEF Line

LEMMA LineChanged ==
  ASSUME NEW kind, NEW uri, NEW meant, NEW other
  PROVE  /\ [Line(kind, uri, meant) EXCEPT !.uri = other] = Line(kind, other, meant)
         /\ [Line(kind, uri, meant) EXCEPT !.meant = other] = Line(kind, uri, other)
  BY DEF Line

LEMMA FilesNamed ==
  \A i, j \in Nat : /\ <<"playlist", i>> \in Files /\ <<"seg", i>> \in Files
                    /\ <<"tail", i>> \in Files /\ <<"part", i, j>> \in Files
  BY DEF Files

LEMMA WrittenLeads ==
  ASSUME NEW d, DeliveryOK(d), NEW line \in HeaderLs \cup SegmentLs(d)
  PROVE  Leads(d, line) /\ line.uri.to # "raw"
<1>1. CASE line \in HeaderLs
  <2>1. ASSUME line \in {Line(kind, NoUri, << >>) : kind \in {"EXTM3U", "TARGETDURATION"}}
        PROVE  line.uri = NoUri
    <3>1. PICK kind : line = Line(kind, NoUri, << >>)
      BY <2>1
    <3> QED BY <3>1, LineFields
  <2>2. ASSUME line \in {Line(kind, NoUri, <<i>>) : kind \in HeaderKinds, i \in Nat}
        PROVE  line.uri = NoUri
    <3>1. PICK kind \in HeaderKinds, i \in Nat : line = Line(kind, NoUri, <<i>>)
      BY <2>2
    <3> QED BY <3>1, LineFields
  <2>3. line.uri = NoUri
    BY <1>1, <2>1, <2>2 DEF HeaderLs
  <2> QED BY <2>3, PlainLeads
<1>2. CASE line \in {ContentLine(d, i) : i \in Nat}
  <2>1. PICK i \in Nat : line = ContentLine(d, i)
    BY <1>2
  <2>2. line.uri = ContentUri(Ref(d.layout, <<"seg", i>>)) /\ line.meant = <<"seg", i>>
    BY <2>1, LineFields DEF ContentLine
  <2> QED BY <2>2, FilesNamed, ContentLeads
<1>3. CASE line \in {Line("SEGMENT", AdUri(b, s), <<"ad", b, s>>) : b \in Nat, s \in Nat}
  <2>1. PICK b \in Nat, s \in Nat : line = Line("SEGMENT", AdUri(b, s), <<"ad", b, s>>)
    BY <1>3
  <2>2. line.uri = AdUri(b, s) /\ line.meant = <<"ad", b, s>>
    BY <2>1, LineFields
  <2> QED BY <2>2, AdLeads
<1>4. CASE line \in {Line("DATERANGE", AssetUri(d.length), <<"break", b>>) : b \in Nat}
  <2>1. PICK b \in Nat : line = Line("DATERANGE", AssetUri(d.length), <<"break", b>>)
    BY <1>4
  <2>2. line.uri = AssetUri(d.length)
    BY <2>1, LineFields
  <2> QED BY <2>2, AssetsLead
<1>5. line \in SegmentLs(d) =>
        \/ line \in {ContentLine(d, i) : i \in Nat}
        \/ line \in {Line("SEGMENT", AdUri(b, s), <<"ad", b, s>>) : b \in Nat, s \in Nat}
        \/ line \in {Line("DATERANGE", AssetUri(d.length), <<"break", b>>) : b \in Nat}
  BY DEF SegmentLs
<1> QED BY <1>1, <1>2, <1>3, <1>4, <1>5

LEMMA RewrittenLead ==
  ASSUME NEW d, DeliveryOK(d), NEW lines \in Seq(TextLs(d)), NEW i \in DOMAIN lines
  PROVE  Leads(d, rewrite_ll_hls_uris(lines)[i])
<1> DEFINE line == lines[i]
           new == rewrite_ll_hls_uris(lines)[i]
<1>1. line \in TextLs(d)
  OBVIOUS
<1>2. new = IF line.uri.to # "raw" THEN line
            ELSE IF line.tag = "RENDITION-REPORT"
            THEN [line EXCEPT !.uri = PlaylistUri(line.uri.ref, "video")]
            ELSE [line EXCEPT !.uri = SegmentUri(line.uri.ref)]
  BY DEF rewrite_ll_hls_uris
<1> SUFFICES Leads(d, new)
  OBVIOUS
<1> HIDE DEF line, new
<1>3. ASSUME NEW kind, NEW f \in Files, line = Named(d, kind, f)
      PROVE  Leads(d, new)
  <2> DEFINE ref == Ref(d.layout, f)
  <2>1. line = Line(kind, [to |-> "raw", ref |-> ref], f)
    BY <1>3 DEF Named
  <2> HIDE DEF ref
  <2>2. line.uri = [to |-> "raw", ref |-> ref] /\ line.tag = kind
    BY <2>1, LineFields
  <2>3. line.uri.to = "raw" /\ line.uri.ref = ref
    BY <2>2
  <2>4. CASE kind = "RENDITION-REPORT"
    <3>1. new = Line(kind, PlaylistUri(ref, "video"), f)
      BY <1>2, <2>1, <2>2, <2>3, <2>4, LineChanged
    <3>2. new.uri = PlaylistUri(ref, "video") /\ new.meant = f
      BY <3>1, LineFields
    <3> QED BY <3>2, PlaylistLeads DEF ref
  <2>5. CASE kind # "RENDITION-REPORT"
    <3>1. new = Line(kind, SegmentUri(ref), f)
      BY <1>2, <2>1, <2>2, <2>3, <2>5, LineChanged
    <3>2. new.uri = SegmentUri(ref) /\ new.meant = f
      BY <3>1, LineFields
    <3> QED BY <3>2, SegmentLeads DEF ref
  <2> QED BY <2>4, <2>5
<1>4. CASE line \in HeaderLs \cup SegmentLs(d)
  <2>1. Leads(d, line) /\ line.uri.to # "raw"
    BY <1>4, WrittenLeads, Zenon
  <2>2. new = line
    BY <1>2, <2>1
  <2> QED BY <2>1, <2>2
<1>5. CASE line \in PartLs(d) \cup TailLs(d)
  <2>1. CASE line \in PartLs(d)
    <3>1. PICK j \in Nat, k \in Nat : line = Named(d, "PART", <<"part", j, k>>)
      BY <2>1 DEF PartLs
    <3>2. <<"part", j, k>> \in Files
      BY FilesNamed
    <3> QED BY <1>3, <3>1, <3>2
  <2>2. CASE line \in TailLs(d)
    <3>0. PICK kind \in TailKinds : line \in {Named(d, kind, <<"tail", k>>) : k \in Nat}
      BY <2>2 DEF TailLs
    <3>1. PICK k \in Nat : line = Named(d, kind, <<"tail", k>>)
      BY <3>0
    <3>2. <<"tail", k>> \in Files
      BY FilesNamed
    <3> QED BY <1>3, <3>1, <3>2
  <2> QED BY <1>5, <2>1, <2>2
<1> QED BY <1>1, <1>4, <1>5 DEF TextLs

LEMMA NotCuesTyped ==
  ASSUME NEW S, NEW list \in Seq(S)
  PROVE  NotCues(list) \in Seq({"other"})
<1> DEFINE O == {"other"}
           ss == [k \in DOMAIN list |-> IF list[k] = "other" THEN <<list[k]>> ELSE << >>]
<1>1. ss \in Seq(Seq(O))
  <2>1. << >> \in Seq(O) /\ <<"other">> \in Seq(O)
    OBVIOUS
  <2>2. Len(list) \in Nat /\ DOMAIN list = 1 .. Len(list)
    OBVIOUS
  <2> HIDE DEF O
  <2>3. \A k \in 1 .. Len(list) :
          (IF list[k] = "other" THEN <<list[k]>> ELSE << >>) \in Seq(O)
    BY <2>1
  <2> QED BY <2>2, <2>3
<1> HIDE DEF ss, O
<1>2. FlattenSeq(ss) \in Seq(O)
  BY <1>1, FlattenTyped
<1> QED BY <1>2 DEF NotCues, ss, O

LEMMA NoCuesKept == NotCues(<< >>) = << >>
<1>1. [k \in DOMAIN << >> |-> IF << >>[k] = "other" THEN << << >>[k]>> ELSE << >>] = << >>
  OBVIOUS
<1> QED BY <1>1 DEF NotCues, FlattenSeq

LEMMA PartLinesTyped ==
  ASSUME NEW d, NEW S, NEW list \in Seq(S), NEW i \in Nat
  PROVE  /\ PartLines(d, i, list) \in Seq(PartLs(d))
         /\ PartLines(d, i, list) = << >> <=> NotCues(list) = << >>
         /\ \A j \in DOMAIN PartLines(d, i, list) : PartLines(d, i, list)[j].tag = "PART"
<1> DEFINE parts == NotCues(list)
           lines == PartLines(d, i, list)
<1>1. parts \in Seq({"other"})
  BY NotCuesTyped
<1>2. lines = [j \in DOMAIN parts |-> Named(d, "PART", <<"part", i, j>>)]
  BY DEF PartLines
<1> HIDE DEF parts, lines
<1>3. DOMAIN parts = 1 .. Len(parts) /\ Len(parts) \in Nat
  BY <1>1
<1>4. \A j \in Nat : Named(d, "PART", <<"part", i, j>>) \in PartLs(d)
  BY DEF PartLs
<1>5. \A j \in 1 .. Len(parts) : Named(d, "PART", <<"part", i, j>>) \in PartLs(d)
  BY <1>3, <1>4
<1>6. lines \in Seq(PartLs(d)) /\ Len(lines) = Len(parts)
  BY <1>2, <1>3, <1>5
<1>7. lines = << >> <=> parts = << >>
  BY <1>1, <1>6
<1>8. \A j \in DOMAIN lines : lines[j].tag = "PART"
  BY <1>2, LineFields DEF Named
<1> QED BY <1>6, <1>7, <1>8 DEF parts, lines

(* The lists of tags that the lines of a playlist are made of.              *)
Kept == {tags[i] : i \in 1 .. Segs} \cup {NotCues(tags[i]) : i \in 1 .. Segs}

LEMMA SegmentsTyped ==
  ASSUME AllInv, LinesInv, NEW d, NEW T, SegmentLs(d) \subseteq T,
         \A list \in Kept : \A i \in Nat : PartLines(d, i, list) \in Seq(T)
  PROVE  Segments(d) \in Seq(T)
<1>0. /\ tags \in Seq(TagLists) /\ Segs \in Nat /\ DOMAIN tags = 1 .. Segs
      /\ out \in Seq(OutSegment)
  BY DEF AllInv, Inv, TypeOK, Segs
<1>1. ASSUME NEW i \in Nat
      PROVE  ContentLine(d, i) \in T
  BY DEF SegmentLs
<1>2. ASSUME NEW ss, NEW n \in Nat, DOMAIN ss = 1 .. n, ss = [k \in DOMAIN ss |-> ss[k]],
             \A k \in 1 .. n : ss[k] \in Seq(T)
      PROVE  FlattenSeq(ss) \in Seq(T)
  <2>1. ss \in Seq(Seq(T))
    BY <1>2
  <2> QED BY <2>1, FlattenTyped
<1>3. ASSUME phase = "done" PROVE Stitched(d) \in Seq(T)
  <2> DEFINE ss == [k \in DOMAIN out |->
               IF out[k].ad THEN <<AdLine(out[k])>>
               ELSE Append(PartLines(d, out[k].seg, TagsOf(out[k].seg)), ContentLine(d, out[k].seg))]
  <2>1. ASSUME NEW k \in DOMAIN out PROVE ss[k] \in Seq(T)
    <3>1. CASE out[k].ad
      <4>1. out[k].brk \in Nat /\ out[k].seg \in Nat
        <5>1. out[k] \in OutSegment
          BY <1>0
        <5>2. \A s \in OutSegment : s.brk \in Nat /\ s.seg \in Nat
          BY DEF OutSegment
        <5> QED BY <5>1, <5>2
      <4>2. AdLine(out[k]) \in T
        BY <4>1 DEF AdLine, SegmentLs
      <4>3. ss[k] = <<AdLine(out[k])>>
        BY <3>1
      <4> HIDE DEF ss
      <4> QED BY <4>2, <4>3
    <3>2. CASE ~out[k].ad
      <4> DEFINE s == out[k].seg
                 parts == PartLines(d, s, TagsOf(s))
      <4>1. s \in Nat /\ s + 1 \in 1 .. Segs
        BY <1>0, <3>2 DEF LinesInv
      <4>2. TagsOf(s) \in Kept
        BY <4>1 DEF TagsOf, Kept
      <4>3. ss[k] = Append(parts, ContentLine(d, s))
        BY <3>2
      <4> HIDE DEF ss, s
      <4>4. parts \in Seq(T) /\ ContentLine(d, s) \in T
        BY <1>1, <4>1, <4>2
      <4> QED BY <4>3, <4>4
    <3> QED BY <3>1, <3>2
  <2>2. Len(out) \in Nat /\ DOMAIN out = 1 .. Len(out)
    BY <1>0
  <2>3. DOMAIN ss = DOMAIN out /\ ss = [k \in DOMAIN ss |-> ss[k]]
    OBVIOUS
  <2>4. Stitched(d) = FlattenSeq(ss)
    BY DEF Stitched
  <2> HIDE DEF ss
  <2> QED BY <1>2, <2>1, <2>2, <2>3, <2>4
<1>4. ASSUME phase = "marked" PROVE Marked(d) \in Seq(T)
  <2> DEFINE ss == [i \in DOMAIN marked |->
               PartLines(d, i - 1, marked[i].tags)
                 \o MarkerLine(d, marked[i].brk) \o <<ContentLine(d, i - 1)>>]
  <2>1. /\ DOMAIN marked = 1 .. Segs
        /\ \A i \in 1 .. Segs : marked[i].brk \in {None} \cup Nat
    <3>1. /\ DOMAIN marked = 1 .. Segs
          /\ \A i \in 1 .. Segs : marked[i].brk \in {None} \cup 0 .. (Len(breaks) - 1)
      BY <1>4 DEF AllInv, Inv, TypeOK, MarksOK
    <3>2. \A n : n \in 0 .. (Len(breaks) - 1) => n \in Nat
      OBVIOUS
    <3> QED BY <3>1, <3>2
  <2>2. \A i \in 1 .. Segs : marked[i].tags \in Kept
    <3>1. \A i \in 1 .. Segs : marked[i].tags = tags[i] \/ marked[i].tags = NotCues(tags[i])
      BY <1>4 DEF LinesInv, AllInv, MarkersSoFar
    <3> QED BY <3>1 DEF Kept
  <2>3. ASSUME NEW i \in DOMAIN marked PROVE ss[i] \in Seq(T)
    <3> DEFINE parts == PartLines(d, i - 1, marked[i].tags)
               marker == MarkerLine(d, marked[i].brk)
    <3>1. i \in 1 .. Segs /\ i - 1 \in Nat
      BY <1>0, <2>1
    <3>2. ss[i] = parts \o marker \o <<ContentLine(d, i - 1)>>
      OBVIOUS
    <3> HIDE DEF ss
    <3>3. parts \in Seq(T)
      BY <2>2, <3>1
    <3>4. marker \in Seq(T)
      <4>1. CASE marked[i].brk = None
        BY <4>1 DEF MarkerLine
      <4>2. CASE marked[i].brk # None
        <5>1. marked[i].brk \in Nat
          BY <2>1, <3>1, <4>2
        <5>2. marker = <<Line("DATERANGE", AssetUri(d.length), <<"break", marked[i].brk>>)>>
          BY <4>2 DEF MarkerLine
        <5>3. Line("DATERANGE", AssetUri(d.length), <<"break", marked[i].brk>>) \in T
          BY <5>1 DEF SegmentLs
        <5> HIDE DEF marker
        <5> QED BY <5>2, <5>3
      <4> QED BY <4>1, <4>2
    <3>5. ContentLine(d, i - 1) \in T
      BY <1>1, <3>1
    <3> HIDE DEF parts, marker
    <3>6. parts \o marker \in Seq(T) /\ <<ContentLine(d, i - 1)>> \in Seq(T)
      BY <3>3, <3>4, <3>5
    <3> QED BY <3>2, <3>6
  <2>4. DOMAIN ss = DOMAIN marked /\ ss = [k \in DOMAIN ss |-> ss[k]]
    OBVIOUS
  <2>5. Marked(d) = FlattenSeq(ss)
    BY DEF Marked
  <2> HIDE DEF ss
  <2> QED BY <1>0, <1>2, <2>1, <2>3, <2>4, <2>5
<1>5. Unstitched(d) \in Seq(T)
  <2> DEFINE ss == [i \in DOMAIN tags |->
               Append(PartLines(d, i - 1, tags[i]), ContentLine(d, i - 1))]
  <2>1. ASSUME NEW i \in DOMAIN tags PROVE ss[i] \in Seq(T)
    <3> DEFINE parts == PartLines(d, i - 1, tags[i])
    <3>1. i - 1 \in Nat /\ tags[i] \in Kept
      BY <1>0 DEF Kept
    <3>2. ss[i] = Append(parts, ContentLine(d, i - 1))
      OBVIOUS
    <3> HIDE DEF ss
    <3>3. parts \in Seq(T) /\ ContentLine(d, i - 1) \in T
      BY <1>1, <3>1
    <3> QED BY <3>2, <3>3
  <2>2. DOMAIN ss = DOMAIN tags /\ ss = [k \in DOMAIN ss |-> ss[k]]
    OBVIOUS
  <2>3. Unstitched(d) = FlattenSeq(ss)
    BY DEF Unstitched
  <2> HIDE DEF ss
  <2> QED BY <1>0, <1>2, <2>1, <2>2, <2>3
<1> QED BY <1>3, <1>4, <1>5 DEF Segments

LEMMA TagFound ==
  ASSUME NEW T, NEW lines \in Seq(T), NEW kind
  PROVE  (IF {i \in 1 .. Len(lines) : lines[i].tag = kind} # {}
          THEN Min({i \in 1 .. Len(lines) : lines[i].tag = kind}) ELSE 0) \in 0 .. Len(lines)
<1> DEFINE I == {i \in 1 .. Len(lines) : lines[i].tag = kind}
<1>2. I \subseteq 1 .. Len(lines) /\ Len(lines) \in Nat
  OBVIOUS
<1> HIDE DEF I
<1>3. I # {} => Min(I) \in I
  <2> SUFFICES ASSUME I # {} PROVE Min(I) \in I
    OBVIOUS
  <2>1. I \subseteq Nat
    BY <1>2
  <2>2. PICK i \in I : \A j \in I : i <= j
    BY <2>1, Least
  <2> QED BY <2>2 DEF Min
<1> QED BY <1>2, <1>3 DEF I

LEMMA OfTagTyped ==
  ASSUME NEW T, NEW lines \in Seq(T), NEW kind
  PROVE  /\ OfTag(lines, kind) \in Seq(T)
         /\ HasTag(lines, kind) => OfTag(lines, kind) # << >>
<1> DEFINE ss == [i \in DOMAIN lines |-> IF lines[i].tag = kind THEN <<lines[i]>> ELSE << >>]
<1>1. Len(lines) \in Nat /\ DOMAIN lines = 1 .. Len(lines) /\ \A i \in 1 .. Len(lines) : lines[i] \in T
  OBVIOUS
<1>2. \A i \in 1 .. Len(lines) : ss[i] \in Seq(T)
  BY <1>1
<1>3. DOMAIN ss = 1 .. Len(lines) /\ ss = [i \in DOMAIN ss |-> ss[i]]
  BY <1>1
<1>4. OfTag(lines, kind) = FlattenSeq(ss)
  BY DEF OfTag
<1>5. HasTag(lines, kind) => \E i \in DOMAIN ss : ss[i] # << >>
  <2> SUFFICES ASSUME NEW i \in DOMAIN lines, lines[i].tag = kind PROVE ss[i] # << >>
    BY DEF HasTag
  <2>1. ss[i] = <<lines[i]>>
    OBVIOUS
  <2> HIDE DEF ss
  <2> QED BY <2>1
<1> HIDE DEF ss
<1>6. ss \in Seq(Seq(T))
  BY <1>1, <1>2, <1>3
<1> QED BY <1>4, <1>5, <1>6, FlattenTyped, FlattenEmpty

LEMMA LastOfTyped ==
  ASSUME NEW T, NEW lines \in Seq(T), NEW kind
  PROVE  LastOf(lines, kind) \in Seq(T)
<1>1. CASE HasTag(lines, kind)
  <2> DEFINE found == OfTag(lines, kind)
  <2>1. found \in Seq(T) /\ found # << >>
    BY <1>1, OfTagTyped
  <2> HIDE DEF found
  <2>2. Last(found) \in T
    BY <2>1 DEF Last
  <2>3. LastOf(lines, kind) = <<Last(found)>>
    BY <1>1 DEF LastOf, found
  <2> QED BY <2>2, <2>3
<1>2. CASE ~HasTag(lines, kind)
  BY <1>2 DEF LastOf
<1> QED BY <1>1, <1>2

LEMMA ExtractTyped ==
  ASSUME NEW T, NEW lines \in Seq(T)
  PROVE  extract_ll_hls_tags(lines).header \in Seq(T) /\ extract_ll_hls_tags(lines).tail \in Seq(T)
<1> DEFINE hs == [i \in DOMAIN HeaderTags |-> LastOf(lines, HeaderTags[i])]
           ts == [i \in DOMAIN TailTags |-> OfTag(lines, TailTags[i])]
<1>1. DOMAIN HeaderTags = 1 .. 3 /\ DOMAIN TailTags = 1 .. 2
  BY DEF HeaderTags, TailTags
<1>2. \A kind : LastOf(lines, kind) \in Seq(T) /\ OfTag(lines, kind) \in Seq(T)
  BY LastOfTyped, OfTagTyped
<1>3. hs \in Seq(Seq(T)) /\ ts \in Seq(Seq(T))
  BY <1>1, <1>2
<1>4. FlattenSeq(hs) \in Seq(T) /\ FlattenSeq(ts) \in Seq(T)
  BY <1>3, FlattenTyped
<1> QED BY <1>4 DEF extract_ll_hls_tags

LEMMA InjectTyped ==
  ASSUME NEW T, NEW lines \in Seq(T), NEW ll, ll.header \in Seq(T), ll.tail \in Seq(T)
  PROVE  inject_ll_hls_tags(lines, ll) \in Seq(T)
<1> DEFINE at == find_insertion_line(lines)
<1>1. at \in 0 .. Len(lines)
  <2> DEFINE At(kind) == SelectInSeq(lines, LAMBDA line : line.tag = kind)
  <2>1. at = IF HasTag(lines, "TARGETDURATION") THEN At("TARGETDURATION")
             ELSE IF HasTag(lines, "VERSION") THEN At("VERSION") ELSE At("EXTM3U")
    BY DEF find_insertion_line
  <2>2. At("TARGETDURATION") \in 0 .. Len(lines)
    BY TagFound DEF SelectInSeq
  <2>3. At("VERSION") \in 0 .. Len(lines)
    BY TagFound DEF SelectInSeq
  <2>4. At("EXTM3U") \in 0 .. Len(lines)
    BY TagFound DEF SelectInSeq
  <2> HIDE DEF at, At
  <2> QED BY <2>1, <2>2, <2>3, <2>4
<1> HIDE DEF at
<1>2. Len(lines) \in Nat
  OBVIOUS
<1>3. \A m, n \in Int : 1 <= m /\ n <= Len(lines) => SubSeq(lines, m, n) \in Seq(T)
  <2> SUFFICES ASSUME NEW m \in Int, NEW n \in Int, 1 <= m, n <= Len(lines)
               PROVE  SubSeq(lines, m, n) \in Seq(T)
    OBVIOUS
  <2>1. \A i \in m .. n : lines[i] \in T
    OBVIOUS
  <2> QED BY <2>1, SubSeqProperties
<1>4. SubSeq(lines, 1, at) \in Seq(T) /\ SubSeq(lines, at + 1, Len(lines)) \in Seq(T)
  BY <1>1, <1>2, <1>3
<1>5. \A a, b \in Seq(T) : a \o b \in Seq(T)
  BY JoinTyped
<1> QED BY <1>4, <1>5 DEF inject_ll_hls_tags, at

LEMMA TagOfJoin ==
  ASSUME NEW T, NEW a \in Seq(T), NEW b \in Seq(T), NEW kind
  PROVE  HasTag(a \o b, kind) <=> HasTag(a, kind) \/ HasTag(b, kind)
<1>1. /\ Len(a) \in Nat /\ Len(b) \in Nat /\ DOMAIN a = 1 .. Len(a) /\ DOMAIN b = 1 .. Len(b)
      /\ DOMAIN (a \o b) = 1 .. (Len(a) + Len(b))
  OBVIOUS
<1>2. \A i \in 1 .. Len(a) : (a \o b)[i] = a[i]
  OBVIOUS
<1>3. \A i \in 1 .. Len(b) : (a \o b)[Len(a) + i] = b[i]
  OBVIOUS
<1> DEFINE c == a \o b
<1> HIDE DEF c
<1>4. HasTag(a, kind) => HasTag(c, kind)
  BY <1>1, <1>2 DEF HasTag, c
<1>5. HasTag(b, kind) => HasTag(c, kind)
  <2> SUFFICES ASSUME NEW i \in 1 .. Len(b), b[i].tag = kind PROVE HasTag(c, kind)
    BY <1>1 DEF HasTag
  <2>1. Len(a) + i \in DOMAIN c /\ c[Len(a) + i].tag = kind
    BY <1>1, <1>3 DEF c
  <2> QED BY <2>1 DEF HasTag
<1>6. HasTag(c, kind) => HasTag(a, kind) \/ HasTag(b, kind)
  <2> SUFFICES ASSUME NEW i \in 1 .. (Len(a) + Len(b)), c[i].tag = kind
               PROVE  HasTag(a, kind) \/ HasTag(b, kind)
    BY <1>1 DEF HasTag, c
  <2>1. CASE i <= Len(a)
    BY <1>1, <1>2, <2>1 DEF HasTag, c
  <2>2. CASE i > Len(a)
    <3>1. i - Len(a) \in 1 .. Len(b) /\ i = Len(a) + (i - Len(a))
      BY <1>1, <2>2
    <3>2. c[i] = b[i - Len(a)]
      BY <1>3, <3>1 DEF c
    <3> QED BY <1>1, <3>1, <3>2 DEF HasTag
  <2> QED BY <1>1, <2>1, <2>2
<1> QED BY <1>4, <1>5, <1>6 DEF c

LEMMA KeptTyped ==
  ASSUME AllInv, NEW list \in Kept
  PROVE  list \in Seq({"out", "in", "cont", "other"})
<1> DEFINE S == {"out", "in", "cont", "other"}
<1>0. \A i \in 1 .. Segs : tags[i] \in Seq(S)
  BY TagsAssumption DEF AllInv, Inv, TypeOK, Segs
<1>1. CASE list \in {tags[i] : i \in 1 .. Segs}
  BY <1>0, <1>1
<1>2. CASE list \in {NotCues(tags[i]) : i \in 1 .. Segs}
  <2>1. PICK i \in 1 .. Segs : list = NotCues(tags[i])
    BY <1>2
  <2>2. list \in Seq({"other"})
    BY <1>0, <2>1, NotCuesTyped
  <2> QED BY <2>2
<1> QED BY <1>1, <1>2 DEF Kept

(* The origin's lines, and what they have of parts.                         *)
LEMMA RawTyped ==
  ASSUME AllInv, NEW d \in Deliveries, d.track # "master"
  PROVE  /\ RawLines(d) \in Seq(TextLs(d))
         /\ ~HasTag(RawLines(d), "PART") =>
              \A list \in Kept : \A i \in Nat : PartLines(d, i, list) = << >>
<1> DEFINE T == TextLs(d)
           ss == [i \in 1 .. Segs |-> PartLines(d, i - 1, tags[i])]
           parts == FlattenSeq(ss)
<1>0. Segs \in Nat /\ \A i \in 1 .. Segs : tags[i] \in Kept
  BY DEF AllInv, Inv, TypeOK, Segs, Kept
<1>1. ss \in Seq(Seq(PartLs(d)))
  <2>1. \A i \in 1 .. Segs : i - 1 \in Nat /\ tags[i] \in Seq({"out", "in", "cont", "other"})
    BY <1>0, KeptTyped
  <2>2. \A i \in 1 .. Segs : PartLines(d, i - 1, tags[i]) \in Seq(PartLs(d))
    BY <2>1, PartLinesTyped
  <2> QED BY <1>0, <2>2
<1>2. parts \in Seq(PartLs(d)) /\ (parts = << >> <=> \A i \in 1 .. Segs : ss[i] = << >>)
  <2>1. DOMAIN ss = 1 .. Segs
    OBVIOUS
  <2> HIDE DEF ss
  <2> QED BY <1>1, <2>1, FlattenTyped, FlattenEmpty
<1>3. Numbered(d.header) \in Seq(HeaderLs)
  <2>1. d.header \in Seq(HeaderKinds)
    BY DeliveriesAssumption
  <2>2. \A i \in DOMAIN d.header : i \in Nat /\ d.header[i] \in HeaderKinds
    BY <2>1
  <2>3. ASSUME NEW i \in DOMAIN d.header
        PROVE  [Plain(d.header[i]) EXCEPT !.meant = <<i>>] \in HeaderLs
    <3>1. [Plain(d.header[i]) EXCEPT !.meant = <<i>>] = Line(d.header[i], NoUri, <<i>>)
      BY DEF Plain, Line
    <3>2. Line(d.header[i], NoUri, <<i>>) \in {Line(kind, NoUri, <<j>>) : kind \in HeaderKinds, j \in Nat}
      BY <2>2
    <3> QED BY <3>1, <3>2 DEF HeaderLs
  <2>4. Len(d.header) \in Nat /\ DOMAIN d.header = 1 .. Len(d.header)
    BY <2>1
  <2> QED BY <2>3, <2>4 DEF Numbered
<1>4. TailLines(d) \in Seq(TailLs(d))
  <2>1. d.tail \in Seq(TailKinds)
    BY DeliveriesAssumption
  <2>2. Len(d.tail) \in Nat /\ DOMAIN d.tail = 1 .. Len(d.tail)
        /\ \A i \in 1 .. Len(d.tail) : i \in Nat /\ d.tail[i] \in TailKinds
    BY <2>1
  <2>3. \A i \in 1 .. Len(d.tail) : Named(d, d.tail[i], <<"tail", i>>) \in TailLs(d)
    BY <2>2 DEF TailLs
  <2> QED BY <2>2, <2>3 DEF TailLines
<1> HIDE DEF ss
<1>5. parts \in Seq(T) /\ Numbered(d.header) \in Seq(T) /\ TailLines(d) \in Seq(T)
  <2>1. PartLs(d) \subseteq T /\ HeaderLs \subseteq T /\ TailLs(d) \subseteq T
    BY DEF TextLs
  <2>2. \A P : P \subseteq T => \A s \in Seq(P) : s \in Seq(T)
    <3> HIDE DEF T
    <3> QED OBVIOUS
  <2> HIDE DEF T, parts
  <2> QED BY <1>2, <1>3, <1>4, <2>1, <2>2
<1>6. RawLines(d) = Numbered(d.header) \o parts \o TailLines(d)
  BY DEF RawLines, ss
<1> HIDE DEF parts, T
<1>7. Numbered(d.header) \o parts \in Seq(T) /\ RawLines(d) \in Seq(T)
  BY <1>5, <1>6, JoinTyped
<1>8. HasTag(parts, "PART") => HasTag(RawLines(d), "PART")
  <2>1. HasTag(parts, "PART") => HasTag(Numbered(d.header) \o parts, "PART")
    BY <1>5, TagOfJoin
  <2>2. HasTag(Numbered(d.header) \o parts, "PART")
          => HasTag((Numbered(d.header) \o parts) \o TailLines(d), "PART")
    BY <1>5, <1>7, TagOfJoin
  <2> QED BY <1>6, <2>1, <2>2
<1>9. ~HasTag(parts, "PART") => parts = << >>
  <2> SUFFICES ASSUME parts # << >> PROVE HasTag(parts, "PART")
    OBVIOUS
  <2>1. 1 \in DOMAIN parts /\ parts[1] \in PartLs(d)
    BY <1>2
  <2>2. PICK i \in Nat, j \in Nat : parts[1] = Named(d, "PART", <<"part", i, j>>)
    BY <2>1 DEF PartLs
  <2>3. parts[1].tag = "PART"
    BY <2>2, LineFields DEF Named
  <2> QED BY <2>1, <2>3 DEF HasTag
<1>10. ASSUME parts = << >>, NEW list \in Kept, NEW i \in Nat
       PROVE  PartLines(d, i, list) = << >>
  <2>1. \A j \in 1 .. Segs : NotCues(tags[j]) = << >>
    <3> SUFFICES ASSUME NEW j \in 1 .. Segs PROVE NotCues(tags[j]) = << >>
      OBVIOUS
    <3>1. PartLines(d, j - 1, tags[j]) = << >>
      BY <1>2, <1>10 DEF ss
    <3>2. j - 1 \in Nat /\ tags[j] \in Seq({"out", "in", "cont", "other"})
      BY <1>0, KeptTyped
    <3> QED BY <3>1, <3>2, PartLinesTyped
  <2>2. NotCues(list) = << >>
    BY <2>1, NoCuesKept DEF Kept
  <2>3. list \in Seq({"out", "in", "cont", "other"})
    BY KeptTyped
  <2> QED BY <2>2, <2>3, PartLinesTyped
<1> QED BY <1>7, <1>8, <1>9, <1>10 DEF T

LEMMA MediaLeads ==
  ASSUME AllInv, LinesInv, NEW d \in Deliveries, d.track # "master"
  PROVE  \A i \in DOMAIN MediaText(d) : Leads(d, MediaText(d)[i])
<1> DEFINE raw == RawLines(d)
           written == serialize_playlist(Segments(d))
           W == HeaderLs \cup SegmentLs(d)
<1>0. DeliveryOK(d)
  BY DeliveriesAssumption DEF DeliveryOK, Layouts6
<1>1. ASSUME NEW T, HeaderLs \subseteq T, Segments(d) \in Seq(T)
      PROVE  written \in Seq(T)
  <2>1. Plain("EXTM3U") \in T /\ Plain("TARGETDURATION") \in T
    BY <1>1 DEF Plain, HeaderLs
  <2>2. <<Plain("EXTM3U"), Plain("TARGETDURATION")>> \in Seq(T)
    BY <2>1
  <2> QED BY <1>1, <2>2, JoinTyped DEF serialize_playlist
<1>2. CASE is_ll_hls(raw)
  <2> DEFINE T == TextLs(d)
             given == inject_ll_hls_tags(written, extract_ll_hls_tags(raw))
  <2>1. \A list \in Kept : \A i \in Nat : PartLines(d, i, list) \in Seq(T)
    <3>1. \A list \in Kept : \A i \in Nat : PartLines(d, i, list) \in Seq(PartLs(d))
      BY KeptTyped, PartLinesTyped
    <3>2. PartLs(d) \subseteq T
      BY DEF TextLs
    <3> HIDE DEF T
    <3> QED BY <3>1, <3>2
  <2>2. SegmentLs(d) \subseteq T /\ HeaderLs \subseteq T
    BY DEF TextLs
  <2> HIDE DEF T
  <2>3. Segments(d) \in Seq(T)
    BY <2>1, <2>2, SegmentsTyped
  <2>4. written \in Seq(T)
    BY <1>1, <2>2, <2>3
  <2>5. raw \in Seq(T)
    BY RawTyped DEF T
  <2> HIDE DEF raw, written
  <2>6. given \in Seq(T)
    BY <2>4, <2>5, ExtractTyped, InjectTyped
  <2>7. MediaText(d) = rewrite_ll_hls_uris(given)
    BY <1>2 DEF MediaText, raw, written
  <2> HIDE DEF given
  <2>8. DOMAIN rewrite_ll_hls_uris(given) = DOMAIN given
    BY DEF rewrite_ll_hls_uris
  <2>9. ASSUME NEW i \in DOMAIN given PROVE Leads(d, rewrite_ll_hls_uris(given)[i])
    BY <1>0, <2>6, RewrittenLead DEF T
  <2> QED BY <2>7, <2>8, <2>9
<1>3. CASE ~is_ll_hls(raw)
  <2>1. ~HasTag(raw, "PART")
    BY <1>3 DEF is_ll_hls
  <2>2. \A list \in Kept : \A i \in Nat : PartLines(d, i, list) = << >>
    BY <2>1, RawTyped
  <2>3. SegmentLs(d) \subseteq W /\ HeaderLs \subseteq W
    OBVIOUS
  <2> HIDE DEF W
  <2>4. \A list \in Kept : \A i \in Nat : PartLines(d, i, list) \in Seq(W)
    <3>1. << >> \in Seq(W)
      OBVIOUS
    <3> QED BY <2>2, <3>1, Zenon
  <2>5. Segments(d) \in Seq(W)
    BY <2>3, <2>4, SegmentsTyped
  <2>6. written \in Seq(W)
    BY <1>1, <2>3, <2>5
  <2>7. MediaText(d) = written
    BY <1>3 DEF MediaText
  <2> HIDE DEF written
  <2>8. ASSUME NEW i \in DOMAIN written PROVE Leads(d, written[i])
    <3>1. written[i] \in W
      BY <2>6
    <3> QED BY <1>0, <3>1, WrittenLeads DEF W
  <2> QED BY <2>7, <2>8
<1> QED BY <1>2, <1>3

LEMMA MasterLeads ==
  ASSUME NEW d \in Deliveries, d.track = "master", NEW text,
         text = <<Plain("EXTM3U")>> \o [i \in DOMAIN d.tail |-> MasterLine(d, i)]
  PROVE  \A i \in DOMAIN text : Leads(d, text[i])
<1> DEFINE T == {line \in {Plain("EXTM3U")} \cup {MasterLine(d, i) : i \in Nat} : Leads(d, line)}
           tail == [i \in DOMAIN d.tail |-> MasterLine(d, i)]
<1>0. DeliveryOK(d)
  BY DeliveriesAssumption DEF DeliveryOK, Layouts6
<1>1. Plain("EXTM3U") \in T
  <2>1. Plain("EXTM3U").uri = NoUri
    BY LineFields DEF Plain
  <2> QED BY <2>1, PlainLeads
<1>2. ASSUME NEW i \in Nat PROVE MasterLine(d, i) \in T
  <2> DEFINE ref == Ref(d.layout, <<"playlist", i>>)
             line == MasterLine(d, i)
  <2>1. CASE d.tail[i] = "IN-STREAM"
    <3>1. line = Plain("MEDIA")
      BY <2>1 DEF MasterLine
    <3>2. line.uri = NoUri
      BY <3>1, LineFields DEF Plain
    <3> QED BY <3>2, PlainLeads
  <2>2. CASE d.tail[i] # "IN-STREAM"
    <3>1. line = Line(IF d.tail[i] = "VARIANT" THEN "VARIANT" ELSE "MEDIA",
                      PlaylistUri(ref, TrackOf(d.tail[i])), <<"playlist", i>>)
      BY <2>2 DEF MasterLine
    <3>2. line.uri = PlaylistUri(ref, TrackOf(d.tail[i])) /\ line.meant = <<"playlist", i>>
      BY <3>1, LineFields
    <3>3. <<"playlist", i>> \in Files
      BY FilesNamed
    <3>4. Leads(d, line)
      BY <1>0, <3>2, <3>3, PlaylistLeads
    <3> QED BY <3>4
  <2> QED BY <2>1, <2>2
<1> HIDE DEF T
<1>3. tail \in Seq(T)
  <2>1. \E S : d.tail \in Seq(S)
    BY DeliveriesAssumption
  <2>2. Len(d.tail) \in Nat /\ DOMAIN d.tail = 1 .. Len(d.tail)
    BY <2>1
  <2>3. \A i \in 1 .. Len(d.tail) : MasterLine(d, i) \in T
    BY <1>2, <2>2
  <2> QED BY <2>2, <2>3
<1> HIDE DEF tail
<1>4. text \in Seq(T)
  <2>1. <<Plain("EXTM3U")>> \in Seq(T)
    BY <1>1
  <2>2. text = <<Plain("EXTM3U")>> \o tail
    BY DEF tail
  <2>3. <<Plain("EXTM3U")>> \o tail \in Seq(T)
    BY <1>3, <2>1, JoinTyped
  <2> QED BY <2>2, <2>3
<1>5. \A i \in DOMAIN text : text[i] \in T
  BY <1>4
<1> QED BY <1>5 DEF T

(* Whatever the player asks for by a uri of an answered playlist is what    *)
(* the origin or the ad provider meant there, but for the layouts that the  *)
(* rewriting cannot express, and an asset list fills its break up to        *)
(* MaxDur: for playlists and masters of any length and tags, ads and dates  *)
(* of any number, with and without low-latency lines.                       *)
THEOREM PlaylistUrisLead == LiveSpec => []UrisLead
<1>1. LiveInit => UrisLead
  BY DEF LiveInit, PlaylistInit, UrisLead, Answered
<1>2. AllInv /\ LinesInv /\ UrisLead /\ [LiveNext]_hlsVars => UrisLead'
  <2> SUFFICES ASSUME AllInv, LinesInv, UrisLead, [LiveNext]_hlsVars PROVE UrisLead'
    OBVIOUS
  <2>1. CASE response' = response
    BY <2>1 DEF UrisLead, Answered
  <2>2. ASSUME NEW d \in Deliveries, ServeMedia(d) PROVE UrisLead'
    <3>1. d.track # "master" /\ response'.d = d /\ response'.text = MediaText(d)
      BY <2>2 DEF ServeMedia
    <3>2. \A i \in DOMAIN MediaText(d) : Leads(d, MediaText(d)[i])
      BY <3>1, MediaLeads
    <3> QED BY <3>1, <3>2 DEF UrisLead
  <2>3. ASSUME NEW d \in Deliveries, ServeMaster(d) PROVE UrisLead'
    <3> DEFINE text == <<Plain("EXTM3U")>> \o [i \in DOMAIN d.tail |-> MasterLine(d, i)]
    <3>1. d.track = "master" /\ response'.d = d /\ response'.text = text
      BY <2>3 DEF ServeMaster
    <3>2. \A i \in DOMAIN text : Leads(d, text[i])
      BY <3>1, MasterLeads
    <3> HIDE DEF text
    <3> QED BY <3>1, <3>2 DEF UrisLead
  <2>4. response' = response \/ \E d \in Deliveries : ServeMedia(d) \/ ServeMaster(d)
    BY DEF LiveNext, PlaylistNext, hlsVars, allVars
  <2> QED BY <2>1, <2>2, <2>3, <2>4
<1> QED BY <1>1, <1>2, LinesInvariant, PTL DEF LiveSpec
-----------------------------------------------------------------------------
(* The low-latency tags: where in a joined list the members of its parts    *)
(* are, first for two lists.                                                *)
LEMMA JoinIs ==
  ASSUME NEW T, NEW a \in Seq(T), NEW b \in Seq(T)
  PROVE  /\ Len(a) \in Nat /\ Len(b) \in Nat
         /\ DOMAIN a = 1 .. Len(a) /\ DOMAIN b = 1 .. Len(b)
         /\ a \o b \in Seq(T) /\ Len(a \o b) = Len(a) + Len(b)
         /\ DOMAIN (a \o b) = 1 .. (Len(a) + Len(b))
         /\ \A i \in 1 .. Len(a) : (a \o b)[i] = a[i]
         /\ \A i \in 1 .. Len(b) : (a \o b)[Len(a) + i] = b[i]
         /\ \A i \in (Len(a) + 1) .. (Len(a) + Len(b)) : (a \o b)[i] = b[i - Len(a)]
<1>1. /\ Len(a) \in Nat /\ Len(b) \in Nat
      /\ DOMAIN a = 1 .. Len(a) /\ DOMAIN b = 1 .. Len(b)
      /\ a \o b \in Seq(T) /\ Len(a \o b) = Len(a) + Len(b)
      /\ DOMAIN (a \o b) = 1 .. (Len(a) + Len(b))
  OBVIOUS
<1>2. \A i \in 1 .. Len(a) : (a \o b)[i] = a[i]
  OBVIOUS
<1>3. \A i \in 1 .. Len(b) : (a \o b)[Len(a) + i] = b[i]
  OBVIOUS
<1>4. \A i \in (Len(a) + 1) .. (Len(a) + Len(b)) : (a \o b)[i] = b[i - Len(a)]
  BY <1>1
<1> QED BY <1>1, <1>2, <1>3, <1>4

(* The k-th member of list is the c[k]-th of the r[k]-th list of ss.        *)
Places(list, ss, n, r, c) ==
  /\ \A k \in DOMAIN list :
       /\ r[k] \in 1 .. n /\ c[k] \in DOMAIN ss[r[k]] /\ list[k] = ss[r[k]][c[k]]
  /\ \A k, l \in DOMAIN list : k < l => r[k] < r[l] \/ (r[k] = r[l] /\ c[k] < c[l])
  /\ \A i \in 1 .. n : \A j \in DOMAIN ss[i] : \E k \in DOMAIN list : r[k] = i /\ c[k] = j

LEMMA PlacesOfOne ==
  ASSUME NEW T, NEW ss \in Seq(Seq(T)), 1 \in DOMAIN ss
  PROVE  \E r, c : Places(ss[1], ss, 1, r, c)
<1>1. ss[1] \in Seq(T) /\ Len(ss[1]) \in Nat /\ DOMAIN ss[1] = 1 .. Len(ss[1])
  OBVIOUS
<1> DEFINE r == [k \in DOMAIN ss[1] |-> 1]
           c == [k \in DOMAIN ss[1] |-> k]
<1>2. \A k \in DOMAIN ss[1] : r[k] = 1 /\ c[k] = k
  OBVIOUS
<1>3. 1 .. 1 = {1}
  OBVIOUS
<1> HIDE DEF r, c
<1>4. Places(ss[1], ss, 1, r, c)
  BY <1>1, <1>2, <1>3 DEF Places
<1> QED BY <1>4

LEMMA PlacesOn ==
  ASSUME NEW T, NEW ss \in Seq(Seq(T)), NEW n \in Nat \ {0}, n + 1 \in DOMAIN ss,
         NEW list \in Seq(T), NEW r, NEW c, Places(list, ss, n, r, c)
  PROVE  \E q, d : Places(list \o ss[n + 1], ss, n + 1, q, d)
<1> DEFINE m == Len(list)
           b == ss[n + 1]
           more == list \o b
           q == [k \in 1 .. (m + Len(b)) |-> IF k <= m THEN r[k] ELSE n + 1]
           d == [k \in 1 .. (m + Len(b)) |-> IF k <= m THEN c[k] ELSE k - m]
<1>1. /\ m \in Nat /\ Len(b) \in Nat /\ DOMAIN list = 1 .. m /\ DOMAIN b = 1 .. Len(b)
      /\ DOMAIN more = 1 .. (m + Len(b))
      /\ \A k \in 1 .. m : more[k] = list[k]
      /\ \A k \in (m + 1) .. (m + Len(b)) : more[k] = b[k - m]
  <2>1. b \in Seq(T)
    OBVIOUS
  <2> HIDE DEF b
  <2> QED BY <2>1, JoinIs
<1>2. \A k \in 1 .. m : q[k] = r[k] /\ d[k] = c[k]
  BY <1>1
<1>3. \A k \in (m + 1) .. (m + Len(b)) : q[k] = n + 1 /\ d[k] = k - m
  BY <1>1
<1> HIDE DEF m, b, more, q, d
<1>4. \A k \in 1 .. m : r[k] \in 1 .. n /\ c[k] \in DOMAIN ss[r[k]] /\ list[k] = ss[r[k]][c[k]]
  BY <1>1 DEF Places
<1>5. ASSUME NEW k \in DOMAIN more
      PROVE  q[k] \in 1 .. (n + 1) /\ d[k] \in DOMAIN ss[q[k]] /\ more[k] = ss[q[k]][d[k]]
  <2>1. CASE k <= m
    <3>1. k \in 1 .. m
      BY <1>1, <2>1
    <3>2. r[k] \in 1 .. (n + 1)
      BY <1>4, <3>1
    <3> QED BY <1>1, <1>2, <1>4, <3>1, <3>2
  <2>2. CASE k > m
    <3>1. k \in (m + 1) .. (m + Len(b)) /\ k - m \in 1 .. Len(b) /\ n + 1 \in 1 .. (n + 1)
      BY <1>1, <2>2
    <3>2. ss[n + 1] = b
      BY DEF b
    <3> QED BY <1>1, <1>3, <3>1, <3>2
  <2>3. k <= m \/ k > m
    BY <1>1
  <2> QED BY <2>1, <2>2, <2>3
<1>6. ASSUME NEW k \in DOMAIN more, NEW l \in DOMAIN more, k < l
      PROVE  q[k] < q[l] \/ (q[k] = q[l] /\ d[k] < d[l])
  <2>1. CASE l <= m
    <3>1. k \in 1 .. m /\ l \in 1 .. m
      BY <1>1, <1>6, <2>1
    <3>2. r[k] < r[l] \/ (r[k] = r[l] /\ c[k] < c[l])
      BY <1>1, <1>6, <3>1 DEF Places
    <3> QED BY <1>2, <3>1, <3>2
  <2>2. CASE k <= m /\ l > m
    <3>1. k \in 1 .. m /\ l \in (m + 1) .. (m + Len(b))
      BY <1>1, <2>2
    <3>2. q[k] \in 1 .. n /\ q[l] = n + 1
      BY <1>2, <1>3, <1>4, <3>1
    <3> QED BY <3>2
  <2>3. CASE k > m
    <3>1. k \in (m + 1) .. (m + Len(b)) /\ l \in (m + 1) .. (m + Len(b))
      BY <1>1, <1>6, <2>3
    <3>2. q[k] = q[l] /\ d[k] = k - m /\ d[l] = l - m
      BY <1>3, <3>1
    <3> QED BY <1>1, <1>6, <3>1, <3>2
  <2> QED BY <1>1, <1>6, <2>1, <2>2, <2>3
<1>7. ASSUME NEW i \in 1 .. (n + 1), NEW j \in DOMAIN ss[i]
      PROVE  \E k \in DOMAIN more : q[k] = i /\ d[k] = j
  <2>1. CASE i = n + 1
    <3>1. j \in DOMAIN b
      BY <2>1 DEF b
    <3>2. j \in 1 .. Len(b)
      BY <1>1, <3>1
    <3>3. m + j \in (m + 1) .. (m + Len(b)) /\ m + j \in DOMAIN more /\ (m + j) - m = j
      <4>1. ASSUME NEW x \in Nat, NEW y \in Nat, NEW z \in 1 .. y
            PROVE  /\ x + z \in (x + 1) .. (x + y) /\ x + z \in 1 .. (x + y)
                   /\ (x + z) - x = z
        OBVIOUS
      <4>2. m \in Nat /\ Len(b) \in Nat
        BY <1>1
      <4> QED BY <1>1, <3>2, <4>1, <4>2
    <3> QED BY <1>3, <2>1, <3>2, <3>3
  <2>2. CASE i # n + 1
    <3>1. i \in 1 .. n
      BY <2>2
    <3>2. \A x \in 1 .. n : \A y \in DOMAIN ss[x] : \E k \in DOMAIN list : r[k] = x /\ c[k] = y
      BY DEF Places
    <3>3. PICK k \in DOMAIN list : r[k] = i /\ c[k] = j
      BY <3>1, <3>2
    <3>4. k \in 1 .. m /\ k \in DOMAIN more
      BY <1>1, <3>3
    <3> QED BY <1>2, <3>3, <3>4
  <2> QED BY <2>1, <2>2
<1>8. Places(more, ss, n + 1, q, d)
  BY <1>5, <1>6, <1>7 DEF Places
<1> QED BY <1>8 DEF more, b

LEMMA FlattenPlaces ==
  ASSUME NEW T, NEW ss \in Seq(Seq(T)), ss # << >>
  PROVE  \E r, c : Places(FlattenSeq(ss), ss, Len(ss), r, c)
<1> DEFINE n == Len(ss)
<1>1. n \in Nat /\ 1 \in 1 .. n /\ n \in 1 .. n /\ DOMAIN ss = 1 .. n
  OBVIOUS
<1>2. PICK f \in [1 .. n -> Seq(T)] : Joins(f, ss, n) /\ FlattenSeq(ss) = f[n]
  BY FlattenIsJoin
<1> HIDE DEF n
<1>3. \A i \in 1 .. n : f[i] = IF i = 1 THEN ss[i] ELSE f[i - 1] \o ss[i]
  BY <1>2 DEF Joins
<1> DEFINE AsSaid(i) == \E r, c : Places(f[i], ss, i, r, c)
           B == {i \in 1 .. n : ~AsSaid(i)}
<1>4. AsSaid(1)
  <2>1. f[1] = ss[1]
    BY <1>1, <1>3
  <2> QED BY <1>1, <2>1, PlacesOfOne
<1> HIDE DEF AsSaid
<1>5. B = {}
  <2> SUFFICES ASSUME B # {} PROVE FALSE
    OBVIOUS
  <2>1. B \subseteq Nat
    BY <1>1
  <2>2. PICK i \in B : \A j \in B : i <= j
    BY <2>1, Least
  <2>3. i \in 1 .. n /\ ~AsSaid(i)
    OBVIOUS
  <2>4. i # 1
    BY <1>4, <2>3
  <2>5. i \in Nat /\ i - 1 \in 1 .. n /\ i - 1 \in Nat \ {0} /\ (i - 1) + 1 = i
    BY <1>1, <2>3, <2>4
  <2>6. AsSaid(i - 1)
    BY <2>2, <2>5
  <2>7. f[i] = f[i - 1] \o ss[i] /\ f[i - 1] \in Seq(T)
    BY <1>2, <1>3, <2>3, <2>4, <2>5
  <2>8. PICK r, c : Places(f[i - 1], ss, i - 1, r, c)
    BY <2>6 DEF AsSaid
  <2>9. \E q, d : Places(f[i - 1] \o ss[(i - 1) + 1], ss, (i - 1) + 1, q, d)
    BY <1>1, <2>3, <2>5, <2>7, <2>8, PlacesOn
  <2>10. AsSaid(i)
    BY <2>5, <2>7, <2>9 DEF AsSaid
  <2> QED BY <2>3, <2>10
<1>6. AsSaid(n)
  BY <1>1, <1>5
<1> QED BY <1>2, <1>6 DEF AsSaid, n

(* OfTag: the lines of the kind, in their order.                            *)
LEMMA OfTagIs ==
  ASSUME NEW T, NEW lines \in Seq(T), NEW kind
  PROVE  \E at :
           /\ \A k \in DOMAIN OfTag(lines, kind) :
                /\ at[k] \in DOMAIN lines /\ lines[at[k]].tag = kind
                /\ OfTag(lines, kind)[k] = lines[at[k]]
           /\ \A k, l \in DOMAIN OfTag(lines, kind) : k < l => at[k] < at[l]
           /\ \A i \in DOMAIN lines : lines[i].tag = kind =>
                \E k \in DOMAIN OfTag(lines, kind) : at[k] = i
<1> DEFINE ss == [i \in DOMAIN lines |-> IF lines[i].tag = kind THEN <<lines[i]>> ELSE << >>]
           found == OfTag(lines, kind)
           n == Len(lines)
<1>1. n \in Nat /\ DOMAIN lines = 1 .. n /\ \A i \in 1 .. n : lines[i] \in T
  OBVIOUS
<1>2. found = FlattenSeq(ss)
  BY DEF OfTag
<1>3. ss \in Seq(Seq(T)) /\ Len(ss) = n
  <2>1. \A i \in 1 .. n : ss[i] \in Seq(T)
    BY <1>1
  <2>2. DOMAIN ss = 1 .. n /\ ss = [i \in DOMAIN ss |-> ss[i]]
    BY <1>1
  <2> HIDE DEF ss, n
  <2> QED BY <1>1, <2>1, <2>2
<1>4. \A i \in DOMAIN lines : lines[i].tag = kind => DOMAIN ss[i] = {1} /\ ss[i][1] = lines[i]
  OBVIOUS
<1>5. \A i \in DOMAIN lines : lines[i].tag # kind => DOMAIN ss[i] = {}
  OBVIOUS
<1> HIDE DEF ss, found, n
<1>6. CASE n = 0
  <2>1. DOMAIN lines = {}
    BY <1>1, <1>6
  <2>2. found = << >>
    <3>1. ss = << >>
      BY <1>3, <1>6
    <3> QED BY <1>2, <3>1 DEF FlattenSeq
  <2>3. DOMAIN found = {}
    BY <2>2
  <2> QED BY <2>1, <2>3 DEF found
<1>7. CASE n # 0
  <2>1. ss # << >>
    BY <1>1, <1>3, <1>7
  <2>2. PICK r, c : Places(found, ss, n, r, c)
    BY <1>2, <1>3, <2>1, FlattenPlaces
  <2>3. ASSUME NEW k \in DOMAIN found
        PROVE  /\ r[k] \in DOMAIN lines /\ lines[r[k]].tag = kind
               /\ found[k] = lines[r[k]] /\ c[k] = 1
    <3>1. r[k] \in DOMAIN lines /\ c[k] \in DOMAIN ss[r[k]] /\ found[k] = ss[r[k]][c[k]]
      BY <1>1, <2>2 DEF Places
    <3>2. lines[r[k]].tag = kind
      BY <1>5, <3>1
    <3>3. c[k] = 1
      BY <1>4, <3>1, <3>2
    <3> QED BY <1>4, <3>1, <3>2, <3>3
  <2>4. ASSUME NEW k \in DOMAIN found, NEW l \in DOMAIN found, k < l
        PROVE  r[k] < r[l]
    <3>1. r[k] < r[l] \/ (r[k] = r[l] /\ c[k] < c[l])
      BY <2>2, <2>4 DEF Places
    <3>2. c[k] = 1 /\ c[l] = 1
      BY <2>3
    <3> QED BY <3>1, <3>2
  <2>5. ASSUME NEW i \in DOMAIN lines, lines[i].tag = kind
        PROVE  \E k \in DOMAIN found : r[k] = i
    <3>1. i \in 1 .. n /\ 1 \in DOMAIN ss[i]
      BY <1>1, <1>4, <2>5
    <3> QED BY <2>2, <3>1 DEF Places
  <2> QED BY <2>3, <2>4, <2>5 DEF found
<1> QED BY <1>6, <1>7

LEMMA LastOfIs ==
  ASSUME NEW T, NEW lines \in Seq(T), NEW kind
  PROVE  /\ ~HasTag(lines, kind) => LastOf(lines, kind) = << >>
         /\ HasTag(lines, kind) =>
              \E i \in DOMAIN lines :
                /\ lines[i].tag = kind /\ LastOf(lines, kind) = <<lines[i]>>
                /\ \A j \in DOMAIN lines : j > i => lines[j].tag # kind
<1>1. ~HasTag(lines, kind) => LastOf(lines, kind) = << >>
  BY DEF LastOf
<1>2. ASSUME HasTag(lines, kind)
      PROVE  \E i \in DOMAIN lines :
               /\ lines[i].tag = kind /\ LastOf(lines, kind) = <<lines[i]>>
               /\ \A j \in DOMAIN lines : j > i => lines[j].tag # kind
  <2> DEFINE found == OfTag(lines, kind)
             n == Len(found)
  <2>1. PICK at :
          /\ \A k \in DOMAIN found :
               at[k] \in DOMAIN lines /\ lines[at[k]].tag = kind /\ found[k] = lines[at[k]]
          /\ \A k, l \in DOMAIN found : k < l => at[k] < at[l]
          /\ \A i \in DOMAIN lines : lines[i].tag = kind => \E k \in DOMAIN found : at[k] = i
    BY OfTagIs
  <2>2. found \in Seq(T) /\ found # << >>
    BY <1>2, OfTagTyped
  <2>3. LastOf(lines, kind) = <<Last(found)>>
    BY <1>2 DEF LastOf
  <2> HIDE DEF found
  <2>4. n \in Nat \ {0} /\ n \in DOMAIN found /\ DOMAIN found = 1 .. n /\ Last(found) = found[n]
    BY <2>2 DEF Last
  <2> HIDE DEF n
  <2>5. ASSUME NEW j \in DOMAIN lines, j > at[n] PROVE lines[j].tag # kind
    <3> SUFFICES ASSUME lines[j].tag = kind PROVE FALSE
      OBVIOUS
    <3>1. PICK k \in DOMAIN found : at[k] = j
      BY <2>1
    <3>2. k \in 1 .. n /\ at[k] > at[n]
      BY <2>4, <2>5, <3>1
    <3>3. CASE k = n
      <4>1. j \in Nat
        OBVIOUS
      <4> QED BY <2>5, <3>1, <3>3, <4>1
    <3>4. CASE k < n
      <4>1. at[k] < at[n]
        BY <2>1, <2>4, <3>4
      <4>2. j \in Nat /\ at[n] \in Nat
        BY <2>1, <2>4
      <4> QED BY <2>5, <3>1, <4>1, <4>2
    <3> QED BY <2>4, <3>2, <3>3, <3>4
  <2> QED BY <2>1, <2>3, <2>4, <2>5
<1> QED BY <1>1, <1>2

-----------------------------------------------------------------------------
(* The origin's lines by their places: the header's, the parts, the tail's. *)
LEMMA RawIs ==
  ASSUME AllInv, NEW d \in Deliveries, d.track # "master"
  PROVE  /\ Len(d.header) \in Nat /\ Len(d.tail) \in Nat
         /\ DOMAIN d.header = 1 .. Len(d.header) /\ DOMAIN d.tail = 1 .. Len(d.tail)
         /\ \E p \in Nat :
              /\ DOMAIN RawLines(d) = 1 .. (Len(d.header) + p + Len(d.tail))
              /\ \A i \in 1 .. Len(d.header) :
                   RawLines(d)[i].tag = d.header[i] /\ RawLines(d)[i].meant = <<i>>
              /\ \A i \in (Len(d.header) + 1) .. (Len(d.header) + p) :
                   RawLines(d)[i].tag = "PART"
              /\ \A i \in 1 .. Len(d.tail) :
                   /\ RawLines(d)[Len(d.header) + p + i].tag = d.tail[i]
                   /\ RawLines(d)[Len(d.header) + p + i].meant = <<"tail", i>>
<1> DEFINE h == Len(d.header)
           t == Len(d.tail)
           ss == [i \in 1 .. Segs |-> PartLines(d, i - 1, tags[i])]
           parts == FlattenSeq(ss)
           top == Numbered(d.header)
           end == TailLines(d)
           p == Len(parts)
<1>1. d.header \in Seq(HeaderKinds) /\ d.tail \in Seq(TailKinds)
  BY DeliveriesAssumption
<1>2. /\ h \in Nat /\ t \in Nat /\ DOMAIN d.header = 1 .. h /\ DOMAIN d.tail = 1 .. t
  BY <1>1
<1>3. parts \in Seq(PartLs(d))
  <2>1. Segs \in Nat /\ \A i \in 1 .. Segs : tags[i] \in Kept
    BY DEF AllInv, Inv, TypeOK, Segs, Kept
  <2>2. \A i \in 1 .. Segs : i - 1 \in Nat /\ tags[i] \in Seq({"out", "in", "cont", "other"})
    BY <2>1, KeptTyped
  <2>3. \A i \in 1 .. Segs : PartLines(d, i - 1, tags[i]) \in Seq(PartLs(d))
    BY <2>2, PartLinesTyped
  <2>4. ss \in Seq(Seq(PartLs(d)))
    BY <2>1, <2>3
  <2> HIDE DEF ss
  <2> QED BY <2>4, FlattenTyped
<1>4. RawLines(d) = (top \o parts) \o end
  BY DEF RawLines
<1> DEFINE A == {top[i] : i \in DOMAIN top} \cup {end[i] : i \in DOMAIN end} \cup PartLs(d)
<1>5. /\ DOMAIN top = 1 .. h /\ top \in Seq(A) /\ Len(top) = h
      /\ \A i \in 1 .. h : top[i].tag = d.header[i] /\ top[i].meant = <<i>>
  <2>1. top = [i \in 1 .. h |-> [Plain(d.header[i]) EXCEPT !.meant = <<i>>]]
    BY <1>2 DEF Numbered
  <2>2. \A i \in 1 .. h : top[i] = Line(d.header[i], NoUri, <<i>>)
    BY <2>1 DEF Plain, Line
  <2>3. \A i \in 1 .. h : top[i].tag = d.header[i] /\ top[i].meant = <<i>>
    <3> HIDE DEF top, h
    <3> SUFFICES ASSUME NEW i \in 1 .. h PROVE top[i].tag = d.header[i] /\ top[i].meant = <<i>>
      OBVIOUS
    <3>1. top[i] = Line(d.header[i], NoUri, <<i>>)
      BY <2>2
    <3> QED BY <3>1, LineFields
  <2>4. DOMAIN top = 1 .. h
    BY <2>1
  <2> HIDE DEF top, h
  <2>5. \A i \in 1 .. h : top[i] \in A
    BY <2>4
  <2> HIDE DEF A
  <2>6. top = [i \in 1 .. h |-> top[i]]
    BY <2>1
  <2>7. top \in Seq(A) /\ Len(top) = h
    BY <1>2, <2>5, <2>6
  <2> QED BY <2>3, <2>4, <2>7
<1>6. /\ DOMAIN end = 1 .. t /\ end \in Seq(A) /\ Len(end) = t
      /\ \A i \in 1 .. t : end[i].tag = d.tail[i] /\ end[i].meant = <<"tail", i>>
  <2>1. end = [i \in 1 .. t |-> Named(d, d.tail[i], <<"tail", i>>)]
    BY <1>2 DEF TailLines
  <2>2. \A i \in 1 .. t : end[i].tag = d.tail[i] /\ end[i].meant = <<"tail", i>>
    <3> HIDE DEF end, t
    <3> SUFFICES ASSUME NEW i \in 1 .. t
                 PROVE  end[i].tag = d.tail[i] /\ end[i].meant = <<"tail", i>>
      OBVIOUS
    <3>1. end[i] = Named(d, d.tail[i], <<"tail", i>>)
      BY <2>1
    <3> QED BY <3>1, LineFields DEF Named
  <2>3. DOMAIN end = 1 .. t
    BY <2>1
  <2> HIDE DEF end, t
  <2>4. \A i \in 1 .. t : end[i] \in A
    BY <2>3
  <2> HIDE DEF A
  <2>5. end = [i \in 1 .. t |-> end[i]]
    BY <2>1
  <2>6. end \in Seq(A) /\ Len(end) = t
    BY <1>2, <2>4, <2>5
  <2> QED BY <2>2, <2>3, <2>6
<1>7. parts \in Seq(A)
  <2>1. PartLs(d) \subseteq A
    OBVIOUS
  <2> HIDE DEF A, parts
  <2> QED BY <1>3, <2>1
<1>8. \A i \in DOMAIN parts : parts[i].tag = "PART"
  <2>1. \A line \in PartLs(d) : line.tag = "PART"
    <3> SUFFICES ASSUME NEW line \in PartLs(d) PROVE line.tag = "PART"
      OBVIOUS
    <3>1. PICK i \in Nat, j \in Nat : line = Named(d, "PART", <<"part", i, j>>)
      BY DEF PartLs
    <3> QED BY <3>1, LineFields DEF Named
  <2> HIDE DEF parts
  <2> QED BY <1>3, <2>1
<1> DEFINE both == top \o parts
           raw == both \o end
<1> HIDE DEF A, parts, top, end, h, t
<1>9. /\ p \in Nat /\ DOMAIN parts = 1 .. p
      /\ both \in Seq(A) /\ Len(both) = h + p
      /\ \A i \in 1 .. h : both[i] = top[i]
      /\ \A i \in (h + 1) .. (h + p) : both[i] = parts[i - h]
  <2>1. /\ Len(parts) \in Nat /\ DOMAIN parts = 1 .. Len(parts)
        /\ top \o parts \in Seq(A) /\ Len(top \o parts) = Len(top) + Len(parts)
        /\ \A i \in 1 .. Len(top) : (top \o parts)[i] = top[i]
        /\ \A i \in (Len(top) + 1) .. (Len(top) + Len(parts)) :
             (top \o parts)[i] = parts[i - Len(top)]
    <3>1. top \in Seq(A) /\ parts \in Seq(A)
      BY <1>5, <1>7
    <3> HIDE DEF p, both, raw
    <3> QED BY <3>1, JoinIs
  <2> QED BY <1>5, <2>1
<1> HIDE DEF both, p
<1>10. /\ DOMAIN raw = 1 .. ((h + p) + t)
       /\ \A i \in 1 .. (h + p) : raw[i] = both[i]
       /\ \A i \in 1 .. t : raw[(h + p) + i] = end[i]
  <2>1. /\ DOMAIN (both \o end) = 1 .. (Len(both) + Len(end))
        /\ \A i \in 1 .. Len(both) : (both \o end)[i] = both[i]
        /\ \A i \in 1 .. Len(end) : (both \o end)[Len(both) + i] = end[i]
    <3>1. both \in Seq(A) /\ end \in Seq(A)
      BY <1>6, <1>9
    <3> HIDE DEF raw
    <3> QED BY <3>1, JoinIs
  <2> QED BY <1>6, <1>9, <2>1
<1> HIDE DEF raw
<1>11. \A i \in 1 .. h : raw[i].tag = d.header[i] /\ raw[i].meant = <<i>>
  <2>1. \A i \in 1 .. h : i \in 1 .. (h + p)
    BY <1>2, <1>9
  <2> QED BY <1>5, <1>9, <1>10, <2>1
<1>12. \A i \in (h + 1) .. (h + p) : raw[i].tag = "PART"
  <2>1. \A i \in (h + 1) .. (h + p) : i \in 1 .. (h + p) /\ i - h \in 1 .. p
    BY <1>2, <1>9
  <2> QED BY <1>8, <1>9, <1>10, <2>1
<1>13. \A i \in 1 .. t : raw[(h + p) + i].tag = d.tail[i] /\ raw[(h + p) + i].meant = <<"tail", i>>
  BY <1>6, <1>10
<1>14. RawLines(d) = raw
  BY <1>4 DEF raw, both
<1> QED BY <1>2, <1>9, <1>10, <1>11, <1>12, <1>13, <1>14 DEF h, t

(* What the tags taken out of the text hold.                                *)
LastKinds(d) ==
  {i \in DOMAIN d.header : \A j \in DOMAIN d.header : j > i => d.header[j] # d.header[i]}

HeadersOf(list, d) ==
  /\ \A k \in DOMAIN list : list[k].tag \in HeaderKinds
  /\ \A k, l \in DOMAIN list : list[k].tag = list[l].tag => k = l
  /\ \A k \in DOMAIN list : \E i \in LastKinds(d) : list[k].meant = <<i>>
  /\ \A i \in LastKinds(d) : \E k \in DOMAIN list : list[k].meant = <<i>>

TailKept(d) == {i \in DOMAIN d.tail : d.tail[i] # "PART"}

TailsOf(list, d) ==
  /\ \A k \in DOMAIN list : list[k].tag \in ToSet(TailTags)
  /\ \A k, l \in DOMAIN list : list[k].meant = list[l].meant => k = l
  /\ \A k \in DOMAIN list : \E i \in TailKept(d) : list[k].meant = <<"tail", i>>
  /\ \A i \in TailKept(d) : \E k \in DOMAIN list : list[k].meant = <<"tail", i>>

LEMMA HeaderIs ==
  ASSUME AllInv, NEW d \in Deliveries, d.track # "master"
  PROVE  HeadersOf(extract_ll_hls_tags(RawLines(d)).header, d)
<1> DEFINE raw == RawLines(d)
           hs == [q \in DOMAIN HeaderTags |-> LastOf(raw, HeaderTags[q])]
           list == FlattenSeq(hs)
           h == Len(d.header)
           t == Len(d.tail)
           T == TextLs(d)
<1>1. extract_ll_hls_tags(raw).header = list
  BY DEF extract_ll_hls_tags
<1>2. /\ DOMAIN HeaderTags = 1 .. 3
      /\ \A q \in 1 .. 3 : HeaderTags[q] \in HeaderKinds
      /\ \A kind \in HeaderKinds : \E q \in 1 .. 3 : HeaderTags[q] = kind
      /\ \A q, r \in 1 .. 3 : HeaderTags[q] = HeaderTags[r] => q = r
  <2>1. DOMAIN HeaderTags = 1 .. 3
    BY DEF HeaderTags
  <2>2. 1 .. 3 = {1, 2, 3}
    OBVIOUS
  <2>3. HeaderTags[1] = "SERVER-CONTROL" /\ HeaderTags[2] = "PART-INF" /\ HeaderTags[3] = "SKIP"
    BY DEF HeaderTags
  <2> QED BY <2>1, <2>2, <2>3 DEF HeaderKinds
<1>3. raw \in Seq(T)
  BY RawTyped
<1>4. hs \in Seq(Seq(T)) /\ hs # << >> /\ Len(hs) = 3
  <2>1. \A q \in 1 .. 3 : LastOf(raw, HeaderTags[q]) \in Seq(T)
    BY <1>3, LastOfTyped
  <2>2. hs = [q \in 1 .. 3 |-> LastOf(raw, HeaderTags[q])]
    BY <1>2
  <2> HIDE DEF hs, raw, T
  <2>3. hs \in Seq(Seq(T)) /\ Len(hs) = 3
    BY <2>1, <2>2
  <2>4. Len(hs) # 0 => hs # << >>
    OBVIOUS
  <2> QED BY <2>3, <2>4
<1>5. \A q \in 1 .. 3 : hs[q] = LastOf(raw, HeaderTags[q])
  BY <1>2
<1>6. PICK p \in Nat :
        /\ DOMAIN raw = 1 .. (h + p + t)
        /\ \A i \in 1 .. h : raw[i].tag = d.header[i] /\ raw[i].meant = <<i>>
        /\ \A i \in (h + 1) .. (h + p) : raw[i].tag = "PART"
        /\ \A i \in 1 .. t : raw[h + p + i].tag = d.tail[i]
  BY RawIs
<1>7. /\ h \in Nat /\ t \in Nat /\ DOMAIN d.header = 1 .. h /\ DOMAIN d.tail = 1 .. t
      /\ \A i \in 1 .. h : d.header[i] \in HeaderKinds
      /\ \A i \in 1 .. t : d.tail[i] \in TailKinds
  <2>1. d.header \in Seq(HeaderKinds) /\ d.tail \in Seq(TailKinds)
    BY DeliveriesAssumption
  <2> QED BY <2>1
<1>8. PICK r, c : Places(list, hs, 3, r, c)
  BY <1>4, FlattenPlaces
<1> HIDE DEF raw, hs, list, h, t, T
<1>9. ASSUME NEW i \in DOMAIN raw, raw[i].tag \in HeaderKinds
      PROVE  i \in 1 .. h
  <2> SUFFICES ASSUME i \notin 1 .. h PROVE FALSE
    OBVIOUS
  <2>1. CASE i <= h + p
    <3>1. i \in (h + 1) .. (h + p)
      BY <1>6, <1>7, <2>1
    <3>2. raw[i].tag = "PART"
      BY <1>6, <3>1
    <3> QED BY <1>9, <3>2 DEF HeaderKinds
  <2>2. CASE i > h + p
    <3> DEFINE j == i - (h + p)
    <3>1. j \in 1 .. t /\ h + p + j = i
      BY <1>6, <1>7, <2>2
    <3> HIDE DEF j
    <3>2. raw[i].tag \in TailKinds
      BY <1>6, <1>7, <3>1
    <3> QED BY <1>9, <3>2 DEF HeaderKinds, TailKinds
  <2> QED BY <1>6, <1>7, <2>1, <2>2
(* The list of a kind is empty, or the line of the last such tag.           *)
<1>10. ASSUME NEW q \in 1 .. 3
       PROVE  /\ ~HasTag(raw, HeaderTags[q]) => DOMAIN hs[q] = {}
              /\ HasTag(raw, HeaderTags[q]) =>
                   \E i \in LastKinds(d) :
                     /\ d.header[i] = HeaderTags[q] /\ DOMAIN hs[q] = {1}
                     /\ hs[q][1].tag = HeaderTags[q] /\ hs[q][1].meant = <<i>>
  <2>1. CASE ~HasTag(raw, HeaderTags[q])
    <3>1. hs[q] = << >>
      BY <1>3, <1>5, <2>1, LastOfIs
    <3> QED BY <2>1, <3>1
  <2>2. CASE HasTag(raw, HeaderTags[q])
    <3>1. PICK i \in DOMAIN raw :
            /\ raw[i].tag = HeaderTags[q] /\ LastOf(raw, HeaderTags[q]) = <<raw[i]>>
            /\ \A j \in DOMAIN raw : j > i => raw[j].tag # HeaderTags[q]
      BY <1>3, <2>2, LastOfIs
    <3>2. i \in 1 .. h
      BY <1>2, <1>9, <3>1
    <3>3. \A j \in 1 .. h : j \in DOMAIN raw /\ raw[j].tag = d.header[j]
      BY <1>6, <1>7
    <3>4. i \in LastKinds(d) /\ d.header[i] = HeaderTags[q]
      BY <1>6, <1>7, <3>1, <3>2, <3>3 DEF LastKinds
    <3>5. DOMAIN hs[q] = {1} /\ hs[q][1] = raw[i]
      BY <1>5, <3>1
    <3> QED BY <1>6, <2>2, <3>1, <3>2, <3>4, <3>5
  <2> QED BY <2>1, <2>2
<1>11. ASSUME NEW k \in DOMAIN list
       PROVE  /\ r[k] \in 1 .. 3 /\ c[k] = 1 /\ list[k].tag = HeaderTags[r[k]]
              /\ \E i \in LastKinds(d) : list[k].meant = <<i>>
  <2>1. r[k] \in 1 .. 3 /\ c[k] \in DOMAIN hs[r[k]] /\ list[k] = hs[r[k]][c[k]]
    BY <1>8 DEF Places
  <2>2. PICK i \in LastKinds(d) :
          /\ DOMAIN hs[r[k]] = {1}
          /\ hs[r[k]][1].tag = HeaderTags[r[k]] /\ hs[r[k]][1].meant = <<i>>
    BY <1>10, <2>1
  <2> QED BY <2>1, <2>2
<1>12. ASSUME NEW k \in DOMAIN list, NEW l \in DOMAIN list, list[k].tag = list[l].tag
       PROVE  k = l
  <2>1. r[k] = r[l] /\ c[k] = 1 /\ c[l] = 1 /\ r[k] \in 1 .. 3
    BY <1>2, <1>11, <1>12
  <2>2. ~(k < l) /\ ~(l < k)
    BY <1>8, <2>1 DEF Places
  <2>3. k \in Nat /\ l \in Nat
    <3>1. list \in Seq(T)
      BY <1>4, FlattenTyped DEF list
    <3> QED BY <3>1
  <2> QED BY <2>2, <2>3
<1>13. ASSUME NEW i \in LastKinds(d)
       PROVE  \E k \in DOMAIN list : list[k].meant = <<i>>
  <2>1. /\ i \in 1 .. h /\ d.header[i] \in HeaderKinds
        /\ \A j \in 1 .. h : j > i => d.header[j] # d.header[i]
    BY <1>7 DEF LastKinds
  <2>2. PICK q \in 1 .. 3 : HeaderTags[q] = d.header[i]
    BY <1>2, <2>1
  <2>3. i \in DOMAIN raw /\ raw[i].tag = HeaderTags[q]
    BY <1>6, <1>7, <2>1, <2>2
  <2>4. HasTag(raw, HeaderTags[q])
    BY <2>3 DEF HasTag
  <2>5. PICK j \in LastKinds(d) :
          d.header[j] = HeaderTags[q] /\ DOMAIN hs[q] = {1} /\ hs[q][1].meant = <<j>>
    BY <1>10, <2>4
  <2>6. /\ j \in 1 .. h
        /\ \A m \in 1 .. h : m > j => d.header[m] # d.header[j]
    BY <1>7 DEF LastKinds
  <2>7. j = i
    BY <2>1, <2>2, <2>5, <2>6
  <2>8. PICK k \in DOMAIN list : r[k] = q /\ c[k] = 1
    BY <1>8, <2>5 DEF Places
  <2>9. list[k] = hs[q][1]
    BY <1>8, <2>8 DEF Places
  <2> QED BY <2>5, <2>7, <2>8, <2>9
<1>14. \A k \in DOMAIN list : list[k].tag \in HeaderKinds
  BY <1>2, <1>11
<1>15. HeadersOf(list, d)
  BY <1>11, <1>12, <1>13, <1>14 DEF HeadersOf
<1> QED BY <1>1, <1>15 DEF raw

LEMMA TailIs ==
  ASSUME AllInv, NEW d \in Deliveries, d.track # "master"
  PROVE  TailsOf(extract_ll_hls_tags(RawLines(d)).tail, d)
<1> DEFINE raw == RawLines(d)
           ts == [q \in DOMAIN TailTags |-> OfTag(raw, TailTags[q])]
           list == FlattenSeq(ts)
           h == Len(d.header)
           t == Len(d.tail)
           T == TextLs(d)
           Kinds == ToSet(TailTags)
<1>1. extract_ll_hls_tags(raw).tail = list
  BY DEF extract_ll_hls_tags
<1>2. /\ DOMAIN TailTags = 1 .. 2 /\ Kinds = TailKinds \ {"PART"}
      /\ \A q \in 1 .. 2 : TailTags[q] \in Kinds
      /\ \A kind \in Kinds : \E q \in 1 .. 2 : TailTags[q] = kind
      /\ \A q, r \in 1 .. 2 : TailTags[q] = TailTags[r] => q = r
  <2>1. DOMAIN TailTags = 1 .. 2
    BY DEF TailTags
  <2>2. 1 .. 2 = {1, 2}
    OBVIOUS
  <2>3. TailTags[1] = "PRELOAD-HINT" /\ TailTags[2] = "RENDITION-REPORT"
    BY DEF TailTags
  <2>4. Kinds = {TailTags[1], TailTags[2]}
    BY <2>1, <2>2 DEF ToSet
  <2> HIDE DEF Kinds
  <2>5. Kinds = TailKinds \ {"PART"}
    BY <2>3, <2>4 DEF TailKinds
  <2> QED BY <2>1, <2>2, <2>3, <2>4, <2>5
<1>3. raw \in Seq(T)
  BY RawTyped
<1>4. ts \in Seq(Seq(T)) /\ ts # << >> /\ Len(ts) = 2
  <2>1. \A q \in 1 .. 2 : OfTag(raw, TailTags[q]) \in Seq(T)
    BY <1>3, OfTagTyped
  <2>2. ts = [q \in 1 .. 2 |-> OfTag(raw, TailTags[q])]
    BY <1>2
  <2> HIDE DEF ts, raw, T
  <2>3. ts \in Seq(Seq(T)) /\ Len(ts) = 2
    BY <2>1, <2>2
  <2>4. Len(ts) # 0 => ts # << >>
    OBVIOUS
  <2> QED BY <2>3, <2>4
<1>5. \A q \in 1 .. 2 : ts[q] = OfTag(raw, TailTags[q])
  BY <1>2
<1>6. PICK p \in Nat :
        /\ DOMAIN raw = 1 .. (h + p + t)
        /\ \A i \in 1 .. h : raw[i].tag = d.header[i]
        /\ \A i \in (h + 1) .. (h + p) : raw[i].tag = "PART"
        /\ \A i \in 1 .. t :
             raw[h + p + i].tag = d.tail[i] /\ raw[h + p + i].meant = <<"tail", i>>
  BY RawIs
<1>7. /\ h \in Nat /\ t \in Nat /\ DOMAIN d.header = 1 .. h /\ DOMAIN d.tail = 1 .. t
      /\ \A i \in 1 .. h : d.header[i] \in HeaderKinds
      /\ \A i \in 1 .. t : d.tail[i] \in TailKinds
  <2>1. d.header \in Seq(HeaderKinds) /\ d.tail \in Seq(TailKinds)
    BY DeliveriesAssumption
  <2> QED BY <2>1
<1>8. PICK r, c : Places(list, ts, 2, r, c)
  BY <1>4, FlattenPlaces
<1>9. list \in Seq(T)
  BY <1>4, FlattenTyped
<1> HIDE DEF raw, ts, list, h, t, T, Kinds
<1>10. ASSUME NEW i \in DOMAIN raw, raw[i].tag \in Kinds
       PROVE  \E j \in TailKept(d) :
                raw[i].meant = <<"tail", j>> /\ i = h + p + j
  <2>1. ~(i <= h)
    <3> SUFFICES ASSUME i <= h PROVE FALSE
      OBVIOUS
    <3>1. i \in 1 .. h
      BY <1>6, <1>7
    <3>2. raw[i].tag \in HeaderKinds
      BY <1>6, <1>7, <3>1
    <3> QED BY <1>2, <1>10, <3>2 DEF HeaderKinds, TailKinds
  <2>2. ~(i <= h + p)
    <3> SUFFICES ASSUME i <= h + p PROVE FALSE
      OBVIOUS
    <3>1. i \in (h + 1) .. (h + p)
      BY <1>6, <1>7, <2>1
    <3>2. raw[i].tag = "PART"
      BY <1>6, <3>1
    <3> QED BY <1>2, <1>10, <3>2
  <2> DEFINE j == i - (h + p)
  <2>3. j \in 1 .. t /\ h + p + j = i
    BY <1>6, <1>7, <2>2
  <2> HIDE DEF j
  <2>4. raw[i].tag = d.tail[j] /\ raw[i].meant = <<"tail", j>>
    BY <1>6, <2>3
  <2>5. d.tail[j] # "PART"
    BY <1>2, <1>10, <2>4
  <2>6. j \in TailKept(d)
    BY <1>7, <2>3, <2>5 DEF TailKept
  <2> QED BY <2>3, <2>4, <2>6
<1>11. ASSUME NEW q \in 1 .. 2
       PROVE  \E at :
                /\ \A m \in DOMAIN ts[q] :
                     /\ at[m] \in DOMAIN raw /\ raw[at[m]].tag = TailTags[q]
                     /\ ts[q][m] = raw[at[m]]
                /\ \A m, n \in DOMAIN ts[q] : m < n => at[m] < at[n]
                /\ \A i \in DOMAIN raw : raw[i].tag = TailTags[q] =>
                     \E m \in DOMAIN ts[q] : at[m] = i
  <2>1. ts[q] = OfTag(raw, TailTags[q])
    BY <1>5
  <2> QED BY <1>3, <2>1, OfTagIs
<1>12. ASSUME NEW k \in DOMAIN list
       PROVE  /\ r[k] \in 1 .. 2 /\ c[k] \in DOMAIN ts[r[k]] /\ list[k] = ts[r[k]][c[k]]
              /\ list[k].tag = TailTags[r[k]] /\ list[k].tag \in Kinds
              /\ \E j \in TailKept(d) : list[k].meant = <<"tail", j>> /\ list[k] = raw[h + p + j]
  <2>1. r[k] \in 1 .. 2 /\ c[k] \in DOMAIN ts[r[k]] /\ list[k] = ts[r[k]][c[k]]
    BY <1>8 DEF Places
  <2>2. PICK i \in DOMAIN raw : raw[i].tag = TailTags[r[k]] /\ ts[r[k]][c[k]] = raw[i]
    BY <1>11, <2>1
  <2>3. raw[i].tag \in Kinds
    BY <1>2, <2>1, <2>2
  <2>4. PICK j \in TailKept(d) : raw[i].meant = <<"tail", j>> /\ i = h + p + j
    BY <1>10, <2>3
  <2> QED BY <2>1, <2>2, <2>3, <2>4
<1>13. ASSUME NEW k \in DOMAIN list, NEW l \in DOMAIN list, list[k].meant = list[l].meant
       PROVE  k = l
  <2>1. PICK j \in TailKept(d) : list[k].meant = <<"tail", j>> /\ list[k] = raw[h + p + j]
    BY <1>12
  <2>2. PICK m \in TailKept(d) : list[l].meant = <<"tail", m>> /\ list[l] = raw[h + p + m]
    BY <1>12
  <2>3. j = m
    <3>1. \A x, y : <<"tail", x>> = <<"tail", y>> => x = y
      OBVIOUS
    <3>2. <<"tail", j>> = <<"tail", m>>
      BY <1>13, <2>1, <2>2
    <3> QED BY <3>1, <3>2
  <2>4. r[k] = r[l]
    BY <1>2, <1>12, <2>1, <2>2, <2>3
  <2> DEFINE q == r[k]
  <2>5. q \in 1 .. 2 /\ c[k] \in DOMAIN ts[q] /\ c[l] \in DOMAIN ts[q]
        /\ list[k] = ts[q][c[k]] /\ list[l] = ts[q][c[l]]
    BY <1>12, <2>4
  <2>6. PICK at :
          /\ \A x \in DOMAIN ts[q] :
               /\ at[x] \in DOMAIN raw /\ raw[at[x]].tag = TailTags[q]
               /\ ts[q][x] = raw[at[x]]
          /\ \A x, y \in DOMAIN ts[q] : x < y => at[x] < at[y]
    BY <1>11, <2>5
  <2> HIDE DEF q
  <2>7. ASSUME NEW x \in DOMAIN ts[q], ts[q][x].meant = <<"tail", j>>
        PROVE  at[x] = h + p + j
    <3>1. at[x] \in DOMAIN raw /\ raw[at[x]].tag \in Kinds /\ raw[at[x]].meant = <<"tail", j>>
      BY <1>2, <2>5, <2>6, <2>7
    <3>2. PICK y \in TailKept(d) : raw[at[x]].meant = <<"tail", y>> /\ at[x] = h + p + y
      BY <1>10, <3>1
    <3>3. y = j
      BY <3>1, <3>2
    <3> QED BY <3>2, <3>3
  <2>8. at[c[k]] = h + p + j /\ at[c[l]] = h + p + j
    BY <2>1, <2>2, <2>3, <2>5, <2>7
  <2>9. ts[q] \in Seq(T)
    BY <1>3, <1>5, <2>5, OfTagTyped
  <2>10. c[k] \in Nat /\ c[l] \in Nat
    BY <2>5, <2>9
  <2>11. h + p + j \in Int
    BY <1>6, <1>7 DEF TailKept
  <2>12. c[k] = c[l]
    <3>1. ~(c[k] < c[l])
      BY <2>5, <2>6, <2>8, <2>11
    <3>2. ~(c[l] < c[k])
      BY <2>5, <2>6, <2>8, <2>11
    <3> QED BY <2>10, <3>1, <3>2
  <2>13. ~(k < l) /\ ~(l < k)
    <3>1. r[k] \in Nat
      BY <1>12
    <3> QED BY <1>8, <2>4, <2>10, <2>12, <3>1 DEF Places
  <2>14. k \in Nat /\ l \in Nat
    BY <1>9
  <2> QED BY <2>13, <2>14
<1>14. ASSUME NEW j \in TailKept(d)
       PROVE  \E k \in DOMAIN list : list[k].meant = <<"tail", j>>
  <2>1. j \in 1 .. t /\ d.tail[j] \in Kinds
    BY <1>2, <1>7 DEF TailKept
  <2> DEFINE i == h + p + j
  <2>2. i \in DOMAIN raw /\ raw[i].tag = d.tail[j] /\ raw[i].meant = <<"tail", j>>
    BY <1>6, <1>7, <2>1
  <2> HIDE DEF i
  <2>3. PICK q \in 1 .. 2 : TailTags[q] = d.tail[j]
    BY <1>2, <2>1
  <2>4. PICK m \in DOMAIN ts[q] : ts[q][m] = raw[i]
    BY <1>11, <2>2, <2>3
  <2>5. PICK k \in DOMAIN list : r[k] = q /\ c[k] = m
    BY <1>8, <2>3, <2>4 DEF Places
  <2>6. list[k] = ts[q][m]
    BY <1>12, <2>5
  <2> QED BY <2>2, <2>4, <2>5, <2>6
<1>15. TailsOf(list, d)
  BY <1>12, <1>13, <1>14 DEF TailsOf, Kinds
<1> QED BY <1>1, <1>15 DEF raw

-----------------------------------------------------------------------------
(* PartsLead, of lists joined and of the lines of one segment.              *)
LEMMA PartsLeadJoin ==
  ASSUME NEW T, NEW a \in Seq(T), NEW b \in Seq(T), PartsLead(a), PartsLead(b)
  PROVE  PartsLead(a \o b)
<1> DEFINE c == a \o b
           m == Len(a)
           n == Len(b)
<1>1. /\ m \in Nat /\ n \in Nat /\ DOMAIN a = 1 .. m /\ DOMAIN b = 1 .. n
      /\ Len(c) = m + n /\ DOMAIN c = 1 .. (m + n)
      /\ \A i \in 1 .. m : c[i] = a[i]
      /\ \A i \in 1 .. n : c[m + i] = b[i]
  BY JoinIs
<1> HIDE DEF c, m, n
<1>2. ASSUME NEW i \in DOMAIN c, c[i].tag = "PART"
      PROVE  \E j \in i .. Len(c) :
               /\ c[j].tag = "SEGMENT" /\ c[j].meant = <<"seg", c[i].meant[2]>>
               /\ \A k \in i .. j - 1 : c[k].tag # "SEGMENT"
  <2>1. CASE i <= m
    <3>1. i \in DOMAIN a /\ c[i] = a[i] /\ i \in 1 .. m
      BY <1>1, <2>1
    <3>2. PICK j \in i .. Len(a) :
            /\ a[j].tag = "SEGMENT" /\ a[j].meant = <<"seg", a[i].meant[2]>>
            /\ \A k \in i .. j - 1 : a[k].tag # "SEGMENT"
      BY <1>2, <3>1 DEF PartsLead
    <3>3. j \in i .. m
      BY <3>2 DEF m
    <3>4. j \in 1 .. m /\ j \in i .. Len(c) /\ \A k \in i .. j - 1 : k \in 1 .. m
      BY <1>1, <3>1, <3>3
    <3> QED BY <1>1, <3>1, <3>2, <3>4
  <2>2. CASE i > m
    <3> DEFINE x == i - m
    <3>1. x \in 1 .. n /\ i = m + x
      BY <1>1, <2>2
    <3> HIDE DEF x
    <3>2. x \in DOMAIN b /\ c[i] = b[x]
      BY <1>1, <3>1
    <3>3. PICK y \in x .. Len(b) :
            /\ b[y].tag = "SEGMENT" /\ b[y].meant = <<"seg", b[x].meant[2]>>
            /\ \A k \in x .. y - 1 : b[k].tag # "SEGMENT"
      BY <1>2, <3>2 DEF PartsLead
    <3>4. y \in x .. n
      BY <3>3 DEF n
    <3> DEFINE j == m + y
    <3>5. y \in 1 .. n /\ j \in i .. Len(c)
      BY <1>1, <3>1, <3>4
    <3>6. \A k \in i .. j - 1 : k - m \in x .. y - 1 /\ k - m \in 1 .. n /\ m + (k - m) = k
      BY <1>1, <3>1, <3>4
    <3>7. c[j] = b[y]
      BY <1>1, <3>5
    <3> HIDE DEF j
    <3>8. \A k \in i .. j - 1 : c[k].tag # "SEGMENT"
      <4> SUFFICES ASSUME NEW k \in i .. j - 1 PROVE c[k].tag # "SEGMENT"
        OBVIOUS
      <4>1. k - m \in x .. y - 1 /\ k - m \in 1 .. n /\ m + (k - m) = k
        BY <3>6
      <4>2. c[m + (k - m)] = b[k - m]
        BY <1>1, <4>1
      <4> QED BY <3>3, <4>1, <4>2
    <3> QED BY <3>2, <3>3, <3>5, <3>7, <3>8
  <2> QED BY <1>1, <2>1, <2>2
<1>3. PartsLead(c)
  BY <1>2 DEF PartsLead
<1> QED BY <1>3 DEF c

LEMMA NothingLeads == PartsLead(<< >>)
  BY DEF PartsLead

LEMMA PartsLeadFlatten ==
  ASSUME NEW T, NEW ss \in Seq(Seq(T)), \A i \in DOMAIN ss : PartsLead(ss[i])
  PROVE  PartsLead(FlattenSeq(ss))
<1>1. CASE ss = << >>
  BY <1>1, NothingLeads DEF FlattenSeq
<1>2. CASE ss # << >>
  <2> DEFINE n == Len(ss)
  <2>1. n \in Nat /\ n \in 1 .. n /\ DOMAIN ss = 1 .. n /\ \A i \in 1 .. n : ss[i] \in Seq(T)
    BY <1>2
  <2>2. PICK f \in [1 .. n -> Seq(T)] : Joins(f, ss, n) /\ FlattenSeq(ss) = f[n]
    BY <1>2, FlattenIsJoin
  <2> HIDE DEF n
  <2>3. \A i \in 1 .. n : f[i] = IF i = 1 THEN ss[i] ELSE f[i - 1] \o ss[i]
    BY <2>2 DEF Joins
  <2> DEFINE B == {i \in 1 .. n : ~PartsLead(f[i])}
  <2>4. B = {}
    <3> SUFFICES ASSUME B # {} PROVE FALSE
      OBVIOUS
    <3>1. B \subseteq Nat
      BY <2>1
    <3>2. PICK i \in B : \A j \in B : i <= j
      BY <3>1, Least
    <3>3. i \in 1 .. n /\ ~PartsLead(f[i])
      OBVIOUS
    <3>4. i # 1
      BY <2>1, <2>3, <3>3
    <3>5. i \in Nat /\ i - 1 \in 1 .. n
      BY <2>1, <3>3, <3>4
    <3>6. PartsLead(f[i - 1])
      BY <3>2, <3>5
    <3>7. f[i] = f[i - 1] \o ss[i] /\ f[i - 1] \in Seq(T) /\ ss[i] \in Seq(T)
      BY <2>1, <2>3, <3>3, <3>4, <3>5
    <3>8. PartsLead(f[i])
      BY <2>1, <3>3, <3>6, <3>7, PartsLeadJoin
    <3> QED BY <3>3, <3>8
  <2> QED BY <2>1, <2>2, <2>4
<1> QED BY <1>1, <1>2

LEMMA BlockLeads ==
  ASSUME NEW T, NEW text \in Seq(T), text # << >>, NEW i,
         text[Len(text)].tag = "SEGMENT", text[Len(text)].meant = <<"seg", i>>,
         \A k \in 1 .. (Len(text) - 1) :
           text[k].tag # "SEGMENT" /\ (text[k].tag = "PART" => text[k].meant[2] = i)
  PROVE  PartsLead(text)
<1>1. Len(text) \in Nat \ {0} /\ DOMAIN text = 1 .. Len(text)
  OBVIOUS
<1>2. ASSUME NEW k \in DOMAIN text, text[k].tag = "PART"
      PROVE  \E j \in k .. Len(text) :
               /\ text[j].tag = "SEGMENT" /\ text[j].meant = <<"seg", text[k].meant[2]>>
               /\ \A m \in k .. j - 1 : text[m].tag # "SEGMENT"
  <2>1. k # Len(text)
    BY <1>2
  <2>2. k \in 1 .. (Len(text) - 1) /\ Len(text) \in k .. Len(text)
    BY <1>1, <2>1
  <2>3. text[k].meant[2] = i
    BY <1>2, <2>2
  <2>4. \A m \in k .. Len(text) - 1 : m \in 1 .. (Len(text) - 1)
    BY <1>1, <2>2
  <2> QED BY <2>2, <2>3, <2>4
<1> QED BY <1>2 DEF PartsLead

(* The lines of one segment of the origin's, with or without a marker.      *)
LEMMA SegmentBlockLeads ==
  ASSUME NEW d, NEW S, NEW list \in Seq(S), NEW i \in Nat,
         NEW M, NEW middle \in Seq(M),
         \A k \in DOMAIN middle : middle[k].tag # "SEGMENT" /\ middle[k].tag # "PART"
  PROVE  /\ PartsLead(PartLines(d, i, list) \o middle \o <<ContentLine(d, i)>>)
         /\ PartsLead(Append(PartLines(d, i, list), ContentLine(d, i)))
<1> DEFINE parts == PartLines(d, i, list)
           last == ContentLine(d, i)
           T == PartLs(d) \cup M \cup {last}
           p == Len(parts)
           m == Len(middle)
<1>1. last.tag = "SEGMENT" /\ last.meant = <<"seg", i>>
  BY LineFields DEF ContentLine
<1>2. parts \in Seq(PartLs(d)) /\ p \in Nat /\ m \in Nat
      /\ \A j \in 1 .. p : parts[j].tag = "PART" /\ parts[j].meant[2] = i
  <2>1. parts \in Seq(PartLs(d)) /\ \A j \in DOMAIN parts : parts[j].tag = "PART"
    BY PartLinesTyped
  <2>2. NotCues(list) \in Seq({"other"})
    BY NotCuesTyped
  <2>3. parts = [j \in DOMAIN NotCues(list) |-> Named(d, "PART", <<"part", i, j>>)]
    BY DEF PartLines
  <2> HIDE DEF parts
  <2>4. p \in Nat /\ m \in Nat /\ DOMAIN parts = 1 .. p
    BY <2>1
  <2>5. ASSUME NEW j \in DOMAIN parts PROVE parts[j].meant[2] = i
    <3>1. parts[j] = Named(d, "PART", <<"part", i, j>>)
      BY <2>3
    <3>2. parts[j].meant = <<"part", i, j>>
      BY <3>1, LineFields DEF Named
    <3> QED BY <3>2
  <2> QED BY <2>1, <2>4, <2>5
<1> HIDE DEF parts, last
<1>3. parts \in Seq(T) /\ middle \in Seq(T) /\ <<last>> \in Seq(T) /\ last \in T
  <2>1. PartLs(d) \subseteq T /\ M \subseteq T /\ last \in T
    OBVIOUS
  <2> HIDE DEF T, p, m
  <2> QED BY <1>2, <2>1
<1> HIDE DEF T
<1>4. PartsLead(Append(parts, last))
  <2> DEFINE text == Append(parts, last)
  <2>1. /\ text \in Seq(T) /\ Len(text) = p + 1 /\ text[p + 1] = last
        /\ \A k \in 1 .. p : text[k] = parts[k]
    BY <1>3
  <2>2. text # << >> /\ Len(text) - 1 = p /\ text[Len(text)] = last
    BY <1>2, <2>1
  <2> HIDE DEF text, p
  <2>3. \A k \in 1 .. (Len(text) - 1) :
          text[k].tag # "SEGMENT" /\ (text[k].tag = "PART" => text[k].meant[2] = i)
    BY <1>2, <2>1, <2>2
  <2>4. PartsLead(text)
    BY <1>1, <2>1, <2>2, <2>3, BlockLeads
  <2> QED BY <2>4 DEF text
<1>5. PartsLead((parts \o middle) \o <<last>>)
  <2> DEFINE head == parts \o middle
             text == head \o <<last>>
  <2>1. /\ head \in Seq(T) /\ Len(head) = p + m
        /\ \A k \in 1 .. p : head[k] = parts[k]
        /\ \A k \in (p + 1) .. (p + m) : head[k] = middle[k - p]
    BY <1>3, JoinIs
  <2> HIDE DEF head
  <2>2. /\ text \in Seq(T) /\ Len(text) = (p + m) + 1
        /\ \A k \in 1 .. (p + m) : text[k] = head[k]
        /\ text[(p + m) + 1] = last
    <3>1. Len(<<last>>) = 1 /\ <<last>>[1] = last /\ 1 \in 1 .. 1
      OBVIOUS
    <3>2. /\ head \o <<last>> \in Seq(T) /\ Len(head \o <<last>>) = Len(head) + Len(<<last>>)
          /\ \A k \in 1 .. Len(head) : (head \o <<last>>)[k] = head[k]
          /\ \A k \in 1 .. Len(<<last>>) : (head \o <<last>>)[Len(head) + k] = <<last>>[k]
      <4> DEFINE end == <<last>>
      <4>1. end \in Seq(T) /\ head \in Seq(T)
        BY <1>3, <2>1
      <4> HIDE DEF end, p, m
      <4>2. /\ head \o end \in Seq(T) /\ Len(head \o end) = Len(head) + Len(end)
            /\ \A k \in 1 .. Len(head) : (head \o end)[k] = head[k]
            /\ \A k \in 1 .. Len(end) : (head \o end)[Len(head) + k] = end[k]
        BY <4>1, JoinIs
      <4> QED BY <4>2 DEF end
    <3> QED BY <2>1, <3>1, <3>2
  <2> HIDE DEF text, p, m
  <2>3. \A k \in 1 .. (p + m) :
          text[k].tag # "SEGMENT" /\ (text[k].tag = "PART" => text[k].meant[2] = i)
    <3> SUFFICES ASSUME NEW k \in 1 .. (p + m)
                 PROVE  text[k].tag # "SEGMENT" /\ (text[k].tag = "PART" => text[k].meant[2] = i)
      OBVIOUS
    <3>1. text[k] = head[k]
      BY <2>2
    <3>2. CASE k <= p
      <4>1. k \in 1 .. p
        BY <1>2, <3>2
      <4> QED BY <1>2, <2>1, <3>1, <4>1
    <3>3. CASE k > p
      <4>1. k \in (p + 1) .. (p + m) /\ k - p \in 1 .. m
        BY <1>2, <3>3
      <4>2. k - p \in DOMAIN middle
        BY <4>1 DEF m
      <4> QED BY <2>1, <3>1, <4>1, <4>2
    <3> QED BY <1>2, <3>2, <3>3
  <2>4. text # << >> /\ Len(text) - 1 = p + m /\ Len(text) = (p + m) + 1
    BY <1>2, <2>2
  <2>5. PartsLead(text)
    BY <1>1, <2>2, <2>3, <2>4, BlockLeads
  <2> QED BY <2>5 DEF text, head
<1> QED BY <1>4, <1>5 DEF parts, last

(* In every kind of playlist a part stands in front of its own segment.     *)
LEMMA SegmentsLead ==
  ASSUME AllInv, LinesInv, NEW d
  PROVE  PartsLead(Segments(d))
<1> DEFINE T == SegmentLs(d) \cup PartLs(d)
<1>0. /\ tags \in Seq(TagLists) /\ Segs \in Nat /\ DOMAIN tags = 1 .. Segs
      /\ out \in Seq(OutSegment)
  BY DEF AllInv, Inv, TypeOK, Segs
<1>1. ASSUME NEW ss, NEW n \in Nat, DOMAIN ss = 1 .. n, ss = [k \in DOMAIN ss |-> ss[k]],
             \A k \in 1 .. n : ss[k] \in Seq(T) /\ PartsLead(ss[k])
      PROVE  PartsLead(FlattenSeq(ss))
  <2>1. ss \in Seq(Seq(T))
    BY <1>1
  <2> QED BY <1>1, <2>1, PartsLeadFlatten
<1>2. ASSUME NEW i \in Nat, NEW list \in Kept
      PROVE  /\ Append(PartLines(d, i, list), ContentLine(d, i)) \in Seq(T)
             /\ PartsLead(Append(PartLines(d, i, list), ContentLine(d, i)))
  <2>1. list \in Seq({"out", "in", "cont", "other"})
    BY KeptTyped
  <2>2. PartLines(d, i, list) \in Seq(PartLs(d))
    BY <2>1, PartLinesTyped
  <2>3. PartLines(d, i, list) \in Seq(T) /\ ContentLine(d, i) \in T
    <3>1. ContentLine(d, i) \in T
      BY DEF SegmentLs
    <3>2. PartLs(d) \subseteq T
      OBVIOUS
    <3> HIDE DEF T
    <3> QED BY <2>2, <3>1, <3>2
  <2>4. << >> \in Seq(T) /\ DOMAIN << >> = {}
    OBVIOUS
  <2>5. PartsLead(Append(PartLines(d, i, list), ContentLine(d, i)))
    BY <2>1, <2>4, SegmentBlockLeads
  <2> HIDE DEF T
  <2> QED BY <2>3, <2>5
<1>3. ASSUME phase = "done" PROVE PartsLead(Stitched(d))
  <2> DEFINE ss == [k \in DOMAIN out |->
               IF out[k].ad THEN <<AdLine(out[k])>>
               ELSE Append(PartLines(d, out[k].seg, TagsOf(out[k].seg)), ContentLine(d, out[k].seg))]
  <2>1. ASSUME NEW k \in DOMAIN out PROVE ss[k] \in Seq(T) /\ PartsLead(ss[k])
    <3>1. CASE out[k].ad
      <4>1. out[k].brk \in Nat /\ out[k].seg \in Nat
        <5>1. out[k] \in OutSegment
          BY <1>0
        <5>2. \A s \in OutSegment : s.brk \in Nat /\ s.seg \in Nat
          BY DEF OutSegment
        <5> QED BY <5>1, <5>2
      <4>2. AdLine(out[k]) \in T /\ AdLine(out[k]).tag = "SEGMENT"
        <5>1. AdLine(out[k]) \in SegmentLs(d)
          BY <4>1 DEF AdLine, SegmentLs
        <5>2. AdLine(out[k]).tag = "SEGMENT"
          BY LineFields DEF AdLine
        <5> QED BY <5>1, <5>2
      <4>3. ss[k] = <<AdLine(out[k])>>
        BY <3>1
      <4> DEFINE line == AdLine(out[k])
      <4> HIDE DEF ss, T, line
      <4>4. \A i \in DOMAIN <<line>> : <<line>>[i] = line
        OBVIOUS
      <4>5. line.tag = "SEGMENT" /\ line \in T /\ ss[k] = <<line>>
        BY <4>2, <4>3 DEF line
      <4>6. PartsLead(<<line>>)
        BY <4>4, <4>5 DEF PartsLead
      <4> QED BY <4>5, <4>6
    <3>2. CASE ~out[k].ad
      <4> DEFINE s == out[k].seg
      <4>1. s \in Nat /\ s + 1 \in 1 .. Segs
        BY <1>0, <3>2 DEF LinesInv
      <4>2. TagsOf(s) \in Kept
        BY <4>1 DEF TagsOf, Kept
      <4>3. ss[k] = Append(PartLines(d, s, TagsOf(s)), ContentLine(d, s))
        BY <3>2
      <4> HIDE DEF ss, s, T
      <4> QED BY <1>2, <4>1, <4>2, <4>3
    <3> QED BY <3>1, <3>2
  <2>2. Len(out) \in Nat /\ DOMAIN out = 1 .. Len(out)
    BY <1>0
  <2>3. DOMAIN ss = DOMAIN out /\ ss = [k \in DOMAIN ss |-> ss[k]]
    OBVIOUS
  <2>4. Stitched(d) = FlattenSeq(ss)
    BY DEF Stitched
  <2> HIDE DEF ss, T
  <2> QED BY <1>1, <2>1, <2>2, <2>3, <2>4
<1>4. ASSUME phase = "marked" PROVE PartsLead(Marked(d))
  <2> DEFINE ss == [i \in DOMAIN marked |->
               PartLines(d, i - 1, marked[i].tags)
                 \o MarkerLine(d, marked[i].brk) \o <<ContentLine(d, i - 1)>>]
  <2>1. /\ DOMAIN marked = 1 .. Segs
        /\ \A i \in 1 .. Segs : marked[i].brk \in {None} \cup Nat
    <3>1. /\ DOMAIN marked = 1 .. Segs
          /\ \A i \in 1 .. Segs : marked[i].brk \in {None} \cup 0 .. (Len(breaks) - 1)
      BY <1>4 DEF AllInv, Inv, TypeOK, MarksOK
    <3>2. \A n : n \in 0 .. (Len(breaks) - 1) => n \in Nat
      OBVIOUS
    <3> QED BY <3>1, <3>2
  <2>2. \A i \in 1 .. Segs : marked[i].tags \in Kept
    <3>1. \A i \in 1 .. Segs : marked[i].tags = tags[i] \/ marked[i].tags = NotCues(tags[i])
      BY <1>4 DEF LinesInv, AllInv, MarkersSoFar
    <3> QED BY <3>1 DEF Kept
  <2>3. ASSUME NEW i \in DOMAIN marked PROVE ss[i] \in Seq(T) /\ PartsLead(ss[i])
    <3> DEFINE parts == PartLines(d, i - 1, marked[i].tags)
               marker == MarkerLine(d, marked[i].brk)
    <3>1. i \in 1 .. Segs /\ i - 1 \in Nat
      BY <1>0, <2>1
    <3>2. ss[i] = parts \o marker \o <<ContentLine(d, i - 1)>>
      OBVIOUS
    <3>3. marked[i].tags \in Seq({"out", "in", "cont", "other"})
      BY <2>2, <3>1, KeptTyped
    <3>4. marker \in Seq(T) /\ \A k \in DOMAIN marker : marker[k].tag = "DATERANGE"
      <4>1. CASE marked[i].brk = None
        <5>1. marker = << >>
          BY <4>1 DEF MarkerLine
        <5> HIDE DEF marker
        <5> QED BY <5>1
      <4>2. CASE marked[i].brk # None
        <5> DEFINE line == Line("DATERANGE", AssetUri(d.length), <<"break", marked[i].brk>>)
        <5>1. marked[i].brk \in Nat
          BY <2>1, <3>1, <4>2
        <5>2. marker = <<line>>
          BY <4>2 DEF MarkerLine
        <5>3. line \in T /\ line.tag = "DATERANGE"
          <6>1. line \in SegmentLs(d)
            BY <5>1 DEF SegmentLs
          <6>2. line.tag = "DATERANGE"
            BY LineFields
          <6> HIDE DEF line
          <6> QED BY <6>1, <6>2
        <5> HIDE DEF marker, line, T
        <5> QED BY <5>2, <5>3
      <4> QED BY <4>1, <4>2
    <3>5. PartsLead(parts \o marker \o <<ContentLine(d, i - 1)>>)
      <4>1. \A k \in DOMAIN marker : marker[k].tag # "SEGMENT" /\ marker[k].tag # "PART"
        BY <3>4
      <4> HIDE DEF marker, T
      <4> QED BY <3>1, <3>3, <3>4, <4>1, SegmentBlockLeads
    <3>6. parts \in Seq(T) /\ <<ContentLine(d, i - 1)>> \in Seq(T)
      <4>1. parts \in Seq(PartLs(d))
        BY <3>1, <3>3, PartLinesTyped
      <4>2. ContentLine(d, i - 1) \in T
        BY <3>1 DEF SegmentLs
      <4>3. PartLs(d) \subseteq T
        OBVIOUS
      <4> HIDE DEF T, parts
      <4> QED BY <4>1, <4>2, <4>3
    <3> HIDE DEF parts, marker, ss, T
    <3>7. (parts \o marker) \o <<ContentLine(d, i - 1)>> \in Seq(T)
      BY <3>4, <3>6, JoinTyped
    <3> QED BY <3>2, <3>5, <3>7
  <2>4. DOMAIN ss = DOMAIN marked /\ ss = [k \in DOMAIN ss |-> ss[k]]
    OBVIOUS
  <2>5. Marked(d) = FlattenSeq(ss)
    BY DEF Marked
  <2> HIDE DEF ss, T
  <2> QED BY <1>0, <1>1, <2>1, <2>3, <2>4, <2>5
<1>5. PartsLead(Unstitched(d))
  <2> DEFINE ss == [i \in DOMAIN tags |->
               Append(PartLines(d, i - 1, tags[i]), ContentLine(d, i - 1))]
  <2>1. ASSUME NEW i \in DOMAIN tags PROVE ss[i] \in Seq(T) /\ PartsLead(ss[i])
    <3>1. i - 1 \in Nat /\ tags[i] \in Kept
      BY <1>0 DEF Kept
    <3>2. ss[i] = Append(PartLines(d, i - 1, tags[i]), ContentLine(d, i - 1))
      OBVIOUS
    <3> HIDE DEF ss, T
    <3> QED BY <1>2, <3>1, <3>2
  <2>2. DOMAIN ss = DOMAIN tags /\ ss = [k \in DOMAIN ss |-> ss[k]]
    OBVIOUS
  <2>3. Unstitched(d) = FlattenSeq(ss)
    BY DEF Unstitched
  <2> HIDE DEF ss, T
  <2> QED BY <1>0, <1>1, <2>1, <2>2, <2>3
<1> QED BY <1>3, <1>4, <1>5 DEF Segments

-----------------------------------------------------------------------------
(* The text: two lines, the header's tags, the segments, the tail.          *)
Same(x, y) == x.tag = y.tag /\ x.meant = y.meant

Regions(text, header, segs, tail) ==
  /\ Len(text) = 2 + Len(header) + Len(segs) + Len(tail)
  /\ DOMAIN text = 1 .. (2 + Len(header) + Len(segs) + Len(tail))
  /\ \A i \in 1 .. 2 : text[i].tag \in {"EXTM3U", "TARGETDURATION"}
  /\ \A i \in 1 .. Len(header) : Same(text[2 + i], header[i])
  /\ \A i \in 1 .. Len(segs) : Same(text[2 + Len(header) + i], segs[i])
  /\ \A i \in 1 .. Len(tail) : Same(text[2 + Len(header) + Len(segs) + i], tail[i])

LEMMA LineKinds ==
  ASSUME NEW d, NEW line \in TextLs(d)
  PROVE  /\ \E kind, uri, meant : line = Line(kind, uri, meant)
         /\ line \in SegmentLs(d) \cup PartLs(d) =>
              line.tag \in {"SEGMENT", "DATERANGE", "PART"}
<1> DEFINE Two   == {Line(kind, NoUri, << >>) : kind \in {"EXTM3U", "TARGETDURATION"}}
           Heads == {Line(kind, NoUri, <<i>>) : kind \in HeaderKinds, i \in Nat}
           Own   == {ContentLine(d, i) : i \in Nat}
           Ads   == {Line("SEGMENT", AdUri(b, s), <<"ad", b, s>>) : b \in Nat, s \in Nat}
           Marks == {Line("DATERANGE", AssetUri(d.length), <<"break", b>>) : b \in Nat}
<1>1. ASSUME line \in Two
      PROVE  \E kind, uri, meant : line = Line(kind, uri, meant)
  BY <1>1
<1>2. ASSUME line \in Heads
      PROVE  \E kind, uri, meant : line = Line(kind, uri, meant)
  <2>1. PICK kind \in HeaderKinds, i \in Nat : line = Line(kind, NoUri, <<i>>)
    BY <1>2
  <2> QED BY <2>1
<1>3. ASSUME NEW kind, NEW file, line = Named(d, kind, file)
      PROVE  (\E k, uri, meant : line = Line(k, uri, meant)) /\ line.tag = kind
  BY <1>3, LineFields DEF Named
<1>4. ASSUME line \in PartLs(d)
      PROVE  (\E kind, uri, meant : line = Line(kind, uri, meant)) /\ line.tag = "PART"
  <2>1. PICK j \in Nat, k \in Nat : line = Named(d, "PART", <<"part", j, k>>)
    BY <1>4 DEF PartLs
  <2> QED BY <1>3, <2>1
<1>5. ASSUME line \in TailLs(d)
      PROVE  \E kind, uri, meant : line = Line(kind, uri, meant)
  <2>1. PICK kind \in TailKinds : line \in {Named(d, kind, <<"tail", k>>) : k \in Nat}
    BY <1>5 DEF TailLs
  <2>2. PICK k \in Nat : line = Named(d, kind, <<"tail", k>>)
    BY <2>1
  <2> QED BY <1>3, <2>2
<1>6. ASSUME line \in SegmentLs(d)
      PROVE  /\ \E kind, uri, meant : line = Line(kind, uri, meant)
             /\ line.tag \in {"SEGMENT", "DATERANGE"}
  <2>1. \E kind \in {"SEGMENT", "DATERANGE"} : \E uri, meant : line = Line(kind, uri, meant)
    <3>1. CASE line \in Own
      <4>1. PICK i \in Nat : line = ContentLine(d, i)
        BY <3>1
      <4> QED BY <4>1 DEF ContentLine
    <3>2. CASE line \in Ads
      <4>1. PICK b \in Nat, s \in Nat : line = Line("SEGMENT", AdUri(b, s), <<"ad", b, s>>)
        BY <3>2
      <4> QED BY <4>1
    <3>3. CASE line \in Marks
      <4>1. PICK b \in Nat : line = Line("DATERANGE", AssetUri(d.length), <<"break", b>>)
        BY <3>3
      <4> QED BY <4>1
    <3>4. line \in Own \/ line \in Ads \/ line \in Marks
      BY <1>6 DEF SegmentLs
    <3> HIDE DEF Own, Ads, Marks
    <3> QED BY <3>1, <3>2, <3>3, <3>4
  <2>2. PICK kind \in {"SEGMENT", "DATERANGE"} : \E uri, meant : line = Line(kind, uri, meant)
    BY <2>1
  <2>3. PICK uri, meant : line = Line(kind, uri, meant)
    BY <2>2
  <2> QED BY <2>2, <2>3, LineFields
<1>7. line \in HeaderLs => line \in Two \/ line \in Heads
  BY DEF HeaderLs
<1> HIDE DEF Two, Heads
<1>8. line \in HeaderLs \/ line \in SegmentLs(d) \/ line \in PartLs(d) \/ line \in TailLs(d)
  BY DEF TextLs
<1>9. \E kind, uri, meant : line = Line(kind, uri, meant)
  BY <1>1, <1>2, <1>4, <1>5, <1>6, <1>7, <1>8
<1> QED BY <1>4, <1>6, <1>9

Written(segs) == <<Plain("EXTM3U"), Plain("TARGETDURATION")>> \o segs

LEMMA WrittenIs ==
  ASSUME NEW T, HeaderLs \subseteq T, NEW segs \in Seq(T)
  PROVE  /\ serialize_playlist(segs) = Written(segs) /\ Written(segs) \in Seq(T)
         /\ Len(segs) \in Nat /\ Len(Written(segs)) = 2 + Len(segs)
         /\ Written(segs)[1].tag = "EXTM3U" /\ Written(segs)[2].tag = "TARGETDURATION"
         /\ \A i \in 1 .. Len(segs) : Written(segs)[2 + i] = segs[i]
<1> DEFINE e == Plain("EXTM3U")
           td == Plain("TARGETDURATION")
           two == <<e, td>>
<1>1. e \in T /\ td \in T /\ e.tag = "EXTM3U" /\ td.tag = "TARGETDURATION"
  <2>1. e \in HeaderLs /\ td \in HeaderLs
    BY DEF Plain, HeaderLs
  <2>2. e.tag = "EXTM3U" /\ td.tag = "TARGETDURATION"
    BY LineFields DEF Plain
  <2> HIDE DEF e, td
  <2> QED BY <2>1, <2>2
<1> HIDE DEF e, td
<1>2. two \in Seq(T) /\ Len(two) = 2 /\ two[1] = e /\ two[2] = td
  BY <1>1
<1> HIDE DEF two
<1>3. /\ two \o segs \in Seq(T) /\ Len(segs) \in Nat /\ Len(two \o segs) = Len(two) + Len(segs)
      /\ \A i \in 1 .. Len(two) : (two \o segs)[i] = two[i]
      /\ \A i \in 1 .. Len(segs) : (two \o segs)[Len(two) + i] = segs[i]
  <2>1. two \in Seq(T)
    BY <1>2
  <2> QED BY <2>1, JoinIs
<1>4. Written(segs) = two \o segs /\ serialize_playlist(segs) = Written(segs)
  BY DEF Written, serialize_playlist, two, e, td
<1>5. 1 \in 1 .. 2 /\ 2 \in 1 .. 2
  OBVIOUS
<1> QED BY <1>1, <1>2, <1>3, <1>4, <1>5

(* The tags go in after EXT-X-TARGETDURATION.                               *)
LEMMA InsertionLine ==
  ASSUME NEW T, NEW lines \in Seq(T), Len(lines) >= 2,
         lines[1].tag = "EXTM3U", lines[2].tag = "TARGETDURATION"
  PROVE  find_insertion_line(lines) = 2
<1> DEFINE I == {i \in 1 .. Len(lines) : lines[i].tag = "TARGETDURATION"}
<1>1. 2 \in I /\ 1 \notin I /\ I \subseteq Nat \ {0}
  OBVIOUS
<1>2. HasTag(lines, "TARGETDURATION")
  BY <1>1 DEF HasTag
<1>3. find_insertion_line(lines) = IF I # {} THEN Min(I) ELSE 0
  BY <1>2 DEF find_insertion_line, SelectInSeq
<1> HIDE DEF I
<1>4. \A i \in I : 2 <= i
  BY <1>1
<1>5. Min(I) = 2
  <2>1. Min(I) = CHOOSE x \in I : \A y \in I : x <= y
    BY DEF Min
  <2>2. \E x \in I : \A y \in I : x <= y
    BY <1>1, <1>4
  <2>3. Min(I) \in I /\ \A y \in I : Min(I) <= y
    BY <2>1, <2>2
  <2>4. Min(I) <= 2 /\ 2 <= Min(I) /\ Min(I) \in Nat
    BY <1>1, <1>4, <2>3
  <2> QED BY <2>4
<1> QED BY <1>1, <1>3, <1>5

LEMMA Injected ==
  ASSUME NEW T, HeaderLs \subseteq T, NEW segs \in Seq(T),
         NEW ll, ll.header \in Seq(T), ll.tail \in Seq(T)
  PROVE  Regions(inject_ll_hls_tags(Written(segs), ll), ll.header, segs, ll.tail)
<1> DEFINE lines == Written(segs)
           n == Len(segs)
           a == SubSeq(lines, 1, 2)
           b == SubSeq(lines, 3, Len(lines))
           hd == ll.header
           tl == ll.tail
           text == inject_ll_hls_tags(lines, ll)
<1>1. /\ lines \in Seq(T) /\ n \in Nat /\ Len(lines) = 2 + n
      /\ lines[1].tag = "EXTM3U" /\ lines[2].tag = "TARGETDURATION"
      /\ \A i \in 1 .. n : lines[2 + i] = segs[i]
  BY WrittenIs
<1> HIDE DEF lines, n, hd, tl
<1>2. find_insertion_line(lines) = 2
  BY <1>1, InsertionLine
<1>3. text = ((a \o hd) \o b) \o tl
  BY <1>2 DEF inject_ll_hls_tags, hd, tl
<1>4. a \in Seq(T) /\ Len(a) = 2 /\ \A i \in 1 .. 2 : a[i] = lines[i]
  BY <1>1
<1>5. b \in Seq(T) /\ Len(b) = n /\ \A i \in 1 .. n : b[i] = lines[2 + i]
  BY <1>1
<1>6. hd \in Seq(T) /\ tl \in Seq(T)
  BY DEF hd, tl
<1> HIDE DEF a, b, text
<1> DEFINE c == a \o hd
<1>7. /\ c \in Seq(T) /\ Len(hd) \in Nat /\ Len(c) = 2 + Len(hd)
      /\ \A i \in 1 .. 2 : c[i] = a[i]
      /\ \A i \in 1 .. Len(hd) : c[2 + i] = hd[i]
  <2>1. a \in Seq(T) /\ hd \in Seq(T)
    BY <1>4, <1>6
  <2>2. /\ c \in Seq(T) /\ Len(hd) \in Nat /\ Len(c) = Len(a) + Len(hd)
        /\ \A i \in 1 .. Len(a) : c[i] = a[i]
        /\ \A i \in 1 .. Len(hd) : c[Len(a) + i] = hd[i]
    BY <2>1, JoinIs DEF c
  <2> QED BY <1>4, <2>2
<1> HIDE DEF c
<1> DEFINE e == c \o b
<1>8. /\ e \in Seq(T) /\ Len(e) = 2 + Len(hd) + n
      /\ \A i \in 1 .. (2 + Len(hd)) : e[i] = c[i]
      /\ \A i \in 1 .. n : e[2 + Len(hd) + i] = b[i]
  <2>1. b \in Seq(T) /\ c \in Seq(T)
    BY <1>5, <1>7
  <2>2. /\ e \in Seq(T) /\ Len(e) = Len(c) + Len(b)
        /\ \A i \in 1 .. Len(c) : e[i] = c[i]
        /\ \A i \in 1 .. Len(b) : e[Len(c) + i] = b[i]
    BY <2>1, JoinIs DEF e
  <2> QED BY <1>5, <1>7, <2>2
<1> HIDE DEF e
<1>9. /\ text = e \o tl /\ Len(tl) \in Nat /\ Len(text) = 2 + Len(hd) + n + Len(tl)
      /\ DOMAIN text = 1 .. (2 + Len(hd) + n + Len(tl))
      /\ \A i \in 1 .. (2 + Len(hd) + n) : text[i] = e[i]
      /\ \A i \in 1 .. Len(tl) : text[2 + Len(hd) + n + i] = tl[i]
  <2>1. text = e \o tl
    BY <1>3 DEF c, e
  <2>2. e \in Seq(T) /\ tl \in Seq(T)
    BY <1>6, <1>8
  <2>3. /\ Len(tl) \in Nat /\ Len(text) = Len(e) + Len(tl)
        /\ DOMAIN text = 1 .. (Len(e) + Len(tl))
        /\ \A i \in 1 .. Len(e) : text[i] = e[i]
        /\ \A i \in 1 .. Len(tl) : text[Len(e) + i] = tl[i]
    BY <2>1, <2>2, JoinIs
  <2> QED BY <1>8, <2>1, <2>3
<1>10. \A i \in 1 .. 2 : text[i].tag \in {"EXTM3U", "TARGETDURATION"}
  <2> SUFFICES ASSUME NEW i \in 1 .. 2 PROVE text[i].tag \in {"EXTM3U", "TARGETDURATION"}
    OBVIOUS
  <2>1. i \in 1 .. (2 + Len(hd) + n) /\ i \in 1 .. (2 + Len(hd))
    BY <1>1, <1>7
  <2>2. text[i] = lines[i]
    BY <1>4, <1>7, <1>8, <1>9, <2>1
  <2>3. i = 1 \/ i = 2
    OBVIOUS
  <2> QED BY <1>1, <2>2, <2>3
<1>11. \A i \in 1 .. Len(hd) : text[2 + i] = hd[i]
  <2> SUFFICES ASSUME NEW i \in 1 .. Len(hd) PROVE text[2 + i] = hd[i]
    OBVIOUS
  <2>1. 2 + i \in 1 .. (2 + Len(hd) + n) /\ 2 + i \in 1 .. (2 + Len(hd))
    BY <1>1, <1>7
  <2> QED BY <1>7, <1>8, <1>9, <2>1
<1>12. \A i \in 1 .. n : text[2 + Len(hd) + i] = segs[i]
  <2> SUFFICES ASSUME NEW i \in 1 .. n PROVE text[2 + Len(hd) + i] = segs[i]
    OBVIOUS
  <2>1. 2 + Len(hd) + i \in 1 .. (2 + Len(hd) + n)
    BY <1>1, <1>7
  <2> QED BY <1>1, <1>5, <1>8, <1>9, <2>1
<1>13. Regions(text, hd, segs, tl)
  BY <1>9, <1>10, <1>11, <1>12 DEF Regions, Same, n
<1> QED BY <1>13 DEF text, lines, hd, tl

LEMMA RewrittenSame ==
  ASSUME NEW d, NEW lines \in Seq(TextLs(d)), NEW T,
         NEW header \in Seq(T), NEW segs \in Seq(T), NEW tail \in Seq(T),
         Regions(lines, header, segs, tail)
  PROVE  Regions(rewrite_ll_hls_uris(lines), header, segs, tail)
<1> DEFINE text == rewrite_ll_hls_uris(lines)
<1>1. DOMAIN text = DOMAIN lines /\ DOMAIN lines = 1 .. Len(lines) /\ Len(text) = Len(lines)
  BY DEF rewrite_ll_hls_uris
<1>2. ASSUME NEW i \in DOMAIN lines
      PROVE  text[i].tag = lines[i].tag /\ text[i].meant = lines[i].meant
  <2> DEFINE line == lines[i]
             new == text[i]
  <2>1. new = IF line.uri.to # "raw" THEN line
              ELSE IF line.tag = "RENDITION-REPORT"
              THEN [line EXCEPT !.uri = PlaylistUri(line.uri.ref, "video")]
              ELSE [line EXCEPT !.uri = SegmentUri(line.uri.ref)]
    BY DEF rewrite_ll_hls_uris
  <2>2. line \in TextLs(d)
    OBVIOUS
  <2> HIDE DEF line, new, text
  <2>4. PICK kind, uri, meant : line = Line(kind, uri, meant)
    BY <2>2, LineKinds
  <2>5. \E other : new = Line(kind, other, meant)
    <3>1. CASE line.uri.to # "raw"
      BY <2>1, <2>4, <3>1
    <3>2. CASE line.uri.to = "raw" /\ line.tag = "RENDITION-REPORT"
      <4> DEFINE other == PlaylistUri(line.uri.ref, "video")
      <4>1. new = [line EXCEPT !.uri = other]
        BY <2>1, <3>2
      <4> HIDE DEF other
      <4>2. new = Line(kind, other, meant)
        BY <2>4, <4>1, LineChanged
      <4> QED BY <4>2
    <3>3. CASE line.uri.to = "raw" /\ line.tag # "RENDITION-REPORT"
      <4> DEFINE other == SegmentUri(line.uri.ref)
      <4>1. new = [line EXCEPT !.uri = other]
        BY <2>1, <3>3
      <4> HIDE DEF other
      <4>2. new = Line(kind, other, meant)
        BY <2>4, <4>1, LineChanged
      <4> QED BY <4>2
    <3> QED BY <3>1, <3>2, <3>3
  <2>6. new.tag = kind /\ new.meant = meant
    BY <2>5, LineFields
  <2>7. line.tag = kind /\ line.meant = meant
    BY <2>4, LineFields
  <2>8. new.tag = line.tag /\ new.meant = line.meant
    BY <2>6, <2>7
  <2> QED BY <2>8 DEF new, line
<1> HIDE DEF text
<1> DEFINE h == Len(header)
           s == Len(segs)
           t == Len(tail)
<1>3. h \in Nat /\ s \in Nat /\ t \in Nat
  OBVIOUS
<1>4. /\ Len(lines) = 2 + h + s + t /\ DOMAIN lines = 1 .. (2 + h + s + t)
      /\ \A i \in 1 .. 2 : lines[i].tag \in {"EXTM3U", "TARGETDURATION"}
      /\ \A i \in 1 .. h : Same(lines[2 + i], header[i])
      /\ \A i \in 1 .. s : Same(lines[2 + h + i], segs[i])
      /\ \A i \in 1 .. t : Same(lines[2 + h + s + i], tail[i])
  BY DEF Regions
<1> HIDE DEF h, s, t
<1>5. \A i \in DOMAIN lines : \A x : Same(lines[i], x) => Same(text[i], x)
  BY <1>2 DEF Same
<1>6. \A i \in 1 .. 2 : text[i].tag \in {"EXTM3U", "TARGETDURATION"}
  <2>1. \A i \in 1 .. 2 : i \in DOMAIN lines
    BY <1>3, <1>4
  <2> QED BY <1>2, <1>4, <2>1
<1>7. \A i \in 1 .. h : 2 + i \in DOMAIN lines
  BY <1>3, <1>4
<1>8. \A i \in 1 .. s : 2 + h + i \in DOMAIN lines
  BY <1>3, <1>4
<1>9. \A i \in 1 .. t : 2 + h + s + i \in DOMAIN lines
  BY <1>3, <1>4
<1>10. Len(text) = 2 + h + s + t /\ DOMAIN text = 1 .. (2 + h + s + t)
  BY <1>1, <1>4
<1>11. \A i \in 1 .. h : Same(text[2 + i], header[i])
  BY <1>4, <1>5, <1>7
<1>12. \A i \in 1 .. s : Same(text[2 + h + i], segs[i])
  BY <1>4, <1>5, <1>8
<1>13. \A i \in 1 .. t : Same(text[2 + h + s + i], tail[i])
  BY <1>4, <1>5, <1>9
<1>14. Regions(text, header, segs, tail)
  BY <1>6, <1>10, <1>11, <1>12, <1>13 DEF Regions, h, s, t
<1> QED BY <1>14 DEF text

(* A text of these regions has the tags in place.                           *)
LEMMA RegionsInPlace ==
  ASSUME NEW T, NEW header \in Seq(T), NEW segs \in Seq(T), NEW tail \in Seq(T),
         NEW text, NEW d, NEW ll \in BOOLEAN, Regions(text, header, segs, tail),
         \A i \in DOMAIN segs : segs[i].tag \in {"SEGMENT", "DATERANGE", "PART"},
         PartsLead(segs),
         ll => HeadersOf(header, d) /\ TailsOf(tail, d),
         ~ll => header = << >> /\ tail = << >>
  PROVE  HeadersInPlace(text, d, ll) /\ TailsInPlace(text, d, ll) /\ PartsLead(text)
<1> DEFINE h == Len(header)
           s == Len(segs)
           t == Len(tail)
           Tails == ToSet(TailTags)
<1>1. /\ h \in Nat /\ s \in Nat /\ t \in Nat
      /\ DOMAIN header = 1 .. h /\ DOMAIN segs = 1 .. s /\ DOMAIN tail = 1 .. t
  OBVIOUS
<1>2. /\ Len(text) = 2 + h + s + t /\ DOMAIN text = 1 .. (2 + h + s + t)
      /\ \A i \in 1 .. 2 : text[i].tag \in {"EXTM3U", "TARGETDURATION"}
      /\ \A i \in 1 .. h : text[2 + i].tag = header[i].tag /\ text[2 + i].meant = header[i].meant
      /\ \A i \in 1 .. s :
           text[2 + h + i].tag = segs[i].tag /\ text[2 + h + i].meant = segs[i].meant
      /\ \A i \in 1 .. t :
           text[2 + h + s + i].tag = tail[i].tag /\ text[2 + h + s + i].meant = tail[i].meant
  BY DEF Regions, Same
<1>3. Tails = {"PRELOAD-HINT", "RENDITION-REPORT"}
  <2>1. DOMAIN TailTags = {1, 2} /\ TailTags[1] = "PRELOAD-HINT" /\ TailTags[2] = "RENDITION-REPORT"
    BY DEF TailTags
  <2> QED BY <2>1 DEF ToSet
<1>4. ~ll => h = 0 /\ t = 0
  OBVIOUS
<1>5. ll => /\ \A k \in 1 .. h : header[k].tag \in HeaderKinds
            /\ \A k \in 1 .. t : tail[k].tag \in Tails
  BY <1>1 DEF HeadersOf, TailsOf
<1> HIDE DEF h, s, t, Tails
<1>6. \A k \in 1 .. h : header[k].tag \in HeaderKinds
  BY <1>4, <1>5
<1>7. \A k \in 1 .. t : tail[k].tag \in Tails
  BY <1>4, <1>5
<1>8. \A k \in 1 .. s : segs[k].tag \in {"SEGMENT", "DATERANGE", "PART"}
  BY <1>1
<1>9. ASSUME NEW i \in DOMAIN text
      PROVE  \/ i \in 1 .. 2
             \/ \E k \in 1 .. h : i = 2 + k
             \/ \E k \in 1 .. s : i = 2 + h + k
             \/ \E k \in 1 .. t : i = 2 + h + s + k
  <2>0. i \in Nat /\ 1 <= i /\ i <= 2 + h + s + t
    BY <1>1, <1>2
  <2>1. CASE i <= 2
    <3>1. i \in 1 .. 2
      BY <2>0, <2>1
    <3> QED BY <3>1
  <2>2. CASE i > 2 /\ i <= 2 + h
    <3>1. i - 2 \in 1 .. h /\ i = 2 + (i - 2)
      BY <1>1, <1>2, <2>2
    <3> QED BY <3>1
  <2>3. CASE i > 2 + h /\ i <= 2 + h + s
    <3>1. i - (2 + h) \in 1 .. s /\ i = 2 + h + (i - (2 + h))
      BY <1>1, <1>2, <2>3
    <3> QED BY <3>1
  <2>4. CASE i > 2 + h + s
    <3>1. i - (2 + h + s) \in 1 .. t /\ i = 2 + h + s + (i - (2 + h + s))
      BY <1>1, <1>2, <2>4
    <3> QED BY <3>1
  <2> QED BY <1>1, <1>2, <2>1, <2>2, <2>3, <2>4
(* What is where in the text.                                               *)
<1>10. ASSUME NEW i \in DOMAIN text
       PROVE  text[i].tag \in HeaderKinds <=> \E k \in 1 .. h : i = 2 + k
  <2>1. ASSUME NEW k \in 1 .. h, i = 2 + k PROVE text[i].tag \in HeaderKinds
    BY <1>2, <1>6, <2>1
  <2>2. ASSUME NEW k \in 1 .. s, i = 2 + h + k PROVE text[i].tag \notin HeaderKinds
    BY <1>2, <1>8, <2>2 DEF HeaderKinds
  <2>3. ASSUME NEW k \in 1 .. t, i = 2 + h + s + k PROVE text[i].tag \notin HeaderKinds
    BY <1>2, <1>3, <1>7, <2>3 DEF HeaderKinds
  <2>4. ASSUME i \in 1 .. 2 PROVE text[i].tag \notin HeaderKinds
    BY <1>2, <2>4 DEF HeaderKinds
  <2> QED BY <1>9, <2>1, <2>2, <2>3, <2>4
<1>11. ASSUME NEW i \in DOMAIN text
       PROVE  text[i].tag \in Tails <=> \E k \in 1 .. t : i = 2 + h + s + k
  <2>1. ASSUME NEW k \in 1 .. t, i = 2 + h + s + k PROVE text[i].tag \in Tails
    BY <1>2, <1>7, <2>1
  <2>2. ASSUME NEW k \in 1 .. s, i = 2 + h + k PROVE text[i].tag \notin Tails
    BY <1>2, <1>3, <1>8, <2>2
  <2>3. ASSUME NEW k \in 1 .. h, i = 2 + k PROVE text[i].tag \notin Tails
    BY <1>2, <1>3, <1>6, <2>3 DEF HeaderKinds
  <2>4. ASSUME i \in 1 .. 2 PROVE text[i].tag \notin Tails
    BY <1>2, <1>3, <2>4
  <2> QED BY <1>9, <2>1, <2>2, <2>3, <2>4
<1>12. ASSUME NEW i \in DOMAIN text, text[i].tag = "PART"
       PROVE  \E k \in 1 .. s : i = 2 + h + k
  <2>1. ASSUME NEW k \in 1 .. h, i = 2 + k PROVE FALSE
    BY <1>2, <1>6, <1>12, <2>1 DEF HeaderKinds
  <2>2. ASSUME NEW k \in 1 .. t, i = 2 + h + s + k PROVE FALSE
    BY <1>2, <1>3, <1>7, <1>12, <2>2
  <2>3. ASSUME i \in 1 .. 2 PROVE FALSE
    BY <1>2, <1>12, <2>3
  <2> QED BY <1>9, <2>1, <2>2, <2>3
<1>13. HeadersInPlace(text, d, ll)
  <2> DEFINE heads == {i \in DOMAIN text : text[i].tag \in HeaderKinds}
             meant == {text[i].meant : i \in heads}
             last  == {i \in DOMAIN d.header :
                         ll /\ \A j \in DOMAIN d.header : j > i => d.header[j] # d.header[i]}
  <2>1. \A i : i \in heads <=> \E k \in 1 .. h : i = 2 + k
    <3>1. \A k \in 1 .. h : 2 + k \in DOMAIN text
      BY <1>1, <1>2
    <3> QED BY <1>10, <3>1
  <2>2. ASSUME NEW i \in heads, NEW j \in heads, text[i].tag = text[j].tag PROVE i = j
    <3>1. PICK k \in 1 .. h : i = 2 + k
      BY <2>1
    <3>2. PICK l \in 1 .. h : j = 2 + l
      BY <2>1
    <3>3. header[k].tag = header[l].tag
      BY <1>2, <2>2, <3>1, <3>2
    <3>4. ll
      BY <1>4
    <3>5. k = l
      BY <1>1, <3>3, <3>4 DEF HeadersOf
    <3> QED BY <3>1, <3>2, <3>5
  <2>3. ASSUME NEW i \in heads PROVE i > 2 /\ 3 .. i \subseteq heads
    <3>1. PICK k \in 1 .. h : i = 2 + k
      BY <2>1
    <3>2. i > 2
      BY <3>1
    <3> HIDE DEF heads
    <3>3. ASSUME NEW j \in 3 .. i PROVE j \in heads
      <4>1. j - 2 \in 1 .. h /\ j = 2 + (j - 2)
        BY <1>1, <3>1
      <4> QED BY <2>1, <4>1
    <3> QED BY <3>2, <3>3
  <2>4. ll => \A i : i \in last <=> i \in LastKinds(d)
    BY DEF LastKinds
  <2>5. ~ll => last = {}
    OBVIOUS
  <2> HIDE DEF heads, last
  <2>6. meant = {<<i>> : i \in last}
    <3>1. ASSUME NEW i \in heads PROVE \E j \in last : text[i].meant = <<j>>
      <4>1. PICK k \in 1 .. h : i = 2 + k
        BY <2>1
      <4>2. ll
        BY <1>4
      <4>3. PICK j \in LastKinds(d) : header[k].meant = <<j>>
        BY <1>1, <4>2 DEF HeadersOf
      <4> QED BY <1>2, <2>4, <4>1, <4>2, <4>3
    <3>2. ASSUME NEW j \in last PROVE \E i \in heads : text[i].meant = <<j>>
      <4>1. ll /\ j \in LastKinds(d)
        BY <2>4, <2>5
      <4>2. PICK k \in 1 .. h : header[k].meant = <<j>>
        BY <1>1, <4>1 DEF HeadersOf
      <4>3. 2 + k \in heads /\ text[2 + k].meant = <<j>>
        BY <1>2, <2>1, <4>2
      <4> QED BY <4>3
    <3> QED BY <3>1, <3>2
  <2> QED BY <2>2, <2>3, <2>6 DEF HeadersInPlace, heads, last
<1>14. TailsInPlace(text, d, ll)
  <2> DEFINE tails == {i \in DOMAIN text : text[i].tag \in Tails}
             meant == {text[i].meant : i \in tails}
             kept  == {i \in DOMAIN d.tail : ll /\ d.tail[i] # "PART"}
  <2>1. \A i : i \in tails <=> \E k \in 1 .. t : i = 2 + h + s + k
    <3>1. \A k \in 1 .. t : 2 + h + s + k \in DOMAIN text
      BY <1>1, <1>2
    <3> QED BY <1>11, <3>1
  <2>2. ASSUME NEW i \in tails, NEW j \in tails, text[i].meant = text[j].meant PROVE i = j
    <3>1. PICK k \in 1 .. t : i = 2 + h + s + k
      BY <2>1
    <3>2. PICK l \in 1 .. t : j = 2 + h + s + l
      BY <2>1
    <3>3. tail[k].meant = tail[l].meant
      BY <1>2, <2>2, <3>1, <3>2
    <3>4. ll
      BY <1>4
    <3>5. k = l
      BY <1>1, <3>3, <3>4 DEF TailsOf
    <3> QED BY <3>1, <3>2, <3>5
  <2>3. ASSUME NEW i \in tails PROVE i .. Len(text) \subseteq tails
    <3>1. PICK k \in 1 .. t : i = 2 + h + s + k
      BY <2>1
    <3> HIDE DEF tails
    <3>2. ASSUME NEW j \in i .. Len(text) PROVE j \in tails
      <4>1. j - (2 + h + s) \in 1 .. t /\ j = 2 + h + s + (j - (2 + h + s))
        BY <1>1, <1>2, <3>1
      <4> QED BY <2>1, <4>1
    <3> QED BY <3>2
  <2>4. ll => \A i : i \in kept <=> i \in TailKept(d)
    BY DEF TailKept
  <2>5. ~ll => kept = {}
    OBVIOUS
  <2> HIDE DEF tails, kept
  <2>6. meant = {<<"tail", i>> : i \in kept}
    <3>1. ASSUME NEW i \in tails PROVE \E j \in kept : text[i].meant = <<"tail", j>>
      <4>1. PICK k \in 1 .. t : i = 2 + h + s + k
        BY <2>1
      <4>2. ll
        BY <1>4
      <4>3. PICK j \in TailKept(d) : tail[k].meant = <<"tail", j>>
        BY <1>1, <4>2 DEF TailsOf
      <4> QED BY <1>2, <2>4, <4>1, <4>2, <4>3
    <3>2. ASSUME NEW j \in kept PROVE \E i \in tails : text[i].meant = <<"tail", j>>
      <4>1. ll /\ j \in TailKept(d)
        BY <2>4, <2>5
      <4>2. PICK k \in 1 .. t : tail[k].meant = <<"tail", j>>
        BY <1>1, <4>1 DEF TailsOf
      <4>3. 2 + h + s + k \in tails /\ text[2 + h + s + k].meant = <<"tail", j>>
        BY <1>2, <2>1, <4>2
      <4> QED BY <4>3
    <3> QED BY <3>1, <3>2
  <2> QED BY <2>2, <2>3, <2>6 DEF TailsInPlace, tails, kept, Tails
<1>15. ASSUME NEW i \in DOMAIN text, text[i].tag = "PART"
       PROVE  \E j \in i .. Len(text) :
                /\ text[j].tag = "SEGMENT" /\ text[j].meant = <<"seg", text[i].meant[2]>>
                /\ \A k \in i .. j - 1 : text[k].tag # "SEGMENT"
  <2>1. PICK x \in 1 .. s : i = 2 + h + x
    BY <1>12, <1>15
  <2>2. segs[x].tag = "PART" /\ x \in DOMAIN segs /\ text[i].meant = segs[x].meant
    BY <1>1, <1>2, <1>15, <2>1
  <2>3. PICK y \in x .. Len(segs) :
          /\ segs[y].tag = "SEGMENT" /\ segs[y].meant = <<"seg", segs[x].meant[2]>>
          /\ \A k \in x .. y - 1 : segs[k].tag # "SEGMENT"
    BY <2>2 DEF PartsLead
  <2>4. y \in x .. s
    BY <2>3 DEF s
  <2> DEFINE j == 2 + h + y
  <2>5. y \in 1 .. s /\ j \in i .. Len(text)
    BY <1>1, <1>2, <2>1, <2>4
  <2>6. text[j].tag = "SEGMENT" /\ text[j].meant = <<"seg", text[i].meant[2]>>
    BY <1>2, <2>2, <2>3, <2>5
  <2>7. ASSUME NEW k \in i .. j - 1 PROVE text[k].tag # "SEGMENT"
    <3> DEFINE z == k - (2 + h)
    <3>1. z \in x .. y - 1 /\ z \in 1 .. s /\ k = 2 + h + z
      BY <1>1, <2>1, <2>4
    <3> HIDE DEF z
    <3>2. segs[z].tag # "SEGMENT"
      BY <2>3, <3>1
    <3>3. text[2 + h + z].tag = segs[z].tag
      BY <1>2, <3>1
    <3> QED BY <3>1, <3>2, <3>3
  <2> HIDE DEF j
  <2> QED BY <2>5, <2>6, <2>7
<1>16. PartsLead(text)
  BY <1>15 DEF PartsLead
<1> QED BY <1>13, <1>14, <1>16

LEMMA MediaInPlace ==
  ASSUME AllInv, LinesInv, NEW d \in Deliveries, d.track # "master"
  PROVE  /\ HeadersInPlace(MediaText(d), d, is_ll_hls(RawLines(d)))
         /\ TailsInPlace(MediaText(d), d, is_ll_hls(RawLines(d)))
         /\ PartsLead(MediaText(d))
<1> DEFINE raw == RawLines(d)
           segs == Segments(d)
           ext == extract_ll_hls_tags(raw)
           T == TextLs(d)
           ll == is_ll_hls(raw)
<1>1. HeaderLs \subseteq T /\ SegmentLs(d) \cup PartLs(d) \subseteq T
  BY DEF TextLs
<1>2. segs \in Seq(SegmentLs(d) \cup PartLs(d))
  <2> DEFINE S == SegmentLs(d) \cup PartLs(d)
  <2>1. \A list \in Kept : \A i \in Nat : PartLines(d, i, list) \in Seq(S)
    <3>1. \A list \in Kept : \A i \in Nat : PartLines(d, i, list) \in Seq(PartLs(d))
      BY KeptTyped, PartLinesTyped
    <3>2. PartLs(d) \subseteq S
      OBVIOUS
    <3> HIDE DEF S
    <3> QED BY <3>1, <3>2
  <2>2. SegmentLs(d) \subseteq S
    OBVIOUS
  <2> HIDE DEF S, segs
  <2>3. Segments(d) \in Seq(S)
    BY <2>1, <2>2, SegmentsTyped
  <2> QED BY <2>3 DEF segs, S
<1>3. \A i \in DOMAIN segs : segs[i].tag \in {"SEGMENT", "DATERANGE", "PART"}
  <2>1. ASSUME NEW line \in SegmentLs(d) \cup PartLs(d)
        PROVE  line.tag \in {"SEGMENT", "DATERANGE", "PART"}
    <3>1. line \in TextLs(d)
      BY DEF TextLs
    <3> QED BY <3>1, LineKinds
  <2> DEFINE S == SegmentLs(d) \cup PartLs(d)
  <2>2. \A i \in DOMAIN segs : segs[i] \in S
    <3> HIDE DEF S, segs
    <3> QED BY <1>2 DEF S
  <2> HIDE DEF segs
  <2> QED BY <2>1, <2>2
<1>4. PartsLead(segs)
  BY SegmentsLead
<1>5. raw \in Seq(T)
  BY RawTyped
<1>6. ll \in BOOLEAN
  BY DEF is_ll_hls
<1>7. serialize_playlist(segs) = Written(segs)
  BY DEF serialize_playlist, Written
<1>8. MediaText(d) = IF ll THEN rewrite_ll_hls_uris(inject_ll_hls_tags(Written(segs), ext))
                     ELSE Written(segs)
  BY <1>7 DEF MediaText
<1>9. HeadersOf(ext.header, d) /\ TailsOf(ext.tail, d)
  BY HeaderIs, TailIs
<1> HIDE DEF raw, segs, T
<1>10. segs \in Seq(T)
  BY <1>1, <1>2
<1>11. ext.header \in Seq(T) /\ ext.tail \in Seq(T)
  BY <1>5, ExtractTyped
<1> HIDE DEF ll, ext
<1>12. CASE ll
  <2> DEFINE given == inject_ll_hls_tags(Written(segs), ext)
             text == rewrite_ll_hls_uris(given)
  <2>1. Regions(given, ext.header, segs, ext.tail)
    BY <1>1, <1>10, <1>11, Injected
  <2>2. given \in Seq(T)
    <3>1. Written(segs) \in Seq(T)
      BY <1>1, <1>10, WrittenIs
    <3> QED BY <1>11, <3>1, InjectTyped
  <2>3. Regions(text, ext.header, segs, ext.tail)
    <3> HIDE DEF given
    <3>1. given \in Seq(TextLs(d))
      BY <2>2 DEF T
    <3> QED BY <1>10, <1>11, <2>1, <3>1, RewrittenSame
  <2> HIDE DEF text
  <2>4. HeadersInPlace(text, d, ll) /\ TailsInPlace(text, d, ll) /\ PartsLead(text)
    BY <1>3, <1>4, <1>6, <1>9, <1>10, <1>11, <1>12, <2>3, RegionsInPlace
  <2> QED BY <1>8, <1>12, <2>4 DEF text, ll, raw
<1>13. CASE ~ll
  <2> DEFINE text == Written(segs)
             no == << >>
  <2>1. no \in Seq(T) /\ Len(no) = 0 /\ no = << >>
    OBVIOUS
  <2>2. /\ text \in Seq(T) /\ Len(segs) \in Nat /\ Len(text) = 2 + Len(segs)
        /\ text[1].tag = "EXTM3U" /\ text[2].tag = "TARGETDURATION"
        /\ \A i \in 1 .. Len(segs) : text[2 + i] = segs[i]
    BY <1>1, <1>10, WrittenIs
  <2> HIDE DEF text, no
  <2>3. Regions(text, no, segs, no)
    <3> DEFINE n == Len(segs)
    <3>1. 2 + Len(no) + n + Len(no) = 2 + n /\ 2 + Len(no) = 2
      BY <2>1, <2>2
    <3>2. DOMAIN text = 1 .. (2 + n)
      BY <2>2
    <3>3. \A i \in 1 .. 2 : i = 1 \/ i = 2
      OBVIOUS
    <3>4. \A i \in 1 .. 2 : text[i].tag \in {"EXTM3U", "TARGETDURATION"}
      BY <2>2, <3>3
    <3>5. 1 .. Len(no) = {}
      BY <2>1
    <3> QED BY <2>2, <3>1, <3>2, <3>4, <3>5 DEF Regions, Same
  <2>4. HeadersInPlace(text, d, ll) /\ TailsInPlace(text, d, ll) /\ PartsLead(text)
    <3>1. ~ll => no = << >> /\ no = << >>
      BY <2>1
    <3>2. ll => HeadersOf(no, d) /\ TailsOf(no, d)
      BY <1>13
    <3> HIDE DEF PartsLead, HeadersInPlace, TailsInPlace, Regions, HeadersOf, TailsOf
    <3>3. no \in Seq(T)
      BY <2>1
    <3>4. ASSUME NEW header \in Seq(T), NEW tail \in Seq(T), Regions(text, header, segs, tail),
                 header = no, tail = no
          PROVE  HeadersInPlace(text, d, ll) /\ TailsInPlace(text, d, ll) /\ PartsLead(text)
      <4>1. ll => HeadersOf(header, d) /\ TailsOf(tail, d)
        BY <1>13
      <4>2. ~ll => header = << >> /\ tail = << >>
        BY <2>1, <3>4
      <4> HIDE DEF no
      <4> QED BY <1>3, <1>4, <1>6, <1>10, <3>4, <4>1, <4>2, RegionsInPlace
    <3> QED BY <2>3, <3>3, <3>4
  <2> QED BY <1>8, <1>13, <2>4 DEF text, ll, raw
<1> QED BY <1>12, <1>13

(* A playlist that is answered has its tags as they were.                   *)
VodAnswers == live # Vod => response = NoResponse

(* The low-latency tags that the parser drops come through in every media   *)
(* playlist, each of the header's once and as the origin last had it, all   *)
(* hints and reports at the end, every part before its own segment; and     *)
(* none in a playlist that is not low-latency: for playlists of any length, *)
(* with any tags, header and tail.                                          *)
THEOREM LlTagsComeThrough == LiveSpec => []LlTagsInPlace
<1>1. LiveInit => VodAnswers /\ LlTagsInPlace
  BY DEF LiveInit, PlaylistInit, VodAnswers, LlTagsInPlace, Answered
<1>2. AllInv /\ LinesInv /\ VodAnswers /\ LlTagsInPlace /\ [LiveNext]_hlsVars
        => VodAnswers' /\ LlTagsInPlace'
  <2> SUFFICES ASSUME AllInv, LinesInv, VodAnswers, LlTagsInPlace, [LiveNext]_hlsVars
               PROVE  VodAnswers' /\ LlTagsInPlace'
    OBVIOUS
  <2>1. CASE response' = NoResponse /\ live' = live
    BY <2>1 DEF VodAnswers, LlTagsInPlace, Answered
  <2>2. CASE UNCHANGED hlsVars
    <3>1. response' = response /\ tags' = tags /\ live' = live
      BY <2>2 DEF hlsVars, liveVars, allVars, vars
    <3>2. \A d : RawLines(d)' = RawLines(d)
      BY <3>1 DEF RawLines, Segs
    <3> QED BY <3>1, <3>2 DEF VodAnswers, LlTagsInPlace, Answered
  <2>3. ASSUME live = Vod, live' = live, NEW d \in Deliveries, ServeMedia(d)
        PROVE  VodAnswers' /\ LlTagsInPlace'
    <3>1. d.track # "master" /\ response'.d = d /\ response'.text = MediaText(d)
      BY <2>3 DEF ServeMedia
    <3>2. RawLines(d)' = RawLines(d)
      BY <2>3 DEF ServeMedia, vars, RawLines, Segs
    <3>3. /\ HeadersInPlace(MediaText(d), d, is_ll_hls(RawLines(d)))
          /\ TailsInPlace(MediaText(d), d, is_ll_hls(RawLines(d)))
          /\ PartsLead(MediaText(d))
      BY <3>1, MediaInPlace
    <3>4. LlTagsInPlace'
      BY <3>1, <3>2, <3>3 DEF LlTagsInPlace
    <3> QED BY <2>3, <3>4 DEF VodAnswers
  <2>4. ASSUME live = Vod, live' = live, NEW d \in Deliveries, ServeMaster(d)
        PROVE  VodAnswers' /\ LlTagsInPlace'
    BY <2>4 DEF ServeMaster, LlTagsInPlace, VodAnswers
  <2>5. ASSUME LiveNext
        PROVE  \/ response' = NoResponse /\ live' = live
               \/ /\ live = Vod /\ live' = live
                  /\ \E d \in Deliveries : ServeMedia(d) \/ ServeMaster(d)
    <3>1. CASE live = Vod /\ PlaylistNext /\ UNCHANGED liveVars
      BY <3>1 DEF PlaylistNext, liveVars
    <3>2. CASE live # Vod /\ response' = response
      <4>1. live' = live
        BY <2>5, <3>2 DEF LiveNext, Handle, AskLive, DateLive, Play, Show, Refresh, liveVars
      <4> QED BY <3>2, <4>1 DEF VodAnswers
    <3> QED BY <2>5, <3>1, <3>2 DEF LiveNext
  <2> QED BY <2>1, <2>2, <2>3, <2>4, <2>5
<1> QED BY <1>1, <1>2, LinesInvariant, PTL DEF LiveSpec
=============================================================================
