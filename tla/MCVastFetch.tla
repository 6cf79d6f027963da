----------------------------- MODULE MCVastFetch -----------------------------
(* Instances of VastDelivery for TLC.                                       *)
EXTENDS VastDelivery

AllTexts == Seq(STRING)

t1 == <<"t1">>
t2 == <<"t2">>
BothTags == {t1, t2}

File(url, type, delivery, bitrate) ==
  [url |-> <<url>>, attr |-> [type |-> type, delivery |-> delivery, bitrate |-> bitrate]]

Tracked(url) == <<[attr |-> "start", url |-> <<url>>]>>

Linear(files, tracking) ==
  [linear |-> TRUE, duration |-> <<0, 0, 15>>, tracking |-> tracking, media |-> files]
Companion(tracking) == [linear |-> FALSE, tracking |-> tracking]

Mp4s == <<File("streamed", "mp4", "streaming", 9), File("none", "mp4", "progressive", -1),
          File("high", "mp4", "progressive", 2), File("low", "mp4", "progressive", 1)>>
Hls   == <<File("mp4", "mp4", "progressive", 9), File("hls", "hls", "", -1)>>
Other == <<File("webm", "webm", "progressive", 9)>>

InLine(creatives) ==
  [kind |-> "inline", impressions |-> <<<<"i1">>, << >>, <<"i2">>>>,
   errors |-> <<<<"e1">>, <<"e2">>>>, creatives |-> creatives,
   verifications |-> <<<<"v">>>>]
Wrapper(uri) ==
  [kind |-> "wrapper", uri |-> uri, impressions |-> <<<<"w">>>>,
   creatives |-> <<Linear(<< >>, Tracked("first")), Linear(<< >>, Tracked("last"))>>]

Ads == <<InLine(<<Companion(Tracked("c"))>>),
         InLine(<<Linear(Hls, Tracked("l")), Linear(Other, << >>), Linear(Mp4s, << >>)>>),
         Wrapper(t1), Wrapper(t2)>>

(* Every document of up to two of these ads.                                *)
SingleAds == [i \in 1 .. 4 |-> Whole(<<Ads[i]>>)]
PairsOfAds   == [i \in 1 .. 16 |-> Whole(<<Ads[(i - 1) \div 4 + 1], Ads[((i - 1) % 4) + 1]>>)]

(* A document of an InLine ad and a wrapper, cut short after every event,   *)
(* or within one: where does not matter then, the parser fails.             *)
Long ==
  Whole(<<[InLine(<<Linear(Other \o Hls, << >>)>>) EXCEPT !.errors = << >>, !.verifications = << >>],
          [Wrapper(t1) EXCEPT !.creatives = << >>]>>)

CutAfter  == [n \in 1 .. Long.cut |-> [Long EXCEPT !.cut = n - 1]]
CutWithin == [n \in 1 .. 3 |-> [Long EXCEPT !.cut = 15 * n, !.broken = TRUE]]

AllDocuments == SingleAds \o <<Whole(<< >>)>> \o PairsOfAds \o <<Long>> \o CutAfter \o CutWithin

(* A function on 1 .. n as a tuple, which TLC computes once.                *)
Tabulated(f) == SubSeq(f, 1, Len(f))

Results == Tabulated([d \in DOMAIN AllDocuments |-> parse_vast(Xml(AllDocuments[d]))])
AllParsed == Results

(* Any document of up to two ads at the endpoint; one ad, or the long       *)
(* document or a part of it, behind its wrappers.                           *)
RootWholeOtherCut ==
  [t \in BothTags |-> IF t = t1 THEN 1 .. 21 ELSE (1 .. 4) \cup (22 .. Len(AllDocuments))]
=============================================================================
