----------------------------- MODULE VastDocument -----------------------------
(***************************************************************************)
(* The documents an ad server sends, as the VAST schema has them, and what *)
(* they say: the reference for module VastParser.  A document is the list  *)
(* of its ads; "cut" is how many of its events arrive, and "broken" that   *)
(* it breaks off within a tag or a CDATA section.                          *)
(***************************************************************************)
EXTENDS VastParser

Element(tag, attr, content) == <<Start(tag, attr)>> \o content \o <<End(tag)>>

TextElement(tag, text) == Element(tag, Nothing, <<Text(text)>>)

Each(Op(_), list) == FlattenSeq([i \in DOMAIN list |-> Op(list[i])])

TrackingXml(events) ==
  Element("TrackingEvents", Nothing,
          Each(LAMBDA t : Element("Tracking", t.attr, <<Text(t.url)>>), events))

(* A linear creative, or a companion or nonlinear one.                      *)
CreativeXml(c) ==
  Element("Creative", Nothing,
    IF c.linear
    THEN Element("Linear", Nothing,
           TextElement("Duration", c.duration) \o TrackingXml(c.tracking)
           \o Element("MediaFiles", Nothing,
                Each(LAMBDA m : Element("MediaFile", m.attr, <<Text(m.url)>>), c.media)))
    ELSE Element("CompanionAds", Nothing,
           <<Empty("StaticResource")>> \o TrackingXml(c.tracking)))

(* An InLine ad may carry its verifications in an extension.                *)
AdXml(ad) ==
  Element("Ad", Nothing,
    IF ad.kind = "inline"
    THEN Element("InLine", Nothing,
           Each(LAMBDA u : TextElement("Impression", u), ad.impressions)
           \o Each(LAMBDA u : TextElement("Error", u), ad.errors)
           \o Element("Creatives", Nothing, Each(CreativeXml, ad.creatives))
           \o Element("Extensions", Nothing, Element("AdVerifications", Nothing,
                Each(LAMBDA v : Element("Verification", Nothing,
                       TextElement("JavaScriptResource", v) \o TrackingXml(<< >>)),
                     ad.verifications))))
    ELSE Element("Wrapper", Nothing,
           TextElement("VASTAdTagURI", ad.uri)
           \o Each(LAMBDA u : TextElement("Impression", u), ad.impressions)
           \o Element("Creatives", Nothing, Each(CreativeXml, ad.creatives))))

VastXml(ads) == Element("VAST", Nothing, Each(AdXml, ads))

Whole(ads) == [ads |-> ads, cut |-> Len(VastXml(ads)), broken |-> FALSE]

(* A text that breaks off leaves its beginning.                             *)
Cropped(e) == IF e.ev = "text" /\ e.data # << >> THEN Text(<<"cropped">>) ELSE e

Xml(doc) ==
  LET events == VastXml(doc.ads)
  IN  IF doc.cut = Len(events) THEN events
      ELSE SubSeq(events, 1, doc.cut)
           \o (IF doc.broken THEN <<Error>> ELSE <<Cropped(events[doc.cut + 1])>>)

-----------------------------------------------------------------------------
(* What an ad says.  Of several error urls, and of several lists of         *)
(* tracking events in a wrapper, companions' included, the last counts.     *)
Linears(ad)  == SelectSeq(ad.creatives, LAMBDA c : c.linear)
LastOf(list) == IF list = << >> THEN << >> ELSE Last(list)

Meaning(ad) ==
  IF ad.kind = "inline"
  THEN [kind |-> "inline",
        impressions |-> SelectSeq(ad.impressions, LAMBDA u : u # << >>),
        error |-> LastOf(ad.errors),
        creatives |-> [i \in DOMAIN ad.creatives |->
                        IF ad.creatives[i].linear
                        THEN <<ad.creatives[i].media, ad.creatives[i].tracking>>
                        ELSE << >>],
        verifications |-> ad.verifications]
  ELSE [kind |-> "wrapper",
        impressions |-> SelectSeq(ad.impressions, LAMBDA u : u # << >>),
        uri |-> ad.uri,
        tracking |-> LastOf([i \in DOMAIN ad.creatives |-> ad.creatives[i].tracking])]

(* The same, of an ad as the parser returns it.                             *)
MeaningRead(ad) ==
  IF ad.kind = "inline"
  THEN [kind |-> "inline",
        impressions |-> ad.body.impression_urls,
        error |-> LastOf(ad.body.error_url),
        creatives |-> [i \in DOMAIN ad.body.creatives |->
                        LET l == ad.body.creatives[i].linear
                        IN  IF l = Nothing THEN << >>
                            ELSE <<l[1].media_files, l[1].tracking_events>>],
        verifications |-> [i \in DOMAIN ad.body.verifications |->
                             ad.body.verifications[i].javascript_resource_url]]
  ELSE [kind |-> "wrapper",
        impressions |-> ad.body.impression_urls,
        uri |-> ad.body.ad_tag_uri,
        tracking |-> ad.body.tracking_events]
=============================================================================
