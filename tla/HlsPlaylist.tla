----------------------------- MODULE HlsPlaylist ----------------------------
(* A playlist on its way from the origin to the player, around the stitching *)
(* of HlsStitch: the low-latency tags that the parser would drop are put    *)
(* aside (src/src/hls/ll_hls.rs), every uri is rewritten to lead through    *)
(* the stitcher (hls/parser.rs), the text is written and the tags are put   *)
(* back.  What the player then asks for goes to the segment, playlist, ad   *)
(* and asset-list handlers.                                                 *)
(*                                                                          *)
(* A text is a sequence of lines; "meant" keeps what the origin, or the ad  *)
(* decision, meant a line to be.  The tag "other" of HlsStitch is a part    *)
(* (EXT-X-PART) here.  Dateranges of the origin are followed in HlsStitch   *)
(* and are no lines of the text.                                            *)
EXTENDS HlsStitch, StitchUrls, AdProviders

CONSTANT Deliveries  \* what else the request and the origin's text hold

(* The kinds of the lines of a delivery that no segment of HlsStitch has:   *)
(* of a media playlist, or the variants and renditions of a master.         *)
HeaderKinds == {"SERVER-CONTROL", "PART-INF", "SKIP"}
TailKinds   == {"PART", "PRELOAD-HINT", "RENDITION-REPORT"}
MasterKinds == {"VARIANT", "AUDIO", "VIDEO", "SUBTITLES", "CLOSED-CAPTIONS", "IN-STREAM"}

ASSUME DeliveriesAssumption ==
  \A d \in Deliveries :
    /\ d.track \in {"video", "audio", "subtitles", "master"}
    /\ d.layout \in {"relative", "absolute", "stitched", "rooted", "queried", "up"}
    /\ d.header \in Seq(HeaderKinds)
    /\ d.tail \in Seq(IF d.track = "master" THEN MasterKinds ELSE TailKinds)
    /\ d.length \in Nat  \* of its ad breaks, in s
    /\ d.provider \in {"static", "demo"}

VARIABLE response

allVars == <<vars, response>>

NoResponse == << >>

AdLength(provider) == IF provider = "demo" THEN 1 ELSE 10  \* of a segment, in s
MaxDur == 600  \* of the asset-list handler

(****************************** Urls ***************************************)

(* Wrong: the origin is the playlist's always.                              *)
SegmentUriBeside(ref) ==
  [to |-> "segment",
   path   |-> IF ref.absolute THEN <<Last(ref.parts)>> ELSE ref.parts,
   origin |-> OriginBase,
   query  |-> ref.query]

(* rewrite_content_urls and rewrite_segment_uri: the last part of an        *)
(* absolute url is the name, the others are its origin.                     *)
SegmentUri(ref) ==
  [to |-> "segment",
   path   |-> IF ref.absolute THEN <<Last(ref.parts)>> ELSE ref.parts,
   origin |-> IF ref.absolute THEN Front(ref.parts) ELSE OriginBase,
   query  |-> ref.query]

(* rewrite_content_urls leaves what leads through a stitcher as it is.      *)
ContentUri(ref) ==
  IF <<"stitch">> \in ToSet(ref.parts) THEN [to |-> "direct", ref |-> ref] ELSE SegmentUri(ref)

(* rewrite_master_urls and rewrite_playlist_uri.                            *)
PlaylistUri(ref, track) ==
  [to |-> "playlist", track |-> track,
   origin |-> IF ref.absolute THEN ref.parts ELSE OriginBase \o ref.parts,
   query  |-> ref.query]

AdUri(b, s) == [to |-> "ad", name |-> Name(b, "seg", s, "ts")]
AssetUri(length) == [to |-> "assets", dur |-> length]

(* The url that serve_playlist fetches, ".." resolved by the http client.   *)
WithoutUp(parts) ==
  LET i == SelectInSeq(parts, LAMBDA part : part = Up) IN
  IF i = 0 THEN parts ELSE SubSeq(parts, 1, i - 2) \o SubSeq(parts, i + 1, Len(parts))

serve_playlist(uri) == Resource(WithoutUp(uri.origin), uri.query)

(* serve_asset_list: a duration that is too long is refused.                *)
serve_asset_list(uri, provider) ==
  IF uri.dur > MaxDur THEN << >> ELSE get_ad_creatives(uri.dur, AdLength(provider))

(****************************** Lines **************************************)

Line(kind, uri, meant) == [tag |-> kind, uri |-> uri, meant |-> meant]
Plain(kind) == Line(kind, NoUri, << >>)

(* The lines of the origin that no segment follows, or that come before     *)
(* every segment.                                                           *)
HeaderTags == <<"SERVER-CONTROL", "PART-INF", "SKIP">>
TailTags   == <<"PRELOAD-HINT", "RENDITION-REPORT">>

Numbered(kinds) == [i \in DOMAIN kinds |-> [Plain(kinds[i]) EXCEPT !.meant = <<i>>]]

(* Still with the origin's own names.                                       *)
Named(d, kind, file) == Line(kind, [to |-> "raw", ref |-> Ref(d.layout, file)], file)

TailLines(d) == [i \in DOMAIN d.tail |-> Named(d, d.tail[i], <<"tail", i>>)]

PartLines(d, i, list) ==
  LET parts == NotCues(list) IN
  [j \in DOMAIN parts |-> Named(d, "PART", <<"part", i, j>>)]

RawLines(d) ==
  Numbered(d.header)
    \o FlattenSeq([i \in 1 .. Segs |-> PartLines(d, i - 1, tags[i])]) \o TailLines(d)

HasTag(lines, kind) == \E i \in DOMAIN lines : lines[i].tag = kind

is_ll_hls(lines) ==
  \E kind \in {"SERVER-CONTROL", "PART-INF", "PART"} : HasTag(lines, kind)

OfTag(lines, kind) ==
  FlattenSeq([i \in DOMAIN lines |-> IF lines[i].tag = kind THEN <<lines[i]>> ELSE << >>])

(* Wrong: the first of several lines is kept.                               *)
FirstOf(lines, kind) == IF HasTag(lines, kind) THEN <<Head(OfTag(lines, kind))>> ELSE << >>

LastOf(lines, kind) == IF HasTag(lines, kind) THEN <<Last(OfTag(lines, kind))>> ELSE << >>

(* extract_ll_hls_tags: one line of each of the header's tags, the last;    *)
(* all hints, all reports; no parts.                                        *)
extract_ll_hls_tags(lines) ==
  [header |-> FlattenSeq([i \in DOMAIN HeaderTags |-> LastOf(lines, HeaderTags[i])]),
   tail   |-> FlattenSeq([i \in DOMAIN TailTags |-> OfTag(lines, TailTags[i])])]

find_insertion_line(lines) ==
  LET At(kind) == SelectInSeq(lines, LAMBDA line : line.tag = kind) IN
  IF HasTag(lines, "TARGETDURATION") THEN At("TARGETDURATION")
  ELSE IF HasTag(lines, "VERSION") THEN At("VERSION") ELSE At("EXTM3U")

inject_ll_hls_tags(lines, ll) ==
  LET at == find_insertion_line(lines) IN
  SubSeq(lines, 1, at) \o ll.header \o SubSeq(lines, at + 1, Len(lines)) \o ll.tail

(* Only uris that rewrite_content_urls has not seen are still raw.          *)
rewrite_ll_hls_uris(lines) ==
  [i \in DOMAIN lines |->
     LET line == lines[i] IN
     IF line.uri.to # "raw" THEN line
     ELSE IF line.tag = "RENDITION-REPORT"
     THEN [line EXCEPT !.uri = PlaylistUri(line.uri.ref, "video")]
     ELSE [line EXCEPT !.uri = SegmentUri(line.uri.ref)]]

(************************** The media playlist *****************************)

ContentLine(d, i) == Line("SEGMENT", ContentUri(Ref(d.layout, <<"seg", i>>)), <<"seg", i>>)
AdLine(seg)       == Line("SEGMENT", AdUri(seg.brk, seg.seg), <<"ad", seg.brk, seg.seg>>)

MarkerLine(d, b) ==
  IF b = None THEN << >> ELSE <<Line("DATERANGE", AssetUri(d.length), <<"break", b>>)>>

Stitched(d) ==
  FlattenSeq([k \in DOMAIN out |->
    IF out[k].ad THEN <<AdLine(out[k])>>
    ELSE Append(PartLines(d, out[k].seg, TagsOf(out[k].seg)), ContentLine(d, out[k].seg))])

Marked(d) ==
  FlattenSeq([i \in DOMAIN marked |->
    PartLines(d, i - 1, marked[i].tags)
      \o MarkerLine(d, marked[i].brk) \o <<ContentLine(d, i - 1)>>])

Unstitched(d) ==
  FlattenSeq([i \in DOMAIN tags |->
    Append(PartLines(d, i - 1, tags[i]), ContentLine(d, i - 1))])

(* process_playlist of a subtitle track does nothing else.                  *)
Segments(d) ==
  CASE phase = "done"   -> Stitched(d)
    [] phase = "marked" -> Marked(d)
    [] OTHER            -> Unstitched(d)

serialize_playlist(lines) == <<Plain("EXTM3U"), Plain("TARGETDURATION")>> \o lines

MediaText(d) ==
  LET raw == RawLines(d)
      written == serialize_playlist(Segments(d))
  IN  IF is_ll_hls(raw)
      THEN rewrite_ll_hls_uris(inject_ll_hls_tags(written, extract_ll_hls_tags(raw)))
      ELSE written

Untouched == phase = "detect" /\ index = 0 /\ tag = 1

(* The end of serve_playlist, for a media playlist.                         *)
ServeMedia(d) ==
  /\ response = NoResponse
  /\ d.track # "master"
  /\ IF d.track = "subtitles" THEN Untouched ELSE phase \in {"done", "marked"}
  /\ response' = [d |-> d, text |-> MediaText(d)]
  /\ UNCHANGED vars

(**************************** The master playlist **************************)

TrackOf(type) ==
  CASE type = "AUDIO" -> "audio"
    [] type \in {"SUBTITLES", "CLOSED-CAPTIONS"} -> "subtitles"
    [] OTHER -> "video"

(* A rendition may have no uri.                                             *)
MasterLine(d, i) ==
  LET type == d.tail[i]
      ref  == Ref(d.layout, <<"playlist", i>>)
  IN  IF type = "IN-STREAM" THEN Plain("MEDIA")
      ELSE Line(IF type = "VARIANT" THEN "VARIANT" ELSE "MEDIA",
                PlaylistUri(ref, TrackOf(type)), <<"playlist", i>>)

ServeMaster(d) ==
  /\ response = NoResponse
  /\ d.track = "master"
  /\ Untouched /\ tags = << >>
  /\ response' = [d |-> d, text |-> <<Plain("EXTM3U")>> \o [i \in DOMAIN d.tail |-> MasterLine(d, i)]]
  /\ UNCHANGED vars

PlaylistInit == Init /\ response = NoResponse

PlaylistNext ==
  \/ response = NoResponse /\ Next /\ UNCHANGED response
  \/ \E d \in Deliveries : ServeMedia(d) \/ ServeMaster(d)

PlaylistSpec == PlaylistInit /\ [][PlaylistNext]_allVars

(************************** Properties *************************************)

Answered == response # NoResponse

(* The ways to name a file that a rewritten uri can express.                *)
Expressible(to) ==
  CASE to = "segment"  -> {"relative", "absolute", "stitched"}
    [] to = "playlist" -> {"relative", "absolute", "stitched", "queried", "up"}

Leads(d, line) ==
  LET meant == Target(OriginBase, Ref(d.layout, line.meant)) IN
  CASE line.uri.to = "segment"  ->
         (serve_segment(line.uri) = meant) <=> (d.layout \in Expressible("segment"))
    [] line.uri.to = "playlist" ->
         (serve_playlist(line.uri) = meant) <=> (d.layout \in Expressible("playlist"))
    [] line.uri.to = "direct"   -> Target(OriginBase, line.uri.ref) = meant
    [] line.uri.to = "ad"       ->
         resolve_segment_url(d.provider, line.uri.name) =
           [source |-> IF d.provider = "static" THEN "static"
                       ELSE Creatives[(line.meant[2] % NumCreatives) + 1],
            file |-> line.meant[3] % SegmentCount]
    [] line.uri.to = "assets"   ->
         LET assets == serve_asset_list(line.uri, d.provider) IN
         (AdLength(d.provider) * Len(assets) >= d.length) <=> (d.length <= MaxDur)
    [] line.uri.to = "none"     -> TRUE
    [] line.uri.to = "raw"      -> FALSE

(* Whatever the player asks for by a uri of the playlist, the stitcher      *)
(* fetches the file that the origin, or the ad provider, meant there: every *)
(* segment, part, hint, report, variant and rendition, however it is named, *)
(* but for the forms that the rewriting cannot express (hls/parser.rs       *)
(* 30-32); an asset list fills its break, but for one of over 10 minutes.   *)
UrisLead ==
  Answered => \A i \in DOMAIN response.text : Leads(response.d, response.text[i])

(* A part stands in front of its own segment.                               *)
PartsLead(text) ==
  \A i \in DOMAIN text : text[i].tag = "PART" =>
    \E j \in i .. Len(text) :
      /\ text[j].tag = "SEGMENT" /\ text[j].meant = <<"seg", text[i].meant[2]>>
      /\ \A k \in i .. j - 1 : text[k].tag # "SEGMENT"

(* Of each kind of header tag the origin's last, together, after the first  *)
(* two lines of the text.                                                   *)
HeadersInPlace(text, d, ll) ==
  LET heads == {i \in DOMAIN text : text[i].tag \in HeaderKinds}
  IN  /\ \A i, j \in heads : text[i].tag = text[j].tag => i = j
      /\ \A i \in heads : i > 2 /\ 3 .. i \subseteq heads
      /\ {text[i].meant : i \in heads} =
           {<<i>> : i \in {i \in DOMAIN d.header :
              ll /\ \A j \in DOMAIN d.header : j > i => d.header[j] # d.header[i]}}

(* The hints and reports, all of them, at the end of the text.              *)
TailsInPlace(text, d, ll) ==
  LET tails == {i \in DOMAIN text : text[i].tag \in ToSet(TailTags)}
  IN  /\ \A i, j \in tails : text[i].meant = text[j].meant => i = j
      /\ \A i \in tails : i .. Len(text) \subseteq tails
      /\ {text[i].meant : i \in tails} =
           {<<"tail", i>> : i \in {i \in DOMAIN d.tail : ll /\ d.tail[i] # "PART"}}

(* The tags that the parser drops come through, in SSAI, SGAI and subtitle  *)
(* playlists: of the header's each once and as the origin last had it,      *)
(* where the header is; the hints and reports after every segment, none     *)
(* lost or repeated; a part stays in front of its own segment.  Without     *)
(* SERVER-CONTROL, PART-INF or PART there is none of them.                  *)
LlTagsInPlace ==
  Answered /\ response.d.track # "master" =>
    LET ll == is_ll_hls(RawLines(response.d))
    IN  /\ HeadersInPlace(response.text, response.d, ll)
        /\ TailsInPlace(response.text, response.d, ll)
        /\ PartsLead(response.text)
=============================================================================
