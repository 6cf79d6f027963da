---------------------------- MODULE DashManifest ----------------------------
(* The end of the DASH manifest handler, after the stitching of DashStitch: *)
(* rewrite_dash_urls (src/src/dash/parser.rs) resolves the BaseURLs of the  *)
(* MPD, its periods, adaptation sets and representations, takes them away   *)
(* and puts what they come to into the SegmentTemplates, as the origin of   *)
(* the segment handler.                                                     *)
(*                                                                          *)
(* An addressing is what the origin's MPD says of this: the BaseURLs of the *)
(* MPD, of its periods and of the two levels below, which level has the     *)
(* SegmentTemplate ("rep", "set", or "none" of them), and the media in it.  *)
(* A period, and a track of it, take theirs in turn.  An initialization is  *)
(* rewritten as the media is.                                               *)
EXTENDS DashStitch, StitchUrls

CONSTANTS
  Parts,       \* names of hosts, directories and files
  Addressings

Query == <<"?">>

(* How the MPD names a directory or a file.  A '/' at the end is an empty   *)
(* last part, Root.  Left out are "..", a host alone, and two slashes.      *)
Url == {ref \in [absolute : BOOLEAN, parts : Seq(Parts), query : BOOLEAN] :
          /\ ref.parts # << >>
          /\ {Up, Query} \cap ToSet(ref.parts) = {}
          /\ ref.absolute => Head(ref.parts) # Root /\ Len(ref.parts) > 1 /\ ref.parts[2] # Root
          /\ Head(ref.parts) = Root => Len(ref.parts) > 1
          /\ \A k \in 2 .. Len(ref.parts) - 1 : ref.parts[k] # Root}

Track == [set : Seq(Url), rep : Seq(Url), at : {"rep", "set", "none"}, media : Url]

ASSUME PartsAssumption == ToSet(OriginBase) \cup {Root, Query} \subseteq Parts

ASSUME AddressingsAssumption ==
  \A a \in Addressings :
    /\ a.mpd \in Seq(Url)
    /\ a.periods \in Seq(Seq(Url)) /\ a.periods # << >>
    /\ a.tracks \in Seq(Track) /\ a.tracks # << >>

VARIABLE response

allVars == <<vars, response>>

NoResponse == << >>

-----------------------------------------------------------------------------
(* rewrite_dash_urls                                                        *)

(* The text of a url: what its query says comes after its last part.        *)
Text(ref) == IF ref.query THEN Append(ref.parts, Query) ELSE ref.parts

trim_start(text) == IF Head(text) = Root THEN Tail(text) ELSE text
trim_end(text)   == IF Last(text) = Root THEN Front(text) ELSE text

(* Of relative its own '/' at the end stays, and so does its query.         *)
compose_url(base, relative) ==
  IF relative.absolute THEN Text(relative)
  ELSE trim_end(base) \o trim_start(Text(relative))

(* Of several BaseURLs the first counts.                                    *)
Inherit(base, urls) == IF urls = << >> THEN base ELSE compose_url(base, Head(urls))

InTurn(list, n) == list[((n - 1) % Len(list)) + 1]

PeriodUrls(a, i) == InTurn(a.periods, i)
TrackOf(a, i, t) == InTurn(a.tracks, i + t)

(* Wrong: the BaseURL of the MPD is taken away before it is read.           *)
MpdBaseCleared(a) == OriginBase

MpdBase(a)              == Inherit(OriginBase, a.mpd)
PeriodBase(a, i)        == Inherit(MpdBase(a), PeriodUrls(a, i))
AdaptationBase(a, i, t) == Inherit(PeriodBase(a, i), TrackOf(a, i, t).set)
ReprOrigin(a, i, t)     == Inherit(AdaptationBase(a, i, t), TrackOf(a, i, t).rep)

rewrite_segment_template(ref, base) ==
  [to |-> "segment", path |-> ref.parts, origin |-> base, query |-> ref.query]

TrackUri(a, i, t) ==
  LET media == TrackOf(a, i, t).media IN
  CASE TrackOf(a, i, t).at = "rep" -> rewrite_segment_template(media, ReprOrigin(a, i, t))
    [] TrackOf(a, i, t).at = "set" -> rewrite_segment_template(media, AdaptationBase(a, i, t))
    [] OTHER                       -> NoUri

(* The tracks of an ad period have neither BaseURLs nor templates.          *)
RewrittenPeriod(a, p) ==
  [ad |-> p.ad, id |-> p.id,
   uris |-> [t \in DOMAIN p.tracks |-> IF p.ad THEN NoUri ELSE TrackUri(a, p.id, t)]]

rewrite_dash_urls(a) == [k \in DOMAIN mpd |-> RewrittenPeriod(a, mpd[k])]

ServeManifest(a) ==
  /\ phase = "done"
  /\ response = NoResponse
  /\ response' = [origin |-> a, periods |-> rewrite_dash_urls(a)]
  /\ UNCHANGED vars

ManifestInit == Init /\ response = NoResponse

ManifestNext ==
  \/ Next /\ UNCHANGED response
  \/ \E a \in Addressings : ServeManifest(a)

ManifestSpec == ManifestInit /\ [][ManifestNext]_allVars

-----------------------------------------------------------------------------
(* Properties                                                               *)

Answered == response # NoResponse

(* The directory that a level reads its urls in, by ISO/IEC 23009-1 5.6 and *)
(* RFC 3986: of the BaseURL, what is before the last '/'.                   *)
InDirectory(base, urls) == IF urls = << >> THEN base ELSE Front(Resolved(base, Head(urls)))

(* The BaseURLs from the MPD down to the level of the track's template.     *)
Bases(a, i, t) ==
  <<a.mpd, PeriodUrls(a, i), TrackOf(a, i, t).set,
    IF TrackOf(a, i, t).at = "rep" THEN TrackOf(a, i, t).rep ELSE << >> >>

(* The directory of the template by all of them.                            *)
MeantBase(a, i, t) ==
  LET bases == Bases(a, i, t)
  IN  InDirectory(InDirectory(InDirectory(InDirectory(OriginBase, bases[1]), bases[2]),
                              bases[3]), bases[4])

(* No level has a BaseURL.                                                  *)
Bare(bases) == \A l \in DOMAIN bases : bases[l] = << >>

(* A BaseURL that the code takes as the standard does: it ends in '/', has  *)
(* no query, and does not start from the root of its host.                  *)
Plain(ref) == Last(ref.parts) = Root /\ ~ref.query /\ Head(ref.parts) # Root

(* Every other one is above one that is absolute, which overrules it.       *)
Resolvable(bases) ==
  \A l \in DOMAIN bases :
    bases[l] # << >> /\ ~Plain(Head(bases[l])) =>
      \E k \in DOMAIN bases : k > l /\ bases[k] # << >> /\ Head(bases[k]).absolute

(* The media the code can rewrite.                                          *)
InTemplate(ref) == ~ref.absolute /\ ~ref.query /\ Head(ref.parts) # Root

Reaches(uri, resource) == uri.to = "segment" /\ serve_segment(uri) = resource

(* Whether the uri of a track leads to its media in the template's own      *)
(* directory, and whether it does after a second '/'.                       *)
TrackReached(a, i, t, uri) ==
  LET track == TrackOf(a, i, t)
      bases == Bases(a, i, t)
      meant == MeantBase(a, i, t)
  IN  IF track.at = "none" THEN uri = NoUri
      ELSE /\ Reaches(uri, Target(meant, track.media)) <=> InTemplate(track.media) /\ Bare(bases)
           /\ Reaches(uri, Target(Append(meant, Root), track.media)) <=>
                InTemplate(track.media) /\ ~Bare(bases) /\ Resolvable(bases)

(* Wherever ad periods were put in between, each track of each period of    *)
(* the origin keeps its own segments.  Without BaseURLs they are fetched    *)
(* from where the MPD says.  With BaseURLs they are fetched from there but  *)
(* for a second '/' before the file, which the segment handler puts after   *)
(* the one that compose_url leaves (segment.rs:106), however the BaseURLs   *)
(* of the levels combine; so only a server that takes two slashes for one   *)
(* has the file.  No other form leads there: not a BaseURL without a '/' at *)
(* the end, with a query or from the root, unless an absolute one overrules *)
(* it, and not media that is absolute, from the root, or has a query.  A    *)
(* BaseURL below the level of the template is lost.                         *)
TracksReachOrigin ==
  Answered =>
    LET a         == response.origin
        content   == {k \in DOMAIN response.periods : ~response.periods[k].ad}
        Period(k) == response.periods[k]
    IN  /\ {Period(k).id : k \in content} = DOMAIN origin
        /\ \A k \in content :
             LET i == Period(k).id IN
             /\ DOMAIN Period(k).uris = DOMAIN origin[i].tracks
             /\ \A t \in DOMAIN origin[i].tracks :
                  TrackReached(a, i, t, Period(k).uris[t])
=============================================================================
