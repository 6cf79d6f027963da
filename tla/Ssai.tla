-------------------------------- MODULE Ssai --------------------------------
(***************************************************************************)
(* Server-side ad insertion end to end: the playlist handler asks the VAST *)
(* provider for a pod per ad break and writes the names of the ad segments *)
(* into the media playlist; the player comes back for each name, and the   *)
(* ad handler resolves it in the ad cache, fires the beacons and fetches   *)
(* the creative.  The provider is module AdCache, with its cleanup task    *)
(* and its concurrent calls.                                               *)
(*                                                                         *)
(* The content of a playlist, and where in it the breaks are, is module    *)
(* HlsStitch; here a playlist is its number of breaks.                     *)
(***************************************************************************)
EXTENDS AdCache, Sequences

CONSTANTS
  Breaks,        \* ad breaks of the origin playlist
  HasSlate,      \* a slate is configured (SLATE_URL)
  SlateLen,      \* slate segments that fill one break
  MaxRequests    \* bound: playlist requests per session

ASSUME SsaiAssumption ==
  /\ Breaks \in Nat \ {0} /\ HasSlate \in BOOLEAN /\ SlateLen \in Nat \ {0}
  /\ MaxRequests \in Nat

VARIABLES
  req,       \* playlist requests in progress, by worker
  manifest,  \* session -> ad segments of the playlist last delivered
  requests   \* history: playlist requests started, by session

ssaiVars == <<req, manifest, requests>>
allVars  == <<vars, ssaiVars>>

-----------------------------------------------------------------------------
(* An ad segment as the provider returns it: its uri, and (history) the ad  *)
(* it stands for; slate segment i is the ad <<0, i>>.                       *)
BreakName(b, i) == [slate |-> FALSE, brk |-> b, seg |-> i]
SlateName(i)    == [slate |-> TRUE, brk |-> 0, seg |-> i]

(* The uris of a pod use the break index of the session's counter.          *)
PodSegments(c) ==
  [i \in 1 .. c.total |-> [uri |-> BreakName(c.brk, i - 1),
                           ad |-> <<c.decision, i - 1>>]]

(* slate_fallback: fill_duration of the slate, or an empty break.           *)
FallbackSegments ==
  [i \in 1 .. (IF HasSlate THEN SlateLen ELSE 0) |->
     [uri |-> SlateName(i - 1), ad |-> <<0, i - 1>>]]

(* Mutant: breaks counted from 1.                                           *)
StitchedNameFromOne(segment, b, i) == BreakName(b + 1, i)

(* create_media_segment_from_ad: the segment is named by the position of    *)
(* its break in the playlist and its own in the break.                      *)
StitchedName(segment, b, i) == BreakName(b, i)

(* interleave_ads, seen from the ads: every segment of every break, named.  *)
Stitched(answers) ==
  UNION {{[name |-> StitchedName(answers[b][i], b - 1, i - 1), ad |-> answers[b][i].ad]
           : i \in DOMAIN answers[b]} : b \in DOMAIN answers}

SsaiInit ==
  /\ Init
  /\ req = [w \in {} |-> 0]
  /\ manifest = [s \in Sessions |-> {}]
  /\ requests = [s \in Sessions |-> 0]

-----------------------------------------------------------------------------
(* The playlist handler                                                    *)

RequestPlaylist(w, s) ==
  /\ w \notin DOMAIN req
  /\ requests[s] < MaxRequests
  /\ requests' = [requests EXCEPT ![s] = @ + 1]
  /\ req' = Put(req, w, [session |-> s, answers |-> << >>])
  /\ UNCHANGED <<vars, manifest>>

BreaksLeft(w) == w \in DOMAIN req /\ Len(req[w].answers) < Breaks

Answer(w, segments) ==
  req' = [req EXCEPT ![w].answers = Append(@, segments)]

(* The breaks are asked for one after the other.                            *)
AskPod(w, n) ==
  /\ BreaksLeft(w)
  /\ FetchPod(w, req[w].session, n)
  /\ UNCHANGED ssaiVars

AskFallback(w) ==
  /\ BreaksLeft(w)
  /\ NoPod(w, req[w].session)
  /\ Answer(w, FallbackSegments)
  /\ UNCHANGED <<manifest, requests>>

(* The call goes on; when it returns, its segments answer the break.        *)
FillPod(w) ==
  /\ TakeBreakIndex(w) \/ CheckRoom(w) \/ Insert(w)
  /\ IF w \in DOMAIN calls' THEN UNCHANGED req
                            ELSE Answer(w, PodSegments(calls[w]))
  /\ UNCHANGED <<manifest, requests>>

DeliverPlaylist(w) ==
  /\ w \in DOMAIN req
  /\ Len(req[w].answers) = Breaks
  /\ manifest' = [manifest EXCEPT ![req[w].session] = Stitched(req[w].answers)]
  /\ req' = Restrict(req, DOMAIN req \ {w})
  /\ UNCHANGED <<vars, requests>>

(* The player goes away while the handler waits for the ad server: the      *)
(* handler is dropped.  Once the pod is there it no longer waits.           *)
AbandonPlaylist(w) ==
  /\ BreaksLeft(w)
  /\ w \notin DOMAIN calls
  /\ req' = Restrict(req, DOMAIN req \ {w})
  /\ UNCHANGED <<vars, manifest, requests>>

-----------------------------------------------------------------------------
(* The ad handler                                                          *)

KeyFor(s, name) == <<s, name.brk, name.seg>>

(* What a name resolves to: the slate by its own names, an ad by the cache. *)
Resolves(s, name) ==
  IF name.slate THEN HasSlate ELSE KeyFor(s, name) \in DOMAIN cache

ResolvedAd(s, name) ==
  IF name.slate THEN <<0, name.seg>> ELSE AdOf(KeyFor(s, name))

(* serve_ad up to the fetch: the first request of an entry takes its        *)
(* tracking, before the creative is known to arrive.  A name that does not  *)
(* resolve is answered with an error and changes nothing; neither does the  *)
(* rest of the handler.                                                     *)
StartAd(s, m) ==
  /\ Resolves(s, m.name)
  /\ ~m.name.slate
  /\ Resolve(KeyFor(s, m.name))
  /\ UNCHANGED ssaiVars

-----------------------------------------------------------------------------
Playlists ==
  \E w \in Workers :
    \/ \E s \in Sessions : RequestPlaylist(w, s)
    \/ \E n \in 1 .. MaxPod : AskPod(w, n)
    \/ AskFallback(w)
    \/ FillPod(w)
    \/ DeliverPlaylist(w)
    \/ AbandonPlaylist(w)

AdRequests == \E s \in Sessions : \E m \in manifest[s] : StartAd(s, m)

Background == (Cleanup \/ Tick) /\ UNCHANGED ssaiVars

SsaiNext == Playlists \/ AdRequests \/ Background

SsaiSpec == SsaiInit /\ [][SsaiNext]_allVars

(* A playlist request keeps going: the fetches time out, the maps do not    *)
(* block.                                                                   *)
Progress(w) == AskFallback(w) \/ FillPod(w) \/ DeliverPlaylist(w)

SsaiFairSpec == SsaiSpec /\ \A w \in Workers : WF_allVars(Progress(w))

-----------------------------------------------------------------------------
(* Properties                                                              *)

(* Whenever the cache holds something under the name m, it is the ad the   *)
(* name was written for.                                                    *)
NameMeans(s, m) == Resolves(s, m.name) => ResolvedAd(s, m.name) = m.ad

(* As many pods as breaks.                                                  *)
AllBreaksFilled(s) == Cardinality({m.ad[1] : m \in manifest[s]} \ {0}) = Breaks

(* The playlist counts breaks by position, the cache by the session's       *)
(* counter.  The two agree for the first playlist of a session if the ad    *)
(* server fills every break and the counter is not dropped meanwhile: then  *)
(* each name in it resolves to the ad decided for it, or to nothing.        *)
FirstPlaylistFaithful ==
  \A s \in Sessions :
    requests[s] = 1 /\ epoch[s] = 0 /\ AllBreaksFilled(s)
      => \A m \in manifest[s] : NameMeans(s, m)

(* A playlist request is answered whatever the ad server says and however   *)
(* full the ad cache is.                                                    *)
PlaylistsAnswered ==
  \A w \in Workers : (w \in DOMAIN req) ~> (w \notin DOMAIN req)

(* Doc, provider.rs:74-79: the ad handler takes "ad segment identifier[s]   *)
(* from the playlist" and gets "the actual URL" from the provider; and      *)
(* vast_provider/mod.rs:105-106: empty or failed VAST answers "will fall    *)
(* back to serving slate segments".                                         *)
NamesResolveToTheirAd ==
  \A s \in Sessions : \A m \in manifest[s] :
    /\ NameMeans(s, m)
    /\ m.ad[1] = 0 => Resolves(s, m.name)
=============================================================================
