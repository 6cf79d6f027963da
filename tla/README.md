# ritcher in TLA+

ritcher is an ad-stitching proxy for live streams: it fetches an origin HLS or DASH manifest,
finds the ad breaks in it, asks an ad server (VAST) for creatives, and hands the player a
manifest with the ads in (SSAI) or with pointers to them (SGAI). This directory holds TLA+
models of it, TLC configurations that check them on small instances, and TLAPS proofs of the
safety properties that matter most.

Paths below are relative to `src/src/` unless they start with `src/`. `PROJECT.json` maps every
definition to the lines it models.

## 1. The system

| part | state | operations | talks to |
|---|---|---|---|
| VAST ad cache (`ad/vast_provider/mod.rs`, `cache.rs`) | two DashMaps: `ad_cache` (name -> creative, visited flag, time) and `break_counter` (session -> next break) | `get_ad_segments` fills, `resolve_segment_with_tracking` reads and marks, `run_cleanup_cache` evicts | playlist handler, ad handler, cleanup task |
| SSAI pipeline (`server/handlers/playlist.rs`, `ad.rs`, `ad/slate.rs`) | none of its own; the player holds the names it was given | fetch, detect breaks, ask for ads, interleave, serve; resolve a name, fire beacons, fetch the creative | provider, interleaver, tracking, manifest cache |
| HLS breaks and interleaver (`hls/cue.rs`, `ad/interleaver.rs`) | loop variables | `detect_ad_breaks`, `interleave_ads` | playlist handler |
| SGAI for HLS (`hls/interstitial.rs`, `server/handlers/asset_list.rs`) | dates and markers of the segments | `ensure_program_date_time`, `inject_interstitials`, `remove_cue_tags`, the asset list | playlist handler, player |
| HLS parsing and rewriting (`hls/parser.rs`), LL-HLS (`hls/ll_hls.rs`) | the text of a playlist | `rewrite_master_urls`, `rewrite_content_urls`; extract, inject and rewrite the low-latency tags | playlist and segment handlers |
| DASH (`dash/cue.rs`, `interleaver.rs`, `sgai.rs`, `parser.rs`) | loop variables, the MPD as it is changed | detect, interleave periods, callbacks, strip; resolve BaseURLs into templates | manifest and segment handlers, provider |
| Providers (`ad/provider.rs`) | none (static, demo) | how many segments fill a break, which file a name stands for | playlist, manifest, ad and asset-list handlers |
| VAST parser (`ad/vast/`) | the position of an XML reader | one function per element; the choice of a media file | VAST fetch |
| VAST fetch (`ad/vast_provider/fetch.rs`, `http_retry.rs`) | the recursion | fetch with retries, follow wrappers | ad server, parser |
| Tracking (`ad/tracking.rs`) | a global semaphore; spawned tasks | `events_for_segment`, `fire_*` | ad handler |
| Origin manifest cache (`cache.rs`) | DashMap url -> body, time | `get` (with lazy eviction), `insert` | both manifest handlers |
| Rate limiter (`server/rate_limit.rs`) | DashMap client -> count, window start | `check`, `cleanup` | middleware, cleanup task |
| Sessions (`session/manager.rs`) | a DashMap, or keys of Valkey with a time to live | `get_or_create`, `touch`, `get`, `remove`, `cleanup_expired`, `session_count` | cleanup task, `/health` |
| Lifecycle, configuration (`config.rs`, `server/state.rs`, `server/mod.rs`, `main.rs`) | the environment, the tasks, a cancellation token | start, serve, signal, drain | everything |
| Conditioning, URL validation, DNS, metrics, health, demo pages | counters at most | pure functions | |

What makes it hard:

* **Interleaving.** Every map is a DashMap: an operation is atomic, two are not. The length check
  and the insert of the ad cache, the snapshot and the removals of its cleanup, the list of active
  sessions and the retention of their counters, the stale entry and its removal from the manifest
  cache are pairs of operations with requests running in between; so are GET and SET, and GET and
  DEL, on a Valkey that several servers share.
* **Nothing is kept from playlist to playlist.** Every window of a live stream is stitched from
  nothing. Breaks are named by their position in it, the ad cache counts the breaks of a session's
  whole life, and the player joins the windows by segment numbers that nobody adjusts.
* **One writes, another reads.** A uri is written by one handler and read by another; a low-latency
  tag is cut out of one text and put into another; a BaseURL is removed at one level and needed at
  the next; an XML element is read by a function that stops at the first end tag of its name.
* **Partial failure.** Any wrapper of a VAST chain, any creative, any origin fetch, any command to
  Valkey can fail, after some of its effects have been made. A player may go away at any `await`,
  which drops its handler; a process may be killed while Valkey keeps its sessions.
* **Time.** TTLs, windows and timeouts are measured from instants read before a lock or an `await`.
* **Edges of small integers.** Quartiles of short pods, adjacent and empty breaks, cues that repeat
  or are missing, `usize` differences of lengths measured at different moments.
* **Progress.** One task does all eviction; one semaphore throttles all beacons; the drain waits for
  every request, without a deadline, and a `/health` waits for Valkey without one.

What makes each part correct is the list of properties in section 3. The hazards, line by line and
with the properties that cover them, are in `PROJECT.json`.

## 2. The modules

Every operation on a shared map is one action, so that two operations of one function can be
separated by anything. Definitions with a comment `Mutant:` or `Wrong:` are wrong variants, placed
next to the definition they replace and used by nothing; they show that a property can fail.

```
AdCache <- Ssai                                   StitchUrls   AdProviders
HlsStitch <- HlsPlaylist <- LiveHls               (used by HlsPlaylist; StitchUrls also by DashManifest)
DashStitch <- DashManifest
VastMedia <- VastParser <- VastDocument <- VastDelivery
VastMedia <- VastFetch <- VastDelivery
SessionManager <- Server -- implements --> SessionStore
ManifestCache   RateLimiter   Tracking
```

**AdCache** -- the ad cache with its three users. `calls[w]` is a `get_ad_segments` call that
already holds a pod (`pc` is what it does next: take the break index, check the room, insert);
`cleaner` is `run_cleanup_cache`, one `pc` per map operation, with the length it measured, the keys
it chose and the sessions it found active; `"dead"` is the task after a panic. A pod from the ad
server is a numbered *decision*, a creative is `<<decision, index>>`. `handed` and `epoch` are
history: how often the tracking of a creative was handed out, and how often a session's counter was
dropped.

**Ssai** EXTENDS AdCache -- the playlist handler (`req`: which breaks have been answered) and the ad
handler. `manifest` is what the player holds: the name of each ad segment together with the ad it
was written for. `AskFallback` covers an empty answer and a failed fetch, with or without a slate.
`AbandonPlaylist` covers a player that goes away.

**HlsStitch** -- `detect_ad_breaks`, `interleave_ads` and `inject_interstitials`, loop for loop, over
a playlist in which each segment carries a list of tags. In SSAI mode `AskAds` gives each break any
number of ads, none included. In SGAI mode `EnsureDates` takes the origin's dates of any set of
segments, or makes dates up when there are none; `MarkBreak` puts a marker on the first segment of a
break, with the time `DateAt` sums up for it, in place of a daterange that the origin may have put there (a segment has one), and
`StripCues` takes the CUE tags away. The origin's dates run ahead of the durations, so that it matters from which date the sum starts.

**StitchUrls** and **AdProviders** -- pure: urls as sequences of parts and what the segment handler
makes of a rewritten one; how many segments the static and demo providers put into a break, and
which file a name stands for.

**HlsPlaylist** EXTENDS these three -- the playlist handler around the stitching. A text is a sequence
of lines; each line keeps what the origin, or the ad decision, *meant* it to be. `ServeMedia` takes
the low-latency tags aside, rewrites every uri, writes the text and puts the tags back;
`ServeMaster` rewrites variants and renditions. The handlers that the player then asks
(`serve_segment`, `serve_playlist`, `serve_asset_list`) are operators on the rewritten uri. Dateranges of the origin are
followed in HlsStitch and are no lines of the text.

**LiveHls** EXTENDS HlsPlaylist -- either one playlist by itself (`live = Vod`), or a live stream whose
playlists are windows of it. `Refresh` is the player's next request: the window moved, the handler
starts anew. `Play` goes on by segment numbers, `Show` collects markers by id. The provider gives the
same pod for a break each time, as the static and the demo provider do, and the VAST provider does
not have to.

**DashStitch** -- the DASH manifest handler from the parsed MPD to the stitched one. `period`, `stream`
and `event` are the position of the scan; in SSAI mode `AskAds` fills the breaks and `brk` counts
them down while `mpd` grows; in SGAI mode `todo` holds the periods whose callbacks the hash map has
yet to give, in any order. `ResolvedType` is what the ad handler makes of the name of an ad track.

**DashManifest** EXTENDS DashStitch -- `rewrite_dash_urls`: BaseURLs at the four levels, each of several
layouts, and a template at either of two. Urls are kept as their text: a `/` at the end is an empty last part (`Root`), what a BaseURL's
query says is a part behind it (`Query`), and `compose_url` joins them as they are. `MeantBase` is the directory that the origin's MPD
leads to by RFC 3986.

**VastParser** -- each function of the parser is the table of its match arms (`InLineArms`, ...): which
element calls which function, and how the result is kept. The calls in progress are a stack, folded
over the reader's events. **VastMedia** is the choice of a creative's media file. **VastDocument** writes
documents as the VAST schema has them and says what they mean (`Meaning`), the reference for the parser.

**VastFetch** -- `fetch_vast` as a stack of frames on top of `fetch_with_retry`. What `parse_vast` makes of
each document is a constant (`Parsed`, of the types of `ad/vast/types.rs`); any document may be at any tag, wrappers
that lead to themselves or to each other included. **VastDelivery** EXTENDS it with the documents themselves: `Parsed` is
what VastParser makes of them. VastFetch has no RECURSIVE operator, so that it can be proved about.

**Tracking** -- which beacons segment `i` of a pod of `total` fires, and the tasks that wait for a permit
(`waiting`), hold one (`sending`) and give it back. Thresholds are compared in integers:
`i/(n-1) >= q/4` is `4i >= q(n-1)`; multiples of a quarter and the quotients that meet them are exact in
floating point.

**ManifestCache** -- `ManifestCache::get` in two steps (the removal of a stale entry comes after its guard
is dropped), `insert`, and the requests of the two handlers around them: plain, with `_HLS_skip` (the
answer may be a delta update), with `_HLS_msn` (bypasses the cache, and the origin holds the answer
back). The origin is live (`Publish`, external).

**RateLimiter** -- the clock is read (`ReadClock`) before the client's entry is locked (`Decide`); the
cleanup removes expired windows one client at a time. `attempts` (when the client made its requests), `admitted` and `rejected` are
history.

**SessionStore** -- what callers are promised: each call takes effect at one instant between its begin and
its return; a session leaves when a caller removes it, when its time is over, or when the process that
held it ends. **SessionManager** -- both backends: in memory an operation holds the lock of its entry and
is one action, the cleanup visits the entries one at a time with an old clock; with Valkey an operation
is a GET, then a SET, DEL or EXPIRE, each of which may fail. **Server** EXTENDS SessionManager -- the
process around it: `Launch` reads an environment, `Build` builds the state, or `Panics` over the first thing it lacks, tasks are spawned,
`Bind` may fail, requests arrive (`Arrives`) until `Signal`, tasks stop, `Exit` when no request is under way;
`Kill` at any time, and another launch after it, on the same Valkey. A request is what it waits for: a handler, which ends
(`Handled`), the count of the sessions, which with Valkey is Valkey's to end (`Counted`), or its client (`Taken`). The calls of the
session manager (`CallBegins`) are apart from the requests, since no route makes one; the drain does not wait for them. In the refinement the store of a
process without sessions in memory (none running, or Valkey) is empty, and the start and the end of a process are
`Restart`s of the abstract store.

## 3. The runs

`pass` runs explore their whole state space. `SPECIFICATION FairSpec` adds the fairness of section 4 and
removes no behaviour, so the invariants of such a run are those of the plain specification.

| run | what it shows |
|---|---|
| `ad_cache` | the cache overshoots its limit by fewer entries than there are concurrent calls (`BoundedOvershoot`); tracking is handed out at most once (`TrackedAtMostOnce`); a break never mixes two decisions and no live entry is overwritten unless the cleanup dropped the counter (`NoMixedBreak`, `NoOverwriteWithinEpoch`); old entries and idle counters keep leaving (`StaleEntriesLeave`, `IdleCountersLeave`) |
| `ssai` | the names in the first playlist of a session resolve to their ads (`FirstPlaylistFaithful`); playlists are answered even when the cache is full (`PlaylistsAnswered`) |
| `hls_stitch` | detection agrees with "the last cue decides" on every playlist (`DetectionExact`); breaks are ordered (`BreaksInOrder`); the stitched playlist is the intended one if filled breaks do not touch (`StitchedAsIntended`), and in any case has every ad once and in order (`AdsInOrder`); in SGAI mode each break with content and a known time has its own marker at that time, no other segment has one, and what is lost is the cues, and the origin's daterange under a marker (`MarkersExact`); every uri of the served text leads to the file that was meant, except for the forms the rewriting cannot express (`UrisLead`); the low-latency tags come through, each once and in its place (`LlTagsInPlace`); over the windows of a live stream a player plays every place once and a break, once begun, to its end, if the ads are as many as the segments they replace and no break starts where one ends (`PlaysThrough`), and a marker keeps its date (`MarkersStay`) |
| `dash_stitch` | at every point of the scan the breaks are the valid events before it (`DetectionExact`); each break still to be filled finds its signal period at its index, whatever was inserted (`SignalsStay`); the stitched MPD is the origin's with the ad periods of each period's own breaks after it (`InterleavedAsIntended`); callbacks take the place of the SCTE-35 streams and of nothing else (`CallbacksExact`); without BaseURLs each track's segments are fetched from exactly where the MPD says, with plain ones, however they combine, from there but for a doubled slash, and with others from neither (`TracksReachOrigin`) |
| `manifest_cache` | nothing is served older than a fetch timeout and a TTL (`BoundedStaleness`); a blocking reload gets the version it asked for (`BlockingGetsItsVersion`); every request ends (`RequestsAnswered`) |
| `rate_limiter` | over any stretch of a window's length at most `3 * Limit - 1` requests get through (`SlidingBound`; the bound is `2 * Limit` when a check waits at most a tick for its lock); a client that makes no more than `Limit` requests in any stretch of a window and the delay, by its own times, is never rejected (`PoliteNeverRejected`) |
| `tracking` | each beacon is spawned once (`FiredAtMostOnce`), each event by exactly one segment of the pod (`EachEventByOneSegment`), permits are conserved (`TypeOK`), and the tasks come to their end (`BeaconsLeave`) |
| `vast_fetch` | documents are read as what they say, and one that breaks off as far as the parser's functions get (`ParserExact`); whatever fails, no playable creative that arrived is lost, repeated, reordered, given another chain's tracking or another than its best file (`NothingLost`); requests are bounded (`FetchesBounded`) |
| `server` | a configuration that `from_env` accepts starts, but for an http client that cannot be built, a machine without name servers in production, Valkey where it is asked for, and VAST asked for by name without its endpoint (`StartsAsConfigured`); sessions in memory implement the abstract store (`MemoryImplementsStore`); Valkey loses a live session to a caller that removes it or to two races only (`OnlyRacesLose`); a signal ends the process unless a client never takes its answer or Valkey never ends the count of a `/health` (`ShutsDown`); a session nobody touches leaves (`StaleSessionsLeave`) |

Three runs check a sentence of the code's own documentation and find a behaviour of the code that breaks it:

| run | sentence | behaviour |
|---|---|---|
| `ssai_names` | "empty VAST responses or VAST failures will fall back to serving slate segments" (ad/vast_provider/mod.rs:105), and the identifiers of the playlist get "the actual URL" (ad/provider.rs:74) | the interleaver renames every segment by the position of its break: slate segments get names the cache does not hold (with `HasSlate = TRUE`), and from the second playlist of a session on the names resolve to earlier pods (with `HasSlate = FALSE`) |
| `dash_names` | a track-type prefix is in the names "so the ad provider can resolve them to the correct demuxed files" (dash/interleaver.rs:109) | the keys of the VAST ad cache and the parser of the static provider have no prefix: only the demo provider resolves DASH names (with `Provider = "demo"` `NamesResolve` holds) |
| `manifest_cache_key` | the cache "deduplicates identical origin fetches" (cache.rs:3) | a delta update fetched with `_HLS_skip` is cached under the plain url, and a player that did not ask for one gets it (`DeltasOnlyWhereAsked`) |

Met while modelling, and stated as a premise or an exception of a property, or not at all:

* **Live HLS.** `EXT-X-MEDIA-SEQUENCE` and the discontinuity sequence stay the origin's although a break has
  fewer or more ads than segments (ad/interleaver.rs:109): when it leaves the window the numbers shift,
  and a player repeats or skips content. This is the premise `Matched` of `PlaysThrough`: without it, and
  with any number of ads in `Pods`, the property fails. Its other premise, `CuesApart`, is that no segment both ends a break and
  starts one: the segment behind a break is copied before the next break is looked at, so that the ads of that one come a
  number late. Three 10 s ads for five 6 s segments are the static provider's
  normal case. Marker ids count the breaks of one window (hls/interstitial.rs:125), so the next break takes the id of one that
  has left, and synthetic dates start again at each window's first segment: the premise of
  `MarkersStay`. CUE-OUT-CONT, which src/README.md:18 lists among the detected tags, is only logged. After a
  break the next segment is copied without a look at the next break (ad/interleaver.rs:85): the premise of
  `StitchedAsIntended`. A break without a known time loses its tags and gets no marker. A marker overwrites the EXT-X-DATERANGE that the
  origin put on the first segment of the break (hls/interstitial.rs:136).
* **HLS uris.** Names with a query lose their origin (the comment at hls/parser.rs:30 knows), names with
  `..` or from the root do not come through, names with `/stitch/` in them are taken for the stitcher's own; a rendition
  report never carries the track. Parts after the last segment, the ones a low-latency player waits for, are
  dropped. A playlist with none of SERVER-CONTROL, PART-INF and PART loses its other low-latency tags. The asset list refuses more
  than 600 s, which a CUE-OUT may have, and names .ts files of the static provider that its sources do not have. A CUE-OUT of infinite
  duration, or `AD_SEGMENT_DURATION=0`, asks for `usize::MAX` segments (ad/provider.rs:205).
* **DASH.** `compose_url` joins urls "avoiding double slashes" (dash/parser.rs:27), but a BaseURL's own `/` at the end stays, as it must,
  and the segment handler puts another behind it (server/handlers/segment.rs:106): `dir//seg`, which many servers take for `dir/seg`, and
  some do not. A query in a BaseURL ends up in the middle of the segment's url (`dir/?tok=1/seg`), and a BaseURL without a `/` at its end is
  taken for a directory: the premises `Plain` and `Resolvable` of `TracksReachOrigin`. A template of an AdaptationSet ignores the BaseURL of
  its representations, as it should; that BaseURL is then lost for what it was for. Absolute media, media with a query,
  BaseURLs from the root, SegmentList and SegmentBase lose the origin. An audio track
  without contentType gets the video's ad files. Only the first ad segment's duration counts, whole seconds
  of it; starts of later periods are not shifted; the demo provider's DASH files of breaks of over ten segments overlap.
* **Ad cache.** The cleanup lists the active sessions before it retains the counters (ad/vast_provider/cache.rs:56), so a
  session whose first entry arrives in between, or whose call holds an index and has inserted nothing yet, numbers from 0
  again, over live entries: the `epoch` of AdCache. `before - after` (cache.rs:44) panics in a build with overflow checks
  when inserts outnumber evictions (with `OverflowChecks = TRUE` `StaleEntriesLeave` fails). `MAX_CACHE_SIZE`, "enforced at
  insert time", can be overshot. The events of a pod are spread over its creatives, impressions are the first one's alone, and the error urls
  of wrappers are dropped.
* **Manifest cache.** Concurrent misses each fetch, although cache.rs:4 speaks of thundering herds; the eviction of a
  stale manifest can remove a fresh one; entries never asked for again stay.
* **Rate limiter.** "{} requests/min per IP" (server/state.rs:157) is per window, not per minute: two windows meet in one minute. A client that keeps the
  limit by its own clock can be rejected when a check waits for its entry and is counted with later ones; hence the `Window + Delay` in
  `PoliteNeverRejected`.
* **Sessions and lifecycle.** No handler calls the session store: only the cleanup task and `/health` use it, which
  therefore reports no active session (src/README.md:213). With Valkey, a GET that fails or cannot be read is a miss, and the SET after it
  overwrites a live session; a time to live of 0 stores nothing. `AD_PROVIDER_TYPE=vast` without `VAST_ENDPOINT` warns of
  "falling back to static ads" (config.rs:199) and then panics (server/state.rs:110). The drain has no deadline of its own, and neither has the
  connection to Valkey (session/manager.rs:83 takes the defaults): a `/health` that waits for a Valkey which does not answer holds a server
  that was told to stop, and all later signals go unheard. That is the premise of `ShutsDown`. A port that
  cannot be bound ends the process without the cancellation of the tasks.

### Bounds

* `ad_cache`: one session, two workers, two pods of up to two creatives, capacity 2, one tick with
  `MAX_AGE` = 1. Two workers are what a race needs; four creatives against two places give an overshoot, a trim
  and a refused insert; one tick is what an entry needs to get old. Sessions meet only in the capacity and in
  the cleanup's list of active ones; the proofs are for any number of them.
* `ssai`: one worker, two breaks, two playlists, two pods, capacity 3 against up to four creatives, with a slate.
  `ssai_names` has one break in two playlists, which is what it takes.
* `hls_stitch`: every playlist of up to four segments, each with no tag, a CUE-OUT, a CUE-IN among ignored tags, two cues in either order, or a
  break begun, ended and begun again, and up to two ads per break; in SGAI mode every set of dated segments, and dateranges of the origin on none of them or on every other. Four segments hold two breaks with content
  before, between or after, adjacent ones, empty ones and ones cut off by either end. Each stitched playlist is then
  served in three ways, and the unstitched ones as subtitles and masters, with all six layouts of urls. Live: all streams of five segments
  with a cue or none each, every sequence of windows of up to three segments, breaks of up to two ads, dates in the second segment, in the fourth,
  in both or in none; a window then loses the start of a break, its end, or both, and the date it was dated by.
* `dash_stitch`: up to three periods, each without streams, with one break, two in one stream behind an event that is none,
  two in two streams around a stream of another scheme, or only an invalid event; with and without tracks. Six breaks in one
  MPD, several per period, any of them without ads. Each finished MPD is then addressed in 38 ways, each kind of BaseURL above and below each
  other, with a `/` at its end and without, with a query, and templates at both levels. `dash_names` has one period.
* `manifest_cache`: two workers on one url (urls share nothing), two versions, TTL 2, fetch timeout 1, three
  ticks: a body fetched late, cached, and asked for until after its TTL.
* `rate_limiter`: one client (clients share nothing), two workers, `Limit` 2, window 4, delay 2, seven requests in
  seven ticks: three windows meet one stretch of four ticks, and the bound of 5 is reached.
* `tracking`: one permit, pods of one to three creatives, two requests in flight. Three is the shortest pod in
  which the quartiles fall on different segments; the theorems cover all lengths.
* `vast_fetch`: two tags, depth 2, two attempts. The endpoint has any document of up to two of four ads (an InLine ad with
  companions only, one with playable and unplayable creatives, wrappers to either tag); the other tag has a single ad, or a longer document
  whole, cut after any event, or within one.
* `server`: two processes one after the other, two callers, one id (ids share nothing but the cleanup's visit), two
  sessions, two ticks against a time to live of one or none, two requests, and two of the calls and requests at once (`MaxBusy`): two calls
  are what a race needs, and two requests, or one beside a call, what the drain has to tell apart. The environments are all values of the
  settings that make a configuration complete, on a machine with name servers and without, and with the defaults of development all choices
  of provider, store and task.

Counters that grow for ever in the code are capped by `MaxDecisions`, `MaxTime`, `MaxRequests`, `MaxPending`, `MaxAttempts`,
`MaxVersion`, `MaxSessions`, `MaxLaunches`, `MaxBusy` in guards; those guards are marked `bound` where the constant is declared. `hls_stitch`,
`dash_stitch`, `dash_names` and `vast_fetch` run to an end, and `server` stops for good when its last process has ended, so they
switch off the deadlock check; all others keep it.

## 4. Fairness

* `AdCache`: `WF(Cleanup)`. The task loops on a timer and takes no lock across a step. Nothing is
  assumed of requests: the two liveness properties hold although requests never need to make a step.
* `Ssai`: `WF(Progress(w))` per playlist request. Fetches time out and the map operations do not block. Players and the
  cleanup owe nothing.
* `ManifestCache`: `WF(Handle(w))`. The http client has a total timeout; this is what ends a blocking reload
  for a version that is never published. The origin owes nothing.
* `Tracking`: `WF` on "some waiting task takes a free permit" and on "some send ends": the
  semaphore wakes a waiter when a permit is free, and a beacon has a timeout of 2 s. That the semaphore is
  first in, first out is not used.
* `Server`: `WF(Cleanup)` (a timer), `WF(Handled(r))` (all that a handler awaits, but for Valkey, is the http client, which has a
  total timeout, and each is asked a bounded number of times), `WF(Exit)` (a drained server returns). Valkey owes nothing, since no response
  timeout is set for it, and neither do clients; `ShutsDown` says of both what it needs. The callers of the session manager owe nothing.
  Nobody has to send a signal, and the clock owes nothing.

`HlsStitch`, `LiveHls`, `DashStitch`, `VastFetch` and `RateLimiter` have no liveness property: their loops are over lists that are
fixed when they start, or they wait for nothing.

## 5. The proofs

For every value of the constants, from the named `ASSUME`s of the modules only (capacity, pod length, TTL, limits, bounds
and permits are natural numbers, workers and callers are finite sets). Each follows the pattern `Init => Inv`,
`Inv /\ [Next]_vars => Inv'`, `Inv => Property`, with one lemma per action.

**SsaiProofs, the ad cache.** Four strengthenings, stated at the end of `AdCache.tla`:
`LenInv` counts a call between its check and its insert as an entry already: this makes the bound inductive
(`TypeCorrect`, `Overshoot`). `IndexInv` says that an index of the counter's present epoch is below the counter and belongs to one
call at a time; dropping the counter starts an epoch, so old indices cannot meet new ones
(`BreaksUnmixed`, `NoOverwrite`). `DecisionInv` says that a decision lives in one break and its call has yet to insert
what it has not passed; `HandedInv` builds on it: once its tracking is out, a creative is visited wherever it is cached and will
not be inserted again, whatever is trimmed, overwritten or aged meanwhile (`TrackedOnce`).

**SsaiProofs, the handlers.** `SsaiImplementsAdCache`: the handlers take only the steps of `AdCache`, so all of its theorems hold under them
(`SsaiCacheBounds`). `FirstPlaylistNamed`: the name of an ad counts breaks by their position in the playlist, the key in the cache by the
session's counter; `FirstInv` says that the two move together in the session's first playlist as long as each break got a pod and the
counter was not dropped, for which `SessionInv` has to know that nothing of the session was there before. `DeliveredInv` then
carries it over the delivery, against inserts of other sessions, trims and the cleanup.

**HlsStitchProofs.** For playlists of any length, any tags, breaks of any length and any number of ads:

* `BehindTheScan` (all breaks found so far end at or before the scan) makes the order of the breaks inductive; with it the
  indices of both loops stay in range (`StitchTypeCorrect`, `BreaksOrdered`).
* `ScanExact` says that `current` is what the last cue before the scan says; each step reads one tag (`DetectionIsExact`).
* `AdsPassed` says which ads are in the output when the copy loop is at `index`: those of the filled breaks before `brk`
  (`AdsAreInOrder`). It needs the loop to have passed the start of every earlier break, touching ones included.
* `IntendedSoFar` adds what else is in it, in which order, under the premise that filled breaks do not touch
  (`StitchingIsAsIntended`).
* `MarkersSoFar` says that the segments marked so far have the marker of the last break starting there, at `Timeline`'s time, and
  `MarkersPlaced` that a marker is where its break starts and that every other segment has the daterange it came with.
  `DateAt` sums up from the last date before a segment, the recursive function `Timeline` runs forward from segment 0; that the
  two agree (`TimelineIsDateAt`) is shown by the
  least-element principle on the segment where they first would not (`Least`, from `WellFoundedInduction`) (`MarkersAreExact`).

For a live stream: each playlist starts from `Fresh`, and the invariants above were proved from there and not from `Init`, so that they
hold of every window (`LivePlaylistsExact`). `MarkersKeepStill` relates two windows: the id of a marker is the number of breaks
opened before its segment (`Opened`, `ScanCounted`), which depends on the tags of the stream alone, as long as the first segment is the same;
its date is one of the stream's, or of the window's first segment. `ShownInv` keeps that of each marker a player was shown.

`StreamsPlayThrough` joins the windows. A break of a window is a break of the stream, cut off at most at the window's end
(`BreaksCued`, `BreakFits`), and a break whose start has left is no break of the window. With as many ads as segments, and no break
that starts where another one ends, each segment of the output stands at its place in the window, and the ads at the end of the
output may reach beyond it (`Aligned`). So a number means the same place in every playlist, and `PlayedInv`, on what was
played up to `next`, survives both a playlist played on and a window moved. Both invariants were checked on the run's streams
before they were proved; that `CuesApart` is needed came out there.

`PlaylistUrisLead` is about the one step that writes a text: `SegmentUriLeads` and `PlaylistUriLeads` compare, layout by layout, what
a rewritten uri makes the handlers fetch with what RFC 3986 says the origin's name leads to, in both directions (for the layouts
that cannot be expressed the two differ); each line of the text is one of a few kinds (`TextLs`), through stitching, marking and the
low-latency tags, for lists of any length (`FlattenTyped`); without low-latency lines no segment has a part, so none is left
raw (`RawTyped`). `LinesInv` is what it needs of the stitching: no content beyond the playlist's end, and no tag changed where there is
no break.

`LlTagsComeThrough` is about where lines are, not only which there are. `FlattenPlaces` says of a list of lists which member of which
part stands at each place of the joined list, and the reverse (an induction by the least counterexample, as for `DateAt`); from it a part is
in front of its own segment in the joined text if it is in the lines of that segment (`PartsLead`). `Regions` says what the text is
made of: two lines, the header's tags, the segments, the tail; no line of one region is of a kind of another, so each tag is in its
place if its region is. A text is written for a playlist by itself
(`VodAnswers`); those of a live stream are compared as stitched.

**DashStitchProofs.** `Found` says that the breaks are the signals before the position of the scan, in order; each step moves the
position over one event at most (`DetectionCorrect`). From that order, `PrefixKept` (up to the signal period of the next break the
MPD is still the origin's) is inductive: an insertion after a period changes nothing up to it, and no break to come lies
further on (`SignalPeriodsStay`). `Placed(n)` says what the MPD is when breaks
1 .. `n` are still to be inserted: the origin's periods and the ad periods of the later breaks, each by itself as intended, none missing, and
any two in the order of their signals; an insertion puts its ads between those before it and those behind it, which are just
the ones that belong there (`PeriodsAreAsIntended`). In SGAI mode `Calling` says what every period is while the callbacks go in, by
whether it still waits for its own (`PeriodNow`), so the order of the hash map is forgotten; that stripping afterwards spares the
callback, and that only a period with breaks has one, comes from what `FlattenSeq` makes of a list with one more and of a
list of empty ones (`FlattenAppend`, `FlattenEmpty`: inductions by the least counterexample on its recursive function), which gives
`CallbacksAreExact`.

`TracksAreReached` compares the text that the code composes with the directory of the standard, level by level (`LevelDown`): with a plain
BaseURL it is that directory and a `/`, with an absolute one the levels above no longer matter (`AbsoluteDown`), with any other it is a
longer one, which no plain BaseURL below makes good unless it is absolute (`RootedDown`, `RelativeDown`, `Levels`). `MediaReaches` then
compares what the segment handler asks for with both targets, in both directions. That a served MPD still has each period of the origin, with its own tracks, is `TracksKept`, which SSAI has from `Placed`, SGAI from
`CallbacksExact`, and an MPD without breaks from not having been touched (`Quiet`).

**ManifestCacheProofs.** `RequestInv` and `EntryInv` bound the age of what is in flight and of what is cached, at every moment of
a fetch (`StalenessBounded`, `BlockingServed`, `CacheTypeCorrect`).

**RateLimiterProofs.** `SlidingBound` is not inductive: it says nothing of how the requests already admitted lie with respect to the
window that is running. `Ready` says it for the moment before a window is opened, `Running` while it runs: how far back the request
`Limit`, `2 * Limit`, ... places before the last one must be, with the delay by which a window may be opened late (`SlidingBoundHolds`).
The one assumption on the schedule is `DelayAssumption`: a check does not wait for the lock of its entry for more than half a window
(of a minute), which is held for a few instructions. `PoliteInv` gives each request counted in a window its place among the attempts, all of them made
no earlier than a delay before the window's start, so that more than `Limit` of them are more than `Limit` attempts in `Window + Delay`
(`PoliteNeverRejectedHolds`).

**TrackingProofs.** `EventsOnce`: for a pod of any length each event has exactly one segment that fires it. The thresholds cut
the line of segments at one place: the segment that crosses quarter `q` is `q(n-1)/4`, rounded up. `QuartilesOrdered`: the quartiles do
not overtake each other. `FiredInv` (what was fired is what the visited segments fire) and `TaskInv` then give `FiredOnce`, `PodCovered` and, with the
conservation of permits, `TrackingTypeCorrect`.

**VastFetchProofs.** For any documents, any servers' answers, any depth limit and number of attempts; `Recursion` shows that the two
recursive functions exist, and `UpTo` is the induction over them.

`FrameInv`: a frame's place in the stack is its depth, its chain is that long, and every frame but the innermost waits at a wrapper
it has passed. `DueInv`: the requests sent and those that each frame may still send add up to no more than the bound. A new frame
takes its share out of its caller's, a failed attempt one of its own, a return gives up what was left (`RequestsBounded`).

`NothingIsLost` needs three more. `PathInv`: the chain of a frame is the wrapper ads at which the frames below it wait, and
leads from the endpoint to the frame's tag; so does the chain of every call that got a document. `AnsweredInv`: whatever got a document
beneath a frame did so by a wrapper that the frame has passed, so that a new frame starts with nothing beneath it and no chain
is followed twice. `GatheredInv`: a frame has, in the order of the documents and each with a best file, exactly the creatives found
beneath it by the ads it has passed, but for the wrapper it is waiting at; a return adds that one's (`GatheredAfterPop`), an InLine ad
its own (`GatheredAfterInLine`), and a failure nothing, of which there is nothing (`AllIs`). When the last frame has gone, what was gathered is all
that was found. The file that the code picks is a best one by `BestIsBest`.

**ServerProofs.** `Inv` has four parts. `MakersFit`: there is room for the sessions that the calls under way may make, which
keeps their numbers in range (`TypeCorrect`). `CallInv`: between two commands of a caller, whatever the key holds by then was
found by that caller or stored after it looked; this is what makes the two races the only ones (`RacesOnly`). `ProcessInv`: what a
process has not built it does not have, with Valkey it keeps nothing in memory, the cleanup's clock is never ahead of time, and
VAST without its endpoint was asked for by name, which leaves `AppState::new` no other panics than those named (`StartsConfigured`). `MemoryImplements` is the refinement of `SessionStore`: initial
states map to initial states, and each step to one of its steps or a stutter; a visit of the cleanup to an entry
that is stale by the cleanup's clock is an expiry since the real clock is no earlier.

Assumptions about data, beyond the types: `StreamsAssumption` (a stream has a number of ads for each of its segments);
`DeliveriesAssumption` (the low-latency lines of a media playlist and the entries of a master are of the kinds that the code tells
apart, names are of the six layouts, and the provider is one of the two that keep no state); `AddressingsAssumption` (BaseURLs and
media do not use `..`; an absolute one, or one from the root, has a name behind the host; and there are no two slashes in them already); `ParsedAssumption` (parsed documents have the
types of the code, and no more than `MaxAds` ads each: the bound on requests is by this fan-out, which the code leaves to the ad server).

Only model-checked:

* all liveness, since fairness and ENABLED are outside this prover;
* `ParserExact`: the parser is read by a RECURSIVE definition over documents of any depth, and what such a definition computes for
  every input is an induction over data, which these provers cannot do. (An induction over a recursive *function* on numbers is within
  reach, as for `DateAt`, `FlattenSeq` and `RequestsFrom`.)

## 6. What is not modelled

* A DashMap visits its shards in turn in `len`, `iter` and `retain`; in AdCache these are one step, as they are for a
  map of one shard. A snapshot over shards can miss a moving key. (The cleanup of SessionManager visits entry by entry.)
* Every creative is taken to have an error url.
* Durations and the start of periods, byte ranges, titles, headers and logging; texts are sequences of lines, urls of parts, a name
  is the pair of its numbers, which is what the string carries, since `validate_session_id` admits no `:`. XML attributes that are only
  copied are left out, and the parsers m3u8-rs, dash-mpd and quick-xml are taken for what their events and structures say.
* `ad/conditioning.rs` logs warnings and changes nothing. URL validation and the DNS resolver are predicates on strings and
  addresses; that the resolver panics without the machine's configuration is in Server. Errors, metrics and health map or count: of
  `session_count` Server has how long it takes, not its result. The demo pages are texts made from templates.
* Requests of which a client has sent a part only hold the drain as an answer does that is not taken; the panics of the metrics
  recorder and of the signal handlers, which are installed once per process, are left out.
  The verifications in the asset list are left out; its comment speaks of equal vendor and resource where four fields are
  compared.
* The segment handler's streaming and retries: what it fetches is modelled, not how the bytes arrive.

## 7. Plan

1. **AdBreak** -- what a viewer is promised of one break (all its ads, the slate, or the content), with Ssai checked against it
   for the first playlist.
2. **Shards** -- `len`, `iter`, `retain` shard by shard, below AdCache.
3. **VAST parser** -- a second reading of the grammar as a recursive function on the position in the document, with which `ParserExact` could be
   proved for documents of any length.
