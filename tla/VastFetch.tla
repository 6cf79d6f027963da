------------------------------ MODULE VastFetch ------------------------------
(***************************************************************************)
(* fetch_vast (src/ad/vast_provider/fetch.rs) on top of fetch_with_retry   *)
(* (src/http_retry.rs): fetch an ad tag, take the creatives of its InLine  *)
(* ads, and follow its Wrapper ads recursively, to a depth.                *)
(*                                                                         *)
(* What parse_vast makes of a document is a parameter here; VastDelivery   *)
(* has it from module VastParser.  The recursion is a stack of frames.     *)
(* A place is a wrapper of a document or a creative of one of its InLine   *)
(* ads; the impressions, tracking events and verifications that the code   *)
(* accumulates along a wrapper chain are each the list of its places, so   *)
(* one list stands for the three.                                          *)
(***************************************************************************)
EXTENDS VastMedia, Functions, SequencesExt

CONSTANTS
  Texts,            \* the texts of urls
  Tags,             \* ad tag urls that have a server
  Root,             \* the provider's endpoint
  Parsed,           \* what parse_vast makes of each document
  MaxAds,           \* of a document
  Answers,          \* tag -> the indices in Parsed of the documents it may have
  MaxWrapperDepth,  \* max_wrapper_depth
  MaxAttempts       \* RetryConfig::max_attempts, at least 1

(* What VastAd, Creative and MediaFile of vast/types.rs hold.               *)
MediaFiles ==
  [url : Texts, attr : [type : STRING, delivery : STRING, bitrate : Int]]

IsSeq(list) == list \in Seq(Range(list))

IsInLine(ad) ==
  /\ ad.kind = "inline"
  /\ IsSeq(ad.body.creatives)
  /\ \A c \in Range(ad.body.creatives) :
       c.linear = Nothing \/ c.linear[1].media_files \in Seq(MediaFiles)

IsWrapper(ad) == ad.kind = "wrapper" /\ ad.body.ad_tag_uri \in Texts

ASSUME ParsedAssumption ==
  \A vast \in Range(Parsed) :
    /\ vast.ok \in BOOLEAN
    /\ IsSeq(vast.ads) /\ Len(vast.ads) <= MaxAds
    /\ \A ad \in Range(vast.ads) : IsInLine(ad) \/ IsWrapper(ad)

ASSUME TagsAssumption ==
  /\ Tags \subseteq Texts /\ Root \in Tags
  /\ Answers \in [Tags -> SUBSET DOMAIN Parsed]

ASSUME SizesAssumption ==
  MaxAds \in Nat /\ MaxWrapperDepth \in Nat /\ MaxAttempts \in Nat \ {0}

VARIABLES
  document,  \* the ad servers: tag -> its document
  stack,     \* calls of fetch_vast, the innermost last
  outcome,   \* what the outermost call returned
  answered,  \* history: <<chain, tag>> of the calls that got a document
  attempts   \* history: HTTP requests sent

vars == <<document, stack, outcome, answered, attempts>>

-----------------------------------------------------------------------------
(* Result of a call: creatives, each [chain, url] with the places whose     *)
(* tracking it carries and the url of its media file.                       *)
None    == [some |-> FALSE, creatives |-> << >>]
Some(c) == [some |-> TRUE, creatives |-> c]

Frame(tag, depth, chain) ==
  [pc |-> "enter", tag |-> tag, depth |-> depth, chain |-> chain,
   attempt |-> 1, ad |-> 1, creatives |-> << >>]

Top == stack[Len(stack)]

Running == stack # << >>

At(pc) == Running /\ Top.pc = pc

SetTop(frame) == stack' = [stack EXCEPT ![Len(stack)] = frame]

Init ==
  /\ document \in {f \in [Tags -> DOMAIN Parsed] :
                     \A t \in Tags : f[t] \in Answers[t]}
  /\ stack = <<Frame(Root, 0, << >>)>>
  /\ outcome = None
  /\ answered = {}
  /\ attempts = 0

(* The innermost call returns; its caller appends what it got, if anything. *)
Return(result) ==
  IF Len(stack) = 1
  THEN stack' = << >> /\ outcome' = result
  ELSE /\ stack' = [Front(stack) EXCEPT ![Len(stack) - 1].creatives =
                                          @ \o result.creatives]
       /\ UNCHANGED outcome

-----------------------------------------------------------------------------
TooDeep(depth) == depth > MaxWrapperDepth

Enter ==
  /\ At("enter")
  /\ IF TooDeep(Top.depth)
     THEN Return(None)
     ELSE SetTop([Top EXCEPT !.pc = "fetch"]) /\ UNCHANGED outcome
  /\ UNCHANGED <<document, answered, attempts>>

(* Mutant: a wrapper that fails fails the whole call.                       *)
AttemptFailsAll ==
  /\ At("fetch")
  /\ attempts' = attempts + 1
  /\ IF Top.attempt < MaxAttempts
     THEN SetTop([Top EXCEPT !.attempt = @ + 1]) /\ UNCHANGED outcome
     ELSE stack' = << >> /\ outcome' = None
  /\ UNCHANGED <<document, answered>>

(* Mutant: one attempt too many.                                            *)
AttemptFailsOnceMore ==
  /\ At("fetch")
  /\ attempts' = attempts + 1
  /\ IF Top.attempt <= MaxAttempts
     THEN SetTop([Top EXCEPT !.attempt = @ + 1]) /\ UNCHANGED outcome
     ELSE Return(None)
  /\ UNCHANGED <<document, answered>>

(* An attempt fails: error, timeout or not 2xx.  Back off and try again, or *)
(* give up.                                                                 *)
AttemptFails ==
  /\ At("fetch")
  /\ attempts' = attempts + 1
  /\ IF Top.attempt < MaxAttempts
     THEN SetTop([Top EXCEPT !.attempt = @ + 1]) /\ UNCHANGED outcome
     ELSE Return(None)
  /\ UNCHANGED <<document, answered>>

(* 2xx, but the body breaks off, which the length tells: no retry.          *)
BadBody ==
  /\ At("fetch")
  /\ Top.tag \in Tags
  /\ attempts' = attempts + 1
  /\ Return(None)
  /\ UNCHANGED <<document, answered>>

VastOf(tag) == Parsed[document[tag]]

(* 2xx and the whole body, which parses or not.  A url that is not a tag of *)
(* the model, one cut short for instance, is never answered.                *)
GotDocument ==
  /\ At("fetch")
  /\ Top.tag \in Tags
  /\ attempts' = attempts + 1
  /\ IF VastOf(Top.tag).ok
     THEN /\ answered' = answered \cup {<<Top.chain, Top.tag>>}
          /\ SetTop([Top EXCEPT !.pc = "ads"])
          /\ UNCHANGED outcome
     ELSE Return(None) /\ UNCHANGED answered
  /\ UNCHANGED document

-----------------------------------------------------------------------------
AdsOf(tag) == VastOf(tag).ads

CurrentAd == AdsOf(Top.tag)[Top.ad]

HasAd == At("ads") /\ Top.ad <= Len(AdsOf(Top.tag))

(* The chain's tracking and then the place's own; <<tag, ad, creative>>,    *)
(* the creative 0 for a wrapper.                                            *)
Merged(chain, tag, ad, creative) == Append(chain, <<tag, ad, creative>>)

(* The playable creatives of an InLine ad, each with its merged tracking.   *)
CreativesOf(chain, tag, ad, creatives) ==
  LET resolved[n \in 0 .. Len(creatives)] ==
        IF n = 0 THEN << >>
        ELSE IF IsPlayable(creatives[n])
        THEN Append(resolved[n - 1],
                    [chain |-> Merged(chain, tag, ad, n),
                     url |-> BestMediaFile(creatives[n].linear[1].media_files)[1].url])
        ELSE resolved[n - 1]
  IN  resolved[Len(creatives)]

InLineAd ==
  /\ HasAd
  /\ CurrentAd.kind = "inline"
  /\ SetTop([Top EXCEPT !.ad = @ + 1,
               !.creatives = @ \o CreativesOf(Top.chain, Top.tag, Top.ad,
                                              CurrentAd.body.creatives)])
  /\ UNCHANGED <<document, outcome, answered, attempts>>

WrapperAd ==
  /\ HasAd
  /\ CurrentAd.kind = "wrapper"
  /\ stack' = Append([stack EXCEPT ![Len(stack)].ad = @ + 1],
                     Frame(CurrentAd.body.ad_tag_uri, Top.depth + 1,
                           Merged(Top.chain, Top.tag, Top.ad, 0)))
  /\ UNCHANGED <<document, outcome, answered, attempts>>

AdsDone ==
  /\ At("ads")
  /\ Top.ad > Len(AdsOf(Top.tag))
  /\ Return(Some(Top.creatives))
  /\ UNCHANGED <<document, answered, attempts>>

Next ==
  Enter \/ AttemptFails \/ BadBody \/ GotDocument \/ InLineAd \/ WrapperAd \/ AdsDone

Spec == Init /\ [][Next]_vars

-----------------------------------------------------------------------------
(* Properties                                                              *)

Returned == ~Running

(* The media files a player of this service can use, and the best of them:  *)
(* HLS before progressive MP4, and of this the highest bitrate.             *)
Usable(files) ==
  {f \in Range(files) : f.attr.type = "hls"
                         \/ (f.attr.type = "mp4" /\ f.attr.delivery = "progressive")}

Better(f, g) ==
  g.attr.type # "hls" /\ (f.attr.type = "hls" \/ f.attr.bitrate > g.attr.bitrate)

Best(files) == {f \in Usable(files) : ~ \E g \in Usable(files) : Better(g, f)}

FilesOf(creative) == IF creative.linear = Nothing THEN << >> ELSE creative.linear[1].media_files

CreativeAt(place) == AdsOf(place[1])[place[2]].body.creatives[place[3]]

(* The playable creatives of the documents that arrived, by their chains.   *)
Found ==
  UNION {
    UNION {{Merged(a[1], a[2], i, c) :
              c \in {c \in DOMAIN AdsOf(a[2])[i].body.creatives :
                       Usable(FilesOf(AdsOf(a[2])[i].body.creatives[c])) # {}}} :
             i \in {i \in DOMAIN AdsOf(a[2]) : AdsOf(a[2])[i].kind = "inline"}} :
    a \in answered}

(* x comes before y in the documents, wrappers replaced by what they led to.*)
Before(x, y) ==
  \E i \in DOMAIN x \cap DOMAIN y :
    /\ \A j \in 1 .. i - 1 : x[j] = y[j]
    /\ \/ x[i][2] < y[i][2]
       \/ x[i][2] = y[i][2] /\ x[i][3] < y[i][3]

(* A chain of the documents: it starts at the endpoint, and each place but  *)
(* the last is a wrapper that leads to the next.                            *)
ChainOk(c) ==
  /\ c[1][1] = Root
  /\ Len(c) <= MaxWrapperDepth + 1
  /\ \A i \in 1 .. Len(c) - 1 :
       LET ad == AdsOf(c[i][1])[c[i][2]]
       IN  ad.kind = "wrapper" /\ ad.body.ad_tag_uri = c[i + 1][1]

InOrder(creatives) ==
  \A i, j \in DOMAIN creatives : i < j => Before(creatives[i].chain, creatives[j].chain)

(* However the wrappers nest, repeat or loop, and whichever of them fail,   *)
(* every playable creative of every document that arrived is returned once  *)
(* for each chain it was reached by, with the tracking of that whole chain  *)
(* and a best media file of its own, in the order of the documents: a       *)
(* failing wrapper costs none of its siblings.  And none is made up: each   *)
(* chain of wrappers is one of the documents', no longer than the limit.    *)
NothingLost ==
  Returned =>
    /\ {c.chain : c \in Range(outcome.creatives)} = Found
    /\ InOrder(outcome.creatives)
    /\ \A c \in Range(outcome.creatives) :
         ChainOk(c.chain) /\ \E file \in Best(FilesOf(CreativeAt(Last(c.chain)))) : c.url = file.url

(* The requests of a call that may go so many levels deep.                  *)
RequestsFrom[levels \in 0 .. MaxWrapperDepth + 1] ==
  IF levels = 0 THEN 0 ELSE MaxAttempts + MaxAds * RequestsFrom[levels - 1]

(* The ad server decides how many requests a break costs, but only up to    *)
(* the fan-out of its documents to the power of the depth limit.            *)
FetchesBounded == attempts <= RequestsFrom[MaxWrapperDepth + 1]
=============================================================================
