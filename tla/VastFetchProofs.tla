---------------------------- MODULE VastFetchProofs ----------------------------
(***************************************************************************)
(* Proofs about VastFetch for every set of documents and whatever the ad    *)
(* servers answer, for every depth limit and number of attempts.           *)
(*                                                                         *)
(* Requests: DueInv adds to the requests sent so far what each frame of the *)
(* stack may still send; no step makes this sum larger.                    *)
(*                                                                         *)
(* Creatives: each frame's chain is the wrapper ads that the frames below   *)
(* it are at (PathInv), so a wrapper is followed once and what it led to is *)
(* known by its chain (AnsweredInv).  A frame therefore has exactly what    *)
(* was found beneath it by wrappers and InLine ads that it has passed       *)
(* (GatheredInv), and the outermost call exactly what was found.           *)
(*                                                                         *)
(* The two recursive functions of VastFetch are shown to exist (Recursion). *)
(***************************************************************************)
EXTENDS VastFetch, SequenceTheorems, WellFoundedInduction, TLAPS

-----------------------------------------------------------------------------
(* Types, and what the frames have in common with their place.              *)
Places    == Texts \X Nat \X Nat
Creatives == [chain : Seq(Places), url : Texts]
Frames ==
  [pc : {"enter", "fetch", "ads"}, tag : Texts, depth : Nat, chain : Seq(Places),
   attempt : 1 .. MaxAttempts, ad : Nat \ {0}, creatives : Seq(Creatives)]

TypeInv ==
  /\ document \in [Tags -> DOMAIN Parsed]
  /\ stack \in Seq(Frames)
  /\ outcome \in [some : BOOLEAN, creatives : Seq(Creatives)]
  /\ answered \subseteq Seq(Places) \X Tags
  /\ attempts \in Nat

FrameOk(f, k, n) ==
  /\ f.depth = k - 1 /\ Len(f.chain) = k - 1
  /\ k < n => f.pc = "ads" /\ f.ad > 1
  /\ k <= MaxWrapperDepth + (IF f.pc = "enter" THEN 2 ELSE 1)
  /\ IF f.pc = "ads"
     THEN f.tag \in Tags /\ f.ad <= Len(AdsOf(f.tag)) + 1
     ELSE f.ad = 1 /\ f.creatives = << >>

FrameInv == \A k \in DOMAIN stack : FrameOk(stack[k], k, Len(stack))

(* A chain of wrappers from the endpoint to a tag.                          *)
Path(chain, tag) ==
  /\ (IF Len(chain) = 0 THEN tag ELSE chain[1][1]) = Root
  /\ \A i \in 1 .. Len(chain) :
       /\ chain[i][1] \in Tags /\ chain[i][3] = 0
       /\ chain[i][2] \in DOMAIN AdsOf(chain[i][1])
       /\ AdsOf(chain[i][1])[chain[i][2]].kind = "wrapper"
       /\ AdsOf(chain[i][1])[chain[i][2]].body.ad_tag_uri =
            (IF i = Len(chain) THEN tag ELSE chain[i + 1][1])

PathInv ==
  /\ \A a \in answered : Path(a[1], a[2]) /\ Len(a[1]) <= MaxWrapperDepth
  /\ \A k \in DOMAIN stack : Path(stack[k].chain, stack[k].tag)
  /\ \A k \in DOMAIN stack : \A j \in 1 .. k - 1 :
       stack[k].chain[j] = <<stack[j].tag, stack[j].ad - 1, 0>>

Extends(p, chain) == Len(chain) <= Len(p) /\ \A i \in 1 .. Len(chain) : p[i] = chain[i]

(* No wrapper is followed twice: of what is beneath a frame, documents      *)
(* arrived only by wrappers that the frame has passed.                      *)
AnsweredOk(f, k) ==
  /\ f.pc = "ads" => <<f.chain, f.tag>> \in answered
  /\ \A a \in answered : Extends(a[1], f.chain) =>
       f.pc = "ads" /\ (Len(a[1]) >= k => a[1][k][2] < f.ad)

AnsweredInv == \A k \in DOMAIN stack : AnsweredOk(stack[k], k)

Resolved(c) == \E file \in Best(FilesOf(CreativeAt(Last(c.chain)))) : c.url = file.url

Gathered(creatives, chains) ==
  /\ {c.chain : c \in Range(creatives)} = chains
  /\ InOrder(creatives)
  /\ \A c \in Range(creatives) : Resolved(c)

Beneath(chain, limit) ==
  {p \in Found : Extends(p, chain) /\ Len(p) > Len(chain) /\ p[Len(chain) + 1][2] < limit}

(* A frame has what its document led to so far; what its last wrapper leads *)
(* to is still to come while there is a frame for it.                       *)
GatheredOk(f, limit) == Gathered(f.creatives, Beneath(f.chain, limit))

GatheredInv ==
  /\ \A k \in DOMAIN stack :
       GatheredOk(stack[k], IF k < Len(stack) THEN stack[k].ad - 1 ELSE stack[k].ad)
  /\ stack = << >> => Gathered(outcome.creatives, Found)

(* The requests that a frame may still make.                                *)
Levels(f) == MaxWrapperDepth + 1 - f.depth

Due(f) ==
  CASE f.pc = "enter" -> RequestsFrom[Levels(f)]
    [] f.pc = "fetch" -> MaxAttempts + 1 - f.attempt + MaxAds * RequestsFrom[Levels(f) - 1]
    [] f.pc = "ads"   -> (Len(AdsOf(f.tag)) + 1 - f.ad) * RequestsFrom[Levels(f) - 1]
(* Induction, on the members of a set.                                      *)
LEMMA Least ==
  ASSUME NEW T, T \subseteq Nat, T # {}
  PROVE  \E x \in T : \A y \in T : x <= y
<1> DEFINE R == {ss \in Nat \X Nat : ss[1] < ss[2]}
<1>1. IsWellFoundedOn(R, Nat)
  BY NatLessThanWellFounded DEF OpToRel
<1>2. \A x, y \in Nat : <<y, x>> \in R <=> y < x
  OBVIOUS
<1> HIDE DEF R
<1>3. PICK x \in T : \A y \in T : ~(<<y, x>> \in R)
  BY <1>1, WFMin
<1>4. x \in Nat /\ \A y \in T : y \in Nat /\ ~(y < x)
  BY <1>2, <1>3
<1>5. \A y \in T : x <= y
  BY <1>4
<1> QED BY <1>5

LEMMA UpTo ==
  ASSUME NEW N \in Nat, NEW S, 0 \in S, \A n \in 1 .. N : n - 1 \in S => n \in S
  PROVE  0 .. N \subseteq S
<1> DEFINE B == {n \in 0 .. N : n \notin S}
<1>1. ASSUME B # {} PROVE FALSE
  <2>0. B \subseteq Nat
    OBVIOUS
  <2> HIDE DEF B
  <2>1. PICK m \in B : \A n \in B : m <= n
    BY <1>1, <2>0, Least
  <2> USE DEF B
  <2>2. m \in 1 .. N /\ m - 1 \in 0 .. N /\ m \notin S
    BY <2>1
  <2>3. m - 1 \notin B
    BY <2>1, <2>2
  <2> QED BY <2>2, <2>3
<1> QED BY <1>1

(* A recursive function exists, by extending the one up to n - 1.           *)
Computable(N, S, base, next) ==
  N \in Nat /\ base \in S /\ \A n \in 1 .. N : \A x \in S : next[<<n, x>>] \in S

Computes(f, N, S, base, next) ==
  /\ f \in [0 .. N -> S]
  /\ f[0] = base /\ \A n \in 1 .. N : f[n] = next[<<n, f[n - 1]>>]

LEMMA Recursion ==
  ASSUME NEW N, NEW S, NEW base, NEW next, Computable(N, S, base, next)
  PROVE  \E f : Computes(f, N, S, base, next)
<1>0. N \in Nat /\ base \in S /\ \A n \in 1 .. N : \A x \in S : next[<<n, x>>] \in S
  BY DEF Computable
<1> DEFINE Until(f, m) ==
             f[0] = base /\ \A n \in 1 .. m : f[n] = next[<<n, f[n - 1]>>]
           M == {m \in 0 .. N : \E f \in [0 .. m -> S] : Until(f, m)}
<1>1. 0 \in M
  <2> DEFINE f == [n \in 0 .. 0 |-> base]
  <2>1. f \in [0 .. 0 -> S] /\ f[0] = base
    BY <1>0
  <2> HIDE DEF f
  <2>2. Until(f, 0)
    BY <2>1
  <2>3. 0 \in 0 .. N
    BY <1>0
  <2> HIDE DEF Until
  <2> QED BY <2>1, <2>2, <2>3
<1>2. ASSUME NEW m \in 1 .. N, m - 1 \in M PROVE m \in M
  <2>1. PICK f \in [0 .. m - 1 -> S] : Until(f, m - 1)
    BY <1>2
  <2> DEFINE g == [n \in 0 .. m |-> IF n = m THEN next[<<m, f[m - 1]>>] ELSE f[n]]
  <2>2. f[m - 1] \in S /\ next[<<m, f[m - 1]>>] \in S
    BY <1>0
  <2>3. g \in [0 .. m -> S]
    BY <2>2
  <2>4. g[m] = next[<<m, f[m - 1]>>] /\ \A n \in 0 .. m - 1 : g[n] = f[n]
    OBVIOUS
  <2>5. g[0] = base
    BY <2>1, <2>4
  <2> HIDE DEF g
  <2>6. ASSUME NEW n \in 1 .. m PROVE g[n] = next[<<n, g[n - 1]>>]
    <3>1. n - 1 \in 0 .. m - 1 /\ g[n - 1] = f[n - 1]
      BY <2>4
    <3>2. CASE n = m
      BY <2>4, <3>1, <3>2
    <3>3. CASE n # m
      <4>1. n \in 1 .. m - 1 /\ n \in 0 .. m - 1
        BY <3>3
      <4>2. g[n] = f[n] /\ f[n] = next[<<n, f[n - 1]>>]
        BY <2>1, <2>4, <4>1
      <4> QED BY <3>1, <4>2
    <3> QED BY <3>2, <3>3
  <2>7. Until(g, m)
    BY <2>5, <2>6
  <2> HIDE DEF Until
  <2> QED BY <2>3, <2>7
<1> HIDE DEF M
<1>3. 0 .. N \subseteq M
  BY <1>0, <1>1, <1>2, UpTo
<1>4. N \in M
  BY <1>0, <1>3
<1> QED BY <1>4 DEF M, Computes

-----------------------------------------------------------------------------
(* RequestsFrom is defined, and a number.                                   *)
LEMMA RequestsAre ==
  /\ RequestsFrom \in [0 .. MaxWrapperDepth + 1 -> Nat]
  /\ RequestsFrom[0] = 0
  /\ \A levels \in 1 .. MaxWrapperDepth + 1 :
       RequestsFrom[levels] = MaxAttempts + MaxAds * RequestsFrom[levels - 1]
<1> DEFINE N == MaxWrapperDepth + 1
           next == [p \in (1 .. N) \X Nat |-> MaxAttempts + MaxAds * p[2]]
           Is(f) == f = [levels \in 0 .. N |->
                          IF levels = 0 THEN 0 ELSE MaxAttempts + MaxAds * f[levels - 1]]
<1>1. N \in Nat /\ MaxAds \in Nat /\ MaxAttempts \in Nat
  BY SizesAssumption
<1>2. next \in [(1 .. N) \X Nat -> Nat] /\ \A n \in 1 .. N : \A x \in Nat :
                                             next[<<n, x>>] = MaxAttempts + MaxAds * x
  BY <1>1
<1> HIDE DEF N, next
<1>3. PICK f \in [0 .. N -> Nat] : f[0] = 0 /\ \A n \in 1 .. N : f[n] = next[<<n, f[n - 1]>>]
  <2>1. Computable(N, Nat, 0, next)
    BY <1>1, <1>2 DEF Computable
  <2>2. \E f : Computes(f, N, Nat, 0, next)
    BY <2>1, Recursion
  <2> QED BY <2>2 DEF Computes
<1>4. \A n \in 1 .. N : n - 1 \in 0 .. N /\ f[n] = MaxAttempts + MaxAds * f[n - 1]
  <2>1. \A n \in 1 .. N : n - 1 \in 0 .. N
    BY <1>1
  <2>2. \A n \in 1 .. N : f[n - 1] \in Nat
    BY <2>1
  <2> QED BY <1>2, <1>3, <2>1, <2>2
<1>5. \A n \in 0 .. N : f[n] = IF n = 0 THEN 0 ELSE MaxAttempts + MaxAds * f[n - 1]
  <2>1. \A n \in 0 .. N : n = 0 \/ n \in 1 .. N
    BY <1>1
  <2> QED BY <1>3, <1>4, <2>1
<1>6. Is(f)
  BY <1>5
<1>7. RequestsFrom = CHOOSE g : Is(g)
  BY DEF RequestsFrom, N
<1>8. Is(RequestsFrom)
  <2> HIDE DEF Is
  <2> QED BY <1>6, <1>7
<1> DEFINE S == {n \in 0 .. N : RequestsFrom[n] \in Nat}
<1>9. /\ DOMAIN RequestsFrom = 0 .. N
      /\ \A n \in 0 .. N : RequestsFrom[n] =
           IF n = 0 THEN 0 ELSE MaxAttempts + MaxAds * RequestsFrom[n - 1]
  <2> DEFINE r == RequestsFrom
  <2>1. r = [levels \in 0 .. N |-> IF levels = 0 THEN 0 ELSE MaxAttempts + MaxAds * r[levels - 1]]
    BY <1>8
  <2> HIDE DEF r
  <2>2. DOMAIN r = 0 .. N /\ \A n \in 0 .. N : r[n] = IF n = 0 THEN 0 ELSE MaxAttempts + MaxAds * r[n - 1]
    BY <2>1
  <2> QED BY <2>2 DEF r
<1>10. RequestsFrom = [n \in 0 .. N |-> RequestsFrom[n]]
  BY <1>8
<1> HIDE DEF Is
<1>11. /\ 0 \in 0 .. N /\ RequestsFrom[0] = 0
       /\ \A n \in 1 .. N : n \in 0 .. N /\ n - 1 \in 0 .. N
                            /\ RequestsFrom[n] = MaxAttempts + MaxAds * RequestsFrom[n - 1]
  BY <1>1, <1>9
<1>12. 0 \in S /\ \A n \in 1 .. N : n - 1 \in S => n \in S
  <2>1. ASSUME NEW n \in 1 .. N, RequestsFrom[n - 1] \in Nat PROVE RequestsFrom[n] \in Nat
    <3> DEFINE x == RequestsFrom[n - 1]
    <3>1. RequestsFrom[n] = MaxAttempts + MaxAds * x /\ x \in Nat
      BY <1>11, <2>1
    <3> HIDE DEF x
    <3> QED BY <1>1, <3>1
  <2> QED BY <1>11, <2>1
<1>13. 0 .. N \subseteq S
  <2> HIDE DEF S
  <2> QED BY <1>1, <1>12, UpTo
<1>14. RequestsFrom \in [0 .. N -> Nat]
  BY <1>10, <1>13
<1> QED BY <1>11, <1>14 DEF N

-----------------------------------------------------------------------------
(* The media file of a creative.                                            *)
LEMMA Highest ==
  ASSUME NEW N \in Nat, NEW T, T \subseteq 1 .. N, T # {},
         NEW rate \in [1 .. N -> Int]
  PROVE  \E i \in T : \A j \in T : rate[i] > rate[j] \/ (rate[i] = rate[j] /\ i <= j)
<1> DEFINE Up(i, n) == \A j \in T : j <= n => rate[i] > rate[j] \/ (rate[i] = rate[j] /\ i <= j)
           S == {n \in 0 .. N : (\A j \in T : j > n) \/ \E i \in T : i <= n /\ Up(i, n)}
<1>0. T \subseteq Int /\ \A j \in T : j \in 1 .. N /\ rate[j] \in Int
  OBVIOUS
<1>1. 0 \in S
  BY <1>0
<1>2. ASSUME NEW n \in 1 .. N, n - 1 \in S PROVE n \in S
  <2>1. CASE n \notin T
    <3>1. \A j \in T : j > n - 1 => j > n
      BY <1>0, <2>1
    <3>2. \A j \in T : j <= n => j <= n - 1
      BY <1>0, <2>1
    <3>3. CASE \A j \in T : j > n - 1
      BY <3>1, <3>3
    <3>4. CASE \E i \in T : i <= n - 1 /\ Up(i, n - 1)
      BY <1>0, <3>2, <3>4
    <3> QED BY <1>2, <3>3, <3>4
  <2>2. CASE n \in T /\ \A j \in T : j > n - 1
    <3>1. Up(n, n)
      BY <1>0, <2>2
    <3> QED BY <2>2, <3>1
  <2>3. CASE n \in T /\ \E i \in T : i <= n - 1 /\ Up(i, n - 1)
    <3>1. PICK i \in T : i <= n - 1 /\ Up(i, n - 1)
      BY <2>3
    <3>2. \A j \in T : j <= n => j = n \/ j <= n - 1
      BY <1>0
    <3>3. CASE rate[n] > rate[i]
      <4>1. ASSUME NEW j \in T, j <= n
            PROVE  rate[n] > rate[j] \/ (rate[n] = rate[j] /\ n <= j)
        <5>1. CASE j = n
          BY <1>0, <5>1
        <5>2. CASE j # n
          <6>1. rate[i] > rate[j] \/ rate[i] = rate[j]
            BY <3>1, <3>2, <4>1, <5>2
          <6> QED BY <1>0, <3>3, <6>1
        <5> QED BY <5>1, <5>2
      <4>2. Up(n, n)
        BY <4>1
      <4> QED BY <2>3, <4>2
    <3>4. CASE ~(rate[n] > rate[i])
      <4>1. ASSUME NEW j \in T, j <= n
            PROVE  rate[i] > rate[j] \/ (rate[i] = rate[j] /\ i <= j)
        <5>1. CASE j = n
          BY <1>0, <3>1, <3>4, <5>1
        <5>2. CASE j # n
          BY <3>1, <3>2, <4>1, <5>2
        <5> QED BY <5>1, <5>2
      <4>2. Up(i, n)
        BY <4>1
      <4> QED BY <1>0, <3>1, <4>2
    <3> QED BY <3>3, <3>4
  <2> QED BY <1>2, <2>1, <2>2, <2>3
<1>3. N \in S
  <2> HIDE DEF S
  <2>1. 0 .. N \subseteq S
    BY <1>1, <1>2, UpTo
  <2> QED BY <2>1
<1>4. T # {} /\ \A j \in T : j <= N /\ ~(j > N)
  BY <1>0
<1>5. \E i \in T : Up(i, N)
  <2> HIDE DEF Up
  <2>1. (\A j \in T : j > N) \/ \E i \in T : i <= N /\ Up(i, N)
    BY <1>3
  <2> QED BY <1>4, <2>1
<1> QED BY <1>4, <1>5

LEMMA BestIsBest ==
  ASSUME NEW files \in Seq(MediaFiles)
  PROVE  IF Usable(files) = {} THEN BestMediaFile(files) = Nothing
         ELSE \E file \in Best(files) : file \in MediaFiles /\ BestMediaFile(files) = <<file>>
<1> DEFINE hls == {i \in DOMAIN files : files[i].attr.type = "hls"}
           mp4 == {i \in DOMAIN files : files[i].attr.type = "mp4"
                                        /\ files[i].attr.delivery = "progressive"}
           N == Len(files)
           rate == [i \in 1 .. N |-> files[i].attr.bitrate]
           First(i) == i \in hls /\ \A j \in hls : i <= j
           High(i) == i \in mp4 /\ \A j \in mp4 : \/ files[i].attr.bitrate > files[j].attr.bitrate
                                                  \/ /\ files[i].attr.bitrate = files[j].attr.bitrate
                                                     /\ i <= j
<1>1. /\ N \in Nat /\ DOMAIN files = 1 .. N
      /\ \A i \in 1 .. N : files[i] \in MediaFiles /\ files[i].attr.bitrate \in Int
  <2>1. N \in Nat /\ DOMAIN files = 1 .. N /\ \A i \in 1 .. N : files[i] \in MediaFiles
    OBVIOUS
  <2>2. \A file \in MediaFiles : file.attr.bitrate \in Int
    BY DEF MediaFiles
  <2> QED BY <2>1, <2>2
<1>2. Usable(files) = {files[i] : i \in hls \cup mp4}
  BY DEF Usable, Range
<1>3. CASE hls # {}
  <2>1. hls \subseteq Nat
    BY <1>1
  <2>2. \E i : First(i)
    <3> HIDE DEF hls
    <3> QED BY <1>3, <2>1, Least
  <2> DEFINE i == CHOOSE i \in hls : \A j \in hls : i <= j
  <2>3. First(i)
    BY <2>2
  <2>4. BestMediaFile(files) = <<files[i]>>
    BY <1>3 DEF BestMediaFile
  <2> HIDE DEF i
  <2>5. i \in hls
    BY <2>3
  <2>6. files[i] \in Best(files) /\ files[i] \in MediaFiles
    BY <1>1, <1>2, <2>5 DEF Best, Better
  <2> QED BY <2>4, <2>6 DEF Best
<1>4. CASE hls = {} /\ mp4 # {}
  <2>1. mp4 \subseteq 1 .. N
    BY <1>1
  <2>2. \E i : High(i)
    <3>1. rate \in [1 .. N -> Int]
      BY <1>1
    <3>2. \E i \in mp4 : \A j \in mp4 : rate[i] > rate[j] \/ (rate[i] = rate[j] /\ i <= j)
      <4> HIDE DEF mp4, N, rate
      <4> QED BY <1>1, <1>4, <2>1, <3>1, Highest
    <3> QED BY <2>1, <3>2
  <2> DEFINE i == CHOOSE i \in mp4 :
                    \A j \in mp4 : \/ files[i].attr.bitrate > files[j].attr.bitrate
                                   \/ /\ files[i].attr.bitrate = files[j].attr.bitrate
                                      /\ i <= j
  <2>3. High(i)
    BY <2>2
  <2>4. BestMediaFile(files) = <<files[i]>>
    BY <1>4 DEF BestMediaFile
  <2> HIDE DEF i
  <2>5. i \in mp4 /\ \A j \in mp4 : ~(files[j].attr.bitrate > files[i].attr.bitrate)
    BY <1>1, <2>1, <2>3
  <2>6. files[i] \in Best(files) /\ files[i] \in MediaFiles
    <3>1. \A g \in Usable(files) : ~Better(g, files[i])
      BY <1>1, <1>2, <1>4, <2>5 DEF Better
    <3> QED BY <1>1, <1>2, <2>1, <2>5, <3>1 DEF Best
  <2> QED BY <2>4, <2>6 DEF Best
<1>5. CASE hls = {} /\ mp4 = {}
  BY <1>2, <1>5 DEF BestMediaFile, Nothing
<1> QED BY <1>3, <1>4, <1>5

-----------------------------------------------------------------------------
(* The creatives of an InLine ad.                                           *)
Playable(creatives, n) == Usable(FilesOf(creatives[n])) # {}

Chosen(creatives, n) == BestMediaFile(creatives[n].linear[1].media_files)[1].url

Item(chain, tag, ad, creatives, n) ==
  [chain |-> Merged(chain, tag, ad, n), url |-> Chosen(creatives, n)]

LEMMA ItemsAre ==
  ASSUME NEW chain \in Seq(Places), NEW tag \in Texts, NEW ad \in Nat,
         NEW creatives, creatives \in Seq(Range(creatives)),
         \A c \in Range(creatives) : c.linear = Nothing \/ c.linear[1].media_files \in Seq(MediaFiles),
         NEW n \in 1 .. Len(creatives)
  PROVE  /\ IsPlayable(creatives[n]) <=> Playable(creatives, n)
         /\ Playable(creatives, n) =>
              /\ Item(chain, tag, ad, creatives, n) \in Creatives
              /\ \E file \in Best(FilesOf(creatives[n])) : Chosen(creatives, n) = file.url
<1> DEFINE c == creatives[n]
<1>1. c \in Range(creatives)
  BY DEF Range
<1>2. c.linear = Nothing \/ c.linear[1].media_files \in Seq(MediaFiles)
  BY <1>1
<1>3. CASE c.linear = Nothing
  <2>1. Usable(<< >>) = {}
    BY DEF Usable, Range
  <2> QED BY <1>3, <2>1 DEF IsPlayable, Playable, FilesOf
<1>4. CASE c.linear # Nothing
  <2> DEFINE files == c.linear[1].media_files
  <2>1. files \in Seq(MediaFiles) /\ FilesOf(c) = files
    BY <1>2, <1>4 DEF FilesOf
  <2>2. IsPlayable(c) <=> BestMediaFile(files) # Nothing
    BY <1>4 DEF IsPlayable
  <2>3. Chosen(creatives, n) = BestMediaFile(files)[1].url
    BY DEF Chosen
  <2> HIDE DEF files
  <2>4. CASE Usable(files) = {}
    BY <2>1, <2>2, <2>4, BestIsBest DEF Playable
  <2>5. CASE Usable(files) # {}
    <3>1. PICK file \in Best(files) : file \in MediaFiles /\ BestMediaFile(files) = <<file>>
      BY <2>1, <2>5, BestIsBest
    <3>2. BestMediaFile(files) # Nothing /\ BestMediaFile(files)[1] = file
      BY <3>1 DEF Nothing
    <3>3. file.url \in Texts
      BY <3>1 DEF MediaFiles
    <3>4. Merged(chain, tag, ad, n) \in Seq(Places)
      BY DEF Merged, Places
    <3>5. Item(chain, tag, ad, creatives, n) \in Creatives
      BY <2>3, <3>2, <3>3, <3>4 DEF Item, Creatives
    <3> QED BY <2>1, <2>2, <2>3, <2>5, <3>1, <3>2, <3>5 DEF Playable
  <2> QED BY <2>4, <2>5
<1> QED BY <1>3, <1>4

(* CreativesOf returns the item of each playable creative, in order.        *)
IsItems(list, chain, tag, ad, creatives, N) ==
  /\ list \in Seq(Creatives)
  /\ \A j \in 1 .. Len(list) : \E m \in 1 .. N :
       Playable(creatives, m) /\ list[j] = Item(chain, tag, ad, creatives, m)
  /\ \A m \in 1 .. N : Playable(creatives, m) =>
       \E j \in 1 .. Len(list) : list[j] = Item(chain, tag, ad, creatives, m)
  /\ \A i \in 1 .. Len(list) : \A j \in i + 1 .. Len(list) : \E m \in 1 .. N : \E k \in 1 .. m - 1 :
       /\ list[i] = Item(chain, tag, ad, creatives, k)
       /\ list[j] = Item(chain, tag, ad, creatives, m)

LEMMA ItemsNext ==
  ASSUME NEW chain, NEW tag, NEW ad, NEW creatives, NEW n \in Nat \ {0}, NEW list,
         IsItems(list, chain, tag, ad, creatives, n - 1),
         Playable(creatives, n) => Item(chain, tag, ad, creatives, n) \in Creatives
  PROVE  IsItems(IF Playable(creatives, n)
                 THEN Append(list, Item(chain, tag, ad, creatives, n)) ELSE list,
                 chain, tag, ad, creatives, n)
<1> DEFINE It(m) == Item(chain, tag, ad, creatives, m)
           P(m) == Playable(creatives, m)
           L == Len(list)
<1>0. /\ \A m \in 1 .. n - 1 : m \in 1 .. n /\ m < n
      /\ \A m \in 1 .. n : m = n \/ m \in 1 .. n - 1
      /\ n \in 1 .. n
  OBVIOUS
<1>1. list \in Seq(Creatives) /\ (P(n) => It(n) \in Creatives)
  BY DEF IsItems
<1>2. \A j \in 1 .. L : \E m \in 1 .. n - 1 : P(m) /\ list[j] = It(m)
  BY DEF IsItems
<1>3. \A m \in 1 .. n - 1 : P(m) => \E j \in 1 .. L : list[j] = It(m)
  BY DEF IsItems
<1>4. \A i \in 1 .. L : \A j \in i + 1 .. L : \E m \in 1 .. n - 1 : \E k \in 1 .. m - 1 :
        list[i] = It(k) /\ list[j] = It(m)
  BY DEF IsItems
<1> DEFINE Ok(l) ==
      /\ l \in Seq(Creatives)
      /\ \A j \in 1 .. Len(l) : \E m \in 1 .. n : P(m) /\ l[j] = It(m)
      /\ \A m \in 1 .. n : P(m) => \E j \in 1 .. Len(l) : l[j] = It(m)
      /\ \A i \in 1 .. Len(l) : \A j \in i + 1 .. Len(l) : \E m \in 1 .. n : \E k \in 1 .. m - 1 :
           l[i] = It(k) /\ l[j] = It(m)
<1>5. \A l : Ok(l) => IsItems(l, chain, tag, ad, creatives, n)
  BY DEF IsItems
<1> HIDE DEF It, P
<1>6. CASE ~P(n)
  <2>1. Ok(list)
    BY <1>0, <1>1, <1>2, <1>3, <1>4, <1>6
  <2> QED BY <1>5, <1>6, <2>1 DEF P
<1>7. CASE P(n)
  <2> DEFINE new == Append(list, It(n))
  <2>2. /\ new \in Seq(Creatives) /\ L \in Nat /\ Len(new) = L + 1
        /\ new[L + 1] = It(n) /\ \A i \in 1 .. L : new[i] = list[i]
    BY <1>1, <1>7, AppendProperties
  <2>4. /\ \A j \in 1 .. L + 1 : j = L + 1 \/ j \in 1 .. L
        /\ \A j \in 1 .. L : j \in 1 .. L + 1
        /\ L + 1 \in 1 .. L + 1
    BY <2>2
  <2> HIDE DEF new, L
  <2>5. ASSUME NEW j \in 1 .. L + 1 PROVE \E m \in 1 .. n : P(m) /\ new[j] = It(m)
    <3>1. CASE j = L + 1
      BY <1>0, <1>7, <2>2, <3>1
    <3>2. CASE j \in 1 .. L
      <4>1. PICK m \in 1 .. n - 1 : P(m) /\ list[j] = It(m)
        BY <1>2, <3>2
      <4> QED BY <1>0, <2>2, <3>2, <4>1
    <3> QED BY <2>4, <3>1, <3>2
  <2>6. ASSUME NEW m \in 1 .. n, P(m) PROVE \E j \in 1 .. L + 1 : new[j] = It(m)
    <3>1. CASE m = n
      BY <2>2, <2>4, <3>1
    <3>2. CASE m \in 1 .. n - 1
      <4>1. PICK j \in 1 .. L : list[j] = It(m)
        BY <1>3, <2>6, <3>2
      <4> QED BY <2>2, <2>4, <4>1
    <3> QED BY <1>0, <3>1, <3>2
  <2>7. ASSUME NEW i \in 1 .. L + 1, NEW j \in i + 1 .. L + 1
        PROVE  \E m \in 1 .. n : \E k \in 1 .. m - 1 : new[i] = It(k) /\ new[j] = It(m)
    <3>1. i \in 1 .. L /\ j \in 1 .. L + 1
      BY <2>2
    <3>2. CASE j \in 1 .. L
      <4>1. j \in i + 1 .. L
        BY <3>2
      <4>2. PICK m \in 1 .. n - 1 : \E k \in 1 .. m - 1 : list[i] = It(k) /\ list[j] = It(m)
        BY <1>4, <3>1, <4>1
      <4> QED BY <1>0, <2>2, <3>1, <3>2, <4>2
    <3>3. CASE j = L + 1
      <4>1. PICK k \in 1 .. n - 1 : list[i] = It(k)
        BY <1>2, <3>1
      <4>2. new[i] = It(k) /\ new[j] = It(n)
        BY <2>2, <3>1, <3>3, <4>1
      <4> QED BY <1>0, <4>2
    <3> QED BY <2>4, <3>1, <3>2, <3>3
  <2>8. Ok(new)
    BY <2>2, <2>5, <2>6, <2>7
  <2> QED BY <1>5, <1>7, <2>8 DEF new, It, P
<1> QED BY <1>6, <1>7

LEMMA CreativesOfAre ==
  ASSUME NEW chain \in Seq(Places), NEW tag \in Texts, NEW ad \in Nat,
         NEW creatives, creatives \in Seq(Range(creatives)),
         \A c \in Range(creatives) : c.linear = Nothing \/ c.linear[1].media_files \in Seq(MediaFiles)
  PROVE  IsItems(CreativesOf(chain, tag, ad, creatives), chain, tag, ad, creatives, Len(creatives))
<1> DEFINE N == Len(creatives)
           It(n) == Item(chain, tag, ad, creatives, n)
           Is(f) == f = [n \in 0 .. N |->
                      IF n = 0 THEN << >>
                      ELSE IF IsPlayable(creatives[n])
                      THEN Append(f[n - 1],
                                  [chain |-> Merged(chain, tag, ad, n),
                                   url |-> BestMediaFile(creatives[n].linear[1].media_files)[1].url])
                      ELSE f[n - 1]]
           With(x, n) == IF IsPlayable(creatives[n]) THEN Append(x, It(n)) ELSE x
           next == [p \in (1 .. N) \X Seq(Creatives) |-> With(p[2], p[1])]
           resolved == CHOOSE f : Is(f)
<1>0. N \in Nat
  OBVIOUS
<1>1. \A n \in 1 .. N : /\ IsPlayable(creatives[n]) <=> Playable(creatives, n)
                        /\ Playable(creatives, n) => It(n) \in Creatives
  BY ItemsAre
<1>2. \A n \in 1 .. N : \A x \in Seq(Creatives) :
        next[<<n, x>>] = With(x, n) /\ With(x, n) \in Seq(Creatives)
  <2>1. ASSUME NEW n \in 1 .. N, NEW x \in Seq(Creatives) PROVE With(x, n) \in Seq(Creatives)
    <3> HIDE DEF It
    <3> QED BY <1>1
  <2> HIDE DEF With
  <2> QED BY <2>1
<1>3. \A f : Is(f) <=> f = [n \in 0 .. N |-> IF n = 0 THEN << >> ELSE With(f[n - 1], n)]
  BY DEF Item, Chosen
<1>4. CreativesOf(chain, tag, ad, creatives) = resolved[N]
  BY DEF CreativesOf
<1> HIDE DEF N, next, Is, With, It
<1>5. PICK f : Computes(f, N, Seq(Creatives), << >>, next)
  <2>1. << >> \in Seq(Creatives)
    OBVIOUS
  <2>2. Computable(N, Seq(Creatives), << >>, next)
    BY <1>0, <1>2, <2>1 DEF Computable
  <2> QED BY <2>2, Recursion
<1>6. Is(f)
  <2>1. /\ f \in [0 .. N -> Seq(Creatives)] /\ f[0] = << >>
        /\ \A n \in 1 .. N : f[n] = next[<<n, f[n - 1]>>]
    BY <1>5 DEF Computes
  <2>2. ASSUME NEW n \in 1 .. N PROVE f[n] = With(f[n - 1], n)
    <3>1. n - 1 \in 0 .. N
      BY <1>0
    <3>2. f[n - 1] \in Seq(Creatives)
      BY <2>1, <3>1
    <3> QED BY <1>2, <2>1, <3>2
  <2>3. \A n \in 0 .. N : n = 0 \/ n \in 1 .. N
    BY <1>0
  <2>4. \A n \in 0 .. N : f[n] = IF n = 0 THEN << >> ELSE With(f[n - 1], n)
    BY <1>0, <2>1, <2>2, <2>3
  <2>5. f = [n \in 0 .. N |-> IF n = 0 THEN << >> ELSE With(f[n - 1], n)]
    BY <2>1, <2>4
  <2> QED BY <1>3, <2>5
<1>7. Is(resolved)
  BY <1>6
<1> HIDE DEF resolved
<1>8. /\ resolved[0] = << >>
      /\ \A n \in 1 .. N : resolved[n] = With(resolved[n - 1], n)
  <2>1. resolved = [n \in 0 .. N |-> IF n = 0 THEN << >> ELSE With(resolved[n - 1], n)]
    BY <1>3, <1>7
  <2>2. 0 \in 0 .. N /\ \A n \in 1 .. N : n \in 0 .. N /\ n # 0
    BY <1>0
  <2>3. \A n \in 0 .. N : resolved[n] = IF n = 0 THEN << >> ELSE With(resolved[n - 1], n)
    BY <2>1
  <2> QED BY <2>2, <2>3
<1> DEFINE S == {n \in 0 .. N : IsItems(resolved[n], chain, tag, ad, creatives, n)}
<1>9. 0 \in S
  <2>1. IsItems(<< >>, chain, tag, ad, creatives, 0)
    BY DEF IsItems
  <2> QED BY <1>0, <1>8, <2>1
<1>10. ASSUME NEW n \in 1 .. N, n - 1 \in S PROVE n \in S
  <2>1. n \in Nat \ {0} /\ n \in 0 .. N /\ IsItems(resolved[n - 1], chain, tag, ad, creatives, n - 1)
    BY <1>0, <1>10
  <2>2. IsItems(IF Playable(creatives, n) THEN Append(resolved[n - 1], Item(chain, tag, ad, creatives, n))
                ELSE resolved[n - 1], chain, tag, ad, creatives, n)
    BY <1>1, <2>1, ItemsNext DEF It
  <2>3. resolved[n] = IF Playable(creatives, n) THEN Append(resolved[n - 1], Item(chain, tag, ad, creatives, n))
                      ELSE resolved[n - 1]
    BY <1>1, <1>8 DEF With, It
  <2> QED BY <2>1, <2>2, <2>3
<1>11. N \in S
  <2> HIDE DEF S
  <2>1. 0 .. N \subseteq S
    BY <1>0, <1>9, <1>10, UpTo
  <2> QED BY <1>0, <2>1
<1> QED BY <1>4, <1>11 DEF N

-----------------------------------------------------------------------------
(* The documents.                                                           *)
LEMMA AdsAre ==
  ASSUME document \in [Tags -> DOMAIN Parsed], NEW tag \in Tags
  PROVE  /\ VastOf(tag).ok \in BOOLEAN
         /\ AdsOf(tag) \in Seq(Range(AdsOf(tag)))
         /\ Len(AdsOf(tag)) \in Nat /\ Len(AdsOf(tag)) <= MaxAds
         /\ DOMAIN AdsOf(tag) = 1 .. Len(AdsOf(tag))
         /\ \A i \in DOMAIN AdsOf(tag) :
              LET ad == AdsOf(tag)[i]
              IN  \/ ad.kind = "inline" /\ IsInLine(ad)
                  \/ ad.kind = "wrapper" /\ ad.body.ad_tag_uri \in Texts
<1>1. document[tag] \in DOMAIN Parsed
  OBVIOUS
<1>2. VastOf(tag) \in Range(Parsed)
  BY <1>1 DEF VastOf, Range
<1>3. /\ VastOf(tag).ok \in BOOLEAN
      /\ IsSeq(AdsOf(tag)) /\ Len(AdsOf(tag)) <= MaxAds
      /\ \A ad \in Range(AdsOf(tag)) : IsInLine(ad) \/ IsWrapper(ad)
  BY <1>2, ParsedAssumption DEF AdsOf
<1>4. AdsOf(tag) \in Seq(Range(AdsOf(tag)))
  BY <1>3 DEF IsSeq
<1>5. \A i \in DOMAIN AdsOf(tag) : AdsOf(tag)[i] \in Range(AdsOf(tag))
  BY DEF Range
<1>6. \A ad : IsInLine(ad) => ad.kind = "inline"
  BY DEF IsInLine
<1>7. \A ad : IsWrapper(ad) => ad.kind = "wrapper" /\ ad.body.ad_tag_uri \in Texts
  BY DEF IsWrapper
<1>8. DOMAIN AdsOf(tag) = 1 .. Len(AdsOf(tag)) /\ Len(AdsOf(tag)) \in Nat
  BY <1>4
<1>9. \A i \in DOMAIN AdsOf(tag) :
              LET ad == AdsOf(tag)[i]
              IN  \/ ad.kind = "inline" /\ IsInLine(ad)
                  \/ ad.kind = "wrapper" /\ ad.body.ad_tag_uri \in Texts
  BY <1>3, <1>5, <1>6, <1>7
<1> QED BY <1>3, <1>4, <1>8, <1>9

(* The documents stay, and what is said of them.                            *)
LEMMA DocumentStays ==
  ASSUME [Next]_vars
  PROVE  document' = document
BY DEF Next, vars, Enter, AttemptFails, BadBody, GotDocument, InLineAd, WrapperAd, AdsDone

LEMMA AdsStay ==
  ASSUME document' = document
  PROVE  \A tag : AdsOf(tag)' = AdsOf(tag)
BY DEF AdsOf, VastOf

(* What a step does to the stack.                                           *)
Sets(frame) ==
  /\ stack # << >> /\ Len(stack) \in Nat \ {0}
  /\ stack' \in Seq(Frames) /\ Len(stack') = Len(stack) /\ DOMAIN stack' = 1 .. Len(stack)
  /\ stack'[Len(stack)] = frame /\ frame \in Frames
  /\ \A k \in 1 .. Len(stack) - 1 : stack'[k] = stack[k]
  /\ outcome' = outcome

Pops(result) ==
  /\ Len(stack) \in Nat \ {0}
  /\ Len(stack) = 1 => stack' = << >> /\ outcome' = result
  /\ Len(stack) > 1 =>
       /\ outcome' = outcome
       /\ stack' \in Seq(Frames) /\ Len(stack') = Len(stack) - 1
       /\ DOMAIN stack' = 1 .. Len(stack) - 1
       /\ \A k \in 1 .. Len(stack) - 2 : stack'[k] = stack[k]
       /\ stack'[Len(stack) - 1] =
            [stack[Len(stack) - 1] EXCEPT !.creatives = @ \o result.creatives]

Pushes(frame, new) ==
  /\ Len(stack) \in Nat \ {0}
  /\ stack' \in Seq(Frames) /\ Len(stack') = Len(stack) + 1 /\ DOMAIN stack' = 1 .. Len(stack) + 1
  /\ stack'[Len(stack) + 1] = new /\ stack'[Len(stack)] = frame
  /\ new \in Frames /\ frame \in Frames
  /\ \A k \in 1 .. Len(stack) - 1 : stack'[k] = stack[k]
  /\ outcome' = outcome

LEMMA SomeFrame ==
  ASSUME TypeInv, Running
  PROVE  /\ Len(stack) \in Nat \ {0} /\ DOMAIN stack = 1 .. Len(stack)
         /\ Len(stack) \in DOMAIN stack /\ Top \in Frames
         /\ \A k \in 1 .. Len(stack) : stack[k] \in Frames
<1>1. stack \in Seq(Frames) /\ stack # << >>
  BY DEF TypeInv, Running
<1>2. Len(stack) \in Nat \ {0} /\ DOMAIN stack = 1 .. Len(stack)
  BY <1>1
<1>3. \A k \in 1 .. Len(stack) : stack[k] \in Frames
  BY <1>1
<1> QED BY <1>2, <1>3 DEF Top

LEMMA SetTopSets ==
  ASSUME TypeInv, Running, NEW frame \in Frames, SetTop(frame), outcome' = outcome
  PROVE  Sets(frame)
<1>1. stack \in Seq(Frames) /\ stack # << >> /\ Len(stack) \in Nat \ {0}
  BY SomeFrame DEF TypeInv, Running
<1>2. stack' = [stack EXCEPT ![Len(stack)] = frame]
  BY DEF SetTop
<1>3. Len(stack) \in 1 .. Len(stack)
  BY <1>1
<1>4. /\ stack' \in Seq(Frames) /\ Len(stack') = Len(stack)
      /\ \A k \in 1 .. Len(stack) : stack'[k] = IF k = Len(stack) THEN frame ELSE stack[k]
  BY <1>1, <1>2, <1>3, ExceptSeq
<1>5. DOMAIN stack' = 1 .. Len(stack)
  BY <1>4
<1>6. \A k \in 1 .. Len(stack) - 1 : stack'[k] = stack[k]
  BY <1>1, <1>4
<1> QED BY <1>1, <1>3, <1>4, <1>5, <1>6 DEF Sets

LEMMA ReturnPops ==
  ASSUME TypeInv, Running, NEW result, result.creatives \in Seq(Creatives), Return(result)
  PROVE  Pops(result)
<1> DEFINE L == Len(stack)
           front == Front(stack)
<1>1. stack \in Seq(Frames) /\ stack # << >> /\ L \in Nat \ {0} /\ DOMAIN stack = 1 .. L
  BY SomeFrame DEF TypeInv, Running
<1>2. CASE L = 1
  BY <1>1, <1>2 DEF Return, Pops
<1>3. CASE L > 1
  <2> DEFINE caller == [stack[L - 1] EXCEPT !.creatives = @ \o result.creatives]
  <2>1. outcome' = outcome /\ stack' = [front EXCEPT ![L - 1].creatives = @ \o result.creatives]
    <3>1. ~(L = 1)
      <4>1. L \in Nat
        BY <1>1
      <4> HIDE DEF L
      <4> QED BY <4>1, <1>3
    <3>2. /\ stack' = [Front(stack) EXCEPT ![Len(stack) - 1].creatives = @ \o result.creatives]
          /\ UNCHANGED outcome
      BY <3>1 DEF Return
    <3> QED BY <3>2
  <2>2. front \in Seq(Frames) /\ Len(front) = L - 1 /\ \A k \in 1 .. L - 1 : front[k] = stack[k]
    <3>1. front = SubSeq(stack, 1, L - 1)
      BY DEF Front
    <3>2. \A i \in 1 .. L - 1 : stack[i] \in Frames
      BY <1>1
    <3> HIDE DEF front, L
    <3>3. 1 \in Int /\ L - 1 \in Int /\ 1 <= L - 1 /\ (L - 1) - 1 + 1 = L - 1
      BY <1>1, <1>3
    <3>4. front \in Seq(Frames) /\ Len(front) = (L - 1) - 1 + 1
          /\ \A i \in 1 .. (L - 1) - 1 + 1 : front[i] = stack[1 + i - 1]
      BY <3>1, <3>2, <3>3, SubSeqProperties
    <3>5. \A i \in 1 .. L - 1 : 1 + i - 1 = i
      OBVIOUS
    <3> QED BY <3>3, <3>4, <3>5
  <2>3. stack[L - 1] \in Frames /\ L - 1 \in 1 .. L - 1
    BY <1>1, <1>3
  <2>4. stack[L - 1].creatives \o result.creatives \in Seq(Creatives)
    BY <2>3 DEF Frames
  <2>5. caller \in Frames
    <3> HIDE DEF L
    <3> QED BY <2>3, <2>4 DEF Frames
  <2> HIDE DEF front, L, caller
  <2>6. stack' = [front EXCEPT ![L - 1] = caller]
    BY <2>1, <2>2, <2>3 DEF caller
  <2>7. L - 1 \in 1 .. Len(front)
    BY <2>2, <2>3
  <2>8. /\ stack' \in Seq(Frames) /\ Len(stack') = L - 1
        /\ \A k \in 1 .. L - 1 : stack'[k] = IF k = L - 1 THEN caller ELSE front[k]
    BY <2>2, <2>5, <2>6, <2>7, ExceptSeq
  <2>9. stack'[L - 1] = caller /\ \A k \in 1 .. L - 2 : stack'[k] = stack[k]
    BY <1>1, <2>2, <2>3, <2>8
  <2>10. DOMAIN stack' = 1 .. L - 1
    BY <2>8
  <2>11. ~(L = 1)
    BY <1>3
  <2> QED BY <1>1, <2>1, <2>8, <2>9, <2>10, <2>11, Zenon DEF Pops, L, caller
<1> QED BY <1>1, <1>2, <1>3

LEMMA AppendPushes ==
  ASSUME TypeInv, Running, NEW frame \in Frames, NEW new \in Frames,
         stack' = Append([stack EXCEPT ![Len(stack)] = frame], new), outcome' = outcome
  PROVE  Pushes(frame, new)
<1> DEFINE L == Len(stack)
           below == [stack EXCEPT ![Len(stack)] = frame]
<1>1. stack \in Seq(Frames) /\ L \in Nat \ {0} /\ L \in 1 .. L
  BY SomeFrame DEF TypeInv, Running
<1>2. /\ below \in Seq(Frames) /\ Len(below) = L
      /\ \A k \in 1 .. L : below[k] = IF k = L THEN frame ELSE stack[k]
  BY <1>1, ExceptSeq
<1>3. stack' = Append(below, new)
  OBVIOUS
<1> HIDE DEF below
<1>4. /\ stack' \in Seq(Frames) /\ Len(stack') = L + 1
      /\ stack'[L + 1] = new /\ \A k \in 1 .. L : stack'[k] = below[k]
  <2>1. below \in Seq(Frames) /\ new \in Frames /\ Len(below) = L
    BY <1>2
  <2>2. /\ Append(below, new) \in Seq(Frames) /\ Len(Append(below, new)) = Len(below) + 1
        /\ \A k \in 1 .. Len(below) : Append(below, new)[k] = below[k]
        /\ Append(below, new)[Len(below) + 1] = new
    BY <2>1, AppendProperties
  <2> QED BY <2>1, <2>2, <1>3
<1>5. stack'[L] = frame /\ \A k \in 1 .. L - 1 : stack'[k] = stack[k]
  BY <1>1, <1>2, <1>4
<1>6. DOMAIN stack' = 1 .. L + 1
  BY <1>4
<1> QED BY <1>1, <1>4, <1>5, <1>6 DEF Pushes

(* What each action does.                                                   *)
LEMMA EnterDoes ==
  ASSUME TypeInv, Enter
  PROVE  /\ Running /\ Top.pc = "enter" /\ answered' = answered /\ attempts' = attempts
         /\ \/ Top.depth > MaxWrapperDepth /\ Pops(None)
            \/ Top.depth <= MaxWrapperDepth /\ Sets([Top EXCEPT !.pc = "fetch"])
<1>1. Running /\ Top.pc = "enter" /\ answered' = answered /\ attempts' = attempts
  BY DEF Enter, At
<1>2. Top \in Frames /\ Top.depth \in Nat /\ MaxWrapperDepth \in Nat
  BY <1>1, SomeFrame, SizesAssumption DEF Frames
<1>3. CASE Top.depth > MaxWrapperDepth
  <2>1. Return(None)
    BY <1>3 DEF Enter, TooDeep
  <2>2. None.creatives \in Seq(Creatives)
    BY DEF None
  <2> QED BY <1>1, <1>3, <2>1, <2>2, ReturnPops
<1>4. CASE ~(Top.depth > MaxWrapperDepth)
  <2> DEFINE f == [Top EXCEPT !.pc = "fetch"]
  <2>1. SetTop(f) /\ outcome' = outcome
    BY <1>4 DEF Enter, TooDeep
  <2>2. f \in Frames
    BY <1>2 DEF Frames
  <2> HIDE DEF f
  <2>3. Sets(f)
    BY <1>1, <2>1, <2>2, SetTopSets
  <2> QED BY <1>1, <1>2, <1>4, <2>3 DEF f
<1> QED BY <1>3, <1>4

LEMMA AttemptFailsDoes ==
  ASSUME TypeInv, AttemptFails
  PROVE  /\ Running /\ Top.pc = "fetch" /\ answered' = answered /\ attempts' = attempts + 1
         /\ \/ Top.attempt < MaxAttempts /\ Sets([Top EXCEPT !.attempt = @ + 1])
            \/ Pops(None)
<1>1. Running /\ Top.pc = "fetch" /\ answered' = answered /\ attempts' = attempts + 1
  BY DEF AttemptFails, At
<1>2. Top \in Frames /\ Top.attempt \in 1 .. MaxAttempts /\ MaxAttempts \in Nat
  BY <1>1, SomeFrame, SizesAssumption DEF Frames
<1>3. CASE Top.attempt < MaxAttempts
  <2> DEFINE f == [Top EXCEPT !.attempt = @ + 1]
  <2>1. SetTop(f) /\ outcome' = outcome
    BY <1>3 DEF AttemptFails
  <2>2. Top.attempt + 1 \in 1 .. MaxAttempts
    BY <1>2, <1>3
  <2>3. f \in Frames
    BY <1>2, <2>2 DEF Frames
  <2> HIDE DEF f
  <2>4. Sets(f)
    BY <1>1, <2>1, <2>3, SetTopSets
  <2> QED BY <1>1, <1>3, <2>4 DEF f
<1>4. CASE ~(Top.attempt < MaxAttempts)
  <2>1. Return(None)
    BY <1>4 DEF AttemptFails
  <2>2. None.creatives \in Seq(Creatives)
    BY DEF None
  <2> QED BY <1>1, <2>1, <2>2, ReturnPops
<1> QED BY <1>3, <1>4

LEMMA BadBodyDoes ==
  ASSUME TypeInv, BadBody
  PROVE  /\ Running /\ Top.pc = "fetch" /\ answered' = answered /\ attempts' = attempts + 1
         /\ Pops(None)
<1>1. Running /\ Top.pc = "fetch" /\ answered' = answered /\ attempts' = attempts + 1 /\ Return(None)
  BY DEF BadBody, At
<1>2. None.creatives \in Seq(Creatives)
  BY DEF None
<1> QED BY <1>1, <1>2, ReturnPops

LEMMA GotDocumentDoes ==
  ASSUME TypeInv, GotDocument
  PROVE  /\ Running /\ Top.pc = "fetch" /\ attempts' = attempts + 1 /\ Top.tag \in Tags
         /\ \/ /\ answered' = answered \cup {<<Top.chain, Top.tag>>}
               /\ Sets([Top EXCEPT !.pc = "ads"])
            \/ answered' = answered /\ Pops(None)
<1>1. Running /\ Top.pc = "fetch" /\ attempts' = attempts + 1 /\ Top.tag \in Tags
  BY DEF GotDocument, At
<1>2. Top \in Frames
  BY <1>1, SomeFrame
<1>3. CASE VastOf(Top.tag).ok
  <2> DEFINE f == [Top EXCEPT !.pc = "ads"]
  <2>1. SetTop(f) /\ outcome' = outcome /\ answered' = answered \cup {<<Top.chain, Top.tag>>}
    BY <1>3 DEF GotDocument
  <2>2. f \in Frames
    BY <1>2 DEF Frames
  <2> HIDE DEF f
  <2>3. Sets(f)
    BY <1>1, <2>1, <2>2, SetTopSets
  <2> QED BY <1>1, <2>1, <2>3 DEF f
<1>4. CASE ~VastOf(Top.tag).ok
  <2>1. Return(None) /\ answered' = answered
    BY <1>4 DEF GotDocument
  <2>2. None.creatives \in Seq(Creatives)
    BY DEF None
  <2> QED BY <1>1, <2>1, <2>2, ReturnPops
<1> QED BY <1>3, <1>4

(* The creatives of the current ad, an InLine ad.                           *)
Items == CreativesOf(Top.chain, Top.tag, Top.ad, CurrentAd.body.creatives)

LEMMA CurrentAdIs ==
  ASSUME TypeInv, FrameInv, HasAd
  PROVE  /\ Running /\ Top.pc = "ads" /\ Top \in Frames
         /\ Top.tag \in Tags /\ Top.ad \in Nat \ {0} /\ Top.ad \in DOMAIN AdsOf(Top.tag)
         /\ Top.ad <= Len(AdsOf(Top.tag)) /\ Len(AdsOf(Top.tag)) \in Nat
         /\ \/ CurrentAd.kind = "inline" /\ IsInLine(CurrentAd)
            \/ CurrentAd.kind = "wrapper" /\ CurrentAd.body.ad_tag_uri \in Texts
<1>1. Running /\ Top.pc = "ads" /\ Top.ad <= Len(AdsOf(Top.tag))
  BY DEF HasAd, At
<1>2. Top \in Frames /\ Top.ad \in Nat \ {0} /\ Len(stack) \in DOMAIN stack
  BY <1>1, SomeFrame DEF Frames
<1>3. Top.tag \in Tags
  BY <1>1, <1>2 DEF FrameInv, FrameOk, Top
<1>4. document \in [Tags -> DOMAIN Parsed]
  BY DEF TypeInv
<1>5. DOMAIN AdsOf(Top.tag) = 1 .. Len(AdsOf(Top.tag)) /\ Len(AdsOf(Top.tag)) \in Nat
  BY <1>3, <1>4, AdsAre
<1>6. Top.ad \in DOMAIN AdsOf(Top.tag)
  BY <1>1, <1>2, <1>5
<1>7. \/ CurrentAd.kind = "inline" /\ IsInLine(CurrentAd)
      \/ CurrentAd.kind = "wrapper" /\ CurrentAd.body.ad_tag_uri \in Texts
  BY <1>3, <1>4, <1>6, AdsAre DEF CurrentAd
<1> QED BY <1>1, <1>2, <1>3, <1>5, <1>6, <1>7

LEMMA ItemsOfAd ==
  ASSUME TypeInv, FrameInv, HasAd, CurrentAd.kind = "inline"
  PROVE  /\ IsSeq(CurrentAd.body.creatives)
         /\ IsItems(Items, Top.chain, Top.tag, Top.ad, CurrentAd.body.creatives,
                    Len(CurrentAd.body.creatives))
         /\ Items \in Seq(Creatives)
<1> DEFINE cs == CurrentAd.body.creatives
<1>1. /\ Top \in Frames /\ Top.tag \in Texts /\ Top.ad \in Nat
      /\ IsInLine(CurrentAd)
  BY CurrentAdIs, TagsAssumption
<1>2. Top.chain \in Seq(Places)
  BY <1>1 DEF Frames
<1>3. /\ IsSeq(cs)
      /\ \A c \in Range(cs) : c.linear = Nothing \/ c.linear[1].media_files \in Seq(MediaFiles)
  BY <1>1 DEF IsInLine
<1>4. cs \in Seq(Range(cs))
  BY <1>3 DEF IsSeq
<1> HIDE DEF cs
<1>5. IsItems(CreativesOf(Top.chain, Top.tag, Top.ad, cs), Top.chain, Top.tag, Top.ad, cs, Len(cs))
  BY <1>1, <1>2, <1>3, <1>4, CreativesOfAre
<1>6. CreativesOf(Top.chain, Top.tag, Top.ad, cs) \in Seq(Creatives)
  BY <1>5 DEF IsItems
<1> QED BY <1>3, <1>5, <1>6 DEF cs, Items

LEMMA InLineAdDoes ==
  ASSUME TypeInv, FrameInv, InLineAd
  PROVE  /\ HasAd /\ CurrentAd.kind = "inline" /\ answered' = answered /\ attempts' = attempts
         /\ Sets([Top EXCEPT !.ad = @ + 1, !.creatives = @ \o Items])
<1> DEFINE f == [Top EXCEPT !.ad = @ + 1, !.creatives = @ \o Items]
<1>1. /\ HasAd /\ CurrentAd.kind = "inline" /\ answered' = answered /\ attempts' = attempts
      /\ outcome' = outcome /\ SetTop(f)
  BY DEF InLineAd, Items
<1>2. Running /\ Top \in Frames /\ Items \in Seq(Creatives)
  BY <1>1, CurrentAdIs, ItemsOfAd
<1>3. Top.creatives \o Items \in Seq(Creatives) /\ Top.ad + 1 \in Nat \ {0}
  BY <1>2 DEF Frames
<1>4. f \in Frames
  BY <1>2, <1>3 DEF Frames
<1> HIDE DEF f
<1>5. Sets(f)
  BY <1>1, <1>2, <1>4, SetTopSets
<1> QED BY <1>1, <1>5 DEF f

(* The call for the current ad, a wrapper.                                  *)
Called ==
  Frame(CurrentAd.body.ad_tag_uri, Top.depth + 1, Merged(Top.chain, Top.tag, Top.ad, 0))

LEMMA CalledIs ==
  ASSUME TypeInv, FrameInv, HasAd, CurrentAd.kind = "wrapper"
  PROVE  /\ Called \in Frames /\ Called.pc = "enter" /\ Called.ad = 1 /\ Called.creatives = << >>
         /\ Called.tag = CurrentAd.body.ad_tag_uri /\ Called.depth = Top.depth + 1
         /\ Called.chain = Merged(Top.chain, Top.tag, Top.ad, 0)
         /\ Len(Called.chain) = Len(Top.chain) + 1
<1>1. /\ Top \in Frames /\ Top.tag \in Texts /\ Top.ad \in Nat
      /\ CurrentAd.body.ad_tag_uri \in Texts
  BY CurrentAdIs, TagsAssumption
<1>2. Top.chain \in Seq(Places) /\ Top.depth \in Nat
  BY <1>1 DEF Frames
<1>3. <<Top.tag, Top.ad, 0>> \in Places
  BY <1>1 DEF Places
<1>4. /\ Merged(Top.chain, Top.tag, Top.ad, 0) \in Seq(Places)
      /\ Len(Merged(Top.chain, Top.tag, Top.ad, 0)) = Len(Top.chain) + 1
  BY <1>2, <1>3, AppendProperties DEF Merged
<1>5. 1 \in 1 .. MaxAttempts
  BY SizesAssumption
<1>6. Called \in Frames
  BY <1>1, <1>2, <1>4, <1>5 DEF Called, Frame, Frames
<1> QED BY <1>4, <1>6 DEF Called, Frame

LEMMA WrapperAdDoes ==
  ASSUME TypeInv, FrameInv, WrapperAd
  PROVE  /\ HasAd /\ CurrentAd.kind = "wrapper" /\ answered' = answered /\ attempts' = attempts
         /\ Pushes([Top EXCEPT !.ad = @ + 1], Called)
<1> DEFINE f == [Top EXCEPT !.ad = @ + 1]
<1>1. /\ HasAd /\ CurrentAd.kind = "wrapper" /\ answered' = answered /\ attempts' = attempts
      /\ outcome' = outcome
      /\ stack' = Append([stack EXCEPT ![Len(stack)].ad = @ + 1], Called)
  BY DEF WrapperAd, Called
<1>2. Running /\ Top \in Frames /\ Called \in Frames
  BY <1>1, CurrentAdIs, CalledIs
<1>3. Top.ad + 1 \in Nat \ {0}
  BY <1>2 DEF Frames
<1>4. f \in Frames
  BY <1>2, <1>3 DEF Frames
<1>5. [stack EXCEPT ![Len(stack)].ad = @ + 1] = [stack EXCEPT ![Len(stack)] = f]
  BY <1>2, SomeFrame DEF Top
<1> HIDE DEF f
<1>6. Pushes(f, Called)
  BY <1>1, <1>2, <1>4, <1>5, AppendPushes
<1> QED BY <1>1, <1>6 DEF f

LEMMA AdsDoneDoes ==
  ASSUME TypeInv, AdsDone
  PROVE  /\ Running /\ Top.pc = "ads" /\ Top.ad > Len(AdsOf(Top.tag))
         /\ answered' = answered /\ attempts' = attempts
         /\ Top.creatives \in Seq(Creatives) /\ Pops(Some(Top.creatives))
<1>1. /\ Running /\ Top.pc = "ads" /\ Top.ad > Len(AdsOf(Top.tag))
      /\ answered' = answered /\ attempts' = attempts /\ Return(Some(Top.creatives))
  BY DEF AdsDone, At
<1>2. Top.creatives \in Seq(Creatives)
  BY <1>1, SomeFrame DEF Frames
<1>3. Some(Top.creatives).creatives \in Seq(Creatives)
  BY <1>2 DEF Some
<1> QED BY <1>1, <1>2, <1>3, ReturnPops

-----------------------------------------------------------------------------
(* The types, and the frames, are kept.                                     *)
LEMMA FramesAfterSet ==
  ASSUME FrameInv, TypeInv, document' = document, NEW frame, Sets(frame),
         FrameOk(frame, Len(stack), Len(stack))
  PROVE  FrameInv' /\ stack' \in Seq(Frames)
<1>1. \A f, k, n : FrameOk(f, k, n)' <=> FrameOk(f, k, n)
  BY AdsStay DEF FrameOk
<1>2. /\ DOMAIN stack' = 1 .. Len(stack) /\ Len(stack') = Len(stack)
      /\ Len(stack) \in Nat \ {0} /\ stack' \in Seq(Frames)
  BY DEF Sets
<1>3. ASSUME NEW k \in DOMAIN stack' PROVE (FrameOk(stack[k], k, Len(stack)))'
  <2>1. CASE k = Len(stack)
    BY <1>1, <1>2, <2>1 DEF Sets
  <2>2. CASE k # Len(stack)
    <3>1. k \in 1 .. Len(stack) - 1 /\ k \in DOMAIN stack
      BY <1>2, <2>2 DEF TypeInv
    <3>2. stack'[k] = stack[k] /\ FrameOk(stack[k], k, Len(stack))
      BY <3>1 DEF Sets, FrameInv
    <3> QED BY <1>1, <1>2, <3>2
  <2> QED BY <2>1, <2>2
<1>4. FrameInv'
  BY <1>3 DEF FrameInv
<1> QED BY <1>2, <1>4

LEMMA FramesAfterPop ==
  ASSUME FrameInv, TypeInv, document' = document, NEW result,
         result \in [some : BOOLEAN, creatives : Seq(Creatives)], Pops(result)
  PROVE  /\ FrameInv' /\ stack' \in Seq(Frames)
         /\ outcome' \in [some : BOOLEAN, creatives : Seq(Creatives)]
<1>0. Len(stack) \in Nat \ {0} /\ DOMAIN stack = 1 .. Len(stack)
  BY DEF Pops, TypeInv
<1>1. CASE Len(stack) = 1
  <2>1. stack' = << >> /\ outcome' = result
    BY <1>1 DEF Pops
  <2> QED BY <2>1 DEF FrameInv
<1>2. CASE Len(stack) > 1
  <2> DEFINE L == Len(stack)
  <2>1. /\ outcome' = outcome /\ stack' \in Seq(Frames) /\ Len(stack') = L - 1
        /\ DOMAIN stack' = 1 .. L - 1
        /\ \A k \in 1 .. L - 2 : stack'[k] = stack[k]
        /\ stack'[L - 1] = [stack[L - 1] EXCEPT !.creatives = @ \o result.creatives]
    BY <1>2 DEF Pops
  <2>2. \A f, k, n : FrameOk(f, k, n)' <=> FrameOk(f, k, n)
    BY AdsStay DEF FrameOk
  <2>3. ASSUME NEW k \in 1 .. L - 1
        PROVE  /\ stack[k] \in Frames /\ FrameOk(stack[k], k, L)
               /\ stack[k].pc = "ads" /\ stack[k].ad > 1
    <3>1. k \in DOMAIN stack /\ k < L
      BY <1>0
    <3>2. stack[k] \in Frames /\ FrameOk(stack[k], k, L)
      BY <3>1 DEF TypeInv, FrameInv
    <3> QED BY <3>1, <3>2 DEF FrameOk
  <2>4. \A f, k, n : FrameOk(f, k, n) /\ f.pc = "ads" /\ f.ad > 1 => FrameOk(f, k, n - 1)
    BY DEF FrameOk
  <2>5. ASSUME NEW k \in 1 .. L - 1 PROVE FrameOk(stack'[k], k, L - 1)
    <3>1. CASE k \in 1 .. L - 2
      BY <2>1, <2>3, <2>4, <3>1
    <3>2. CASE k = L - 1
      <4>1. /\ stack[k] \in Frames /\ FrameOk(stack[k], k, L - 1)
            /\ stack'[k] = [stack[k] EXCEPT !.creatives = @ \o result.creatives]
        BY <2>1, <2>3, <2>4, <3>2
      <4>2. /\ stack'[k].pc = "ads" /\ stack[k].pc = "ads"
            /\ stack'[k].depth = stack[k].depth /\ stack'[k].chain = stack[k].chain
            /\ stack'[k].ad = stack[k].ad /\ stack'[k].tag = stack[k].tag
        BY <2>3, <4>1 DEF Frames
      <4> QED BY <4>1, <4>2 DEF FrameOk
    <3>3. k \in 1 .. L - 2 \/ k = L - 1
      <4>1. L \in Nat \ {0} /\ k \in 1 .. L - 1
        BY <1>0
      <4> HIDE DEF L
      <4> QED BY <4>1
    <3> QED BY <3>1, <3>2, <3>3
  <2>6. FrameInv'
    BY <2>1, <2>2, <2>5 DEF FrameInv
  <2> QED BY <2>1, <2>6 DEF TypeInv
<1> QED BY <1>0, <1>1, <1>2

LEMMA FramesAfterPush ==
  ASSUME FrameInv, TypeInv, document' = document, NEW frame, NEW new, Pushes(frame, new),
         FrameOk(frame, Len(stack), Len(stack) + 1), FrameOk(new, Len(stack) + 1, Len(stack) + 1)
  PROVE  FrameInv' /\ stack' \in Seq(Frames)
<1>1. \A f, k, n : FrameOk(f, k, n)' <=> FrameOk(f, k, n)
  BY AdsStay DEF FrameOk
<1>2. /\ DOMAIN stack' = 1 .. Len(stack) + 1 /\ Len(stack') = Len(stack) + 1
      /\ Len(stack) \in Nat \ {0} /\ stack' \in Seq(Frames)
  BY DEF Pushes
<1>3. ASSUME NEW k \in DOMAIN stack' PROVE (FrameOk(stack[k], k, Len(stack)))'
  <2>1. CASE k = Len(stack) + 1
    BY <1>1, <1>2, <2>1 DEF Pushes
  <2>2. CASE k = Len(stack)
    BY <1>1, <1>2, <2>2 DEF Pushes
  <2>3. CASE k \in 1 .. Len(stack) - 1
    <3>1. k \in DOMAIN stack /\ k < Len(stack)
      BY <1>2, <2>3 DEF TypeInv
    <3>2. stack'[k] = stack[k] /\ FrameOk(stack[k], k, Len(stack))
      BY <2>3, <3>1 DEF Pushes, FrameInv
    <3>3. FrameOk(stack[k], k, Len(stack) + 1)
      BY <3>1, <3>2 DEF FrameOk
    <3> QED BY <1>1, <1>2, <3>2, <3>3
  <2> QED BY <1>2, <2>1, <2>2, <2>3
<1>4. FrameInv'
  BY <1>3 DEF FrameInv
<1> QED BY <1>2, <1>4

LEMMA TopOk ==
  ASSUME TypeInv, FrameInv, Running
  PROVE  FrameOk(Top, Len(stack), Len(stack)) /\ Top \in Frames
BY SomeFrame DEF FrameInv, Top

LEMMA InitTypes == Init => TypeInv /\ FrameInv
<1> SUFFICES ASSUME Init PROVE TypeInv /\ FrameInv
  OBVIOUS
<1>1. document \in [Tags -> DOMAIN Parsed]
  BY DEF Init
<1>2. Frame(Root, 0, << >>) \in Frames
  BY TagsAssumption, SizesAssumption DEF Frame, Frames
<1>3. stack = <<Frame(Root, 0, << >>)>>
  BY DEF Init
<1>4. stack \in Seq(Frames) /\ Len(stack) = 1 /\ DOMAIN stack = 1 .. 1 /\ stack[1] = Frame(Root, 0, << >>)
  BY <1>2, <1>3
<1>5. FrameOk(Frame(Root, 0, << >>), 1, 1)
  BY SizesAssumption DEF Frame, FrameOk
<1>6. FrameInv
  BY <1>4, <1>5 DEF FrameInv
<1>7. outcome \in [some : BOOLEAN, creatives : Seq(Creatives)] /\ answered = {} /\ attempts = 0
  BY DEF Init, None
<1> QED BY <1>1, <1>4, <1>6, <1>7 DEF TypeInv

LEMMA StepTypes ==
  ASSUME TypeInv, FrameInv, [Next]_vars
  PROVE  TypeInv' /\ FrameInv'
<1> DEFINE L == Len(stack)
           Outcomes == [some : BOOLEAN, creatives : Seq(Creatives)]
           Good == /\ FrameInv' /\ stack' \in Seq(Frames) /\ outcome' \in Outcomes
                   /\ answered' \subseteq Seq(Places) \X Tags /\ attempts' \in Nat
<1>1. document' = document /\ document \in [Tags -> DOMAIN Parsed]
  BY DocumentStays DEF TypeInv
<1>2. /\ outcome \in Outcomes /\ attempts \in Nat /\ attempts + 1 \in Nat
      /\ answered \subseteq Seq(Places) \X Tags /\ stack \in Seq(Frames)
  BY DEF TypeInv
<1>3. None \in Outcomes /\ MaxWrapperDepth \in Nat /\ MaxAttempts \in Nat
  BY SizesAssumption DEF None
<1> SUFFICES Good
  BY <1>1 DEF TypeInv
<1>4. CASE Enter
  <2>1. /\ Running /\ Top.pc = "enter" /\ answered' = answered /\ attempts' = attempts
        /\ \/ Top.depth > MaxWrapperDepth /\ Pops(None)
           \/ Top.depth <= MaxWrapperDepth /\ Sets([Top EXCEPT !.pc = "fetch"])
    BY <1>4, EnterDoes
  <2>2. CASE Pops(None)
    <3>1. FrameInv' /\ stack' \in Seq(Frames) /\ outcome' \in Outcomes
      BY <1>1, <1>3, <2>2, FramesAfterPop
    <3> QED BY <1>2, <2>1, <3>1
  <2>3. CASE Top.depth <= MaxWrapperDepth /\ Sets([Top EXCEPT !.pc = "fetch"])
    <3> DEFINE f == [Top EXCEPT !.pc = "fetch"]
    <3>1. FrameOk(Top, L, L) /\ Top \in Frames /\ L \in Nat
      BY <2>1, TopOk, SomeFrame
    <3>2. FrameOk(f, L, L)
      BY <1>3, <2>1, <2>3, <3>1 DEF FrameOk, Frames
    <3>3. Sets(f) /\ outcome' = outcome
      BY <2>3 DEF Sets
    <3> HIDE DEF f
    <3>4. FrameInv' /\ stack' \in Seq(Frames)
      BY <1>1, <3>2, <3>3, FramesAfterSet
    <3> QED BY <1>2, <2>1, <3>3, <3>4
  <2> QED BY <2>1, <2>2, <2>3
<1>5. CASE AttemptFails
  <2>1. /\ Running /\ Top.pc = "fetch" /\ answered' = answered /\ attempts' = attempts + 1
        /\ \/ Top.attempt < MaxAttempts /\ Sets([Top EXCEPT !.attempt = @ + 1])
           \/ Pops(None)
    BY <1>5, AttemptFailsDoes
  <2>2. CASE Pops(None)
    <3>1. FrameInv' /\ stack' \in Seq(Frames) /\ outcome' \in Outcomes
      BY <1>1, <1>3, <2>2, FramesAfterPop
    <3> QED BY <1>2, <2>1, <3>1
  <2>3. CASE Sets([Top EXCEPT !.attempt = @ + 1])
    <3> DEFINE f == [Top EXCEPT !.attempt = @ + 1]
    <3>1. FrameOk(Top, L, L) /\ Top \in Frames /\ L \in Nat
      BY <2>1, TopOk, SomeFrame
    <3>2. FrameOk(f, L, L)
      BY <2>1, <3>1 DEF FrameOk, Frames
    <3>3. Sets(f) /\ outcome' = outcome
      BY <2>3 DEF Sets
    <3> HIDE DEF f
    <3>4. FrameInv' /\ stack' \in Seq(Frames)
      BY <1>1, <3>2, <3>3, FramesAfterSet
    <3> QED BY <1>2, <2>1, <3>3, <3>4
  <2> QED BY <2>1, <2>2, <2>3
<1>6. CASE BadBody
  <2>1. answered' = answered /\ attempts' = attempts + 1 /\ Pops(None)
    BY <1>6, BadBodyDoes
  <2>2. FrameInv' /\ stack' \in Seq(Frames) /\ outcome' \in Outcomes
    BY <1>1, <1>3, <2>1, FramesAfterPop
  <2> QED BY <1>2, <2>1, <2>2
<1>7. CASE GotDocument
  <2>1. /\ Running /\ Top.pc = "fetch" /\ attempts' = attempts + 1 /\ Top.tag \in Tags
        /\ \/ /\ answered' = answered \cup {<<Top.chain, Top.tag>>}
              /\ Sets([Top EXCEPT !.pc = "ads"])
           \/ answered' = answered /\ Pops(None)
    BY <1>7, GotDocumentDoes
  <2>2. CASE answered' = answered /\ Pops(None)
    <3>1. FrameInv' /\ stack' \in Seq(Frames) /\ outcome' \in Outcomes
      BY <1>1, <1>3, <2>2, FramesAfterPop
    <3> QED BY <1>2, <2>1, <2>2, <3>1
  <2>3. CASE answered' = answered \cup {<<Top.chain, Top.tag>>} /\ Sets([Top EXCEPT !.pc = "ads"])
    <3> DEFINE f == [Top EXCEPT !.pc = "ads"]
    <3>1. FrameOk(Top, L, L) /\ Top \in Frames /\ L \in Nat
      BY <2>1, TopOk, SomeFrame
    <3>2. Len(AdsOf(Top.tag)) \in Nat /\ Top.chain \in Seq(Places)
      BY <1>1, <2>1, <3>1, AdsAre DEF Frames
    <3>3. FrameOk(f, L, L)
      BY <2>1, <3>1, <3>2 DEF FrameOk, Frames
    <3>4. Sets(f) /\ outcome' = outcome
      BY <2>3 DEF Sets
    <3> HIDE DEF f
    <3>5. FrameInv' /\ stack' \in Seq(Frames)
      BY <1>1, <3>3, <3>4, FramesAfterSet
    <3>6. answered' \subseteq Seq(Places) \X Tags
      BY <1>2, <2>1, <2>3, <3>2
    <3> QED BY <1>2, <2>1, <3>4, <3>5, <3>6
  <2> QED BY <2>1, <2>2, <2>3
<1>8. CASE InLineAd
  <2> DEFINE f == [Top EXCEPT !.ad = @ + 1, !.creatives = @ \o Items]
  <2>1. /\ HasAd /\ answered' = answered /\ attempts' = attempts /\ Sets(f)
    BY <1>8, InLineAdDoes
  <2>2. /\ Running /\ Top.pc = "ads" /\ Top.tag \in Tags /\ Top.ad \in Nat \ {0}
        /\ Top.ad <= Len(AdsOf(Top.tag)) /\ Len(AdsOf(Top.tag)) \in Nat
    BY <2>1, CurrentAdIs
  <2>3. FrameOk(Top, L, L) /\ Top \in Frames /\ L \in Nat
    BY <2>2, TopOk, SomeFrame
  <2>4. FrameOk(f, L, L)
    BY <2>2, <2>3 DEF FrameOk, Frames
  <2> HIDE DEF f
  <2>5. FrameInv' /\ stack' \in Seq(Frames) /\ outcome' = outcome
    BY <1>1, <2>1, <2>4, FramesAfterSet DEF Sets
  <2> QED BY <1>2, <2>1, <2>5
<1>9. CASE WrapperAd
  <2> DEFINE f == [Top EXCEPT !.ad = @ + 1]
  <2>1. /\ HasAd /\ CurrentAd.kind = "wrapper" /\ answered' = answered /\ attempts' = attempts
        /\ Pushes(f, Called)
    BY <1>9, WrapperAdDoes
  <2>2. /\ Running /\ Top.pc = "ads" /\ Top.tag \in Tags /\ Top.ad \in Nat \ {0}
        /\ Top.ad <= Len(AdsOf(Top.tag)) /\ Len(AdsOf(Top.tag)) \in Nat
    BY <2>1, CurrentAdIs
  <2>3. FrameOk(Top, L, L) /\ Top \in Frames /\ L \in Nat
    BY <2>2, TopOk, SomeFrame
  <2>4. FrameOk(f, L, L + 1)
    BY <2>2, <2>3 DEF FrameOk, Frames
  <2>5. /\ Called.pc = "enter" /\ Called.ad = 1 /\ Called.creatives = << >>
        /\ Called.depth = Top.depth + 1 /\ Len(Called.chain) = Len(Top.chain) + 1
    BY <2>1, CalledIs
  <2>6. /\ L <= MaxWrapperDepth + 1 /\ Top.depth = L - 1 /\ Len(Top.chain) = L - 1
    BY <2>2, <2>3 DEF FrameOk
  <2>7. FrameOk(Called, L + 1, L + 1)
    BY <1>3, <2>3, <2>5, <2>6 DEF FrameOk
  <2> HIDE DEF f
  <2>8. FrameInv' /\ stack' \in Seq(Frames) /\ outcome' = outcome
    BY <1>1, <2>1, <2>4, <2>7, FramesAfterPush DEF Pushes
  <2> QED BY <1>2, <2>1, <2>8
<1>10. CASE AdsDone
  <2>1. /\ answered' = answered /\ attempts' = attempts
        /\ Top.creatives \in Seq(Creatives) /\ Pops(Some(Top.creatives))
    BY <1>10, AdsDoneDoes
  <2>2. Some(Top.creatives) \in Outcomes
    BY <2>1 DEF Some
  <2>3. FrameInv' /\ stack' \in Seq(Frames) /\ outcome' \in Outcomes
    BY <1>1, <2>1, <2>2, FramesAfterPop
  <2> QED BY <1>2, <2>1, <2>3
<1>11. CASE UNCHANGED vars
  <2>1. stack' = stack /\ outcome' = outcome /\ answered' = answered /\ attempts' = attempts
    BY <1>11 DEF vars
  <2>2. \A f, k, n : FrameOk(f, k, n)' <=> FrameOk(f, k, n)
    BY <1>1, AdsStay DEF FrameOk
  <2>3. FrameInv'
    BY <2>1, <2>2 DEF FrameInv
  <2> QED BY <1>2, <2>1, <2>3
<1> QED BY <1>4, <1>5, <1>6, <1>7, <1>8, <1>9, <1>10, <1>11 DEF Next

-----------------------------------------------------------------------------
(* The requests still due, added up from the outermost frame.               *)
Totals(b) ==
  /\ b \in [0 .. Len(stack) -> Nat] /\ b[0] = 0
  /\ \A k \in 1 .. Len(stack) : b[k] = b[k - 1] + Due(stack[k])

DueInv == \E b : Totals(b) /\ attempts + b[Len(stack)] <= RequestsFrom[MaxWrapperDepth + 1]

LEMMA Multiples ==
  ASSUME NEW a \in Nat, NEW b \in Nat, NEW r \in Nat, a <= b
  PROVE  a * r \in Nat /\ a * r <= b * r
<1>1. a * r \in Nat /\ (b - a) * r \in Nat /\ b * r = a * r + (b - a) * r
  OBVIOUS
<1> QED BY <1>1

LEMMA DueIs ==
  ASSUME document \in [Tags -> DOMAIN Parsed],
         NEW f \in Frames, NEW k \in Nat \ {0}, NEW n, FrameOk(f, k, n)
  PROVE  LET below == RequestsFrom[Levels(f) - 1]
         IN  /\ Due(f) \in Nat
             /\ f.pc = "enter" => Due(f) = RequestsFrom[Levels(f)]
             /\ f.pc # "enter" => /\ Levels(f) \in 1 .. MaxWrapperDepth + 1
                                  /\ below \in Nat
                                  /\ RequestsFrom[Levels(f)] = MaxAttempts + MaxAds * below
             /\ f.pc = "fetch" => Due(f) = MaxAttempts + 1 - f.attempt + MaxAds * below
             /\ f.pc = "ads" => Due(f) = (Len(AdsOf(f.tag)) + 1 - f.ad) * below
<1> DEFINE N == MaxWrapperDepth + 1
           below == RequestsFrom[Levels(f) - 1]
<1>1. f \in Frames /\ FrameOk(f, k, n) /\ k \in Nat \ {0}
  OBVIOUS
<1>2. f.depth = k - 1 /\ Levels(f) = N - (k - 1) /\ N \in Nat /\ f.pc \in {"enter", "fetch", "ads"}
  BY <1>1, SizesAssumption DEF Levels, FrameOk, Frames
<1>3. MaxAds \in Nat /\ MaxAttempts \in Nat /\ RequestsFrom \in [0 .. N -> Nat]
      /\ \A l \in 1 .. N : RequestsFrom[l] = MaxAttempts + MaxAds * RequestsFrom[l - 1]
  BY SizesAssumption, RequestsAre
<1>4. CASE f.pc = "enter"
  <2>1. k <= MaxWrapperDepth + 2
    BY <1>1, <1>4 DEF FrameOk
  <2>2. Levels(f) \in 0 .. N
    BY <1>1, <1>2, <2>1, SizesAssumption
  <2>3. Due(f) = RequestsFrom[Levels(f)]
    BY <1>4 DEF Due
  <2> QED BY <1>3, <1>4, <2>2, <2>3
<1>5. CASE f.pc # "enter"
  <2>1. k <= MaxWrapperDepth + 1
    BY <1>1, <1>5 DEF FrameOk
  <2>2. Levels(f) \in 1 .. N /\ Levels(f) - 1 \in 0 .. N
    BY <1>1, <1>2, <2>1, SizesAssumption
  <2>3. below \in Nat /\ RequestsFrom[Levels(f)] = MaxAttempts + MaxAds * below
    BY <1>3, <2>2
  <2>4. CASE f.pc = "fetch"
    <3>1. Due(f) = MaxAttempts + 1 - f.attempt + MaxAds * below
      BY <2>4 DEF Due
    <3>2. f.attempt \in 1 .. MaxAttempts
      BY <1>1 DEF Frames
    <3>3. MaxAds * below \in Nat
      BY <1>3, <2>3, Multiples
    <3>4. MaxAttempts + 1 - f.attempt \in Nat
      BY <1>3, <3>2
    <3> HIDE DEF below, N
    <3>5. Due(f) \in Nat
      BY <3>1, <3>3, <3>4
    <3> QED BY <1>5, <2>2, <2>3, <2>4, <3>1, <3>5 DEF below, N
  <2>5. CASE f.pc = "ads"
    <3>1. Due(f) = (Len(AdsOf(f.tag)) + 1 - f.ad) * below
      BY <2>5 DEF Due
    <3>2. f.tag \in Tags /\ f.ad <= Len(AdsOf(f.tag)) + 1 /\ f.ad \in Nat
      BY <1>1, <2>5 DEF FrameOk, Frames
    <3>3. Len(AdsOf(f.tag)) \in Nat
      BY <3>2, AdsAre
    <3>4. Len(AdsOf(f.tag)) + 1 - f.ad \in Nat
      BY <3>2, <3>3
    <3>5. Due(f) \in Nat
      BY <2>3, <3>1, <3>4, Multiples
    <3> HIDE DEF below, N
    <3> QED BY <1>5, <2>2, <2>3, <2>5, <3>1, <3>5 DEF below, N
  <2> QED BY <1>2, <1>5, <2>4, <2>5
<1> QED BY <1>4, <1>5

LEMMA DueStays ==
  ASSUME document' = document
  PROVE  \A f : Due(f)' = Due(f)
BY AdsStay DEF Due, Levels

LEMMA FramesNow ==
  ASSUME TypeInv', FrameInv', document' = document
  PROVE  \A k \in DOMAIN stack' : /\ k \in Nat \ {0} /\ stack'[k] \in Frames
                                  /\ FrameOk(stack'[k], k, Len(stack'))
<1>1. \A f, k, n : FrameOk(f, k, n)' <=> FrameOk(f, k, n)
  BY AdsStay DEF FrameOk
<1>2. \A k \in DOMAIN stack' : (FrameOk(stack[k], k, Len(stack)))'
  BY DEF FrameInv
<1>3. stack' \in Seq(Frames)
  BY DEF TypeInv
<1> QED BY <1>1, <1>2, <1>3

LEMMA DueIsNat ==
  ASSUME TypeInv, FrameInv
  PROVE  /\ Len(stack) \in Nat /\ DOMAIN stack = 1 .. Len(stack)
         /\ \A k \in 1 .. Len(stack) : Due(stack[k]) \in Nat
<1>1. stack \in Seq(Frames) /\ document \in [Tags -> DOMAIN Parsed]
  BY DEF TypeInv
<1>2. Len(stack) \in Nat /\ DOMAIN stack = 1 .. Len(stack)
  BY <1>1
<1>3. ASSUME NEW k \in 1 .. Len(stack) PROVE Due(stack[k]) \in Nat
  <2>1. stack[k] \in Frames /\ FrameOk(stack[k], k, Len(stack)) /\ k \in Nat \ {0}
    BY <1>1, <1>2 DEF FrameInv
  <2> QED BY <1>1, <2>1, DueIs
<1> QED BY <1>2, <1>3

LEMMA DueNow ==
  ASSUME TypeInv', FrameInv', document' = document
  PROVE  \A k \in DOMAIN stack' : Due(stack'[k]) \in Nat
<1>1. document \in [Tags -> DOMAIN Parsed]
  BY DEF TypeInv
<1>2. ASSUME NEW k \in DOMAIN stack' PROVE Due(stack'[k]) \in Nat
  <2>1. stack'[k] \in Frames /\ FrameOk(stack'[k], k, Len(stack')) /\ k \in Nat \ {0}
    BY FramesNow
  <2> QED BY <1>1, <2>1, DueIs
<1> QED BY <1>2

(* What is due below the innermost frames stays, and b is built anew.       *)
LEMMA DueAgain ==
  ASSUME document' = document, NEW b,
         b \in [0 .. Len(stack') -> Nat], b[0] = 0,
         \A k \in 1 .. Len(stack') : b[k] = b[k - 1] + Due(stack'[k]),
         attempts' + b[Len(stack')] <= RequestsFrom[MaxWrapperDepth + 1]
  PROVE  DueInv'
<1>1. \A f : Due(f)' = Due(f)
  BY DueStays
<1>2. \A k \in 1 .. Len(stack') : b[k] = b[k - 1] + (Due(stack[k]))'
  BY <1>1
<1>3. Totals(b)'
  BY <1>2 DEF Totals
<1>4. attempts' + b[Len(stack')] <= RequestsFrom[MaxWrapperDepth + 1]'
  OBVIOUS
<1> QED BY <1>3, <1>4 DEF DueInv

(* A step replaces the innermost frame, which may cost what is due less.    *)
LEMMA DueAfterSet ==
  ASSUME TypeInv, FrameInv, DueInv, TypeInv', FrameInv', document' = document,
         NEW frame, Sets(frame), attempts' + Due(frame) <= attempts + Due(Top)
  PROVE  DueInv'
<1> DEFINE L == Len(stack)
           R == RequestsFrom[MaxWrapperDepth + 1]
<1>1. PICK b : Totals(b) /\ attempts + b[L] <= R
  BY DEF DueInv
<1>2. /\ L \in Nat \ {0} /\ Len(stack') = L /\ stack'[L] = frame /\ DOMAIN stack' = 1 .. L
      /\ \A k \in 1 .. L - 1 : stack'[k] = stack[k]
  BY DEF Sets
<1>3. Due(frame) \in Nat /\ Due(Top) \in Nat /\ Top = stack[L] /\ attempts \in Nat /\ attempts' \in Nat
  BY <1>2, DueNow, DueIsNat DEF Top, TypeInv
<1>4. R \in Nat
  BY RequestsAre, SizesAssumption
<1>5. /\ b \in [0 .. L -> Nat] /\ b[0] = 0
      /\ \A k \in 1 .. L : b[k] = b[k - 1] + Due(stack[k])
  BY <1>1 DEF Totals
<1> DEFINE c == [k \in 0 .. L |-> IF k = L THEN b[L - 1] + Due(frame) ELSE b[k]]
<1> HIDE DEF L, R
<1>6. L - 1 \in 0 .. L /\ b[L - 1] \in Nat /\ L \in 1 .. L /\ b[L] \in Nat
  BY <1>2, <1>5
<1>7. c \in [0 .. L -> Nat] /\ c[0] = 0 /\ c[L] = b[L - 1] + Due(frame)
      /\ \A k \in 0 .. L - 1 : c[k] = b[k]
  BY <1>2, <1>3, <1>5, <1>6
<1> HIDE DEF c
<1>8. ASSUME NEW k \in 1 .. L PROVE c[k] = c[k - 1] + Due(stack'[k])
  <2>1. CASE k = L
    <3>1. c[k - 1] = b[L - 1]
      BY <1>2, <1>7, <2>1
    <3> QED BY <1>2, <1>7, <2>1, <3>1
  <2>2. CASE k # L
    <3>1. k \in 1 .. L - 1 /\ k \in 0 .. L - 1 /\ k - 1 \in 0 .. L - 1
      BY <1>2, <2>2
    <3> QED BY <1>2, <1>5, <1>7, <3>1
  <2> QED BY <2>1, <2>2
<1>9. b[L] = b[L - 1] + Due(Top)
  BY <1>3, <1>5, <1>6
<1>10. attempts' + c[L] <= R
  <2>1. attempts' + Due(frame) <= attempts + Due(Top)
    OBVIOUS
  <2>2. attempts' + c[L] = (attempts' + Due(frame)) + b[L - 1]
    BY <1>3, <1>6, <1>7
  <2>3. attempts + b[L] = (attempts + Due(Top)) + b[L - 1]
    BY <1>3, <1>6, <1>9
  <2> QED BY <1>1, <1>3, <1>4, <1>6, <2>1, <2>2, <2>3
<1> QED BY <1>2, <1>7, <1>8, <1>10, DueAgain DEF L, R

LEMMA DueAfterPop ==
  ASSUME TypeInv, FrameInv, DueInv, TypeInv', FrameInv', document' = document,
         NEW result, Pops(result), attempts' <= attempts + Due(Top)
  PROVE  DueInv'
<1> DEFINE L == Len(stack)
           R == RequestsFrom[MaxWrapperDepth + 1]
<1>1. PICK b : Totals(b) /\ attempts + b[L] <= R
  BY DEF DueInv
<1>2. /\ L \in Nat \ {0}
      /\ Len(stack') = L - 1 /\ DOMAIN stack' = 1 .. L - 1
      /\ \A k \in 1 .. L - 2 : stack'[k] = stack[k]
      /\ L > 1 => stack'[L - 1] = [stack[L - 1] EXCEPT !.creatives = @ \o result.creatives]
  <2>1. L \in Nat \ {0}
    BY DEF Pops
  <2>2. CASE L = 1
    <3>1. stack' = << >>
      BY <2>2 DEF Pops
    <3> QED BY <2>2, <3>1
  <2>3. CASE L > 1
    BY <2>1, <2>3 DEF Pops
  <2>4. L = 1 \/ L > 1
    <3> HIDE DEF L
    <3> QED BY <2>1
  <2> QED BY <2>1, <2>2, <2>3, <2>4
<1>3. /\ Due(Top) \in Nat /\ Top = stack[L] /\ attempts \in Nat /\ attempts' \in Nat
      /\ \A k \in 1 .. L : stack[k] \in Frames
  BY <1>2, DueIsNat DEF Top, TypeInv
<1>4. R \in Nat
  BY RequestsAre, SizesAssumption
<1>5. /\ b \in [0 .. L -> Nat] /\ b[0] = 0
      /\ \A k \in 1 .. L : b[k] = b[k - 1] + Due(stack[k])
  BY <1>1 DEF Totals
<1> DEFINE c == [k \in 0 .. L - 1 |-> b[k]]
<1> HIDE DEF L, R
<1>6. L - 1 \in 0 .. L /\ b[L - 1] \in Nat /\ L \in 1 .. L /\ b[L] \in Nat
  BY <1>2, <1>5
<1>7. c \in [0 .. L - 1 -> Nat] /\ c[0] = 0 /\ \A k \in 0 .. L - 1 : c[k] = b[k]
  BY <1>2, <1>5
<1> HIDE DEF c
<1>8. ASSUME NEW k \in 1 .. L - 1 PROVE Due(stack'[k]) = Due(stack[k])
  <2>1. CASE k = L - 1
    <3>1. stack'[k] = [stack[k] EXCEPT !.creatives = @ \o result.creatives] /\ stack[k] \in Frames
      BY <1>2, <1>3, <2>1
    <3>2. /\ stack'[k].pc = stack[k].pc /\ stack'[k].depth = stack[k].depth
          /\ stack'[k].attempt = stack[k].attempt
          /\ stack'[k].ad = stack[k].ad /\ stack'[k].tag = stack[k].tag
      BY <3>1 DEF Frames
    <3> QED BY <3>2 DEF Due, Levels
  <2>2. CASE k # L - 1
    BY <1>2, <2>2
  <2> QED BY <2>1, <2>2
<1>9. ASSUME NEW k \in 1 .. L - 1 PROVE c[k] = c[k - 1] + Due(stack'[k])
  <2>1. k \in 1 .. L /\ k \in 0 .. L - 1 /\ k - 1 \in 0 .. L - 1
    BY <1>2
  <2> QED BY <1>5, <1>7, <1>8, <2>1
<1>10. b[L] = b[L - 1] + Due(Top) /\ c[L - 1] = b[L - 1]
  BY <1>2, <1>3, <1>5, <1>6, <1>7
<1>11. attempts' + c[L - 1] <= R
  BY <1>1, <1>3, <1>4, <1>6, <1>10
<1> QED BY <1>2, <1>7, <1>9, <1>11, DueAgain DEF L, R

LEMMA DueAfterPush ==
  ASSUME TypeInv, FrameInv, DueInv, TypeInv', FrameInv', document' = document,
         NEW frame, NEW new, Pushes(frame, new), attempts' = attempts,
         Due(frame) + Due(new) = Due(Top)
  PROVE  DueInv'
<1> DEFINE L == Len(stack)
           R == RequestsFrom[MaxWrapperDepth + 1]
<1>1. PICK b : Totals(b) /\ attempts + b[L] <= R
  BY DEF DueInv
<1>2. /\ L \in Nat \ {0} /\ Len(stack') = L + 1 /\ DOMAIN stack' = 1 .. L + 1
      /\ stack'[L] = frame /\ stack'[L + 1] = new
      /\ \A k \in 1 .. L - 1 : stack'[k] = stack[k]
  BY DEF Pushes
<1>3. /\ Due(Top) \in Nat /\ Top = stack[L] /\ attempts \in Nat
      /\ Due(frame) \in Nat /\ Due(new) \in Nat
  <2>1. L \in DOMAIN stack' /\ L + 1 \in DOMAIN stack' /\ L \in 1 .. L
    BY <1>2
  <2>2. Due(stack'[L]) \in Nat /\ Due(stack'[L + 1]) \in Nat
    BY <2>1, DueNow
  <2>3. Due(stack[L]) \in Nat
    BY <2>1, DueIsNat
  <2> QED BY <1>2, <2>2, <2>3 DEF Top, TypeInv
<1>4. R \in Nat
  BY RequestsAre, SizesAssumption
<1>5. /\ b \in [0 .. L -> Nat] /\ b[0] = 0
      /\ \A k \in 1 .. L : b[k] = b[k - 1] + Due(stack[k])
  BY <1>1 DEF Totals
<1> DEFINE c == [k \in 0 .. L + 1 |-> IF k = L + 1 THEN b[L]
                                     ELSE IF k = L THEN b[L - 1] + Due(frame) ELSE b[k]]
<1> HIDE DEF L, R
<1>6. L - 1 \in 0 .. L /\ b[L - 1] \in Nat /\ L \in 1 .. L /\ b[L] \in Nat
  BY <1>2, <1>5
<1>7. /\ c \in [0 .. L + 1 -> Nat] /\ c[0] = 0 /\ \A k \in 0 .. L - 1 : c[k] = b[k]
      /\ c[L] = b[L - 1] + Due(frame) /\ c[L + 1] = b[L]
  BY <1>2, <1>3, <1>5, <1>6
<1> HIDE DEF c
<1>8. b[L] = b[L - 1] + Due(Top)
  BY <1>3, <1>5, <1>6
<1>9. ASSUME NEW k \in 1 .. L + 1 PROVE c[k] = c[k - 1] + Due(stack'[k])
  <2>1. CASE k = L + 1
    <3>1. k - 1 = L /\ c[k] = b[L]
      BY <1>2, <1>7, <2>1
    <3>2. b[L] = (b[L - 1] + Due(frame)) + Due(new)
      BY <1>3, <1>6, <1>8
    <3> QED BY <1>2, <1>7, <2>1, <3>1, <3>2
  <2>2. CASE k = L
    <3>1. k - 1 \in 0 .. L - 1
      BY <1>2, <2>2
    <3> QED BY <1>2, <1>7, <2>2, <3>1
  <2>3. CASE k \in 1 .. L - 1
    <3>1. k \in 1 .. L /\ k \in 0 .. L - 1 /\ k - 1 \in 0 .. L - 1
      BY <1>2, <2>3
    <3> QED BY <1>2, <1>5, <1>7, <2>3, <3>1
  <2> QED BY <1>2, <2>1, <2>2, <2>3
<1>10. attempts' + c[L + 1] <= R
  BY <1>1, <1>7
<1> QED BY <1>2, <1>7, <1>9, <1>10, DueAgain DEF L, R

LEMMA InitDue == Init => DueInv
<1> SUFFICES ASSUME Init PROVE DueInv
  OBVIOUS
<1> DEFINE f == Frame(Root, 0, << >>)
           N == MaxWrapperDepth + 1
           b == [k \in 0 .. 1 |-> IF k = 0 THEN 0 ELSE RequestsFrom[N]]
<1>1. stack = <<f>> /\ attempts = 0
  BY DEF Init
<1>2. Len(stack) = 1 /\ stack[1] = f
  BY <1>1
<1>3. Due(f) = RequestsFrom[N]
  <2>1. Levels(f) = N
    BY SizesAssumption DEF Levels, Frame
  <2>2. f.pc = "enter"
    BY DEF Frame
  <2> QED BY <2>1, <2>2 DEF Due
<1>4. RequestsFrom[N] \in Nat
  BY RequestsAre, SizesAssumption
<1> HIDE DEF f, N
<1>5. b \in [0 .. 1 -> Nat] /\ b[0] = 0 /\ b[1] = RequestsFrom[N]
  BY <1>4
<1> HIDE DEF b
<1>6. \A k \in 1 .. 1 : b[k] = b[k - 1] + Due(stack[k])
  <2>1. b[1] = b[0] + Due(stack[1])
    BY <1>2, <1>3, <1>4, <1>5
  <2>2. \A k \in 1 .. 1 : k = 1 /\ k - 1 = 0
    OBVIOUS
  <2> QED BY <2>1, <2>2
<1>7. Totals(b)
  BY <1>2, <1>5, <1>6 DEF Totals
<1>8. attempts + b[Len(stack)] <= RequestsFrom[N]
  BY <1>1, <1>2, <1>4, <1>5
<1> QED BY <1>7, <1>8 DEF DueInv, N

LEMMA StepDue ==
  ASSUME TypeInv, FrameInv, DueInv, [Next]_vars, TypeInv', FrameInv'
  PROVE  DueInv'
<1> DEFINE L == Len(stack)
           below == RequestsFrom[Levels(Top) - 1]
<1>1. document' = document /\ document \in [Tags -> DOMAIN Parsed] /\ attempts \in Nat
  BY DocumentStays DEF TypeInv
<1>2. MaxAds \in Nat /\ MaxAttempts \in Nat
  BY SizesAssumption
<1>3. ASSUME Running
      PROVE  /\ Due(Top) \in Nat /\ Top \in Frames
             /\ Top.pc = "enter" => Due(Top) = RequestsFrom[Levels(Top)]
             /\ Top.pc # "enter" => /\ Levels(Top) \in 1 .. MaxWrapperDepth + 1
                                    /\ below \in Nat
                                    /\ RequestsFrom[Levels(Top)] = MaxAttempts + MaxAds * below
             /\ Top.pc = "fetch" => Due(Top) = MaxAttempts + 1 - Top.attempt + MaxAds * below
             /\ Top.pc = "ads" => Due(Top) = (Len(AdsOf(Top.tag)) + 1 - Top.ad) * below
  <2>1. L \in Nat \ {0} /\ Top \in Frames /\ FrameOk(Top, L, L)
    BY <1>3, TopOk, SomeFrame
  <2> HIDE DEF L
  <2> QED BY <1>1, <2>1, DueIs
<1>4. CASE Enter
  <2>1. /\ Running /\ Top.pc = "enter" /\ attempts' = attempts
        /\ \/ Top.depth > MaxWrapperDepth /\ Pops(None)
           \/ Top.depth <= MaxWrapperDepth /\ Sets([Top EXCEPT !.pc = "fetch"])
    BY <1>4, EnterDoes
  <2>2. CASE Pops(None)
    BY <1>1, <1>3, <2>1, <2>2, DueAfterPop
  <2>3. CASE Top.depth <= MaxWrapperDepth /\ Sets([Top EXCEPT !.pc = "fetch"])
    <3> DEFINE f == [Top EXCEPT !.pc = "fetch"]
    <3>1. /\ f.pc = "fetch" /\ f.depth = Top.depth /\ f.attempt = Top.attempt
          /\ Top.depth \in Nat
      BY <1>3, <2>1 DEF Frames
    <3>2. Sets(f)
      BY <2>3
    <3>3. Levels(f) = Levels(Top)
      BY <3>1 DEF Levels
    <3>4. Due(f) = MaxAttempts + 1 - Top.attempt + MaxAds * below
      BY <3>1, <3>3 DEF Due
    <3>5. Due(Top) = MaxAttempts + MaxAds * RequestsFrom[Levels(Top) - 1]
      <4>1. Levels(Top) \in 1 .. MaxWrapperDepth + 1
        BY <2>3, <3>1, SizesAssumption DEF Levels
      <4> QED BY <1>3, <2>1, <4>1, RequestsAre
    <3>6. MaxAds * below \in Nat
      <4>1. Levels(Top) - 1 \in 0 .. MaxWrapperDepth + 1
        BY <2>3, <3>1, SizesAssumption DEF Levels
      <4>2. below \in Nat
        BY <4>1, RequestsAre
      <4> QED BY <1>2, <4>2, Multiples
    <3>7. Top.attempt \in 1 .. MaxAttempts
      BY <1>3, <2>1 DEF Frames
    <3> HIDE DEF f
    <3>8. attempts' + Due(f) <= attempts + Due(Top)
      <4> DEFINE m == MaxAds * below
      <4>1. m \in Nat /\ Due(f) = MaxAttempts + 1 - Top.attempt + m /\ Due(Top) = MaxAttempts + m
        BY <3>4, <3>5, <3>6
      <4> HIDE DEF m
      <4> QED BY <1>1, <1>2, <2>1, <3>7, <4>1
    <3> QED BY <1>1, <3>2, <3>8, DueAfterSet
  <2> QED BY <2>1, <2>2, <2>3
<1>5. ASSUME Running, Top.pc = "fetch"
      PROVE  /\ Due(Top) \in Nat /\ Due(Top) >= 1 /\ Top \in Frames
             /\ Due(Top) = MaxAttempts + 1 - Top.attempt + MaxAds * below
             /\ below \in Nat /\ MaxAds * below \in Nat /\ Top.attempt \in 1 .. MaxAttempts
  <2>1. /\ Due(Top) = MaxAttempts + 1 - Top.attempt + MaxAds * below
        /\ below \in Nat /\ Top.attempt \in 1 .. MaxAttempts
    BY <1>3, <1>5 DEF Frames
  <2>2. MaxAds * below \in Nat
    BY <1>2, <2>1, Multiples
  <2> DEFINE m == MaxAds * below
  <2>3. m \in Nat /\ Due(Top) = MaxAttempts + 1 - Top.attempt + m
    BY <2>1, <2>2
  <2> HIDE DEF m
  <2>4. Due(Top) \in Nat /\ Due(Top) >= 1
    BY <1>2, <2>1, <2>3
  <2> QED BY <1>3, <1>5, <2>1, <2>2, <2>4
<1>6. CASE AttemptFails
  <2>1. /\ Running /\ Top.pc = "fetch" /\ attempts' = attempts + 1
        /\ \/ Top.attempt < MaxAttempts /\ Sets([Top EXCEPT !.attempt = @ + 1])
           \/ Pops(None)
    BY <1>6, AttemptFailsDoes
  <2>2. CASE Pops(None)
    <3>1. attempts' <= attempts + Due(Top)
      BY <1>1, <1>5, <2>1
    <3> QED BY <1>1, <2>2, <3>1, DueAfterPop
  <2>3. CASE Sets([Top EXCEPT !.attempt = @ + 1])
    <3> DEFINE f == [Top EXCEPT !.attempt = @ + 1]
               m == MaxAds * below
    <3>1. f.pc = "fetch" /\ f.depth = Top.depth /\ f.attempt = Top.attempt + 1
      BY <1>5, <2>1 DEF Frames
    <3>2. Sets(f)
      BY <2>3
    <3>3. Due(f) = MaxAttempts + 1 - (Top.attempt + 1) + m
      BY <3>1 DEF Due, Levels
    <3>4. Due(Top) = MaxAttempts + 1 - Top.attempt + m /\ m \in Nat /\ Top.attempt \in 1 .. MaxAttempts
      BY <1>5, <2>1
    <3> HIDE DEF f, m
    <3>5. attempts' + Due(f) <= attempts + Due(Top)
      BY <1>1, <1>2, <2>1, <3>3, <3>4
    <3> QED BY <1>1, <3>2, <3>5, DueAfterSet
  <2> QED BY <2>1, <2>2, <2>3
<1>7. CASE BadBody
  <2>1. Running /\ Top.pc = "fetch" /\ attempts' = attempts + 1 /\ Pops(None)
    BY <1>7, BadBodyDoes
  <2>2. attempts' <= attempts + Due(Top)
    BY <1>1, <1>5, <2>1
  <2> QED BY <1>1, <2>1, <2>2, DueAfterPop
<1>8. CASE GotDocument
  <2>1. /\ Running /\ Top.pc = "fetch" /\ attempts' = attempts + 1 /\ Top.tag \in Tags
        /\ Sets([Top EXCEPT !.pc = "ads"]) \/ Pops(None)
    BY <1>8, GotDocumentDoes
  <2>2. CASE Pops(None)
    <3>1. attempts' <= attempts + Due(Top)
      BY <1>1, <1>5, <2>1
    <3> QED BY <1>1, <2>2, <3>1, DueAfterPop
  <2>3. CASE Sets([Top EXCEPT !.pc = "ads"])
    <3> DEFINE f == [Top EXCEPT !.pc = "ads"]
               n == Len(AdsOf(Top.tag))
               m == MaxAds * below
    <3>1. f.pc = "ads" /\ f.depth = Top.depth /\ f.tag = Top.tag /\ f.ad = 1
      <4>1. FrameOk(Top, Len(stack), Len(stack)) /\ Top \in Frames
        BY <2>1, TopOk
      <4>2. Top.ad = 1
        BY <2>1, <4>1 DEF FrameOk
      <4> QED BY <4>1, <4>2 DEF Frames
    <3>2. Sets(f)
      BY <2>3
    <3>3. n \in Nat /\ n <= MaxAds
      BY <1>1, <2>1, AdsAre
    <3>4. Due(f) = (n + 1 - 1) * below
      BY <3>1 DEF Due, Levels
    <3>5. /\ Due(Top) = MaxAttempts + 1 - Top.attempt + m /\ m \in Nat /\ below \in Nat
          /\ Top.attempt \in 1 .. MaxAttempts
      BY <1>5, <2>1
    <3>6. Due(f) <= m /\ Due(f) \in Nat
      <4>1. n * below \in Nat /\ n * below <= MaxAds * below
        BY <1>2, <3>3, <3>5, Multiples
      <4>2. n + 1 - 1 = n
        BY <3>3
      <4> QED BY <3>4, <4>1, <4>2
    <3> HIDE DEF f, m, n
    <3>7. attempts' + Due(f) <= attempts + Due(Top)
      BY <1>1, <1>2, <2>1, <3>5, <3>6
    <3> QED BY <1>1, <3>2, <3>7, DueAfterSet
  <2> QED BY <2>1, <2>2, <2>3
<1>9. ASSUME HasAd
      PROVE  /\ Running /\ Top.pc = "ads" /\ Top \in Frames /\ Top.ad \in Nat \ {0}
             /\ Len(AdsOf(Top.tag)) \in Nat /\ Top.ad <= Len(AdsOf(Top.tag))
             /\ below \in Nat /\ Due(Top) = (Len(AdsOf(Top.tag)) + 1 - Top.ad) * below
             /\ Levels(Top) \in 1 .. MaxWrapperDepth + 1
  BY <1>3, <1>9, CurrentAdIs
<1>10. CASE InLineAd
  <2> DEFINE f == [Top EXCEPT !.ad = @ + 1, !.creatives = @ \o Items]
             n == Len(AdsOf(Top.tag))
  <2>1. HasAd /\ attempts' = attempts /\ Sets(f)
    BY <1>10, InLineAdDoes
  <2>2. f.pc = "ads" /\ f.depth = Top.depth /\ f.tag = Top.tag /\ f.ad = Top.ad + 1
    BY <1>9, <2>1 DEF Frames
  <2>3. Due(f) = (n + 1 - (Top.ad + 1)) * below
    BY <2>2 DEF Due, Levels
  <2>4. /\ n \in Nat /\ Top.ad \in Nat \ {0} /\ Top.ad <= n /\ below \in Nat
        /\ Due(Top) = (n + 1 - Top.ad) * below
    BY <1>9, <2>1
  <2> HIDE DEF f, n, below
  <2>5. /\ n + 1 - (Top.ad + 1) \in Nat /\ n + 1 - Top.ad \in Nat
        /\ n + 1 - (Top.ad + 1) <= n + 1 - Top.ad
    BY <2>4
  <2>6. Due(f) <= Due(Top) /\ Due(f) \in Nat /\ Due(Top) \in Nat
    BY <2>3, <2>4, <2>5, Multiples
  <2>7. attempts' + Due(f) <= attempts + Due(Top)
    BY <1>1, <2>1, <2>6
  <2> QED BY <1>1, <2>1, <2>7, DueAfterSet
<1>11. CASE WrapperAd
  <2> DEFINE f == [Top EXCEPT !.ad = @ + 1]
             n == Len(AdsOf(Top.tag))
  <2>1. HasAd /\ CurrentAd.kind = "wrapper" /\ attempts' = attempts /\ Pushes(f, Called)
    BY <1>11, WrapperAdDoes
  <2>2. f.pc = "ads" /\ f.depth = Top.depth /\ f.tag = Top.tag /\ f.ad = Top.ad + 1
    BY <1>9, <2>1 DEF Frames
  <2>3. Due(f) = (n + 1 - (Top.ad + 1)) * below
    BY <2>2 DEF Due, Levels
  <2>4. /\ n \in Nat /\ Top.ad \in Nat \ {0} /\ Top.ad <= n /\ below \in Nat
        /\ Due(Top) = (n + 1 - Top.ad) * below
    BY <1>9, <2>1
  <2>5. Due(Called) = below
    <3>1. Called.pc = "enter" /\ Called.depth = Top.depth + 1
      BY <2>1, CalledIs
    <3>2. Top.depth \in Nat
      BY <1>9, <2>1 DEF Frames
    <3>3. Levels(Called) = Levels(Top) - 1
      BY <3>1, <3>2, SizesAssumption DEF Levels
    <3> QED BY <3>1, <3>3 DEF Due
  <2> HIDE DEF f, n, below
  <2>6. Due(f) + Due(Called) = Due(Top)
    <3> DEFINE k == n + 1 - (Top.ad + 1)
    <3>1. k \in Nat /\ n + 1 - Top.ad = k + 1
      BY <2>4
    <3>2. Due(f) = k * below /\ Due(Top) = (k + 1) * below
      BY <2>3, <2>4, <3>1
    <3> HIDE DEF k
    <3>3. (k + 1) * below = k * below + below
      BY <2>4, <3>1
    <3> QED BY <2>5, <3>2, <3>3
  <2> QED BY <1>1, <2>1, <2>6, DueAfterPush
<1>12. CASE AdsDone
  <2>1. Running /\ attempts' = attempts /\ Pops(Some(Top.creatives))
    BY <1>12, AdsDoneDoes
  <2>2. attempts' <= attempts + Due(Top)
    BY <1>1, <1>3, <2>1
  <2> QED BY <1>1, <2>1, <2>2, DueAfterPop
<1>13. CASE UNCHANGED vars
  <2>1. stack' = stack /\ attempts' = attempts
    BY <1>13 DEF vars
  <2>2. PICK b : Totals(b) /\ attempts + b[Len(stack)] <= RequestsFrom[MaxWrapperDepth + 1]
    BY DEF DueInv
  <2>3. /\ b \in [0 .. Len(stack') -> Nat] /\ b[0] = 0
        /\ \A k \in 1 .. Len(stack') : b[k] = b[k - 1] + Due(stack'[k])
    BY <2>1, <2>2 DEF Totals
  <2> QED BY <1>1, <2>1, <2>2, <2>3, DueAgain
<1> QED BY <1>4, <1>6, <1>7, <1>8, <1>10, <1>11, <1>12, <1>13 DEF Next

(* However the wrappers loop and fan out, and whatever fails and is tried   *)
(* again, fetch_vast sends no more requests for a break than the fan-out of *)
(* a document to the power of the depth limit allows, times the attempts.   *)
THEOREM RequestsBounded == Spec => []FetchesBounded
<1> DEFINE IInv == TypeInv /\ FrameInv /\ DueInv
<1>1. Init => IInv
  BY InitTypes, InitDue
<1>2. IInv /\ [Next]_vars => IInv'
  <2> SUFFICES ASSUME IInv, [Next]_vars PROVE IInv'
    OBVIOUS
  <2>1. TypeInv' /\ FrameInv'
    BY StepTypes
  <2>2. DueInv'
    BY <2>1, StepDue
  <2> QED BY <2>1, <2>2
<1>3. IInv => FetchesBounded
  <2> SUFFICES ASSUME IInv PROVE FetchesBounded
    OBVIOUS
  <2>1. PICK b : Totals(b) /\ attempts + b[Len(stack)] <= RequestsFrom[MaxWrapperDepth + 1]
    BY DEF DueInv
  <2>2. attempts \in Nat /\ Len(stack) \in Nat
    BY DueIsNat DEF TypeInv
  <2>3. b[Len(stack)] \in Nat
    BY <2>1, <2>2 DEF Totals
  <2>4. RequestsFrom[MaxWrapperDepth + 1] \in Nat
    BY RequestsAre, SizesAssumption
  <2> QED BY <2>1, <2>2, <2>3, <2>4 DEF FetchesBounded
<1> QED BY <1>1, <1>2, <1>3, PTL DEF Spec

-----------------------------------------------------------------------------
(* Chains of wrappers.  The one to a document determines it.                *)
LEMMA PathLeads ==
  ASSUME NEW c \in Seq(Places), NEW d \in Seq(Places), NEW t, NEW u,
         Path(c, t), Path(d, u), Extends(d, c)
  PROVE  (IF Len(d) = Len(c) THEN u ELSE d[Len(c) + 1][1]) = t
<1> DEFINE n == Len(c)
           m == Len(d)
           ad(p) == AdsOf(p[1])[p[2]].body.ad_tag_uri
<1>1. n \in Nat /\ m \in Nat /\ n <= m /\ \A i \in 1 .. n : d[i] = c[i]
  BY DEF Extends
<1>2. /\ (IF n = 0 THEN t ELSE c[1][1]) = Root
      /\ (IF m = 0 THEN u ELSE d[1][1]) = Root
      /\ \A i \in 1 .. n : ad(c[i]) = IF i = n THEN t ELSE c[i + 1][1]
      /\ \A i \in 1 .. m : ad(d[i]) = IF i = m THEN u ELSE d[i + 1][1]
  BY DEF Path
<1> HIDE DEF n, m, ad
<1>3. CASE n = 0
  BY <1>1, <1>2, <1>3 DEF n, m
<1>4. CASE n # 0
  <2>1. n \in 1 .. n /\ n \in 1 .. m
    BY <1>1, <1>4
  <2>2. ad(c[n]) = t /\ d[n] = c[n] /\ ad(d[n]) = IF n = m THEN u ELSE d[n + 1][1]
    BY <1>1, <1>2, <2>1
  <2> QED BY <2>2 DEF n, m
<1> QED BY <1>3, <1>4

(* The place of a playable creative, reached by the call a.                 *)
Leads(a, p) ==
  \E i \in DOMAIN AdsOf(a[2]) :
    /\ AdsOf(a[2])[i].kind = "inline"
    /\ \E n \in DOMAIN AdsOf(a[2])[i].body.creatives :
         /\ Playable(AdsOf(a[2])[i].body.creatives, n)
         /\ p = Merged(a[1], a[2], i, n)

LEMMA FoundIs == \A p : p \in Found <=> \E a \in answered : Leads(a, p)
<1> DEFINE ads(a) == AdsOf(a[2])
           cs(a, i) == AdsOf(a[2])[i].body.creatives
           Inner(a, i) == {Merged(a[1], a[2], i, c) :
                             c \in {c \in DOMAIN cs(a, i) : Usable(FilesOf(cs(a, i)[c])) # {}}}
           Outer(a) == UNION {Inner(a, i) : i \in {i \in DOMAIN ads(a) : ads(a)[i].kind = "inline"}}
<1>1. Found = UNION {Outer(a) : a \in answered}
  BY DEF Found
<1>2. \A a, i, p : p \in Inner(a, i) <=> \E n \in DOMAIN cs(a, i) : Playable(cs(a, i), n) /\ p = Merged(a[1], a[2], i, n)
  BY DEF Playable
<1> HIDE DEF Inner
<1>3. \A a, p : p \in Outer(a) <=> \E i \in DOMAIN ads(a) : ads(a)[i].kind = "inline" /\ p \in Inner(a, i)
  OBVIOUS
<1>4. \A a, p : p \in Outer(a) <=> Leads(a, p)
  <2> HIDE DEF Outer
  <2> SUFFICES ASSUME NEW a, NEW p PROVE p \in Outer(a) <=> Leads(a, p)
    OBVIOUS
  <2>1. p \in Outer(a) <=> \E i \in DOMAIN ads(a) : ads(a)[i].kind = "inline" /\ p \in Inner(a, i)
    BY <1>3
  <2>2. \A i : p \in Inner(a, i) <=> \E n \in DOMAIN cs(a, i) : Playable(cs(a, i), n) /\ p = Merged(a[1], a[2], i, n)
    BY <1>2
  <2>3. Leads(a, p) <=> \E i \in DOMAIN ads(a) : ads(a)[i].kind = "inline" /\ \E n \in DOMAIN cs(a, i) : Playable(cs(a, i), n) /\ p = Merged(a[1], a[2], i, n)
    BY DEF Leads
  <2> QED BY <2>1, <2>2, <2>3, Zenon
<1> HIDE DEF Outer
<1> QED BY <1>1, <1>4

LEMMA LeadsTo ==
  ASSUME document \in [Tags -> DOMAIN Parsed], NEW a \in Seq(Places) \X Tags, NEW p, Leads(a, p)
  PROVE  \E i \in DOMAIN AdsOf(a[2]) : \E n \in Nat \ {0} :
           /\ i \in Nat \ {0} /\ i <= Len(AdsOf(a[2]))
           /\ AdsOf(a[2])[i].kind = "inline"
           /\ n \in DOMAIN AdsOf(a[2])[i].body.creatives
           /\ Playable(AdsOf(a[2])[i].body.creatives, n)
           /\ p = Merged(a[1], a[2], i, n)
           /\ a[1] \in Seq(Places) /\ a[2] \in Tags
           /\ p \in Seq(Places) /\ Len(a[1]) \in Nat /\ Len(p) = Len(a[1]) + 1
           /\ p[Len(a[1]) + 1] = <<a[2], i, n>>
           /\ \A j \in 1 .. Len(a[1]) : p[j] = a[1][j]
<1> DEFINE c == a[1]
           t == a[2]
<1>1. c \in Seq(Places) /\ t \in Tags /\ t \in Texts
  BY TagsAssumption
<1>2. PICK i \in DOMAIN AdsOf(t) :
        /\ AdsOf(t)[i].kind = "inline"
        /\ \E n \in DOMAIN AdsOf(t)[i].body.creatives :
             /\ Playable(AdsOf(t)[i].body.creatives, n)
             /\ p = Merged(c, t, i, n)
  BY DEF Leads
<1>3. PICK n \in DOMAIN AdsOf(t)[i].body.creatives :
        Playable(AdsOf(t)[i].body.creatives, n) /\ p = Merged(c, t, i, n)
  BY <1>2
<1> DEFINE ad == AdsOf(t)[i]
<1>4. /\ DOMAIN AdsOf(t) = 1 .. Len(AdsOf(t)) /\ Len(AdsOf(t)) \in Nat
      /\ (ad.kind = "inline" /\ IsInLine(ad)) \/ ad.kind = "wrapper"
  BY <1>1, AdsAre
<1>5. i \in Nat \ {0} /\ i <= Len(AdsOf(t))
  BY <1>4
<1>6. ad.body.creatives \in Seq(Range(ad.body.creatives))
  BY <1>2, <1>4 DEF IsInLine, IsSeq
<1>7. n \in Nat \ {0}
  BY <1>3, <1>6
<1> HIDE DEF c, t, ad
<1>8. <<t, i, n>> \in Places
  BY <1>1, <1>5, <1>7 DEF Places
<1>9. /\ p \in Seq(Places) /\ Len(c) \in Nat /\ Len(p) = Len(c) + 1 /\ p[Len(c) + 1] = <<t, i, n>>
      /\ \A j \in 1 .. Len(c) : p[j] = c[j]
  BY <1>1, <1>3, <1>8, AppendProperties DEF Merged
<1> QED BY <1>1, <1>2, <1>3, <1>5, <1>7, <1>9 DEF c, t, ad

(* The places found, by the calls that got a document.                      *)
LEMMA FoundBy ==
  ASSUME TypeInv, PathInv, NEW p \in Found
  PROVE  \E a \in answered : \E i \in DOMAIN AdsOf(a[2]) : \E n \in Nat \ {0} :
           /\ i \in Nat \ {0} /\ i <= Len(AdsOf(a[2]))
           /\ AdsOf(a[2])[i].kind = "inline"
           /\ n \in DOMAIN AdsOf(a[2])[i].body.creatives
           /\ Playable(AdsOf(a[2])[i].body.creatives, n)
           /\ p = Merged(a[1], a[2], i, n)
           /\ a[1] \in Seq(Places) /\ a[2] \in Tags
           /\ p \in Seq(Places) /\ Len(a[1]) \in Nat /\ Len(p) = Len(a[1]) + 1
           /\ p[Len(a[1]) + 1] = <<a[2], i, n>>
           /\ \A j \in 1 .. Len(a[1]) : p[j] = a[1][j]
           /\ Path(a[1], a[2]) /\ Len(a[1]) <= MaxWrapperDepth
<1>1. PICK a \in answered : Leads(a, p)
  BY FoundIs
<1>2. a \in Seq(Places) \X Tags /\ document \in [Tags -> DOMAIN Parsed]
  BY DEF TypeInv
<1>3. Path(a[1], a[2]) /\ Len(a[1]) <= MaxWrapperDepth
  BY DEF PathInv
<1> HIDE DEF Found
<1> QED BY <1>1, <1>2, <1>3, LeadsTo

-----------------------------------------------------------------------------
(* Lists of creatives, gathered.                                            *)
LEMMA GatheredJoin ==
  ASSUME NEW c \in Seq(Creatives), NEW d \in Seq(Creatives), NEW S, NEW T,
         Gathered(c, S), Gathered(d, T), \A x \in S : \A y \in T : Before(x, y)
  PROVE  Gathered(c \o d, S \cup T)
<1> DEFINE e == c \o d
           m == Len(c)
           n == Len(d)
<1>1. /\ e \in Seq(Creatives) /\ Len(e) = m + n /\ m \in Nat /\ n \in Nat
      /\ DOMAIN c = 1 .. m /\ DOMAIN d = 1 .. n /\ DOMAIN e = 1 .. m + n
      /\ \A i \in 1 .. m + n : e[i] = IF i <= m THEN c[i] ELSE d[i - m]
  BY ConcatProperties, LenProperties
<1>2. Range(e) = Range(c) \cup Range(d)
  BY RangeConcatenation
<1>3. /\ {x.chain : x \in Range(c)} = S /\ {x.chain : x \in Range(d)} = T
      /\ InOrder(c) /\ InOrder(d)
      /\ \A x \in Range(c) : Resolved(x)
      /\ \A x \in Range(d) : Resolved(x)
  BY DEF Gathered
<1>4. /\ \A i \in 1 .. m : c[i].chain \in S
      /\ \A i \in 1 .. n : d[i].chain \in T
  BY <1>1, <1>3 DEF Range
<1> HIDE DEF e, m, n
<1>5. {x.chain : x \in Range(e)} = S \cup T
  BY <1>2, <1>3
<1>6. \A x \in Range(e) : Resolved(x)
  BY <1>2, <1>3
<1>7. ASSUME NEW i \in DOMAIN e, NEW j \in DOMAIN e, i < j
      PROVE  Before(e[i].chain, e[j].chain)
  <2>1. i \in 1 .. m + n /\ j \in 1 .. m + n
    BY <1>1
  <2>2. CASE i <= m /\ j <= m
    <3>1. i \in DOMAIN c /\ j \in DOMAIN c /\ e[i] = c[i] /\ e[j] = c[j]
      BY <1>1, <2>1, <2>2
    <3> QED BY <1>3, <1>7, <3>1 DEF InOrder
  <2>3. CASE i <= m /\ ~(j <= m)
    <3>1. i \in 1 .. m /\ j - m \in 1 .. n /\ e[i] = c[i] /\ e[j] = d[j - m]
      BY <1>1, <2>1, <2>3
    <3> QED BY <1>4, <3>1
  <2>4. CASE ~(i <= m)
    <3>1. i - m \in DOMAIN d /\ j - m \in DOMAIN d /\ i - m < j - m /\ e[i] = d[i - m] /\ e[j] = d[j - m]
      BY <1>1, <1>7, <2>1, <2>4
    <3> QED BY <1>3, <3>1 DEF InOrder
  <2> QED BY <2>2, <2>3, <2>4
<1>8. InOrder(e)
  BY <1>7 DEF InOrder
<1> QED BY <1>5, <1>6, <1>8 DEF Gathered, e

LEMMA NoneGathered == Gathered(<< >>, {})
BY DEF Gathered, InOrder, Range

(* Of two chains that part at a place, the lower place comes first.         *)
LEMMA LowerIsBefore ==
  ASSUME NEW x \in Seq(Places), NEW y \in Seq(Places), NEW k \in Nat \ {0},
         k <= Len(x), k <= Len(y), \A j \in 1 .. k - 1 : x[j] = y[j],
         x[k][2] < y[k][2] \/ (x[k][2] = y[k][2] /\ x[k][3] < y[k][3])
  PROVE  Before(x, y)
<1>1. k \in DOMAIN x \cap DOMAIN y
  OBVIOUS
<1> QED BY <1>1 DEF Before

(* The creatives of an InLine ad are gathered.                              *)
LEMMA ItemsGathered ==
  ASSUME TypeInv, FrameInv, HasAd, CurrentAd.kind = "inline"
  PROVE  LET cs == CurrentAd.body.creatives
         IN  Gathered(Items, {Merged(Top.chain, Top.tag, Top.ad, n) :
                                n \in {n \in DOMAIN cs : Playable(cs, n)}})
<1> DEFINE cs == CurrentAd.body.creatives
           N == Len(cs)
           P(n) == Merged(Top.chain, Top.tag, Top.ad, n)
           It(n) == Item(Top.chain, Top.tag, Top.ad, cs, n)
           k == Len(Top.chain) + 1
           S == {P(n) : n \in {n \in DOMAIN cs : Playable(cs, n)}}
<1>1. /\ Top \in Frames /\ Top.tag \in Tags /\ Top.tag \in Texts /\ Top.ad \in Nat
      /\ CurrentAd = AdsOf(Top.tag)[Top.ad] /\ IsInLine(CurrentAd)
  BY CurrentAdIs, TagsAssumption DEF CurrentAd
<1>2. Top.chain \in Seq(Places) /\ k \in Nat \ {0}
  BY <1>1 DEF Frames
<1>3. cs \in Seq(Range(cs)) /\ DOMAIN cs = 1 .. N /\ N \in Nat
  <2>1. cs \in Seq(Range(cs))
    BY ItemsOfAd DEF IsSeq
  <2> QED BY <2>1
<1>4. \A c \in Range(cs) : c.linear = Nothing \/ c.linear[1].media_files \in Seq(MediaFiles)
  BY <1>1 DEF IsInLine
<1>5. /\ Items \in Seq(Creatives)
      /\ \A j \in 1 .. Len(Items) : \E m \in 1 .. N : Playable(cs, m) /\ Items[j] = It(m)
      /\ \A m \in 1 .. N : Playable(cs, m) => \E j \in 1 .. Len(Items) : Items[j] = It(m)
      /\ \A i \in 1 .. Len(Items) : \A j \in i + 1 .. Len(Items) : \E m \in 1 .. N : \E l \in 1 .. m - 1 :
           Items[i] = It(l) /\ Items[j] = It(m)
  BY ItemsOfAd DEF IsItems
<1>6. \A m : It(m).chain = P(m) /\ It(m).url = Chosen(cs, m)
  BY DEF Item
<1>7. ASSUME NEW m \in 1 .. N
      PROVE  /\ P(m) \in Seq(Places) /\ Len(P(m)) = k /\ P(m)[k] = <<Top.tag, Top.ad, m>>
             /\ \A j \in 1 .. k - 1 : P(m)[j] = Top.chain[j]
  <2>1. <<Top.tag, Top.ad, m>> \in Places
    BY <1>1, <1>3 DEF Places
  <2> QED BY <1>2, <2>1, AppendProperties DEF Merged
<1>8. ASSUME NEW m \in 1 .. N, Playable(cs, m) PROVE Resolved(It(m))
  <2>1. \E file \in Best(FilesOf(cs[m])) : Chosen(cs, m) = file.url
    <3> HIDE DEF cs
    <3> QED BY <1>1, <1>2, <1>3, <1>4, <1>8, ItemsAre
  <2>2. Last(P(m)) = <<Top.tag, Top.ad, m>>
    BY <1>7 DEF Last
  <2>3. CreativeAt(Last(P(m))) = cs[m]
    BY <1>1, <2>2 DEF CreativeAt
  <2> HIDE DEF cs, It, P
  <2> QED BY <1>6, <2>1, <2>3 DEF Resolved
<1> HIDE DEF cs, It, P, N, k
<1>9. DOMAIN Items = 1 .. Len(Items) /\ Len(Items) \in Nat
  BY <1>5
<1>10. {c.chain : c \in Range(Items)} = S
  <2>1. ASSUME NEW c \in Range(Items) PROVE c.chain \in S
    <3>1. PICK j \in 1 .. Len(Items) : c = Items[j]
      BY <1>9 DEF Range
    <3>2. PICK m \in 1 .. N : Playable(cs, m) /\ Items[j] = It(m)
      BY <1>5
    <3> QED BY <1>3, <1>6, <3>1, <3>2
  <2>2. ASSUME NEW m \in DOMAIN cs, Playable(cs, m) PROVE \E c \in Range(Items) : c.chain = P(m)
    <3>1. PICK j \in 1 .. Len(Items) : Items[j] = It(m)
      BY <1>3, <1>5, <2>2
    <3> QED BY <1>6, <1>9, <3>1 DEF Range
  <2> QED BY <2>1, <2>2
<1>11. \A c \in Range(Items) : Resolved(c)
  <2> SUFFICES ASSUME NEW j \in 1 .. Len(Items) PROVE Resolved(Items[j])
    BY <1>9 DEF Range
  <2>1. PICK m \in 1 .. N : Playable(cs, m) /\ Items[j] = It(m)
    BY <1>5
  <2> QED BY <1>8, <2>1
<1>12. InOrder(Items)
  <2> SUFFICES ASSUME NEW i \in 1 .. Len(Items), NEW j \in 1 .. Len(Items), i < j
               PROVE  Before(Items[i].chain, Items[j].chain)
    BY <1>9 DEF InOrder
  <2>1. j \in i + 1 .. Len(Items)
    BY <1>9
  <2>2. PICK m \in 1 .. N : \E l \in 1 .. m - 1 : Items[i] = It(l) /\ Items[j] = It(m)
    BY <1>5, <2>1
  <2>3. PICK l \in 1 .. m - 1 : Items[i] = It(l) /\ Items[j] = It(m)
    BY <2>2
  <2>4. l \in 1 .. N /\ l < m
    BY <1>3
  <2>5. Items[i].chain = P(l) /\ Items[j].chain = P(m)
    BY <1>6, <2>3
  <2>6. /\ P(l) \in Seq(Places) /\ P(m) \in Seq(Places) /\ k <= Len(P(l)) /\ k <= Len(P(m))
        /\ \A b \in 1 .. k - 1 : P(l)[b] = P(m)[b]
        /\ P(l)[k][2] = P(m)[k][2] /\ P(l)[k][3] < P(m)[k][3]
    BY <1>2, <1>7, <2>4
  <2> QED BY <1>2, <2>5, <2>6, LowerIsBefore
<1> QED BY <1>10, <1>11, <1>12 DEF Gathered, cs, P, It, N, k

-----------------------------------------------------------------------------
(* What the documents alone decide stays.                                   *)
LEMMA PathStays ==
  ASSUME document' = document
  PROVE  \A c, t : Path(c, t)' <=> Path(c, t)
BY AdsStay DEF Path

LEMMA GatheredStays ==
  ASSUME document' = document
  PROVE  \A c, S : Gathered(c, S)' <=> Gathered(c, S)
<1>1. \A place : CreativeAt(place)' = CreativeAt(place)
  BY AdsStay DEF CreativeAt
<1>2. \A c : Resolved(c)' <=> Resolved(c)
  BY <1>1 DEF Resolved
<1> QED BY <1>2 DEF Gathered

LEMMA LeadsStays ==
  ASSUME document' = document
  PROVE  \A a, p : Leads(a, p)' <=> Leads(a, p)
BY AdsStay DEF Leads

LEMMA FoundStays ==
  ASSUME document' = document, answered' = answered
  PROVE  Found' = Found /\ \A chain, limit : Beneath(chain, limit)' = Beneath(chain, limit)
<1>1. Found' = Found
  BY DEF Found, AdsOf, VastOf
<1> QED BY <1>1 DEF Beneath

LEMMA GatheredOkStays ==
  ASSUME document' = document, answered' = answered
  PROVE  \A f, limit : GatheredOk(f, limit)' <=> GatheredOk(f, limit)
BY FoundStays, GatheredStays DEF GatheredOk

LEMMA AnsweredOkStays ==
  ASSUME answered' = answered
  PROVE  \A f, k : AnsweredOk(f, k)' <=> AnsweredOk(f, k)
BY DEF AnsweredOk

-----------------------------------------------------------------------------
(* The chains of the frames.                                                *)
LEMMA PathsAfterSet ==
  ASSUME TypeInv, PathInv, document' = document, NEW frame, Sets(frame),
         frame.chain = Top.chain, frame.tag = Top.tag,
         \A a \in answered' : a \in answered \/ (a = <<Top.chain, Top.tag>> /\ Len(Top.chain) <= MaxWrapperDepth)
  PROVE  PathInv'
<1> DEFINE L == Len(stack)
<1>1. /\ L \in Nat \ {0} /\ DOMAIN stack' = 1 .. L /\ DOMAIN stack = 1 .. L
      /\ stack'[L] = frame /\ stack[L] = Top
      /\ \A k \in 1 .. L - 1 : stack'[k] = stack[k]
  BY DEF Sets, TypeInv, Top
<1>2. /\ \A a \in answered : Path(a[1], a[2]) /\ Len(a[1]) <= MaxWrapperDepth
      /\ \A k \in 1 .. L : Path(stack[k].chain, stack[k].tag)
      /\ \A k \in 1 .. L : \A j \in 1 .. k - 1 : stack[k].chain[j] = <<stack[j].tag, stack[j].ad - 1, 0>>
  BY <1>1 DEF PathInv
<1> HIDE DEF L
<1>3. L \in 1 .. L /\ Path(Top.chain, Top.tag)
  BY <1>1, <1>2
<1>4. \A a \in answered' : Path(a[1], a[2])' /\ Len(a[1]) <= MaxWrapperDepth
  BY <1>2, <1>3, PathStays
<1>5. \A k \in 1 .. L : stack'[k].chain = stack[k].chain /\ stack'[k].tag = stack[k].tag
  <2>1. \A k \in 1 .. L : k = L \/ k \in 1 .. L - 1
    BY <1>1
  <2> QED BY <1>1, <2>1
<1>6. \A k \in DOMAIN stack' : Path(stack[k].chain, stack[k].tag)'
  BY <1>1, <1>2, <1>5, PathStays
<1>7. \A k \in DOMAIN stack' : \A j \in 1 .. k - 1 : stack'[k].chain[j] = <<stack'[j].tag, stack'[j].ad - 1, 0>>
  <2>1. \A k \in 1 .. L : \A j \in 1 .. k - 1 : j \in 1 .. L - 1
    BY <1>1
  <2> QED BY <1>1, <1>2, <1>5, <2>1
<1> QED BY <1>4, <1>6, <1>7 DEF PathInv

LEMMA CallerIs ==
  ASSUME TypeInv, NEW result, Pops(result)
  PROVE  \A k \in DOMAIN stack' :
           /\ k \in 1 .. Len(stack) - 1 /\ k \in DOMAIN stack
           /\ stack[k] \in Frames /\ stack'[k] \in Frames
           /\ stack'[k].pc = stack[k].pc /\ stack'[k].tag = stack[k].tag
           /\ stack'[k].chain = stack[k].chain /\ stack'[k].ad = stack[k].ad
           /\ stack'[k].creatives = IF k = Len(stack) - 1 THEN stack[k].creatives \o result.creatives
                                    ELSE stack[k].creatives
<1> DEFINE L == Len(stack)
<1>1. L \in Nat \ {0} /\ DOMAIN stack = 1 .. L /\ \A k \in 1 .. L : stack[k] \in Frames
  BY DEF Pops, TypeInv
<1>2. CASE L = 1
  BY <1>2 DEF Pops
<1>3. CASE L > 1
  <2>1. /\ stack' \in Seq(Frames) /\ DOMAIN stack' = 1 .. L - 1 /\ Len(stack') = L - 1
        /\ \A k \in 1 .. L - 2 : stack'[k] = stack[k]
        /\ stack'[L - 1] = [stack[L - 1] EXCEPT !.creatives = @ \o result.creatives]
    BY <1>3 DEF Pops
  <2>2. \A k \in 1 .. L - 1 : stack'[k] \in Frames
    BY <2>1
  <2> HIDE DEF L
  <2>3. ASSUME NEW k \in DOMAIN stack'
        PROVE  /\ k \in 1 .. L - 1 /\ k \in DOMAIN stack
               /\ stack[k] \in Frames /\ stack'[k] \in Frames
               /\ stack'[k].pc = stack[k].pc /\ stack'[k].tag = stack[k].tag
               /\ stack'[k].chain = stack[k].chain /\ stack'[k].ad = stack[k].ad
               /\ stack'[k].creatives = IF k = L - 1 THEN stack[k].creatives \o result.creatives
                                        ELSE stack[k].creatives
    <3>1. k \in 1 .. L - 1 /\ k \in 1 .. L
      BY <1>1, <2>1
    <3>2. stack[k] \in Frames /\ stack'[k] \in Frames
      BY <1>1, <2>2, <3>1
    <3>3. CASE k = L - 1
      BY <1>1, <2>1, <3>1, <3>2, <3>3 DEF Frames
    <3>4. CASE k # L - 1
      <4>1. k \in 1 .. L - 2
        BY <1>1, <3>1, <3>4
      <4> QED BY <1>1, <2>1, <3>1, <3>2, <3>4, <4>1
    <3> QED BY <3>3, <3>4
  <2> QED BY <2>3 DEF L
<1>4. L = 1 \/ L > 1
  <2> HIDE DEF L
  <2> QED BY <1>1
<1> QED BY <1>2, <1>3, <1>4

LEMMA PathsAfterPop ==
  ASSUME TypeInv, PathInv, document' = document, answered' = answered, NEW result, Pops(result)
  PROVE  PathInv'
<1>1. \A a \in answered' : Path(a[1], a[2])' /\ Len(a[1]) <= MaxWrapperDepth
  BY PathStays DEF PathInv
<1>2. \A k \in DOMAIN stack' : Path(stack[k].chain, stack[k].tag)'
  BY CallerIs, PathStays DEF PathInv
<1>3. \A k \in DOMAIN stack' : \A j \in 1 .. k - 1 : stack'[k].chain[j] = <<stack'[j].tag, stack'[j].ad - 1, 0>>
  <2> SUFFICES ASSUME NEW k \in DOMAIN stack', NEW j \in 1 .. k - 1
               PROVE  stack'[k].chain[j] = <<stack'[j].tag, stack'[j].ad - 1, 0>>
    OBVIOUS
  <2>1. Len(stack) \in Nat \ {0} /\ k \in 1 .. Len(stack) - 1
    BY CallerIs DEF Pops
  <2>2. j \in DOMAIN stack'
    <3>1. Len(stack) > 1
      BY <2>1
    <3>2. DOMAIN stack' = 1 .. Len(stack) - 1
      BY <3>1 DEF Pops
    <3> QED BY <2>1, <3>2
  <2>3. stack[k].chain[j] = <<stack[j].tag, stack[j].ad - 1, 0>>
    BY CallerIs DEF PathInv
  <2> QED BY <2>2, <2>3, CallerIs
<1> QED BY <1>1, <1>2, <1>3 DEF PathInv

LEMMA PathsAfterPush ==
  ASSUME TypeInv, FrameInv, PathInv, document' = document, answered' = answered,
         HasAd, CurrentAd.kind = "wrapper", Pushes([Top EXCEPT !.ad = @ + 1], Called)
  PROVE  PathInv'
<1> DEFINE L == Len(stack)
           frame == [Top EXCEPT !.ad = @ + 1]
<1>1. /\ L \in Nat \ {0} /\ DOMAIN stack' = 1 .. L + 1 /\ DOMAIN stack = 1 .. L
      /\ stack'[L + 1] = Called /\ stack'[L] = frame /\ stack[L] = Top
      /\ \A k \in 1 .. L - 1 : stack'[k] = stack[k]
  BY DEF Pushes, TypeInv, Top
<1>2. /\ \A a \in answered : Path(a[1], a[2]) /\ Len(a[1]) <= MaxWrapperDepth
      /\ \A k \in 1 .. L : Path(stack[k].chain, stack[k].tag)
      /\ \A k \in 1 .. L : \A j \in 1 .. k - 1 : stack[k].chain[j] = <<stack[j].tag, stack[j].ad - 1, 0>>
  BY <1>1 DEF PathInv
<1>3. /\ Top \in Frames /\ Top.tag \in Tags /\ Top.ad \in Nat \ {0} /\ Top.ad \in DOMAIN AdsOf(Top.tag)
      /\ CurrentAd = AdsOf(Top.tag)[Top.ad]
  BY CurrentAdIs DEF CurrentAd
<1>4. frame.chain = Top.chain /\ frame.tag = Top.tag /\ frame.ad = Top.ad + 1
  BY <1>3 DEF Frames
<1>5. /\ Called.tag = CurrentAd.body.ad_tag_uri /\ Called.chain = Merged(Top.chain, Top.tag, Top.ad, 0)
      /\ Len(Called.chain) = Len(Top.chain) + 1
  BY CalledIs
<1>6. Len(Top.chain) = L - 1 /\ Top.chain \in Seq(Places)
  <2>1. FrameOk(Top, L, L)
    BY <1>1, TopOk DEF HasAd, At
  <2> QED BY <1>3, <2>1 DEF FrameOk, Frames
<1>7. /\ Called.chain[L] = <<Top.tag, Top.ad, 0>>
      /\ \A j \in 1 .. L - 1 : Called.chain[j] = Top.chain[j]
      /\ Len(Called.chain) = L
  <2>1. <<Top.tag, Top.ad, 0>> \in Places
    BY <1>3, TagsAssumption DEF Places
  <2>2. L - 1 + 1 = L
    BY <1>1
  <2> HIDE DEF L
  <2> QED BY <1>5, <1>6, <2>1, <2>2, AppendProperties DEF Merged
<1> HIDE DEF L, frame
<1>8. L \in 1 .. L /\ Path(Top.chain, Top.tag)
  BY <1>1, <1>2
<1>9. Path(Called.chain, Called.tag)
  <2> DEFINE c == Called.chain
             d == Top.chain
             W(p) == /\ p[1] \in Tags /\ p[3] = 0 /\ p[2] \in DOMAIN AdsOf(p[1])
                     /\ AdsOf(p[1])[p[2]].kind = "wrapper"
             U(p) == AdsOf(p[1])[p[2]].body.ad_tag_uri
  <2>1. /\ (IF L - 1 = 0 THEN Top.tag ELSE d[1][1]) = Root
        /\ \A i \in 1 .. L - 1 : W(d[i]) /\ U(d[i]) = IF i = L - 1 THEN Top.tag ELSE d[i + 1][1]
    BY <1>6, <1>8 DEF Path
  <2>2. W(c[L]) /\ U(c[L]) = Called.tag /\ c[L][1] = Top.tag
    BY <1>3, <1>5, <1>7
  <2>3. Len(c) = L /\ \A j \in 1 .. L - 1 : c[j] = d[j]
    BY <1>7
  <2>4. (\A i \in 1 .. Len(c) : W(c[i]) /\ U(c[i]) = IF i = Len(c) THEN Called.tag ELSE c[i + 1][1])
        /\ (IF Len(c) = 0 THEN Called.tag ELSE c[1][1]) = Root => Path(c, Called.tag)
    BY DEF Path
  <2> HIDE DEF c, d, W, U
  <2>5. c[1][1] = Root
    <3>1. CASE L = 1
      BY <2>1, <2>2, <3>1
    <3>2. CASE L # 1
      <4>1. 1 \in 1 .. L - 1 /\ ~(L - 1 = 0)
        BY <1>1, <3>2
      <4> QED BY <2>1, <2>3, <4>1
    <3> QED BY <3>1, <3>2
  <2>6. ASSUME NEW i \in 1 .. L PROVE W(c[i]) /\ U(c[i]) = IF i = L THEN Called.tag ELSE c[i + 1][1]
    <3>1. CASE i = L
      BY <2>2, <3>1
    <3>2. CASE i = L - 1
      <4>1. i \in 1 .. L - 1 /\ i + 1 = L /\ i # L
        BY <1>1, <3>2
      <4> QED BY <2>1, <2>2, <2>3, <3>2, <4>1
    <3>3. CASE i \in 1 .. L - 2
      <4>1. i \in 1 .. L - 1 /\ i + 1 \in 1 .. L - 1 /\ i # L /\ i # L - 1
        BY <1>1, <3>3
      <4> QED BY <2>1, <2>3, <4>1
    <3> QED BY <1>1, <3>1, <3>2, <3>3
  <2> QED BY <1>1, <2>3, <2>4, <2>5, <2>6 DEF c
<1>10. \A a \in answered' : Path(a[1], a[2])' /\ Len(a[1]) <= MaxWrapperDepth
  BY <1>2, PathStays
<1>11. \A k \in 1 .. L + 1 : k = L + 1 \/ k = L \/ k \in 1 .. L - 1
  BY <1>1
<1>12. \A k \in DOMAIN stack' : Path(stack[k].chain, stack[k].tag)'
  <2>1. \A k \in DOMAIN stack' : Path(stack'[k].chain, stack'[k].tag)
    <3>1. \A k \in 1 .. L - 1 : k \in 1 .. L
      BY <1>1
    <3> QED BY <1>1, <1>2, <1>4, <1>8, <1>9, <1>11, <3>1 DEF frame
  <2> QED BY <2>1, PathStays
<1>13. ASSUME NEW k \in DOMAIN stack', NEW j \in 1 .. k - 1
       PROVE  stack'[k].chain[j] = <<stack'[j].tag, stack'[j].ad - 1, 0>>
  <2>1. CASE k = L + 1 /\ j = L
    <3>1. stack'[j] = frame
      BY <1>1, <2>1
    <3>2. stack'[j].tag = Top.tag /\ stack'[j].ad = Top.ad + 1
      BY <1>4, <3>1
    <3>3. stack'[k].chain[j] = <<Top.tag, Top.ad, 0>>
      BY <1>1, <1>7, <2>1
    <3> QED BY <1>3, <3>2, <3>3
  <2>2. CASE k = L + 1 /\ j \in 1 .. L - 1
    <3>1. L \in 1 .. L /\ stack'[j] = stack[j]
      BY <1>1, <2>2
    <3> QED BY <1>1, <1>2, <1>7, <2>2, <3>1
  <2>3. CASE k \in 1 .. L
    <3>1. j \in 1 .. L - 1 /\ stack'[j] = stack[j] /\ stack'[k].chain = stack[k].chain
      BY <1>1, <1>4, <1>11, <2>3
    <3> QED BY <1>2, <2>3, <3>1
  <2> QED BY <1>1, <2>1, <2>2, <2>3
<1> QED BY <1>10, <1>12, <1>13 DEF PathInv

-----------------------------------------------------------------------------
(* What arrived beneath the frames.                                         *)
LEMMA AnsweredAfterSet ==
  ASSUME TypeInv, AnsweredInv, answered' = answered, NEW frame, Sets(frame),
         AnsweredOk(frame, Len(stack))
  PROVE  AnsweredInv'
<1> DEFINE L == Len(stack)
<1>1. /\ L \in Nat \ {0} /\ DOMAIN stack' = 1 .. L /\ DOMAIN stack = 1 .. L
      /\ stack'[L] = frame /\ \A k \in 1 .. L - 1 : stack'[k] = stack[k]
  BY DEF Sets, TypeInv
<1>2. \A k \in 1 .. L : AnsweredOk(stack[k], k)
  BY <1>1 DEF AnsweredInv
<1>3. AnsweredOk(frame, L)
  OBVIOUS
<1> HIDE DEF L
<1>4. \A k \in 1 .. L : AnsweredOk(stack'[k], k)
  <2>1. \A k \in 1 .. L : k = L \/ (k \in 1 .. L - 1 /\ k \in 1 .. L)
    BY <1>1
  <2> QED BY <1>1, <1>2, <1>3, <2>1
<1>5. \A k \in DOMAIN stack' : AnsweredOk(stack[k], k)'
  BY <1>1, <1>4, AnsweredOkStays
<1> QED BY <1>5 DEF AnsweredInv

LEMMA AnsweredAfterPop ==
  ASSUME TypeInv, AnsweredInv, answered' = answered, NEW result, Pops(result)
  PROVE  AnsweredInv'
<1>1. \A k \in DOMAIN stack' : AnsweredOk(stack'[k], k)
  <2> SUFFICES ASSUME NEW k \in DOMAIN stack' PROVE AnsweredOk(stack'[k], k)
    OBVIOUS
  <2>1. /\ k \in DOMAIN stack /\ stack'[k].pc = stack[k].pc /\ stack'[k].tag = stack[k].tag
        /\ stack'[k].chain = stack[k].chain /\ stack'[k].ad = stack[k].ad
    BY CallerIs
  <2>2. AnsweredOk(stack[k], k)
    BY <2>1 DEF AnsweredInv
  <2> QED BY <2>1, <2>2 DEF AnsweredOk
<1>2. \A k \in DOMAIN stack' : AnsweredOk(stack[k], k)'
  BY <1>1, AnsweredOkStays
<1> QED BY <1>2 DEF AnsweredInv

LEMMA AnsweredAfterPush ==
  ASSUME TypeInv, FrameInv, AnsweredInv, answered' = answered,
         HasAd, CurrentAd.kind = "wrapper", Pushes([Top EXCEPT !.ad = @ + 1], Called)
  PROVE  AnsweredInv'
<1> DEFINE L == Len(stack)
           frame == [Top EXCEPT !.ad = @ + 1]
<1>1. /\ L \in Nat \ {0} /\ DOMAIN stack' = 1 .. L + 1 /\ DOMAIN stack = 1 .. L
      /\ stack'[L + 1] = Called /\ stack'[L] = frame /\ stack[L] = Top
      /\ \A k \in 1 .. L - 1 : stack'[k] = stack[k]
  BY DEF Pushes, TypeInv, Top
<1>2. /\ Top \in Frames /\ Top.pc = "ads" /\ Top.tag \in Tags /\ Top.ad \in Nat \ {0}
  BY CurrentAdIs
<1>3. /\ frame.chain = Top.chain /\ frame.tag = Top.tag /\ frame.ad = Top.ad + 1 /\ frame.pc = "ads"
  BY <1>2 DEF Frames
<1>4. Called.pc = "enter" /\ Called.chain = Merged(Top.chain, Top.tag, Top.ad, 0)
  BY CalledIs
<1>5. Len(Top.chain) = L - 1 /\ Top.chain \in Seq(Places)
  <2>1. FrameOk(Top, L, L)
    BY <1>1, TopOk DEF HasAd, At
  <2> QED BY <1>2, <2>1 DEF FrameOk, Frames
<1>6. \A a \in answered : a[1] \in Seq(Places)
  BY DEF TypeInv
<1>7. \A k \in 1 .. L : AnsweredOk(stack[k], k)
  BY <1>1 DEF AnsweredInv
<1> HIDE DEF L, frame
<1>8. AnsweredOk(Top, L) /\ L \in 1 .. L
  BY <1>1, <1>7
<1>9. ASSUME NEW a \in answered, Extends(a[1], Top.chain), Len(a[1]) >= L
      PROVE  a[1][L] \in Places /\ a[1][L][2] \in Nat /\ a[1][L][2] < Top.ad
  <2>1. a[1][L][2] < Top.ad
    BY <1>8, <1>9 DEF AnsweredOk
  <2>2. a[1][L] \in Places
    BY <1>1, <1>6, <1>9
  <2> QED BY <2>1, <2>2 DEF Places
<1>10. AnsweredOk(frame, L)
  <2>1. ASSUME NEW a \in answered, Extends(a[1], Top.chain), Len(a[1]) >= L
        PROVE  a[1][L][2] < frame.ad
    BY <1>2, <1>3, <1>9, <2>1
  <2> QED BY <1>2, <1>3, <1>8, <2>1 DEF AnsweredOk
<1>11. AnsweredOk(Called, L + 1)
  <2>1. ASSUME NEW a \in answered, Extends(a[1], Called.chain) PROVE FALSE
    <3>1. /\ Len(Called.chain) = L /\ Called.chain[L] = <<Top.tag, Top.ad, 0>>
          /\ \A j \in 1 .. L - 1 : Called.chain[j] = Top.chain[j]
      <4>1. <<Top.tag, Top.ad, 0>> \in Places
        BY <1>2, TagsAssumption DEF Places
      <4>2. L - 1 + 1 = L
        BY <1>1
      <4> QED BY <1>4, <1>5, <4>1, <4>2, AppendProperties DEF Merged
    <3>2. Len(a[1]) >= L /\ a[1][L] = <<Top.tag, Top.ad, 0>>
          /\ \A j \in 1 .. L - 1 : a[1][j] = Top.chain[j]
      <4>1. L <= Len(a[1]) /\ \A j \in 1 .. L : a[1][j] = Called.chain[j]
        BY <2>1, <3>1 DEF Extends
      <4>2. Len(a[1]) \in Nat /\ \A j \in 1 .. L - 1 : j \in 1 .. L
        BY <1>1, <1>6
      <4> QED BY <1>1, <1>8, <3>1, <4>1, <4>2
    <3>3. Extends(a[1], Top.chain)
      <4>1. L - 1 <= Len(a[1])
        BY <1>1, <1>6, <3>2
      <4> QED BY <1>5, <3>2, <4>1 DEF Extends
    <3>4. a[1][L][2] = Top.ad
      BY <3>2
    <3> QED BY <1>2, <1>9, <3>2, <3>3, <3>4
  <2> QED BY <1>4, <2>1 DEF AnsweredOk
<1>12. \A k \in 1 .. L + 1 : AnsweredOk(stack'[k], k)
  <2>1. \A k \in 1 .. L + 1 : k = L + 1 \/ k = L \/ (k \in 1 .. L - 1 /\ k \in 1 .. L)
    BY <1>1
  <2> QED BY <1>1, <1>7, <1>10, <1>11, <2>1
<1>13. \A k \in DOMAIN stack' : AnsweredOk(stack[k], k)'
  BY <1>1, <1>12, AnsweredOkStays
<1> QED BY <1>13 DEF AnsweredInv

(* The document of the innermost call arrives: of the others only wrappers  *)
(* that they have passed lead to it.                                        *)
LEMMA AnsweredAfterDocument ==
  ASSUME TypeInv, FrameInv, PathInv, AnsweredInv, Running, Top.pc = "fetch",
         answered' = answered \cup {<<Top.chain, Top.tag>>},
         Sets([Top EXCEPT !.pc = "ads"])
  PROVE  AnsweredInv'
<1> DEFINE L == Len(stack)
           frame == [Top EXCEPT !.pc = "ads"]
           new == <<Top.chain, Top.tag>>
<1>1. /\ L \in Nat \ {0} /\ DOMAIN stack' = 1 .. L /\ DOMAIN stack = 1 .. L
      /\ stack'[L] = frame /\ stack[L] = Top /\ Top \in Frames
      /\ \A k \in 1 .. L - 1 : stack'[k] = stack[k]
      /\ \A k \in 1 .. L : stack[k] \in Frames
  BY SomeFrame DEF Sets, TypeInv, Top
<1>2. frame.chain = Top.chain /\ frame.tag = Top.tag /\ frame.ad = Top.ad /\ frame.pc = "ads"
  BY <1>1 DEF Frames
<1>3. /\ \A k \in 1 .. L : AnsweredOk(stack[k], k)
      /\ \A k \in 1 .. L : FrameOk(stack[k], k, L)
      /\ \A j \in 1 .. L - 1 : Top.chain[j] = <<stack[j].tag, stack[j].ad - 1, 0>>
  <2>1. L \in DOMAIN stack
    BY <1>1
  <2> QED BY <1>1, <2>1 DEF AnsweredInv, FrameInv, PathInv
<1> HIDE DEF L, frame
<1>4. L \in 1 .. L /\ AnsweredOk(Top, L) /\ Len(Top.chain) = L - 1
  BY <1>1, <1>3 DEF FrameOk
<1>5. \A a \in answered : ~Extends(a[1], Top.chain)
  BY <1>4 DEF AnsweredOk
<1>6. \A a \in answered' : a \in answered \/ a = new
  OBVIOUS
<1>7. ASSUME NEW k \in 1 .. L PROVE AnsweredOk(stack[k], k)'
  <2>1. CASE k = L
    <3>1. new \in answered' /\ \A a \in answered' : Extends(a[1], Top.chain) => a = new
      BY <1>5
    <3>2. ~(Len(Top.chain) >= L) /\ new[1] = Top.chain
      BY <1>1, <1>4
    <3>3. \A f : f.chain = Top.chain /\ f.tag = Top.tag /\ f.pc = "ads" => AnsweredOk(f, k)'
      BY <2>1, <3>1, <3>2 DEF AnsweredOk
    <3>4. /\ stack'[k].chain = Top.chain /\ stack'[k].tag = Top.tag /\ stack'[k].pc = "ads"
      BY <1>1, <1>2, <2>1
    <3> QED BY <3>3, <3>4
  <2>2. CASE k # L
    <3>1. k \in 1 .. L - 1 /\ k < L
      BY <1>1, <2>2
    <3>2. stack'[k] = stack[k] /\ stack[k].pc = "ads" /\ stack[k].ad \in Nat
      BY <1>1, <1>3, <3>1 DEF FrameOk, Frames
    <3>3. Top.chain[k] = <<stack[k].tag, stack[k].ad - 1, 0>>
      BY <1>3, <3>1
    <3>4. Top.chain[k][2] < stack[k].ad
      BY <3>2, <3>3
    <3>5. AnsweredOk(stack[k], k)
      BY <1>3
    <3>6. /\ <<stack[k].chain, stack[k].tag>> \in answered'
          /\ \A a \in answered' : Extends(a[1], stack[k].chain) /\ Len(a[1]) >= k => a[1][k][2] < stack[k].ad
      <4>1. \A a \in answered : Extends(a[1], stack[k].chain) /\ Len(a[1]) >= k => a[1][k][2] < stack[k].ad
        BY <3>5 DEF AnsweredOk
      <4>2. <<stack[k].chain, stack[k].tag>> \in answered
        BY <3>2, <3>5 DEF AnsweredOk
      <4>3. new[1][k][2] < stack[k].ad
        BY <3>4
      <4> QED BY <1>6, <4>1, <4>2, <4>3
    <3> QED BY <3>2, <3>6 DEF AnsweredOk
  <2> QED BY <2>1, <2>2
<1> QED BY <1>1, <1>7 DEF AnsweredInv

-----------------------------------------------------------------------------
(* What was found beneath a frame: by its own document, or by one that a    *)
(* wrapper of this led to.                                                  *)
LEMMA BeneathFrame ==
  ASSUME TypeInv, FrameInv, PathInv, AnsweredInv, NEW k \in DOMAIN stack,
         NEW p \in Found, Extends(p, stack[k].chain), Len(p) >= k
  PROVE  LET f == stack[k]
         IN  /\ f.pc = "ads" /\ p \in Seq(Places) /\ k \in Nat \ {0} /\ k \in 1 .. Len(p)
             /\ p[k][1] = f.tag /\ p[k][2] \in Nat \ {0}
             /\ \/ /\ Len(p) = k /\ p[k][2] \in DOMAIN AdsOf(f.tag)
                   /\ AdsOf(f.tag)[p[k][2]].kind = "inline"
                   /\ \E n \in DOMAIN AdsOf(f.tag)[p[k][2]].body.creatives :
                        /\ Playable(AdsOf(f.tag)[p[k][2]].body.creatives, n)
                        /\ p = Merged(f.chain, f.tag, p[k][2], n)
                \/ Len(p) > k /\ p[k][2] < f.ad /\ p[k][3] = 0
<1> DEFINE f == stack[k]
<1>1. PICK a \in answered, i \in Nat \ {0}, n \in Nat \ {0} :
        /\ i \in DOMAIN AdsOf(a[2])
        /\ AdsOf(a[2])[i].kind = "inline"
        /\ n \in DOMAIN AdsOf(a[2])[i].body.creatives
        /\ Playable(AdsOf(a[2])[i].body.creatives, n)
        /\ p = Merged(a[1], a[2], i, n)
        /\ a[1] \in Seq(Places) /\ a[2] \in Tags
        /\ p \in Seq(Places) /\ Len(a[1]) \in Nat /\ Len(p) = Len(a[1]) + 1
        /\ p[Len(a[1]) + 1] = <<a[2], i, n>>
        /\ \A j \in 1 .. Len(a[1]) : p[j] = a[1][j]
        /\ Path(a[1], a[2])
  <2> HIDE DEF Found
  <2> QED BY FoundBy
<1> DEFINE c == a[1]
           m == Len(c)
<1>2. /\ f \in Frames /\ k \in Nat \ {0} /\ Len(f.chain) = k - 1 /\ Path(f.chain, f.tag)
      /\ AnsweredOk(f, k) /\ f.chain \in Seq(Places)
  <2>1. f \in Frames /\ k \in Nat \ {0}
    BY DEF TypeInv
  <2>2. FrameOk(f, k, Len(stack)) /\ Path(f.chain, f.tag) /\ AnsweredOk(f, k)
    BY DEF FrameInv, PathInv, AnsweredInv
  <2> HIDE DEF f
  <2> QED BY <2>1, <2>2 DEF FrameOk, Frames
<1>3. m \in Nat /\ Len(p) = m + 1 /\ m >= k - 1 /\ \A j \in 1 .. m : p[j] = c[j]
  BY <1>1, <1>2
<1>4. \A j \in 1 .. k - 1 : p[j] = f.chain[j]
  BY <1>2 DEF Extends
<1> HIDE DEF f, m, c
<1>5. \A j \in 1 .. k - 1 : c[j] = f.chain[j]
  BY <1>2, <1>3, <1>4
<1>6. Extends(c, f.chain)
  BY <1>2, <1>3, <1>5 DEF Extends, m
<1>7. f.pc = "ads" /\ (m >= k => c[k][2] < f.ad)
  BY <1>1, <1>2, <1>6 DEF AnsweredOk, c, m
<1>8. (IF m = k - 1 THEN a[2] ELSE c[k][1]) = f.tag
  <2>1. c \in Seq(Places) /\ Path(c, a[2])
    BY <1>1 DEF c
  <2>2. (IF Len(c) = Len(f.chain) THEN a[2] ELSE c[Len(f.chain) + 1][1]) = f.tag
    BY <1>2, <1>6, <2>1, PathLeads
  <2>3. Len(f.chain) + 1 = k
    BY <1>2
  <2> QED BY <1>2, <2>2, <2>3 DEF m
<1>9. CASE m = k - 1
  <2>1. a[2] = f.tag /\ Len(p) = k /\ p[k] = <<f.tag, i, n>>
    <3>1. m + 1 = k
      BY <1>2, <1>9
    <3> QED BY <1>1, <1>3, <1>8, <1>9, <3>1 DEF c, m
  <2>2. c = f.chain
    <3>1. c \in Seq(Places) /\ Len(c) = Len(f.chain) /\ \A j \in 1 .. Len(c) : c[j] = f.chain[j]
      BY <1>1, <1>2, <1>5, <1>9 DEF c, m
    <3> QED BY <1>2, <3>1, SeqEqual
  <2>3. p[k][1] = f.tag /\ p[k][2] = i
    BY <2>1
  <2>4. p = Merged(f.chain, f.tag, i, n)
    BY <1>1, <2>1, <2>2 DEF c
  <2>5. k \in 1 .. Len(p)
    BY <1>2, <2>1
  <2> QED BY <1>1, <1>2, <1>7, <2>1, <2>3, <2>4, <2>5 DEF f
<1>10. CASE m >= k
  <2>1. k \in 1 .. m /\ p[k] = c[k] /\ Len(p) > k /\ k \in 1 .. Len(p)
    BY <1>2, <1>3, <1>10
  <2>2. c[k] \in Places /\ c[k][3] = 0 /\ c[k][1] \in Tags /\ c[k][2] \in DOMAIN AdsOf(c[k][1])
    BY <1>1, <2>1 DEF c, m, Path
  <2>3. c[k][2] \in Nat \ {0}
    <3>1. DOMAIN AdsOf(c[k][1]) = 1 .. Len(AdsOf(c[k][1])) /\ Len(AdsOf(c[k][1])) \in Nat
      BY <2>2, AdsAre DEF TypeInv
    <3> QED BY <2>2, <3>1
  <2>4. c[k][1] = f.tag
    BY <1>2, <1>3, <1>8, <1>10
  <2> QED BY <1>1, <1>2, <1>7, <1>10, <2>1, <2>2, <2>3, <2>4 DEF f
<1> QED BY <1>2, <1>3, <1>9, <1>10

LEMMA FoundOrder ==
  ASSUME TypeInv, PathInv, NEW chain \in Seq(Places), NEW k \in Nat \ {0}, Len(chain) = k - 1,
         NEW x \in Found, NEW y \in Found, Extends(x, chain), Extends(y, chain),
         Len(x) >= k, Len(y) >= k, x[k][2] < y[k][2]
  PROVE  Before(x, y)
<1>1. x \in Seq(Places) /\ y \in Seq(Places)
  <2> HIDE DEF Found
  <2> QED BY FoundBy
<1>2. \A j \in 1 .. k - 1 : x[j] = y[j]
  BY DEF Extends
<1> QED BY <1>1, <1>2, LowerIsBefore

LEMMA GatheredNow ==
  ASSUME document' = document, answered' = answered,
         \A k \in DOMAIN stack' :
           GatheredOk(stack'[k], IF k < Len(stack') THEN stack'[k].ad - 1 ELSE stack'[k].ad),
         stack' = << >> => Gathered(outcome'.creatives, Found)
  PROVE  GatheredInv'
<1>1. \A k \in DOMAIN stack' :
        GatheredOk(stack[k], IF k < Len(stack) THEN stack[k].ad - 1 ELSE stack[k].ad)'
  BY GatheredOkStays
<1>2. stack' = << >> => Gathered(outcome.creatives, Found)'
  BY GatheredStays, FoundStays
<1> QED BY <1>1, <1>2 DEF GatheredInv

LEMMA GatheredAfterSet ==
  ASSUME TypeInv, GatheredInv, document' = document, answered' = answered,
         NEW frame, Sets(frame), GatheredOk(frame, frame.ad)
  PROVE  GatheredInv'
<1> DEFINE L == Len(stack)
<1>1. /\ L \in Nat \ {0} /\ DOMAIN stack' = 1 .. L /\ DOMAIN stack = 1 .. L /\ Len(stack') = L
      /\ stack'[L] = frame /\ \A k \in 1 .. L - 1 : stack'[k] = stack[k]
  BY DEF Sets, TypeInv
<1>2. \A k \in 1 .. L : GatheredOk(stack[k], IF k < L THEN stack[k].ad - 1 ELSE stack[k].ad)
  BY <1>1 DEF GatheredInv
<1>3. stack' # << >>
  BY <1>1
<1> HIDE DEF L
<1>4. ASSUME NEW k \in 1 .. L
      PROVE  GatheredOk(stack'[k], IF k < L THEN stack'[k].ad - 1 ELSE stack'[k].ad)
  <2>1. CASE k = L
    <3>1. ~(k < L)
      BY <1>1, <2>1
    <3> QED BY <1>1, <2>1, <3>1
  <2>2. CASE k # L
    <3>1. k \in 1 .. L - 1
      BY <1>1, <2>2
    <3> QED BY <1>1, <1>2, <3>1
  <2> QED BY <2>1, <2>2
<1> QED BY <1>1, <1>3, <1>4, GatheredNow

LEMMA GatheredAfterInLine ==
  ASSUME TypeInv, FrameInv, PathInv, AnsweredInv, GatheredInv, document' = document,
         answered' = answered, HasAd, CurrentAd.kind = "inline",
         Sets([Top EXCEPT !.ad = @ + 1, !.creatives = @ \o Items])
  PROVE  GatheredInv'
<1> DEFINE L == Len(stack)
           frame == [Top EXCEPT !.ad = @ + 1, !.creatives = @ \o Items]
           chain == Top.chain
           cs == CurrentAd.body.creatives
           New == {Merged(chain, Top.tag, Top.ad, n) : n \in {n \in DOMAIN cs : Playable(cs, n)}}
           Old == Beneath(chain, Top.ad)
<1>1. /\ Running /\ Top.pc = "ads" /\ Top \in Frames /\ Top.tag \in Tags
      /\ Top.ad \in Nat \ {0} /\ Top.ad \in DOMAIN AdsOf(Top.tag)
      /\ CurrentAd = AdsOf(Top.tag)[Top.ad]
  BY CurrentAdIs DEF CurrentAd
<1>2. L \in Nat \ {0} /\ L \in DOMAIN stack /\ stack[L] = Top /\ FrameOk(Top, L, L)
  BY <1>1, SomeFrame, TopOk DEF Top
<1>3. /\ frame.ad = Top.ad + 1 /\ frame.chain = chain /\ frame.creatives = Top.creatives \o Items
      /\ chain \in Seq(Places) /\ Len(chain) = L - 1 /\ Top.creatives \in Seq(Creatives)
  BY <1>1, <1>2 DEF Frames, FrameOk
<1>4. Gathered(Top.creatives, Old)
  <2>1. GatheredOk(Top, IF L < L THEN Top.ad - 1 ELSE Top.ad)
    BY <1>2 DEF GatheredInv
  <2>2. ~(L < L)
    BY <1>2
  <2> QED BY <2>1, <2>2 DEF GatheredOk
<1>5. Gathered(Items, New) /\ Items \in Seq(Creatives)
  BY ItemsGathered, ItemsOfAd
<1> HIDE DEF L, frame
<1>6. ASSUME NEW p \in New
      PROVE  p \in Found /\ Extends(p, chain) /\ Len(p) = L /\ p[L][2] = Top.ad
  <2>1. PICK n \in DOMAIN cs : Playable(cs, n) /\ p = Merged(chain, Top.tag, Top.ad, n)
    BY <1>6
  <2>2. <<chain, Top.tag>> \in answered
    BY <1>1, <1>2 DEF AnsweredInv, AnsweredOk
  <2>3. Leads(<<chain, Top.tag>>, p)
    BY <1>1, <2>1 DEF Leads
  <2>4. p \in Found
    BY <2>2, <2>3, FoundIs
  <2>5. /\ \A j \in 1 .. Len(chain) : p[j] = chain[j]
        /\ Len(p) = Len(chain) + 1 /\ p[Len(chain) + 1][2] = Top.ad
    <3>1. n \in Nat
      <4>1. cs \in Seq(Range(cs))
        BY ItemsOfAd DEF IsSeq
      <4> QED BY <4>1
    <3>2. <<Top.tag, Top.ad, n>> \in Places
      BY <1>1, <3>1, TagsAssumption DEF Places
    <3> HIDE DEF cs, chain
    <3> QED BY <1>3, <2>1, <3>2, AppendProperties DEF Merged
  <2>6. Len(chain) + 1 = L /\ Len(chain) <= L
    BY <1>2, <1>3
  <2> QED BY <2>4, <2>5, <2>6 DEF Extends
<1>7. ASSUME NEW p \in Found, Extends(p, chain), Len(p) >= L, p[L][2] = Top.ad
      PROVE  p \in New
  <2>1. \/ p[L][2] < Top.ad
        \/ /\ Len(p) = L /\ p[L][2] \in DOMAIN AdsOf(Top.tag)
           /\ \E n \in DOMAIN AdsOf(Top.tag)[p[L][2]].body.creatives :
                /\ Playable(AdsOf(Top.tag)[p[L][2]].body.creatives, n)
                /\ p = Merged(chain, Top.tag, p[L][2], n)
    BY <1>2, <1>7, BeneathFrame
  <2>2. ~(p[L][2] < Top.ad)
    BY <1>1, <1>7
  <2> QED BY <1>1, <1>7, <2>1, <2>2
<1>8. \A p : p \in Old <=> p \in Found /\ Extends(p, chain) /\ Len(p) >= L /\ p[L][2] < Top.ad
  <2>1. \A p \in Found : Len(p) \in Nat
    <3> HIDE DEF Found
    <3> QED BY FoundBy
  <2>2. \A n \in Nat : n > L - 1 <=> n >= L
    BY <1>2
  <2>3. Len(chain) = L - 1 /\ Len(chain) + 1 = L
    BY <1>2, <1>3
  <2> QED BY <2>1, <2>2, <2>3 DEF Beneath
<1>9. \A p \in Found : Extends(p, chain) /\ Len(p) >= L => p[L][2] \in Nat
  BY <1>2, BeneathFrame
<1>10. \A x \in Old : \A y \in New : Before(x, y)
  <2> SUFFICES ASSUME NEW x \in Old, NEW y \in New PROVE Before(x, y)
    OBVIOUS
  <2>1. x \in Found /\ Extends(x, chain) /\ Len(x) >= L /\ x[L][2] < Top.ad
    BY <1>8
  <2>2. y \in Found /\ Extends(y, chain) /\ Len(y) >= L /\ y[L][2] = Top.ad
    BY <1>2, <1>6
  <2>3. x[L][2] < y[L][2]
    BY <2>1, <2>2
  <2> HIDE DEF chain
  <2> QED BY <1>2, <1>3, <2>1, <2>2, <2>3, FoundOrder
<1>11. Beneath(chain, Top.ad + 1) = Old \cup New
  <2>1. \A p : p \in Beneath(chain, Top.ad + 1) <=>
               p \in Found /\ Extends(p, chain) /\ Len(p) >= L /\ p[L][2] < Top.ad + 1
    <3>1. \A p \in Found : Len(p) \in Nat
      <4> HIDE DEF Found
      <4> QED BY FoundBy
    <3>2. \A n \in Nat : n > L - 1 <=> n >= L
      BY <1>2
    <3>3. Len(chain) = L - 1 /\ Len(chain) + 1 = L
      BY <1>2, <1>3
    <3> QED BY <3>1, <3>2, <3>3 DEF Beneath
  <2>2. \A n \in Nat : n < Top.ad + 1 <=> n < Top.ad \/ n = Top.ad
    BY <1>1
  <2> HIDE DEF Old, New
  <2>3. \A p \in New : p \in Found /\ Extends(p, chain) /\ Len(p) >= L /\ p[L][2] = Top.ad
    BY <1>2, <1>6
  <2>4. \A p : p \in Old \cup New <=> p \in Found /\ Extends(p, chain) /\ Len(p) >= L
                                      /\ (p[L][2] < Top.ad \/ p[L][2] = Top.ad)
    BY <1>7, <1>8, <2>3
  <2>5. \A p : p \in Beneath(chain, Top.ad + 1) <=> p \in Old \cup New
    BY <1>9, <2>1, <2>2, <2>4
  <2> QED BY <2>5
<1>12. GatheredOk(frame, frame.ad)
  <2> HIDE DEF Old, New
  <2>1. Gathered(Top.creatives \o Items, Old \cup New)
    BY <1>3, <1>4, <1>5, <1>10, GatheredJoin
  <2> QED BY <1>3, <1>11, <2>1 DEF GatheredOk
<1> QED BY <1>12, GatheredAfterSet DEF frame

(* What a document adds is beneath no wrapper that is done with.            *)
LEMMA GatheredAfterDocument ==
  ASSUME TypeInv, FrameInv, PathInv, AnsweredInv, GatheredInv, document' = document,
         Running, Top.pc = "fetch", Top.tag \in Tags,
         answered' = answered \cup {<<Top.chain, Top.tag>>},
         Sets([Top EXCEPT !.pc = "ads"])
  PROVE  GatheredInv'
<1> DEFINE L == Len(stack)
           new == <<Top.chain, Top.tag>>
<1>1. /\ L \in Nat \ {0} /\ DOMAIN stack' = 1 .. L /\ DOMAIN stack = 1 .. L /\ Len(stack') = L
      /\ stack'[L] = [Top EXCEPT !.pc = "ads"] /\ stack[L] = Top /\ Top \in Frames
      /\ \A k \in 1 .. L - 1 : stack'[k] = stack[k]
      /\ \A k \in 1 .. L : stack[k] \in Frames /\ FrameOk(stack[k], k, L)
  BY SomeFrame DEF Sets, TypeInv, Top, FrameInv
<1>2. /\ \A k \in 1 .. L : GatheredOk(stack[k], IF k < L THEN stack[k].ad - 1 ELSE stack[k].ad)
      /\ \A j \in 1 .. L - 1 : Top.chain[j] = <<stack[j].tag, stack[j].ad - 1, 0>>
  <2>1. L \in 1 .. L
    BY <1>1
  <2> QED BY <1>1, <2>1 DEF GatheredInv, PathInv
<1>3. /\ Top.chain \in Seq(Places) /\ Len(Top.chain) = L - 1 /\ Top.ad = 1
  <2>1. L \in 1 .. L
    BY <1>1
  <2>2. FrameOk(Top, L, L)
    BY <1>1, <2>1
  <2> QED BY <1>1, <2>2 DEF FrameOk, Frames
<1>4. stack' # << >>
  BY <1>1
<1> HIDE DEF L
<1>5. ASSUME NEW k \in 1 .. L
      PROVE  /\ stack'[k].chain = stack[k].chain /\ stack'[k].creatives = stack[k].creatives
             /\ stack'[k].ad = stack[k].ad
  <2>1. CASE k = L
    BY <1>1, <2>1 DEF Frames
  <2>2. CASE k # L
    <3>1. k \in 1 .. L - 1
      BY <1>1, <2>2
    <3> QED BY <1>1, <3>1
  <2> QED BY <2>1, <2>2
<1>6. \A p : p \in Found' <=> p \in Found \/ Leads(new, p)
  <2>1. \A p : p \in Found' <=> \E a \in answered' : Leads(a, p)'
    <3>1. (\A p : p \in Found <=> \E a \in answered : Leads(a, p))'
      BY FoundIs, PTL
    <3> QED BY <3>1
  <2>2. \A a : a \in answered' <=> a \in answered \/ a = new
    OBVIOUS
  <2> HIDE DEF new
  <2> QED BY <2>1, <2>2, LeadsStays, FoundIs
<1>7. ASSUME NEW p, Leads(new, p)
      PROVE  /\ Len(p) = L /\ p[L][2] \in Nat \ {0} /\ \A j \in 1 .. L - 1 : p[j] = Top.chain[j]
  <2>1. new \in Seq(Places) \X Tags /\ document \in [Tags -> DOMAIN Parsed]
    BY <1>3 DEF TypeInv
  <2>2. new[1] = Top.chain /\ Len(new[1]) = L - 1 /\ L - 1 + 1 = L
    BY <1>1, <1>3
  <2> HIDE DEF new
  <2>3. PICK i \in Nat \ {0}, n \in Nat \ {0} :
          /\ Len(p) = Len(new[1]) + 1 /\ p[Len(new[1]) + 1] = <<new[2], i, n>>
          /\ \A j \in 1 .. Len(new[1]) : p[j] = new[1][j]
    BY <1>7, <2>1, LeadsTo
  <2> QED BY <2>2, <2>3
<1>8. ASSUME NEW k \in 1 .. L, NEW c, c = stack[k].chain, NEW limit,
             limit = IF k < L THEN stack[k].ad - 1 ELSE stack[k].ad
      PROVE  Beneath(c, limit)' = Beneath(c, limit)
  <2>1. Len(c) + 1 = k /\ stack[k].ad \in Nat
    BY <1>1, <1>8 DEF FrameOk, Frames
  <2>2. ASSUME NEW p, Leads(new, p) PROVE ~(p[k][2] < limit)
    <3>1. CASE k = L
      <4>1. limit = 1
        BY <1>1, <1>3, <1>8, <3>1
      <4> HIDE DEF new
      <4> QED BY <1>7, <2>2, <3>1, <4>1
    <3>2. CASE k # L
      <4>1. k \in 1 .. L - 1 /\ limit = stack[k].ad - 1
        BY <1>1, <1>8, <3>2
      <4>2. p[k] = <<stack[k].tag, limit, 0>>
        BY <1>2, <1>7, <2>2, <4>1
      <4>3. p[k][2] = limit /\ limit \in Int
        BY <2>1, <4>1, <4>2
      <4> QED BY <4>3
    <3> QED BY <3>1, <3>2
  <2> HIDE DEF new
  <2> QED BY <1>6, <2>1, <2>2 DEF Beneath
<1>9. \A k \in DOMAIN stack' :
        GatheredOk(stack[k], IF k < Len(stack) THEN stack[k].ad - 1 ELSE stack[k].ad)'
  <2> SUFFICES ASSUME NEW k \in 1 .. L, NEW f, f = stack'[k],
                      NEW limit, limit = IF k < L THEN stack[k].ad - 1 ELSE stack[k].ad
               PROVE  GatheredOk(f, limit)'
    BY <1>1, <1>5
  <2>1. GatheredOk(stack[k], limit)
    BY <1>2
  <2>2. f.chain = stack[k].chain /\ f.creatives = stack[k].creatives
    BY <1>5
  <2>3. Gathered(f.creatives, Beneath(f.chain, limit))
    BY <2>1, <2>2 DEF GatheredOk
  <2>4. Beneath(f.chain, limit)' = Beneath(f.chain, limit)
    BY <1>8, <2>2
  <2>5. Gathered(f.creatives, Beneath(f.chain, limit))'
    BY <2>3, <2>4, GatheredStays
  <2> QED BY <2>5 DEF GatheredOk
<1> QED BY <1>4, <1>9 DEF GatheredInv

(* Beneath a new frame there is nothing yet.                                *)
LEMMA GatheredAfterPush ==
  ASSUME TypeInv, FrameInv, GatheredInv, document' = document, answered' = answered,
         HasAd, CurrentAd.kind = "wrapper", Pushes([Top EXCEPT !.ad = @ + 1], Called),
         AnsweredInv'
  PROVE  GatheredInv'
<1> DEFINE L == Len(stack)
           frame == [Top EXCEPT !.ad = @ + 1]
<1>1. /\ L \in Nat \ {0} /\ DOMAIN stack' = 1 .. L + 1 /\ DOMAIN stack = 1 .. L /\ Len(stack') = L + 1
      /\ stack'[L + 1] = Called /\ stack'[L] = frame /\ stack[L] = Top
      /\ \A k \in 1 .. L - 1 : stack'[k] = stack[k]
  BY DEF Pushes, TypeInv, Top
<1>2. Top \in Frames /\ Top.ad \in Nat \ {0}
  BY CurrentAdIs
<1>3. frame.chain = Top.chain /\ frame.creatives = Top.creatives /\ frame.ad = Top.ad + 1
  BY <1>2 DEF Frames
<1>4. /\ Called.pc = "enter" /\ Called.creatives = << >> /\ Called.ad = 1
      /\ Len(Called.chain) = L
  <2>1. FrameOk(Top, L, L)
    BY TopOk DEF HasAd, At
  <2>2. Len(Top.chain) = L - 1
    BY <2>1 DEF FrameOk
  <2>3. L - 1 + 1 = L
    <3> HIDE DEF L
    <3> QED BY <1>1
  <2>4. /\ Called.pc = "enter" /\ Called.creatives = << >> /\ Called.ad = 1
        /\ Len(Called.chain) = Len(Top.chain) + 1
    BY CalledIs
  <2> QED BY <2>2, <2>3, <2>4
<1>5. \A k \in 1 .. L : GatheredOk(stack[k], IF k < L THEN stack[k].ad - 1 ELSE stack[k].ad)
  BY <1>1 DEF GatheredInv
<1>6. AnsweredOk(Called, L + 1)
  <2>1. L + 1 \in DOMAIN stack'
    BY <1>1
  <2>2. \A k \in DOMAIN stack' : AnsweredOk(stack[k], k)'
    BY DEF AnsweredInv
  <2>3. \A k \in DOMAIN stack' : AnsweredOk(stack'[k], k)
    BY <2>2, AnsweredOkStays
  <2> QED BY <1>1, <2>1, <2>3
<1>7. stack' # << >>
  BY <1>1
<1> HIDE DEF L, frame
<1>8. Beneath(Called.chain, 1) = {}
  <2> SUFFICES ASSUME NEW p \in Found, Extends(p, Called.chain), Len(p) > L PROVE FALSE
    BY <1>4 DEF Beneath
  <2>1. PICK a \in answered : Leads(a, p)
    BY FoundIs
  <2>2. a \in Seq(Places) \X Tags /\ document \in [Tags -> DOMAIN Parsed]
    BY DEF TypeInv
  <2>3. /\ Len(a[1]) \in Nat /\ Len(p) = Len(a[1]) + 1
        /\ \A j \in 1 .. Len(a[1]) : p[j] = a[1][j]
    <3> HIDE DEF Found
    <3> QED BY <2>1, <2>2, LeadsTo
  <2>4. L <= Len(a[1]) /\ \A j \in 1 .. L : j \in 1 .. Len(a[1])
    BY <1>1, <2>3
  <2>5. \A j \in 1 .. L : p[j] = Called.chain[j]
    BY <1>4 DEF Extends
  <2>6. Extends(a[1], Called.chain)
    BY <1>4, <2>3, <2>4, <2>5 DEF Extends
  <2> QED BY <1>4, <1>6, <2>6 DEF AnsweredOk
<1>9. GatheredOk(Called, Called.ad)
  BY <1>4, <1>8, NoneGathered DEF GatheredOk
<1>10. ASSUME NEW k \in 1 .. L + 1
       PROVE  GatheredOk(stack'[k], IF k < L + 1 THEN stack'[k].ad - 1 ELSE stack'[k].ad)
  <2>1. CASE k = L + 1
    <3>1. ~(k < L + 1)
      BY <1>1, <2>1
    <3> QED BY <1>1, <1>9, <2>1, <3>1
  <2>2. CASE k = L
    <3>1. k < L + 1 /\ ~(L < L) /\ Top.ad + 1 - 1 = Top.ad /\ L \in 1 .. L
      BY <1>1, <1>2, <2>2
    <3>2. GatheredOk(Top, Top.ad)
      BY <1>1, <1>5, <3>1
    <3>3. GatheredOk(frame, Top.ad)
      BY <1>3, <3>2 DEF GatheredOk
    <3>4. frame.ad - 1 = Top.ad
      BY <1>2, <1>3
    <3>5. stack'[k] = frame
      BY <1>1, <2>2
    <3> QED BY <3>1, <3>3, <3>4, <3>5
  <2>3. CASE k \in 1 .. L - 1
    <3>1. k < L + 1 /\ k < L /\ k \in 1 .. L
      BY <1>1, <2>3
    <3> QED BY <1>1, <1>5, <2>3, <3>1
  <2> QED BY <1>1, <2>1, <2>2, <2>3
<1> QED BY <1>1, <1>7, <1>10, GatheredNow

(* All that is beneath the innermost frame.                                 *)
All == {p \in Found : Extends(p, Top.chain) /\ Len(p) > Len(Top.chain)}

LEMMA AllIs ==
  ASSUME TypeInv, FrameInv, PathInv, AnsweredInv, Running
  PROVE  /\ Top.pc # "ads" => All = {}
         /\ Top.pc = "ads" /\ Top.ad > Len(AdsOf(Top.tag)) => All = Beneath(Top.chain, Top.ad)
<1> DEFINE L == Len(stack)
<1>1. /\ L \in Nat \ {0} /\ L \in DOMAIN stack /\ stack[L] = Top
      /\ Top \in Frames /\ FrameOk(Top, L, L)
  BY SomeFrame, TopOk DEF Top
<1>2. Len(Top.chain) = L - 1 /\ Len(Top.chain) + 1 = L
  BY <1>1 DEF FrameOk
<1>3. \A p \in Found : Len(p) \in Nat
  <2> HIDE DEF Found
  <2> QED BY FoundBy
<1> HIDE DEF L
<1>4. ASSUME NEW p \in Found, Extends(p, Top.chain), Len(p) > Len(Top.chain)
      PROVE  /\ Top.pc = "ads" /\ p[L][2] \in Nat
             /\ p[L][2] < Top.ad \/ p[L][2] \in DOMAIN AdsOf(Top.tag)
  <2>1. Len(p) >= L
    BY <1>1, <1>2, <1>3, <1>4
  <2> QED BY <1>1, <1>4, <2>1, BeneathFrame
<1>5. ASSUME Top.pc = "ads", Top.ad > Len(AdsOf(Top.tag)) PROVE All = Beneath(Top.chain, Top.ad)
  <2>1. Top.tag \in Tags /\ Top.ad \in Nat
    BY <1>1, <1>5 DEF FrameOk, Frames
  <2>2. DOMAIN AdsOf(Top.tag) = 1 .. Len(AdsOf(Top.tag)) /\ Len(AdsOf(Top.tag)) \in Nat
    BY <2>1, AdsAre DEF TypeInv
  <2>3. \A i \in DOMAIN AdsOf(Top.tag) : i < Top.ad
    BY <1>5, <2>1, <2>2
  <2>4. \A p \in Found : Extends(p, Top.chain) /\ Len(p) > Len(Top.chain) => p[L][2] < Top.ad
    BY <1>4, <2>3
  <2> QED BY <1>2, <2>4 DEF All, Beneath
<1> QED BY <1>4, <1>5 DEF All

(* The innermost call returns what is beneath it, and its caller is done    *)
(* with the wrapper.                                                        *)
LEMMA GatheredAfterPop ==
  ASSUME TypeInv, FrameInv, PathInv, AnsweredInv, GatheredInv, document' = document,
         answered' = answered, NEW result, result.creatives \in Seq(Creatives), Pops(result),
         Running, Gathered(result.creatives, All)
  PROVE  GatheredInv'
<1> DEFINE L == Len(stack)
           T == Top
<1>1. /\ L \in Nat \ {0} /\ L \in DOMAIN stack /\ stack[L] = T /\ DOMAIN stack = 1 .. L
      /\ T \in Frames /\ FrameOk(T, L, L) /\ \A k \in 1 .. L : stack[k] \in Frames
  BY SomeFrame, TopOk DEF Top
<1>2. T.chain \in Seq(Places) /\ Len(T.chain) = L - 1
  BY <1>1 DEF FrameOk, Frames
<1>3. \A p \in Found : Len(p) \in Nat
  <2> HIDE DEF Found
  <2> QED BY FoundBy
<1>4. \A k \in 1 .. L : GatheredOk(stack[k], IF k < L THEN stack[k].ad - 1 ELSE stack[k].ad)
  BY <1>1 DEF GatheredInv
<1>5. All = {p \in Found : Extends(p, T.chain) /\ Len(p) >= L}
  <2>1. \A n \in Nat : n > L - 1 <=> n >= L
    BY <1>1
  <2> HIDE DEF L, T
  <2> QED BY <1>2, <1>3, <2>1 DEF All, T
<1>6. CASE L = 1
  <2>1. stack' = << >> /\ outcome' = result
    BY <1>6 DEF Pops
  <2>2. All = Found
    <3>1. \A p \in Found : Len(p) >= 1
      <4> HIDE DEF Found
      <4>1. \A p \in Found : \E n \in Nat : Len(p) = n + 1
        BY FoundBy
      <4> QED BY <4>1
    <3>2. \A p \in Found : Extends(p, T.chain)
      <4> HIDE DEF T
      <4> QED BY <1>2, <1>3, <1>6 DEF Extends
    <3> HIDE DEF T
    <3> QED BY <1>5, <1>6, <3>1, <3>2
  <2>3. DOMAIN stack' = {}
    BY <2>1
  <2> QED BY <2>1, <2>2, <2>3, GatheredNow
<1>7. CASE L > 1
  <2> DEFINE K == L - 1
             C == stack[K]
  <2>1. Len(stack') = K /\ DOMAIN stack' = 1 .. K /\ K \in 1 .. L /\ K \in Nat \ {0} /\ K < L
    <3>1. Len(stack') = L - 1 /\ DOMAIN stack' = 1 .. L - 1
      BY <1>7 DEF Pops
    <3>2. L - 1 \in 1 .. L /\ L - 1 \in Nat \ {0} /\ L - 1 < L
      <4> HIDE DEF L
      <4> QED BY <1>1, <1>7
    <3> QED BY <3>1, <3>2
  <2>2. /\ C \in Frames /\ FrameOk(C, K, L) /\ K \in DOMAIN stack /\ GatheredOk(C, C.ad - 1)
        /\ T.chain[K] = <<C.tag, C.ad - 1, 0>>
    <3>1. K \in DOMAIN stack /\ K \in 1 .. L - 1
      BY <1>1, <2>1
    <3>2. C \in Frames /\ FrameOk(C, K, L) /\ GatheredOk(C, C.ad - 1)
      BY <1>1, <1>4, <2>1, <3>1 DEF FrameInv
    <3>3. stack[L].chain[K] = <<stack[K].tag, stack[K].ad - 1, 0>>
      BY <1>1, <3>1 DEF PathInv
    <3> QED BY <1>1, <3>1, <3>2, <3>3
  <2>3. /\ C.chain \in Seq(Places) /\ Len(C.chain) = K - 1 /\ C.ad \in Nat \ {0}
        /\ C.creatives \in Seq(Creatives) /\ Gathered(C.creatives, Beneath(C.chain, C.ad - 1))
    <3> HIDE DEF C, K
    <3> QED BY <2>2 DEF FrameOk, Frames, GatheredOk
  <2>4. stack' # << >>
    BY <2>1
  <2>5. \A k \in DOMAIN stack' :
          /\ k \in 1 .. K /\ stack'[k].chain = stack[k].chain /\ stack'[k].ad = stack[k].ad
          /\ stack'[k].creatives = IF k = K THEN stack[k].creatives \o result.creatives
                                   ELSE stack[k].creatives
    BY CallerIs
  <2>6. \A j \in 1 .. K - 1 : T.chain[j] = C.chain[j]
    <3> SUFFICES ASSUME NEW j \in 1 .. K - 1 PROVE T.chain[j] = C.chain[j]
      OBVIOUS
    <3>1. j \in 1 .. L - 1
      BY <2>1
    <3>2. stack[L].chain[j] = <<stack[j].tag, stack[j].ad - 1, 0>>
      BY <1>1, <3>1 DEF PathInv
    <3>3. stack[K].chain[j] = <<stack[j].tag, stack[j].ad - 1, 0>>
      BY <2>2 DEF PathInv
    <3> QED BY <1>1, <3>2, <3>3
  <2>7. C.ad - 1 \in DOMAIN AdsOf(C.tag) /\ AdsOf(C.tag)[C.ad - 1].kind = "wrapper"
    <3>1. Path(T.chain, T.tag)
      BY <1>1 DEF PathInv
    <3>2. K \in 1 .. Len(T.chain)
      BY <1>2, <2>1
    <3>3. /\ T.chain[K][2] \in DOMAIN AdsOf(T.chain[K][1])
          /\ AdsOf(T.chain[K][1])[T.chain[K][2]].kind = "wrapper"
      BY <3>1, <3>2 DEF Path
    <3>4. T.chain[K][1] = C.tag /\ T.chain[K][2] = C.ad - 1
      BY <2>2
    <3> QED BY <3>3, <3>4
  <2> HIDE DEF L, T, K, C
  <2>8. \A p : p \in All <=> p \in Found /\ Extends(p, C.chain) /\ Len(p) >= K /\ p[K][2] = C.ad - 1
    <3>1. ASSUME NEW p \in All PROVE Extends(p, C.chain) /\ Len(p) >= K /\ p[K][2] = C.ad - 1
      <4>1. p \in Found /\ Extends(p, T.chain) /\ Len(p) >= L /\ Len(p) \in Nat
        BY <1>3, <1>5
      <4>2. \A j \in 1 .. K : p[j] = T.chain[j]
        BY <1>2, <4>1 DEF Extends, K
      <4>3. p[K] = <<C.tag, C.ad - 1, 0>>
        BY <2>1, <2>2, <4>2
      <4>4. K - 1 <= Len(p) /\ Len(p) >= K
        BY <1>1, <2>1, <4>1
      <4>5. \A j \in 1 .. K - 1 : p[j] = C.chain[j]
        BY <2>1, <2>6, <4>2
      <4> QED BY <2>3, <4>3, <4>4, <4>5 DEF Extends
    <3>2. ASSUME NEW p \in Found, Extends(p, C.chain), Len(p) >= K, p[K][2] = C.ad - 1
          PROVE  p \in All
      <4>1. /\ p[K][1] = C.tag
            /\ \/ Len(p) = K /\ AdsOf(C.tag)[p[K][2]].kind = "inline"
               \/ Len(p) > K /\ p[K][3] = 0
            /\ p \in Seq(Places) /\ K \in 1 .. Len(p)
        BY <2>2, <3>2, BeneathFrame DEF C
      <4>2. Len(p) > K /\ p[K][3] = 0
        BY <2>7, <3>2, <4>1
      <4>3. p[K] = T.chain[K]
        <5>1. p[K] \in Places
          BY <4>1
        <5>2. p[K] = <<p[K][1], p[K][2], p[K][3]>>
          BY <5>1 DEF Places
        <5> QED BY <2>2, <3>2, <4>1, <4>2, <5>2
      <4>4. Len(p) >= L /\ L - 1 = K /\ \A j \in 1 .. K : j = K \/ j \in 1 .. K - 1
        BY <1>1, <1>3, <2>1, <4>2 DEF K
      <4>5. \A j \in 1 .. K : p[j] = T.chain[j]
        <5>1. \A j \in 1 .. K - 1 : p[j] = C.chain[j]
          BY <2>3, <3>2 DEF Extends
        <5> QED BY <2>6, <4>3, <4>4, <5>1
      <4>6. Extends(p, T.chain)
        <5>1. K <= Len(p)
          BY <3>2, <1>3, <2>1
        <5> QED BY <1>2, <4>4, <4>5, <5>1 DEF Extends
      <4> QED BY <1>5, <4>4, <4>6
    <3> QED BY <1>5, <3>1, <3>2
  <2>9. /\ \A n \in Nat : n > K - 1 <=> n >= K
        /\ K - 1 + 1 = K
        /\ \A n \in Nat : n < C.ad <=> n < C.ad - 1 \/ n = C.ad - 1
    BY <2>1, <2>3
  <2>10. \A limit, p : p \in Beneath(C.chain, limit) <=>
           p \in Found /\ Extends(p, C.chain) /\ Len(p) >= K /\ p[K][2] < limit
    BY <1>3, <2>3, <2>9 DEF Beneath
  <2>11. \A p \in Found : Extends(p, C.chain) /\ Len(p) >= K => p[K][2] \in Nat
    BY <2>2, BeneathFrame DEF C
  <2>12. Beneath(C.chain, C.ad) = Beneath(C.chain, C.ad - 1) \cup All
    <3>1. \A p : p \in Beneath(C.chain, C.ad) <=> p \in Beneath(C.chain, C.ad - 1) \/ p \in All
      BY <2>8, <2>9, <2>10, <2>11
    <3> QED BY <3>1
  <2>13. \A x \in Beneath(C.chain, C.ad - 1) : \A y \in All : Before(x, y)
    <3> SUFFICES ASSUME NEW x \in Beneath(C.chain, C.ad - 1), NEW y \in All PROVE Before(x, y)
      OBVIOUS
    <3>1. x \in Found /\ Extends(x, C.chain) /\ Len(x) >= K /\ x[K][2] < C.ad - 1
      BY <2>10
    <3>2. y \in Found /\ Extends(y, C.chain) /\ Len(y) >= K /\ y[K][2] = C.ad - 1
      BY <2>8
    <3>3. x[K][2] < y[K][2]
      BY <3>1, <3>2
    <3> QED BY <2>1, <2>3, <3>1, <3>2, <3>3, FoundOrder
  <2>14. Gathered(C.creatives \o result.creatives, Beneath(C.chain, C.ad))
    BY <2>3, <2>12, <2>13, GatheredJoin
  <2>15. ASSUME NEW k \in DOMAIN stack'
         PROVE  GatheredOk(stack'[k], IF k < K THEN stack'[k].ad - 1 ELSE stack'[k].ad)
    <3>1. CASE k = K
      <4>1. ~(k < K)
        BY <2>1, <3>1
      <4>2. stack'[k].chain = C.chain /\ stack'[k].ad = C.ad /\ stack'[k].creatives = C.creatives \o result.creatives
        BY <2>5, <3>1 DEF C
      <4> QED BY <2>14, <4>1, <4>2 DEF GatheredOk
    <3>2. CASE k # K
      <4>1. k \in 1 .. L /\ k < K /\ k < L
        BY <1>1, <2>1, <2>5, <3>2
      <4>2. GatheredOk(stack[k], stack[k].ad - 1)
        BY <1>4, <4>1
      <4>3. /\ stack'[k].chain = stack[k].chain /\ stack'[k].ad = stack[k].ad
            /\ stack'[k].creatives = stack[k].creatives
        BY <2>5, <3>2
      <4> QED BY <4>1, <4>2, <4>3 DEF GatheredOk
    <3> QED BY <3>1, <3>2
  <2> QED BY <2>1, <2>4, <2>15, GatheredNow
<1>8. L = 1 \/ L > 1
  <2> HIDE DEF L
  <2> QED BY <1>1
<1> QED BY <1>6, <1>7, <1>8


-----------------------------------------------------------------------------
LEMMA InitGathered == Init => PathInv /\ AnsweredInv /\ GatheredInv
<1> SUFFICES ASSUME Init PROVE PathInv /\ AnsweredInv /\ GatheredInv
  OBVIOUS
<1> DEFINE f == Frame(Root, 0, << >>)
<1>1. /\ stack = <<f>> /\ Len(stack) = 1 /\ DOMAIN stack = 1 .. 1 /\ stack[1] = f
      /\ answered = {}
  BY DEF Init
<1>2. f.pc = "enter" /\ f.tag = Root /\ f.chain = << >> /\ f.ad = 1 /\ f.creatives = << >>
  BY DEF Frame
<1> HIDE DEF f
<1>3. PathInv
  <2>1. Path(<< >>, Root)
    BY DEF Path
  <2> QED BY <1>1, <1>2, <2>1 DEF PathInv
<1>4. AnsweredInv
  BY <1>1, <1>2 DEF AnsweredInv, AnsweredOk
<1>5. GatheredInv
  <2>1. \A limit : Beneath(<< >>, limit) = {}
    BY <1>1 DEF Beneath, Found
  <2>2. GatheredOk(f, f.ad)
    BY <1>2, <2>1, NoneGathered DEF GatheredOk
  <2>3. \A k \in DOMAIN stack : stack[k] = f /\ ~(k < Len(stack))
    BY <1>1
  <2>4. stack # << >>
    BY <1>1
  <2> QED BY <2>2, <2>3, <2>4 DEF GatheredInv
<1> QED BY <1>3, <1>4, <1>5

(* A call that fails before it has its document returns nothing, and there  *)
(* was nothing: its siblings are as they were.                              *)
LEMMA AfterFailure ==
  ASSUME TypeInv, FrameInv, PathInv, AnsweredInv, GatheredInv, document' = document,
         answered' = answered, Running, Top.pc # "ads", Pops(None)
  PROVE  PathInv' /\ AnsweredInv' /\ GatheredInv'
<1>1. PathInv'
  BY PathsAfterPop
<1>2. AnsweredInv'
  BY AnsweredAfterPop
<1>3. GatheredInv'
  <2>1. None.creatives = << >> /\ None.creatives \in Seq(Creatives)
    BY DEF None
  <2>2. All = {}
    BY AllIs
  <2>3. Gathered(None.creatives, All)
    BY <2>1, <2>2, NoneGathered
  <2> QED BY <2>1, <2>3, GatheredAfterPop
<1> QED BY <1>1, <1>2, <1>3

(* A step within the innermost call, before it has its document.            *)
LEMMA AfterWait ==
  ASSUME TypeInv, FrameInv, PathInv, AnsweredInv, GatheredInv, document' = document,
         answered' = answered, Running, Top.pc # "ads",
         NEW frame, Sets(frame), frame.pc # "ads", frame.chain = Top.chain, frame.tag = Top.tag,
         frame.ad = Top.ad, frame.creatives = Top.creatives
  PROVE  PathInv' /\ AnsweredInv' /\ GatheredInv'
<1> DEFINE L == Len(stack)
<1>1. L \in Nat \ {0} /\ L \in DOMAIN stack /\ stack[L] = Top
  BY SomeFrame DEF Top
<1>2. PathInv'
  BY PathsAfterSet
<1>3. AnsweredInv'
  <2>1. AnsweredOk(Top, L)
    BY <1>1 DEF AnsweredInv
  <2>2. AnsweredOk(frame, L)
    BY <2>1 DEF AnsweredOk
  <2> QED BY <2>2, AnsweredAfterSet
<1>4. GatheredInv'
  <2>1. GatheredOk(Top, Top.ad)
    <3>1. GatheredOk(Top, IF L < L THEN Top.ad - 1 ELSE Top.ad)
      BY <1>1 DEF GatheredInv
    <3>2. ~(L < L)
      BY <1>1
    <3> QED BY <3>1, <3>2
  <2>2. GatheredOk(frame, frame.ad)
    BY <2>1 DEF GatheredOk
  <2> QED BY <2>2, GatheredAfterSet
<1> QED BY <1>2, <1>3, <1>4

LEMMA AfterInLine ==
  ASSUME TypeInv, FrameInv, PathInv, AnsweredInv, GatheredInv, document' = document,
         answered' = answered, HasAd, CurrentAd.kind = "inline",
         Sets([Top EXCEPT !.ad = @ + 1, !.creatives = @ \o Items])
  PROVE  PathInv' /\ AnsweredInv' /\ GatheredInv'
<1> DEFINE L == Len(stack)
           frame == [Top EXCEPT !.ad = @ + 1, !.creatives = @ \o Items]
<1>1. Running /\ Top.pc = "ads" /\ Top \in Frames /\ Top.ad \in Nat \ {0}
  BY CurrentAdIs
<1>2. L \in Nat \ {0} /\ L \in DOMAIN stack /\ stack[L] = Top
  BY <1>1, SomeFrame DEF Top
<1>3. /\ frame.pc = "ads" /\ frame.chain = Top.chain /\ frame.tag = Top.tag
      /\ frame.ad = Top.ad + 1
  BY <1>1 DEF Frames
<1>4. AnsweredOk(Top, L)
  BY <1>2 DEF AnsweredInv
<1> HIDE DEF L, frame
<1>5. Sets(frame)
  BY DEF frame
<1>6. PathInv'
  BY <1>3, <1>5, PathsAfterSet
<1>7. AnsweredInv'
  <2>1. ASSUME NEW a \in answered, Extends(a[1], Top.chain), Len(a[1]) >= L
        PROVE  a[1][L][2] < frame.ad
    <3>1. a[1][L][2] < Top.ad
      BY <1>4, <2>1 DEF AnsweredOk
    <3>2. a[1] \in Seq(Places)
      BY DEF TypeInv
    <3>3. a[1][L] \in Places
      BY <1>2, <2>1, <3>2
    <3>4. a[1][L][2] \in Nat
      BY <3>3 DEF Places
    <3> QED BY <1>1, <1>3, <3>1, <3>4
  <2>2. AnsweredOk(frame, L)
    BY <1>1, <1>3, <1>4, <2>1 DEF AnsweredOk
  <2> QED BY <1>5, <2>2, AnsweredAfterSet DEF L
<1> QED BY <1>6, <1>7, GatheredAfterInLine

LEMMA StepGathered ==
  ASSUME TypeInv, FrameInv, PathInv, AnsweredInv, GatheredInv, [Next]_vars
  PROVE  PathInv' /\ AnsweredInv' /\ GatheredInv'
<1>1. document' = document
  BY DocumentStays
<1>2. ASSUME Running PROVE Top \in Frames /\ FrameOk(Top, Len(stack), Len(stack))
  BY <1>2, TopOk
<1>3. CASE Enter
  <2>1. /\ Running /\ Top.pc = "enter" /\ answered' = answered
        /\ Pops(None) \/ Sets([Top EXCEPT !.pc = "fetch"])
    BY <1>3, EnterDoes
  <2>2. CASE Pops(None)
    BY <1>1, <2>1, <2>2, AfterFailure
  <2>3. CASE Sets([Top EXCEPT !.pc = "fetch"])
    <3> DEFINE f == [Top EXCEPT !.pc = "fetch"]
    <3>1. /\ f.pc = "fetch" /\ f.chain = Top.chain /\ f.tag = Top.tag
          /\ f.ad = Top.ad /\ f.creatives = Top.creatives
      BY <1>2, <2>1 DEF Frames
    <3>2. Sets(f)
      BY <2>3
    <3> HIDE DEF f
    <3> QED BY <1>1, <2>1, <3>1, <3>2, AfterWait
  <2> QED BY <2>1, <2>2, <2>3
<1>4. CASE AttemptFails
  <2>1. /\ Running /\ Top.pc = "fetch" /\ answered' = answered
        /\ Pops(None) \/ Sets([Top EXCEPT !.attempt = @ + 1])
    BY <1>4, AttemptFailsDoes
  <2>2. CASE Pops(None)
    BY <1>1, <2>1, <2>2, AfterFailure
  <2>3. CASE Sets([Top EXCEPT !.attempt = @ + 1])
    <3> DEFINE f == [Top EXCEPT !.attempt = @ + 1]
    <3>1. /\ f.pc = "fetch" /\ f.chain = Top.chain /\ f.tag = Top.tag
          /\ f.ad = Top.ad /\ f.creatives = Top.creatives
      BY <1>2, <2>1 DEF Frames
    <3>2. Sets(f)
      BY <2>3
    <3> HIDE DEF f
    <3> QED BY <1>1, <2>1, <3>1, <3>2, AfterWait
  <2> QED BY <2>1, <2>2, <2>3
<1>5. CASE BadBody
  <2>1. Running /\ Top.pc = "fetch" /\ answered' = answered /\ Pops(None)
    BY <1>5, BadBodyDoes
  <2> QED BY <1>1, <2>1, AfterFailure
<1>6. CASE GotDocument
  <2>1. /\ Running /\ Top.pc = "fetch" /\ Top.tag \in Tags
        /\ \/ /\ answered' = answered \cup {<<Top.chain, Top.tag>>}
              /\ Sets([Top EXCEPT !.pc = "ads"])
           \/ answered' = answered /\ Pops(None)
    BY <1>6, GotDocumentDoes
  <2>2. CASE answered' = answered /\ Pops(None)
    BY <1>1, <2>1, <2>2, AfterFailure
  <2>3. CASE /\ answered' = answered \cup {<<Top.chain, Top.tag>>}
             /\ Sets([Top EXCEPT !.pc = "ads"])
    <3> DEFINE f == [Top EXCEPT !.pc = "ads"]
    <3>1. f.chain = Top.chain /\ f.tag = Top.tag
      BY <1>2, <2>1 DEF Frames
    <3>2. Len(Top.chain) <= MaxWrapperDepth
      <4> DEFINE n == Len(Top.chain)
                 L == Len(stack)
      <4>1. n = L - 1 /\ L <= MaxWrapperDepth + 1 /\ L \in Nat /\ MaxWrapperDepth \in Nat
        BY <1>2, <2>1, SomeFrame, SizesAssumption DEF FrameOk
      <4> HIDE DEF n, L
      <4>2. n <= MaxWrapperDepth
        BY <4>1
      <4> QED BY <4>2 DEF n
    <3>3. PathInv'
      <4>1. Sets(f)
        BY <2>3
      <4>2. \A a \in answered' : a \in answered \/ (a = <<Top.chain, Top.tag>> /\ Len(Top.chain) <= MaxWrapperDepth)
        BY <2>3, <3>2
      <4> HIDE DEF f
      <4> QED BY <1>1, <3>1, <4>1, <4>2, PathsAfterSet
    <3>4. AnsweredInv'
      BY <2>1, <2>3, AnsweredAfterDocument
    <3>5. GatheredInv'
      BY <1>1, <2>1, <2>3, GatheredAfterDocument
    <3> QED BY <3>3, <3>4, <3>5
  <2> QED BY <2>1, <2>2, <2>3
<1>7. CASE InLineAd
  BY <1>1, <1>7, InLineAdDoes, AfterInLine
<1>8. CASE WrapperAd
  <2>1. /\ HasAd /\ CurrentAd.kind = "wrapper" /\ answered' = answered
        /\ Pushes([Top EXCEPT !.ad = @ + 1], Called)
    BY <1>8, WrapperAdDoes
  <2>2. PathInv'
    BY <1>1, <2>1, PathsAfterPush
  <2>3. AnsweredInv'
    BY <2>1, AnsweredAfterPush
  <2>4. GatheredInv'
    BY <1>1, <2>1, <2>3, GatheredAfterPush
  <2> QED BY <2>2, <2>3, <2>4
<1>9. CASE AdsDone
  <2> DEFINE result == Some(Top.creatives)
             L == Len(stack)
  <2>1. /\ Running /\ Top.pc = "ads" /\ Top.ad > Len(AdsOf(Top.tag)) /\ answered' = answered
        /\ Top.creatives \in Seq(Creatives) /\ Pops(result)
    BY <1>9, AdsDoneDoes
  <2>2. result.creatives = Top.creatives
    BY DEF Some
  <2>3. All = Beneath(Top.chain, Top.ad)
    BY <2>1, AllIs
  <2>4. GatheredOk(Top, Top.ad)
    <3>1. L \in Nat /\ L \in DOMAIN stack /\ stack[L] = Top
      BY <2>1, SomeFrame DEF Top
    <3>2. GatheredOk(Top, IF L < L THEN Top.ad - 1 ELSE Top.ad)
      BY <3>1 DEF GatheredInv
    <3>3. ~(L < L)
      BY <3>1
    <3> QED BY <3>2, <3>3
  <2>5. Gathered(result.creatives, All)
    BY <2>2, <2>3, <2>4 DEF GatheredOk
  <2> HIDE DEF result
  <2>6. GatheredInv'
    BY <1>1, <2>1, <2>2, <2>5, GatheredAfterPop
  <2> QED BY <1>1, <2>1, <2>6, PathsAfterPop, AnsweredAfterPop
<1>10. CASE UNCHANGED vars
  <2>1. /\ document' = document /\ stack' = stack /\ outcome' = outcome /\ answered' = answered
    BY <1>10 DEF vars
  <2>2. PathInv'
    BY <2>1, PathStays DEF PathInv
  <2>3. AnsweredInv'
    BY <2>1, AnsweredOkStays DEF AnsweredInv
  <2>4. GatheredInv'
    BY <2>1, GatheredNow DEF GatheredInv
  <2> QED BY <2>2, <2>3, <2>4
<1> QED BY <1>3, <1>4, <1>5, <1>6, <1>7, <1>8, <1>9, <1>10 DEF Next

(* What was found is a chain of the documents.                              *)
LEMMA FoundChainOk ==
  ASSUME TypeInv, PathInv, NEW p \in Found
  PROVE  ChainOk(p)
<1>1. PICK a \in answered, i \in Nat \ {0}, n \in Nat \ {0} :
        /\ i \in DOMAIN AdsOf(a[2])
        /\ AdsOf(a[2])[i].kind = "inline"
        /\ n \in DOMAIN AdsOf(a[2])[i].body.creatives
        /\ a[1] \in Seq(Places) /\ Len(a[1]) \in Nat /\ Len(p) = Len(a[1]) + 1
        /\ p[Len(a[1]) + 1] = <<a[2], i, n>>
        /\ \A j \in 1 .. Len(a[1]) : p[j] = a[1][j]
        /\ Path(a[1], a[2]) /\ Len(a[1]) <= MaxWrapperDepth
  <2> HIDE DEF Found
  <2> QED BY FoundBy
<1> DEFINE c == a[1]
           m == Len(c)
<1>2. /\ (IF m = 0 THEN a[2] ELSE c[1][1]) = Root
      /\ \A j \in 1 .. m :
           /\ AdsOf(c[j][1])[c[j][2]].kind = "wrapper"
           /\ AdsOf(c[j][1])[c[j][2]].body.ad_tag_uri = (IF j = m THEN a[2] ELSE c[j + 1][1])
  BY <1>1 DEF Path
<1>3. /\ m \in Nat /\ Len(p) = m + 1 /\ p[m + 1] = <<a[2], i, n>> /\ m <= MaxWrapperDepth
      /\ \A j \in 1 .. m : p[j] = c[j]
  BY <1>1
<1> HIDE DEF c, m
<1>4. p[m + 1][1] = a[2]
  BY <1>3
<1>5. p[1][1] = Root
  <2>1. CASE m = 0
    BY <1>2, <1>3, <1>4, <2>1
  <2>2. CASE m # 0
    <3>1. 1 \in 1 .. m
      BY <1>3, <2>2
    <3> QED BY <1>2, <1>3, <2>2, <3>1
  <2> QED BY <2>1, <2>2
<1>6. Len(p) <= MaxWrapperDepth + 1
  BY <1>3, SizesAssumption
<1>7. ASSUME NEW j \in 1 .. Len(p) - 1
      PROVE  /\ AdsOf(p[j][1])[p[j][2]].kind = "wrapper"
             /\ AdsOf(p[j][1])[p[j][2]].body.ad_tag_uri = p[j + 1][1]
  <2>1. j \in 1 .. m /\ p[j] = c[j]
    BY <1>3
  <2>2. (IF j = m THEN a[2] ELSE c[j + 1][1]) = p[j + 1][1]
    <3>1. CASE j = m
      BY <1>4, <3>1
    <3>2. CASE j # m
      <4>1. j + 1 \in 1 .. m
        BY <1>3, <2>1, <3>2
      <4> QED BY <1>3, <3>2, <4>1
    <3> QED BY <3>1, <3>2
  <2> QED BY <1>2, <2>1, <2>2
<1> QED BY <1>5, <1>6, <1>7 DEF ChainOk

(* Whatever the ad servers answer, however wrappers nest, repeat or loop    *)
(* and whichever of them fail, fetch_vast returns each playable creative of *)
(* each document that arrived, once for each chain of wrappers that led to  *)
(* it, with the tracking of the whole chain and a best media file, in the   *)
(* order of the documents, and nothing else.                                *)
THEOREM NothingIsLost == Spec => []NothingLost
<1> DEFINE IInv == TypeInv /\ FrameInv /\ PathInv /\ AnsweredInv /\ GatheredInv
<1>1. Init => IInv
  BY InitTypes, InitGathered
<1>2. IInv /\ [Next]_vars => IInv'
  BY StepTypes, StepGathered
<1>3. IInv => NothingLost
  <2> SUFFICES ASSUME IInv, Returned PROVE
        /\ {c.chain : c \in Range(outcome.creatives)} = Found
        /\ InOrder(outcome.creatives)
        /\ \A c \in Range(outcome.creatives) :
             /\ ChainOk(c.chain)
             /\ \E file \in Best(FilesOf(CreativeAt(Last(c.chain)))) : c.url = file.url
    BY DEF NothingLost
  <2>1. Gathered(outcome.creatives, Found)
    BY DEF Returned, Running, GatheredInv
  <2>2. ASSUME NEW c \in Range(outcome.creatives) PROVE ChainOk(c.chain)
    <3> HIDE DEF Found
    <3>1. c.chain \in Found
      BY <2>1, <2>2 DEF Gathered
    <3> QED BY <3>1, FoundChainOk
  <2> QED BY <2>1, <2>2 DEF Gathered, Resolved
<1> QED BY <1>1, <1>2, <1>3, PTL DEF Spec
=============================================================================
