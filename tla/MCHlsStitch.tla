---------------------------- MODULE MCHlsStitch -----------------------------
(* An instance of LiveHls, and HlsPlaylist and HlsStitch in it, for TLC.    *)
EXTENDS LiveHls

(* One cue, alone or among tags that are none, both orders of two cues, a   *)
(* break that ends in its first segment before another starts there, none.  *)
OnlyIn == <<"cont", "in", "other">>

SmallTagLists ==
  {<< >>, <<"out">>, OnlyIn, <<"in", "out">>, <<"out", "in">>,
   <<"out", "in", "other", "out">>}

EveryOther == {{0, 2}}

Media(track, layout, header, tail, length, provider) ==
  [track |-> track, layout |-> layout, header |-> header, tail |-> tail,
   length |-> length, provider |-> provider]

Twice == <<"SERVER-CONTROL", "SKIP", "PART-INF", "SERVER-CONTROL">>
Edge  == <<"PART", "PRELOAD-HINT", "RENDITION-REPORT", "PRELOAD-HINT">>
Master == <<"VARIANT", "AUDIO", "VARIANT", "SUBTITLES", "IN-STREAM", "VIDEO">>

Layouts == {"relative", "absolute", "stitched", "rooted", "queried", "up"}

(* Each layout once, low-latency or not, and every kind of master.          *)
SomeDeliveries ==
  {Media("video", "relative", Twice, Edge, 25, "demo"),
   Media("audio", "absolute", << >>, Edge, 600, "static"),
   Media("video", "stitched", <<"PART-INF">>, << >>, 601, "demo"),
   Media("subtitles", "queried", <<"SKIP">>, <<"PRELOAD-HINT">>, 10, "static")}
  \cup {Media("subtitles", layout, Twice, Edge, 10, "demo") : layout \in Layouts}
  \cup {Media("master", layout, << >>, Master, 10, "demo") : layout \in Layouts}

Cues == {<< >>, <<"out">>, OnlyIn}

(* Ads only where a break starts, and as many as it has segments.           *)
Pods(t) ==
  LET In(s)  == {e \in s + 1 .. 5 : t[e] = OnlyIn}
      End(s) == IF In(s) = {} THEN 6 ELSE CHOOSE e \in In(s) : \A f \in In(s) : e <= f
  IN  {p \in [1 .. 5 -> 0 .. 2] :
         \A s \in 1 .. 5 : p[s] > 0 => t[s] = <<"out">> /\ p[s] = End(s) - s}

NoPods == [s \in 1 .. 5 |-> 0]

(* Any stream of five segments with a cue or none each; breaks of up to two *)
(* ads, or a date in the second segment, in the fourth too, or in none.      *)
AllStreams ==
  LET SomeTags == [1 .. 5 -> Cues] IN
  (UNION {{[mode |-> "ssai", tags |-> t, pods |-> p, dated |-> {}] : p \in Pods(t)} : t \in SomeTags})
  \cup {[mode |-> "sgai", tags |-> t, pods |-> NoPods, dated |-> d] :
          t \in SomeTags, d \in {{}, {1}, {1, 3}}}
=============================================================================
