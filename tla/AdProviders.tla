----------------------------- MODULE AdProviders ----------------------------
(* The providers that keep no state (src/src/ad/provider.rs): how many      *)
(* segments fill a break, and which file the name of an ad segment stands   *)
(* for.  A name is split at its dashes: break-B-kind-S.ext.                 *)
EXTENDS Integers, Sequences

SegmentCount == 10   \* files of a source, used again and again
NumCreatives == 5    \* sources of the demo provider, likewise

Name(brk, kind, seg, ext) == [brk |-> brk, kind |-> kind, seg |-> seg, ext |-> ext]

NotFound == [source |-> "none", file |-> 0]

(* ceil of the quotient, at least 1; times are in seconds.                  *)
NumSegments(duration, length) ==
  IF duration <= length THEN 1 ELSE (duration + length - 1) \div length

IsHlsName(name) == name.kind = "seg" /\ name.ext = "ts"

StaticUrl(name) ==
  IF IsHlsName(name) THEN [source |-> "static", file |-> name.seg % SegmentCount] ELSE NotFound

Creatives == <<"creative-1", "creative-2", "creative-3", "creative-4", "creative-5">>

DemoUrl(name) ==
  IF IsHlsName(name)
  THEN [source |-> Creatives[(name.brk % NumCreatives) + 1], file |-> name.seg % SegmentCount]
  ELSE NotFound

resolve_segment_url(provider, name) ==
  CASE provider = "static" -> StaticUrl(name)
    [] provider = "demo"   -> DemoUrl(name)

(* get_ad_segments, and get_ad_creatives for want of one of their own.      *)
get_ad_creatives(duration, length) ==
  [i \in 1 .. NumSegments(duration, length) |-> [file |-> i - 1, duration |-> length]]
=============================================================================
