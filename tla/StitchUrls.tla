----------------------------- MODULE StitchUrls -----------------------------
(* The urls of an origin and of the stitcher.  A url is the sequence of its *)
(* parts, the host first; a file, a directory and a host are tuples.  A     *)
(* query is a single parameter.                                             *)
EXTENDS Integers, Sequences, SequencesExt

OriginBase   == << <<"origin">>, <<"live">> >>   \* the playlist's directory
ConfigOrigin == << <<"default">> >>              \* ORIGIN_URL
Root == <<"">>
Up   == <<"..">>

(* How the origin's text names a file.                                      *)
Ref(layout, file) ==
  [absolute |-> layout \in {"absolute", "stitched"},
   parts    |-> CASE layout = "absolute" -> << <<"cdn">>, <<"dir">>, file>>
                  [] layout = "stitched" -> << <<"other">>, <<"stitch">>, file>>
                  [] layout = "rooted"   -> <<Root, file>>
                  [] layout = "up"       -> <<Up, file>>
                  [] OTHER               -> << <<"dir">>, file>>,
   query    |-> layout = "queried"]

Resource(parts, query) == [parts |-> parts, query |-> query]
Rejected == Resource(<< >>, FALSE)

(* Where it leads, read in the directory base (RFC 3986).                   *)
Resolved(base, ref) ==
  CASE ref.absolute           -> ref.parts
    [] Head(ref.parts) = Root -> <<Head(base)>> \o Tail(ref.parts)
    [] Head(ref.parts) = Up   -> Front(base) \o Tail(ref.parts)
    [] OTHER                  -> base \o ref.parts

Target(base, ref) == Resource(Resolved(base, ref), ref.query)

NoUri == [to |-> "none"]

(* serve_segment: the query of the file comes first in the uri and hides    *)
(* the origin; ".." is refused.                                             *)
serve_segment(uri) ==
  IF Up \in ToSet(uri.path) THEN Rejected
  ELSE Resource((IF uri.query THEN ConfigOrigin ELSE uri.origin) \o uri.path, FALSE)
=============================================================================
