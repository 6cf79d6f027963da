------------------------------- MODULE VastMedia -------------------------------
(* The media files of a creative, and the choice among them.                *)
EXTENDS Integers, Sequences

(* An option is a sequence of at most one element, and a text the sequence  *)
(* of its parts between colons.                                             *)
Nothing == << >>

(* select_best_media_file: the first HLS file, or else the progressive MP4  *)
(* of the highest bitrate, the first of several; no bitrate (-1) is lowest. *)
BestMediaFile(files) ==
  LET hls == {i \in DOMAIN files : files[i].attr.type = "hls"}
      mp4 == {i \in DOMAIN files : files[i].attr.type = "mp4"
                                   /\ files[i].attr.delivery = "progressive"}
  IN  IF hls # {} THEN <<files[CHOOSE i \in hls : \A j \in hls : i <= j]>>
      ELSE IF mp4 # {}
           THEN <<files[CHOOSE i \in mp4 :
                    \A j \in mp4 : \/ files[i].attr.bitrate > files[j].attr.bitrate
                                   \/ /\ files[i].attr.bitrate = files[j].attr.bitrate
                                      /\ i <= j]>>
           ELSE << >>

(* A creative has an ad to play if it is linear and a file can be chosen.   *)
IsPlayable(creative) ==
  creative.linear # Nothing
  /\ BestMediaFile(creative.linear[1].media_files) # Nothing
=============================================================================
