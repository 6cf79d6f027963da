---------------------------- MODULE MCDashStitch ----------------------------
(* An instance of DashStitch, and DashManifest around it, for TLC.          *)
EXTENDS DashManifest

Scte(events) == [scheme |-> "scte", events |-> events, refs |-> << >>]
Other        == [scheme |-> "other", events |-> <<"break">>, refs |-> << >>]

(* No stream, one break, two in one stream, two in two streams, an event    *)
(* that is no break, a stream of another scheme.                            *)
SmallStreamLists ==
  {<< >>,
   <<Scte(<<"break">>)>>,
   <<Scte(<<"invalid", "break", "break">>)>>,
   <<Scte(<<"break">>), Other, Scte(<<"break">>)>>,
   <<Other, Scte(<<"invalid">>)>>}

SmallTrackLists == {<< >>, <<"video", "audio">>}

SomeParts ==
  {Root, Query}
    \cup {<<name>> : name \in {"origin", "live", "cdn", "dir", "mpd", "period", "first",
                               "second", "set", "rep", "media"}}

Template(set, rep, at, layout) ==
  [set |-> set, rep |-> rep, at |-> at, media |-> Ref(layout, <<"media">>)]

(* A BaseURL, with a '/' at its end and without.                            *)
NoBase == << >>
Open(layout, name) == <<Ref(layout, <<name>>)>>
Base(layout, name) == <<[Ref(layout, <<name>>) EXCEPT !.parts = Append(@, Root)]>>
TwoBases == Base("relative", "first") \o Base("absolute", "second")

(* Both places of the template, and a query below it.                       *)
Tracks(set, rep) ==
  <<Template(set, rep, "rep", "relative"), Template(set, rep, "set", "relative"),
    Template(set, Base("queried", "rep"), "rep", "relative"),
    Template(set, NoBase, "set", "relative")>>

(* Other kinds of media, and no template.                                   *)
OtherTracks ==
  <<Template(NoBase, NoBase, "rep", "absolute"), Template(NoBase, NoBase, "set", "queried"),
    Template(NoBase, NoBase, "rep", "rooted"), Template(NoBase, NoBase, "none", "relative")>>

(* Each kind of BaseURL above and below each other.                         *)
SomeAddressings ==
  {[mpd |-> m, periods |-> <<p, NoBase, TwoBases>>, tracks |-> Tracks(s, r)] :
     m \in {NoBase, Base("relative", "mpd"), Base("rooted", "mpd")},
     p \in {NoBase, Base("absolute", "period")},
     s \in {NoBase, Base("relative", "set"), Open("relative", "set")},
     r \in {NoBase, Base("absolute", "rep")}}
  \cup {[mpd |-> m, periods |-> <<NoBase>>, tracks |-> OtherTracks] :
          m \in {NoBase, Base("relative", "mpd")}}
=============================================================================
