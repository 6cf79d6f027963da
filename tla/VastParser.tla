------------------------------ MODULE VastParser ------------------------------
(***************************************************************************)
(* parse_vast (src/ad/vast/parser.rs): one function per element, each a    *)
(* loop over the events of an XML reader that the functions share.  A      *)
(* function reads on to its own end tag or to the end of the input, hands  *)
(* the elements it knows to other functions, and passes over everything    *)
(* else, tags it does not know included: what is inside those is read as   *)
(* if it stood outside.                                                    *)
(*                                                                         *)
(* The calls in progress are a stack, and a function is the table of its   *)
(* match arms.  Attributes that are only copied (ids, vendor, size, codec) *)
(* are left out.                                                           *)
(***************************************************************************)
EXTENDS VastMedia, SequencesExt

(* Events of the reader.  An empty element (<X/>) is one event of its own;  *)
(* "error" stands for every way the reader can fail.                        *)
Start(tag, attr) == [ev |-> "start", tag |-> tag, data |-> attr]
End(tag)         == [ev |-> "end", tag |-> tag, data |-> Nothing]
Text(t)          == [ev |-> "text", tag |-> "", data |-> t]
Empty(tag)       == [ev |-> "empty", tag |-> tag, data |-> Nothing]
Error            == [ev |-> "error", tag |-> "", data |-> Nothing]

-----------------------------------------------------------------------------
(* A match arm: the function called for the element, and where and how its  *)
(* result is kept: "set" overwrites, "push" appends, "extend" appends an    *)
(* option, and the nonempty forms pass over an empty text.                  *)
Arm(fn, field, how) == [fn |-> fn, field |-> field, how |-> how]

VastArms == [Ad |-> Arm("ad", "ads", "extend")]

AdArms ==
  [InLine  |-> Arm("inline", "ad", "return"),
   Wrapper |-> Arm("wrapper", "ad", "return")]

(* Mutant: empty impressions are kept.                                      *)
InLineArmsKeepEmpty ==
  [AdSystem        |-> Arm("text", "ad_system", "set"),
   AdTitle         |-> Arm("text", "ad_title", "set"),
   Impression      |-> Arm("text", "impression_urls", "push"),
   Error           |-> Arm("text", "error_url", "set some"),
   Creatives       |-> Arm("creatives", "creatives", "set"),
   AdVerifications |-> Arm("verifications", "verifications", "set")]

InLineArms ==
  [AdSystem        |-> Arm("text", "ad_system", "set"),
   AdTitle         |-> Arm("text", "ad_title", "set"),
   Impression      |-> Arm("text", "impression_urls", "push nonempty"),
   Error           |-> Arm("text", "error_url", "set some"),
   Creatives       |-> Arm("creatives", "creatives", "set"),
   AdVerifications |-> Arm("verifications", "verifications", "set")]

WrapperArms ==
  [VASTAdTagURI    |-> Arm("text", "ad_tag_uri", "set"),
   Impression      |-> Arm("text", "impression_urls", "push nonempty"),
   TrackingEvents  |-> Arm("tracking_events", "tracking_events", "set"),
   AdVerifications |-> Arm("verifications", "verifications", "set")]

CreativesArms == [Creative |-> Arm("creative", "items", "push")]

CreativeArms == [Linear |-> Arm("linear", "linear", "set some")]

LinearArms ==
  [Duration       |-> Arm("text", "duration", "duration"),
   MediaFiles     |-> Arm("media_files", "media_files", "set"),
   TrackingEvents |-> Arm("tracking_events", "tracking_events", "set")]

MediaFilesArms == [MediaFile |-> Arm("text", "items", "push with attributes")]

TrackingEventsArms == [Tracking |-> Arm("text", "items", "push with attributes")]

(* The same again, in the parser of its own that verifications have.         *)
VerificationTrackingEventsArms ==
  [Tracking |-> Arm("text", "items", "push with attributes")]

VerificationsArms == [Verification |-> Arm("verification", "items", "push")]

VerificationArms ==
  [JavaScriptResource     |-> Arm("text", "javascript_resource_url", "set nonempty"),
   VerificationParameters |-> Arm("text", "parameters", "set nonempty"),
   TrackingEvents         |-> Arm("verification_tracking_events", "tracking_events", "set")]

(* Inside a text no element is known.                                       *)
ArmsOf ==
  [vast |-> VastArms, ad |-> AdArms, inline |-> InLineArms,
   wrapper |-> WrapperArms, creatives |-> CreativesArms,
   creative |-> CreativeArms, linear |-> LinearArms,
   media_files |-> MediaFilesArms, tracking_events |-> TrackingEventsArms,
   verifications |-> VerificationsArms, verification |-> VerificationArms,
   verification_tracking_events |-> VerificationTrackingEventsArms, text |-> << >>]

(* The local variables a function starts with.                              *)
List == [items |-> << >>]

Locals ==
  [vast |-> [ads |-> << >>],
   ad |-> [ad |-> Nothing],
   inline |-> [ad_system |-> << >>, ad_title |-> << >>, creatives |-> << >>,
               impression_urls |-> << >>, error_url |-> Nothing,
               verifications |-> << >>],
   wrapper |-> [ad_tag_uri |-> << >>, impression_urls |-> << >>,
                tracking_events |-> << >>, verifications |-> << >>],
   creatives |-> List, media_files |-> List, tracking_events |-> List,
   verifications |-> List, verification_tracking_events |-> List,
   creative |-> [linear |-> Nothing],
   linear |-> [duration |-> 0, media_files |-> << >>, tracking_events |-> << >>],
   verification |-> [javascript_resource_url |-> Nothing, parameters |-> Nothing,
                     tracking_events |-> << >>],
   text |-> [text |-> << >>]]

Call(arm, e) ==
  [fn |-> arm.fn, arm |-> arm, tag |-> e.tag, attr |-> e.data, locals |-> Locals[arm.fn]]

(* What a function returns.                                                 *)
Result(call) ==
  CASE call.fn = "text" -> call.locals.text
    [] call.fn = "ad" -> call.locals.ad
    [] DOMAIN call.locals = {"items"} -> call.locals.items
    [] OTHER -> call.locals

(* "HH:MM:SS"; every other number of parts is 0.                            *)
parse_duration(parts) ==
  IF Len(parts) = 3 THEN parts[1] * 3600 + parts[2] * 60 + parts[3] ELSE 0

Kept(old, call) ==
  LET new == Result(call)
      how == call.arm.how
  IN  CASE how = "push" -> Append(old, new)
        [] how = "push with attributes" -> Append(old, [attr |-> call.attr, url |-> new])
        [] how = "push nonempty" -> IF new = << >> THEN old ELSE Append(old, new)
        [] how = "set nonempty" -> IF new = << >> THEN old ELSE new
        [] how = "set some" -> <<new>>
        [] how = "extend" -> old \o new
        [] how = "duration" -> parse_duration(new)
        [] how = "return" -> <<[kind |-> call.fn, body |-> new]>>
        [] OTHER -> new

-----------------------------------------------------------------------------
(* The innermost function returns to the one that called it.                *)
Pop(calls) ==
  LET call == Last(calls)
      n    == Len(calls) - 1
  IN  [SubSeq(calls, 1, n) EXCEPT ![n].locals[call.arm.field] = Kept(@, call)]

(* parse_ad returns with the InLine or Wrapper it found.                    *)
Leave(calls) ==
  IF Last(calls).arm.how = "return" THEN Pop(Pop(calls)) ELSE Pop(calls)

(* One event, read by the innermost function.                               *)
Read(reader, e) ==
  LET calls == reader.calls
      call  == Last(calls)
  IN  CASE e.ev = "error" -> [reader EXCEPT !.ok = FALSE]
        [] e.ev = "start" /\ e.tag \in DOMAIN ArmsOf[call.fn] ->
             [reader EXCEPT !.calls = Append(calls, Call(ArmsOf[call.fn][e.tag], e))]
        [] e.ev = "text" /\ call.fn = "text" ->
             [reader EXCEPT !.calls[Len(calls)].locals.text = @ \o e.data]
        [] e.ev = "end" /\ Len(calls) > 1 /\ e.tag = call.tag ->
             [reader EXCEPT !.calls = Leave(calls)]
        [] OTHER -> reader

(* All events in turn, halved to keep the recursion flat; an error ends it. *)
RECURSIVE ReadAll(_, _)
ReadAll(reader, events) ==
  IF ~reader.ok \/ events = << >> THEN reader
  ELSE IF Len(events) = 1 THEN Read(reader, events[1])
  ELSE LET half == Len(events) \div 2
       IN  ReadAll(ReadAll(reader, SubSeq(events, 1, half)),
                   SubSeq(events, half + 1, Len(events)))

(* At the end of the input every function returns what it has.              *)
RECURSIVE AtEof(_)
AtEof(calls) == IF Len(calls) = 1 THEN calls ELSE AtEof(Pop(calls))

parse_vast(events) ==
  LET root   == Call(Arm("vast", "", ""), Start("", Nothing))
      reader == ReadAll([ok |-> TRUE, calls |-> <<root>>], events)
  IN  [ok  |-> reader.ok,
       ads |-> IF reader.ok THEN AtEof(reader.calls)[1].locals.ads ELSE << >>]

=============================================================================
