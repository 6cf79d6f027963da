---------------------------- MODULE ServerProofs ----------------------------
(* Proofs about Server for any environments, callers, ids, time to live and *)
(* number of launches: types, what the start of a process may fail over,    *)
(* that the sessions in memory implement SessionStore, and that Valkey      *)
(* loses a live session to the two races only.                              *)
EXTENDS Server, FiniteSetTheorems, TLAPS

LEMMA InitInv == Init => Inv
<1> SUFFICES ASSUME Init PROVE Inv
  OBVIOUS
<1> USE BoundsAssumption, LaunchesAssumption
<1>1. 0 \in Sessions /\ 0 \in Times
  BY DEF Sessions, Times
<1>2. SessionsOK
  <2>1. memory \in [Ids -> [session : Sessions, last : Times]]
    BY <1>1 DEF Init, NoMemory, NoEntry, None
  <2>2. valkey \in [Ids -> [session : Sessions, until : Nat]]
    BY <1>1 DEF Init, NoKey, None
  <2>3. calls \in [Callers -> Calls]
    BY DEF Init, NoCalls, Calls
  <2>4. cleaning \in [left : SUBSET Ids, now : Times]
    BY <1>1 DEF Init, NoCleaning
  <2> QED BY <1>1, <2>1, <2>2, <2>3, <2>4 DEF SessionsOK, Init
<1>3. TypeOK
  <2>1. config \in Configs
    BY DEF Init, NoConfig, Configs
  <2>2. launches \in 0 .. MaxLaunches
    BY DEF Init
  <2>3. requests \in [Requests -> {"none", "counting", "working", "answered"}]
    BY DEF Init, NoRequests
  <2> QED BY <1>2, <2>1, <2>2, <2>3 DEF TypeOK, Init
<1>4. Makers = {}
  BY DEF Makers, Init, NoCalls, Idle
<1>5. MakersFit
  BY <1>4, FS_EmptySet DEF MakersFit, Init
<1>6. ProcessInv
  BY DEF ProcessInv, Init, NoCleaning
<1> QED BY <1>3, <1>5, <1>6 DEF Inv, Init, NoCalls

-----------------------------------------------------------------------------
(* The makers are finitely many, so each of them has a number left.         *)
LEMMA MakersFinite == IsFiniteSet(Makers) /\ Cardinality(Makers) \in Nat
<1>1. Makers \subseteq Callers
  BY DEF Makers
<1> QED BY <1>1, CallersAssumption, FS_Subset, FS_CardinalityType

LEMMA RoomToMake ==
  ASSUME TypeOK, MakersFit, NEW c \in Makers
  PROVE  made + 1 \in Sessions
<1>1. Cardinality(Makers) # 0
  BY MakersFinite, FS_EmptySet
<1> QED BY <1>1, MakersFinite, BoundsAssumption DEF MakersFit, TypeOK, SessionsOK, Sessions

(* Callers give up, or are answered from what there is.                     *)
LEMMA MakersLeave ==
  ASSUME TypeOK, MakersFit, Makers' \subseteq Makers, made' = made
  PROVE  MakersFit'
<1>1. IsFiniteSet(Makers') /\ Cardinality(Makers') <= Cardinality(Makers)
  BY MakersFinite, FS_Subset
<1>2. Cardinality(Makers') \in Nat
  BY <1>1, FS_CardinalityType
<1> QED BY <1>1, <1>2, MakersFinite, BoundsAssumption
        DEF MakersFit, TypeOK, SessionsOK, Sessions

LEMMA MakerMakes ==
  ASSUME TypeOK, MakersFit, NEW c \in Makers, Makers' \subseteq Makers \ {c}, made' = made + 1
  PROVE  MakersFit'
<1>1. IsFiniteSet(Makers \ {c}) /\ Cardinality(Makers \ {c}) = Cardinality(Makers) - 1
  BY MakersFinite, FS_RemoveElement
<1>2. IsFiniteSet(Makers') /\ Cardinality(Makers') <= Cardinality(Makers \ {c})
  BY <1>1, FS_Subset
<1>3. Cardinality(Makers') \in Nat
  BY <1>2, FS_CardinalityType
<1> QED BY <1>1, <1>2, <1>3, MakersFinite, BoundsAssumption
        DEF MakersFit, TypeOK, SessionsOK, Sessions

LEMMA MakerJoins ==
  ASSUME TypeOK, NEW c, Makers' \subseteq Makers \cup {c}, made' = made,
         made + Cardinality(Makers) < MaxSessions
  PROVE  MakersFit'
<1>1. IsFiniteSet(Makers \cup {c}) /\ Cardinality(Makers \cup {c}) <= Cardinality(Makers) + 1
  <2>1. /\ IsFiniteSet(Makers \cup {c})
        /\ \/ Cardinality(Makers \cup {c}) = Cardinality(Makers)
           \/ Cardinality(Makers \cup {c}) = Cardinality(Makers) + 1
    BY MakersFinite, FS_AddElement
  <2> QED BY <2>1, MakersFinite
<1>2. IsFiniteSet(Makers') /\ Cardinality(Makers') <= Cardinality(Makers \cup {c})
  BY <1>1, FS_Subset
<1>3. Cardinality(Makers') \in Nat /\ Cardinality(Makers \cup {c}) \in Nat
  BY <1>1, <1>2, FS_CardinalityType
<1> QED BY <1>1, <1>2, <1>3, MakersFinite, BoundsAssumption
        DEF MakersFit, TypeOK, SessionsOK, Sessions

-----------------------------------------------------------------------------
(* What every step does to the keys: they are emptied, kept, or hold a      *)
(* session made just now.                                                   *)
KeysFollow ==
  \A id \in Ids :
    \/ valkey'[id].session \in {None, valkey[id].session}
    \/ valkey'[id].session > made

(* Then the callers that do nothing are as well off as before.              *)
LEMMA CallsFollow ==
  ASSUME Inv, TypeOK', KeysFollow, made <= made', backend' = backend,
         NEW c, \A d \in Callers \ {c} : calls'[d] = calls[d],
         c \in Callers /\ calls'[c] # Idle => CallInv(c)'
  PROVE  \A d \in Callers : calls'[d] # Idle => CallInv(d)'
<1> SUFFICES ASSUME NEW d \in Callers, calls'[d] # Idle PROVE CallInv(d)'
  OBVIOUS
<1>1. CASE d = c
  BY <1>1
<1>2. CASE d # c
  <2>1. calls'[d] = calls[d] /\ CallInv(d)
    BY <1>2 DEF Inv
  <2>2. calls[d].id \in Ids /\ calls[d].since \in Nat /\ made \in Nat /\ made' \in Nat
    BY <2>1, BoundsAssumption DEF Inv, TypeOK, SessionsOK, Calls, Sessions
  <2>3. valkey[calls[d].id].session \in Nat /\ valkey'[calls[d].id].session \in Nat
    BY <2>2, BoundsAssumption DEF Inv, TypeOK, SessionsOK, Sessions
  <2> QED BY <2>1, <2>2, <2>3 DEF CallInv, KeysFollow, None
<1> QED BY <1>1, <1>2

(* A step of one caller that is under way or takes up a call.               *)
LEMMA CallerInv ==
  ASSUME Inv, TypeOK', MakersFit', ProcessInv', KeysFollow, made <= made', backend' = backend,
         NEW c \in Callers, \A d \in Callers \ {c} : calls'[d] = calls[d],
         calls'[c] # Idle => CallInv(c)'
  PROVE  Inv'
<1>1. \A d \in Callers : calls'[d] # Idle => CallInv(d)'
  BY CallsFollow
<1> QED BY <1>1 DEF Inv

(* A step of no caller.                                                     *)
LEMMA QuietInv ==
  ASSUME Inv, TypeOK', ProcessInv', KeysFollow, UNCHANGED <<calls, made, backend>>
  PROVE  Inv'
<1>1. MakersFit'
  BY DEF Inv, MakersFit, Makers
<1>2. ASSUME NEW d \in Callers, calls'[d] # Idle PROVE CallInv(d)'
  <2>1. calls'[d] = calls[d] /\ CallInv(d)
    BY <1>2 DEF Inv
  <2>2. calls[d].id \in Ids /\ calls[d].since \in Nat /\ made \in Nat
    BY <1>2, <2>1, BoundsAssumption DEF Inv, TypeOK, SessionsOK, Calls, Sessions
  <2>3. valkey[calls[d].id].session \in Nat /\ valkey'[calls[d].id].session \in Nat
    BY <2>2, BoundsAssumption DEF Inv, TypeOK, SessionsOK, Sessions
  <2> QED BY <2>1, <2>2, <2>3 DEF CallInv, KeysFollow, None
<1> QED BY <1>1, <1>2 DEF Inv

-----------------------------------------------------------------------------
LEMMA CallTyped ==
  ASSUME TypeOK, NEW c \in Callers, calls[c].pc # "idle"
  PROVE  /\ calls[c] # Idle
         /\ calls[c] \in [op : Operations, id : Ids, pc : {"called", "set", "del", "done"},
                          got : Sessions, since : Sessions, answered : BOOLEAN]
<1>1. calls[c] # Idle
  BY DEF Idle
<1> QED BY <1>1 DEF TypeOK, SessionsOK, Calls

(* A caller whose call goes on, or ends: what is left of the invariant.     *)
LEMMA ChangedCall ==
  ASSUME Inv, NEW c \in Callers, calls[c].pc # "idle",
         NEW call \in [op : Operations, id : Ids, pc : {"called", "set", "del", "done"},
                       got : Sessions, since : Sessions, answered : BOOLEAN],
         calls' = [calls EXCEPT ![c] = call], call.op = calls[c].op,
         made' = made \/ (c \in Makers /\ call.pc = "done" /\ made' = made + 1),
         call.pc = "done" \/ c \in Makers \/ call.op # "get_or_create",
         memory' \in [Ids -> [session : Sessions, last : Times]],
         valkey' \in [Ids -> [session : Sessions, until : Nat]],
         backend = "valkey" => memory' = NoMemory,
         KeysFollow, CallInv(c)',
         UNCHANGED <<backend, ttl, cleaning, time, serverVars>>
  PROVE  Inv'
<1>1. calls' \in [Callers -> Calls] /\ calls'[c] = call /\ \A d \in Callers \ {c} : calls'[d] = calls[d]
  BY DEF Inv, TypeOK, SessionsOK, Calls
<1>2. made' \in Sessions /\ made \in Nat
  BY RoomToMake, BoundsAssumption DEF Inv, TypeOK, SessionsOK, Sessions
<1>3. TypeOK'
  BY <1>1, <1>2 DEF Inv, TypeOK, SessionsOK, serverVars
<1>4. MakersFit'
  <2>1. CASE made' = made
    <3>1. Makers' \subseteq Makers
      BY <1>1 DEF Makers
    <3> QED BY <2>1, <3>1, MakersLeave DEF Inv
  <2>2. CASE c \in Makers /\ call.pc = "done" /\ made' = made + 1
    <3>1. Makers' \subseteq Makers \ {c}
      BY <1>1, <2>2 DEF Makers
    <3> QED BY <2>2, <3>1, MakerMakes DEF Inv
  <2> QED BY <2>1, <2>2
<1>5. ProcessInv'
  <2>1. phase \notin {"off", "configured"}
    BY DEF Inv, ProcessInv, NoCalls, Idle
  <2> QED BY <2>1 DEF Inv, ProcessInv, serverVars
<1>6. made <= made'
  BY <1>2
<1> QED BY <1>1, <1>3, <1>4, <1>5, <1>6, CallerInv

LEMMA AnswerInv ==
  ASSUME Inv, NEW c \in Callers, calls[c].pc # "idle", NEW s \in Sessions, Answer(c, s),
         made' = made \/ (c \in Makers /\ made' = made + 1),
         memory' \in [Ids -> [session : Sessions, last : Times]],
         valkey' \in [Ids -> [session : Sessions, until : Nat]],
         backend = "valkey" => memory' = NoMemory,
         KeysFollow,
         UNCHANGED <<backend, ttl, cleaning, time, serverVars>>
  PROVE  Inv'
<1> DEFINE call == [calls[c] EXCEPT !.pc = "done", !.got = s]
<1>1. call \in [op : Operations, id : Ids, pc : {"called", "set", "del", "done"},
                got : Sessions, since : Sessions, answered : BOOLEAN]
  BY CallTyped DEF Inv
<1>2. call.pc = "done" /\ call.op = calls[c].op /\ call.since = calls[c].since
  BY CallTyped DEF Inv
<1>3. calls' = [calls EXCEPT ![c] = call] /\ calls'[c] = call
  BY DEF Answer, Inv, TypeOK, SessionsOK
<1>4. CallInv(c)'
  <2>1. calls[c].since <= made /\ made \in Nat /\ calls[c].since \in Nat
    BY CallTyped, BoundsAssumption DEF Inv, CallInv, TypeOK, SessionsOK, Sessions
  <2>2. call.since <= made'
    BY <1>2, <2>1
  <2> QED BY <1>2, <1>3, <2>2 DEF CallInv
<1> HIDE DEF call
<1> QED BY <1>1, <1>2, <1>3, <1>4, ChangedCall

-----------------------------------------------------------------------------
(* The steps of a caller, one by one.                                       *)
LEMMA Typed ==
  ASSUME TypeOK
  PROVE  /\ memory \in [Ids -> [session : Sessions, last : Times]]
         /\ valkey \in [Ids -> [session : Sessions, until : Nat]]
         /\ time \in Times /\ time \in Nat /\ ttl \in Nat
         /\ made \in Sessions /\ made \in Nat /\ None \in Sessions /\ 0 \in Times
BY BoundsAssumption DEF TypeOK, SessionsOK, Sessions, Times, None

LEMMA MemoryGetOrCreateInv ==
  ASSUME Inv, NEW c \in Callers, MemoryGetOrCreate(c), UNCHANGED serverVars
  PROVE  Inv'
<1> DEFINE id == calls[c].id
<1>1. TypeOK /\ calls[c].pc = "called" /\ calls[c].op = "get_or_create" /\ backend = "memory"
  BY DEF Inv, MemoryGetOrCreate, Called
<1>2. id \in Ids /\ c \in Makers
  BY <1>1, CallTyped DEF Makers
<1>3. KeysFollow
  BY <1>1 DEF KeysFollow, MemoryGetOrCreate
<1>4. CASE memory[id] = NoEntry
  <2>1. /\ made' = made + 1
        /\ memory' = [memory EXCEPT ![id] = [session |-> made + 1, last |-> time]]
        /\ Answer(c, made + 1)
        /\ UNCHANGED <<backend, ttl, valkey, cleaning, time>>
    BY <1>4 DEF MemoryGetOrCreate
  <2>2. made + 1 \in Sessions
    BY <1>1, <1>2, RoomToMake DEF Inv
  <2>3. memory' \in [Ids -> [session : Sessions, last : Times]] /\ valkey' = valkey
    BY <1>1, <2>1, <2>2, Typed
  <2> QED BY <1>1, <1>2, <1>3, <2>1, <2>2, <2>3, AnswerInv, Typed
<1>5. CASE memory[id] # NoEntry
  <2>1. /\ made' = made /\ memory' = memory
        /\ Answer(c, memory[id].session)
        /\ UNCHANGED <<backend, ttl, valkey, cleaning, time>>
    BY <1>5 DEF MemoryGetOrCreate
  <2>2. memory[id].session \in Sessions
    BY <1>1, <1>2, Typed
  <2> QED BY <1>1, <1>3, <2>1, <2>2, AnswerInv, Typed
<1> QED BY <1>4, <1>5

LEMMA MemoryTouchInv ==
  ASSUME Inv, NEW c \in Callers, MemoryTouch(c), UNCHANGED serverVars
  PROVE  Inv'
<1>1. TypeOK /\ calls[c].pc = "called" /\ backend = "memory" /\ Answer(c, None)
  BY DEF Inv, MemoryTouch, Called
<1>2. calls[c].id \in Ids
  BY <1>1, CallTyped
<1>3. memory' \in [Ids -> [session : Sessions, last : Times]]
  BY <1>1, <1>2, Typed DEF MemoryTouch
<1>4. KeysFollow
  BY DEF KeysFollow, MemoryTouch
<1>5. valkey' = valkey /\ made' = made /\ UNCHANGED <<backend, ttl, cleaning, time>>
  BY DEF MemoryTouch
<1> QED BY <1>1, <1>3, <1>4, <1>5, Typed, AnswerInv

LEMMA MemoryGetInv ==
  ASSUME Inv, NEW c \in Callers, MemoryGet(c), UNCHANGED serverVars
  PROVE  Inv'
<1>1. TypeOK /\ calls[c].pc = "called" /\ backend = "memory"
  BY DEF Inv, MemoryGet, Called
<1>2. memory[calls[c].id].session \in Sessions
  BY <1>1, CallTyped, Typed
<1>3. KeysFollow
  BY DEF KeysFollow, MemoryGet
<1>4. UNCHANGED <<backend, ttl, memory, valkey, made, cleaning, time>> /\ Answer(c, memory[calls[c].id].session)
  BY DEF MemoryGet
<1> QED BY <1>1, <1>2, <1>3, <1>4, Typed, AnswerInv

LEMMA MemoryRemoveInv ==
  ASSUME Inv, NEW c \in Callers, MemoryRemove(c), UNCHANGED serverVars
  PROVE  Inv'
<1>1. TypeOK /\ calls[c].pc = "called" /\ backend = "memory"
  BY DEF Inv, MemoryRemove, Called
<1>2. calls[c].id \in Ids /\ memory[calls[c].id].session \in Sessions
  BY <1>1, CallTyped, Typed
<1>3. memory' \in [Ids -> [session : Sessions, last : Times]]
  BY <1>1, <1>2, Typed DEF MemoryRemove, NoEntry
<1>4. KeysFollow
  BY DEF KeysFollow, MemoryRemove
<1>5. UNCHANGED <<backend, ttl, valkey, made, cleaning, time>> /\ Answer(c, memory[calls[c].id].session)
  BY DEF MemoryRemove
<1> QED BY <1>1, <1>2, <1>3, <1>4, <1>5, Typed, AnswerInv

(* A caller that is answered and changes no entry and no key.               *)
LEMMA OnlyAnswers ==
  ASSUME Inv, NEW c \in Callers, calls[c].pc # "idle", NEW s \in Sessions, Answer(c, s),
         UNCHANGED <<backend, ttl, memory, valkey, made, cleaning, time, serverVars>>
  PROVE  Inv'
<1>1. KeysFollow
  BY DEF KeysFollow
<1>2. backend = "valkey" => memory = NoMemory
  BY DEF Inv, ProcessInv
<1> QED BY <1>1, <1>2, Typed, AnswerInv DEF Inv

(* One that has looked: it goes on to its second command.                   *)
LEMMA LooksInv ==
  ASSUME Inv, NEW c \in Callers, calls[c].pc = "called", backend = "valkey",
         NEW call \in [op : Operations, id : Ids, pc : {"set", "del"},
                       got : Sessions, since : Sessions, answered : BOOLEAN],
         calls' = [calls EXCEPT ![c] = call],
         call.op = calls[c].op, call.id = calls[c].id, call.since = made,
         call.pc = "set" => /\ calls[c].op = "get_or_create"
                            /\ call.answered => valkey[calls[c].id].session = None,
         call.pc = "del" => /\ calls[c].op = "remove"
                            /\ valkey[calls[c].id].session = call.got,
         UNCHANGED <<backend, ttl, memory, valkey, made, cleaning, time, serverVars>>
  PROVE  Inv'
<1>1. call \in [op : Operations, id : Ids, pc : {"called", "set", "del", "done"},
                got : Sessions, since : Sessions, answered : BOOLEAN]
  OBVIOUS
<1>2. c \in Makers \/ call.op # "get_or_create"
  BY DEF Makers
<1>3. calls'[c] = call
  BY DEF Inv, TypeOK, SessionsOK
<1>4. CallInv(c)'
  BY <1>3, Typed DEF CallInv, Inv
<1>5. KeysFollow
  BY DEF KeysFollow
<1>6. backend = "valkey" => memory = NoMemory
  BY DEF Inv, ProcessInv
<1>7. TypeOK
  BY DEF Inv
<1> QED BY <1>1, <1>2, <1>4, <1>5, <1>6, <1>7, Typed, ChangedCall

LEMMA ValkeyFindInv ==
  ASSUME Inv, NEW c \in Callers, ValkeyFind(c), UNCHANGED serverVars
  PROVE  Inv'
<1> DEFINE found == valkey[calls[c].id].session
<1>1. TypeOK /\ calls[c].pc = "called" /\ calls[c].op = "get_or_create" /\ backend = "valkey"
  BY DEF Inv, ValkeyFind, Called
<1>2. found \in Sessions
  BY <1>1, CallTyped, Typed
<1>3. UNCHANGED <<backend, ttl, memory, valkey, made, cleaning, time>>
  BY DEF ValkeyFind
<1>4. CASE Answer(c, found)
  BY <1>1, <1>2, <1>3, <1>4, OnlyAnswers
<1>5. ASSUME NEW answered \in BOOLEAN, answered => found = None,
             calls' = [calls EXCEPT ![c].pc = "set", ![c].since = made, ![c].answered = answered]
      PROVE  Inv'
  <2> DEFINE call == [calls[c] EXCEPT !.pc = "set", !.since = made, !.answered = answered]
  <2>1. call \in [op : Operations, id : Ids, pc : {"set", "del"},
                  got : Sessions, since : Sessions, answered : BOOLEAN]
    BY <1>1, CallTyped, Typed
  <2>2. /\ call.op = calls[c].op /\ call.id = calls[c].id /\ call.pc = "set"
        /\ call.since = made /\ call.answered = answered
    BY <1>1, CallTyped
  <2>3. calls' = [calls EXCEPT ![c] = call]
    BY <1>1, <1>5 DEF TypeOK, SessionsOK
  <2> HIDE DEF call
  <2> QED BY <1>1, <1>3, <1>5, <2>1, <2>2, <2>3, LooksInv
<1> QED BY <1>4, <1>5 DEF ValkeyFind

LEMMA ValkeyStoreInv ==
  ASSUME Inv, NEW c \in Callers, ValkeyStore(c), UNCHANGED serverVars
  PROVE  Inv'
<1>1. TypeOK /\ calls[c].pc = "set" /\ calls[c].pc # "idle"
  BY DEF Inv, ValkeyStore
<1>2. calls[c].id \in Ids /\ c \in Makers /\ backend = "valkey"
  BY <1>1, CallTyped DEF Makers, Inv, CallInv
<1>3. made + 1 \in Sessions
  BY <1>1, <1>2, RoomToMake DEF Inv
<1>4. valkey' \in [Ids -> [session : Sessions, until : Nat]]
  BY <1>1, <1>2, <1>3, Typed DEF ValkeyStore, Key
<1>5. KeysFollow
  <2>1. ASSUME NEW id \in Ids
        PROVE  valkey'[id].session = valkey[id].session \/ valkey'[id].session = made + 1
    BY <1>1, <1>2, Typed DEF ValkeyStore, Key
  <2> QED BY <1>1, <2>1, Typed DEF KeysFollow
<1>6. UNCHANGED <<backend, ttl, memory, cleaning, time>> /\ made' = made + 1 /\ Answer(c, made + 1)
  BY DEF ValkeyStore
<1>7. backend = "valkey" => memory = NoMemory
  BY DEF Inv, ProcessInv
<1> QED BY <1>1, <1>2, <1>3, <1>4, <1>5, <1>6, <1>7, Typed, AnswerInv

LEMMA ValkeyTouchInv ==
  ASSUME Inv, NEW c \in Callers, ValkeyTouch(c), UNCHANGED serverVars
  PROVE  Inv'
<1>1. TypeOK /\ calls[c].pc = "called" /\ Answer(c, None)
  BY DEF Inv, ValkeyTouch, Called
<1>2. calls[c].id \in Ids
  BY <1>1, CallTyped
<1>3. valkey' \in [Ids -> [session : Sessions, until : Nat]]
  BY <1>1, <1>2, Typed DEF ValkeyTouch, Key, NoKey, None
<1>4. KeysFollow
  BY <1>1, <1>2, Typed DEF KeysFollow, ValkeyTouch, Key, NoKey
<1>5. UNCHANGED <<backend, ttl, memory, made, cleaning, time>>
  BY DEF ValkeyTouch
<1>6. backend = "valkey" => memory = NoMemory
  BY DEF Inv, ProcessInv
<1> QED BY <1>1, <1>3, <1>4, <1>5, <1>6, Typed, AnswerInv

LEMMA ValkeyGetInv ==
  ASSUME Inv, NEW c \in Callers, ValkeyGet(c), UNCHANGED serverVars
  PROVE  Inv'
<1>1. TypeOK /\ calls[c].pc = "called"
  BY DEF Inv, ValkeyGet, Called
<1>2. valkey[calls[c].id].session \in Sessions /\ None \in Sessions
  BY <1>1, CallTyped, Typed
<1>3. UNCHANGED <<backend, ttl, memory, valkey, made, cleaning, time>>
  BY DEF ValkeyGet
<1>4. Answer(c, valkey[calls[c].id].session) \/ Answer(c, None)
  BY DEF ValkeyGet, Fails
<1> QED BY <1>1, <1>2, <1>3, <1>4, OnlyAnswers

LEMMA ValkeyRemoveFindsInv ==
  ASSUME Inv, NEW c \in Callers, ValkeyRemoveFinds(c), UNCHANGED serverVars
  PROVE  Inv'
<1> DEFINE found == valkey[calls[c].id].session
<1>1. TypeOK /\ calls[c].pc = "called" /\ calls[c].op = "remove" /\ backend = "valkey"
  BY DEF Inv, ValkeyRemoveFinds, Called
<1>2. found \in Sessions /\ None \in Sessions
  BY <1>1, CallTyped, Typed
<1>3. UNCHANGED <<backend, ttl, memory, valkey, made, cleaning, time>>
  BY DEF ValkeyRemoveFinds
<1>4. CASE Answer(c, None)
  BY <1>1, <1>2, <1>3, <1>4, OnlyAnswers
<1>5. CASE calls' = [calls EXCEPT ![c].pc = "del", ![c].got = found, ![c].since = made]
  <2> DEFINE call == [calls[c] EXCEPT !.pc = "del", !.got = found, !.since = made]
  <2>1. call \in [op : Operations, id : Ids, pc : {"set", "del"},
                  got : Sessions, since : Sessions, answered : BOOLEAN]
    BY <1>1, <1>2, CallTyped, Typed
  <2>2. /\ call.op = calls[c].op /\ call.id = calls[c].id /\ call.pc = "del"
        /\ call.since = made /\ call.got = found
    BY <1>1, CallTyped
  <2>3. calls' = [calls EXCEPT ![c] = call]
    BY <1>1, <1>5 DEF TypeOK, SessionsOK
  <2> HIDE DEF call
  <2> QED BY <1>1, <1>3, <2>1, <2>2, <2>3, LooksInv
<1> QED BY <1>4, <1>5 DEF ValkeyRemoveFinds, Fails

LEMMA ValkeyDeleteInv ==
  ASSUME Inv, NEW c \in Callers, ValkeyDelete(c), UNCHANGED serverVars
  PROVE  Inv'
<1>1. TypeOK /\ calls[c].pc = "del" /\ calls[c].pc # "idle"
  BY DEF Inv, ValkeyDelete
<1>2. calls[c].id \in Ids /\ calls[c].got \in Sessions
  BY <1>1, CallTyped
<1>3. valkey' \in [Ids -> [session : Sessions, until : Nat]]
  BY <1>1, <1>2, Typed DEF ValkeyDelete, NoKey
<1>4. KeysFollow
  BY <1>1, <1>2, Typed DEF KeysFollow, ValkeyDelete, NoKey
<1>5. UNCHANGED <<backend, ttl, memory, made, cleaning, time>> /\ Answer(c, calls[c].got)
  BY DEF ValkeyDelete
<1>6. backend = "valkey" => memory = NoMemory
  BY DEF Inv, ProcessInv
<1> QED BY <1>1, <1>2, <1>3, <1>4, <1>5, <1>6, Typed, AnswerInv

LEMMA ReturnInv ==
  ASSUME Inv, NEW c \in Callers, Return(c), UNCHANGED serverVars
  PROVE  Inv'
<1>1. UNCHANGED <<backend, ttl, memory, valkey, made, cleaning, time>>
  BY DEF Return
<1>2. calls'[c] = Idle /\ (\A d \in Callers \ {c} : calls'[d] = calls[d]) /\ calls' \in [Callers -> Calls]
  BY DEF Return, Inv, TypeOK, SessionsOK, Calls
<1>3. TypeOK'
  BY <1>1, <1>2 DEF Inv, TypeOK, SessionsOK, serverVars
<1>4. MakersFit'
  <2>1. Makers' \subseteq Makers
    BY <1>2 DEF Makers, Idle
  <2> QED BY <1>1, <2>1, MakersLeave DEF Inv
<1>5. ProcessInv'
  <2>1. calls[c].pc # "idle"
    BY DEF Return
  <2>2. phase \notin {"off", "configured"}
    BY <2>1 DEF Inv, ProcessInv, NoCalls, Idle
  <2> QED BY <1>1, <2>2 DEF Inv, ProcessInv, serverVars
<1>6. KeysFollow
  BY <1>1 DEF KeysFollow
<1>7. made <= made'
  BY <1>1, Typed DEF Inv
<1> QED BY <1>1, <1>2, <1>3, <1>4, <1>5, <1>6, <1>7, CallerInv

LEMMA CallStepInv ==
  ASSUME Inv, NEW c \in Callers, CallStep(c)
  PROVE  Inv'
BY MemoryGetOrCreateInv, MemoryTouchInv, MemoryGetInv, MemoryRemoveInv, ValkeyFindInv,
   ValkeyStoreInv, ValkeyTouchInv, ValkeyGetInv, ValkeyRemoveFindsInv, ValkeyDeleteInv,
   ReturnInv
DEF CallStep, StepOf

LEMMA CallBeginsInv ==
  ASSUME Inv, NEW c \in Callers, CallBegins(c)
  PROVE  Inv'
<1>1. PICK op \in Operations, id \in Ids : Call(c, op, id)
  BY DEF CallBegins
<1>2. UNCHANGED <<backend, ttl, memory, valkey, made, cleaning, time, serverVars>>
  BY <1>1 DEF Call, CallBegins
<1> DEFINE call == [op |-> op, id |-> id, pc |-> "called", got |-> None, since |-> 0, answered |-> TRUE]
<1>5. call.op = op /\ call.id = id /\ call.pc = "called" /\ call.since = 0
  OBVIOUS
<1>3. calls' = [calls EXCEPT ![c] = call]
  BY <1>1 DEF Call
<1>4. TypeOK
  BY DEF Inv
<1>13. call \in Calls
  BY <1>4, Typed DEF Calls, None
<1> HIDE DEF call
<1>6. calls'[c] = call /\ (\A d \in Callers \ {c} : calls'[d] = calls[d]) /\ calls' \in [Callers -> Calls]
  BY <1>3, <1>13 DEF Inv, TypeOK, SessionsOK
<1>7. TypeOK'
  BY <1>2, <1>6 DEF Inv, TypeOK, SessionsOK, serverVars
<1>8. MakersFit'
  <2>1. CASE op = "get_or_create"
    <3>1. Makers' \subseteq Makers \cup {c}
      BY <1>6 DEF Makers
    <3> QED BY <1>1, <1>2, <1>4, <2>1, <3>1, MakerJoins DEF Call
  <2>2. CASE op # "get_or_create"
    <3>1. Makers' \subseteq Makers
      BY <1>5, <1>6, <2>2 DEF Makers
    <3> QED BY <1>2, <3>1, MakersLeave DEF Inv
  <2> QED BY <2>1, <2>2
<1>9. ProcessInv'
  BY <1>2 DEF Inv, ProcessInv, serverVars, CallBegins
<1>10. KeysFollow
  BY <1>2 DEF KeysFollow
<1>11. made <= made'
  BY <1>2, <1>4, Typed
<1>12. CallInv(c)'
  BY <1>2, <1>4, <1>5, <1>6, Typed DEF CallInv
<1> QED BY <1>2, <1>6, <1>7, <1>8, <1>9, <1>10, <1>11, <1>12, CallerInv

-----------------------------------------------------------------------------
(* The steps of the process.                                                *)
LEMMA EndsInv ==
  ASSUME Inv, NEW why \in {"failed", "graceful", "killed"} \cup Lacks, Ends(why)
  PROVE  Inv'
<1>1. TypeOK
  BY DEF Inv
<1>2. memory' \in [Ids -> [session : Sessions, last : Times]]
  BY <1>1, Typed DEF Ends, NoMemory, NoEntry
<1>3. calls' \in [Callers -> Calls] /\ \A c \in Callers : calls'[c] = Idle
  BY DEF Ends, NoCalls, Calls
<1>4. cleaning' \in [left : SUBSET Ids, now : Times]
  BY <1>1, Typed DEF Ends, NoCleaning
<1>5. config' \in Configs
  BY DEF Ends, NoConfig, Configs
<1>9. requests' \in [Requests -> {"none", "counting", "working", "answered"}]
  BY DEF Ends, NoRequests
<1>6. TypeOK'
  BY <1>1, <1>2, <1>3, <1>4, <1>5, <1>9 DEF TypeOK, SessionsOK, Ends
<1>7. MakersFit'
  <2>1. Makers' \subseteq Makers
    BY <1>3 DEF Makers, Idle
  <2> QED BY <2>1, MakersLeave DEF Inv, Ends
<1>8. ProcessInv'
  BY <1>1, Typed DEF ProcessInv, Ends, NoCleaning
<1> QED BY <1>3, <1>6, <1>7, <1>8 DEF Inv

LEMMA KeysStay == ASSUME UNCHANGED valkey PROVE KeysFollow
BY DEF KeysFollow

LEMMA LaunchInv ==
  ASSUME Inv, NEW env \in Environments, Launch(env)
  PROVE  Inv'
<1>1. UNCHANGED <<sessionVars, tasks, requests>> /\ phase = "off"
  BY DEF Launch
<1>2. from_env(env) \in Configs /\ NoConfig \in Configs
  <2>1. Provider(env) \in {"vast", "static", "demo"} /\ Store(env) \in {"memory", "valkey"}
    BY DEF Provider, Store
  <2>2. /\ Ttl(env) \in {0, 1} /\ Limited(env) \in BOOLEAN /\ IsDev(env) \in BOOLEAN
        /\ env.feature \in BOOLEAN /\ env.dns \in BOOLEAN
    BY EnvironmentsAssumption DEF Ttl, Limited, IsDev
  <2>3. env.provider \in {e.provider : e \in Environments}
    OBVIOUS
  <2>4. (env.endpoint # Unset) \in BOOLEAN /\ (env.url # Unset) \in BOOLEAN
    OBVIOUS
  <2>5. from_env(env) \in Configs
    BY <2>1, <2>2, <2>3, <2>4, Zenon DEF from_env, Configs
  <2> QED BY <2>5 DEF NoConfig, Configs
<1>3. launches' \in 0 .. MaxLaunches
  BY LaunchesAssumption DEF Launch, Inv, TypeOK
<1>4. TypeOK'
  BY <1>1, <1>2, <1>3 DEF Inv, TypeOK, SessionsOK, sessionVars, Launch
<1>5. Provider(env) = "vast" => env.endpoint # Unset \/ env.provider = "vast"
  BY DEF Provider
<1>6. /\ phase' = "configured" => config' = from_env(env)
      /\ phase' # "off" => status' = "running"
  BY DEF Launch
<1>7. phase' = "configured" /\ config'.provider = "vast" => config'.endpoint \/ config'.asked = "vast"
  <2>1. /\ from_env(env).provider = Provider(env) /\ from_env(env).asked = env.provider
        /\ from_env(env).endpoint = (env.endpoint # Unset)
    BY Zenon DEF from_env
  <2> QED BY <1>5, <1>6, <2>1
<1>8. ProcessInv'
  BY <1>1, <1>6, <1>7 DEF Inv, ProcessInv, sessionVars
<1> QED BY <1>1, <1>4, <1>8, KeysStay, QuietInv DEF sessionVars

LEMMA BuildInv ==
  ASSUME Inv, Build
  PROVE  Inv'
<1>1. /\ UNCHANGED <<memory, valkey, calls, made, cleaning, time, status, launches, requests>>
      /\ memory = NoMemory /\ calls = NoCalls
  BY DEF Build, Inv, ProcessInv
<1>2. config' \in Configs /\ config.ttl \in Nat /\ config.store \in {"memory", "valkey"}
  BY DEF Build, NoConfig, Configs, Inv, TypeOK
<1>3. TypeOK'
  BY <1>1, <1>2 DEF Inv, TypeOK, SessionsOK, Build
<1>4. MakersFit'
  BY <1>1 DEF Inv, MakersFit, Makers
<1>5. ProcessInv'
  BY <1>1 DEF Inv, ProcessInv, Build
<1> QED BY <1>1, <1>3, <1>4, <1>5 DEF Inv, NoCalls

(* A step that leaves the sessions alone, once the process is built.        *)
LEMMA ServingInv ==
  ASSUME Inv, UNCHANGED <<sessionVars, config, status, launches>>,
         phase \notin {"off", "configured"}, phase' \in {"serving", "draining"}, tasks' \subseteq tasks,
         requests' \in [Requests -> {"none", "counting", "working", "answered"}]
  PROVE  Inv'
<1>1. TypeOK'
  BY DEF Inv, TypeOK, SessionsOK, sessionVars
<1>2. ProcessInv'
  BY DEF Inv, ProcessInv, sessionVars
<1> QED BY <1>1, <1>2, KeysStay, QuietInv DEF sessionVars

(* The steps of a request.                                                  *)
RequestStep(r) == Arrives(r) \/ Handled(r) \/ Counted(r) \/ Taken(r)

LEMMA RequestStepGoes ==
  ASSUME NEW r \in Requests, RequestStep(r)
  PROVE  \E to \in {"none", "counting", "working", "answered"} : Goes(r, to)
BY DEF RequestStep, Arrives, Handled, Counted, Taken

LEMMA RequestStepInv ==
  ASSUME Inv, NEW r \in Requests, RequestStep(r)
  PROVE  Inv'
<1>1. PICK to \in {"none", "counting", "working", "answered"} : Goes(r, to)
  BY RequestStepGoes
<1>2. phase \in {"serving", "draining"}
  <2>1. CASE Arrives(r)
    BY <2>1 DEF Arrives
  <2>2. CASE ~Arrives(r)
    <3>1. requests[r] # "none"
      BY <2>2 DEF RequestStep, Handled, Counted, Taken
    <3>2. requests # NoRequests
      BY <3>1 DEF NoRequests
    <3> QED BY <3>2 DEF Inv, ProcessInv, TypeOK
  <2> QED BY <2>1, <2>2
<1>3. requests' \in [Requests -> {"none", "counting", "working", "answered"}]
  BY <1>1 DEF Goes, Inv, TypeOK
<1> QED BY <1>1, <1>2, <1>3, ServingInv DEF Goes

LEMMA CleanupInv ==
  ASSUME Inv, Cleanup
  PROVE  Inv'
<1>1. UNCHANGED <<backend, ttl, valkey, calls, made, time, serverVars>> /\ TypeOK
  BY DEF Cleanup, CleanupBegins, CleanupVisits, Inv
<1>2. memory' \in [Ids -> [session : Sessions, last : Times]]
  BY <1>1, Typed DEF Cleanup, CleanupBegins, CleanupVisits, NoEntry
<1>3. cleaning' \in [left : SUBSET Ids, now : Times] /\ cleaning'.now <= time
  BY <1>1, Typed DEF Cleanup, CleanupBegins, CleanupVisits, NoCleaning, Inv, ProcessInv, TypeOK, SessionsOK
<1>4. TypeOK'
  BY <1>1, <1>2, <1>3 DEF TypeOK, SessionsOK, serverVars
<1>5. memory = NoMemory => memory' = NoMemory
  BY <1>1 DEF Cleanup, CleanupBegins, CleanupVisits, NoMemory, NoEntry
<1>6. phase \notin {"off", "configured"}
  BY DEF Cleanup, Inv, ProcessInv
<1>7. ProcessInv'
  BY <1>1, <1>3, <1>5, <1>6 DEF Inv, ProcessInv, serverVars
<1> QED BY <1>1, <1>4, <1>7, KeysStay, QuietInv

LEMMA ClockInv ==
  ASSUME Inv, Clock
  PROVE  Inv'
<1>1. /\ UNCHANGED <<backend, ttl, memory, calls, made, cleaning, serverVars>> /\ TypeOK
      /\ time' = time + 1 /\ time < MaxTime
  BY DEF Clock, TimePasses, Inv
<1>2. time' \in Times
  BY <1>1, BoundsAssumption DEF TypeOK, SessionsOK, Times
<1>3. valkey' \in [Ids -> [session : Sessions, until : Nat]]
  BY <1>1, Typed DEF Clock, TimePasses, NoKey, None
<1>4. TypeOK'
  BY <1>1, <1>2, <1>3 DEF TypeOK, SessionsOK, serverVars
<1>5. ProcessInv'
  <2>1. cleaning.now <= time'
    BY <1>1, Typed, BoundsAssumption DEF Inv, ProcessInv, TypeOK, SessionsOK, Times
  <2> QED BY <1>1, <2>1 DEF Inv, ProcessInv, serverVars
<1>6. KeysFollow
  BY DEF KeysFollow, Clock, TimePasses, NoKey
<1> QED BY <1>1, <1>4, <1>5, <1>6, QuietInv

LEMMA NextInv == Inv /\ [Next]_vars => Inv'
<1> SUFFICES ASSUME Inv, [Next]_vars PROVE Inv'
  OBVIOUS
<1>1. CASE UNCHANGED vars
  <2>1. TypeOK' /\ ProcessInv'
    BY <1>1 DEF Inv, TypeOK, SessionsOK, ProcessInv, vars, sessionVars, serverVars
  <2> QED BY <1>1, <2>1, KeysStay, QuietInv DEF vars, sessionVars
<1>2. ASSUME NEW env \in Environments, Launch(env) PROVE Inv'
  BY <1>2, LaunchInv
<1>11. requests \in [Requests -> {"none", "counting", "working", "answered"}]
  BY DEF Inv, TypeOK
<1>3. CASE Panics \/ Exit \/ Kill
  BY <1>3, EndsInv DEF Panics, Exit, Kill
<1>4. CASE Build
  BY <1>4, BuildInv
<1>5. CASE Bind
  BY <1>5, <1>11, EndsInv, ServingInv DEF Bind
<1>6. CASE Cleanup
  BY <1>6, CleanupInv
<1>7. ASSUME NEW c \in Callers, CallBegins(c) \/ CallStep(c) PROVE Inv'
  BY <1>7, CallBeginsInv, CallStepInv
<1>8. CASE Signal
  BY <1>8, <1>11, ServingInv DEF Signal
<1>9. ASSUME NEW task \in tasks, TaskStops(task) PROVE Inv'
  BY <1>9, <1>11, ServingInv DEF TaskStops
<1>10. CASE Clock
  BY <1>10, ClockInv
<1>12. ASSUME NEW r \in Requests, RequestStep(r) PROVE Inv'
  BY <1>12, RequestStepInv
<1> QED BY <1>1, <1>2, <1>3, <1>4, <1>5, <1>6, <1>7, <1>8, <1>9, <1>10, <1>12
        DEF Next, RequestStep

THEOREM InvHolds == Spec => []Inv
BY InitInv, NextInv, PTL DEF Spec

(* Whatever is launched, called, killed and lost on the way, the state is   *)
(* one of the state's types.                                                *)
THEOREM TypeCorrect == Spec => []TypeOK
<1>1. Inv => TypeOK
  BY DEF Inv
<1> QED BY <1>1, InvHolds, PTL

-----------------------------------------------------------------------------
(* A process that ends before it is built was killed, or AppState::new      *)
(* panicked, over what it says.                                             *)
LEMMA PanicsAsAsked ==
  ASSUME Inv, Next, phase = "configured", phase' = "off"
  PROVE  \/ status' \in {"killed", "http client"}
         \/ status' = "dns" /\ ~config.dev /\ ~config.dns
         \/ status' = "sessions" /\ config.store = "valkey"
         \/ status' = "ads" /\ config.asked = "vast" /\ ~config.endpoint
<1>1. ~Bind /\ ~Signal /\ ~Exit /\ ~Build /\ \A env \in Environments : ~Launch(env)
  BY DEF Launch, Bind, Signal, Exit, Build
<1>2. ~Cleanup /\ ~Clock
  BY DEF Cleanup, Clock, serverVars
<1>3. \A c \in Callers : ~CallBegins(c) /\ ~CallStep(c)
  BY DEF CallBegins, CallStep, serverVars
<1>4. \A r \in Requests : ~RequestStep(r)
  BY RequestStepGoes DEF Goes
<1>5. \A task \in tasks : ~TaskStops(task)
  BY DEF TaskStops
<1>6. CASE Kill
  BY <1>6 DEF Kill, Ends
<1>7. CASE Panics
  <2>1. PICK lack \in Lacks : PanicsOver(lack) /\ status' = lack
    BY <1>7 DEF Panics, Ends
  <2>2. config.provider = "vast" => config.endpoint \/ config.asked = "vast"
    BY DEF Inv, ProcessInv
  <2> QED BY <2>1, <2>2 DEF PanicsOver, NoDns, NoAds
<1> QED BY <1>1, <1>2, <1>3, <1>4, <1>5, <1>6, <1>7 DEF Next, RequestStep

(* Whatever the environment and the machine, a configuration that from_env  *)
(* accepted is started on, but for what AppState::new says it lacks.        *)
THEOREM StartsConfigured == Spec => StartsAsConfigured
<1>1. Inv /\ [Next]_vars =>
        [phase = "configured" /\ phase' = "off" =>
           \/ status' \in {"killed", "http client"}
           \/ status' = "dns" /\ ~config.dev /\ ~config.dns
           \/ status' = "sessions" /\ config.store = "valkey"
           \/ status' = "ads" /\ config.asked = "vast" /\ ~config.endpoint]_vars
  BY PanicsAsAsked
<1> QED BY <1>1, InvHolds, PTL DEF Spec, StartsAsConfigured

-----------------------------------------------------------------------------
(* Which steps make Valkey lose a session that lives.                       *)
Lost(id) ==
  LET session == valkey[id].session IN
  \/ valkey[id].until <= time'
  \/ ttl = 0
  \/ \E c \in Callers :
       /\ calls[c].id = id /\ calls'[c].pc = "done"
       /\ \/ calls[c].pc = "set" /\ Overtaken(c, session)
          \/ calls[c].pc = "del" /\ (calls[c].got = session \/ Overtaken(c, session))

LEMMA AnsweredIsDone ==
  ASSUME TypeOK, NEW c \in Callers, calls[c].pc # "idle", NEW s, Answer(c, s)
  PROVE  calls'[c].pc = "done"
<1> DEFINE call == [calls[c] EXCEPT !.pc = "done", !.got = s]
<1>1. call.pc = "done"
  BY CallTyped
<1>2. calls'[c] = call
  BY DEF Answer, TypeOK, SessionsOK
<1> QED BY <1>1, <1>2

LEMMA StoreLoses ==
  ASSUME Inv, NEW c \in Callers, ValkeyStore(c), NEW id \in Ids,
         valkey[id].session # None, valkey'[id].session # valkey[id].session
  PROVE  Lost(id)
<1>1. calls[c].pc = "set" /\ calls[c].pc # "idle" /\ Answer(c, made + 1) /\ TypeOK
  BY DEF ValkeyStore, Inv
<1>2. calls'[c].pc = "done"
  BY <1>1, AnsweredIsDone
<1>3. calls[c].id = id
  <2>1. valkey' = valkey \/ valkey' = [valkey EXCEPT ![calls[c].id] = Key(made + 1)]
    BY DEF ValkeyStore
  <2> QED BY <1>1, <2>1, Typed
<1>4. CallInv(c)
  BY <1>1, CallTyped DEF Inv
<1> QED BY <1>1, <1>2, <1>3, <1>4 DEF Lost, CallInv, Overtaken

LEMMA DeleteLoses ==
  ASSUME Inv, NEW c \in Callers, ValkeyDelete(c), NEW id \in Ids,
         valkey[id].session # None, valkey'[id].session # valkey[id].session
  PROVE  Lost(id)
<1>1. calls[c].pc = "del" /\ calls[c].pc # "idle" /\ Answer(c, calls[c].got) /\ TypeOK
  BY DEF ValkeyDelete, Inv
<1>2. calls'[c].pc = "done"
  BY <1>1, AnsweredIsDone
<1>3. calls[c].id = id
  BY <1>1, Typed DEF ValkeyDelete
<1>4. CallInv(c)
  BY <1>1, CallTyped DEF Inv
<1> QED BY <1>1, <1>2, <1>3, <1>4 DEF Lost, CallInv, Overtaken

LEMMA TouchLoses ==
  ASSUME Inv, NEW c \in Callers, ValkeyTouch(c), NEW id \in Ids,
         valkey[id].session # None, valkey'[id].session # valkey[id].session
  PROVE  Lost(id)
<1>1. TypeOK
  BY DEF Inv
<1> QED BY <1>1, Typed DEF ValkeyTouch, Key, Lost

LEMMA ClockLoses ==
  ASSUME Inv, Clock, NEW id \in Ids, valkey'[id].session # valkey[id].session
  PROVE  Lost(id)
BY DEF Clock, TimePasses, Lost

LEMMA OthersKeep ==
  ASSUME Next, ~Clock, \A c \in Callers : ~ValkeyStore(c) /\ ~ValkeyTouch(c) /\ ~ValkeyDelete(c)
  PROVE  UNCHANGED valkey
<1>1. ASSUME NEW c \in Callers, CallBegins(c) \/ CallStep(c) PROVE UNCHANGED valkey
  BY <1>1 DEF CallBegins, Call, CallStep, StepOf, MemoryGetOrCreate, MemoryTouch, MemoryGet,
     MemoryRemove, ValkeyFind, ValkeyGet, ValkeyRemoveFinds, Return
<1>2. ASSUME NEW why, Ends(why) PROVE UNCHANGED valkey
  BY <1>2 DEF Ends
<1>3. CASE Panics \/ Build \/ Bind \/ Cleanup \/ Signal \/ Exit \/ Kill
  BY <1>2, <1>3 DEF Panics, Build, Bind, Cleanup, CleanupBegins, CleanupVisits, Signal, Exit,
     Kill, sessionVars
<1>4. ASSUME NEW env \in Environments, Launch(env) PROVE UNCHANGED valkey
  BY <1>4 DEF Launch, sessionVars
<1>5. ASSUME NEW task \in tasks, TaskStops(task) PROVE UNCHANGED valkey
  BY <1>5 DEF TaskStops, sessionVars
<1>6. ASSUME NEW r \in Requests, RequestStep(r) PROVE UNCHANGED valkey
  BY <1>6, RequestStepGoes DEF Goes, sessionVars
<1> QED BY <1>1, <1>3, <1>4, <1>5, <1>6 DEF Next, RequestStep

(* A live session in Valkey is lost only to a caller that removes it or to  *)
(* one of the two races of manager.rs between GET and SET or DEL.           *)
THEOREM RacesOnly == Spec => OnlyRacesLose
<1>1. ASSUME Inv, [Next]_vars, NEW id \in Ids,
             valkey[id].session # None, valkey'[id].session # valkey[id].session
      PROVE  Lost(id)
  <2>1. ~UNCHANGED valkey
    BY <1>1
  <2>2. Next
    BY <1>1, <2>1 DEF vars, sessionVars
  <2> QED BY <1>1, <2>1, <2>2, OthersKeep, StoreLoses, TouchLoses, DeleteLoses, ClockLoses
<1>2. Inv /\ [Next]_vars =>
        [\A id \in Ids :
           LET session == valkey[id].session IN
           session # None /\ valkey'[id].session # session =>
             \/ valkey[id].until <= time'
             \/ ttl = 0
             \/ \E c \in Callers :
                  /\ calls[c].id = id /\ calls'[c].pc = "done"
                  /\ \/ calls[c].pc = "set" /\ Overtaken(c, session)
                     \/ calls[c].pc = "del" /\ (calls[c].got = session \/ Overtaken(c, session))
        ]_vars
  BY <1>1 DEF Lost
<1> QED BY <1>2, InvHolds, PTL DEF Spec, OnlyRacesLose

-----------------------------------------------------------------------------
(* The sessions in memory, seen as a SessionStore.                          *)
LEMMA SeenInMemory ==
  ASSUME backend = "memory"
  PROVE  /\ SeenStore = memory
         /\ DOMAIN SeenCalls = Callers
         /\ \A c \in Callers :
              SeenCalls[c] = [op |-> calls[c].op, id |-> calls[c].id,
                              pc |-> calls[c].pc, got |-> calls[c].got]
BY DEF SeenStore, SeenCalls

LEMMA SeenStutters ==
  ASSUME UNCHANGED <<backend, memory, calls, made, ttl, time>>
  PROVE  UNCHANGED Promised!vars
BY DEF Promised!vars, SeenStore, SeenCalls

(* Without a process, and with Valkey, nothing is promised: each step is as *)
(* good as a restart.                                                       *)
LEMMA SeenRestarts ==
  ASSUME Inv, Inv', made' >= made, time' = time,
         backend' # "memory" \/ (memory' = NoMemory /\ calls' = NoCalls)
  PROVE  Promised!Restart
<1>1. SeenStore' = [id \in Ids |-> Promised!Nothing]
  BY DEF SeenStore, NoMemory, NoEntry, Promised!Nothing, None
<1>2. SeenCalls' = [c \in Callers |-> Promised!Idle]
  BY DEF SeenCalls, NoCalls, Idle, Promised!Idle, None
<1>3. ttl' \in Nat /\ made' \in Nat
  BY BoundsAssumption DEF Inv, TypeOK, SessionsOK, Sessions
<1> QED BY <1>1, <1>2, <1>3 DEF Promised!Restart

LEMMA SeenAnswer ==
  ASSUME TypeOK, backend = "memory", backend' = backend,
         NEW c \in Callers, calls[c].pc # "idle", NEW s, Answer(c, s)
  PROVE  Promised!Answer(c, s)
<1> DEFINE call == [calls[c] EXCEPT !.pc = "done", !.got = s]
           seen == [op |-> SeenCalls[c].op, id |-> SeenCalls[c].id, pc |-> "done", got |-> s]
<1>1. calls' = [calls EXCEPT ![c] = call]
  BY DEF Answer, TypeOK, SessionsOK
<1>2. call.op = calls[c].op /\ call.id = calls[c].id /\ call.pc = "done" /\ call.got = s
  BY CallTyped
<1>3. seen = [op |-> calls[c].op, id |-> calls[c].id, pc |-> "done", got |-> s]
  BY SeenInMemory
<1> HIDE DEF call
<1>4. \A d \in Callers :
        SeenCalls'[d] = IF d = c THEN seen ELSE SeenCalls[d]
  <2>1. \A d \in Callers :
          SeenCalls'[d] = [op |-> calls'[d].op, id |-> calls'[d].id,
                           pc |-> calls'[d].pc, got |-> calls'[d].got]
    BY DEF SeenCalls
  <2>2. \A d \in Callers : calls'[d] = IF d = c THEN call ELSE calls[d]
    BY <1>1 DEF TypeOK, SessionsOK
  <2> HIDE DEF seen
  <2>3. ASSUME NEW d \in Callers PROVE SeenCalls'[d] = IF d = c THEN seen ELSE SeenCalls[d]
    <3>1. CASE d = c
      BY <1>2, <1>3, <2>1, <2>2, <3>1
    <3>2. CASE d # c
      BY <2>1, <2>2, <3>2, SeenInMemory
    <3> QED BY <3>1, <3>2
  <2> QED BY <2>3
<1>5. SeenCalls' = [SeenCalls EXCEPT ![c] = seen]
  <2> HIDE DEF seen
  <2> QED BY <1>4 DEF SeenCalls
<1> QED BY <1>5 DEF Promised!Answer

LEMMA SeenSame ==
  ASSUME backend = "memory", backend' = backend
  PROVE  SeenStore = memory /\ SeenStore' = memory'
BY DEF SeenStore

LEMMA SeenCalled ==
  ASSUME TypeOK, backend = "memory", NEW c \in Callers, calls[c].pc = "called"
  PROVE  /\ SeenCalls[c].pc = "called" /\ SeenCalls[c].op = calls[c].op
         /\ SeenCalls[c].id = calls[c].id /\ calls[c].id \in Ids
         /\ Promised!Nothing = NoEntry
BY SeenInMemory, CallTyped DEF Promised!Nothing, NoEntry, None

LEMMA SeenGetOrCreate ==
  ASSUME Inv, NEW c \in Callers, MemoryGetOrCreate(c)
  PROVE  Promised!Do(c)
<1>1. TypeOK /\ calls[c].pc = "called" /\ calls[c].op = "get_or_create" /\ backend = "memory"
      /\ UNCHANGED <<backend, ttl, time>>
  BY DEF Inv, MemoryGetOrCreate, Called
<1> DEFINE id == calls[c].id
<1>2. CASE memory[id] = NoEntry
  <2>1. /\ made' = made + 1
        /\ memory' = [memory EXCEPT ![id] = [session |-> made + 1, last |-> time]]
        /\ Answer(c, made + 1)
    BY <1>2 DEF MemoryGetOrCreate
  <2>2. Promised!Answer(c, made + 1)
    BY <1>1, <2>1, SeenAnswer
  <2> QED BY <1>1, <1>2, <2>1, <2>2, SeenSame, SeenCalled DEF Promised!Do, Promised!GetOrCreate
<1>3. CASE memory[id] # NoEntry
  <2>1. made' = made /\ memory' = memory /\ Answer(c, memory[id].session)
    BY <1>3 DEF MemoryGetOrCreate
  <2>2. Promised!Answer(c, memory[id].session)
    BY <1>1, <2>1, SeenAnswer
  <2> QED BY <1>1, <1>3, <2>1, <2>2, SeenSame, SeenCalled DEF Promised!Do, Promised!GetOrCreate
<1> QED BY <1>2, <1>3

LEMMA SeenTouch ==
  ASSUME Inv, NEW c \in Callers, MemoryTouch(c)
  PROVE  Promised!Do(c)
<1>1. /\ TypeOK /\ calls[c].pc = "called" /\ calls[c].op = "touch" /\ backend = "memory"
      /\ UNCHANGED <<backend, ttl, made, time>> /\ Answer(c, None)
      /\ memory' = IF memory[calls[c].id] = NoEntry THEN memory
                   ELSE [memory EXCEPT ![calls[c].id].last = time]
  BY DEF Inv, MemoryTouch, Called
<1>2. Promised!Answer(c, 0)
  BY <1>1, SeenAnswer DEF None
<1> QED BY <1>1, <1>2, SeenSame, SeenCalled DEF Promised!Do, Promised!Touch

LEMMA SeenGet ==
  ASSUME Inv, NEW c \in Callers, MemoryGet(c)
  PROVE  Promised!Do(c)
<1>1. /\ TypeOK /\ calls[c].pc = "called" /\ calls[c].op = "get" /\ backend = "memory"
      /\ UNCHANGED <<backend, ttl, memory, made, time>> /\ Answer(c, memory[calls[c].id].session)
  BY DEF Inv, MemoryGet, Called
<1>2. Promised!Answer(c, memory[calls[c].id].session)
  BY <1>1, SeenAnswer
<1> QED BY <1>1, <1>2, SeenSame, SeenCalled DEF Promised!Do, Promised!Get

LEMMA SeenRemove ==
  ASSUME Inv, NEW c \in Callers, MemoryRemove(c)
  PROVE  Promised!Do(c)
<1>1. /\ TypeOK /\ calls[c].pc = "called" /\ calls[c].op = "remove" /\ backend = "memory"
      /\ UNCHANGED <<backend, ttl, made, time>> /\ Answer(c, memory[calls[c].id].session)
      /\ memory' = [memory EXCEPT ![calls[c].id] = NoEntry]
  BY DEF Inv, MemoryRemove, Called
<1>2. Promised!Answer(c, memory[calls[c].id].session)
  BY <1>1, SeenAnswer
<1> QED BY <1>1, <1>2, SeenSame, SeenCalled DEF Promised!Do, Promised!Remove

LEMMA SeenReturn ==
  ASSUME Inv, backend = "memory", NEW c \in Callers, Return(c)
  PROVE  Promised!Return(c)
<1>1. calls[c].pc = "done" /\ UNCHANGED <<backend, ttl, memory, made, time>>
  BY DEF Return
<1>2. \A d \in Callers : SeenCalls'[d] = IF d = c THEN Promised!Idle ELSE SeenCalls[d]
  <2>1. \A d \in Callers : calls'[d] = IF d = c THEN Idle ELSE calls[d]
    BY DEF Return, Inv, TypeOK, SessionsOK
  <2> QED BY <1>1, <2>1 DEF SeenCalls, Idle, None, Promised!Idle
<1>3. SeenCalls' = [SeenCalls EXCEPT ![c] = Promised!Idle]
  BY <1>2 DEF SeenCalls
<1> QED BY <1>1, <1>3, SeenInMemory, SeenSame DEF Promised!Return

LEMMA SeenBegin ==
  ASSUME Inv, backend = "memory", NEW c \in Callers, CallBegins(c)
  PROVE  Promised!Begin(c)
<1>1. PICK op \in Operations, id \in Ids : Call(c, op, id)
  BY DEF CallBegins
<1>2. calls[c] = Idle /\ UNCHANGED <<backend, ttl, memory, made, time>>
  BY <1>1 DEF Call
<1> DEFINE called == [op |-> op, id |-> id, pc |-> "called", got |-> 0]
<1>3. \A d \in Callers : SeenCalls'[d] = IF d = c THEN called ELSE SeenCalls[d]
  <2>1. \A d \in Callers \ {c} : calls'[d] = calls[d]
    BY <1>1 DEF Call, Inv, TypeOK, SessionsOK
  <2>2. calls'[c].op = op /\ calls'[c].id = id /\ calls'[c].pc = "called" /\ calls'[c].got = 0
    BY <1>1 DEF Call, Inv, TypeOK, SessionsOK, None
  <2> QED BY <1>2, <2>1, <2>2 DEF SeenCalls
<1>4. SeenCalls' = [SeenCalls EXCEPT ![c] = called]
  <2> HIDE DEF called
  <2> QED BY <1>3 DEF SeenCalls
<1>5. SeenCalls[c] = Promised!Idle
  BY <1>2, SeenInMemory DEF Idle, None, Promised!Idle
<1>6. op \in Promised!Operations
  BY DEF Operations, Promised!Operations
<1> QED BY <1>2, <1>4, <1>5, <1>6, SeenSame DEF Promised!Begin

LEMMA SeenCleanup ==
  ASSUME Inv, backend = "memory", Cleanup
  PROVE  (\E id \in Ids : Promised!Expire(id)) \/ UNCHANGED Promised!vars
<1>1. CASE CleanupBegins
  BY <1>1, SeenStutters DEF CleanupBegins
<1>2. ASSUME NEW id \in Ids, CleanupVisits(id), memory' # memory
      PROVE  Promised!Expire(id)
  <2>1. /\ Stale(memory[id], cleaning.now) /\ memory' = [memory EXCEPT ![id] = NoEntry]
        /\ UNCHANGED <<backend, ttl, calls, made, time>>
    BY <1>2 DEF CleanupVisits
  <2>2. memory[id].last \in Nat /\ ttl \in Nat /\ cleaning.now \in Nat /\ time \in Nat
        /\ cleaning.now <= time
    BY BoundsAssumption DEF Inv, TypeOK, SessionsOK, ProcessInv, Times
  <2>3. memory[id] # NoEntry /\ memory[id].last + ttl <= time
    BY <2>1, <2>2 DEF Stale
  <2>4. UNCHANGED SeenCalls
    BY <2>1 DEF SeenCalls
  <2>5. Promised!Nothing = NoEntry
    BY DEF Promised!Nothing, NoEntry, None
  <2> QED BY <2>1, <2>3, <2>4, <2>5, SeenSame DEF Promised!Expire
<1>3. ASSUME NEW id \in Ids, CleanupVisits(id), memory' = memory
      PROVE  UNCHANGED Promised!vars
  BY <1>3, SeenStutters DEF CleanupVisits
<1> QED BY <1>1, <1>2, <1>3 DEF Cleanup

LEMMA SeenClock ==
  ASSUME Clock
  PROVE  Promised!TimePasses
BY DEF Clock, TimePasses, Promised!TimePasses, SeenStore, SeenCalls

LEMMA SeenCallStep ==
  ASSUME Inv, backend = "memory", NEW c \in Callers, CallStep(c)
  PROVE  Promised!Do(c) \/ Promised!Return(c)
<1>1. ~ValkeyFind(c) /\ ~ValkeyTouch(c) /\ ~ValkeyGet(c) /\ ~ValkeyRemoveFinds(c)
  BY DEF ValkeyFind, ValkeyTouch, ValkeyGet, ValkeyRemoveFinds, Called
<1>2. ~ValkeyStore(c) /\ ~ValkeyDelete(c)
  <2>1. SUFFICES ASSUME calls[c].pc \in {"set", "del"} PROVE FALSE
    BY DEF ValkeyStore, ValkeyDelete
  <2>2. calls[c] # Idle
    BY <2>1 DEF Idle
  <2> QED BY <2>1, <2>2 DEF Inv, CallInv
<1> QED BY <1>1, <1>2, SeenGetOrCreate, SeenTouch, SeenGet, SeenRemove, SeenReturn
        DEF CallStep, StepOf

(* With Valkey, calls and the cleanup only ever add to the sessions made.   *)
LEMMA UnseenStep ==
  ASSUME Inv, Inv', backend # "memory",
         Cleanup \/ \E c \in Callers : CallBegins(c) \/ CallStep(c)
  PROVE  Promised!Restart
<1>1. made \in Nat
  BY Typed DEF Inv
<1>2. UNCHANGED <<backend, time>> /\ made' >= made
  <2>1. CASE Cleanup
    BY <1>1, <2>1 DEF Cleanup, CleanupBegins, CleanupVisits
  <2>2. ASSUME NEW c \in Callers, CallBegins(c) \/ CallStep(c)
        PROVE  UNCHANGED <<backend, time>> /\ made' >= made
    <3>1. UNCHANGED <<backend, time>> /\ made' \in {made, made + 1}
      BY <2>2 DEF CallBegins, Call, CallStep, StepOf, MemoryGetOrCreate, MemoryTouch, MemoryGet,
         MemoryRemove, ValkeyFind, ValkeyStore, ValkeyTouch, ValkeyGet, ValkeyRemoveFinds,
         ValkeyDelete, Return
    <3> QED BY <1>1, <3>1
  <2> QED BY <2>1, <2>2
<1> QED BY <1>2, SeenRestarts

LEMMA SeenNext ==
  ASSUME Inv, [Next]_vars
  PROVE  Promised!Next \/ UNCHANGED Promised!vars
<1>1. Inv'
  BY NextInv
<1>2. made \in Nat
  BY Typed DEF Inv
<1>3. CASE UNCHANGED sessionVars
  BY <1>3, SeenStutters DEF sessionVars
<1>4. ASSUME NEW why, Ends(why) PROVE Promised!Next
  BY <1>1, <1>2, <1>4, SeenRestarts DEF Ends, Promised!Next
<1>5. CASE Build
  BY <1>1, <1>2, <1>5, SeenRestarts DEF Build, Inv, ProcessInv, Promised!Next
<1>6. CASE Clock
  BY <1>6, SeenClock DEF Promised!Next
<1>7. CASE Cleanup
  BY <1>1, <1>7, SeenCleanup, UnseenStep DEF Promised!Next
<1>8. ASSUME NEW c \in Callers, CallBegins(c) \/ CallStep(c) PROVE Promised!Next
  <2>1. CASE backend = "memory"
    BY <1>8, <2>1, SeenBegin, SeenCallStep DEF Promised!Next
  <2>2. CASE backend # "memory"
    BY <1>1, <1>8, <2>2, UnseenStep DEF Promised!Next
  <2> QED BY <2>1, <2>2
<1>9. ASSUME NEW r \in Requests, RequestStep(r) PROVE UNCHANGED sessionVars
  BY <1>9, RequestStepGoes DEF Goes
<1> QED BY <1>3, <1>4, <1>5, <1>6, <1>7, <1>8, <1>9
        DEF Next, RequestStep, Launch, Panics, Bind, Signal, TaskStops, Exit, Kill, vars

LEMMA SeenInit == Init => Promised!Init
<1> SUFFICES ASSUME Init PROVE Promised!Init
  OBVIOUS
<1>1. SeenStore = [id \in Ids |-> Promised!Nothing]
  BY DEF Init, SeenStore, NoMemory, NoEntry, None, Promised!Nothing
<1>2. SeenCalls = [c \in Callers |-> Promised!Idle]
  BY DEF Init, SeenCalls, NoCalls, Idle, None, Promised!Idle
<1> QED BY <1>1, <1>2 DEF Init, Promised!Init

(* In memory every call of the manager is one indivisible operation on the  *)
(* sessions, whatever runs beside it, and the cleanup, entry by entry and   *)
(* by an old clock, only ever removes what has expired.                     *)
THEOREM MemoryImplements == Spec => MemoryImplementsStore
<1>1. Inv /\ [Next]_vars => [Promised!Next]_(Promised!vars)
  BY SeenNext
<1> QED BY <1>1, SeenInit, InvHolds, PTL DEF Spec, MemoryImplementsStore, Promised!Spec

=============================================================================
