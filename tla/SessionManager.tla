--------------------------- MODULE SessionManager ---------------------------
(* The sessions of players (src/src/session/manager.rs), kept in the memory *)
(* of the process or in a Valkey server that outlives it.  In memory every  *)
(* operation holds the lock of its entry and is one step; only the cleanup  *)
(* visits the entries one at a time, with the clock it read at its start.   *)
(* With Valkey an operation is one command after another, any of which may  *)
(* fail, and the calls of others run between them.                          *)
EXTENDS Naturals, FiniteSets

CONSTANTS
  Ids,         \* session ids
  Callers,     \* the tasks that call the manager
  MaxSessions, \* bound: sessions made
  MaxTime      \* bound: the clock, in units in which Ttls are given

ASSUME BoundsAssumption  == MaxSessions \in Nat /\ MaxTime \in Nat
ASSUME CallersAssumption == IsFiniteSet(Callers)

VARIABLES
  backend,   \* "memory" or "valkey"
  ttl,
  memory,    \* per id, its session and last_accessed
  valkey,    \* per id, its session and the instant its key expires
  calls,     \* per caller, the operation under way
  made,      \* sessions stored so far: history, they are numbered
  cleaning,  \* entries the cleanup under way has still to visit, and its clock
  time

sessionVars == <<backend, ttl, memory, valkey, calls, made, cleaning, time>>

None == 0   \* no session

Operations == {"get_or_create", "touch", "get", "remove"}

NoEntry == [session |-> None, last |-> 0]
NoKey   == [session |-> None, until |-> 0]
Idle    == [op |-> "none", id |-> 0, pc |-> "idle", got |-> None, since |-> 0, answered |-> TRUE]
NoCleaning == [left |-> {}, now |-> 0]

Sessions == 0 .. MaxSessions
Times    == 0 .. MaxTime

Calls ==
  {Idle} \cup
  [op : Operations, id : Ids, pc : {"called", "set", "del", "done"}, got : Sessions,
   since : Sessions, answered : BOOLEAN]

SessionsOK ==
  /\ backend \in {"memory", "valkey"}
  /\ ttl \in Nat
  /\ memory \in [Ids -> [session : Sessions, last : Times]]
  /\ valkey \in [Ids -> [session : Sessions, until : Nat]]
  /\ calls \in [Callers -> Calls]
  /\ made \in Sessions
  /\ cleaning \in [left : SUBSET Ids, now : Times]
  /\ time \in Times

NoMemory == [id \in Ids |-> NoEntry]
NoCalls  == [c \in Callers |-> Idle]

(****************************** Calls **************************************)

Makers == {c \in Callers : calls[c].op = "get_or_create" /\ calls[c].pc # "done"}

Call(c, op, id) ==
  /\ calls[c] = Idle
  /\ op = "get_or_create" => made + Cardinality(Makers) < MaxSessions
  /\ calls' = [calls EXCEPT ![c] = [op |-> op, id |-> id, pc |-> "called", got |-> None,
                                    since |-> 0, answered |-> TRUE]]
  /\ UNCHANGED <<backend, ttl, memory, valkey, made, cleaning, time>>

Return(c) ==
  /\ calls[c].pc = "done"
  /\ calls' = [calls EXCEPT ![c] = Idle]
  /\ UNCHANGED <<backend, ttl, memory, valkey, made, cleaning, time>>

Answer(c, session) == calls' = [calls EXCEPT ![c].pc = "done", ![c].got = session]

Called(c, op, on) ==
  /\ backend = on
  /\ calls[c].pc = "called"
  /\ calls[c].op = op

(************************** In memory **************************************)

MemoryGetOrCreate(c) ==
  LET id == calls[c].id IN
  /\ Called(c, "get_or_create", "memory")
  /\ IF memory[id] = NoEntry
     THEN /\ made' = made + 1
          /\ memory' = [memory EXCEPT ![id] = [session |-> made + 1, last |-> time]]
          /\ Answer(c, made + 1)
     ELSE /\ Answer(c, memory[id].session)
          /\ UNCHANGED <<made, memory>>
  /\ UNCHANGED <<backend, ttl, valkey, cleaning, time>>

MemoryTouch(c) ==
  LET id == calls[c].id IN
  /\ Called(c, "touch", "memory")
  /\ memory' = IF memory[id] = NoEntry THEN memory ELSE [memory EXCEPT ![id].last = time]
  /\ Answer(c, None)
  /\ UNCHANGED <<backend, ttl, valkey, made, cleaning, time>>

MemoryGet(c) ==
  /\ Called(c, "get", "memory")
  /\ Answer(c, memory[calls[c].id].session)
  /\ UNCHANGED <<backend, ttl, memory, valkey, made, cleaning, time>>

MemoryRemove(c) ==
  LET id == calls[c].id IN
  /\ Called(c, "remove", "memory")
  /\ memory' = [memory EXCEPT ![id] = NoEntry]
  /\ Answer(c, memory[id].session)
  /\ UNCHANGED <<backend, ttl, valkey, made, cleaning, time>>

(* cleanup_expired: the clock is read once, the entries are judged one by   *)
(* one.  A clock behind last_accessed (a touch since) keeps the entry.      *)
CleanupBegins ==
  /\ backend = "memory"
  /\ cleaning.left = {}
  /\ cleaning' = [left |-> Ids, now |-> time]
  /\ UNCHANGED <<backend, ttl, memory, valkey, calls, made, time>>

(* Wrong: an entry from after the cleanup's clock is removed as well.       *)
StaleOrNewer(entry, now) ==
  entry # NoEntry /\ (entry.last > now \/ entry.last + ttl <= now)

Stale(entry, now) == entry # NoEntry /\ entry.last + ttl <= now

CleanupVisits(id) ==
  /\ id \in cleaning.left
  /\ cleaning' = IF cleaning.left = {id} THEN NoCleaning
                 ELSE [cleaning EXCEPT !.left = @ \ {id}]
  /\ memory' = IF Stale(memory[id], cleaning.now) THEN [memory EXCEPT ![id] = NoEntry] ELSE memory
  /\ UNCHANGED <<backend, ttl, valkey, calls, made, time>>

(************************** In Valkey **************************************)

(* A key whose time has come is gone, and EX 0 or EXPIRE 0 keep nothing.    *)
Key(session) == IF ttl = 0 THEN NoKey ELSE [session |-> session, until |-> time + ttl]

Fails(c) == Answer(c, None)

(* GET: the session found is the answer; none, and no reply either, means   *)
(* that one is to be made.                                                  *)
ValkeyFindNot(c) ==   \* wrong: it does not look
  /\ Called(c, "get_or_create", "valkey")
  /\ calls' = [calls EXCEPT ![c].pc = "set", ![c].since = made, ![c].answered = TRUE]
  /\ UNCHANGED <<backend, ttl, memory, valkey, made, cleaning, time>>

ValkeyFind(c) ==
  LET found == valkey[calls[c].id].session IN
  /\ Called(c, "get_or_create", "valkey")
  /\ \/ found # None /\ Answer(c, found)
     \/ \E answered \in BOOLEAN :
          /\ answered => found = None
          /\ calls' = [calls EXCEPT ![c].pc = "set", ![c].since = made, ![c].answered = answered]
  /\ UNCHANGED <<backend, ttl, memory, valkey, made, cleaning, time>>

(* SET EX: whether it is stored or not, the session made is the answer.     *)
ValkeyStore(c) ==
  /\ calls[c].pc = "set"
  /\ made' = made + 1
  /\ \/ UNCHANGED valkey
     \/ ttl > 0 /\ valkey' = [valkey EXCEPT ![calls[c].id] = Key(made + 1)]
  /\ Answer(c, made + 1)
  /\ UNCHANGED <<backend, ttl, memory, cleaning, time>>

(* EXPIRE.                                                                  *)
ValkeyTouch(c) ==
  LET id == calls[c].id IN
  /\ Called(c, "touch", "valkey")
  /\ \/ UNCHANGED valkey
     \/ valkey[id] # NoKey /\ valkey' = [valkey EXCEPT ![id] = Key(@.session)]
  /\ Answer(c, None)
  /\ UNCHANGED <<backend, ttl, memory, made, cleaning, time>>

ValkeyGet(c) ==
  /\ Called(c, "get", "valkey")
  /\ Answer(c, valkey[calls[c].id].session) \/ Fails(c)
  /\ UNCHANGED <<backend, ttl, memory, valkey, made, cleaning, time>>

(* GET, and only if it found something DEL: of whatever is there by then.   *)
ValkeyRemoveFinds(c) ==
  LET found == valkey[calls[c].id].session IN
  /\ Called(c, "remove", "valkey")
  /\ \/ found # None /\ calls' = [calls EXCEPT ![c].pc = "del", ![c].got = found, ![c].since = made]
     \/ found = None /\ Answer(c, None)
     \/ Fails(c)
  /\ UNCHANGED <<backend, ttl, memory, valkey, made, cleaning, time>>

ValkeyDelete(c) ==
  /\ calls[c].pc = "del"
  /\ valkey' \in {valkey, [valkey EXCEPT ![calls[c].id] = NoKey]}
  /\ Answer(c, calls[c].got)
  /\ UNCHANGED <<backend, ttl, memory, made, cleaning, time>>

(***************************************************************************)

TimePasses ==
  /\ time < MaxTime
  /\ time' = time + 1
  /\ valkey' = [id \in Ids |-> IF valkey[id].until <= time' THEN NoKey ELSE valkey[id]]
  /\ UNCHANGED <<backend, ttl, memory, calls, made, cleaning>>

StepOf(c) ==
  \/ MemoryGetOrCreate(c) \/ MemoryTouch(c) \/ MemoryGet(c) \/ MemoryRemove(c)
  \/ ValkeyFind(c) \/ ValkeyStore(c) \/ ValkeyTouch(c) \/ ValkeyGet(c)
  \/ ValkeyRemoveFinds(c) \/ ValkeyDelete(c)
  \/ Return(c)
=============================================================================
