---------------------------- MODULE SessionStore ----------------------------
(* What the session manager promises its callers, whatever it is built on:  *)
(* every call takes effect at one instant between its begin and its return, *)
(* and a session leaves only when a caller removes it, when nobody has      *)
(* touched it for its time to live, or when the process that held it ends.  *)
EXTENDS Naturals

CONSTANTS Ids, Callers

VARIABLES
  stored,  \* per id, its session and when it was last touched; 0 for none
  calls,   \* per caller, the call under way and what it is answered
  made,    \* sessions made so far: they are numbered
  ttl,     \* how long a session outlives its last touch
  time

vars == <<stored, calls, made, ttl, time>>

Nothing == [session |-> 0, last |-> 0]
Idle    == [op |-> "none", id |-> 0, pc |-> "idle", got |-> 0]

Operations == {"get_or_create", "touch", "get", "remove"}

Init ==
  /\ stored = [id \in Ids |-> Nothing]
  /\ calls = [c \in Callers |-> Idle]
  /\ made = 0
  /\ ttl \in Nat
  /\ time = 0

Begin(c) ==
  /\ calls[c] = Idle
  /\ \E op \in Operations, id \in Ids :
       calls' = [calls EXCEPT ![c] = [op |-> op, id |-> id, pc |-> "called", got |-> 0]]
  /\ UNCHANGED <<stored, made, ttl, time>>

Answer(c, session) ==
  calls' = [calls EXCEPT ![c] = [op |-> @.op, id |-> @.id, pc |-> "done", got |-> session]]

(* A session is made only where there is none.                              *)
GetOrCreate(c) ==
  LET id == calls[c].id IN
  /\ calls[c].op = "get_or_create"
  /\ IF stored[id] = Nothing
     THEN /\ made' = made + 1
          /\ stored' = [stored EXCEPT ![id] = [session |-> made + 1, last |-> time]]
          /\ Answer(c, made + 1)
     ELSE /\ Answer(c, stored[id].session)
          /\ UNCHANGED <<stored, made>>

Touch(c) ==
  LET id == calls[c].id IN
  /\ calls[c].op = "touch"
  /\ stored' = IF stored[id] = Nothing THEN stored ELSE [stored EXCEPT ![id].last = time]
  /\ Answer(c, 0)
  /\ UNCHANGED made

Get(c) ==
  /\ calls[c].op = "get"
  /\ Answer(c, stored[calls[c].id].session)
  /\ UNCHANGED <<stored, made>>

Remove(c) ==
  LET id == calls[c].id IN
  /\ calls[c].op = "remove"
  /\ stored' = [stored EXCEPT ![id] = Nothing]
  /\ Answer(c, stored[id].session)
  /\ UNCHANGED made

Do(c) ==
  /\ calls[c].pc = "called"
  /\ GetOrCreate(c) \/ Touch(c) \/ Get(c) \/ Remove(c)
  /\ UNCHANGED <<ttl, time>>

Return(c) ==
  /\ calls[c].pc = "done"
  /\ calls' = [calls EXCEPT ![c] = Idle]
  /\ UNCHANGED <<stored, made, ttl, time>>

Expire(id) ==
  /\ stored[id] # Nothing
  /\ stored[id].last + ttl <= time
  /\ stored' = [stored EXCEPT ![id] = Nothing]
  /\ UNCHANGED <<calls, made, ttl, time>>

(* The process ends, or starts with another configuration.                  *)
Restart ==
  /\ stored' = [id \in Ids |-> Nothing]
  /\ calls' = [c \in Callers |-> Idle]
  /\ ttl' \in Nat
  /\ made' \in Nat /\ made' >= made
  /\ UNCHANGED time

TimePasses ==
  /\ time' = time + 1
  /\ UNCHANGED <<stored, calls, made, ttl>>

Next ==
  \/ \E c \in Callers : Begin(c) \/ Do(c) \/ Return(c)
  \/ \E id \in Ids : Expire(id)
  \/ Restart
  \/ TimePasses

Spec == Init /\ [][Next]_vars
=============================================================================
