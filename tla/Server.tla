------------------------------- MODULE Server -------------------------------
(* The life of a server process, around its sessions: the environment is    *)
(* read (src/src/config.rs), the state is built from it (server/state.rs),  *)
(* the background tasks are spawned and the port is bound, requests are     *)
(* served until a signal, the tasks are cancelled and the requests under    *)
(* way are waited for (server/mod.rs, main.rs).  A process may be killed    *)
(* at any time; whatever Valkey holds outlives it.                          *)
EXTENDS SessionManager

CONSTANTS
  Environments, \* the settings a process may be launched with, and its machine
  MaxLaunches,  \* bound: processes launched, one after another
  Requests,     \* bound: the requests that may be under way
  MaxBusy       \* bound: the requests and calls under way at once

ASSUME LaunchesAssumption     == MaxLaunches \in Nat
ASSUME EnvironmentsAssumption == \A env \in Environments : {env.feature, env.dns} \subseteq BOOLEAN

VARIABLES
  phase,     \* "off", "configured", "built", "serving" or "draining"
  config,    \* what from_env made of the environment
  tasks,     \* the background tasks running
  status,    \* how the last process ended
  launches,
  requests   \* what each request waits for

serverVars == <<phase, config, tasks, status, launches, requests>>
vars == <<sessionVars, serverVars>>

(*************************** Configuration *********************************)

Unset == "unset"   \* a variable that is not in the environment

(* DEV_MODE: anything but true is false.                                    *)
IsDev(env) == env.dev_mode = "true"

(* PORT, BASE_URL and ORIGIN_URL have defaults in development only; a port  *)
(* that is not a number is an error in either mode.                         *)
Complete(env) ==
  /\ env.port # "garbage"
  /\ IsDev(env) \/ Unset \notin {env.port, env.base_url, env.origin_url}

(* Wrong: without an endpoint nothing falls back to static.                 *)
ProviderUnasked(env) == IF env.provider = "static" THEN "static" ELSE "vast"

(* AD_PROVIDER_TYPE: any other name, and none, is decided by VAST_ENDPOINT. *)
Provider(env) ==
  IF env.provider \in {"vast", "static", "demo"} THEN env.provider
  ELSE IF env.endpoint # Unset THEN "vast" ELSE "static"

(* SESSION_STORE: any other name is memory.                                 *)
Store(env) == IF env.store \in {"valkey", "redis"} THEN "valkey" ELSE "memory"

(* SESSION_TTL_SECS, RATE_LIMIT_RPM: a value that is not a number is the    *)
(* default.                                                                 *)
Ttl(env)     == IF env.ttl = "zero" THEN 0 ELSE 1
Limited(env) == env.rpm = "positive"

from_env(env) ==
  [provider |-> Provider(env), endpoint |-> env.endpoint # Unset, asked |-> env.provider,
   store |-> Store(env), url |-> env.url # Unset, feature |-> env.feature,
   dev |-> IsDev(env), dns |-> env.dns, ttl |-> Ttl(env), limited |-> Limited(env)]

NoConfig ==
  [provider |-> "static", endpoint |-> FALSE, asked |-> Unset,
   store |-> "memory", url |-> FALSE, feature |-> FALSE,
   dev |-> FALSE, dns |-> FALSE, ttl |-> 0, limited |-> FALSE]

NoRequests == [r \in Requests |-> "none"]

(************************* Start and end ***********************************)

Init ==
  /\ backend = "memory" /\ ttl = 0
  /\ memory = NoMemory
  /\ valkey = [id \in Ids |-> NoKey]
  /\ calls = NoCalls
  /\ made = 0 /\ time = 0
  /\ cleaning = NoCleaning
  /\ phase = "off" /\ status = "none"
  /\ config = NoConfig
  /\ tasks = {}
  /\ launches = 0
  /\ requests = NoRequests

(* What only the process held is gone with it.                              *)
Ends(why) ==
  /\ phase' = "off"
  /\ status' = why
  /\ config' = NoConfig
  /\ tasks' = {}
  /\ requests' = NoRequests
  /\ backend' = "memory" /\ ttl' = 0
  /\ memory' = NoMemory
  /\ calls' = NoCalls
  /\ cleaning' = NoCleaning
  /\ UNCHANGED <<valkey, made, time, launches>>

(* main: an environment that is not complete is reported and ends it.       *)
Launch(env) ==
  /\ phase = "off"
  /\ launches < MaxLaunches
  /\ launches' = launches + 1
  /\ IF Complete(env)
     THEN phase' = "configured" /\ config' = from_env(env) /\ status' = "running"
     ELSE phase' = "off" /\ config' = NoConfig /\ status' = "failed"
  /\ UNCHANGED <<sessionVars, tasks, requests>>

(* AppState::new needs, in this order: outside development the addresses of *)
(* the machine's name servers, an http client, what the sessions are kept   *)
(* in and what the ads come from.                                           *)
NoDns      == ~config.dev /\ ~config.dns
NoSessions == config.store = "valkey" /\ ~(config.feature /\ config.url)
NoAds      == config.provider = "vast" /\ ~config.endpoint

PanicsOver(lack) ==
  \/ lack = "dns" /\ NoDns
  \/ lack = "http client" /\ ~NoDns   \* whose TLS may not be there
  \/ lack = "sessions" /\ ~NoDns /\ config.store = "valkey"   \* which may not answer
  \/ lack = "ads" /\ ~NoDns /\ ~NoSessions /\ NoAds

Lacks == {"dns", "http client", "sessions", "ads"}

Panics ==
  /\ phase = "configured"
  /\ \E lack \in Lacks : PanicsOver(lack) /\ Ends(lack)

(* AppState::new and build_router_with_token; wrong, without the task that  *)
(* cleans up the sessions, and right.                                       *)
BuildNoCleanup ==
  /\ phase = "configured"
  /\ ~NoDns /\ ~NoSessions /\ ~NoAds
  /\ phase' = "built"
  /\ backend' = config.store
  /\ ttl' = config.ttl
  /\ tasks' = {"ads"} \cup (IF config.limited THEN {"limits"} ELSE {})
  /\ config' = NoConfig
  /\ UNCHANGED <<memory, valkey, calls, made, cleaning, time, status, launches, requests>>

Build ==
  /\ phase = "configured"
  /\ ~NoDns /\ ~NoSessions /\ ~NoAds
  /\ phase' = "built"
  /\ backend' = config.store
  /\ ttl' = config.ttl
  /\ tasks' = {"sessions", "ads"} \cup (IF config.limited THEN {"limits"} ELSE {})
  /\ config' = NoConfig   \* what is left of it is read only
  /\ UNCHANGED <<memory, valkey, calls, made, cleaning, time, status, launches, requests>>

Bind ==
  /\ phase = "built"
  /\ \/ phase' = "serving" /\ UNCHANGED <<sessionVars, config, tasks, status, launches, requests>>
     \/ Ends("failed")

(************************* While it runs ***********************************)

(* The session cleanup task: one branch of its select.                      *)
Cleanup ==
  /\ "sessions" \in tasks
  /\ CleanupBegins \/ \E id \in Ids : CleanupVisits(id)
  /\ UNCHANGED serverVars

Busy == {c \in Callers : calls[c] # Idle} \cup {r \in Requests : requests[r] # "none"}

(* A call of the session manager.  No route of the server makes one.        *)
CallBegins(c) ==
  /\ phase = "serving"
  /\ Cardinality(Busy) < MaxBusy
  /\ \E op \in Operations, id \in Ids : Call(c, op, id)
  /\ UNCHANGED serverVars

CallStep(c) == StepOf(c) /\ UNCHANGED serverVars

(* A request: / and /health count the sessions, the others work on what the *)
(* server holds and on what they fetch; what the rate limiter turns away is *)
(* at once answered.                                                        *)
Goes(r, to) ==
  /\ requests' = [requests EXCEPT ![r] = to]
  /\ UNCHANGED <<sessionVars, phase, config, tasks, status, launches>>

(* Wrong: requests are accepted while the others are waited for.            *)
ArrivesAlways(r) ==
  /\ phase \in {"serving", "draining"} /\ requests[r] = "none"
  /\ Cardinality(Busy) < MaxBusy
  /\ \E at \in {"counting", "working"} : Goes(r, at)

Arrives(r) ==
  /\ phase = "serving" /\ requests[r] = "none"
  /\ Cardinality(Busy) < MaxBusy
  /\ \E at \in {"counting", "working"} : Goes(r, at)

(* session_count in memory, and the end of what a handler waits for.        *)
Handled(r) ==
  /\ \/ requests[r] = "working"
     \/ requests[r] = "counting" /\ backend = "memory"
  /\ Goes(r, "answered")

(* session_count in Valkey: the last of its SCANs has a reply or an error.  *)
Counted(r) ==
  /\ requests[r] = "counting" /\ backend = "valkey"
  /\ Goes(r, "answered")

(* The client has read its answer, or has gone.                             *)
Taken(r) ==
  /\ requests[r] = "answered"
  /\ Goes(r, "none")

(* The signal cancels the token that the tasks wait on, and the server      *)
(* stops accepting.                                                         *)
Signal ==
  /\ phase = "serving"
  /\ phase' = "draining"
  /\ UNCHANGED <<sessionVars, config, tasks, status, launches, requests>>

(* The other branch of the select.                                          *)
TaskStops(task) ==
  /\ phase = "draining"
  /\ task \in tasks
  /\ task = "sessions" => cleaning = NoCleaning
  /\ tasks' = tasks \ {task}
  /\ UNCHANGED <<sessionVars, phase, config, status, launches, requests>>

(* No request is under way any more; nobody waits for the tasks, nor for    *)
(* the callers of the sessions.                                             *)
Exit ==
  /\ phase = "draining"
  /\ requests = NoRequests
  /\ Ends("graceful")

Kill ==
  /\ phase # "off"
  /\ Ends("killed")

Clock == TimePasses /\ UNCHANGED serverVars

Next ==
  \/ \E env \in Environments : Launch(env)
  \/ Panics \/ Build \/ Bind
  \/ Cleanup
  \/ \E c \in Callers : CallBegins(c) \/ CallStep(c)
  \/ \E r \in Requests : Arrives(r) \/ Handled(r) \/ Counted(r) \/ Taken(r)
  \/ Signal
  \/ \E task \in tasks : TaskStops(task)
  \/ Exit \/ Kill
  \/ Clock

Spec == Init /\ [][Next]_vars

(* The timer of the cleanup task ticks for ever, and a handler ends: the    *)
(* http client times out, and nothing else that it awaits is elsewhere.     *)
(* Valkey has no time limit, nor have the clients, and nobody has to send a *)
(* signal.                                                                  *)
FairSpec ==
  /\ Spec
  /\ WF_vars(Cleanup)
  /\ \A r \in Requests : WF_vars(Handled(r))
  /\ WF_vars(Exit)

(************************** Properties *************************************)

Configs ==
  [provider : {"vast", "static", "demo"}, endpoint : BOOLEAN,
   asked : {Unset} \cup {env.provider : env \in Environments},
   store : {"memory", "valkey"}, url : BOOLEAN, feature : BOOLEAN,
   dev : BOOLEAN, dns : BOOLEAN, ttl : {0, 1}, limited : BOOLEAN]

TypeOK ==
  /\ SessionsOK
  /\ phase \in {"off", "configured", "built", "serving", "draining"}
  /\ status \in {"none", "running", "failed", "graceful", "killed"} \cup Lacks
  /\ config \in Configs
  /\ tasks \subseteq {"sessions", "ads", "limits"}
  /\ launches \in 0 .. MaxLaunches
  /\ requests \in [Requests -> {"none", "counting", "working", "answered"}]

(* With the sessions in memory every call of get_or_create, touch, get and  *)
(* remove takes effect at once, and the cleanup, judging entry by entry by  *)
(* a clock that may be behind, takes only sessions whose time is over.      *)
SeenStore == IF backend = "memory" THEN memory ELSE NoMemory

SeenCalls ==
  [c \in Callers |->
     LET call == IF backend = "memory" THEN calls[c] ELSE Idle IN
     [op |-> call.op, id |-> call.id, pc |-> call.pc, got |-> call.got]]

Promised == INSTANCE SessionStore WITH stored <- SeenStore, calls <- SeenCalls

MemoryImplementsStore == Promised!Spec

(* A session that Valkey holds for a player, through restarts of the        *)
(* server, is not lost while it lives, except by a caller that removes it,  *)
(* by one whose GET ran before it was stored or got no reply (manager.rs    *)
(* 110-145 and 270-291), or by a time to live of 0.                         *)
Overtaken(c, session) == session > calls[c].since \/ ~calls[c].answered

OnlyRacesLose ==
  [][\A id \in Ids :
       LET session == valkey[id].session IN
       session # None /\ valkey'[id].session # session =>
         \/ valkey[id].until <= time'
         \/ ttl = 0
         \/ \E c \in Callers :
              /\ calls[c].id = id /\ calls'[c].pc = "done"
              /\ \/ calls[c].pc = "set" /\ Overtaken(c, session)
                 \/ calls[c].pc = "del" /\ (calls[c].got = session \/ Overtaken(c, session))
    ]_vars

(* The settings that from_env accepts are enough to start on.  AppState::   *)
(* new panics over an http client it cannot build, over the machine's name  *)
(* servers in production alone, over Valkey where it is asked for, and over *)
(* the ads only where VAST is asked for by name without its endpoint.       *)
StartsAsConfigured ==
  [][phase = "configured" /\ phase' = "off" =>
       \/ status' \in {"killed", "http client"}
       \/ status' = "dns" /\ ~config.dev /\ ~config.dns
       \/ status' = "sessions" /\ config.store = "valkey"
       \/ status' = "ads" /\ config.asked = "vast" /\ ~config.endpoint
    ]_vars

(* A server told to stop stops, unless a client never takes its answer or   *)
(* Valkey, which has no time limit, never lets a /health count end: nothing *)
(* in the server itself, and no request that comes later, can hold it.      *)
AwaitsOthers(r) ==
  \/ requests[r] = "answered"
  \/ requests[r] = "counting" /\ backend = "valkey"

ShutsDown ==
  (\A r \in Requests : []<>~AwaitsOthers(r)) => (phase = "draining" ~> phase = "off")

(* While the server runs, a session nobody touches leaves its memory.       *)
StaleSessionsLeave ==
  \A id \in Ids, session \in 1 .. MaxSessions :
    (memory[id].session = session /\ Stale(memory[id], time) /\ phase = "serving")
      ~> (memory[id].session # session \/ ~Stale(memory[id], time) \/ phase # "serving")

(************************** Why they hold **********************************)

(* There is room for the sessions that the calls under way may make.        *)
MakersFit == made + Cardinality(Makers) <= MaxSessions

(* A caller between its two commands: whatever the key holds by then, but   *)
(* for what it has found itself, was stored after it looked.                *)
CallInv(c) ==
  LET call == calls[c]
      held == valkey[call.id].session
  IN  /\ call.since <= made
      /\ call.pc \in {"set", "del"} => backend = "valkey"
      /\ call.pc = "set" =>
           /\ call.op = "get_or_create"
           /\ call.answered /\ held # None => held > call.since
      /\ call.pc = "del" => held = None \/ held = call.got \/ held > call.since

(* What a process has not built it does not have, and with Valkey it keeps  *)
(* nothing in its memory.                                                   *)
ProcessInv ==
  /\ phase \in {"off", "configured"} =>
       memory = NoMemory /\ calls = NoCalls /\ backend = "memory" /\ tasks = {}
  /\ phase \in {"off", "configured", "built"} => requests = NoRequests
  /\ backend = "valkey" => memory = NoMemory
  /\ cleaning.now <= time
  /\ phase # "off" => status = "running"
  /\ phase = "configured" /\ config.provider = "vast" =>
       config.endpoint \/ config.asked = "vast"

Inv ==
  /\ TypeOK
  /\ MakersFit
  /\ \A c \in Callers : calls[c] # Idle => CallInv(c)
  /\ ProcessInv
=============================================================================
