----------------------------- MODULE RateLimiter -----------------------------
(***************************************************************************)
(* The per-client fixed-window rate limiter (src/server/rate_limit.rs) as  *)
(* the middleware uses it, with the periodic cleanup of server/mod.rs.     *)
(*                                                                         *)
(* A check reads the clock first and then waits for the lock of the        *)
(* client's map entry; under the lock everything is one step.  So a window *)
(* may start with a time read a little earlier, at most Delay ticks.       *)
(* Clients are the strings of extract_client_ip, "unknown" among them.     *)
(***************************************************************************)
EXTENDS Integers, Sequences, Functions

CONSTANTS
  Clients,      \* values of extract_client_ip
  Workers,      \* request tasks in the middleware
  Limit,        \* RATE_LIMIT_RPM, when it is not 0 (then there is no limiter)
  Window,       \* the window, in ticks
  Delay,        \* bound: ticks between reading the clock and the lock
  MaxAttempts,  \* bound: requests per client
  MaxTime       \* bound: ticks of the clock

ASSUME LimitAssumption  == Limit \in Nat \ {0} /\ Window \in Nat \ {0}
ASSUME DelayAssumption  == Delay \in Nat /\ 2 * Delay <= Window
ASSUME BoundsAssumption == MaxAttempts \in Nat /\ MaxTime \in Nat

VARIABLES
  now,       \* the clock
  counters,  \* client -> request count and start of its window
  waiting,   \* checks that have read the clock, by worker
  attempts,  \* history: by client, the times at which its requests came
  admitted,  \* history: by client, the times at which a check returned true
  rejected   \* history: the clients a check of which returned false

vars == <<now, counters, waiting, attempts, admitted, rejected>>

-----------------------------------------------------------------------------
Put(f, x, v) == [y \in DOMAIN f \cup {x} |-> IF y = x THEN v ELSE f[y]]

Init ==
  /\ now = 0
  /\ counters = [c \in {} |-> 0]
  /\ waiting = [w \in {} |-> 0]
  /\ attempts = [c \in Clients |-> << >>]
  /\ admitted = [c \in Clients |-> << >>]
  /\ rejected = {}

(* A request comes: let now = Instant::now().  Its place in the history is  *)
(* kept with the check, no part of the code.                                *)
ReadClock(w, c) ==
  /\ w \notin DOMAIN waiting
  /\ Len(attempts[c]) < MaxAttempts
  /\ attempts' = [attempts EXCEPT ![c] = Append(@, now)]
  /\ waiting' = Put(waiting, w, [client |-> c, read |-> now,
                                place |-> Len(attempts[c]) + 1])
  /\ UNCHANGED <<now, counters, admitted, rejected>>

(* entry(..).or_insert((0, now))                                            *)
Found(c, read) ==
  IF c \in DOMAIN counters THEN counters[c] ELSE [count |-> 0, start |-> read]

(* Mutant: the window lasts a tick longer.                                  *)
ExpiredLate(entry) == now - entry.start > Window

(* window_start.elapsed() >= window                                         *)
Expired(entry) == now - entry.start >= Window

(* Mutant: the request that resets the window is not counted.               *)
CountedFromZero(entry, read) ==
  IF Expired(entry) THEN [count |-> 0, start |-> read]
                    ELSE [entry EXCEPT !.count = @ + 1]

(* Reset an expired window, count the request.                              *)
Counted(entry, read) ==
  IF Expired(entry) THEN [count |-> 1, start |-> read]
                    ELSE [entry EXCEPT !.count = @ + 1]

Admits(entry) == entry.count <= Limit

Decide(w) ==
  /\ w \in DOMAIN waiting
  /\ LET c == waiting[w].client
         entry == Counted(Found(c, waiting[w].read), waiting[w].read)
     IN /\ counters' = Put(counters, c, entry)
        /\ \/ /\ Admits(entry)
              /\ admitted' = [admitted EXCEPT ![c] = Append(@, now)]
              /\ UNCHANGED rejected
           \/ /\ ~ Admits(entry)
              /\ rejected' = rejected \cup {c}
              /\ UNCHANGED admitted
  /\ waiting' = Restrict(waiting, DOMAIN waiting \ {w})
  /\ UNCHANGED <<now, attempts>>

(* Mutant: the cleanup drops running windows too.                           *)
CleanRunning(c) ==
  /\ counters' = Restrict(counters, DOMAIN counters \ {c})
  /\ UNCHANGED <<now, waiting, attempts, admitted, rejected>>

(* cleanup: retain keeps the windows that still run.  It holds one shard at *)
(* a time, so the clients leave one by one; nothing to remove is no change. *)
Clean(c) ==
  /\ counters' = IF c \in DOMAIN counters /\ Expired(counters[c])
                 THEN Restrict(counters, DOMAIN counters \ {c})
                 ELSE counters
  /\ UNCHANGED <<now, waiting, attempts, admitted, rejected>>

(* A check is not kept from the lock for longer than Delay.                 *)
Tick ==
  /\ now < MaxTime
  /\ \A w \in DOMAIN waiting : now - waiting[w].read < Delay
  /\ now' = now + 1
  /\ UNCHANGED <<counters, waiting, attempts, admitted, rejected>>

Next ==
  \/ \E w \in Workers : (\E c \in Clients : ReadClock(w, c)) \/ Decide(w)
  \/ \E c \in Clients : Clean(c)
  \/ Tick

Spec == Init /\ [][Next]_vars

-----------------------------------------------------------------------------
(* Properties                                                              *)

(* Of the times of a history, those n places apart are span ticks apart: a  *)
(* stretch of span ticks holds n of them at most.                           *)
AtMost(times, n, span) ==
  \A i \in 1 .. Len(times) - n : times[i + n] - times[i] >= span

(* Window ticks meet two windows.  They meet a third when a delayed check   *)
(* opens one with a time already past, so that it ends early; then the      *)
(* request that opened the first of the three lies before them.             *)
MostAdmitted == IF Delay <= 1 THEN 2 * Limit ELSE 3 * Limit - 1

(* Over any stretch of one window's length, wherever it lies, a client gets *)
(* through no more than that; resets, delayed checks and the cleanup        *)
(* together never allow more.                                               *)
SlidingBound == \A c \in Clients : AtMost(admitted[c], MostAdmitted, Window)

(* A client whose requests keep to the limit is never rejected, in whatever *)
(* order its checks get the lock.  The limit is kept when no stretch of     *)
(* Window + Delay ticks brings more than Limit requests: within the length  *)
(* of a window alone is not enough, because a delayed check is counted in   *)
(* the window of those that came after it.                                  *)
PoliteNeverRejected ==
  \A c \in Clients : AtMost(attempts[c], Limit, Window + Delay) => c \notin rejected
=============================================================================
