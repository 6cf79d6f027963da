-------------------------- MODULE RateLimiterProofs --------------------------
(***************************************************************************)
(* Proofs about the rate limiter: how many requests a client gets through  *)
(* in any stretch of a window's length, and that a client whose requests   *)
(* keep to the limit is never rejected, for every number of clients and    *)
(* tasks, every limit, window and delay.                                   *)
(*                                                                         *)
(* The bound is not inductive: it says nothing of how the requests already *)
(* admitted lie with respect to the window that is running, and the next   *)
(* one depends on that.  Ready and Running below say it, before a window   *)
(* is opened and while it runs.  Nor is it inductive that a polite client  *)
(* is not rejected: PoliteInv says which of its requests the count of a    *)
(* window stands for, though their checks get the lock in another order.   *)
(***************************************************************************)
EXTENDS RateLimiter, FiniteSetTheorems, TLAPS

Entry == [count : Nat \ {0}, start : Nat]

(* The times of a history, in order and none after t.                       *)
InOrder(A, t) ==
  /\ \A i \in 1 .. Len(A) : A[i] <= t
  /\ \A i, j \in 1 .. Len(A) : i <= j => A[i] <= A[j]

(* Values have their types, requests come in order, a check under way is    *)
(* that of a request of its own, and is not kept from the lock for longer   *)
(* than Delay.                                                              *)
TypeOK ==
  /\ now \in Nat
  /\ DOMAIN counters \subseteq Clients
  /\ counters \in [DOMAIN counters -> Entry]
  /\ \A c \in DOMAIN counters : counters[c].start <= now
  /\ waiting \in [DOMAIN waiting -> [client : Clients, read : Nat, place : Nat]]
  /\ \A w \in DOMAIN waiting : waiting[w].read \in now - Delay .. now
  /\ attempts \in [Clients -> Seq(Nat)]
  /\ admitted \in [Clients -> Seq(Nat)]

(* Requests admitted at the times A, when a window may be opened at t: they *)
(* are all before t, those before the last Limit - 1 have their window      *)
(* behind them but for the Delay with which it may have been opened, and    *)
(* those before the last 2 * Limit - 1 have it behind them without it.      *)
Ready(A, t) ==
  /\ \A i \in 1 .. Len(A) : A[i] < t
  /\ \A i \in 1 .. Len(A) - Limit + 1 : A[i] <= t - Window + Delay
  /\ \A i \in 1 .. Len(A) - Limit : A[i] < t - Window + Delay
  /\ \A i \in 1 .. Len(A) - 2 * Limit + 1 : A[i] <= t - Window

(* The requests of the running window that were admitted: the last m.       *)
InWindow(entry) == IF entry.count <= Limit THEN entry.count ELSE Limit

(* Requests admitted at the times A, with the window entry: the last m are  *)
(* its own.  The first of those, at open, came at most Delay after its      *)
(* start; the others are what Ready left when the window was opened.        *)
Running(A, entry) ==
  LET m == InWindow(entry)
      before == Len(A) - m
      open == A[before + 1]
  IN /\ before >= 0
     /\ \A i \in 1 .. Len(A) : A[i] < entry.start + Window
     /\ open <= entry.start + Delay
     /\ \A i \in 1 .. before : A[i] < entry.start + Delay
     /\ \A i \in 1 .. before - Limit + 1 : A[i] <= entry.start + 2 * Delay - Window
     /\ \A i \in 1 .. before - Limit : A[i] < open - Window + Delay
     /\ \A i \in 1 .. before - 2 * Limit + 1 : A[i] <= open - Window

AdmittedInv ==
  \A c \in Clients :
    /\ InOrder(admitted[c], now)
    /\ AtMost(admitted[c], MostAdmitted, Window)
    /\ IF c \in DOMAIN counters THEN Running(admitted[c], counters[c])
                                ELSE Ready(admitted[c], now)

(* Each check under way has its own place in the history of its client, and *)
(* that history is in order.                                                *)
Placed ==
  /\ \A c \in Clients : InOrder(attempts[c], now)
  /\ \A w \in DOMAIN waiting :
       /\ waiting[w].place \in 1 .. Len(attempts[waiting[w].client])
       /\ attempts[waiting[w].client][waiting[w].place] = waiting[w].read
  /\ \A v, w \in DOMAIN waiting :
       v # w /\ waiting[v].client = waiting[w].client => waiting[v].place # waiting[w].place

(* The requests of a client that came at t or later and are decided.        *)
DecidedSince(c, t) ==
  {i \in 1 .. Len(attempts[c]) :
     /\ attempts[c][i] >= t
     /\ \A w \in DOMAIN waiting : waiting[w].client = c => waiting[w].place # i}

(* What a window has counted came at most Delay before its start; a client  *)
(* that was rejected has broken the limit.                                  *)
PoliteInv ==
  /\ Placed
  /\ \A c \in DOMAIN counters :
       counters[c].count <= Cardinality(DecidedSince(c, counters[c].start - Delay))
  /\ PoliteNeverRejected

-----------------------------------------------------------------------------
(* Lemmas about histories                                                  *)

(* What an append does to a history of times.                               *)
LEMMA Appended ==
  ASSUME NEW A \in Seq(Nat), NEW t \in Nat
  PROVE  /\ Append(A, t) \in Seq(Nat)
         /\ Len(Append(A, t)) = Len(A) + 1
         /\ \A i \in 1 .. Len(A) : Append(A, t)[i] = A[i]
         /\ Append(A, t)[Len(A) + 1] = t
         /\ Len(A) \in Nat
         /\ \A i \in 1 .. Len(A) : A[i] \in Nat
OBVIOUS

(* A history stays in order as time passes and as the present is added.     *)
LEMMA InOrderAppend ==
  ASSUME NEW A \in Seq(Nat), NEW t \in Nat, InOrder(A, t)
  PROVE  InOrder(Append(A, t), t)
BY Appended DEF InOrder

(* Any n of a history and the one after them are a window apart, the new    *)
(* one too if the one n places before it is a window back.                  *)
LEMMA AtMostAppend ==
  ASSUME NEW A \in Seq(Nat), NEW t \in Nat, NEW n \in Nat \ {0},
         AtMost(A, n, Window),
         Len(A) + 1 > n => A[Len(A) + 1 - n] <= t - Window
  PROVE  AtMost(Append(A, t), n, Window)
BY Appended, LimitAssumption DEF AtMost

(* A history within a limit was so before its last entry.                   *)
LEMMA AtMostFront ==
  ASSUME NEW A \in Seq(Nat), NEW t \in Nat, NEW n \in Nat \ {0}, NEW d \in Nat,
         AtMost(Append(A, t), n, d)
  PROVE  AtMost(A, n, d)
<1> DEFINE B == Append(A, t)
<1>1. /\ Len(A) \in Nat /\ Len(B) = Len(A) + 1
      /\ \A i \in 1 .. Len(A) : A[i] \in Nat /\ B[i] = A[i]
  BY Appended
<1>2. \A i \in 1 .. Len(B) - n : B[i + n] - B[i] >= d
  BY DEF AtMost
<1> HIDE DEF B
<1>3. ASSUME NEW i \in 1 .. Len(A) - n  PROVE  A[i + n] - A[i] >= d
  <2>1. /\ i \in 1 .. Len(A) /\ i + n \in 1 .. Len(A) /\ i \in 1 .. Len(B) - n
    BY <1>1
  <2> QED  BY <1>1, <1>2, <2>1
<1> QED  BY <1>3 DEF AtMost

(* The constants, as the provers want them.                                 *)
LEMMA Constants ==
  /\ Limit \in Nat /\ Limit > 0 /\ Window \in Nat /\ Window > 0
  /\ Delay \in Nat /\ 2 * Delay <= Window
  /\ MostAdmitted \in Nat \ {0}
BY LimitAssumption, DelayAssumption DEF MostAdmitted

(* Where a window may be opened, it may be opened later too.                *)
LEMMA ReadyLater ==
  ASSUME NEW A \in Seq(Nat), NEW t \in Nat, Ready(A, t)
  PROVE  Ready(A, t + 1)
BY Constants DEF Ready

(* The windows of a client follow each other: where one has ended, the next *)
(* may be opened.                                                           *)
LEMMA ReadyAfter ==
  ASSUME NEW A \in Seq(Nat), NEW t \in Nat, NEW entry \in Entry,
         InOrder(A, t), Running(A, entry), t - entry.start >= Window
  PROVE  Ready(A, t)
<1> DEFINE m == InWindow(entry)
           before == Len(A) - m
           s == entry.start
<1>1. s \in Nat /\ m \in 1 .. Limit
  BY Constants DEF Entry, InWindow
<1>2. /\ before >= 0
      /\ \A i \in 1 .. Len(A) : A[i] < s + Window
      /\ A[before + 1] <= s + Delay
      /\ \A i \in 1 .. before : A[i] < s + Delay
      /\ \A i \in 1 .. before - Limit + 1 : A[i] <= s + 2 * Delay - Window
  BY DEF Running
<1>3. t - s >= Window
  OBVIOUS
<1> HIDE DEF m
<1>4. /\ Len(A) \in Nat /\ \A i \in 1 .. Len(A) : A[i] \in Nat
      /\ before \in Nat /\ before + 1 \in 1 .. Len(A)
      /\ before >= Len(A) - Limit
  <2>1. before >= 0
    BY <1>2
  <2>2. Len(A) \in Nat /\ \A i \in 1 .. Len(A) : A[i] \in Nat
    OBVIOUS
  <2> QED  BY <1>1, <2>1, <2>2, Constants
<1> HIDE DEF before, s
<1>5. \A i \in 1 .. Len(A) : A[i] < t
  BY <1>1, <1>2, <1>3, <1>4, Constants
<1>6. ASSUME NEW i \in 1 .. Len(A) - Limit + 1  PROVE  A[i] <= t - Window + Delay
  <2>1. i \in 1 .. Len(A) /\ i <= before + 1
    BY <1>4, Constants
  <2>2. A[i] <= A[before + 1] /\ A[i] \in Nat /\ A[before + 1] \in Nat
    BY <2>1, <1>4 DEF InOrder
  <2> QED  BY <2>2, <1>1, <1>2, <1>3, Constants
<1>7. ASSUME NEW i \in 1 .. Len(A) - Limit  PROVE  A[i] < t - Window + Delay
  <2>1. i \in 1 .. Len(A) /\ i \in 1 .. before
    BY <1>4, Constants
  <2>2. A[i] < s + Delay /\ A[i] \in Nat
    BY <2>1, <1>2, <1>4
  <2> QED  BY <2>2, <1>1, <1>3, Constants
<1>8. ASSUME NEW i \in 1 .. Len(A) - 2 * Limit + 1  PROVE  A[i] <= t - Window
  <2>1. i \in 1 .. Len(A) /\ i \in 1 .. before - Limit + 1
    BY <1>4, Constants
  <2>2. A[i] <= s + 2 * Delay - Window /\ A[i] \in Nat
    BY <2>1, <1>2, <1>4
  <2> QED  BY <2>2, <1>1, <1>3, Constants
<1> QED  BY <1>5, <1>6, <1>7, <1>8 DEF Ready

(* The check that opens a window is admitted, and the bound still holds.    *)
LEMMA Opens ==
  ASSUME NEW A \in Seq(Nat), NEW t \in Nat, NEW r \in Nat, r \in t - Delay .. t,
         Ready(A, t), AtMost(A, MostAdmitted, Window)
  PROVE  /\ Running(Append(A, t), [count |-> 1, start |-> r])
         /\ AtMost(Append(A, t), MostAdmitted, Window)
<1> DEFINE B == Append(A, t)
           n == Len(A)
           entry == [count |-> 1, start |-> r]
<1>1. /\ n \in Nat /\ Len(B) = n + 1
      /\ \A i \in 1 .. n : A[i] \in Nat /\ B[i] = A[i]
      /\ B[n + 1] = t
  BY Appended
<1>2. InWindow(entry) = 1 /\ entry.start = r /\ Len(B) - InWindow(entry) = n
  BY <1>1, Constants DEF InWindow
<1>3. /\ \A i \in 1 .. n : A[i] < t
      /\ \A i \in 1 .. n - Limit + 1 : A[i] <= t - Window + Delay
      /\ \A i \in 1 .. n - Limit : A[i] < t - Window + Delay
      /\ \A i \in 1 .. n - 2 * Limit + 1 : A[i] <= t - Window
  BY DEF Ready
<1>4. r <= t /\ t <= r + Delay
  BY Constants
<1> HIDE DEF B, n, entry
<1>5. ASSUME NEW i \in 1 .. Len(B)  PROVE  B[i] < r + Window
  <2>1. i \in 1 .. n \/ i = n + 1
    BY <1>1
  <2> QED  BY <2>1, <1>1, <1>3, <1>4, Constants
<1>6. \A i \in 1 .. n : B[i] < r + Delay
  BY <1>1, <1>3, <1>4, Constants
<1>7. ASSUME NEW i \in 1 .. n - Limit + 1  PROVE  B[i] <= r + 2 * Delay - Window
  <2>1. i \in 1 .. n
    BY <1>1, Constants
  <2> QED  BY <2>1, <1>1, <1>3, <1>4, Constants
<1>8. ASSUME NEW i \in 1 .. n - Limit  PROVE  B[i] < t - Window + Delay
  <2>1. i \in 1 .. n
    BY <1>1, Constants
  <2> QED  BY <2>1, <1>1, <1>3
<1>9. ASSUME NEW i \in 1 .. n - 2 * Limit + 1  PROVE  B[i] <= t - Window
  <2>1. i \in 1 .. n
    BY <1>1, Constants
  <2> QED  BY <2>1, <1>1, <1>3
<1>10. Running(B, entry)
  BY <1>1, <1>2, <1>4, <1>5, <1>6, <1>7, <1>8, <1>9 DEF Running
<1>11. ASSUME n + 1 > MostAdmitted
       PROVE  A[n + 1 - MostAdmitted] <= t - Window
  <2> DEFINE i == n + 1 - MostAdmitted
  <2>1. CASE Delay <= 1
    <3>1. i \in 1 .. n - Limit /\ i \in 1 .. n
      BY <2>1, <1>1, <1>11, Constants DEF MostAdmitted
    <3> QED  BY <3>1, <2>1, <1>1, <1>3, Constants
  <2>2. CASE ~ (Delay <= 1)
    <3>1. i \in 1 .. n - 2 * Limit + 1
      BY <2>2, <1>1, <1>11, Constants DEF MostAdmitted
    <3> QED  BY <3>1, <1>3
  <2> QED  BY <2>1, <2>2
<1> QED  BY <1>10, <1>11, AtMostAppend, Constants DEF B, n, entry

(* So is one that finds the running window below its limit.                 *)
LEMMA Joins ==
  ASSUME NEW A \in Seq(Nat), NEW t \in Nat, NEW entry \in Entry,
         InOrder(A, t), Running(A, entry), AtMost(A, MostAdmitted, Window),
         ~ (t - entry.start >= Window), entry.count + 1 <= Limit
  PROVE  /\ Running(Append(A, t), [entry EXCEPT !.count = @ + 1])
         /\ AtMost(Append(A, t), MostAdmitted, Window)
<1> DEFINE B == Append(A, t)
           n == Len(A)
           m == entry.count
           s == entry.start
           before == n - m
           open == A[before + 1]
           next == [entry EXCEPT !.count = @ + 1]
<1>1. /\ n \in Nat /\ Len(B) = n + 1
      /\ \A i \in 1 .. n : A[i] \in Nat /\ B[i] = A[i]
      /\ B[n + 1] = t
  BY Appended
<1>2. m \in Nat /\ m >= 1 /\ m + 1 <= Limit /\ s \in Nat /\ t < s + Window
  BY Constants DEF Entry
<1>3. InWindow(entry) = m /\ InWindow(next) = m + 1 /\ next.start = s
  BY <1>2, Constants DEF InWindow, Entry
<1>4. /\ before >= 0
      /\ \A i \in 1 .. n : A[i] < s + Window
      /\ open <= s + Delay
      /\ \A i \in 1 .. before : A[i] < s + Delay
      /\ \A i \in 1 .. before - Limit + 1 : A[i] <= s + 2 * Delay - Window
      /\ \A i \in 1 .. before - Limit : A[i] < open - Window + Delay
      /\ \A i \in 1 .. before - 2 * Limit + 1 : A[i] <= open - Window
  BY <1>3 DEF Running
<1> HIDE DEF B, n, m, s, next, open
<1>5. /\ before \in Nat /\ before + 1 \in 1 .. n /\ before < n
      /\ before > n - Limit
      /\ Len(B) - (m + 1) = before
  BY <1>1, <1>2, <1>4, Constants
<1>6. open \in Nat /\ open <= t /\ B[before + 1] = open
  BY <1>1, <1>5 DEF InOrder, n, open
<1> HIDE DEF before
<1>7. ASSUME NEW i \in 1 .. Len(B)  PROVE  B[i] < s + Window
  <2>1. i \in 1 .. n \/ i = n + 1
    BY <1>1
  <2> QED  BY <2>1, <1>1, <1>2, <1>4
<1>8. ASSUME NEW i \in 1 .. before  PROVE  i \in 1 .. n
  BY <1>1, <1>5
<1>9. \A i \in 1 .. before : B[i] < s + Delay
  BY <1>1, <1>4, <1>8
<1>10. ASSUME NEW i \in 1 .. before - Limit + 1  PROVE  B[i] <= s + 2 * Delay - Window
  <2>1. i \in 1 .. before
    BY <1>5, Constants
  <2> QED  BY <2>1, <1>1, <1>4, <1>8
<1>11. ASSUME NEW i \in 1 .. before - Limit  PROVE  B[i] < open - Window + Delay
  <2>1. i \in 1 .. before
    BY <1>5, Constants
  <2> QED  BY <2>1, <1>1, <1>4, <1>8
<1>12. ASSUME NEW i \in 1 .. before - 2 * Limit + 1  PROVE  B[i] <= open - Window
  <2>1. i \in 1 .. before
    BY <1>5, Constants
  <2> QED  BY <2>1, <1>1, <1>4, <1>8
<1>13. Running(B, next)
  BY <1>3, <1>4, <1>5, <1>6, <1>7, <1>9, <1>10, <1>11, <1>12 DEF Running
<1>14. ASSUME n + 1 > MostAdmitted
       PROVE  A[n + 1 - MostAdmitted] <= t - Window
  <2> DEFINE i == n + 1 - MostAdmitted
  <2>1. CASE Delay <= 1
    <3>1. i \in 1 .. before - Limit /\ i \in 1 .. n
      BY <2>1, <1>1, <1>5, <1>14, Constants DEF MostAdmitted
    <3> QED  BY <3>1, <2>1, <1>1, <1>4, <1>6, Constants
  <2>2. CASE ~ (Delay <= 1)
    <3>1. i \in 1 .. before - 2 * Limit + 1 /\ i \in 1 .. n
      BY <2>2, <1>1, <1>5, <1>14, Constants DEF MostAdmitted
    <3> QED  BY <3>1, <1>1, <1>4, <1>6, Constants
  <2> QED  BY <2>1, <2>2
<1> QED  BY <1>13, <1>14, AtMostAppend, Constants DEF B, n, next

(* One that finds it at its limit leaves the history alone.                 *)
LEMMA TurnedAway ==
  ASSUME NEW A \in Seq(Nat), NEW entry \in Entry, Running(A, entry),
         ~ (entry.count + 1 <= Limit)
  PROVE  Running(A, [entry EXCEPT !.count = @ + 1])
<1> DEFINE next == [entry EXCEPT !.count = @ + 1]
<1>1. InWindow(next) = InWindow(entry) /\ next.start = entry.start
  BY Constants DEF InWindow, Entry
<1> QED  BY <1>1 DEF Running

-----------------------------------------------------------------------------
(* The state                                                               *)

(* What a check finds under the lock and leaves there: a window of its own, *)
(* when there is none or the one there has ended, or one more request in    *)
(* the one that runs.                                                       *)
LEMMA CountedEffect ==
  ASSUME TypeOK, NEW w \in DOMAIN waiting
  PROVE  LET c == waiting[w].client
             r == waiting[w].read
             fresh == c \notin DOMAIN counters \/ Expired(counters[c])
             entry == Counted(Found(c, r), r)
         IN /\ c \in Clients /\ r \in Nat /\ r \in now - Delay .. now
            /\ fresh => entry = [count |-> 1, start |-> r]
            /\ ~ fresh => /\ counters[c] \in Entry
                          /\ entry = [counters[c] EXCEPT !.count = @ + 1]
            /\ entry \in Entry /\ entry.start <= now
<1> DEFINE c == waiting[w].client
           r == waiting[w].read
           entry == Counted(Found(c, r), r)
<1>1. c \in Clients /\ r \in Nat /\ r \in now - Delay .. now /\ now \in Nat
  BY DEF TypeOK
<1> HIDE DEF c, r
<1>2. CASE c \notin DOMAIN counters
  <2>1. Found(c, r) = [count |-> 0, start |-> r]
    BY <1>2 DEF Found
  <2>2. ~ Expired(Found(c, r))
    BY <2>1, <1>1, Constants DEF Expired
  <2>3. entry = [count |-> 1, start |-> r]
    BY <2>1, <2>2 DEF Counted
  <2> QED  BY <2>3, <1>1, <1>2 DEF Entry, c, r
<1>3. CASE c \in DOMAIN counters /\ Expired(counters[c])
  <2>1. entry = [count |-> 1, start |-> r]
    BY <1>3 DEF Found, Counted
  <2> QED  BY <2>1, <1>1, <1>3 DEF Entry, c, r
<1>4. CASE c \in DOMAIN counters /\ ~ Expired(counters[c])
  <2>1. counters[c] \in Entry
          /\ counters[c].start <= now
    BY <1>4 DEF TypeOK
  <2>2. entry = [counters[c] EXCEPT !.count = @ + 1]
    BY <1>4 DEF Found, Counted
  <2>3. entry \in Entry /\ entry.start <= now
    BY <2>1, <2>2 DEF Entry
  <2> QED  BY <2>1, <2>2, <2>3, <1>1, <1>4 DEF c, r
<1> QED  BY <1>2, <1>3, <1>4

(* Values keep their types, and time its order.                             *)
LEMMA TypeInv == Spec => []TypeOK
<1>1. Init => TypeOK
  BY DEF Init, TypeOK
<1>2. TypeOK /\ [Next]_vars => TypeOK'
  <2> SUFFICES ASSUME TypeOK, [Next]_vars  PROVE TypeOK'
    OBVIOUS
  <2>1. ASSUME NEW w \in Workers, NEW c \in Clients, ReadClock(w, c)
        PROVE  TypeOK'
    <3> DEFINE entry == [client |-> c, read |-> now, place |-> Len(attempts[c]) + 1]
    <3>1. /\ now \in Nat /\ attempts[c] \in Seq(Nat) /\ attempts \in [Clients -> Seq(Nat)]
          /\ attempts' = [attempts EXCEPT ![c] = Append(@, now)]
          /\ waiting' = Put(waiting, w, entry)
          /\ UNCHANGED <<now, counters, admitted>>
      BY <2>1 DEF ReadClock, TypeOK
    <3>2. Append(attempts[c], now) \in Seq(Nat)
      BY <3>1
    <3>3. entry \in [client : Clients, read : Nat, place : Nat]
      BY <3>1
    <3>4. entry.read \in now - Delay .. now
      BY <3>1, Constants
    <3> HIDE DEF entry
    <3>5. /\ waiting' \in [DOMAIN waiting' -> [client : Clients, read : Nat, place : Nat]]
          /\ \A v \in DOMAIN waiting' : waiting'[v].read \in now - Delay .. now
      BY <3>1, <3>3, <3>4 DEF TypeOK, Put
    <3> QED  BY <3>1, <3>2, <3>5 DEF TypeOK
  <2>2. ASSUME NEW w \in Workers, Decide(w)
        PROVE  TypeOK'
    <3> DEFINE c == waiting[w].client
               entry == Counted(Found(c, waiting[w].read), waiting[w].read)
    <3>1. w \in DOMAIN waiting
      BY <2>2 DEF Decide
    <3>2. c \in Clients /\ entry \in Entry /\ entry.start <= now
      BY <3>1, CountedEffect
    <3>3. /\ now' = now
          /\ counters' = Put(counters, c, entry)
          /\ waiting' = Restrict(waiting, DOMAIN waiting \ {w})
          /\ attempts' = attempts
          /\ admitted' = admitted \/ admitted' = [admitted EXCEPT ![c] = Append(@, now)]
      BY <2>2 DEF Decide
    <3> HIDE DEF c, entry
    <3>4. /\ DOMAIN counters' \subseteq Clients
          /\ counters' \in [DOMAIN counters' -> Entry]
          /\ \A d \in DOMAIN counters' : counters'[d].start <= now
      BY <3>2, <3>3 DEF TypeOK, Put
    <3>5. /\ waiting' \in [DOMAIN waiting' -> [client : Clients, read : Nat, place : Nat]]
          /\ \A v \in DOMAIN waiting' : waiting'[v].read \in now - Delay .. now
      BY <3>3 DEF TypeOK, Restrict
    <3>6. /\ attempts' \in [Clients -> Seq(Nat)]
          /\ admitted' \in [Clients -> Seq(Nat)]
      <4>1. now \in Nat /\ admitted[c] \in Seq(Nat)
        BY <3>2 DEF TypeOK
      <4>2. Append(admitted[c], now) \in Seq(Nat)
        BY <4>1
      <4> QED  BY <3>3, <4>2 DEF TypeOK
    <3> QED  BY <3>3, <3>4, <3>5, <3>6 DEF TypeOK
  <2>3. ASSUME NEW c \in Clients, Clean(c)
        PROVE  TypeOK'
    BY <2>3 DEF Clean, TypeOK, Restrict
  <2>4. CASE Tick
    <3>1. /\ now' = now + 1 /\ now \in Nat
          /\ UNCHANGED <<counters, waiting, attempts, admitted, rejected>>
          /\ \A w \in DOMAIN waiting : now - waiting[w].read < Delay
      BY <2>4 DEF Tick, TypeOK
    <3>3. ASSUME NEW c \in DOMAIN counters
          PROVE  counters[c].start <= now + 1
      <4>1. counters[c].start \in Nat /\ counters[c].start <= now
        BY DEF TypeOK, Entry
      <4> QED  BY <3>1, <4>1
    <3>4. now' \in Nat
      BY <3>1
    <3>5. ASSUME NEW w \in DOMAIN waiting'
          PROVE  waiting'[w].read \in now' - Delay .. now'
      <4> DEFINE r == waiting'[w].read
      <4>1. w \in DOMAIN waiting /\ r = waiting[w].read
        BY <3>1
      <4>2. r \in Nat /\ r \in now - Delay .. now /\ now - r < Delay
        BY <3>1, <4>1 DEF TypeOK
      <4> HIDE DEF r
      <4>3. r <= now' /\ now' - Delay <= r
        BY <3>1, <4>2, Constants
      <4> QED  BY <3>4, <4>2, <4>3, Constants DEF r
    <3> QED  BY <3>1, <3>3, <3>4, <3>5 DEF TypeOK
  <2>5. CASE UNCHANGED vars
    BY <2>5 DEF vars, TypeOK
  <2> QED  BY <2>1, <2>2, <2>3, <2>4, <2>5 DEF Next
<1> QED  BY <1>1, <1>2, PTL DEF Spec

(* The history of what a client got through, and its window, stay related   *)
(* as Ready and Running say.                                                *)
LEMMA AdmittedInvariant == Spec => []AdmittedInv
<1>1. Init => AdmittedInv
  BY Constants DEF Init, AdmittedInv, InOrder, AtMost, Ready
<1>2. TypeOK /\ AdmittedInv /\ [Next]_vars => AdmittedInv'
  <2> SUFFICES ASSUME TypeOK, AdmittedInv, [Next]_vars  PROVE AdmittedInv'
    OBVIOUS
  <2>0. /\ now \in Nat
        /\ \A c \in Clients : admitted[c] \in Seq(Nat)
        /\ \A c \in DOMAIN counters : counters[c] \in Entry
    BY DEF TypeOK
  <2>1. ASSUME NEW w \in Workers, NEW c \in Clients, ReadClock(w, c)
        PROVE  AdmittedInv'
    BY <2>1 DEF ReadClock, AdmittedInv
  <2>2. ASSUME NEW w \in Workers, Decide(w)
        PROVE  AdmittedInv'
    <3> DEFINE c == waiting[w].client
               r == waiting[w].read
               fresh == c \notin DOMAIN counters \/ Expired(counters[c])
               entry == Counted(Found(c, r), r)
               A == admitted[c]
    <3>1. w \in DOMAIN waiting
      BY <2>2 DEF Decide
    <3>2. /\ c \in Clients /\ r \in Nat /\ r \in now - Delay .. now
          /\ fresh => entry = [count |-> 1, start |-> r]
          /\ ~ fresh => /\ counters[c] \in Entry
                        /\ entry = [counters[c] EXCEPT !.count = @ + 1]
          /\ entry \in Entry
      BY <3>1, CountedEffect
    <3>3. /\ now' = now
          /\ counters' = Put(counters, c, entry)
          /\ admitted' = IF Admits(entry)
                         THEN [admitted EXCEPT ![c] = Append(@, now)] ELSE admitted
      BY <2>2 DEF Decide
    <3> HIDE DEF c, r, entry
    <3>4. /\ A \in Seq(Nat) /\ InOrder(A, now) /\ AtMost(A, MostAdmitted, Window)
          /\ c \in DOMAIN counters => Running(A, counters[c])
          /\ c \notin DOMAIN counters => Ready(A, now)
      BY <3>2 DEF AdmittedInv, TypeOK
    <3>5. /\ \A d \in Clients : d # c => admitted'[d] = admitted[d]
          /\ admitted'[c] = IF Admits(entry) THEN Append(A, now) ELSE A
      BY <3>2, <3>3 DEF TypeOK
    <3>6. /\ counters'[c] = entry /\ c \in DOMAIN counters'
          /\ \A d \in Clients : d # c => /\ d \in DOMAIN counters' <=> d \in DOMAIN counters
                                         /\ counters'[d] = IF d \in DOMAIN counters THEN counters[d] ELSE counters'[d]
      BY <3>2, <3>3 DEF Put
    <3>7. InOrder(Append(A, now), now)
      BY <3>4, <2>0, InOrderAppend
    <3> HIDE DEF A
    <3>8. /\ InOrder(admitted'[c], now)
          /\ AtMost(admitted'[c], MostAdmitted, Window)
          /\ Running(admitted'[c], entry)
      <4>1. CASE fresh
        <5>1. Ready(A, now)
          BY <4>1, <3>4, <2>0, ReadyAfter DEF Expired
        <5>2. Admits(entry)
          BY <4>1, <3>2, Constants DEF Admits
        <5> QED  BY <5>1, <5>2, <4>1, <3>2, <3>4, <3>5, <3>7, <2>0, Opens
      <4>2. CASE ~ fresh /\ Admits(entry)
        <5>1. counters[c].count + 1 <= Limit
          BY <4>2, <3>2 DEF Admits, Entry
        <5>2. /\ Running(Append(A, now), entry)
              /\ AtMost(Append(A, now), MostAdmitted, Window)
          BY <5>1, <4>2, <3>2, <3>4, <2>0, Joins DEF Expired
        <5> QED  BY <5>2, <4>2, <3>5, <3>7
      <4>3. CASE ~ fresh /\ ~ Admits(entry)
        <5>1. ~ (counters[c].count + 1 <= Limit)
          BY <4>3, <3>2 DEF Admits, Entry
        <5>2. Running(A, entry)
          BY <5>1, <4>3, <3>2, <3>4, TurnedAway
        <5> QED  BY <5>2, <4>3, <3>4, <3>5
      <4> QED  BY <4>1, <4>2, <4>3
    <3>9. ASSUME NEW d \in Clients
          PROVE  /\ InOrder(admitted'[d], now)
                 /\ AtMost(admitted'[d], MostAdmitted, Window)
                 /\ IF d \in DOMAIN counters' THEN Running(admitted'[d], counters'[d])
                                              ELSE Ready(admitted'[d], now)
      <4>1. CASE d = c
        BY <4>1, <3>6, <3>8
      <4>2. CASE d # c
        BY <4>2, <3>5, <3>6 DEF AdmittedInv
      <4> QED  BY <4>1, <4>2
    <3> QED  BY <3>3, <3>9 DEF AdmittedInv
  <2>3. ASSUME NEW c \in Clients, Clean(c)
        PROVE  AdmittedInv'
    <3>1. CASE c \in DOMAIN counters /\ Expired(counters[c])
      <4>1. counters' = Restrict(counters, DOMAIN counters \ {c}) /\ UNCHANGED <<now, admitted>>
        BY <2>3, <3>1 DEF Clean
      <4>2. Ready(admitted[c], now)
        BY <3>1, <2>0, ReadyAfter DEF AdmittedInv, Expired
      <4> QED  BY <4>1, <4>2 DEF AdmittedInv, Restrict
    <3>2. CASE ~ (c \in DOMAIN counters /\ Expired(counters[c]))
      BY <2>3, <3>2 DEF Clean, AdmittedInv
    <3> QED  BY <3>1, <3>2
  <2>4. CASE Tick
    <3>1. now' = now + 1 /\ UNCHANGED <<counters, admitted>>
      BY <2>4 DEF Tick
    <3>2. ASSUME NEW c \in Clients
          PROVE  /\ InOrder(admitted[c], now + 1)
                 /\ Ready(admitted[c], now) => Ready(admitted[c], now + 1)
      <4>1. InOrder(admitted[c], now)
        BY DEF AdmittedInv
      <4>2. \A i \in 1 .. Len(admitted[c]) : admitted[c][i] \in Nat
        BY <2>0
      <4> QED  BY <4>1, <4>2, <2>0, ReadyLater DEF InOrder
    <3> QED  BY <3>1, <3>2 DEF AdmittedInv
  <2>5. CASE UNCHANGED vars
    BY <2>5 DEF vars, AdmittedInv
  <2> QED  BY <2>1, <2>2, <2>3, <2>4, <2>5 DEF Next
<1> QED  BY <1>1, <1>2, TypeInv, PTL DEF Spec

(* Over any stretch of one window's length a client gets through at most    *)
(* MostAdmitted requests (check, cleanup).                                  *)
THEOREM SlidingBoundHolds == Spec => []SlidingBound
<1>1. AdmittedInv => SlidingBound
  BY DEF AdmittedInv, SlidingBound
<1> QED  BY <1>1, AdmittedInvariant, PTL

(* More than Limit requests since t cannot be among those of a client that  *)
(* keeps to the limit, while no more than a window and a delay has passed.  *)
LEMMA PoliteCount ==
  ASSUME NEW A \in Seq(Nat), NEW n \in Nat, InOrder(A, n), NEW t \in Int,
         n < t + Window + Delay,
         AtMost(A, Limit, Window + Delay)
  PROVE  \A S \in SUBSET {i \in 1 .. Len(A) : A[i] >= t} : Cardinality(S) <= Limit
<1> DEFINE l == Len(A)
           k == l - Limit
<1>1. /\ l \in Nat /\ k \in Int /\ k + Limit = l /\ k <= l
      /\ \A i \in 1 .. l : A[i] \in Nat
  BY Constants
<1>2. \A i \in 1 .. l : A[i] <= n
  BY DEF InOrder
<1>3. \A i \in 1 .. l - Limit : A[i + Limit] - A[i] >= Window + Delay
  BY DEF AtMost
<1>4. \A i, j \in 1 .. l : i <= j => A[i] <= A[j]
  BY DEF InOrder
<1> HIDE DEF l, k
<1>5. \A i \in 1 .. l : A[i] >= t => i \in k + 1 .. l
  <2> SUFFICES ASSUME NEW i \in 1 .. l, A[i] >= t, i <= k  PROVE FALSE
    BY <1>1
  <2>1. i + Limit \in 1 .. l /\ i \in 1 .. l - Limit
    BY <1>1, Constants
  <2>2. A[i + Limit] <= n /\ A[i + Limit] - A[i] >= Window + Delay
    BY <2>1, <1>2, <1>3
  <2>3. A[i + Limit] \in Nat /\ A[i] \in Nat
    BY <2>1, <1>1
  <2> QED  BY <2>2, <2>3, Constants
<1>6. IsFiniteSet(k + 1 .. l) /\ Cardinality(k + 1 .. l) = Limit
  <2>1. k + 1 \in Int /\ l \in Int /\ l - (k + 1) + 1 = Limit /\ ~ (k + 1 > l)
    BY <1>1, Constants
  <2> QED  BY <2>1, FS_Interval
<1>7. ASSUME NEW S \in SUBSET {i \in 1 .. l : A[i] >= t}  PROVE  Cardinality(S) <= Limit
  <2>1. S \subseteq k + 1 .. l
    BY <1>5
  <2> QED  BY <2>1, <1>6, FS_Subset
<1> QED  BY <1>7 DEF l

(* A place more in a set of places: of those of its times from t on, one     *)
(* more if its time is.                                                     *)
LEMMA PlaceAdded ==
  ASSUME NEW F, NEW a, NEW p, NEW t
  PROVE  {i \in F \cup {p} : a[i] >= t} =
           IF a[p] >= t THEN {i \in F : a[i] >= t} \cup {p} ELSE {i \in F : a[i] >= t}
OBVIOUS

(* The requests that are decided are finitely many.                         *)
LEMMA DecidedFinite ==
  ASSUME TypeOK, NEW c \in Clients, NEW t \in Int
  PROVE  /\ IsFiniteSet(DecidedSince(c, t))
         /\ Cardinality(DecidedSince(c, t)) \in Nat
         /\ DecidedSince(c, t) \subseteq {i \in 1 .. Len(attempts[c]) : attempts[c][i] >= t}
<1>1. Len(attempts[c]) \in Nat
  BY DEF TypeOK
<1>2. IsFiniteSet(1 .. Len(attempts[c]))
  BY <1>1, FS_Interval
<1>3. DecidedSince(c, t) \subseteq 1 .. Len(attempts[c])
  BY DEF DecidedSince
<1>4. IsFiniteSet(DecidedSince(c, t))
  BY <1>2, <1>3, FS_Subset
<1> QED  BY <1>4, FS_CardinalityType DEF DecidedSince

(* What a window has counted, and whom it has rejected.                     *)
LEMMA PoliteInvariant == Spec => []PoliteInv
<1>1. Init => PoliteInv
  BY DEF Init, PoliteInv, Placed, InOrder, PoliteNeverRejected
<1>2. TypeOK /\ PoliteInv /\ [Next]_vars => PoliteInv'
  <2> SUFFICES ASSUME TypeOK, PoliteInv, [Next]_vars  PROVE PoliteInv'
    OBVIOUS
  <2>0. /\ now \in Nat
        /\ \A c \in Clients : attempts[c] \in Seq(Nat)
        /\ \A c \in DOMAIN counters : c \in Clients /\ counters[c] \in Entry
        /\ \A w \in DOMAIN waiting : waiting[w].client \in Clients /\ waiting[w].place \in Nat
    BY DEF TypeOK
  <2>1. ASSUME NEW w \in Workers, NEW c \in Clients, ReadClock(w, c)
        PROVE  PoliteInv'
    <3> DEFINE A == attempts[c]
               B == Append(A, now)
               n == Len(A)
               entry == [client |-> c, read |-> now, place |-> n + 1]
    <3>1. /\ w \notin DOMAIN waiting
          /\ waiting' = Put(waiting, w, entry)
          /\ attempts' = [attempts EXCEPT ![c] = B]
          /\ UNCHANGED <<now, counters, rejected>>
      BY <2>1 DEF ReadClock
    <3>2. /\ A \in Seq(Nat) /\ n \in Nat /\ Len(B) = n + 1 /\ B[n + 1] = now
          /\ \A i \in 1 .. n : A[i] \in Nat /\ B[i] = A[i]
      BY <2>0, Appended
    <3>3. entry.client = c /\ entry.read = now /\ entry.place = n + 1
      OBVIOUS
    <3>4. /\ attempts'[c] = B
          /\ \A d \in Clients : d # c => attempts'[d] = attempts[d]
      BY <3>1 DEF TypeOK
    <3>5. /\ DOMAIN waiting' = DOMAIN waiting \cup {w} /\ waiting'[w] = entry
          /\ \A v \in DOMAIN waiting : v # w /\ waiting'[v] = waiting[v]
      BY <3>1 DEF Put
    <3>6. InOrder(A, now) /\ InOrder(B, now)
      BY <3>2, <2>0, InOrderAppend DEF PoliteInv, Placed
    <3> HIDE DEF A, B, n, entry
    <3>7. Placed'
      <4>1. \A d \in Clients : InOrder(attempts'[d], now)
        BY <3>4, <3>6 DEF PoliteInv, Placed
      <4>2. ASSUME NEW v \in DOMAIN waiting'
            PROVE  /\ waiting'[v].place \in 1 .. Len(attempts'[waiting'[v].client])
                   /\ attempts'[waiting'[v].client][waiting'[v].place] = waiting'[v].read
        <5>1. CASE v = w
          BY <5>1, <3>2, <3>3, <3>4, <3>5
        <5>2. CASE v # w
          <6>1. /\ v \in DOMAIN waiting /\ waiting'[v] = waiting[v]
                /\ waiting[v].place \in 1 .. Len(attempts[waiting[v].client])
                /\ attempts[waiting[v].client][waiting[v].place] = waiting[v].read
                /\ waiting[v].client \in Clients
            BY <5>2, <3>5, <2>0 DEF PoliteInv, Placed
          <6>2. CASE waiting[v].client = c
            <7>1. waiting[v].place \in 1 .. n /\ A[waiting[v].place] = waiting[v].read
              BY <6>1, <6>2 DEF A, n
            <7>2. waiting[v].place \in 1 .. n + 1
              BY <7>1, <3>2
            <7> QED  BY <7>1, <7>2, <6>1, <6>2, <3>2, <3>4
          <6>3. CASE waiting[v].client # c
            BY <6>1, <6>3, <3>4
          <6> QED  BY <6>2, <6>3
        <5> QED  BY <5>1, <5>2
      <4>3. ASSUME NEW v \in DOMAIN waiting, waiting[v].client = c
            PROVE  waiting[v].place # n + 1
        <5>1. waiting[v].place \in 1 .. n
          BY <4>3 DEF PoliteInv, Placed, A, n
        <5> QED  BY <5>1, <3>2
      <4>4. ASSUME NEW u \in DOMAIN waiting', NEW v \in DOMAIN waiting',
                   u # v, waiting'[u].client = waiting'[v].client
            PROVE  waiting'[u].place # waiting'[v].place
        <5>1. CASE u = w \/ v = w
          BY <5>1, <4>3, <4>4, <3>3, <3>5
        <5>2. CASE u # w /\ v # w
          BY <5>2, <4>4, <3>5 DEF PoliteInv, Placed
        <5> QED  BY <5>1, <5>2
      <4> QED  BY <4>1, <4>2, <4>4, <3>1 DEF Placed
    <3>8. ASSUME NEW d \in DOMAIN counters, NEW t \in Int
          PROVE  DecidedSince(d, t)' = DecidedSince(d, t)
      <4>0. d \in Clients
        BY <2>0
      <4>1. CASE d = c
        <5>1. ASSUME NEW i \in 1 .. n + 1
              PROVE  (\A v \in DOMAIN waiting' : waiting'[v].client = c => waiting'[v].place # i)
                     <=> /\ i # n + 1
                         /\ \A v \in DOMAIN waiting : waiting[v].client = c => waiting[v].place # i
          BY <3>3, <3>5
        <5>2. \A i \in 1 .. n + 1 : i # n + 1 <=> i \in 1 .. n
          BY <3>2
        <5>3. DecidedSince(d, t)' =
                {i \in 1 .. n + 1 :
                   /\ B[i] >= t
                   /\ \A v \in DOMAIN waiting' : waiting'[v].client = c => waiting'[v].place # i}
          BY <4>1, <3>2, <3>4 DEF DecidedSince
        <5>4. DecidedSince(d, t) =
                {i \in 1 .. n :
                   /\ A[i] >= t
                   /\ \A v \in DOMAIN waiting : waiting[v].client = c => waiting[v].place # i}
          BY <4>1 DEF DecidedSince, A, n
        <5>5. \A i \in 1 .. n : i \in 1 .. n + 1
          BY <3>2
        <5> QED  BY <5>1, <5>2, <5>3, <5>4, <5>5, <3>2
      <4>2. CASE d # c
        <5>1. attempts'[d] = attempts[d]
          BY <4>0, <4>2, <3>4
        <5>2. ASSUME NEW i
              PROVE  (\A v \in DOMAIN waiting' : waiting'[v].client = d => waiting'[v].place # i)
                     <=> \A v \in DOMAIN waiting : waiting[v].client = d => waiting[v].place # i
          BY <4>2, <3>3, <3>5
        <5> QED  BY <5>1, <5>2 DEF DecidedSince
      <4> QED  BY <4>1, <4>2
    <3>9. ASSUME NEW d \in DOMAIN counters
          PROVE  counters[d].count <= Cardinality(DecidedSince(d, counters[d].start - Delay))'
      <4>1. counters[d].start - Delay \in Int
        BY <2>0, Constants DEF Entry
      <4>2. counters[d].count <= Cardinality(DecidedSince(d, counters[d].start - Delay))
        BY DEF PoliteInv
      <4>3. counters'[d] = counters[d]
        BY <3>1
      <4> QED  BY <4>1, <4>2, <4>3, <3>8
    <3>10. ASSUME NEW d \in Clients, AtMost(attempts'[d], Limit, Window + Delay)
           PROVE  d \notin rejected
      <4>1. CASE d = c
        BY <4>1, <3>2, <3>4, <3>10, <2>0, AtMostFront, Constants
           DEF PoliteInv, PoliteNeverRejected, A, B
      <4>2. CASE d # c
        BY <4>2, <3>4, <3>10 DEF PoliteInv, PoliteNeverRejected
      <4> QED  BY <4>1, <4>2
    <3>11. \A d \in DOMAIN counters' :
             counters'[d].count <= Cardinality(DecidedSince(d, counters[d].start - Delay))'
      BY <3>1, <3>9
    <3> QED  BY <3>1, <3>7, <3>10, <3>11 DEF PoliteInv, PoliteNeverRejected
  <2>2. ASSUME NEW w \in Workers, Decide(w)
        PROVE  PoliteInv'
    <3> SUFFICES ASSUME NEW c, c = waiting[w].client,
                        NEW r, r = waiting[w].read,
                        NEW p, p = waiting[w].place,
                        NEW entry, entry = Counted(Found(c, r), r)
                 PROVE  PoliteInv'
      OBVIOUS
    <3> DEFINE fresh == c \notin DOMAIN counters \/ Expired(counters[c])
    <3>1. w \in DOMAIN waiting
      BY <2>2 DEF Decide
    <3>2. /\ c \in Clients /\ r \in Nat /\ r \in now - Delay .. now
          /\ fresh => entry = [count |-> 1, start |-> r]
          /\ ~ fresh => /\ counters[c] \in Entry
                        /\ entry = [counters[c] EXCEPT !.count = @ + 1]
          /\ entry \in Entry /\ entry.start <= now
      BY <3>1, CountedEffect
    <3>3. /\ counters' = Put(counters, c, entry)
          /\ rejected' = IF Admits(entry) THEN rejected ELSE rejected \cup {c}
          /\ waiting' = Restrict(waiting, DOMAIN waiting \ {w})
          /\ UNCHANGED <<now, attempts>>
      BY <2>2 DEF Decide
    <3>4. /\ p \in 1 .. Len(attempts[c]) /\ attempts[c][p] = r
          /\ \A v \in DOMAIN waiting : v # w /\ waiting[v].client = c => waiting[v].place # p
          /\ InOrder(attempts[c], now) /\ attempts[c] \in Seq(Nat)
      BY <3>1, <3>2, <2>0 DEF PoliteInv, Placed
    <3>5. /\ DOMAIN waiting' = DOMAIN waiting \ {w}
          /\ \A v \in DOMAIN waiting' : waiting'[v] = waiting[v]
      BY <3>3 DEF Restrict
    <3>6. /\ counters'[c] = entry /\ c \in DOMAIN counters'
          /\ \A d \in DOMAIN counters' : d # c => d \in DOMAIN counters /\ counters'[d] = counters[d]
      BY <3>2, <3>3 DEF Put
    <3>7. Placed'
      <4>1. \A d \in Clients : InOrder(attempts'[d], now')
        BY <3>3 DEF PoliteInv, Placed
      <4>2. \A v \in DOMAIN waiting' :
              /\ waiting'[v].place \in 1 .. Len(attempts'[waiting'[v].client])
              /\ attempts'[waiting'[v].client][waiting'[v].place] = waiting'[v].read
        BY <3>3, <3>5 DEF PoliteInv, Placed
      <4>3. \A u, v \in DOMAIN waiting' :
              u # v /\ waiting'[u].client = waiting'[v].client => waiting'[u].place # waiting'[v].place
        BY <3>5 DEF PoliteInv, Placed
      <4> QED  BY <4>1, <4>2, <4>3 DEF Placed
    <3>8. ASSUME NEW d \in Clients, NEW t \in Int
          PROVE  DecidedSince(d, t)' = IF d = c /\ r >= t THEN DecidedSince(d, t) \cup {p}
                                                          ELSE DecidedSince(d, t)
      <4>1. CASE d = c
        <5>1. ASSUME NEW i \in 1 .. Len(attempts[c])
              PROVE  (\A v \in DOMAIN waiting' : waiting'[v].client = c => waiting'[v].place # i)
                     <=> \/ i = p
                         \/ \A v \in DOMAIN waiting : waiting[v].client = c => waiting[v].place # i
          <6>1. waiting[w].client = c /\ waiting[w].place = p
            OBVIOUS
          <6> QED  BY <6>1, <3>1, <3>4, <3>5
        <5> SUFFICES ASSUME NEW a, a = attempts[c],
                            NEW F, F = {i \in 1 .. Len(a) :
                              \A v \in DOMAIN waiting : waiting[v].client = c => waiting[v].place # i},
                            NEW G, G = {i \in 1 .. Len(a) :
                              \A v \in DOMAIN waiting' : waiting'[v].client = c => waiting'[v].place # i}
                     PROVE  DecidedSince(d, t)' = IF d = c /\ r >= t THEN DecidedSince(d, t) \cup {p}
                                                                    ELSE DecidedSince(d, t)
          OBVIOUS
        <5>2. G = F \cup {p}
          <6>1. p \in 1 .. Len(a)
            BY <3>4
          <6>2. \A i \in 1 .. Len(a) : i \in G <=> i = p \/ i \in F
            BY <5>1
          <6>3. F \subseteq 1 .. Len(a) /\ G \subseteq 1 .. Len(a)
            OBVIOUS
          <6> QED  BY <6>1, <6>2, <6>3
        <5>3. DecidedSince(d, t)' = {i \in G : a[i] >= t} /\ DecidedSince(d, t) = {i \in F : a[i] >= t}
          BY <4>1, <3>3 DEF DecidedSince
        <5>4. a[p] = r
          BY <3>4
        <5> QED  BY <5>2, <5>3, <5>4, <4>1, PlaceAdded
      <4>2. CASE d # c
        <5>1. ASSUME NEW i
              PROVE  (\A v \in DOMAIN waiting' : waiting'[v].client = d => waiting'[v].place # i)
                     <=> \A v \in DOMAIN waiting : waiting[v].client = d => waiting[v].place # i
          <6>1. waiting[w].client = c
            OBVIOUS
          <6> QED  BY <6>1, <4>2, <3>5
        <5> QED  BY <4>2, <5>1, <3>3 DEF DecidedSince
      <4> QED  BY <4>1, <4>2
    <3>9. entry.count <= Cardinality(DecidedSince(c, entry.start - Delay))'
      <4> SUFFICES ASSUME NEW t, t = entry.start - Delay
                   PROVE  entry.count <= Cardinality(DecidedSince(c, t))'
        OBVIOUS
      <4>0. entry.start \in Nat /\ entry.start <= now /\ r \in Nat /\ now - Delay <= r
        BY <3>2, <2>0, Constants DEF Entry
      <4>1. t \in Int /\ r >= t
        BY <4>0, <2>0, Constants
      <4>2. DecidedSince(c, t)' = DecidedSince(c, t) \cup {p}
        BY <4>1, <3>2, <3>8
      <4>3. p \notin DecidedSince(c, t)
        BY <3>1 DEF DecidedSince
      <4>4. /\ IsFiniteSet(DecidedSince(c, t)) /\ Cardinality(DecidedSince(c, t)) \in Nat
        BY <4>1, <3>2, DecidedFinite
      <4>5. Cardinality(DecidedSince(c, t)') = Cardinality(DecidedSince(c, t)) + 1
        <5>1. Cardinality(DecidedSince(c, t) \cup {p}) = Cardinality(DecidedSince(c, t)) + 1
          BY <4>3, <4>4, FS_AddElement
        <5> QED  BY <5>1, <4>2
      <4>6. CASE fresh
        <5>1. entry.count = 1
          BY <4>6, <3>2
        <5>2. 1 <= Cardinality(DecidedSince(c, t)')
          BY <4>4, <4>5
        <5> QED  BY <5>1, <5>2
      <4>7. CASE ~ fresh
        <5>1. /\ c \in DOMAIN counters /\ counters[c].count \in Nat
              /\ entry.count = counters[c].count + 1 /\ entry.start = counters[c].start
          BY <4>7, <3>2 DEF Entry
        <5>2. counters[c].count <= Cardinality(DecidedSince(c, t))
          BY <5>1 DEF PoliteInv
        <5>3. entry.count <= Cardinality(DecidedSince(c, t)) + 1
          BY <5>1, <5>2, <4>4
        <5> QED  BY <5>3, <4>5
      <4> QED  BY <4>6, <4>7
    <3>10. ASSUME NEW d \in DOMAIN counters'
           PROVE  counters'[d].count <= Cardinality(DecidedSince(d, counters[d].start - Delay))'
      <4>1. CASE d = c
        BY <4>1, <3>6, <3>9
      <4>2. CASE d # c
        <5>1. d \in DOMAIN counters /\ d \in Clients /\ counters'[d] = counters[d]
          BY <4>2, <3>6, <2>0
        <5>2. counters[d].start - Delay \in Int
          BY <5>1, <2>0, Constants DEF Entry
        <5>3. counters[d].count <= Cardinality(DecidedSince(d, counters[d].start - Delay))
          BY <5>1 DEF PoliteInv
        <5> QED  BY <4>2, <5>1, <5>2, <5>3, <3>8
      <4> QED  BY <4>1, <4>2
    <3>11. ASSUME ~ Admits(entry)  PROVE  ~ AtMost(attempts[c], Limit, Window + Delay)
      <4> SUFFICES ASSUME NEW t, t = entry.start - Delay,
                          NEW D, D = DecidedSince(c, t)',
                          AtMost(attempts[c], Limit, Window + Delay)
                   PROVE  FALSE
        OBVIOUS
      <4>1. t \in Int
        BY <3>2, Constants DEF Entry
      <4>2. ~ fresh
        BY <3>11, <3>2, Constants DEF Admits
      <4>3. now < t + Window + Delay
        <5>1. counters[c].start \in Nat /\ entry.start = counters[c].start
          BY <4>2, <3>2 DEF Entry
        <5>2. ~ (now - counters[c].start >= Window)
          BY <4>2 DEF Expired
        <5>3. now < counters[c].start + Window
          BY <5>1, <5>2, <2>0, Constants
        <5> QED  BY <5>1, <5>3, <2>0, Constants
      <4>4. entry.count > Limit /\ entry.count \in Nat
        BY <3>11, <3>2, Constants DEF Admits, Entry
      <4>5. entry.count <= Cardinality(D)
        BY <3>9
      <4>6. D \subseteq {i \in 1 .. Len(attempts[c]) : attempts[c][i] >= t}
        BY <3>3 DEF DecidedSince
      <4>7. Cardinality(D) <= Limit
        BY <4>1, <4>3, <4>6, <3>4, <2>0, PoliteCount
      <4>8. Cardinality(D) \in Nat
        <5>1. Len(attempts[c]) \in Nat
          BY <3>4
        <5>2. IsFiniteSet(1 .. Len(attempts[c]))
          BY <5>1, FS_Interval
        <5>3. D \subseteq 1 .. Len(attempts[c])
          BY <4>6
        <5> QED  BY <5>2, <5>3, FS_Subset, FS_CardinalityType
      <4> QED  BY <4>4, <4>5, <4>7, <4>8, Constants
    <3>12. PoliteNeverRejected'
      BY <3>2, <3>3, <3>11 DEF PoliteInv, PoliteNeverRejected
    <3> QED  BY <3>7, <3>10, <3>12 DEF PoliteInv
  <2>3. ASSUME NEW c \in Clients, Clean(c)
        PROVE  PoliteInv'
    <3>1. /\ UNCHANGED <<now, waiting, attempts, rejected>>
          /\ \A d \in DOMAIN counters' : d \in DOMAIN counters /\ counters'[d] = counters[d]
      BY <2>3 DEF Clean, Restrict
    <3>2. ASSUME NEW d \in DOMAIN counters'
          PROVE  counters'[d].count <= Cardinality(DecidedSince(d, counters[d].start - Delay))'
      <4>1. d \in DOMAIN counters /\ counters'[d] = counters[d]
        BY <3>1
      <4>2. counters[d].count <= Cardinality(DecidedSince(d, counters[d].start - Delay))
        BY <4>1 DEF PoliteInv
      <4> QED  BY <4>1, <4>2, <3>1 DEF DecidedSince
    <3> QED  BY <3>1, <3>2 DEF PoliteInv, Placed, PoliteNeverRejected
  <2>4. CASE Tick
    <3>1. /\ now' = now + 1 /\ UNCHANGED <<counters, waiting, attempts, rejected>>
      BY <2>4 DEF Tick
    <3>2. ASSUME NEW c \in Clients  PROVE  InOrder(attempts[c], now + 1)
      <4>1. InOrder(attempts[c], now) /\ attempts[c] \in Seq(Nat)
        BY <2>0 DEF PoliteInv, Placed
      <4> QED  BY <4>1, <2>0 DEF InOrder
    <3> QED  BY <3>1, <3>2 DEF PoliteInv, Placed, DecidedSince, PoliteNeverRejected
  <2>5. CASE UNCHANGED vars
    BY <2>5 DEF vars, PoliteInv, Placed, DecidedSince, PoliteNeverRejected
  <2> QED  BY <2>1, <2>2, <2>3, <2>4, <2>5 DEF Next
<1> QED  BY <1>1, <1>2, TypeInv, PTL DEF Spec

(* A client that never sends more than Limit requests in the length of a    *)
(* window and a delay is never rejected (check, cleanup).                   *)
THEOREM PoliteNeverRejectedHolds == Spec => []PoliteNeverRejected
<1>1. PoliteInv => PoliteNeverRejected
  BY DEF PoliteInv
<1> QED  BY <1>1, PoliteInvariant, PTL
=============================================================================
