---------------------------- MODULE RateLimiter ----------------------------
(***************************************************************************)
(* The in-memory rate limiter of backend/security/middleware.py, between    *)
(* two starts of the process.  One event loop runs dispatch, which awaits   *)
(* nothing between reading the clock and deciding, so a request is one      *)
(* step; the clock is time.monotonic, in ticks.                             *)
(*                                                                          *)
(* The class calls itself a "fixed-window limiter" (middleware.py:29).  The *)
(* code below it is none: an event leaves the count by itself when it is a  *)
(* window old, so there is no edge around which a client could be admitted  *)
(* more often than the limit.                                               *)
(***************************************************************************)
EXTENDS Integers, Sequences, FiniteSets

CONSTANTS
    Clients,         \* the keys: a hashed credential or an address
    Limit,           \* RATE_LIMIT_REQUESTS
    WindowSeconds,   \* RATE_LIMIT_WINDOW_SECONDS
    TicksPerSecond,  \* the resolution of the model's clock
    MaxTime          \* bound: the last tick

ASSUME LimiterAssumption ==
    /\ Limit \in Nat \ {0}
    /\ WindowSeconds \in Nat \ {0}
    /\ TicksPerSecond \in Nat \ {0}
    /\ MaxTime \in Nat

VARIABLES
    now,       \* the monotonic clock
    events,    \* _events: the admissions of each client that are still counted
    admitted,  \* history: every admission of each client
    told       \* history: what each client was last told, when it was refused
               \* after its last admission

vars == <<now, events, admitted, told>>

-----------------------------------------------------------------------------
Window == WindowSeconds * TicksPerSecond

NotTold == [at |-> 0, retryAfter |-> 0]

(* Mutant: an event leaves the window a tick early.                          *)
ExpiredEarly(t) == t <= now - Window + 1

Expired(t) == t <= now - Window

(* Mutant: only one event is dropped per request.                            *)
PrunedOnce(q) == IF q # <<>> /\ Expired(q[1]) THEN Tail(q) ELSE q

(* Mutant: a fixed window, which begins with its first event and ends with   *)
(* all of them.                                                              *)
PrunedAtEdge(q) == IF q # <<>> /\ Expired(q[1]) THEN <<>> ELSE q

(* The loop that drops expired events from the head of the queue.            *)
Pruned(q) ==
    LET dropped == {i \in DOMAIN q : \A j \in 1 .. i : Expired(q[j])}
    IN  SubSeq(q, Cardinality(dropped) + 1, Len(q))

(* Whole seconds until the oldest counted event expires, cut off, at least 1. *)
RetryAfter(q) ==
    LET seconds == (Window - (now - q[1])) \div TicksPerSecond
    IN  IF seconds < 1 THEN 1 ELSE seconds

(* Mutant: a refused request counts as an event of its client.               *)
RefuseAndCount(c) ==
    LET q == Pruned(events[c]) IN
    /\ Len(q) >= Limit
    /\ events' = [events EXCEPT ![c] = Append(q, now)]
    /\ told' = [told EXCEPT ![c] = [at |-> now, retryAfter |-> RetryAfter(q)]]
    /\ UNCHANGED <<now, admitted>>

(* 429 with Retry-After.                                                     *)
Refuse(c) ==
    LET q == Pruned(events[c]) IN
    /\ Len(q) >= Limit
    /\ events' = [events EXCEPT ![c] = q]
    /\ told' = [told EXCEPT ![c] = [at |-> now, retryAfter |-> RetryAfter(q)]]
    /\ UNCHANGED <<now, admitted>>

(* The request goes on to its handler.                                       *)
Admit(c) ==
    LET q == Pruned(events[c]) IN
    /\ Len(q) < Limit
    /\ events' = [events EXCEPT ![c] = Append(q, now)]
    /\ admitted' = [admitted EXCEPT ![c] = Append(@, now)]
    /\ told' = [told EXCEPT ![c] = NotTold]
    /\ UNCHANGED now

Tick ==
    /\ now < MaxTime
    /\ now' = now + 1
    /\ UNCHANGED <<events, admitted, told>>

Init ==
    /\ now = 0
    /\ events = [c \in Clients |-> <<>>]
    /\ admitted = [c \in Clients |-> <<>>]
    /\ told = [c \in Clients |-> NotTold]

Next == Tick \/ \E c \in Clients : Admit(c) \/ Refuse(c)

Spec == Init /\ [][Next]_vars

-----------------------------------------------------------------------------
(* Times, queues and answers are well formed, and no queue of counted        *)
(* admissions outgrows the limit.                                            *)
TypeOK ==
    /\ now \in 0 .. MaxTime
    /\ \A c \in Clients :
          /\ events[c] \in Seq(0 .. MaxTime) /\ Len(events[c]) <= Limit
          /\ admitted[c] \in Seq(0 .. MaxTime)
          /\ told[c] \in [at : 0 .. MaxTime, retryAfter : 0 .. WindowSeconds]

(* No window of the configured length, wherever it starts, holds more        *)
(* admissions of one client than the limit: Limit admissions later at least  *)
(* a whole window has passed, although events are dropped as requests come.  *)
WindowHoldsLimit ==
    \A c \in Clients :
        \A i \in 1 .. Len(admitted[c]) - Limit :
            admitted[c][i + Limit] - admitted[c][i] >= Window

(* A refused client that waits the announced time and the second that was    *)
(* cut off, and is admitted nowhere in between, is admitted: refused         *)
(* requests do not prolong the wait.                                         *)
RetryAfterIsEnough ==
    \A c \in Clients :
        /\ told[c] # NotTold
        /\ now >= told[c].at + (told[c].retryAfter + 1) * TicksPerSecond
        => Len(Pruned(events[c])) < Limit

(* A client is turned away only while it really has Limit admissions in the  *)
(* last window: a key never carries over events that expired.                *)
RefusedOnlyAtLimit ==
    \A c \in Clients :
        Len(Pruned(events[c])) =
            Cardinality({i \in DOMAIN admitted[c] : ~Expired(admitted[c][i])})

(* The queue, which forgets expired events only when its client comes back,  *)
(* decides as if every admission ever made were looked at: who is admitted,  *)
(* who is refused, and how long it is told to wait.  This is a sliding       *)
(* window; the fixed one of the docstring, PrunedAtEdge, does not implement  *)
(* it.                                                                       *)
Promise == INSTANCE SlidingWindow
ImplementsSlidingWindow == Promise!WSpec
=============================================================================
