--------------------------- MODULE SlidingWindow ---------------------------
(***************************************************************************)
(* What the rate limiter promises its clients, with no mention of queues or *)
(* of when they are pruned.  A request is judged by all the admissions of   *)
(* its client in the last window, however many there were before.  It is    *)
(* admitted below the limit.  At the limit it is refused with the number of *)
(* whole seconds until the oldest of them leaves the window, at least one.  *)
(***************************************************************************)
EXTENDS Integers, Sequences, FiniteSets

CONSTANTS Clients, Limit, WindowSeconds, TicksPerSecond

VARIABLES now,       \* the clock
          admitted,  \* every admission of each client
          told       \* the last refusal of each client since its admission

windowVars == <<now, admitted, told>>

Counted(c) ==
    {i \in DOMAIN admitted[c] :
        admitted[c][i] > now - WindowSeconds * TicksPerSecond}

(* When the i-th admission of a client leaves the window.                    *)
Leaves(c, i) == admitted[c][i] + WindowSeconds * TicksPerSecond

WInit ==
    /\ now = 0
    /\ admitted = [c \in Clients |-> <<>>]
    /\ told = [c \in Clients |-> [at |-> 0, retryAfter |-> 0]]

Pass ==
    /\ now' = now + 1
    /\ UNCHANGED <<admitted, told>>

Serve(c) ==
    /\ Cardinality(Counted(c)) < Limit
    /\ admitted' = [admitted EXCEPT ![c] = Append(@, now)]
    /\ told' = [told EXCEPT ![c] = [at |-> 0, retryAfter |-> 0]]
    /\ UNCHANGED now

TurnAway(c) ==
    /\ Cardinality(Counted(c)) = Limit
    /\ \E s \in 1 .. WindowSeconds :
          /\ \E i \in Counted(c) : Leaves(c, i) < now + (s + 1) * TicksPerSecond
          /\ s = 1 \/ \A i \in Counted(c) : now + s * TicksPerSecond <= Leaves(c, i)
          /\ told' = [told EXCEPT ![c] = [at |-> now, retryAfter |-> s]]
    /\ UNCHANGED <<now, admitted>>

WNext == Pass \/ \E c \in Clients : Serve(c) \/ TurnAway(c)

WSpec == WInit /\ [][WNext]_windowVars
=============================================================================
