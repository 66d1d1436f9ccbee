------------------------- MODULE RateLimiterProofs -------------------------
(***************************************************************************)
(* The limit, and what refused clients are told, for every limit, every     *)
(* window and every number of clients.  The invariant says what the queue   *)
(* of a client has to do with all its admissions: it is their tail, and     *)
(* what was dropped is older than a window.                                 *)
(***************************************************************************)
EXTENDS RateLimiter, FiniteSetTheorems, SequenceTheorems, TLAPS

LEMMA WindowIsNat == Window \in Nat
BY LimiterAssumption DEF Window

LEMMA IntervalSize ==
    ASSUME NEW n \in Nat
    PROVE  IsFiniteSet(1 .. n) /\ Cardinality(1 .. n) = n
<1>1. n \in Int /\ 1 \in Int
  OBVIOUS
<1>2. \A b \in Int : /\ IsFiniteSet(1 .. b)
                     /\ Cardinality(1 .. b) = IF 1 > b THEN 0 ELSE b - 1 + 1
  BY <1>1, FS_Interval
<1>3. (IF 1 > n THEN 0 ELSE n - 1 + 1) = n
  OBVIOUS
<1> QED
  BY <1>1, <1>2, <1>3

(* The prune loop drops a prefix of events that are out of the window, and   *)
(* stops at the first that is not.                                           *)
LEMMA PrunedDropsExpiredPrefix ==
    ASSUME NEW q \in Seq(Nat), now \in Nat
    PROVE  \E d \in 0 .. Len(q) :
              /\ Pruned(q) \in Seq(Nat)
              /\ Len(Pruned(q)) = Len(q) - d
              /\ \A i \in 1 .. Len(q) - d : Pruned(q)[i] = q[i + d]
              /\ \A i \in 1 .. d : Expired(q[i])
              /\ d < Len(q) => ~Expired(q[d + 1])
<1> DEFINE dropped == {i \in DOMAIN q : \A j \in 1 .. i : Expired(q[j])}
           d == Cardinality(dropped)
<1>0. Len(q) \in Nat
  OBVIOUS
<1>1. /\ IsFiniteSet(1 .. Len(q))
      /\ Cardinality(1 .. Len(q)) = Len(q)
  BY <1>0, IntervalSize
<1>2. d \in 0 .. Len(q)
  <2>1. dropped \subseteq 1 .. Len(q)
    OBVIOUS
  <2> HIDE DEF dropped
  <2>2. IsFiniteSet(dropped) /\ Cardinality(dropped) <= Len(q)
    BY <1>1, <2>1, FS_Subset
  <2> QED
    BY <2>2, FS_CardinalityType
<1>3. ASSUME NEW i \in 1 .. d PROVE Expired(q[i])
  <2> SUFFICES ASSUME ~Expired(q[i]) PROVE FALSE
    OBVIOUS
  <2>0. d \in Nat /\ i \in Nat /\ i >= 1 /\ i - 1 \in Nat
    BY <1>2
  <2>1. dropped \subseteq 1 .. i - 1
    BY <2>0
  <2>2. IsFiniteSet(1 .. i - 1) /\ Cardinality(1 .. i - 1) = i - 1
    BY <2>0, IntervalSize
  <2> HIDE DEF dropped
  <2>3. Cardinality(dropped) <= i - 1
    BY <2>1, <2>2, FS_Subset
  <2> QED
    BY <1>2, <2>3
<1>4. Pruned(q) = SubSeq(q, d + 1, Len(q))
  BY DEF Pruned
<1>6. ASSUME d < Len(q), Expired(q[d + 1]) PROVE FALSE
  <2>0. d \in Nat /\ d + 1 \in Nat /\ d + 1 \in 1 .. Len(q)
    BY <1>0, <1>2, <1>6
  <2>1. 1 .. d + 1 \subseteq dropped
    <3> SUFFICES ASSUME NEW i \in 1 .. d + 1 PROVE i \in dropped
      OBVIOUS
    <3>1. ASSUME NEW j \in 1 .. i PROVE Expired(q[j])
      <4>1. j \in 1 .. d \/ j = d + 1
        <5> HIDE DEF d
        <5> QED BY <2>0
      <4> QED
        BY <1>3, <1>6, <4>1
    <3>2. i \in 1 .. Len(q)
      <4> HIDE DEF d
      <4> QED BY <1>0, <2>0
    <3> QED
      BY <3>1, <3>2
  <2>2. dropped \subseteq 1 .. Len(q)
    OBVIOUS
  <2>3. Cardinality(1 .. d + 1) = d + 1
    <3> HIDE DEF d
    <3> QED BY <2>0, IntervalSize
  <2> HIDE DEF dropped
  <2>4. IsFiniteSet(dropped)
    BY <1>1, <2>2, FS_Subset
  <2>5. d + 1 <= d
    BY <2>1, <2>3, <2>4, FS_Subset
  <2> HIDE DEF d
  <2> QED
    BY <2>0, <2>5
<1> HIDE DEF d
<1>5. /\ Pruned(q) \in Seq(Nat)
      /\ Len(Pruned(q)) = Len(q) - d
      /\ \A i \in 1 .. Len(q) - d : Pruned(q)[i] = q[i + d]
  BY <1>2, <1>4
<1> QED
  BY <1>2, <1>3, <1>5, <1>6

(* So the head of a pruned queue is in the window, and a queue whose head is *)
(* not gets shorter.                                                         *)
LEMMA PrunedStartsLive ==
    ASSUME NEW q \in Seq(Nat), now \in Nat
    PROVE  /\ Len(Pruned(q)) \in 0 .. Len(q)
           /\ Len(Pruned(q)) > 0 => ~Expired(Pruned(q)[1])
           /\ Len(q) > 0 /\ Expired(q[1]) => Len(Pruned(q)) < Len(q)
<1>1. PICK d \in 0 .. Len(q) :
         /\ Len(Pruned(q)) = Len(q) - d
         /\ \A i \in 1 .. Len(q) - d : Pruned(q)[i] = q[i + d]
         /\ d < Len(q) => ~Expired(q[d + 1])
  BY PrunedDropsExpiredPrefix
<1>2. Len(q) \in Nat
  OBVIOUS
<1>3. ASSUME Len(Pruned(q)) > 0 PROVE ~Expired(Pruned(q)[1])
  <2>1. d < Len(q) /\ 1 \in 1 .. Len(q) - d /\ 1 + d = d + 1
    BY <1>1, <1>2, <1>3
  <2> QED
    BY <1>1, <2>1
<1>4. ASSUME Len(q) > 0, Expired(q[1]) PROVE d # 0
  BY <1>1, <1>4
<1> QED
  BY <1>1, <1>2, <1>3, <1>4

-----------------------------------------------------------------------------
(* What the queue of a client has to do with all its admissions.             *)
QueueIsTail(c) ==
    LET forgotten == Len(admitted[c]) - Len(events[c]) IN
    /\ events[c] \in Seq(Nat)
    /\ admitted[c] \in Seq(Nat)
    /\ forgotten \in Nat
    /\ \A i \in 1 .. Len(events[c]) : events[c][i] = admitted[c][i + forgotten]
    /\ \A i \in 1 .. forgotten : Expired(admitted[c][i])

WindowOK(c) ==
    \A i \in 1 .. Len(admitted[c]) - Limit :
        admitted[c][i + Limit] - admitted[c][i] >= Window

IInv ==
    /\ now \in Nat
    /\ events \in [Clients -> Seq(Nat)]
    /\ admitted \in [Clients -> Seq(Nat)]
    /\ \A c \in Clients : QueueIsTail(c) /\ WindowOK(c)

LEMMA InductiveInit == Init => IInv
BY LimiterAssumption DEF Init, IInv, QueueIsTail, WindowOK

(* Pruning keeps the queue a tail: what it drops is out of the window.       *)
LEMMA PrunedIsTail ==
    ASSUME IInv, NEW c \in Clients
    PROVE  LET q == Pruned(events[c])
               forgotten == Len(admitted[c]) - Len(q)
           IN  /\ q \in Seq(Nat)
               /\ forgotten \in Nat
               /\ \A i \in 1 .. Len(q) : q[i] = admitted[c][i + forgotten]
               /\ \A i \in 1 .. forgotten : Expired(admitted[c][i])
<1>1. QueueIsTail(c) /\ now \in Nat
  BY DEF IInv
<1> DEFINE q == Pruned(events[c])
           before == Len(admitted[c]) - Len(events[c])
<1>2. PICK d \in 0 .. Len(events[c]) :
              /\ q \in Seq(Nat)
              /\ Len(q) = Len(events[c]) - d
              /\ \A i \in 1 .. Len(events[c]) - d : q[i] = events[c][i + d]
              /\ \A i \in 1 .. d : Expired(events[c][i])
  BY <1>1, PrunedDropsExpiredPrefix DEF QueueIsTail
<1>3. /\ before \in Nat
      /\ events[c] \in Seq(Nat)
      /\ \A i \in 1 .. Len(events[c]) : events[c][i] = admitted[c][i + before]
      /\ \A i \in 1 .. before : Expired(admitted[c][i])
  BY <1>1 DEF QueueIsTail
<1> HIDE DEF q
<1>0. Len(events[c]) \in Nat /\ Len(admitted[c]) \in Nat /\ Len(q) \in Nat
  BY <1>1, <1>2 DEF QueueIsTail
<1>4. Len(admitted[c]) - Len(q) = before + d
  BY <1>0, <1>2, <1>3
<1>5. ASSUME NEW i \in 1 .. Len(q) PROVE q[i] = admitted[c][i + (before + d)]
  <2>1. q[i] = events[c][i + d]
    BY <1>2
  <2>2. i + d \in 1 .. Len(events[c])
    BY <1>0, <1>2
  <2>3. events[c][i + d] = admitted[c][(i + d) + before]
    BY <1>3, <2>2
  <2>4. (i + d) + before = i + (before + d)
    <3> HIDE DEF before
    <3> QED BY <1>0, <1>2, <1>3
  <2> QED
    BY <2>1, <2>3, <2>4
<1>6. ASSUME NEW i \in 1 .. before + d PROVE Expired(admitted[c][i])
  <2>1. CASE i <= before
    BY <1>3, <2>1
  <2>2. CASE i > before
    <3> DEFINE k == i - before
    <3>1. k \in 1 .. d /\ k \in 1 .. Len(events[c]) /\ k + before = i
      <4> HIDE DEF before
      <4> QED BY <1>0, <1>2, <1>3, <2>2
    <3> HIDE DEF k
    <3>2. Expired(events[c][k])
      BY <1>2, <3>1
    <3>3. events[c][k] = admitted[c][k + before]
      BY <1>3, <3>1
    <3> QED
      BY <3>1, <3>2, <3>3
  <2>3. i \in Int /\ before \in Int
    BY <1>3
  <2>4. i <= before \/ i > before
    <3> HIDE DEF before
    <3> QED BY <2>3
  <2> QED
    BY <2>1, <2>2, <2>4
<1>7. before + d \in Nat
  BY <1>2, <1>3
<1> HIDE DEF before
<1> QED
  BY <1>2, <1>4, <1>5, <1>6, <1>7 DEF q

(* One more admission after a pruning that left room for it.                 *)
LEMMA AdmitKeeps ==
    ASSUME IInv, NEW c \in Clients, Admit(c)
    PROVE  IInv'
<1> DEFINE q == Pruned(events[c])
           n == Len(admitted[c])
           forgotten == n - Len(q)
<1>1. /\ q \in Seq(Nat)
      /\ forgotten \in Nat
      /\ \A i \in 1 .. Len(q) : q[i] = admitted[c][i + forgotten]
      /\ \A i \in 1 .. forgotten : Expired(admitted[c][i])
  BY PrunedIsTail
<1>2. /\ Len(q) < Limit
      /\ now' = now
      /\ events' = [events EXCEPT ![c] = Append(q, now)]
      /\ admitted' = [admitted EXCEPT ![c] = Append(@, now)]
  BY DEF Admit
<1>3. /\ now \in Nat
      /\ admitted[c] \in Seq(Nat)
      /\ events \in [Clients -> Seq(Nat)]
      /\ admitted \in [Clients -> Seq(Nat)]
      /\ QueueIsTail(c)
      /\ WindowOK(c)
  BY DEF IInv
<1> HIDE DEF q
<1>4. /\ events'[c] = Append(q, now) /\ Len(events'[c]) = Len(q) + 1
      /\ admitted'[c] = Append(admitted[c], now) /\ Len(admitted'[c]) = n + 1
      /\ n \in Nat /\ Len(q) \in Nat
  BY <1>1, <1>2, <1>3
<1>5. /\ \A i \in 1 .. n : admitted'[c][i] = admitted[c][i]
      /\ admitted'[c][n + 1] = now
      /\ \A i \in 1 .. Len(q) : events'[c][i] = q[i]
      /\ events'[c][Len(q) + 1] = now
      /\ events'[c] \in Seq(Nat) /\ admitted'[c] \in Seq(Nat)
  BY <1>1, <1>3, <1>4
<1> HIDE DEF n
<1>6. QueueIsTail(c)'
  <2>1. Len(admitted'[c]) - Len(events'[c]) = forgotten
    BY <1>4
  <2>2. ASSUME NEW i \in 1 .. Len(q) + 1
        PROVE  events'[c][i] = admitted'[c][i + forgotten]
    <3>1. CASE i = Len(q) + 1
      <4>1. i + forgotten = n + 1
        BY <1>4, <3>1
      <4> QED
        BY <1>5, <3>1, <4>1
    <3>2. CASE i # Len(q) + 1
      <4>1. i \in 1 .. Len(q) /\ i + forgotten \in 1 .. n
        BY <1>1, <1>4, <3>2
      <4> QED
        BY <1>1, <1>5, <4>1
    <3> QED
      BY <3>1, <3>2
  <2>3. ASSUME NEW i \in 1 .. forgotten PROVE admitted'[c][i] <= now' - Window
    <3>1. i \in 1 .. n
      BY <1>1, <1>4
    <3>2. admitted'[c][i] = admitted[c][i] /\ Expired(admitted[c][i])
      BY <1>1, <1>5, <3>1
    <3> QED
      BY <1>2, <3>2 DEF Expired
  <2> HIDE DEF forgotten
  <2> QED
    BY <1>1, <1>4, <1>5, <2>1, <2>2, <2>3 DEF QueueIsTail, Expired
<1>7. WindowOK(c)'
  <2> SUFFICES ASSUME NEW i \in 1 .. n + 1 - Limit
               PROVE  admitted'[c][i + Limit] - admitted'[c][i] >= Window
    <3>1. Len(admitted'[c]) - Limit = n + 1 - Limit
      BY <1>4, LimiterAssumption
    <3> QED
      BY <3>1, Zenon DEF WindowOK
  <2>1. Limit \in Nat /\ Limit >= 1
    BY LimiterAssumption
  <2>2. CASE i = n + 1 - Limit
    <3>1. i \in 1 .. forgotten /\ i \in 1 .. n /\ i + Limit = n + 1
      BY <1>1, <1>2, <1>4, <2>1, <2>2
    <3>2. admitted'[c][i] = admitted[c][i] /\ Expired(admitted[c][i])
      BY <1>1, <1>5, <3>1
    <3>3. admitted[c][i] \in Nat
      BY <1>3, <3>1 DEF n
    <3>4. admitted[c][i] <= now - Window
      BY <3>2 DEF Expired
    <3>5. admitted'[c][i + Limit] = now
      BY <1>5, <3>1
    <3>6. now - admitted[c][i] >= Window
      BY <1>3, <3>3, <3>4, WindowIsNat
    <3> QED
      BY <3>2, <3>5, <3>6
  <2>3. CASE i # n + 1 - Limit
    <3>1. i \in 1 .. n - Limit /\ i \in 1 .. n /\ i + Limit \in 1 .. n
      BY <1>4, <2>1, <2>3
    <3>2. admitted[c][i + Limit] - admitted[c][i] >= Window
      BY <1>3, <3>1 DEF WindowOK, n
    <3> QED
      BY <1>5, <3>1, <3>2
  <2> QED
    BY <2>2, <2>3
<1>8. ASSUME NEW b \in Clients, b # c PROVE QueueIsTail(b)' /\ WindowOK(b)'
  <2>1. events'[b] = events[b] /\ admitted'[b] = admitted[b]
    BY <1>2, <1>3, <1>8
  <2> QED
    BY <1>2, <1>8, <2>1 DEF IInv, QueueIsTail, WindowOK, Expired, Window
<1>9. /\ events' \in [Clients -> Seq(Nat)]
      /\ admitted' \in [Clients -> Seq(Nat)]
  BY <1>2, <1>3, <1>4, <1>5
<1> QED
  BY <1>2, <1>3, <1>6, <1>7, <1>8, <1>9 DEF IInv

(* A refusal only prunes.                                                    *)
LEMMA RefuseKeeps ==
    ASSUME IInv, NEW c \in Clients, Refuse(c)
    PROVE  IInv'
<1> DEFINE q == Pruned(events[c])
           forgotten == Len(admitted[c]) - Len(q)
<1>1. /\ q \in Seq(Nat)
      /\ forgotten \in Nat
      /\ \A i \in 1 .. Len(q) : q[i] = admitted[c][i + forgotten]
      /\ \A i \in 1 .. forgotten : Expired(admitted[c][i])
  BY PrunedIsTail
<1>2. now' = now /\ events' = [events EXCEPT ![c] = q] /\ admitted' = admitted
  BY DEF Refuse
<1>3. /\ now \in Nat
      /\ events \in [Clients -> Seq(Nat)]
      /\ admitted \in [Clients -> Seq(Nat)]
  BY DEF IInv
<1> HIDE DEF q
<1>4. events'[c] = q /\ events' \in [Clients -> Seq(Nat)]
  BY <1>1, <1>2, <1>3
<1>5. QueueIsTail(c)'
  <2>1. admitted[c] \in Seq(Nat)
    BY <1>3
  <2> QED
    BY <1>1, <1>2, <1>4, <2>1 DEF QueueIsTail, Expired, Window
<1>6. ASSUME NEW b \in Clients, b # c PROVE QueueIsTail(b)'
  <2>1. events'[b] = events[b] /\ admitted'[b] = admitted[b]
    BY <1>2, <1>3, <1>6
  <2> QED
    BY <1>2, <1>6, <2>1 DEF IInv, QueueIsTail, Expired, Window
<1>7. \A b \in Clients : WindowOK(b)'
  BY <1>2 DEF IInv, WindowOK, Window
<1> QED
  BY <1>2, <1>3, <1>4, <1>5, <1>6, <1>7 DEF IInv

(* Time only takes events further out of the window.                         *)
LEMMA TickKeeps ==
    ASSUME IInv, Tick
    PROVE  IInv'
<1>1. now' = now + 1 /\ events' = events /\ admitted' = admitted
  BY DEF Tick
<1>2. now \in Nat /\ now' \in Nat
  BY <1>1 DEF IInv
<1>3. ASSUME NEW c \in Clients PROVE QueueIsTail(c)'
  <2>1. QueueIsTail(c)
    BY DEF IInv
  <2>2. ASSUME NEW i \in 1 .. Len(admitted[c]) - Len(events[c])
        PROVE  Expired(admitted[c][i])'
    <3>1. Expired(admitted[c][i])
      BY <2>1 DEF QueueIsTail
    <3>2. admitted[c][i] \in Nat
      BY <2>1 DEF QueueIsTail
    <3> QED
      BY <1>1, <1>2, <3>1, <3>2, WindowIsNat DEF Expired, Window
  <2> QED
    BY <1>1, <2>1, <2>2 DEF QueueIsTail
<1>4. \A c \in Clients : WindowOK(c)'
  BY <1>1 DEF IInv, WindowOK, Window
<1> QED
  BY <1>1, <1>2, <1>3, <1>4 DEF IInv

LEMMA InductiveInvariant == Spec => []IInv
<1>1. IInv /\ [Next]_vars => IInv'
  <2> SUFFICES ASSUME IInv, [Next]_vars
               PROVE  IInv'
    OBVIOUS
  <2>1. CASE Tick
    BY <2>1, TickKeeps
  <2>2. ASSUME NEW c \in Clients, Admit(c) PROVE IInv'
    BY <2>2, AdmitKeeps
  <2>3. ASSUME NEW c \in Clients, Refuse(c) PROVE IInv'
    BY <2>3, RefuseKeeps
  <2>4. CASE UNCHANGED vars
    BY <2>4 DEF vars, IInv, QueueIsTail, WindowOK, Expired, Window
  <2> QED
    BY <2>1, <2>2, <2>3, <2>4 DEF Next
<1> QED
  BY <1>1, InductiveInit, PTL DEF Spec

(* No window of the configured length ever holds more admissions of one      *)
(* client than the limit.                                                    *)
THEOREM WindowHoldsLimitAlways == Spec => []WindowHoldsLimit
<1>1. IInv => WindowHoldsLimit
  BY DEF IInv, WindowOK, WindowHoldsLimit
<1> QED
  BY <1>1, InductiveInvariant, PTL

-----------------------------------------------------------------------------
(* What clients are told.  Admissions come in the order of the clock, which  *)
(* makes the prune loop exact; and who was refused last keeps a queue whose  *)
(* head leaves the window within the announced time.                         *)
InOrder(c) ==
    /\ \A i, j \in 1 .. Len(admitted[c]) : i <= j => admitted[c][i] <= admitted[c][j]
    /\ \A i \in 1 .. Len(admitted[c]) : admitted[c][i] <= now

Leaves(head, answer) ==
    head + Window <= answer.at + (answer.retryAfter + 1) * TicksPerSecond

ToldOK(c) == told[c] # NotTold /\ Len(events[c]) > 0 => Leaves(events[c][1], told[c])

ToldInv ==
    /\ IInv /\ TypeOK
    /\ DOMAIN told = Clients
    /\ \A c \in Clients : InOrder(c) /\ ToldOK(c)

LEMMA Division ==
    ASSUME NEW x \in Int, NEW t \in Nat \ {0}
    PROVE  x \div t \in Int /\ t * (x \div t) <= x /\ x < t * (x \div t) + t
OBVIOUS

LEMMA Product ==
    ASSUME NEW a \in Int, NEW b \in Int, a <= b, NEW t \in Nat
    PROVE  t * a <= t * b
OBVIOUS

(* The announced seconds and one more cover the wait of the oldest event,    *)
(* and unless it is the least that is announced they do not exceed it.       *)
LEMMA RetryAfterCovers ==
    ASSUME NEW q \in Seq(Nat), Len(q) > 0, now \in Nat, q[1] <= now
    PROVE  /\ RetryAfter(q) \in 1 .. WindowSeconds
           /\ q[1] + Window < now + (RetryAfter(q) + 1) * TicksPerSecond
           /\ \/ RetryAfter(q) = 1
              \/ now + RetryAfter(q) * TicksPerSecond <= q[1] + Window
<1> DEFINE x == Window - (now - q[1])
           k == x \div TicksPerSecond
           r == RetryAfter(q)
<1>1. /\ q[1] \in Nat /\ WindowSeconds \in Nat \ {0} /\ TicksPerSecond \in Nat \ {0}
      /\ Window = TicksPerSecond * WindowSeconds /\ Window \in Nat
  BY LimiterAssumption, WindowIsNat DEF Window
<1>2. x \in Int /\ x <= Window /\ q[1] + Window = now + x
  BY <1>1
<1> HIDE DEF x
<1>3. k \in Int /\ TicksPerSecond * k <= x /\ x < TicksPerSecond * k + TicksPerSecond
  BY <1>1, <1>2, Division
<1>4. r = IF k < 1 THEN 1 ELSE k
  BY DEF RetryAfter, x
<1> HIDE DEF k, r
<1>5. k <= WindowSeconds
  <2> SUFFICES ASSUME WindowSeconds + 1 <= k PROVE FALSE
    BY <1>1, <1>3
  <2>1. TicksPerSecond * (WindowSeconds + 1) <= TicksPerSecond * k
    BY <1>1, <1>3, Product
  <2>2. TicksPerSecond * (WindowSeconds + 1) = Window + TicksPerSecond
    BY <1>1
  <2>3. TicksPerSecond * k \in Int
    BY <1>1, <1>3
  <2> QED
    BY <1>1, <1>2, <1>3, <2>1, <2>2, <2>3
<1>6. r \in 1 .. WindowSeconds /\ k <= r /\ (r = 1 \/ r = k)
  BY <1>1, <1>3, <1>4, <1>5
<1>7. /\ TicksPerSecond * (k + 1) <= TicksPerSecond * (r + 1)
      /\ TicksPerSecond * (k + 1) = TicksPerSecond * k + TicksPerSecond
      /\ TicksPerSecond * (r + 1) = (r + 1) * TicksPerSecond
  BY <1>1, <1>3, <1>6, Product
<1>8. TicksPerSecond * k \in Int /\ (r + 1) * TicksPerSecond \in Int
  BY <1>1, <1>3, <1>6
<1>9. x < (r + 1) * TicksPerSecond
  BY <1>2, <1>3, <1>7, <1>8, <1>1
<1>10. r = 1 \/ now + r * TicksPerSecond <= now + x
  <2>1. TicksPerSecond * k = k * TicksPerSecond /\ k * TicksPerSecond \in Int
    BY <1>1, <1>3
  <2> QED
    BY <1>2, <1>3, <1>6, <2>1
<1> QED
  BY <1>1, <1>2, <1>6, <1>8, <1>9, <1>10 DEF r

(* A sequence of naturals up to the last tick is a sequence of ticks.        *)
LEMMA TicksSeq ==
    ASSUME NEW s \in Seq(Nat), \A i \in 1 .. Len(s) : s[i] <= MaxTime
    PROVE  s \in Seq(0 .. MaxTime)
<1>1. \A i \in 1 .. Len(s) : s[i] \in 0 .. MaxTime
  BY LimiterAssumption
<1>2. s \in [1 .. Len(s) -> 0 .. MaxTime] /\ Len(s) \in Nat
  BY <1>1
<1>3. s \in UNION {[1 .. n -> 0 .. MaxTime] : n \in Nat}
  BY <1>2, Zenon
<1>4. Seq(0 .. MaxTime) = UNION {[1 .. n -> 0 .. MaxTime] : n \in Nat}
  BY SeqDef, Zenon
<1> QED
  BY <1>3, <1>4, Zenon

(* The queue after pruning, as part of the admissions.                       *)
LEMMA PrunedFacts ==
    ASSUME ToldInv, NEW c \in Clients
    PROVE  LET q == Pruned(events[c])
           IN  /\ q \in Seq(Nat) /\ Len(q) \in 0 .. Len(events[c]) /\ Len(q) <= Limit
               /\ \A i \in 1 .. Len(q) : q[i] <= now
               /\ q \in Seq(0 .. MaxTime)
<1> DEFINE q == Pruned(events[c])
<1>1. /\ IInv /\ InOrder(c) /\ now \in Nat /\ now <= MaxTime /\ MaxTime \in Nat
      /\ events[c] \in Seq(Nat) /\ Len(events[c]) <= Limit /\ admitted[c] \in Seq(Nat)
  BY LimiterAssumption DEF ToldInv, IInv, TypeOK
<1>2. Len(q) \in 0 .. Len(events[c])
  BY <1>1, PrunedStartsLive
<1>3. /\ q \in Seq(Nat) /\ Len(admitted[c]) - Len(q) \in Nat
      /\ \A i \in 1 .. Len(q) : q[i] = admitted[c][i + (Len(admitted[c]) - Len(q))]
  BY <1>1, PrunedIsTail
<1> HIDE DEF q
<1>4. ASSUME NEW i \in 1 .. Len(q) PROVE q[i] <= now
  <2>1. i + (Len(admitted[c]) - Len(q)) \in 1 .. Len(admitted[c])
    BY <1>1, <1>3
  <2> QED
    BY <1>1, <1>3, <2>1 DEF InOrder
<1>5. \A i \in 1 .. Len(q) : q[i] <= MaxTime
  BY <1>1, <1>3, <1>4
<1>6. q \in Seq(0 .. MaxTime)
  BY <1>3, <1>5, TicksSeq
<1>7. Len(q) <= Limit
  BY <1>1, <1>2, LimiterAssumption
<1> QED
  BY <1>2, <1>3, <1>4, <1>6, <1>7 DEF q

LEMMA ToldInit == Init => ToldInv
<1> SUFFICES ASSUME Init PROVE ToldInv
  OBVIOUS
<1>1. NotTold \in [at : 0 .. MaxTime, retryAfter : 0 .. WindowSeconds]
  BY LimiterAssumption DEF NotTold
<1> QED
  BY <1>1, InductiveInit, LimiterAssumption DEF Init, ToldInv, TypeOK, InOrder, ToldOK

(* What other clients know does not depend on this one.                      *)
LEMMA OthersTold ==
    ASSUME ToldInv, NEW b \in Clients, now' = now, events'[b] = events[b],
           admitted'[b] = admitted[b], told'[b] = told[b]
    PROVE  /\ InOrder(b)' /\ ToldOK(b)'
           /\ events'[b] \in Seq(0 .. MaxTime) /\ Len(events'[b]) <= Limit
           /\ admitted'[b] \in Seq(0 .. MaxTime)
           /\ told'[b] \in [at : 0 .. MaxTime, retryAfter : 0 .. WindowSeconds]
<1>1. InOrder(b) /\ ToldOK(b)
  BY DEF ToldInv
<1>2. InOrder(b)'
  BY <1>1 DEF InOrder
<1>3. ToldOK(b)'
  BY <1>1 DEF ToldOK, Leaves, NotTold, Window
<1> QED
  BY <1>2, <1>3 DEF ToldInv, TypeOK

LEMMA AdmitTold ==
    ASSUME ToldInv, NEW c \in Clients, Admit(c)
    PROVE  ToldInv'
<1> DEFINE q == Pruned(events[c])
           n == Len(admitted[c])
<1>1. /\ IInv' /\ DOMAIN told = Clients /\ now \in 0 .. MaxTime /\ now \in Nat
      /\ events \in [Clients -> Seq(Nat)] /\ admitted \in [Clients -> Seq(Nat)]
      /\ InOrder(c) /\ admitted[c] \in Seq(0 .. MaxTime)
  BY AdmitKeeps DEF ToldInv, IInv, TypeOK
<1>2. q \in Seq(0 .. MaxTime) /\ Len(q) < Limit
  BY PrunedFacts DEF Admit
<1>3. /\ now' = now
      /\ events' = [events EXCEPT ![c] = Append(q, now)]
      /\ admitted' = [admitted EXCEPT ![c] = Append(admitted[c], now)]
      /\ told' = [told EXCEPT ![c] = NotTold]
  BY DEF Admit
<1> HIDE DEF q
<1>4. /\ events'[c] = Append(q, now) /\ admitted'[c] = Append(admitted[c], now)
      /\ told'[c] = NotTold /\ DOMAIN told' = Clients
  BY <1>1, <1>3
<1>5. /\ events'[c] \in Seq(0 .. MaxTime) /\ Len(events'[c]) <= Limit
      /\ admitted'[c] \in Seq(0 .. MaxTime) /\ Len(admitted'[c]) = n + 1 /\ n \in Nat
      /\ told'[c] \in [at : 0 .. MaxTime, retryAfter : 0 .. WindowSeconds]
  <2>1. NotTold \in [at : 0 .. MaxTime, retryAfter : 0 .. WindowSeconds]
    BY LimiterAssumption DEF NotTold
  <2>2. Len(Append(q, now)) = Len(q) + 1 /\ Len(q) \in Nat
    BY <1>2
  <2>3. Append(q, now) \in Seq(0 .. MaxTime)
    BY <1>1, <1>2
  <2>4. Append(admitted[c], now) \in Seq(0 .. MaxTime)
    BY <1>1
  <2>5. Len(Append(admitted[c], now)) = n + 1 /\ n \in Nat
    BY <1>1
  <2> QED
    BY <1>2, <1>4, <2>1, <2>2, <2>3, <2>4, <2>5, LimiterAssumption
<1>6. /\ \A i \in 1 .. n : admitted'[c][i] = admitted[c][i] /\ admitted[c][i] \in Nat
      /\ admitted'[c][n + 1] = now
  BY <1>1, <1>4
<1> HIDE DEF n
<1>7. InOrder(c)'
  <2>1. /\ \A i, j \in 1 .. n : i <= j => admitted[c][i] <= admitted[c][j]
        /\ \A i \in 1 .. n : admitted[c][i] <= now
    BY <1>1 DEF InOrder, n
  <2>2. ASSUME NEW i \in 1 .. n + 1 PROVE i \in 1 .. n \/ i = n + 1
    BY <1>5
  <2>3. ASSUME NEW i \in 1 .. n + 1 PROVE admitted'[c][i] <= now
    <3>1. CASE i \in 1 .. n
      BY <1>6, <2>1, <3>1
    <3>2. CASE i = n + 1
      BY <1>1, <1>6, <3>2
    <3> QED
      BY <2>2, <3>1, <3>2
  <2>4. ASSUME NEW i \in 1 .. n + 1, NEW j \in 1 .. n + 1, i <= j
        PROVE  admitted'[c][i] <= admitted'[c][j]
    <3>1. CASE j = n + 1
      BY <1>6, <2>3, <3>1
    <3>2. CASE j # n + 1
      <4>1. i \in 1 .. n /\ j \in 1 .. n
        BY <1>5, <2>4, <3>2
      <4> QED
        BY <1>6, <2>1, <2>4, <4>1
    <3> QED
      BY <3>1, <3>2
  <2> QED
    BY <1>3, <1>5, <2>3, <2>4 DEF InOrder
<1>8. ToldOK(c)'
  BY <1>4 DEF ToldOK, NotTold
<1>9. ASSUME NEW b \in Clients, b # c
      PROVE events'[b] = events[b] /\ admitted'[b] = admitted[b] /\ told'[b] = told[b]
  BY <1>1, <1>3, <1>9
<1>10. TypeOK'
  BY <1>1, <1>3, <1>5, <1>9, OthersTold DEF TypeOK
<1> QED
  BY <1>1, <1>3, <1>4, <1>7, <1>8, <1>9, <1>10, OthersTold DEF ToldInv

LEMMA RefuseTold ==
    ASSUME ToldInv, NEW c \in Clients, Refuse(c)
    PROVE  ToldInv'
<1> DEFINE q == Pruned(events[c])
           answer == [at |-> now, retryAfter |-> RetryAfter(q)]
<1>1. /\ IInv' /\ DOMAIN told = Clients /\ now \in 0 .. MaxTime /\ now \in Nat
      /\ events \in [Clients -> Seq(Nat)] /\ InOrder(c)
  BY RefuseKeeps DEF ToldInv, IInv, TypeOK
<1>2. /\ q \in Seq(0 .. MaxTime) /\ q \in Seq(Nat) /\ Len(q) <= Limit
      /\ \A i \in 1 .. Len(q) : q[i] <= now
  BY PrunedFacts
<1>3. /\ now' = now /\ Len(q) >= Limit /\ admitted' = admitted
      /\ events' = [events EXCEPT ![c] = q] /\ told' = [told EXCEPT ![c] = answer]
  BY DEF Refuse
<1> HIDE DEF q
<1>4. Len(q) > 0 /\ q[1] <= now
  BY <1>2, <1>3, LimiterAssumption
<1>5. /\ RetryAfter(q) \in 0 .. WindowSeconds
      /\ q[1] + Window <= now + (RetryAfter(q) + 1) * TicksPerSecond
  <2>1. /\ RetryAfter(q) \in 1 .. WindowSeconds
        /\ q[1] + Window < now + (RetryAfter(q) + 1) * TicksPerSecond
    BY <1>1, <1>2, <1>4, RetryAfterCovers
  <2>2. q[1] \in Nat /\ Window \in Nat /\ TicksPerSecond \in Nat /\ WindowSeconds \in Nat
    BY <1>2, <1>4, WindowIsNat, LimiterAssumption
  <2>3. (RetryAfter(q) + 1) * TicksPerSecond \in Int
    BY <2>1, <2>2
  <2> QED
    BY <1>1, <2>1, <2>2, <2>3
<1>6. /\ answer \in [at : 0 .. MaxTime, retryAfter : 0 .. WindowSeconds]
      /\ Leaves(q[1], answer)
  BY <1>1, <1>5 DEF Leaves
<1> HIDE DEF answer
<1>7. events'[c] = q /\ told'[c] = answer /\ DOMAIN told' = Clients
  BY <1>1, <1>3
<1>8. ToldOK(c)'
  BY <1>6, <1>7 DEF ToldOK, Leaves, Window
<1>9. InOrder(c)'
  BY <1>1, <1>3 DEF InOrder
<1>10. ASSUME NEW b \in Clients, b # c
       PROVE events'[b] = events[b] /\ admitted'[b] = admitted[b] /\ told'[b] = told[b]
  BY <1>1, <1>3, <1>10
<1>11. admitted'[c] \in Seq(0 .. MaxTime)
  BY <1>3 DEF ToldInv, TypeOK
<1>12. TypeOK'
  BY <1>1, <1>2, <1>3, <1>6, <1>7, <1>10, <1>11, OthersTold DEF TypeOK
<1> QED
  BY <1>1, <1>3, <1>7, <1>8, <1>9, <1>10, <1>12, OthersTold DEF ToldInv

LEMMA TickTold ==
    ASSUME ToldInv, Tick
    PROVE  ToldInv'
<1>1. /\ IInv' /\ now \in Nat /\ now' = now + 1 /\ now' \in 0 .. MaxTime
      /\ events' = events /\ admitted' = admitted /\ told' = told
  BY TickKeeps, LimiterAssumption DEF ToldInv, IInv, TypeOK, Tick
<1>2. ASSUME NEW c \in Clients PROVE InOrder(c)' /\ ToldOK(c)'
  <2>1. /\ \A i, j \in 1 .. Len(admitted[c]) : i <= j => admitted[c][i] <= admitted[c][j]
        /\ \A i \in 1 .. Len(admitted[c]) : admitted[c][i] <= now /\ admitted[c][i] \in Nat
    BY DEF ToldInv, InOrder, IInv
  <2>2. InOrder(c)'
    BY <1>1, <2>1 DEF InOrder
  <2>3. ToldOK(c)'
    BY <1>1 DEF ToldInv, ToldOK, Leaves, Window, NotTold
  <2> QED
    BY <2>2, <2>3
<1>3. TypeOK'
  BY <1>1 DEF ToldInv, TypeOK
<1> QED
  BY <1>1, <1>2, <1>3 DEF ToldInv

LEMMA ToldInvariant == Spec => []ToldInv
<1>1. ToldInv /\ [Next]_vars => ToldInv'
  <2> SUFFICES ASSUME ToldInv, [Next]_vars
               PROVE  ToldInv'
    OBVIOUS
  <2>1. CASE Tick
    BY <2>1, TickTold
  <2>2. ASSUME NEW c \in Clients, Admit(c) PROVE ToldInv'
    BY <2>2, AdmitTold
  <2>3. ASSUME NEW c \in Clients, Refuse(c) PROVE ToldInv'
    BY <2>3, RefuseTold
  <2>4. CASE UNCHANGED vars
    <3>1. UNCHANGED <<now, events, admitted, told>>
      BY <2>4 DEF vars
    <3>2. IInv' /\ TypeOK'
      BY <3>1 DEF ToldInv, IInv, QueueIsTail, WindowOK, Expired, Window, TypeOK
    <3> QED
      BY <3>1, <3>2 DEF ToldInv, InOrder, ToldOK, Leaves, NotTold, Window
  <2> QED
    BY <2>1, <2>2, <2>3, <2>4 DEF Next
<1> QED
  BY <1>1, ToldInit, PTL DEF Spec

(* Times, queues and answers are well formed, and no queue outgrows the      *)
(* limit, although refused requests never add to it.                         *)
THEOREM TypeCorrect == Spec => []TypeOK
<1>1. ToldInv => TypeOK
  BY DEF ToldInv
<1> QED
  BY <1>1, ToldInvariant, PTL

(* What a request is judged by is exactly its client's admissions of the     *)
(* last window, the oldest of them first: the prune loop stops at the first  *)
(* live event, behind which all are live.                                    *)
LEMMA PrunedIsLive ==
    ASSUME ToldInv, NEW c \in Clients
    PROVE  LET q == Pruned(events[c])
               live == {i \in DOMAIN admitted[c] : ~Expired(admitted[c][i])}
           IN  /\ Len(q) = Cardinality(live)
               /\ Len(q) > 0 =>
                     \E i \in live : /\ admitted[c][i] = q[1]
                                    /\ \A j \in live : q[1] <= admitted[c][j]
<1> DEFINE q == Pruned(events[c])
           n == Len(admitted[c])
           f == n - Len(q)
           live == {i \in DOMAIN admitted[c] : ~Expired(admitted[c][i])}
<1>1. /\ q \in Seq(Nat) /\ f \in Nat
      /\ \A i \in 1 .. Len(q) : q[i] = admitted[c][i + f]
      /\ \A i \in 1 .. f : Expired(admitted[c][i])
  BY PrunedIsTail DEF ToldInv
<1>2. Len(q) > 0 => ~Expired(q[1])
  BY PrunedStartsLive DEF ToldInv, IInv
<1>3. /\ now \in Nat /\ admitted[c] \in Seq(Nat) /\ DOMAIN admitted[c] = 1 .. n /\ n \in Nat
      /\ \A i \in 1 .. n : admitted[c][i] \in Nat
      /\ \A i, j \in 1 .. n : i <= j => admitted[c][i] <= admitted[c][j]
  BY DEF ToldInv, IInv, InOrder
<1> HIDE DEF q
<1>4. Len(q) \in Nat /\ n = f + Len(q)
  BY <1>1, <1>3
<1> HIDE DEF f, n
<1>5. ASSUME NEW i \in f + 1 .. n PROVE ~Expired(admitted[c][i])
  <2>1. Len(q) > 0 /\ 1 \in 1 .. Len(q) /\ f + 1 \in 1 .. n /\ i \in 1 .. n /\ f + 1 <= i
    BY <1>1, <1>3, <1>4
  <2>2. q[1] = admitted[c][f + 1]
    BY <1>1, <2>1
  <2>3. ~Expired(admitted[c][f + 1]) /\ admitted[c][f + 1] <= admitted[c][i]
    BY <1>2, <1>3, <2>1, <2>2
  <2> QED
    BY <1>3, <2>1, <2>3, WindowIsNat DEF Expired
<1>6. live = f + 1 .. n
  <2>1. ASSUME NEW i \in 1 .. n PROVE i \in 1 .. f \/ i \in f + 1 .. n
    BY <1>1, <1>3
  <2>2. f + 1 .. n \subseteq 1 .. n
    BY <1>1, <1>3
  <2> QED
    BY <1>1, <1>3, <1>5, <2>1, <2>2
<1>7. Cardinality(f + 1 .. n) = Len(q)
  <2>1. f + 1 \in Int /\ n \in Int
    BY <1>1, <1>3
  <2>2. \A a, b \in Int : Cardinality(a .. b) = IF a > b THEN 0 ELSE b - a + 1
    BY FS_Interval
  <2>3. (IF f + 1 > n THEN 0 ELSE n - (f + 1) + 1) = Len(q)
    BY <1>1, <1>3, <1>4
  <2> QED
    BY <2>1, <2>2, <2>3
<1>8. ASSUME Len(q) > 0
      PROVE  /\ f + 1 \in live /\ admitted[c][f + 1] = q[1]
             /\ \A i \in live : q[1] <= admitted[c][i]
  <2>1. 1 \in 1 .. Len(q) /\ f + 1 \in f + 1 .. n /\ f + 1 \in 1 .. n
    BY <1>1, <1>3, <1>4, <1>8
  <2>2. \A i \in f + 1 .. n : i \in 1 .. n /\ f + 1 <= i
    BY <1>1, <1>3
  <2>3. q[1] = admitted[c][f + 1]
    BY <1>1, <2>1
  <2> HIDE DEF live
  <2> QED
    BY <1>3, <1>6, <2>1, <2>2, <2>3
<1> QED
  BY <1>6, <1>7, <1>8 DEF q

(* Nobody is turned away without that many admissions in the last window.    *)
THEOREM RefusedOnlyAtLimitAlways == Spec => []RefusedOnlyAtLimit
<1>1. ToldInv => RefusedOnlyAtLimit
  BY PrunedIsLive DEF RefusedOnlyAtLimit
<1> QED
  BY <1>1, ToldInvariant, PTL

(* Whoever waits the announced seconds and the one that was cut off is       *)
(* admitted: the head of its queue has left the window by then, and the      *)
(* queue was no longer than the limit.                                       *)
THEOREM RetryAfterIsEnoughAlways == Spec => []RetryAfterIsEnough
<1>1. ASSUME ToldInv, NEW c \in Clients, told[c] # NotTold,
             now >= told[c].at + (told[c].retryAfter + 1) * TicksPerSecond
      PROVE  Len(Pruned(events[c])) < Limit
  <2>1. /\ now \in Nat /\ events[c] \in Seq(Nat) /\ Len(events[c]) <= Limit
        /\ told[c] \in [at : 0 .. MaxTime, retryAfter : 0 .. WindowSeconds] /\ ToldOK(c)
    BY <1>1 DEF ToldInv, IInv, TypeOK
  <2>2. Len(Pruned(events[c])) \in 0 .. Len(events[c])
    BY <2>1, PrunedStartsLive
  <2>3. CASE Len(events[c]) = 0
    BY <2>2, <2>3, LimiterAssumption
  <2>4. CASE Len(events[c]) > 0
    <3>1. events[c][1] + Window <= told[c].at + (told[c].retryAfter + 1) * TicksPerSecond
      BY <1>1, <2>1, <2>4 DEF ToldOK, Leaves
    <3>2. PICK end \in Int : end = told[c].at + (told[c].retryAfter + 1) * TicksPerSecond
      BY <2>1, LimiterAssumption
    <3>3. PICK head \in Nat : head = events[c][1]
      BY <2>1, <2>4
    <3>4. Expired(events[c][1])
      <4>1. head + Window <= end /\ end <= now /\ now \in Nat /\ Window \in Nat
        BY <1>1, <2>1, <3>1, <3>2, <3>3, WindowIsNat
      <4>2. head <= now - Window
        BY ONLY <4>1, head \in Nat, end \in Int
      <4> QED
        BY <3>3, <4>2 DEF Expired
    <3>5. Len(Pruned(events[c])) < Len(events[c])
      BY <2>1, <2>4, <3>4, PrunedStartsLive
    <3> QED
      BY <2>1, <2>2, <3>5, LimiterAssumption
  <2> QED
    BY <2>1, <2>3, <2>4
<1>2. ToldInv => RetryAfterIsEnough
  BY <1>1 DEF RetryAfterIsEnough
<1> QED
  BY <1>2, ToldInvariant, PTL

-----------------------------------------------------------------------------
(* Sets have one size, whichever module counts.                              *)
LEMMA SameCardinality == \A S : Promise!Cardinality(S) = Cardinality(S)
BY DEF Cardinality, Promise!Cardinality

(* The refinement.  What is counted is what a pruned queue holds.            *)
LEMMA CountedAreLive ==
    ASSUME ToldInv, NEW c \in Clients
    PROVE  Promise!Counted(c) = {i \in DOMAIN admitted[c] : ~Expired(admitted[c][i])}
<1>1. now \in Nat /\ admitted[c] \in Seq(Nat) /\ Window \in Nat
  BY WindowIsNat DEF ToldInv, IInv
<1>2. \A i \in DOMAIN admitted[c] : admitted[c][i] \in Nat
  BY <1>1
<1>3. \A t \in Nat : t > now - Window <=> ~Expired(t)
  BY <1>1 DEF Expired
<1> QED
  BY <1>2, <1>3, Zenon DEF Promise!Counted, Window

LEMMA ServesBelowLimit ==
    ASSUME ToldInv, NEW c \in Clients, Admit(c)
    PROVE  Promise!Serve(c)
<1>1. Promise!Cardinality(Promise!Counted(c)) < Limit
  BY PrunedIsLive, CountedAreLive, SameCardinality DEF Admit
<1>2. /\ admitted' = [admitted EXCEPT ![c] = Append(@, now)]
      /\ told' = [told EXCEPT ![c] = NotTold]
      /\ now' = now
  BY DEF Admit
<1> QED
  BY <1>1, <1>2 DEF Promise!Serve, NotTold

(* A client that is turned away is told the seconds until the oldest of      *)
(* exactly Limit admissions leaves the window.                               *)
LEMMA TurnsAwayAtLimit ==
    ASSUME ToldInv, NEW c \in Clients, Refuse(c)
    PROVE  Promise!TurnAway(c)
<1> DEFINE q == Pruned(events[c])
           s == RetryAfter(q)
           C == Promise!Counted(c)
<1>1. /\ q \in Seq(Nat) /\ Len(q) = Limit /\ Len(q) > 0
      /\ q[1] <= now /\ now \in Nat
  <2>1. /\ q \in Seq(Nat) /\ Len(q) <= Limit /\ \A i \in 1 .. Len(q) : q[i] <= now
    BY PrunedFacts
  <2>2. Len(q) >= Limit
    BY DEF Refuse
  <2>3. Limit \in Nat \ {0} /\ now \in Nat
    BY LimiterAssumption DEF ToldInv, IInv
  <2> HIDE DEF q
  <2>4. Len(q) = Limit /\ 1 \in 1 .. Len(q)
    BY <2>1, <2>2, <2>3
  <2> QED
    BY <2>1, <2>3, <2>4
<1>2. /\ Promise!Cardinality(C) = Limit
      /\ \A i \in C : admitted[c][i] \in Nat
  <2>1. admitted[c] \in Seq(Nat)
    BY DEF ToldInv, IInv
  <2> QED
    BY <1>1, <2>1, PrunedIsLive, CountedAreLive, SameCardinality
<1>3. PICK i \in C : /\ admitted[c][i] = q[1]
                     /\ \A j \in C : q[1] <= admitted[c][j]
  BY <1>1, PrunedIsLive, CountedAreLive
<1>4. /\ s \in 1 .. WindowSeconds
      /\ q[1] + Window < now + (s + 1) * TicksPerSecond
      /\ s = 1 \/ now + s * TicksPerSecond <= q[1] + Window
  BY <1>1, RetryAfterCovers
<1>5. /\ told' = [told EXCEPT ![c] = [at |-> now, retryAfter |-> s]]
      /\ now' = now /\ admitted' = admitted
  BY DEF Refuse
<1> HIDE DEF q, s, C
<1>6. Promise!Leaves(c, i) < now + (s + 1) * TicksPerSecond
  BY <1>3, <1>4 DEF Promise!Leaves, Window
<1>7. ASSUME NEW j \in C, s # 1
      PROVE  now + s * TicksPerSecond <= Promise!Leaves(c, j)
  <2>1. q[1] + Window <= admitted[c][j] + Window
    <3>1. /\ q[1] \in Nat /\ admitted[c][j] \in Nat /\ Window \in Nat
          /\ q[1] <= admitted[c][j]
      BY <1>1, <1>2, <1>3, WindowIsNat
    <3> QED
      BY <3>1
  <2>2. now + s * TicksPerSecond <= q[1] + Window
    BY <1>4, <1>7
  <2>3. /\ now + s * TicksPerSecond \in Int /\ q[1] + Window \in Int
        /\ admitted[c][j] + Window \in Int
    BY <1>1, <1>2, <1>4, WindowIsNat, LimiterAssumption
  <2>4. now + s * TicksPerSecond <= admitted[c][j] + Window
    BY <2>1, <2>2, <2>3
  <2> QED
    BY <2>4 DEF Promise!Leaves, Window
<1> QED
  BY <1>2, <1>3, <1>4, <1>5, <1>6, <1>7 DEF Promise!TurnAway, C

(* The limiter keeps the promise: pruning on demand decides every request    *)
(* as a log of all admissions would.                                         *)
THEOREM ImplementsSlidingWindowAlways == Spec => ImplementsSlidingWindow
<1>1. Init => Promise!WInit
  BY DEF Init, Promise!WInit, NotTold
<1>2. ToldInv /\ [Next]_vars => [Promise!WNext]_Promise!windowVars
  <2> SUFFICES ASSUME ToldInv, [Next]_vars
               PROVE  Promise!WNext \/ UNCHANGED Promise!windowVars
    OBVIOUS
  <2>1. CASE Tick
    BY <2>1 DEF Tick, Promise!WNext, Promise!Pass
  <2>2. ASSUME NEW c \in Clients, Admit(c) PROVE Promise!WNext
    BY <2>2, ServesBelowLimit DEF Promise!WNext
  <2>3. ASSUME NEW c \in Clients, Refuse(c) PROVE Promise!WNext
    BY <2>3, TurnsAwayAtLimit DEF Promise!WNext
  <2>4. CASE UNCHANGED vars
    BY <2>4 DEF vars, Promise!windowVars
  <2> QED
    BY <2>1, <2>2, <2>3, <2>4 DEF Next
<1> QED
  BY <1>1, <1>2, ToldInvariant, PTL DEF Spec, ImplementsSlidingWindow, Promise!WSpec
=============================================================================
