-------------------------- MODULE LlmClientProofs --------------------------
(***************************************************************************)
(* The shared client is sound for any number of threads, clients, calls and *)
(* retries and for every configuration.  That calls use open clients is not *)
(* inductive: it holds because nothing closes anything before the stop, and *)
(* because after it no thread is inside a call or will begin one.           *)
(***************************************************************************)
EXTENDS LlmClient, TLAPS

ThreadRecord ==
    [phase : {"idle", "constructing", "calling"}, kind : Kinds,
     client : ClientIds \cup {NoClient}, attempts : Nat,
     last : Outcomes \cup {"none"}, answer : Answers, calls : Nat]

(* Nothing is closed while the process may still call.                       *)
NothingClosed ==
    process # "stopped" =>
        \A c \in ClientIds : clients[c].sdk # "closed" /\ clients[c].credential # "closed"

(* A client that is used or cached was built.                                *)
UsedIsBuilt ==
    /\ \A t \in Threads : thread[t].phase = "calling" => clients[thread[t].client].sdk # "none"
    /\ cache # NoClient => clients[cache].sdk # "none"

(* When the manager joins, requests are over; at the end everything is.      *)
ThreadsEnd ==
    /\ process \in {"joining", "stopped"} => \A t \in RequestThreads : thread[t].phase = "idle"
    /\ process = "stopped" => \A t \in Workers : thread[t].phase = "idle"

(* What was ever cached is cached still, until the stop has closed it.       *)
CacheKept ==
    IF process = "stopped" THEN cache = NoClient
    ELSE cachedOnce = {cache} \ {NoClient}

CachedIsClosed ==
    /\ \A c, d \in cachedOnce : c = d
    /\ process = "stopped" /\ ~closeFailed =>
          \A c \in cachedOnce : clients[c].sdk = "closed" /\ clients[c].credential # "open"

-----------------------------------------------------------------------------
(* The record of a thread after each of the steps that change it.            *)
LEMMA CalledType ==
    ASSUME TypeOK, NEW t \in Threads, NEW kind \in Kinds
    PROVE  /\ Called(t, kind) \in ThreadRecord
           /\ Called(t, kind).phase = "idle" /\ Called(t, kind).kind = kind
           /\ Called(t, kind).answer = "none" /\ Called(t, kind).attempts = 0
<1>1. IdleThread \in ThreadRecord
  BY DEF IdleThread, ThreadRecord, Kinds, Answers
<1>2. thread[t].calls + 1 \in Nat
  BY DEF TypeOK
<1> QED
  BY <1>1, <1>2 DEF Called, IdleThread, ThreadRecord, Kinds, Answers

LEMMA AnsweredType ==
    ASSUME TypeOK, NEW t \in Threads, NEW answer \in Answers,
           NEW o \in Outcomes \cup {"none"}, NEW n \in Nat,
           thread' = Answered(t, answer, o, n)
    PROVE  /\ thread' \in [Threads -> ThreadRecord]
           /\ \A u \in Threads \ {t} : thread'[u] = thread[u]
           /\ thread'[t].phase = "idle" /\ thread'[t].kind = thread[t].kind
           /\ thread'[t].answer = answer /\ thread'[t].last = o /\ thread'[t].attempts = n
<1>1. thread \in [Threads -> ThreadRecord]
  BY DEF TypeOK, ThreadRecord
<1> DEFINE r == [thread[t] EXCEPT !.phase = "idle", !.answer = answer, !.last = o, !.attempts = n]
<1>2. /\ r \in ThreadRecord
      /\ r.phase = "idle" /\ r.kind = thread[t].kind
      /\ r.answer = answer /\ r.last = o /\ r.attempts = n
  BY <1>1 DEF ThreadRecord
<1>3. thread' = [thread EXCEPT ![t] = r]
  BY DEF Answered
<1> HIDE DEF r
<1> QED
  BY <1>1, <1>2, <1>3

(* A thread that begins a call: idle and answered, constructing, or calling. *)
LEMMA BegunType ==
    ASSUME TypeOK, NEW t \in Threads, NEW r \in ThreadRecord, thread' = [thread EXCEPT ![t] = r]
    PROVE  /\ thread' \in [Threads -> ThreadRecord]
           /\ \A u \in Threads \ {t} : thread'[u] = thread[u]
           /\ thread'[t] = r
BY DEF TypeOK, ThreadRecord

LEMMA AnswerOfflineThread ==
    ASSUME TypeOK, NEW t \in Threads, AnswerOffline(t)
    PROVE  /\ thread' \in [Threads -> ThreadRecord]
           /\ \A u \in Threads \ {t} : thread'[u] = thread[u]
           /\ thread'[t].phase = "idle" /\ thread'[t].answer = "offline"
           /\ thread'[t].kind # "agent"
<1>1. PICK kind \in Kinds \ {"agent"} :
        thread' = [thread EXCEPT ![t] = [Called(t, kind) EXCEPT !.answer = "offline"]]
  BY DEF AnswerOffline
<1> DEFINE r == [Called(t, kind) EXCEPT !.answer = "offline"]
<1>2. /\ r \in ThreadRecord /\ r.phase = "idle" /\ r.answer = "offline" /\ r.kind = kind
  BY CalledType DEF ThreadRecord, Answers
<1> HIDE DEF r
<1>3. thread' = [thread EXCEPT ![t] = r]
  BY <1>1 DEF r
<1> QED
  BY <1>2, <1>3, BegunType

LEMMA RefuseJudgeThread ==
    ASSUME TypeOK, NEW t \in Threads, RefuseJudge(t)
    PROVE  /\ thread' \in [Threads -> ThreadRecord]
           /\ \A u \in Threads \ {t} : thread'[u] = thread[u]
           /\ thread'[t].phase = "idle" /\ thread'[t].answer = "configuration"
           /\ thread'[t].kind = "judge" /\ thread'[t].attempts = 0
<1> DEFINE r == [Called(t, "judge") EXCEPT !.answer = "configuration"]
<1>1. "judge" \in Kinds
  BY DEF Kinds
<1>2. /\ r \in ThreadRecord /\ r.phase = "idle" /\ r.answer = "configuration"
      /\ r.kind = "judge" /\ r.attempts = 0
  BY <1>1, CalledType DEF ThreadRecord, Answers
<1>3. thread' = [thread EXCEPT ![t] = r]
  BY DEF RefuseJudge
<1> HIDE DEF r
<1> QED
  BY <1>2, <1>3, BegunType

LEMMA HitThread ==
    ASSUME TypeOK, NEW t \in Threads, NEW kind \in Kinds, Hit(t, kind)
    PROVE  /\ thread' \in [Threads -> ThreadRecord]
           /\ \A u \in Threads \ {t} : thread'[u] = thread[u]
           /\ thread'[t].phase = "calling" /\ thread'[t].client = cache
           /\ thread'[t].answer = "none" /\ thread'[t].attempts = 0
<1> DEFINE r == [Called(t, kind) EXCEPT !.phase = "calling", !.client = cache]
<1>1. cache \in ClientIds \cup {NoClient}
  BY DEF TypeOK
<1>2. /\ r \in ThreadRecord /\ r.phase = "calling" /\ r.client = cache
      /\ r.answer = "none" /\ r.attempts = 0
  <2>1. /\ Called(t, kind) \in ThreadRecord
        /\ Called(t, kind).answer = "none" /\ Called(t, kind).attempts = 0
    BY CalledType
  <2> QED
    BY <1>1, <2>1 DEF ThreadRecord
<1>3. thread' = [thread EXCEPT ![t] = r]
  BY DEF Hit
<1> HIDE DEF r
<1> QED
  BY <1>2, <1>3, BegunType

LEMMA MissThread ==
    ASSUME TypeOK, NEW t \in Threads, NEW kind \in Kinds, Miss(t, kind)
    PROVE  /\ thread' \in [Threads -> ThreadRecord]
           /\ \A u \in Threads \ {t} : thread'[u] = thread[u]
           /\ thread'[t].phase = "constructing"
           /\ thread'[t].answer = "none" /\ thread'[t].attempts = 0
<1> DEFINE r == [Called(t, kind) EXCEPT !.phase = "constructing"]
<1>2. /\ r \in ThreadRecord /\ r.phase = "constructing"
      /\ r.answer = "none" /\ r.attempts = 0
  BY CalledType DEF ThreadRecord
<1>3. thread' = [thread EXCEPT ![t] = r]
  BY DEF Miss
<1> HIDE DEF r
<1> QED
  BY <1>2, <1>3, BegunType

LEMMA ConstructThread ==
    ASSUME TypeOK, NEW t \in Threads, Construct(t)
    PROVE  /\ thread' \in [Threads -> ThreadRecord]
           /\ \A u \in Threads \ {t} : thread'[u] = thread[u]
           /\ thread'[t].phase = "calling" /\ thread'[t].client \in ClientIds
           /\ thread'[t].answer = thread[t].answer /\ thread'[t].attempts = thread[t].attempts
           /\ clients[thread'[t].client] = Unbuilt
           /\ clients' = [clients EXCEPT ![thread'[t].client] = BuiltClient]
           /\ IF cache = NoClient
              THEN cache' = thread'[t].client /\ cachedOnce' = cachedOnce \cup {cache'}
              ELSE UNCHANGED <<cache, cachedOnce>>
<1>1. PICK c \in ClientIds :
        /\ clients[c] = Unbuilt
        /\ clients' = [clients EXCEPT ![c] = BuiltClient]
        /\ thread' = [thread EXCEPT ![t] = [@ EXCEPT !.phase = "calling", !.client = c]]
        /\ IF cache = NoClient
           THEN cache' = c /\ cachedOnce' = cachedOnce \cup {c}
           ELSE UNCHANGED <<cache, cachedOnce>>
  BY DEF Construct
<1> DEFINE r == [thread[t] EXCEPT !.phase = "calling", !.client = c]
<1>2. /\ r \in ThreadRecord /\ r.phase = "calling" /\ r.client = c
      /\ r.answer = thread[t].answer /\ r.attempts = thread[t].attempts
  BY DEF TypeOK, ThreadRecord
<1>3. thread' = [thread EXCEPT ![t] = r]
  BY <1>1
<1> HIDE DEF r
<1>4. thread'[t] = r /\ thread' \in [Threads -> ThreadRecord]
      /\ \A u \in Threads \ {t} : thread'[u] = thread[u]
  BY <1>2, <1>3, BegunType
<1> QED
  BY <1>1, <1>2, <1>4

LEMMA RetryThread ==
    ASSUME TypeOK, NEW t \in Threads, NEW o \in Outcomes, RetryAttempt(t, o)
    PROVE  /\ thread' \in [Threads -> ThreadRecord]
           /\ \A u \in Threads \ {t} : thread'[u] = thread[u]
           /\ thread'[t].phase = "calling" /\ thread'[t].client = thread[t].client
           /\ thread'[t].answer = thread[t].answer
           /\ thread'[t].attempts = thread[t].attempts + 1
<1> DEFINE r == [thread[t] EXCEPT !.attempts = thread[t].attempts + 1, !.last = o]
<1>1. thread[t] \in ThreadRecord /\ thread[t].phase = "calling" /\ thread[t].attempts + 1 \in Nat
  BY DEF TypeOK, ThreadRecord, RetryAttempt
<1>2. /\ r \in ThreadRecord /\ r.phase = "calling" /\ r.client = thread[t].client
      /\ r.answer = thread[t].answer /\ r.attempts = thread[t].attempts + 1
  BY <1>1 DEF ThreadRecord
<1>3. thread' = [thread EXCEPT ![t] = r]
  BY DEF RetryAttempt
<1> HIDE DEF r
<1> QED
  BY <1>2, <1>3, BegunType

LEMMA CallFailsThread ==
    ASSUME TypeOK, NEW t \in Threads, NEW o \in Outcomes, CallFails(t, o)
    PROVE  /\ thread' \in [Threads -> ThreadRecord]
           /\ \A u \in Threads \ {t} : thread'[u] = thread[u]
           /\ thread'[t].phase = "idle" /\ thread'[t].answer = "upstream"
           /\ thread'[t].last = o
           /\ thread'[t].attempts = thread[t].attempts + IF o \in Unsent THEN 0 ELSE 1
<1> DEFINE n == thread[t].attempts + IF o \in Unsent THEN 0 ELSE 1
<1>1. n \in Nat /\ "upstream" \in Answers
  BY DEF TypeOK, Answers
<1>2. thread' = Answered(t, "upstream", o, n)
  BY DEF CallFails
<1> HIDE DEF n
<1>3. /\ thread' \in [Threads -> ThreadRecord]
      /\ \A u \in Threads \ {t} : thread'[u] = thread[u]
      /\ thread'[t].phase = "idle" /\ thread'[t].answer = "upstream"
      /\ thread'[t].last = o /\ thread'[t].attempts = n
  BY <1>1, <1>2, AnsweredType
<1> QED
  BY <1>3 DEF n

LEMMA CallReturnsThread ==
    ASSUME TypeOK, NEW t \in Threads, NEW o \in Outcomes, CallReturns(t, o)
    PROVE  /\ thread' \in [Threads -> ThreadRecord]
           /\ \A u \in Threads \ {t} : thread'[u] = thread[u]
           /\ thread'[t].phase = "idle" /\ thread'[t].answer = ParsedAnswer(o)
           /\ thread'[t].last = o /\ thread'[t].attempts = thread[t].attempts + 1
<1>1. thread[t].attempts + 1 \in Nat /\ ParsedAnswer(o) \in Answers
  BY DEF TypeOK, ParsedAnswer, Answers
<1>2. thread' = Answered(t, ParsedAnswer(o), o, thread[t].attempts + 1)
  BY DEF CallReturns
<1> QED
  BY <1>1, <1>2, AnsweredType

LEMMA ConstructorRaisesThread ==
    ASSUME TypeOK, NEW t \in Threads, ConstructorRaises(t)
    PROVE  /\ thread' \in [Threads -> ThreadRecord]
           /\ \A u \in Threads \ {t} : thread'[u] = thread[u]
           /\ thread'[t].phase = "idle" /\ thread'[t].answer = "configuration"
           /\ thread'[t].attempts = 0
<1>1. thread' = Answered(t, "configuration", "none", 0) /\ "configuration" \in Answers
  BY DEF ConstructorRaises, Answers
<1> QED
  BY <1>1, AnsweredType

-----------------------------------------------------------------------------
LEMMA TypeInit == Init => TypeOK
<1> SUFFICES ASSUME Init PROVE TypeOK
  OBVIOUS
<1>1. thread \in [Threads -> ThreadRecord] /\ \A t \in Threads : thread[t].phase = "idle"
  BY DEF Init, IdleThread, ThreadRecord, Kinds, Answers
<1>2. clients \in [ClientIds -> [sdk : {"none", "open", "closed"},
                                 credential : {"none", "open", "closed"}]]
  BY DEF Init, Unbuilt
<1>3. closeFailed \in BOOLEAN
  BY Zenon DEF Init
<1>4. /\ settings \in Settings /\ process = "up"
      /\ cache = NoClient /\ cachedOnce = {}
  BY DEF Init
<1> QED
  BY <1>1, <1>2, <1>3, <1>4 DEF TypeOK, ThreadRecord

ClientRecord == [sdk : {"none", "open", "closed"}, credential : {"none", "open", "closed"}]

LEMMA TypeStep == TypeOK /\ [Next]_vars => TypeOK'
<1> SUFFICES ASSUME TypeOK, [Next]_vars PROVE TypeOK'
  OBVIOUS
<1>t. /\ thread \in [Threads -> ThreadRecord]
      /\ clients \in [ClientIds -> ClientRecord]
  BY DEF TypeOK, ThreadRecord, ClientRecord
<1>c. ASSUME NEW t \in Threads, thread' \in [Threads -> ThreadRecord],
             \A u \in Threads \ {t} : thread'[u] = thread[u],
             thread'[t].phase = "calling" => thread'[t].client \in ClientIds,
             UNCHANGED <<settings, process, cache, clients, cachedOnce, closeFailed>>
      PROVE  TypeOK'
  BY <1>c DEF TypeOK, ThreadRecord
<1>1. CASE Stop
  BY <1>1 DEF Stop, TypeOK
<1>2. CASE RequestsDone
  BY <1>2 DEF RequestsDone, TypeOK
<1>3. CASE Close
  <2>1. clients' \in [ClientIds -> ClientRecord]
    <3>1. \A c \in ClientIds : /\ Closed(clients[c]) \in ClientRecord
                              /\ LeftByClose(clients[c]) \subseteq ClientRecord
      BY <1>t DEF Closed, LeftByClose, ClientRecord
    <3>2. cache # NoClient => cache \in ClientIds
      BY DEF TypeOK
    <3> QED
      BY <1>3, <1>t, <3>1, <3>2 DEF Close
  <2>2. closeFailed' \in BOOLEAN
    BY <1>3, Zenon DEF Close, TypeOK
  <2> QED
    BY <1>3, <2>1, <2>2 DEF Close, TypeOK, ClientRecord
<1>4. ASSUME NEW t \in Threads, AnswerOffline(t) PROVE TypeOK'
  BY <1>4, <1>c, AnswerOfflineThread DEF AnswerOffline
<1>5. ASSUME NEW t \in Threads, RefuseJudge(t) PROVE TypeOK'
  BY <1>5, <1>c, RefuseJudgeThread DEF RefuseJudge
<1>6. ASSUME NEW t \in Threads, NEW kind \in Kinds, Hit(t, kind) PROVE TypeOK'
  <2>1. cache \in ClientIds
    BY <1>6 DEF Hit, TypeOK
  <2> QED
    BY <1>6, <1>c, <2>1, HitThread DEF Hit
<1>7. ASSUME NEW t \in Threads, NEW kind \in Kinds, Miss(t, kind) PROVE TypeOK'
  BY <1>7, <1>c, MissThread DEF Miss
<1>8. ASSUME NEW t \in Threads, ConstructorRaises(t) PROVE TypeOK'
  BY <1>8, <1>c, ConstructorRaisesThread DEF ConstructorRaises
<1>9. ASSUME NEW t \in Threads, Construct(t) PROVE TypeOK'
  <2>1. BuiltClient \in ClientRecord
    BY DEF BuiltClient, ClientRecord
  <2>2. clients' \in [ClientIds -> ClientRecord]
    BY <1>9, <1>t, <2>1, ConstructThread
  <2>3. cache' \in ClientIds \cup {NoClient} /\ cachedOnce' \subseteq ClientIds
    BY <1>9, ConstructThread DEF TypeOK
  <2> QED
    BY <1>9, <2>2, <2>3, ConstructThread DEF Construct, TypeOK, ThreadRecord, ClientRecord
<1>10. ASSUME NEW t \in Threads, NEW o \in Outcomes, RetryAttempt(t, o) PROVE TypeOK'
  BY <1>10, <1>c, RetryThread DEF RetryAttempt, TypeOK
<1>11. ASSUME NEW t \in Threads, NEW o \in Outcomes, CallFails(t, o) PROVE TypeOK'
  BY <1>11, <1>c, CallFailsThread DEF CallFails
<1>12. ASSUME NEW t \in Threads, NEW o \in Outcomes, CallReturns(t, o) PROVE TypeOK'
  BY <1>12, <1>c, CallReturnsThread DEF CallReturns
<1>13. CASE UNCHANGED vars
  BY <1>13 DEF vars, TypeOK
<1> QED
  BY <1>1, <1>2, <1>3, <1>4, <1>5, <1>6, <1>7, <1>8, <1>9, <1>10, <1>11, <1>12, <1>13 DEF Next, Call

(* Types, for every number of threads, clients and calls.                    *)
THEOREM TypeCorrect == Spec => []TypeOK
BY TypeInit, TypeStep, PTL DEF Spec

-----------------------------------------------------------------------------
ClientsInv == NothingClosed /\ UsedIsBuilt /\ ThreadsEnd

LEMMA ClientsStep == TypeOK /\ ClientsInv /\ [Next]_vars => ClientsInv'
<1> SUFFICES ASSUME TypeOK, ClientsInv, [Next]_vars PROVE ClientsInv'
  OBVIOUS
(* A thread that does not call, and begins nothing after the stop.           *)
<1>i. ASSUME NEW t \in Threads, \A u \in Threads \ {t} : thread'[u] = thread[u],
             UNCHANGED <<process, cache, clients>>,
             \/ thread'[t].phase = "idle"
             \/ /\ thread'[t].phase = "calling" => clients[thread'[t].client].sdk # "none"
                /\ process # "stopped" /\ (t \in RequestThreads => process # "joining")
      PROVE  ClientsInv'
  <2>1. NothingClosed'
    BY <1>i DEF ClientsInv, NothingClosed
  <2>2. UsedIsBuilt'
    BY <1>i DEF ClientsInv, UsedIsBuilt
  <2>3. ThreadsEnd'
    BY <1>i DEF ClientsInv, ThreadsEnd, Threads
  <2> QED
    BY <2>1, <2>2, <2>3 DEF ClientsInv
<1>p. ASSUME NEW t \in Threads, thread[t].phase # "idle" \/ MayCall(t)
      PROVE  process # "stopped" /\ (t \in RequestThreads => process # "joining")
  BY <1>p, LlmAssumption DEF ClientsInv, ThreadsEnd, MayCall, Threads
<1>1. CASE Stop
  BY <1>1 DEF Stop, ClientsInv, NothingClosed, UsedIsBuilt, ThreadsEnd
<1>2. CASE RequestsDone
  BY <1>2 DEF RequestsDone, ClientsInv, NothingClosed, UsedIsBuilt, ThreadsEnd
<1>3. CASE Close
  <2>1. \A t \in Threads : thread'[t].phase = "idle"
    BY <1>3 DEF Close, ClientsInv, ThreadsEnd, Threads
  <2>2. process' = "stopped" /\ cache' = NoClient
    BY <1>3 DEF Close
  <2> QED
    BY <2>1, <2>2 DEF ClientsInv, NothingClosed, UsedIsBuilt, ThreadsEnd, Threads
<1>4. ASSUME NEW t \in Threads, AnswerOffline(t) PROVE ClientsInv'
  BY <1>4, <1>i, AnswerOfflineThread DEF AnswerOffline
<1>5. ASSUME NEW t \in Threads, RefuseJudge(t) PROVE ClientsInv'
  BY <1>5, <1>i, RefuseJudgeThread DEF RefuseJudge
<1>6. ASSUME NEW t \in Threads, NEW kind \in Kinds, Hit(t, kind) PROVE ClientsInv'
  <2>1. clients[cache].sdk # "none"
    BY <1>6 DEF Hit, ClientsInv, UsedIsBuilt
  <2>2. process # "stopped" /\ (t \in RequestThreads => process # "joining")
    BY <1>6, <1>p DEF Hit
  <2>3. /\ \A u \in Threads \ {t} : thread'[u] = thread[u]
        /\ thread'[t].phase = "calling" /\ thread'[t].client = cache
    BY <1>6, HitThread
  <2>4. UNCHANGED <<process, cache, clients>>
    BY <1>6 DEF Hit
  <2> QED
    BY <1>i, <2>1, <2>2, <2>3, <2>4
<1>7. ASSUME NEW t \in Threads, NEW kind \in Kinds, Miss(t, kind) PROVE ClientsInv'
  BY <1>7, <1>i, <1>p, MissThread DEF Miss
<1>8. ASSUME NEW t \in Threads, ConstructorRaises(t) PROVE ClientsInv'
  BY <1>8, <1>i, ConstructorRaisesThread DEF ConstructorRaises
<1>9. ASSUME NEW t \in Threads, Construct(t) PROVE ClientsInv'
  <2>1. /\ thread[t].phase = "constructing" /\ process' = process
        /\ thread'[t].client \in ClientIds
        /\ clients' = [clients EXCEPT ![thread'[t].client] = BuiltClient]
    BY <1>9, ConstructThread DEF Construct
  <2>2. clients \in [ClientIds -> ClientRecord]
    BY DEF TypeOK, ClientRecord
  <2>3. /\ BuiltClient.sdk = "open" /\ BuiltClient.credential # "closed"
    BY DEF BuiltClient
  <2>4. NothingClosed'
    BY <2>1, <2>2, <2>3 DEF ClientsInv, NothingClosed
  <2>5. UsedIsBuilt'
    <3>1. \A c \in ClientIds : clients[c].sdk # "none" => clients'[c].sdk # "none"
      BY <2>1, <2>2, <2>3
    <3>2. clients'[thread'[t].client].sdk # "none"
      BY <2>1, <2>2, <2>3
    <3>3. ASSUME NEW u \in Threads, thread'[u].phase = "calling"
          PROVE  clients'[thread'[u].client].sdk # "none"
      <4>1. CASE u = t
        BY <3>2, <4>1
      <4>2. CASE u # t
        <5>1. thread'[u] = thread[u]
          BY <1>9, <4>2, ConstructThread
        <5>2. thread[u].client \in ClientIds /\ clients[thread[u].client].sdk # "none"
          BY <3>3, <5>1 DEF ClientsInv, UsedIsBuilt, TypeOK
        <5> QED
          BY <3>1, <5>1, <5>2
      <4> QED
        BY <4>1, <4>2
    <3>4. cache' = thread'[t].client \/ cache' = cache
      BY <1>9, ConstructThread
    <3>5. cache # NoClient => cache \in ClientIds
      BY DEF TypeOK
    <3> QED
      BY <3>1, <3>2, <3>3, <3>4, <3>5 DEF ClientsInv, UsedIsBuilt
  <2>6. ThreadsEnd'
    BY <1>9, <1>p, <2>1, ConstructThread DEF ClientsInv, ThreadsEnd, Threads
  <2> QED
    BY <2>4, <2>5, <2>6 DEF ClientsInv
<1>10. ASSUME NEW t \in Threads, NEW o \in Outcomes, RetryAttempt(t, o) PROVE ClientsInv'
  <2>1. thread[t].phase = "calling" /\ clients[thread[t].client].sdk # "none"
    BY <1>10 DEF RetryAttempt, ClientsInv, UsedIsBuilt
  <2> QED
    BY <1>10, <1>i, <1>p, <2>1, RetryThread DEF RetryAttempt
<1>11. ASSUME NEW t \in Threads, NEW o \in Outcomes, CallFails(t, o) PROVE ClientsInv'
  BY <1>11, <1>i, CallFailsThread DEF CallFails
<1>12. ASSUME NEW t \in Threads, NEW o \in Outcomes, CallReturns(t, o) PROVE ClientsInv'
  BY <1>12, <1>i, CallReturnsThread DEF CallReturns
<1>13. CASE UNCHANGED vars
  BY <1>13 DEF vars, ClientsInv, NothingClosed, UsedIsBuilt, ThreadsEnd
<1> QED
  BY <1>1, <1>2, <1>3, <1>4, <1>5, <1>6, <1>7, <1>8, <1>9, <1>10, <1>11, <1>12, <1>13 DEF Next, Call

LEMMA ClientsInvariant == Spec => []ClientsInv
<1>1. Init => ClientsInv
  BY DEF Init, ClientsInv, NothingClosed, UsedIsBuilt, ThreadsEnd, IdleThread, Unbuilt, Threads
<1> QED
  BY <1>1, ClientsStep, TypeCorrect, PTL DEF Spec

(* No call ever goes through a closed client.                                *)
THEOREM CallsUseOpenClientsAlways == Spec => []CallsUseOpenClients
<1>1. TypeOK /\ ClientsInv => CallsUseOpenClients
  <2> SUFFICES ASSUME TypeOK, ClientsInv, NEW t \in Threads, thread[t].phase = "calling"
               PROVE  /\ clients[thread[t].client].sdk = "open"
                      /\ clients[thread[t].client].credential # "closed"
    BY DEF CallsUseOpenClients
  <2>1. thread[t].client \in ClientIds
    BY DEF TypeOK
  <2>2. process # "stopped"
    BY DEF ClientsInv, ThreadsEnd, Threads
  <2>3. clients[thread[t].client].sdk \in {"none", "open", "closed"}
    BY <2>1 DEF TypeOK
  <2> QED
    BY <2>1, <2>2, <2>3 DEF ClientsInv, NothingClosed, UsedIsBuilt
<1> QED
  BY <1>1, TypeCorrect, ClientsInvariant, PTL

-----------------------------------------------------------------------------
CacheInv == CacheKept /\ CachedIsClosed

LEMMA CacheStep == TypeOK /\ ClientsInv /\ CacheInv /\ [Next]_vars => CacheInv'
<1> SUFFICES ASSUME TypeOK, ClientsInv, CacheInv, [Next]_vars PROVE CacheInv'
  OBVIOUS
<1>u. ASSUME UNCHANGED <<process, cache, clients, cachedOnce, closeFailed>> PROVE CacheInv'
  BY <1>u DEF CacheInv, CacheKept, CachedIsClosed
<1>1. CASE Stop
  BY <1>1 DEF Stop, CacheInv, CacheKept, CachedIsClosed
<1>2. CASE RequestsDone
  BY <1>2 DEF RequestsDone, CacheInv, CacheKept, CachedIsClosed
<1>3. CASE Close
  <2>1. /\ process' = "stopped" /\ cache' = NoClient
        /\ cachedOnce' = cachedOnce /\ cachedOnce = {cache} \ {NoClient}
    BY <1>3 DEF Close, CacheInv, CacheKept
  <2>2. CASE cache = NoClient
    BY <2>1, <2>2 DEF CacheInv, CacheKept, CachedIsClosed
  <2>3. CASE cache # NoClient /\ clients' = [clients EXCEPT ![cache] = Closed(clients[cache])]
    <3>1. cache \in ClientIds
      BY <2>3 DEF TypeOK
    <3>2. clients'[cache] = Closed(clients[cache])
      BY <2>3, <3>1 DEF TypeOK
    <3>3. clients'[cache].sdk = "closed" /\ clients'[cache].credential # "open"
      BY <3>2 DEF Closed
    <3> QED
      BY <2>1, <3>3 DEF CacheInv, CacheKept, CachedIsClosed
  <2>4. CASE closeFailed' = TRUE
    BY <2>1, <2>4 DEF CacheInv, CacheKept, CachedIsClosed
  <2> QED
    BY <1>3, <2>2, <2>3, <2>4 DEF Close
<1>4. ASSUME NEW t \in Threads, AnswerOffline(t) PROVE CacheInv'
  BY <1>4, <1>u DEF AnswerOffline
<1>5. ASSUME NEW t \in Threads, RefuseJudge(t) PROVE CacheInv'
  BY <1>5, <1>u DEF RefuseJudge
<1>6. ASSUME NEW t \in Threads, NEW kind \in Kinds, Hit(t, kind) PROVE CacheInv'
  BY <1>6, <1>u DEF Hit
<1>7. ASSUME NEW t \in Threads, NEW kind \in Kinds, Miss(t, kind) PROVE CacheInv'
  BY <1>7, <1>u DEF Miss
<1>8. ASSUME NEW t \in Threads, ConstructorRaises(t) PROVE CacheInv'
  BY <1>8, <1>u DEF ConstructorRaises
<1>9. ASSUME NEW t \in Threads, Construct(t) PROVE CacheInv'
  <2>1. process # "stopped" /\ process' = process
    BY <1>9 DEF Construct, ClientsInv, ThreadsEnd, Threads
  <2>2. /\ thread'[t].client \in ClientIds
        /\ IF cache = NoClient
           THEN cache' = thread'[t].client /\ cachedOnce' = cachedOnce \cup {cache'}
           ELSE UNCHANGED <<cache, cachedOnce>>
    BY <1>9, ConstructThread
  <2>3. cachedOnce' = {cache'} \ {NoClient}
    BY <2>1, <2>2, LlmAssumption DEF CacheInv, CacheKept
  <2> QED
    BY <2>1, <2>3 DEF CacheInv, CacheKept, CachedIsClosed
<1>10. ASSUME NEW t \in Threads, NEW o \in Outcomes, RetryAttempt(t, o) PROVE CacheInv'
  BY <1>10, <1>u DEF RetryAttempt
<1>11. ASSUME NEW t \in Threads, NEW o \in Outcomes, CallFails(t, o) PROVE CacheInv'
  BY <1>11, <1>u DEF CallFails
<1>12. ASSUME NEW t \in Threads, NEW o \in Outcomes, CallReturns(t, o) PROVE CacheInv'
  BY <1>12, <1>u DEF CallReturns
<1>13. CASE UNCHANGED vars
  BY <1>13, <1>u DEF vars
<1> QED
  BY <1>1, <1>2, <1>3, <1>4, <1>5, <1>6, <1>7, <1>8, <1>9, <1>10, <1>11, <1>12, <1>13 DEF Next, Call

(* The one client that is cached is closed at the end.                       *)
THEOREM CachedClientIsClosedAlways == Spec => []CachedClientIsClosed
<1>1. Init => CacheInv
  BY DEF Init, CacheInv, CacheKept, CachedIsClosed
<1>2. CacheInv => CachedClientIsClosed
  BY DEF CacheInv, CacheKept, CachedIsClosed, CachedClientIsClosed
<1> QED
  BY <1>1, <1>2, CacheStep, TypeCorrect, ClientsInvariant, PTL DEF Spec

-----------------------------------------------------------------------------
(* A call under way has no answer yet and repetitions left.                  *)
Underway(r) ==
    r.phase # "idle" =>
        /\ r.answer = "none" /\ r.attempts <= MaxRetries
        /\ r.phase = "constructing" => r.attempts = 0

AnswersInv == \A t \in Threads : Underway(thread[t]) /\ Explained(thread[t])

(* What the offline substitutes go by is no stricter than the constructor.   *)
LEMMA AcceptedIsConfigured == ValidConfiguration => IsLlmConfigured
BY DEF ValidConfiguration, IsLlmConfigured

LEMMA AnswersStep == TypeOK /\ AnswersInv /\ [Next]_vars => AnswersInv'
<1> SUFFICES ASSUME TypeOK, AnswersInv, [Next]_vars PROVE AnswersInv'
  OBVIOUS
<1>s. settings' = settings
  BY DEF Next, Call, Stop, RequestsDone, Close, AnswerOffline, RefuseJudge, Hit, Miss,
         ConstructorRaises, Construct, RetryAttempt, CallFails, CallReturns, vars
<1>e. Accepted' <=> Accepted
  BY <1>s DEF Accepted, ValidConfiguration, BuildsSdkClient, UsableEndpoint
<1>u. ASSUME NEW u \in Threads, thread'[u] = thread[u]
      PROVE  (Underway(thread[u]) /\ Explained(thread[u]))'
  BY <1>u, <1>s, <1>e DEF AnswersInv, Underway, Explained
<1>c. ASSUME NEW t \in Threads, \A u \in Threads \ {t} : thread'[u] = thread[u],
             (Underway(thread[t]) /\ Explained(thread[t]))'
      PROVE  AnswersInv'
  BY <1>c, <1>u DEF AnswersInv
<1>n. ASSUME NEW t \in Threads, \A u \in Threads \ {t} : thread'[u] = thread[u],
             thread'[t].phase # "idle", thread'[t].answer = "none",
             thread'[t].attempts <= MaxRetries,
             thread'[t].phase = "constructing" => thread'[t].attempts = 0
      PROVE  AnswersInv'
  BY <1>n, <1>c DEF Underway, Explained
<1>x. ASSUME thread' = thread PROVE AnswersInv'
  BY <1>x, <1>u DEF AnswersInv
<1>r. MaxRetries \in Nat /\ 0 <= MaxRetries
  BY LlmAssumption
<1>1. CASE Stop
  BY <1>1, <1>x DEF Stop
<1>2. CASE RequestsDone
  BY <1>2, <1>x DEF RequestsDone
<1>3. CASE Close
  BY <1>3, <1>x DEF Close
<1>4. ASSUME NEW t \in Threads, AnswerOffline(t) PROVE AnswersInv'
  <2>1. ~Accepted'
    BY <1>4, <1>e, AcceptedIsConfigured DEF AnswerOffline, Accepted
  <2> QED
    BY <1>4, <1>c, <2>1, AnswerOfflineThread DEF Underway, Explained
<1>5. ASSUME NEW t \in Threads, RefuseJudge(t) PROVE AnswersInv'
  <2>1. settings'.distinctJudge
    BY <1>5, <1>s DEF RefuseJudge
  <2> QED
    BY <1>5, <1>c, <2>1, RefuseJudgeThread DEF Underway, Explained
<1>6. ASSUME NEW t \in Threads, NEW kind \in Kinds, Hit(t, kind) PROVE AnswersInv'
  BY <1>6, <1>n, <1>r, HitThread
<1>7. ASSUME NEW t \in Threads, NEW kind \in Kinds, Miss(t, kind) PROVE AnswersInv'
  BY <1>7, <1>n, <1>r, MissThread
<1>8. ASSUME NEW t \in Threads, ConstructorRaises(t) PROVE AnswersInv'
  <2>1. ~Accepted'
    BY <1>8, <1>e DEF ConstructorRaises
  <2> QED
    BY <1>8, <1>c, <2>1, ConstructorRaisesThread DEF Underway, Explained
<1>9. ASSUME NEW t \in Threads, Construct(t) PROVE AnswersInv'
  <2>1. thread[t].answer = "none" /\ thread[t].attempts = 0
    BY <1>9 DEF Construct, AnswersInv, Underway
  <2> QED
    BY <1>9, <1>n, <1>r, <2>1, ConstructThread
<1>10. ASSUME NEW t \in Threads, NEW o \in Outcomes, RetryAttempt(t, o) PROVE AnswersInv'
  <2>1. thread[t].answer = "none" /\ thread[t].attempts < MaxRetries
    BY <1>10 DEF RetryAttempt, Retried, AnswersInv, Underway
  <2>2. thread[t].attempts \in Nat
    BY DEF TypeOK
  <2> QED
    BY <1>10, <1>n, <1>r, <2>1, <2>2, RetryThread
<1>11. ASSUME NEW t \in Threads, NEW o \in Outcomes, CallFails(t, o) PROVE AnswersInv'
  <2>1. thread[t].attempts \in Nat /\ thread[t].attempts <= MaxRetries
    BY <1>11 DEF CallFails, TypeOK, AnswersInv, Underway
  <2>2. o \in Failing /\ (o \in Transient => thread[t].attempts >= MaxRetries)
    BY <1>11, <1>r, <2>1 DEF CallFails, Retried
  <2>3. o \in Transient => o \notin Unsent
    BY DEF Transient, Unsent
  <2>4. o \in Transient => thread'[t].attempts = MaxRetries + 1
    BY <1>11, <1>r, <2>1, <2>2, <2>3, CallFailsThread
  <2> QED
    BY <1>11, <1>c, <2>2, <2>4, CallFailsThread DEF Underway, Explained
<1>12. ASSUME NEW t \in Threads, NEW o \in Outcomes, CallReturns(t, o) PROVE AnswersInv'
  <2>1. thread[t].attempts \in Nat /\ thread[t].attempts <= MaxRetries
    BY <1>12 DEF CallReturns, TypeOK, AnswersInv, Underway
  <2>2. thread'[t].attempts <= MaxRetries + 1
    BY <1>12, <1>r, <2>1, CallReturnsThread
  <2>3. o \in Fitting \/ o \in Misfitting
    BY <1>12 DEF CallReturns
  <2>4. CASE o \in Fitting
    BY <1>12, <1>c, <2>2, <2>4, CallReturnsThread DEF Underway, Explained, ParsedAnswer
  <2>5. CASE o \notin Fitting
    BY <1>12, <1>c, <2>3, <2>5, CallReturnsThread DEF Underway, Explained, ParsedAnswer
  <2> QED
    BY <2>4, <2>5
<1>13. CASE UNCHANGED vars
  BY <1>13, <1>x DEF vars
<1> QED
  BY <1>1, <1>2, <1>3, <1>4, <1>5, <1>6, <1>7, <1>8, <1>9, <1>10, <1>11, <1>12, <1>13 DEF Next, Call

(* What callers are told is what happened.                                   *)
THEOREM AnswersMatchTheProviderAlways == Spec => []AnswersMatchTheProvider
<1>1. Init => AnswersInv
  BY DEF Init, AnswersInv, Underway, Explained, IdleThread
<1>2. AnswersInv => AnswersMatchTheProvider
  BY DEF AnswersInv, AnswersMatchTheProvider
<1> QED
  BY <1>1, <1>2, AnswersStep, TypeCorrect, PTL DEF Spec
=============================================================================
