------------------------ MODULE OptimiserPageProofs ------------------------
(***************************************************************************)
(* What the page watches and shows, for any number of agents, of jobs and   *)
(* of loads under way.  UnfinishedIsPolled is inductive once the types are  *)
(* known.  ShownBelongsToAgent is not: what is shown next is what is polled *)
(* or created now, so that the job of these requests must belong to the     *)
(* agent too, also while a load hides the page.                             *)
(***************************************************************************)
EXTENDS OptimiserPage, SequenceTheorems, TLAPS

(* The job of an answered submission is one of the agent it was sent for.   *)
CreatedBelongs ==
    create.phase = "handled" => server[create.job].agent = create.agent

JobsBelong ==
    /\ current.job # NoJob => server[current.job].agent = agent
    /\ poll.job # NoJob => server[poll.job].agent = agent

ContentBelongs ==
    /\ shown.selected \in {agent, NoAgent}
    /\ Content => shown.prompts = {agent} /\ shown.results \subseteq {agent}

IInv ==
    /\ TypeOK
    /\ UnfinishedIsPolled
    /\ CreatedBelongs
    /\ ~foreign => JobsBelong /\ ContentBelongs

-----------------------------------------------------------------------------
LoadRecord == [agent : Agents, phase : {"sent", "handled"}, list : [Jobs -> Statuses]]

(* The loads that stay are the loads there were.                             *)
LEMMA RemoveAtType ==
    ASSUME NEW S, NEW s \in Seq(S), NEW i \in DOMAIN s
    PROVE  RemoveAt(s, i) \in Seq(S)
<1>1. i \in 1 .. Len(s) /\ Len(s) \in Nat
  OBVIOUS
<1>2. SubSeq(s, 1, i - 1) \in Seq(S)
  <2>1. \A k \in 1 .. i - 1 : s[k] \in S
    BY <1>1
  <2>2. 1 \in Int /\ i - 1 \in Int
    BY <1>1
  <2> QED
    BY <2>1, <2>2, SubSeqProperties
<1>3. SubSeq(s, i + 1, Len(s)) \in Seq(S)
  <2>1. \A k \in i + 1 .. Len(s) : s[k] \in S
    BY <1>1
  <2>2. i + 1 \in Int /\ Len(s) \in Int
    BY <1>1
  <2> QED
    BY <2>1, <2>2, SubSeqProperties
<1> QED
  BY <1>2, <1>3, ConcatProperties DEF RemoveAt

(* Every pending load is well formed, and so is what is sent next.           *)
LEMMA LoadsType ==
    ASSUME loads \in Seq(LoadRecord)
    PROVE  /\ \A l \in DOMAIN loads :
                 /\ loads[l] \in LoadRecord
                 /\ RemoveAt(loads, l) \in Seq(LoadRecord)
           /\ \A a \in Agents : Append(loads, NewLoad(a)) \in Seq(LoadRecord)
<1>1. \A l \in DOMAIN loads : loads[l] \in LoadRecord
  OBVIOUS
<1>2. \A l \in DOMAIN loads : RemoveAt(loads, l) \in Seq(LoadRecord)
  BY RemoveAtType
<1>3. ASSUME NEW a \in Agents PROVE Append(loads, NewLoad(a)) \in Seq(LoadRecord)
  <2>1. NewLoad(a) \in LoadRecord
    BY DEF NewLoad, LoadRecord, Statuses
  <2> QED
    BY <2>1, AppendProperties
<1> QED
  BY <1>1, <1>2, <1>3

(* The answer of a load tracks one unfinished job of its agent, if any.      *)
LEMMA LoadIsTracked ==
    ASSUME NEW l, ReceiveLoad(l)
    PROVE  \/ UNCHANGED <<current, poll, broken>>
           \/ \E j \in Jobs : /\ server[j].agent = loads[l].agent
                             /\ current' = [job |-> j, status |-> "active"]
                             /\ PollJob(j)
BY DEF ReceiveLoad, TrackOneOf

LEMMA TypeInit == Init => TypeOK
<1> SUFFICES ASSUME Init PROVE TypeOK
  OBVIOUS
<1>1. server \in [Jobs -> [agent : Agents \cup {NoAgent}, status : Statuses]]
  BY DEF Init, NoRow, Statuses
<1>2. loads \in Seq(LoadRecord)
  <2>1. NewLoad(agent) \in LoadRecord
    BY DEF Init, NewLoad, LoadRecord, Statuses
  <2> QED
    BY <2>1 DEF Init
<1>3. shown \in [prompts : SUBSET (Agents \cup {NoAgent}),
                results : SUBSET (Agents \cup {NoAgent}), selected : Agents \cup {NoAgent}]
  BY DEF Init, NothingShown
<1>4. jobs \in [Jobs -> Statuses]
  BY DEF Init, Statuses
<1>5. loading \in BOOLEAN /\ foreign \in BOOLEAN /\ broken \in BOOLEAN
  BY Zenon DEF Init
<1>6. /\ agent \in Agents
      /\ current = NothingCurrent /\ poll = NotPolling
      /\ create = NotCreating /\ fetches = {}
  BY DEF Init
<1> QED
  BY <1>1, <1>2, <1>3, <1>4, <1>5, <1>6 DEF TypeOK, LoadRecord

LEMMA TypeStep == TypeOK /\ [Next]_vars => TypeOK'
<1> SUFFICES ASSUME TypeOK, [Next]_vars PROVE TypeOK'
  OBVIOUS
<1> USE DEF TypeOK, pageVars, requestVars
<1>0. /\ loads \in Seq(LoadRecord)
      /\ \A l \in DOMAIN loads :
            loads[l] \in LoadRecord /\ RemoveAt(loads, l) \in Seq(LoadRecord)
      /\ \A a \in Agents : Append(loads, NewLoad(a)) \in Seq(LoadRecord)
  BY LoadsType DEF LoadRecord
<1>1. ASSUME NEW a \in Agents, ChangeAgent(a) PROVE TypeOK'
  BY <1>0, <1>1 DEF ChangeAgent, LoadFor, LoadRecord
<1>2. ASSUME NEW a \in Agents, SelectResult(a) PROVE TypeOK'
  BY <1>2 DEF SelectResult
<1>3. CASE Refresh
  BY <1>0, <1>3 DEF Refresh, LoadFor, LoadRecord
<1>4. CASE StartOptimisation
  BY <1>4 DEF StartOptimisation
<1>5. CASE ActivatePrompt
  BY <1>5 DEF ActivatePrompt
<1>6. ASSUME NEW j \in Jobs, TrackJob(j) PROVE TypeOK'
  <2>1. current' \in [job : Jobs, status : Statuses] \cup {NothingCurrent}
    BY <1>6 DEF TrackJob
  <2>2. poll' \in [job : Jobs, answer : Statuses \cup {"none", "sent"}] \cup {NotPolling}
    BY <1>6 DEF TrackJob, PollJob
  <2>3. broken' \in BOOLEAN
    BY <1>6 DEF TrackJob, PollJob
  <2>4. fetches' \subseteq [kind : {"result", "prompts"}, agent : Agents \cup {NoAgent}]
    BY <1>6 DEF TrackJob, LoadResult
  <2> QED
    BY <1>6, <2>1, <2>2, <2>3, <2>4 DEF TrackJob
<1>7. ASSUME NEW j \in Jobs, Finish(j) PROVE TypeOK'
  BY <1>7 DEF Finish, Final, Statuses
<1>8. ASSUME NEW l \in DOMAIN loads, HandleLoad(l) PROVE TypeOK'
  <2>1. [j \in Jobs |-> server[j].status] \in [Jobs -> Statuses]
    OBVIOUS
  <2>2. loads' \in Seq(LoadRecord)
    <3> DEFINE r == [loads[l] EXCEPT !.phase = "handled",
                                     !.list = [j \in Jobs |-> server[j].status]]
    <3>1. loads[l] \in LoadRecord
      BY <1>0
    <3>2. r \in LoadRecord
      BY <2>1, <3>1 DEF LoadRecord
    <3>3. loads' = [loads EXCEPT ![l] = r]
      BY <1>8, <3>1 DEF HandleLoad, LoadRecord
    <3> HIDE DEF r
    <3> QED
      BY <1>0, <3>2, <3>3
  <2> QED
    BY <1>8, <2>2 DEF HandleLoad, LoadRecord
<1>9. ASSUME NEW l \in DOMAIN loads, ReceiveLoad(l) PROVE TypeOK'
  <2>1. jobs' \in [Jobs -> Statuses] /\ loads' \in Seq(LoadRecord)
    BY <1>0, <1>9 DEF ReceiveLoad, LoadRecord
  <2>2. /\ current' \in [job : Jobs, status : Statuses] \cup {NothingCurrent}
        /\ poll' \in [job : Jobs, answer : Statuses \cup {"none", "sent"}] \cup {NotPolling}
        /\ broken' \in BOOLEAN
    <3>1. \/ UNCHANGED <<current, poll, broken>>
          \/ \E j \in Jobs : current' = [job |-> j, status |-> "active"] /\ PollJob(j)
      BY <1>9, LoadIsTracked
    <3>2. current' \in [job : Jobs, status : Statuses] \cup {NothingCurrent}
      BY <3>1 DEF PollJob, Statuses
    <3>3. poll' \in [job : Jobs, answer : Statuses \cup {"none", "sent"}] \cup {NotPolling}
      BY <3>1 DEF PollJob, Statuses
    <3>4. broken' = broken \/ broken' = FALSE
      BY <3>1, Zenon DEF PollJob
    <3>5. broken' \in BOOLEAN
      BY <3>4, Zenon
    <3> QED
      BY <3>2, <3>3, <3>5
  <2>3. /\ shown' \in [prompts : SUBSET (Agents \cup {NoAgent}),
                       results : SUBSET (Agents \cup {NoAgent}),
                       selected : Agents \cup {NoAgent}]
        /\ foreign' \in BOOLEAN
    BY <1>0, <1>9 DEF ReceiveLoad, LoadRecord
  <2> QED
    BY <1>9, <2>1, <2>2, <2>3 DEF ReceiveLoad, LoadRecord
<1>10. ASSUME NEW l \in DOMAIN loads, LoadFails(l) PROVE TypeOK'
  BY <1>0, <1>10 DEF LoadFails, LoadRecord
<1>11. CASE HandleCreate
  <2>1. create \in [agent : Agents, phase : {"sent"}, job : {NoJob}]
    BY <1>11 DEF HandleCreate, NotCreating
  <2>2. PICK j \in Jobs :
          /\ server' = [server EXCEPT ![j] = [agent |-> create.agent, status |-> "active"]]
          /\ create' = [create EXCEPT !.phase = "handled", !.job = j]
    BY <1>11 DEF HandleCreate
  <2>3. create' \in [agent : Agents, phase : {"handled"}, job : Jobs]
    BY <2>1, <2>2
  <2>4. server' \in [Jobs -> [agent : Agents \cup {NoAgent}, status : Statuses]]
    BY <2>1, <2>2 DEF Statuses
  <2> QED
    BY <1>11, <2>3, <2>4 DEF HandleCreate
<1>12. CASE ReceiveCreate
  <2>1. create.job \in Jobs /\ create.agent \in Agents
    BY <1>12 DEF ReceiveCreate, NotCreating
  <2>2. /\ current' \in [job : Jobs, status : Statuses]
        /\ jobs' \in [Jobs -> Statuses]
        /\ poll' \in [job : Jobs, answer : Statuses \cup {"none", "sent"}]
        /\ broken' \in BOOLEAN /\ foreign' \in BOOLEAN
    BY <1>12, <2>1 DEF ReceiveCreate, PollJob, Statuses
  <2> QED
    BY <1>12, <2>2 DEF ReceiveCreate
<1>13. CASE CreateFails
  BY <1>13 DEF CreateFails
<1>14. CASE Tick
  BY <1>14 DEF Tick
<1>15. CASE HandlePoll
  BY <1>15 DEF HandlePoll, NotPolling
<1>16. CASE ReceivePoll
  BY <1>16 DEF ReceivePoll, LoadResult, NotPolling, Final, Statuses
<1>17. CASE PollFails
  BY <1>17 DEF PollFails, LoadResult, NothingCurrent
<1>18. ASSUME NEW f \in fetches, ReceiveResult(f) PROVE TypeOK'
  <2>1. f.agent \in Agents \cup {NoAgent}
    BY <1>18
  <2>2. shown' \in [prompts : SUBSET (Agents \cup {NoAgent}),
                    results : SUBSET (Agents \cup {NoAgent}), selected : Agents \cup {NoAgent}]
    BY <1>18, <2>1 DEF ReceiveResult
  <2>3. /\ fetches' \subseteq [kind : {"result", "prompts"}, agent : Agents \cup {NoAgent}]
        /\ foreign' \in BOOLEAN
    BY <1>18 DEF ReceiveResult
  <2> QED
    BY <1>18, <2>2, <2>3 DEF ReceiveResult
<1>19. ASSUME NEW f \in fetches, ReceivePrompts(f) PROVE TypeOK'
  BY <1>19 DEF ReceivePrompts
<1>20. ASSUME NEW f \in fetches, FetchFails(f) PROVE TypeOK'
  BY <1>20 DEF FetchFails
<1>21. CASE UNCHANGED vars
  BY <1>21 DEF vars
<1> QED
  BY <1>1, <1>2, <1>3, <1>4, <1>5, <1>6, <1>7, <1>8, <1>9, <1>10, <1>11, <1>12, <1>13, <1>14,
     <1>15, <1>16, <1>17, <1>18, <1>19, <1>20, <1>21 DEF Next

(* Types, for every number of agents, jobs and loads.                        *)
THEOREM TypeCorrect == Spec => []TypeOK
BY TypeInit, TypeStep, PTL DEF Spec

-----------------------------------------------------------------------------
(* What a step does to the job that is shown: nothing, or it is polled from  *)
(* now on, or it is not unfinished; or a failed request ends the polling.    *)
LEMMA ShownNext ==
    ASSUME TypeOK, [Next]_vars
    PROVE  \/ current' = current /\ poll'.job = poll.job /\ broken' = broken
           \/ current'.job = poll'.job
           \/ current'.status # "active"
           \/ broken'
<1> DEFINE Goal ==
      \/ current' = current /\ poll'.job = poll.job /\ broken' = broken
      \/ current'.job = poll'.job
      \/ current'.status # "active"
      \/ broken'
<1> USE DEF TypeOK
<1>1. ASSUME NEW a \in Agents, ChangeAgent(a) PROVE Goal
  BY <1>1 DEF ChangeAgent, NothingCurrent, pageVars, requestVars
<1>2. ASSUME NEW a \in Agents, SelectResult(a) PROVE Goal
  BY <1>2 DEF SelectResult, pageVars, requestVars
<1>3. CASE Refresh
  BY <1>3 DEF Refresh, pageVars, requestVars
<1>4. CASE StartOptimisation
  BY <1>4 DEF StartOptimisation, pageVars, requestVars
<1>5. CASE ActivatePrompt
  BY <1>5 DEF ActivatePrompt, pageVars, requestVars
<1>6. ASSUME NEW j \in Jobs, TrackJob(j) PROVE Goal
  <2>1. CASE jobs[j] = "active"
    BY <1>6, <2>1 DEF TrackJob, PollJob
  <2>2. CASE jobs[j] # "active"
    BY <1>6, <2>2 DEF TrackJob
  <2> QED
    BY <2>1, <2>2
<1>7. ASSUME NEW j \in Jobs, Finish(j) PROVE Goal
  BY <1>7 DEF Finish, pageVars, requestVars
<1>8. ASSUME NEW l \in DOMAIN loads, HandleLoad(l) PROVE Goal
  BY <1>8 DEF HandleLoad, pageVars, requestVars
<1>9. ASSUME NEW l \in DOMAIN loads, ReceiveLoad(l) PROVE Goal
  <2>1. CASE UNCHANGED <<current, poll, broken>>
    BY <2>1
  <2>2. CASE \E j \in Jobs : current' = [job |-> j, status |-> "active"] /\ PollJob(j)
    BY <2>2 DEF PollJob
  <2> QED
    BY <1>9, <2>1, <2>2, LoadIsTracked
<1>10. ASSUME NEW l \in DOMAIN loads, LoadFails(l) PROVE Goal
  BY <1>10 DEF LoadFails, pageVars, requestVars
<1>11. CASE HandleCreate
  BY <1>11 DEF HandleCreate, pageVars, requestVars
<1>12. CASE ReceiveCreate
  BY <1>12 DEF ReceiveCreate, PollJob
<1>13. CASE CreateFails
  BY <1>13 DEF CreateFails, pageVars, requestVars
<1>14. CASE Tick
  BY <1>14 DEF Tick, pageVars, requestVars, NotPolling
<1>15. CASE HandlePoll
  BY <1>15 DEF HandlePoll, pageVars, requestVars, NotPolling
<1>16. CASE ReceivePoll
  BY <1>16 DEF ReceivePoll, Final, NotPolling
<1>17. CASE PollFails
  BY <1>17 DEF PollFails, pageVars, requestVars
<1>18. ASSUME NEW f \in fetches, ReceiveResult(f) PROVE Goal
  BY <1>18 DEF ReceiveResult, pageVars, requestVars
<1>19. ASSUME NEW f \in fetches, ReceivePrompts(f) PROVE Goal
  BY <1>19 DEF ReceivePrompts, pageVars, requestVars
<1>20. ASSUME NEW f \in fetches, FetchFails(f) PROVE Goal
  BY <1>20 DEF FetchFails, pageVars, requestVars
<1>21. CASE UNCHANGED vars
  BY <1>21 DEF vars, pageVars, requestVars
<1> QED
  BY <1>1, <1>2, <1>3, <1>4, <1>5, <1>6, <1>7, <1>8, <1>9, <1>10, <1>11, <1>12, <1>13, <1>14,
     <1>15, <1>16, <1>17, <1>18, <1>19, <1>20, <1>21 DEF Next

(* An unfinished job on the page is polled unless its last polling failed.   *)
THEOREM UnfinishedIsPolledAlways == Spec => []UnfinishedIsPolled
<1>1. Init => UnfinishedIsPolled
  BY DEF Init, NothingCurrent, UnfinishedIsPolled, Watched
<1>2. TypeOK /\ UnfinishedIsPolled /\ [Next]_vars => UnfinishedIsPolled'
  <2> SUFFICES ASSUME TypeOK, UnfinishedIsPolled, [Next]_vars,
                      NEW j \in Jobs, Watched(j)'
               PROVE  poll'.job = j \/ broken'
    BY DEF UnfinishedIsPolled
  <2>1. current'.job = j /\ current'.status = "active"
    BY DEF Watched
  <2>2. CASE current' = current /\ poll'.job = poll.job /\ broken' = broken
    BY <2>2 DEF UnfinishedIsPolled, Watched
  <2> QED
    BY <2>1, <2>2, ShownNext
<1> QED
  BY <1>1, <1>2, TypeCorrect, PTL DEF Spec

-----------------------------------------------------------------------------
(* A job keeps the agent it was created for.                                 *)
LEMMA AgentsKept ==
    ASSUME TypeOK, [Next]_vars
    PROVE  \A j \in Jobs : server[j].agent # NoAgent => server'[j].agent = server[j].agent
<1> DEFINE Goal ==
      \A j \in Jobs : server[j].agent # NoAgent => server'[j].agent = server[j].agent
<1> USE DEF TypeOK
<1>1. ASSUME NEW a \in Agents, ChangeAgent(a) PROVE Goal
  BY <1>1 DEF ChangeAgent, pageVars, requestVars
<1>2. ASSUME NEW a \in Agents, SelectResult(a) PROVE Goal
  BY <1>2 DEF SelectResult, pageVars, requestVars
<1>3. CASE Refresh
  BY <1>3 DEF Refresh, pageVars, requestVars
<1>4. CASE StartOptimisation
  BY <1>4 DEF StartOptimisation, pageVars, requestVars
<1>5. CASE ActivatePrompt
  BY <1>5 DEF ActivatePrompt, pageVars, requestVars
<1>6. ASSUME NEW j \in Jobs, TrackJob(j) PROVE Goal
  BY <1>6 DEF TrackJob, pageVars, requestVars
<1>7. ASSUME NEW j \in Jobs, Finish(j) PROVE Goal
  BY <1>7 DEF Finish, pageVars, requestVars
<1>8. ASSUME NEW l \in DOMAIN loads, HandleLoad(l) PROVE Goal
  BY <1>8 DEF HandleLoad, pageVars, requestVars
<1>9. ASSUME NEW l \in DOMAIN loads, ReceiveLoad(l) PROVE Goal
  BY <1>9 DEF ReceiveLoad, pageVars, requestVars
<1>10. ASSUME NEW l \in DOMAIN loads, LoadFails(l) PROVE Goal
  BY <1>10 DEF LoadFails, pageVars, requestVars
<1>11. CASE HandleCreate
  BY <1>11 DEF HandleCreate, NoRow
<1>12. CASE ReceiveCreate
  BY <1>12 DEF ReceiveCreate, pageVars, requestVars
<1>13. CASE CreateFails
  BY <1>13 DEF CreateFails, pageVars, requestVars
<1>14. CASE Tick
  BY <1>14 DEF Tick, pageVars, requestVars
<1>15. CASE HandlePoll
  BY <1>15 DEF HandlePoll, pageVars, requestVars
<1>16. CASE ReceivePoll
  BY <1>16 DEF ReceivePoll, pageVars, requestVars
<1>17. CASE PollFails
  BY <1>17 DEF PollFails, pageVars, requestVars
<1>18. ASSUME NEW f \in fetches, ReceiveResult(f) PROVE Goal
  BY <1>18 DEF ReceiveResult, pageVars, requestVars
<1>19. ASSUME NEW f \in fetches, ReceivePrompts(f) PROVE Goal
  BY <1>19 DEF ReceivePrompts, pageVars, requestVars
<1>20. ASSUME NEW f \in fetches, FetchFails(f) PROVE Goal
  BY <1>20 DEF FetchFails, pageVars, requestVars
<1>21. CASE UNCHANGED vars
  BY <1>21 DEF vars, pageVars, requestVars
<1> QED
  BY <1>1, <1>2, <1>3, <1>4, <1>5, <1>6, <1>7, <1>8, <1>9, <1>10, <1>11, <1>12, <1>13, <1>14,
     <1>15, <1>16, <1>17, <1>18, <1>19, <1>20, <1>21 DEF Next

(* The job of an answered submission is one of its agent.                    *)
LEMMA CreatedStep == TypeOK /\ CreatedBelongs /\ [Next]_vars => CreatedBelongs'
<1> SUFFICES ASSUME TypeOK, CreatedBelongs, [Next]_vars PROVE CreatedBelongs'
  OBVIOUS
<1>a. ASSUME create' = create PROVE CreatedBelongs'
  <2> SUFFICES ASSUME create.phase = "handled" PROVE server'[create.job].agent = create.agent
    BY <1>a DEF CreatedBelongs
  <2>1. create.job \in Jobs /\ create.agent \in Agents
    BY DEF TypeOK, NotCreating
  <2> QED
    BY <2>1, AgentsKept, PageAssumption DEF CreatedBelongs
<1>1. ASSUME NEW a \in Agents, ChangeAgent(a) PROVE CreatedBelongs'
  BY <1>1, <1>a DEF ChangeAgent, pageVars, requestVars
<1>2. ASSUME NEW a \in Agents, SelectResult(a) PROVE CreatedBelongs'
  BY <1>2, <1>a DEF SelectResult, pageVars, requestVars
<1>3. CASE Refresh
  BY <1>3, <1>a DEF Refresh, pageVars, requestVars
<1>4. CASE StartOptimisation
  BY <1>4 DEF StartOptimisation, CreatedBelongs
<1>5. CASE ActivatePrompt
  BY <1>5, <1>a DEF ActivatePrompt, pageVars, requestVars
<1>6. ASSUME NEW j \in Jobs, TrackJob(j) PROVE CreatedBelongs'
  BY <1>6, <1>a DEF TrackJob, pageVars, requestVars
<1>7. ASSUME NEW j \in Jobs, Finish(j) PROVE CreatedBelongs'
  BY <1>7, <1>a DEF Finish, pageVars, requestVars
<1>8. ASSUME NEW l \in DOMAIN loads, HandleLoad(l) PROVE CreatedBelongs'
  BY <1>8, <1>a DEF HandleLoad, pageVars, requestVars
<1>9. ASSUME NEW l \in DOMAIN loads, ReceiveLoad(l) PROVE CreatedBelongs'
  BY <1>9, <1>a DEF ReceiveLoad, pageVars, requestVars
<1>10. ASSUME NEW l \in DOMAIN loads, LoadFails(l) PROVE CreatedBelongs'
  BY <1>10, <1>a DEF LoadFails, pageVars, requestVars
<1>11. CASE HandleCreate
  <2>1. create \in [agent : Agents, phase : {"sent"}, job : {NoJob}]
    BY <1>11 DEF HandleCreate, NotCreating, TypeOK
  <2>2. PICK j \in Jobs :
          /\ server' = [server EXCEPT ![j] = [agent |-> create.agent, status |-> "active"]]
          /\ create' = [create EXCEPT !.phase = "handled", !.job = j]
    BY <1>11 DEF HandleCreate
  <2> QED
    BY <2>1, <2>2 DEF CreatedBelongs, TypeOK
<1>12. CASE ReceiveCreate
  BY <1>12 DEF ReceiveCreate, CreatedBelongs, NotCreating
<1>13. CASE CreateFails
  BY <1>13 DEF CreateFails, CreatedBelongs, NotCreating
<1>14. CASE Tick
  BY <1>14, <1>a DEF Tick, pageVars, requestVars
<1>15. CASE HandlePoll
  BY <1>15, <1>a DEF HandlePoll, pageVars, requestVars
<1>16. CASE ReceivePoll
  BY <1>16, <1>a DEF ReceivePoll, pageVars, requestVars
<1>17. CASE PollFails
  BY <1>17, <1>a DEF PollFails, pageVars, requestVars
<1>18. ASSUME NEW f \in fetches, ReceiveResult(f) PROVE CreatedBelongs'
  BY <1>18, <1>a DEF ReceiveResult, pageVars, requestVars
<1>19. ASSUME NEW f \in fetches, ReceivePrompts(f) PROVE CreatedBelongs'
  BY <1>19, <1>a DEF ReceivePrompts, pageVars, requestVars
<1>20. ASSUME NEW f \in fetches, FetchFails(f) PROVE CreatedBelongs'
  BY <1>20, <1>a DEF FetchFails, pageVars, requestVars
<1>21. CASE UNCHANGED vars
  BY <1>21, <1>a DEF vars, pageVars, requestVars
<1> QED
  BY <1>1, <1>2, <1>3, <1>4, <1>5, <1>6, <1>7, <1>8, <1>9, <1>10, <1>11, <1>12, <1>13, <1>14,
     <1>15, <1>16, <1>17, <1>18, <1>19, <1>20, <1>21 DEF Next

-----------------------------------------------------------------------------
(* The job that is polled, or shown, next is one of the agent.               *)
LEMMA JobsStep ==
    ASSUME TypeOK, CreatedBelongs, ~foreign => JobsBelong, [Next]_vars, ~foreign'
    PROVE  JobsBelong'
<1>t. /\ current.job # NoJob => current.job \in Jobs
      /\ poll.job # NoJob => poll.job \in Jobs
      /\ agent \in Agents
  BY DEF TypeOK, NothingCurrent, NotPolling
<1>b. ASSUME ~foreign, agent' = agent,
             current'.job \in {current.job, poll.job, NoJob}, poll'.job \in {poll.job, NoJob}
      PROVE  JobsBelong'
  BY <1>b, <1>t, AgentsKept, PageAssumption DEF JobsBelong
<1>a. ASSUME ~foreign, agent' = agent, current' = current, poll' = poll PROVE JobsBelong'
  BY <1>a, <1>b
<1>c. ASSUME NEW j \in Jobs, server[j].agent = agent', agent' \in Agents,
             current'.job = j, poll'.job \in {j, poll.job}, ~foreign, agent' = agent
      PROVE  JobsBelong'
  BY <1>c, <1>t, AgentsKept, PageAssumption DEF JobsBelong
<1>1. ASSUME NEW a \in Agents, ChangeAgent(a) PROVE JobsBelong'
  BY <1>1 DEF ChangeAgent, JobsBelong, NothingCurrent, NotPolling
<1>2. ASSUME NEW a \in Agents, SelectResult(a) PROVE JobsBelong'
  BY <1>2, <1>a DEF SelectResult, pageVars, requestVars
<1>3. CASE Refresh
  BY <1>3, <1>a DEF Refresh, pageVars, requestVars
<1>4. CASE StartOptimisation
  BY <1>4, <1>a DEF StartOptimisation, pageVars, requestVars
<1>5. CASE ActivatePrompt
  BY <1>5, <1>a DEF ActivatePrompt, pageVars, requestVars
<1>6. ASSUME NEW j \in Jobs, TrackJob(j) PROVE JobsBelong'
  <2>1. server[j].agent = agent /\ agent' = agent /\ ~foreign
    BY <1>6 DEF TrackJob, AgentJobs
  <2>2. current'.job = j /\ poll'.job \in {j, poll.job}
    BY <1>6 DEF TrackJob, PollJob
  <2> QED
    BY <1>c, <1>t, <2>1, <2>2
<1>7. ASSUME NEW j \in Jobs, Finish(j) PROVE JobsBelong'
  BY <1>7, <1>a DEF Finish, pageVars, requestVars
<1>8. ASSUME NEW l \in DOMAIN loads, HandleLoad(l) PROVE JobsBelong'
  BY <1>8, <1>a DEF HandleLoad, pageVars, requestVars
<1>9. ASSUME NEW l \in DOMAIN loads, ReceiveLoad(l) PROVE JobsBelong'
  <2>1. loads[l].agent = agent /\ agent' = agent /\ ~foreign
    BY <1>9 DEF ReceiveLoad
  <2>2. CASE UNCHANGED <<current, poll, broken>>
    BY <1>a, <2>1, <2>2
  <2>3. CASE \E j \in Jobs : /\ server[j].agent = loads[l].agent
                           /\ current' = [job |-> j, status |-> "active"]
                           /\ PollJob(j)
    BY <1>c, <1>t, <2>1, <2>3 DEF PollJob
  <2> QED
    BY <1>9, <2>2, <2>3, LoadIsTracked
<1>10. ASSUME NEW l \in DOMAIN loads, LoadFails(l) PROVE JobsBelong'
  BY <1>10 DEF LoadFails
<1>11. CASE HandleCreate
  BY <1>11, <1>a DEF HandleCreate, pageVars, requestVars
<1>12. CASE ReceiveCreate
  <2>1. create.agent = agent /\ agent' = agent /\ ~foreign
    BY <1>12 DEF ReceiveCreate
  <2>2. create.job \in Jobs /\ server[create.job].agent = create.agent
    BY <1>12 DEF ReceiveCreate, CreatedBelongs, TypeOK, NotCreating
  <2>3. current'.job = create.job /\ poll'.job = create.job
    BY <1>12 DEF ReceiveCreate, PollJob
  <2> QED
    BY <1>c, <1>t, <2>1, <2>2, <2>3
<1>13. CASE CreateFails
  BY <1>13, <1>a DEF CreateFails, pageVars, requestVars
<1>14. CASE Tick
  <2>1. poll'.job = poll.job
    BY <1>14 DEF Tick, TypeOK, NotPolling
  <2> QED
    BY <1>14, <1>b, <2>1 DEF Tick, pageVars
<1>15. CASE HandlePoll
  <2>1. poll'.job = poll.job
    BY <1>15 DEF HandlePoll, TypeOK, NotPolling
  <2> QED
    BY <1>15, <1>b, <2>1 DEF HandlePoll, pageVars
<1>16. CASE ReceivePoll
  <2>1. current'.job = poll.job /\ poll'.job \in {poll.job, NoJob}
    BY <1>16 DEF ReceivePoll, TypeOK, NotPolling
  <2> QED
    BY <1>16, <1>b, <2>1 DEF ReceivePoll
<1>17. CASE PollFails
  BY <1>17, <1>b DEF PollFails, NotPolling, pageVars
<1>18. ASSUME NEW f \in fetches, ReceiveResult(f) PROVE JobsBelong'
  BY <1>18, <1>a DEF ReceiveResult
<1>19. ASSUME NEW f \in fetches, ReceivePrompts(f) PROVE JobsBelong'
  BY <1>19, <1>a DEF ReceivePrompts
<1>20. ASSUME NEW f \in fetches, FetchFails(f) PROVE JobsBelong'
  BY <1>20, <1>a DEF FetchFails, pageVars, requestVars
<1>21. CASE UNCHANGED vars
  BY <1>21, <1>a DEF vars, pageVars, requestVars
<1> QED
  BY <1>1, <1>2, <1>3, <1>4, <1>5, <1>6, <1>7, <1>8, <1>9, <1>10, <1>11, <1>12, <1>13, <1>14,
     <1>15, <1>16, <1>17, <1>18, <1>19, <1>20, <1>21 DEF Next

(* So is what the page shows once no load hides it.                          *)
LEMMA ContentStep ==
    ASSUME TypeOK, ~foreign => ContentBelongs, [Next]_vars, ~foreign'
    PROVE  ContentBelongs'
<1>a. ASSUME ~foreign, agent' = agent, shown' = shown, Content' => Content
      PROVE  ContentBelongs'
  BY <1>a DEF ContentBelongs
<1>b. /\ shown.selected \in Agents \cup {NoAgent}
      /\ agent \in Agents
  BY DEF TypeOK
<1>1. ASSUME NEW a \in Agents, ChangeAgent(a) PROVE ContentBelongs'
  BY <1>1 DEF ChangeAgent, ContentBelongs, Content, TypeOK
<1>2. ASSUME NEW a \in Agents, SelectResult(a) PROVE ContentBelongs'
  <2>1. ContentBelongs /\ Content /\ a = agent
    BY <1>2 DEF SelectResult, ContentBelongs
  <2>2. /\ shown'.selected = agent /\ agent' = agent /\ shown.prompts = shown'.prompts
        /\ shown'.results = shown.results
    BY <1>2, <2>1 DEF SelectResult, TypeOK
  <2> QED
    BY <2>1, <2>2 DEF ContentBelongs
<1>3. CASE Refresh
  BY <1>3 DEF Refresh, ContentBelongs, Content
<1>4. CASE StartOptimisation
  BY <1>4, <1>a DEF StartOptimisation, pageVars, requestVars, Content
<1>5. CASE ActivatePrompt
  BY <1>5, <1>a DEF ActivatePrompt, pageVars, requestVars, Content
<1>6. ASSUME NEW j \in Jobs, TrackJob(j) PROVE ContentBelongs'
  BY <1>6, <1>a DEF TrackJob, pageVars, requestVars, Content
<1>7. ASSUME NEW j \in Jobs, Finish(j) PROVE ContentBelongs'
  BY <1>7, <1>a DEF Finish, pageVars, requestVars, Content
<1>8. ASSUME NEW l \in DOMAIN loads, HandleLoad(l) PROVE ContentBelongs'
  BY <1>8, <1>a DEF HandleLoad, pageVars, requestVars, Content
<1>9. ASSUME NEW l \in DOMAIN loads, ReceiveLoad(l) PROVE ContentBelongs'
  <2>1. loads[l].agent = agent /\ agent' = agent /\ ~foreign
    BY <1>9 DEF ReceiveLoad
  <2>2. shown.selected \in {agent, NoAgent}
    BY <2>1 DEF ContentBelongs
  <2>3. /\ shown'.prompts = {agent} /\ shown'.results \subseteq {agent}
        /\ shown'.selected \in {agent, shown.selected}
    BY <1>9, <2>1 DEF ReceiveLoad
  <2> QED
    BY <2>1, <2>2, <2>3 DEF ContentBelongs
<1>10. ASSUME NEW l \in DOMAIN loads, LoadFails(l) PROVE ContentBelongs'
  BY <1>10 DEF LoadFails
<1>11. CASE HandleCreate
  BY <1>11, <1>a DEF HandleCreate, pageVars, requestVars, Content
<1>12. CASE ReceiveCreate
  BY <1>12, <1>a DEF ReceiveCreate, Content
<1>13. CASE CreateFails
  BY <1>13, <1>a DEF CreateFails, pageVars, requestVars, Content
<1>14. CASE Tick
  BY <1>14, <1>a DEF Tick, pageVars, requestVars, Content
<1>15. CASE HandlePoll
  BY <1>15, <1>a DEF HandlePoll, pageVars, requestVars, Content
<1>16. CASE ReceivePoll
  BY <1>16, <1>a DEF ReceivePoll, pageVars, requestVars, Content
<1>17. CASE PollFails
  BY <1>17, <1>a DEF PollFails, pageVars, requestVars, Content
<1>18. ASSUME NEW f \in fetches, ReceiveResult(f) PROVE ContentBelongs'
  <2>1. f.agent = agent /\ agent' = agent /\ ~foreign /\ loading' = loading
    BY <1>18 DEF ReceiveResult
  <2>2. /\ shown'.prompts = shown.prompts /\ shown'.selected = agent
        /\ shown'.results = shown.results \cup {agent}
    BY <1>18, <2>1 DEF ReceiveResult, TypeOK
  <2> QED
    BY <2>1, <2>2 DEF ContentBelongs, Content
<1>19. ASSUME NEW f \in fetches, ReceivePrompts(f) PROVE ContentBelongs'
  <2>1. f.agent = agent /\ agent' = agent /\ ~foreign /\ loading' = loading
    BY <1>19 DEF ReceivePrompts
  <2>2. /\ shown'.prompts = shown.prompts \cup {agent}
        /\ shown'.selected = shown.selected /\ shown'.results = shown.results
    BY <1>19, <2>1 DEF ReceivePrompts, TypeOK
  <2> QED
    BY <2>1, <2>2 DEF ContentBelongs, Content
<1>20. ASSUME NEW f \in fetches, FetchFails(f) PROVE ContentBelongs'
  BY <1>20, <1>a DEF FetchFails, pageVars, requestVars, Content
<1>21. CASE UNCHANGED vars
  BY <1>21, <1>a DEF vars, pageVars, requestVars, Content
<1> QED
  BY <1>1, <1>2, <1>3, <1>4, <1>5, <1>6, <1>7, <1>8, <1>9, <1>10, <1>11, <1>12, <1>13, <1>14,
     <1>15, <1>16, <1>17, <1>18, <1>19, <1>20, <1>21 DEF Next

LEMMA InductiveInvariant == Spec => []IInv
<1>1. Init => CreatedBelongs /\ JobsBelong /\ ContentBelongs
  <2> SUFFICES ASSUME Init PROVE CreatedBelongs /\ JobsBelong /\ ContentBelongs
    OBVIOUS
  <2>1. CreatedBelongs /\ JobsBelong
    BY DEF Init, CreatedBelongs, NotCreating, JobsBelong, NothingCurrent, NotPolling
  <2>2. ContentBelongs
    BY DEF Init, ContentBelongs, Content, NothingShown
  <2> QED
    BY <2>1, <2>2
<1>2. TypeOK /\ UnfinishedIsPolled /\ Init => IInv
  BY <1>1 DEF IInv
<1>3. IInv /\ [Next]_vars /\ TypeOK' /\ UnfinishedIsPolled' => IInv'
  BY CreatedStep, JobsStep, ContentStep DEF IInv
<1> QED
  BY <1>2, <1>3, TypeCorrect, UnfinishedIsPolledAlways, PTL DEF Spec

(* While no load is under way, and neither failed nor was overtaken since    *)
(* the agent was chosen, the page shows what belongs to the agent it names.  *)
THEOREM ShownBelongsToAgentAlways == Spec => []ShownBelongsToAgent
<1>1. IInv => ShownBelongsToAgent
  BY DEF IInv, ShownBelongsToAgent, JobsBelong, ContentBelongs
<1> QED
  BY <1>1, InductiveInvariant, PTL
=============================================================================
