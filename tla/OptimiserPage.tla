--------------------------- MODULE OptimiserPage ---------------------------
(***************************************************************************)
(* The optimiser page of the Angular client (frontend/src/app/features/     *)
(* optimiser/optimiser.page.ts) and as much of the server as it sees.  One  *)
(* browser thread runs the handlers, so each is one step; what interleaves  *)
(* is the answers of requests, of which changeAgent takes back none but the *)
(* status polling.  A load, a status request and a submission are handled   *)
(* by the server in a step of their own, so that an answer can be old when  *)
(* it arrives; what other requests fetch does not change.                   *)
(*                                                                          *)
(* Abstracted: queued and running are one status; lists and prompts are     *)
(* known by the agent they belong to; the template hides everything but the *)
(* choice of the agent while `loading`.                                     *)
(***************************************************************************)
EXTENDS Naturals, Sequences, SequencesExt

CONSTANTS
    Agents,   \* the agent types of the selector
    Jobs,     \* the jobs the server may know
    NoAgent,  \* nothing is shown
    NoJob,    \* no job is shown or polled
    MaxLoads  \* bound: the loads that may be under way at once

ASSUME PageAssumption ==
    NoAgent \notin Agents /\ NoJob \notin Jobs /\ MaxLoads \in Nat \ {0}

VARIABLES
    server,   \* the job table: agent and status of each job
    agent,    \* agent(): what the selector says
    loading,  \* loading()
    shown,    \* the agents that activePrompt() or versions() are of, those of
              \* results(), and the one of selectedResult()
    jobs,     \* jobs(): the status each job has in the page's list
    current,  \* currentJob()
    poll,     \* pollSubscription: the job and its pending status request
    loads,    \* the pending loads, in the order they were sent
    create,   \* the pending createOptimisation
    fetches,  \* the pending getOptimisationResult requests, and the
              \* getPromptVersions and activatePrompt requests
    foreign,  \* history: since the agent was chosen, an answer to a request for
              \* another one was applied, or a load failed
    broken    \* history: a failed status request ended the last polling

pageVars == <<agent, loading, shown, jobs, current>>
requestVars == <<poll, loads, create, fetches>>
vars == <<server, pageVars, requestVars, foreign, broken>>

-----------------------------------------------------------------------------
Final == {"completed", "failed"}
Statuses == {"absent", "active"} \cup Final
NoRow == [agent |-> NoAgent, status |-> "absent"]

NothingShown == [prompts |-> {}, results |-> {}, selected |-> NoAgent]
NothingCurrent == [job |-> NoJob, status |-> "none"]

(* A pending request is "sent", then handled and carries its answer.         *)
NotPolling == [job |-> NoJob, answer |-> "none"]
NotCreating == [agent |-> NoAgent, phase |-> "none", job |-> NoJob]

Active(j) == server[j].status = "active"
AgentJobs == {j \in Jobs : jobs[j] # "absent" /\ server[j].agent = agent}

(* What the page shows while it works: everything but the selector.          *)
Content == ~loading

-----------------------------------------------------------------------------
(* pollJob: the old polling is cancelled; the timer fires at once.           *)
PollJob(j) == poll' = [job |-> j, answer |-> "sent"] /\ broken' = FALSE

(* loadResult, where the job is completed.                                   *)
LoadResult(j, status) ==
    IF status = "completed" THEN {[kind |-> "result", agent |-> server[j].agent]} ELSE {}

(* load: one forkJoin.                                                       *)
NewLoad(a) == [agent |-> a, phase |-> "sent", list |-> [j \in Jobs |-> "absent"]]

LoadFor(a) == Len(loads) < MaxLoads /\ loads' = Append(loads, NewLoad(a))

(* Mutant: the polling of the other agent's job goes on.                     *)
ChangeAgentPolling(a) ==
    /\ a # agent
    /\ agent' = a
    /\ current' = NothingCurrent
    /\ shown' = [shown EXCEPT !.selected = NoAgent]
    /\ loading' = TRUE
    /\ LoadFor(a)
    /\ foreign' = FALSE
    /\ UNCHANGED <<server, jobs, poll, create, fetches, broken>>

(* changeAgent.  Prompts, jobs and results of the old agent stay until the   *)
(* load is answered.                                                         *)
ChangeAgent(a) ==
    /\ a # agent
    /\ agent' = a
    /\ current' = NothingCurrent
    /\ shown' = [shown EXCEPT !.selected = NoAgent]
    /\ poll' = NotPolling
    /\ loading' = TRUE
    /\ LoadFor(a)
    /\ foreign' = FALSE /\ broken' = FALSE
    /\ UNCHANGED <<server, jobs, create, fetches>>

(* The refresh button.                                                       *)
Refresh ==
    /\ Content
    /\ loading' = TRUE
    /\ LoadFor(agent)
    /\ UNCHANGED <<server, agent, shown, jobs, current, poll, create, fetches, foreign, broken>>

(* The server answers a load with what its tables say now.                   *)
HandleLoad(l) ==
    /\ loads[l].phase = "sent"
    /\ loads' = [loads EXCEPT ![l].phase = "handled",
                              ![l].list = [j \in Jobs |-> server[j].status]]
    /\ UNCHANGED <<server, pageVars, poll, create, fetches, foreign, broken>>

(* Mutant: the load's job is shown, but polled only when none is shown yet.  *)
TrackOneUnlessShown(unfinished) ==
    IF unfinished = {} THEN UNCHANGED <<current, poll, broken>>
    ELSE \E j \in unfinished :
            /\ current' = [job |-> j, status |-> "active"]
            /\ IF current.job = NoJob THEN PollJob(j) ELSE UNCHANGED <<poll, broken>>

(* trackJob of an unfinished job in the list of a load, the first one there. *)
TrackOneOf(unfinished) ==
    IF unfinished = {} THEN UNCHANGED <<current, poll, broken>>
    ELSE \E j \in unfinished :
            current' = [job |-> j, status |-> "active"] /\ PollJob(j)

(* The answer fills the page, whatever the selector says by now, and an      *)
(* unfinished job of the load's agent is tracked.                            *)
ReceiveLoad(l) ==
    /\ loads[l].phase = "handled"
    /\ LET a    == loads[l].agent
           list == loads[l].list
           own  == {j \in Jobs : server[j].agent = a}
           done == {j \in own : list[j] = "completed"}
           unfinished == {j \in own : list[j] = "active"}
       IN  /\ shown' = [prompts |-> {a}, results |-> {b \in {a} : done # {}},
                        selected |-> IF done # {} THEN a ELSE shown.selected]
           /\ jobs' = list
           /\ TrackOneOf(unfinished)
           /\ foreign' = (foreign \/ a # agent)
    /\ loading' = FALSE
    /\ loads' = RemoveAt(loads, l)
    /\ UNCHANGED <<server, agent, create, fetches>>

(* One of the requests of a load fails: nothing is set.                      *)
LoadFails(l) ==
    /\ loading' = FALSE
    /\ loads' = RemoveAt(loads, l)
    /\ foreign' = TRUE
    /\ UNCHANGED <<server, agent, shown, jobs, current, poll, create, fetches, broken>>

-----------------------------------------------------------------------------
(* startOptimisation: the button waits for the last submission, and for the  *)
(* unfinished jobs of the agent that the page knows.                         *)
StartOptimisation ==
    /\ Content /\ create = NotCreating
    /\ \A j \in AgentJobs : jobs[j] # "active"
    /\ create' = [agent |-> agent, phase |-> "sent", job |-> NoJob]
    /\ UNCHANGED <<server, pageVars, poll, loads, fetches, foreign, broken>>

(* The server creates the job, unless one of the agent is unfinished.        *)
HandleCreate ==
    /\ create.phase = "sent"
    /\ \A j \in Jobs : server[j].agent = create.agent => ~Active(j)
    /\ \E j \in Jobs :
          /\ server[j] = NoRow
          /\ server' = [server EXCEPT ![j] = [agent |-> create.agent, status |-> "active"]]
          /\ create' = [create EXCEPT !.phase = "handled", !.job = j]
    /\ UNCHANGED <<pageVars, poll, loads, fetches, foreign, broken>>

(* The answer: the new job is shown and polled.                              *)
ReceiveCreate ==
    /\ create.phase = "handled"
    /\ current' = [job |-> create.job, status |-> "active"]
    /\ jobs' = [jobs EXCEPT ![create.job] = "active"]
    /\ PollJob(create.job)
    /\ create' = NotCreating
    /\ foreign' = (foreign \/ create.agent # agent)
    /\ UNCHANGED <<server, agent, loading, shown, loads, fetches>>

CreateFails ==
    /\ create # NotCreating
    /\ create' = NotCreating
    /\ UNCHANGED <<server, pageVars, poll, loads, fetches, foreign, broken>>

(* trackJob, from the list of the agent's jobs.                              *)
TrackJob(j) ==
    /\ Content /\ j \in AgentJobs
    /\ current' = [job |-> j, status |-> jobs[j]]
    /\ IF jobs[j] = "active"
       THEN PollJob(j) /\ UNCHANGED fetches
       ELSE fetches' = fetches \cup LoadResult(j, jobs[j]) /\ UNCHANGED <<poll, broken>>
    /\ UNCHANGED <<server, agent, loading, shown, jobs, loads, create, foreign>>

-----------------------------------------------------------------------------
(* The timer: switchMap drops a status request that is still pending.        *)
Tick ==
    /\ poll # NotPolling
    /\ poll' = [poll EXCEPT !.answer = "sent"]
    /\ UNCHANGED <<server, pageVars, loads, create, fetches, foreign, broken>>

HandlePoll ==
    /\ poll.answer = "sent"
    /\ poll' = [poll EXCEPT !.answer = server[poll.job].status]
    /\ UNCHANGED <<server, pageVars, loads, create, fetches, foreign, broken>>

(* Mutant: takeWhile without `inclusive` in front of the tap.                *)
ReceivePollUnfinished ==
    /\ poll.answer \in Final \cup {"active"}
    /\ IF poll.answer = "active"
       THEN /\ current' = [job |-> poll.job, status |-> poll.answer]
            /\ jobs' = [jobs EXCEPT ![poll.job] = poll.answer]
            /\ poll' = [poll EXCEPT !.answer = "none"]
       ELSE poll' = NotPolling /\ UNCHANGED <<current, jobs>>
    /\ UNCHANGED <<server, agent, loading, shown, fetches, loads, create, foreign, broken>>

(* A status arrives before the next tick; a final one ends the polling, and  *)
(* finalize loads the result of the job that is shown.                       *)
ReceivePoll ==
    /\ poll.answer \in Final \cup {"active"}
    /\ current' = [job |-> poll.job, status |-> poll.answer]
    /\ jobs' = [jobs EXCEPT ![poll.job] = poll.answer]
    /\ poll' = IF poll.answer \in Final THEN NotPolling ELSE [poll EXCEPT !.answer = "none"]
    /\ fetches' = fetches \cup LoadResult(poll.job, poll.answer)
    /\ UNCHANGED <<server, agent, loading, shown, loads, create, foreign, broken>>

(* A failed status request: there is no catchError, the polling ends, and    *)
(* finalize sees the job that is shown, unfinished or picked from the list.  *)
PollFails ==
    /\ poll # NotPolling /\ poll.answer # "none"
    /\ poll' = NotPolling
    /\ broken' = TRUE
    /\ fetches' = fetches \cup
         IF current.status = "completed" THEN LoadResult(current.job, "completed") ELSE {}
    /\ UNCHANGED <<server, pageVars, loads, create, foreign>>

-----------------------------------------------------------------------------
(* The result is shown, and the versions of the selected agent are loaded.   *)
ReceiveResult(f) ==
    /\ f \in fetches /\ f.kind = "result"
    /\ shown' = [shown EXCEPT !.results = @ \cup {f.agent}, !.selected = f.agent]
    /\ fetches' = (fetches \ {f}) \cup {[kind |-> "prompts", agent |-> agent]}
    /\ foreign' = (foreign \/ f.agent # agent)
    /\ UNCHANGED <<server, agent, loading, jobs, current, poll, loads, create, broken>>

(* selectResult, from the list of results.                                   *)
SelectResult(a) ==
    /\ Content /\ a \in shown.results
    /\ shown' = [shown EXCEPT !.selected = a]
    /\ UNCHANGED <<server, agent, loading, jobs, current, requestVars, foreign, broken>>

(* activatePrompt sends the selected agent with a version from the list; the *)
(* server knows only versions of that agent.                                 *)
ActivatePrompt ==
    /\ Content /\ agent \in shown.prompts
    /\ fetches' = fetches \cup {[kind |-> "prompts", agent |-> agent]}
    /\ UNCHANGED <<server, pageVars, poll, loads, create, foreign, broken>>

(* The versions, or the prompt that is now active, of the agent of the       *)
(* request replace those that are shown.                                     *)
ReceivePrompts(f) ==
    /\ f \in fetches /\ f.kind = "prompts"
    /\ shown' = [shown EXCEPT !.prompts = @ \cup {f.agent}]
    /\ fetches' = fetches \ {f}
    /\ foreign' = (foreign \/ f.agent # agent)
    /\ UNCHANGED <<server, agent, loading, jobs, current, poll, loads, create, broken>>

FetchFails(f) ==
    /\ f \in fetches
    /\ fetches' = fetches \ {f}
    /\ UNCHANGED <<server, pageVars, poll, loads, create, foreign, broken>>

(* The optimisation of a job ends.                                           *)
Finish(j) ==
    /\ Active(j)
    /\ \E s \in Final : server' = [server EXCEPT ![j].status = s]
    /\ UNCHANGED <<pageVars, requestVars, foreign, broken>>

(* The page is opened, perhaps while a job runs; its constructor loads.      *)
Init ==
    /\ server \in {[j \in Jobs |-> NoRow]} \cup
                  {[i \in Jobs |-> IF i = j THEN [agent |-> a, status |-> "active"] ELSE NoRow] :
                      j \in Jobs, a \in Agents}
    /\ agent \in Agents
    /\ loading = TRUE
    /\ shown = NothingShown
    /\ jobs = [j \in Jobs |-> "absent"]
    /\ current = NothingCurrent
    /\ poll = NotPolling
    /\ loads = <<NewLoad(agent)>>
    /\ create = NotCreating
    /\ fetches = {}
    /\ foreign = FALSE
    /\ broken = FALSE

Next ==
    \/ \E a \in Agents : ChangeAgent(a) \/ SelectResult(a)
    \/ Refresh \/ StartOptimisation \/ ActivatePrompt
    \/ \E j \in Jobs : TrackJob(j) \/ Finish(j)
    \/ \E l \in DOMAIN loads : HandleLoad(l) \/ ReceiveLoad(l) \/ LoadFails(l)
    \/ HandleCreate \/ ReceiveCreate \/ CreateFails
    \/ Tick \/ HandlePoll \/ ReceivePoll \/ PollFails
    \/ \E f \in fetches :
          ReceiveResult(f) \/ ReceivePrompts(f) \/ FetchFails(f)

Spec == Init /\ [][Next]_vars

(* The timer ticks, the server handles a status request, and the browser     *)
(* runs the handler of an answer that is not dropped.  Nothing is asked of   *)
(* the jobs, of which some never end, nor of the speed of the answers.       *)
Fairness == WF_vars(Tick) /\ WF_vars(HandlePoll) /\ WF_vars(ReceivePoll)

FairSpec == Spec /\ Fairness

-----------------------------------------------------------------------------
(* Jobs, what is shown and the requests under way are well formed; a status  *)
(* request and a created job name a job, and no status is shown without one. *)
TypeOK ==
    /\ server \in [Jobs -> [agent : Agents \cup {NoAgent}, status : Statuses]]
    /\ agent \in Agents
    /\ loading \in BOOLEAN /\ foreign \in BOOLEAN /\ broken \in BOOLEAN
    /\ shown \in [prompts : SUBSET (Agents \cup {NoAgent}),
                  results : SUBSET (Agents \cup {NoAgent}),
                  selected : Agents \cup {NoAgent}]
    /\ jobs \in [Jobs -> Statuses]
    /\ current \in [job : Jobs, status : Statuses] \cup {NothingCurrent}
    /\ poll \in [job : Jobs, answer : Statuses \cup {"none", "sent"}] \cup {NotPolling}
    /\ loads \in Seq([agent : Agents, phase : {"sent", "handled"}, list : [Jobs -> Statuses]])
    /\ create \in [agent : Agents, phase : {"sent"}, job : {NoJob}]
                   \cup [agent : Agents, phase : {"handled"}, job : Jobs] \cup {NotCreating}
    /\ fetches \subseteq [kind : {"result", "prompts"}, agent : Agents \cup {NoAgent}]

Watched(j) == current = [job |-> j, status |-> "active"]

(* A job that is shown unfinished is being polled, unless its polling ended  *)
(* with a failed request: whatever loads, submissions, clicks and changes of *)
(* agent come in between, the page never stops watching what it shows.       *)
UnfinishedIsPolled ==
    \A j \in Jobs : Watched(j) => poll.job = j \/ broken

(* When no load is under way, and since the agent was chosen no load failed  *)
(* and no answer for another agent came in, everything that the page shows   *)
(* belongs to the agent that it names.                                       *)
ShownBelongsToAgent ==
    Content /\ ~foreign =>
        /\ shown.prompts = {agent}
        /\ shown.results \subseteq {agent}
        /\ shown.selected \in {agent, NoAgent}
        /\ current.job = NoJob \/ server[current.job].agent = agent

(* A status request is dropped: switchMap forgets it at the next tick, or    *)
(* another polling is begun.                                                 *)
Drops == poll.answer # "none" /\ poll'.answer = "sent"

(* The network and the user calm down.  The code does not see to it: answers *)
(* that take longer than the interval are dropped for as long as they do.    *)
AnswersInTime == <>[][~Drops]_vars

Unnoticed(j) == Watched(j) /\ server[j].status \in Final

(* Whatever answers were dropped before, once they come in time again a job  *)
(* that has ended on the server while it is shown unfinished is some day     *)
(* shown as ended, or no longer shown, or a status request failed.           *)
WatchedJobEnds ==
    AnswersInTime => \A j \in Jobs : Unnoticed(j) ~> (~Watched(j) \/ broken)

(* README.md:163: the client polls until the job is completed or failed, so  *)
(* one that has ended is not shown unfinished for ever.                      *)
PollsUntilEnd ==
    AnswersInTime => \A j \in Jobs : Unnoticed(j) ~> ~Watched(j)
=============================================================================
