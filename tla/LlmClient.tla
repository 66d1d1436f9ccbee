----------------------------- MODULE LlmClient -----------------------------
(***************************************************************************)
(* The provider gateway of backend/llm/client.py: the client that           *)
(* get_llm_client caches for the process, the calls that request threads    *)
(* and optimisation threads make through it, and its closing at the end of  *)
(* the lifespan (backend/main.py).  lru_cache runs the constructor without  *)
(* a lock, so a lookup and the end of the construction are two steps.  The  *)
(* attempts of one call are those of the OpenAI SDK, which this module      *)
(* takes as external: it repeats what can be repeated, max_retries times.   *)
(* What runs after another start is another process with empty memory.      *)
(***************************************************************************)
EXTENDS Naturals

CONSTANTS
    Settings,        \* the configurations a deployment may have
    ClientIds,       \* the LLMClient objects the process may build
    NoClient,        \* an empty cache, a thread without a client
    RequestThreads,  \* threads of the server that run route handlers
    Workers,         \* threads of the optimisation executor
    MaxRetries,      \* LLM_MAX_RETRIES
    MaxCalls         \* bound: calls one thread makes

ASSUME LlmAssumption ==
    /\ NoClient \notin ClientIds
    /\ RequestThreads \cap Workers = {}
    /\ MaxRetries \in Nat
    /\ MaxCalls \in Nat

VARIABLES
    settings,   \* get_settings(), read once
    process,    \* "up", "draining" (no new requests), "joining"
                \* (manager.shutdown), "stopped" (close_llm_client has run)
    cache,      \* what lru_cache holds
    clients,    \* the HTTP connections and the Azure credential of each client
    thread,     \* what each thread is doing, and the answer it got last
    cachedOnce, \* history: the clients that were ever in the cache
    closeFailed \* history: closing raised

vars == <<settings, process, cache, clients, thread, cachedOnce, closeFailed>>

-----------------------------------------------------------------------------
Threads == RequestThreads \cup Workers

(* The operations: an agent run, the judge, and the reflection or mutation  *)
(* of an optimisation.  All but the agent run have an offline substitute.    *)
Kinds == {"agent", "judge", "rewrite"}

(* How an attempt ends: an error the SDK repeats (timeout, connection, 408,  *)
(* 409, 429, 5xx), another status, a credential that raises before anything  *)
(* is sent, a body the SDK cannot read, a completion without content         *)
(* (no choice, a refusal, empty), with other text, with the JSON asked for,  *)
(* or with that JSON inside other text.                                      *)
Transient  == {"transient"}
Unsent     == {"credential"}
Fitting    == {"json", "embedded_json"}
Misfitting == {"no_content", "other_text"}
Failing    == Transient \cup Unsent \cup {"rejected", "unreadable"}
Outcomes   == Failing \cup Fitting \cup Misfitting

(* What a caller gets: the output, a placeholder, or one of the three errors *)
(* the routes translate to a status.                                         *)
Answers == {"none", "offline", "configuration", "upstream", "invalid", "output"}

IdleThread == [phase |-> "idle", kind |-> "agent", client |-> NoClient,
               attempts |-> 0, last |-> "none", answer |-> "none", calls |-> 0]

Unbuilt == [sdk |-> "none", credential |-> "none"]

-----------------------------------------------------------------------------
(* Mutant: an endpoint alone is taken for a complete Azure configuration.    *)
IsLlmConfiguredByKey ==
    IF settings.provider = "openai" THEN settings.openaiKey
    ELSE settings.endpoint # "none" /\ settings.azureKey

(* is_llm_configured: what the offline substitutes go by.                    *)
IsLlmConfigured ==
    IF settings.provider = "openai"
    THEN settings.authMode = "api_key" /\ settings.openaiKey
    ELSE /\ settings.endpoint # "none"
         /\ settings.authMode = "api_key" => settings.azureKey

(* _validate_configuration.                                                  *)
ValidConfiguration ==
    /\ settings.models
    /\ \/ settings.provider = "openai" /\ settings.authMode = "api_key" /\ settings.openaiKey
       \/ /\ settings.provider = "azure" /\ settings.endpoint # "none"
          /\ settings.authMode = "api_key" => settings.azureKey

(* _azure_v1_base_url: http(s), and no path but /openai or /openai/v1.       *)
UsableEndpoint == settings.endpoint = "resource"

(* _build_sdk_client: the endpoint, and the identity package.                *)
BuildsSdkClient ==
    settings.provider = "azure" =>
        /\ UsableEndpoint
        /\ settings.authMode = "managed_identity" => settings.identityPackage

(* What the constructor of LLMClient accepts.                                *)
Accepted == ValidConfiguration /\ BuildsSdkClient

BuiltClient ==
    [sdk |-> "open",
     credential |-> IF settings.provider = "azure" /\ settings.authMode = "managed_identity"
                    THEN "open" ELSE "none"]

-----------------------------------------------------------------------------
(* Uvicorn hands no request to a thread once it drains; the executor starts *)
(* queued jobs until it has joined.                                          *)
MayCall(t) ==
    /\ thread[t].phase = "idle" /\ thread[t].calls < MaxCalls
    /\ process = "up" \/ (t \in Workers /\ process \in {"draining", "joining"})

Called(t, kind) == [IdleThread EXCEPT !.kind = kind, !.calls = thread[t].calls + 1]

(* The call ends with an answer, after so many attempts, the last with outcome o. *)
Answered(t, answer, o, attempts) ==
    [thread EXCEPT ![t] = [@ EXCEPT !.phase = "idle", !.answer = answer,
                                    !.last = o, !.attempts = attempts]]

(* Nothing is configured: the judge, the reflection and the mutation answer  *)
(* with a placeholder.                                                       *)
AnswerOffline(t) ==
    \E kind \in Kinds \ {"agent"} :
        /\ MayCall(t) /\ ~IsLlmConfigured
        /\ thread' = [thread EXCEPT ![t] = [Called(t, kind) EXCEPT !.answer = "offline"]]
        /\ UNCHANGED <<settings, process, cache, clients, cachedOnce, closeFailed>>

(* The judge must not be the model that wrote the answer, where settings say so. *)
RefuseJudge(t) ==
    /\ MayCall(t) /\ IsLlmConfigured /\ settings.distinctJudge
    /\ thread' = [thread EXCEPT ![t] = [Called(t, "judge") EXCEPT !.answer = "configuration"]]
    /\ UNCHANGED <<settings, process, cache, clients, cachedOnce, closeFailed>>

(* The cache has the client.                                                 *)
Hit(t, kind) ==
    /\ MayCall(t) /\ (kind # "agent" => IsLlmConfigured)
    /\ cache # NoClient
    /\ thread' = [thread EXCEPT ![t] =
                    [Called(t, kind) EXCEPT !.phase = "calling", !.client = cache]]
    /\ UNCHANGED <<settings, process, cache, clients, cachedOnce, closeFailed>>

(* It has not: this thread runs the constructor, as may others.              *)
Miss(t, kind) ==
    /\ MayCall(t) /\ (kind # "agent" => IsLlmConfigured)
    /\ cache = NoClient
    /\ thread' = [thread EXCEPT ![t] = [Called(t, kind) EXCEPT !.phase = "constructing"]]
    /\ UNCHANGED <<settings, process, cache, clients, cachedOnce, closeFailed>>

(* LLMConfigurationError; the cache keeps no failed construction.            *)
ConstructorRaises(t) ==
    /\ thread[t].phase = "constructing" /\ ~Accepted
    /\ thread' = Answered(t, "configuration", "none", 0)
    /\ UNCHANGED <<settings, process, cache, clients, cachedOnce, closeFailed>>

(* Mutant: the constructor that ends last replaces the cached client.        *)
ConstructReplacing(t) ==
    /\ thread[t].phase = "constructing" /\ Accepted
    /\ \E c \in ClientIds :
          /\ clients[c] = Unbuilt
          /\ clients' = [clients EXCEPT ![c] = BuiltClient]
          /\ thread' = [thread EXCEPT ![t] = [@ EXCEPT !.phase = "calling", !.client = c]]
          /\ cache' = c
          /\ cachedOnce' = cachedOnce \cup {c}
    /\ UNCHANGED <<settings, process, closeFailed>>

(* The constructor returns: the client is cached, unless another thread was  *)
(* faster; then this thread uses its own, which nobody else will know.       *)
Construct(t) ==
    /\ thread[t].phase = "constructing" /\ Accepted
    /\ \E c \in ClientIds :
          /\ clients[c] = Unbuilt
          /\ clients' = [clients EXCEPT ![c] = BuiltClient]
          /\ thread' = [thread EXCEPT ![t] = [@ EXCEPT !.phase = "calling", !.client = c]]
          /\ IF cache = NoClient
             THEN cache' = c /\ cachedOnce' = cachedOnce \cup {c}
             ELSE UNCHANGED <<cache, cachedOnce>>
    /\ UNCHANGED <<settings, process, closeFailed>>

-----------------------------------------------------------------------------
(* _parse_response: the whole text, else the first JSON value in it.         *)
ParsedAnswer(o) == IF o \in Fitting THEN "output" ELSE "invalid"

Retried(t, o) == o \in Transient /\ thread[t].attempts < MaxRetries

(* The SDK sends the request again.                                          *)
RetryAttempt(t, o) ==
    /\ thread[t].phase = "calling" /\ Retried(t, o)
    /\ thread' = [thread EXCEPT ![t] = [@ EXCEPT !.attempts = thread[t].attempts + 1,
                                                    !.last = o]]
    /\ UNCHANGED <<settings, process, cache, clients, cachedOnce, closeFailed>>

(* LLMRequestError: an error that no repetition helps, or one repetition too *)
(* many.  A credential may raise before anything is sent.                    *)
CallFails(t, o) ==
    /\ thread[t].phase = "calling"
    /\ o \in Failing /\ ~Retried(t, o)
    /\ o \in Unsent => clients[thread[t].client].credential = "open"
    /\ thread' = Answered(t, "upstream", o,
                          thread[t].attempts + IF o \in Unsent THEN 0 ELSE 1)
    /\ UNCHANGED <<settings, process, cache, clients, cachedOnce, closeFailed>>

(* A completion: the parsed output, or LLMResponseError.                     *)
CallReturns(t, o) ==
    /\ thread[t].phase = "calling"
    /\ o \in Fitting \cup Misfitting
    /\ thread' = Answered(t, ParsedAnswer(o), o, thread[t].attempts + 1)
    /\ UNCHANGED <<settings, process, cache, clients, cachedOnce, closeFailed>>

-----------------------------------------------------------------------------
(* SIGTERM: no new requests.                                                 *)
Stop ==
    /\ process = "up"
    /\ process' = "draining"
    /\ UNCHANGED <<settings, cache, clients, thread, cachedOnce, closeFailed>>

(* The last request is answered; the lifespan calls manager.shutdown.        *)
RequestsDone ==
    /\ process = "draining" /\ \A t \in RequestThreads : thread[t].phase = "idle"
    /\ process' = "joining"
    /\ UNCHANGED <<settings, cache, clients, thread, cachedOnce, closeFailed>>

(* LLMClient.close: the connections, then the credential, and nothing        *)
(* catches what the first one raises.                                        *)
Closed(client) ==
    [sdk |-> "closed",
     credential |-> IF client.credential = "open" THEN "closed" ELSE client.credential]

LeftByClose(client) == {client, [client EXCEPT !.sdk = "closed"]}

(* Mutant: shutdown(wait=False).                                             *)
CloseWithoutJoin ==
    /\ process = "joining"
    /\ process' = "stopped" /\ cache' = NoClient
    /\ \/ cache = NoClient /\ UNCHANGED clients
       \/ cache # NoClient /\ clients' = [clients EXCEPT ![cache] = Closed(@)]
    /\ UNCHANGED <<settings, thread, cachedOnce, closeFailed>>

(* The executor has joined its threads: close_llm_client closes the cached   *)
(* client and empties the cache, also when closing raises.                   *)
Close ==
    /\ process = "joining" /\ \A t \in Workers : thread[t].phase = "idle"
    /\ process' = "stopped" /\ cache' = NoClient
    /\ \/ cache = NoClient /\ UNCHANGED <<clients, closeFailed>>
       \/ /\ cache # NoClient
          /\ clients' = [clients EXCEPT ![cache] = Closed(@)]
          /\ UNCHANGED closeFailed
       \/ /\ cache # NoClient
          /\ \E left \in LeftByClose(clients[cache]) :
                clients' = [clients EXCEPT ![cache] = left]
          /\ closeFailed' = TRUE
    /\ UNCHANGED <<settings, thread, cachedOnce>>

Init ==
    /\ settings \in Settings
    /\ process = "up"
    /\ cache = NoClient
    /\ clients = [c \in ClientIds |-> Unbuilt]
    /\ thread = [t \in Threads |-> IdleThread]
    /\ cachedOnce = {}
    /\ closeFailed = FALSE

Call(t) ==
    \/ AnswerOffline(t) \/ RefuseJudge(t)
    \/ \E kind \in Kinds : Hit(t, kind) \/ Miss(t, kind)
    \/ ConstructorRaises(t) \/ Construct(t)
    \/ \E o \in Outcomes : RetryAttempt(t, o) \/ CallFails(t, o) \/ CallReturns(t, o)

Next == Stop \/ RequestsDone \/ Close \/ \E t \in Threads : Call(t)

Spec == Init /\ [][Next]_vars

-----------------------------------------------------------------------------
(* Configuration, clients and threads are well formed, and a thread holds a  *)
(* client while it calls.                                                    *)
TypeOK ==
    /\ settings \in Settings
    /\ process \in {"up", "draining", "joining", "stopped"}
    /\ cache \in ClientIds \cup {NoClient}
    /\ clients \in [ClientIds -> [sdk : {"none", "open", "closed"},
                                   credential : {"none", "open", "closed"}]]
    /\ thread \in [Threads -> [phase : {"idle", "constructing", "calling"}, kind : Kinds,
                                client : ClientIds \cup {NoClient}, attempts : Nat,
                                last : Outcomes \cup {"none"}, answer : Answers, calls : Nat]]
    /\ \A t \in Threads : thread[t].phase = "calling" => thread[t].client \in ClientIds
    /\ cachedOnce \subseteq ClientIds
    /\ closeFailed \in BOOLEAN

(* No call goes through a client whose connections or credential were closed *)
(* under it: close_llm_client runs after the last request and the last job   *)
(* that a draining executor still starts.                                    *)
CallsUseOpenClients ==
    \A t \in Threads :
        thread[t].phase = "calling" =>
            /\ clients[thread[t].client].sdk = "open"
            /\ clients[thread[t].client].credential # "closed"

(* Only one client is ever cached, and after an orderly stop the cache is    *)
(* empty and that client has let go of its connections and its credential,   *)
(* unless closing raised.  Clients that lost the race of the constructors    *)
(* were never cached, and nothing closes them.                               *)
CachedClientIsClosed ==
    /\ \A c, d \in cachedOnce : c = d
    /\ process = "stopped" =>
          /\ cache = NoClient
          /\ ~closeFailed => \A c \in cachedOnce :
                clients[c].sdk = "closed" /\ clients[c].credential # "open"

(* How the answer of a thread is explained by its last call.                 *)
Explained(r) ==
    /\ r.answer = "configuration" =>
          r.attempts = 0 /\ (~Accepted \/ (r.kind = "judge" /\ settings.distinctJudge))
    /\ r.answer = "offline"  => r.kind # "agent" /\ ~Accepted
    /\ r.answer = "invalid"  => r.last \in Misfitting
    /\ r.answer = "output"   => r.last \in Fitting /\ r.attempts <= MaxRetries + 1
    /\ r.answer = "upstream" =>
          r.last \in Failing /\ (r.last \in Transient => r.attempts = MaxRetries + 1)

(* What a caller is told is what happened: a configuration error only when   *)
(* nothing was sent, a placeholder only when no client could have been       *)
(* built, an invalid response only when the provider answered, an upstream   *)
(* error only when repeating was exhausted or useless.                       *)
AnswersMatchTheProvider == \A t \in Threads : Explained(thread[t])
=============================================================================
