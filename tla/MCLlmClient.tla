---------------------------- MODULE MCLlmClient ----------------------------
(***************************************************************************)
(* Instance of LlmClient for TLC: one request thread and one optimisation  *)
(* thread with two calls each, one retry, and every configuration that      *)
(* environment variables can give, with what a provider does not read       *)
(* fixed.                                                                   *)
(***************************************************************************)
EXTENDS LlmClient, TLC

CONSTANTS r1, w1, c1, c2

MCRequestThreads == {r1}
MCWorkers   == {w1}
MCClientIds == {c1, c2}

OpenAiSettings ==
    {[provider |-> "openai", authMode |-> mode, openaiKey |-> key,
      endpoint |-> "none", azureKey |-> FALSE, identityPackage |-> FALSE,
      models |-> models, distinctJudge |-> distinct] :
        mode \in {"api_key", "managed_identity"},
        key, models, distinct \in BOOLEAN}

AzureSettings ==
    {[provider |-> "azure", authMode |-> mode, openaiKey |-> FALSE,
      endpoint |-> endpoint, azureKey |-> key, identityPackage |-> package,
      models |-> models, distinctJudge |-> FALSE] :
        mode \in {"api_key", "managed_identity"},
        endpoint \in {"none", "resource", "unusable"},
        key, package, models \in BOOLEAN}

MCSettings == OpenAiSettings \cup AzureSettings

MCSymmetry == Permutations(MCClientIds)
=============================================================================
