--------------------------- MODULE MCProviderStream ---------------------------
(***************************************************************************)
(* Requests for TLC: catalog models of both providers, with output limits  *)
(* below and above the thinking budgets, and options at the boundaries.    *)
(***************************************************************************)
EXTENDS ProviderStream

Effort == [type |-> "effort", min |-> 0, values |-> {"none", "low", "max"}]
Budget == [type |-> "budget_tokens", min |-> 1024, values |-> {}]

Source(output, options) ==
    [sound |-> TRUE, responses |-> TRUE, reasoning |-> options # <<>>, options |-> options,
     context |-> 16000, input |-> 0, output |-> output]

Ask(model, maxTokens, reasoning) ==
    [model |-> model, maxTokens |-> maxTokens, reasoning |-> reasoning, translatable |-> TRUE]

GPT    == ModelFromCatalog("openai", Source(8192, <<Effort>>))
Claude == ModelFromCatalog("anthropic", Source(2048, <<Effort, Budget>>))

\* Defaults, an effort with too little and just enough room, an effort the
\* model lacks, and contents the provider cannot translate.
AllRequests ==
    {Ask(GPT, 0, "low"), Ask(GPT, 8193, ""), Ask(GPT, 1, "minimal")}
    \cup {Ask(Claude, 0, "minimal"), Ask(Claude, 1024, "minimal"), Ask(Claude, 0, "low")}
    \cup {[Ask(model, 0, "") EXCEPT !.translatable = FALSE] : model \in {GPT, Claude}}
=============================================================================
