----------------------------- MODULE ModelLimits -----------------------------
(***************************************************************************)
(* What a model of the catalog may be asked for: the models a catalog      *)
(* lists (model_catalog.go), the reasoning levels and the output allowance *)
(* they accept (model.go), and the second look the Anthropic provider      *)
(* takes at both (provider_anthropic.go).                                  *)
(*                                                                         *)
(* A catalog source keeps the limits, the reasoning options and whether    *)
(* the rest of it (id, modalities, prices) is sound; a model keeps its     *)
(* wire protocol, its reasoning levels and its limits, 0 for none.         *)
(***************************************************************************)
EXTENDS Integers, Sequences

OpenAIResponses == "openai-responses"
AnthropicMessages == "anthropic-messages"

Efforts == {"minimal", "low", "medium", "high", "xhigh"}

\* defaultRequestMaxTokens
DefaultMaxTokens == 4096

\* The thinking tokens a level stands for where they are asked for by number.
ReasoningTokenBudget(level) ==
    CASE level = "minimal" -> 1024
      [] level = "low" -> 4096
      [] level = "medium" -> 8192
      [] level \in {"high", "xhigh"} -> 16384
      [] OTHER -> 0

-----------------------------------------------------------------------------
(* The catalog.                                                             *)

\* The efforts that the options name.
EffortLevels(options) ==
    UNION {options[i].values \cap (Efforts \cup {"none"}) :
             i \in {j \in DOMAIN options : options[j].type = "effort"}}

\* The efforts whose budget the first budget option permits.
BudgetLevels(options) ==
    LET budgets == {i \in DOMAIN options : options[i].type = "budget_tokens"}
    IN  IF budgets = {} THEN {}
        ELSE LET first == CHOOSE i \in budgets : \A j \in budgets : i <= j
             IN  {level \in Efforts : ReasoningTokenBudget(level) >= options[first].min}

\* The sources of which catalog makes a model: sound, of a family that speaks
\* the Responses protocol if it is OpenAI's, with limits that fit each other.
Listed(catalog, source) ==
    /\ source.sound
    /\ catalog = "openai" => source.responses
    /\ source.context > 0 /\ source.output > 0
    /\ 0 <= source.input /\ source.input <= source.context
    /\ source.output <= source.context

ModelFromCatalog(catalog, source) ==
    [api       |-> IF catalog = "openai" THEN OpenAIResponses ELSE AnthropicMessages,
     reasoning |-> source.reasoning,
     levels    |-> IF catalog = "openai" THEN EffortLevels(source.options)
                                         ELSE BudgetLevels(source.options),
     window    |-> source.context,
     maxInput  |-> source.input,
     maxOutput |-> source.output]

-----------------------------------------------------------------------------
(* What a model accepts.                                                    *)

\* validateReasoning
ValidReasoning(model, level) ==
    CASE level = "" -> TRUE
      [] level \in {"none", "off"} ->
            model.api = OpenAIResponses /\ model.reasoning => "none" \in model.levels
      [] OTHER -> model.reasoning /\ level \in model.levels

\* The allowance of a request that names none.
DefaultAllowance(model) ==
    IF model.maxOutput > 0 /\ DefaultMaxTokens > model.maxOutput
       THEN model.maxOutput ELSE DefaultMaxTokens

\* Faulty variant: no room for an answer besides the thinking.
MinimumWithoutAnswer(model, level) ==
    LET budget == ReasoningTokenBudget(level)
    IN  IF model.api = AnthropicMessages /\ model.reasoning /\ budget > 0 THEN budget ELSE 1

\* The least allowance: one that leaves room for an answer after the thinking,
\* where the protocol counts both.
Minimum(model, level) ==
    LET budget == ReasoningTokenBudget(level)
    IN  IF model.api = AnthropicMessages /\ model.reasoning /\ budget > 0
           THEN budget + 1024 ELSE 1

\* resolveRequestMaxTokens: the options it accepts, and the allowance it gives.
Allowance(model, requested) ==
    IF requested = 0 THEN DefaultAllowance(model) ELSE requested

Accepts(model, requested, level) ==
    /\ ValidReasoning(model, level)
    /\ requested >= 0
    /\ Allowance(model, requested) >= Minimum(model, level)
    /\ model.maxOutput > 0 => Allowance(model, requested) <= model.maxOutput

\* The allowance the Anthropic provider works out for itself, and the check it
\* makes of it against the thinking budget.
AnthropicAllowance(model, requested) ==
    IF requested <= 0 THEN DefaultAllowance(model) ELSE requested

AnthropicFits(model, requested, level) ==
    model.reasoning /\ ReasoningTokenBudget(level) > 0 =>
        AnthropicAllowance(model, requested) > ReasoningTokenBudget(level)

\* What a provider refuses by itself, after the registry has accepted it.
Refuses(model, requested, level) ==
    \/ ~ValidReasoning(model, level)
    \/ model.api = AnthropicMessages /\ ~AnthropicFits(model, requested, level)

=============================================================================
