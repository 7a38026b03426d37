----------------------------- MODULE MCRegistry -----------------------------
(***************************************************************************)
(* An instance of Registry for TLC: three providers, two of them with a    *)
(* catalog, that may all serve the same bare id, one of them under an id   *)
(* with a slash, and a model whose id reads like a namespaced one, as      *)
(* gateways have them.                                                     *)
(***************************************************************************)
EXTENDS Registry

openai == <<"openai">>
proxy  == <<"proxy">>
local  == <<"my", "local">>

gpt    == <<"gpt">>
mini   == <<"mini">>
nested == <<"openai", "gpt">>

ThreeProviders == {openai, proxy, local}
ThreeModels == {gpt, mini, nested}
BuiltIn == [p \in ThreeProviders |->
              CASE p = openai -> {mini} [] p = proxy -> {mini, nested} [] p = local -> {gpt}]
WithCatalog == {openai, proxy}
AnyDocument == [WithCatalog -> SUBSET {gpt, mini}]
=============================================================================
