------------------------------ MODULE Pricing -------------------------------
(***************************************************************************)
(* integrations/: what a provider's response says of tokens, the price of  *)
(* its model and the cost that reaches the current span.  A name is the    *)
(* sequence of the parts its provider's code splits it into, at "-" or at  *)
(* the first "/".  Rates are in USD per 10^9 tokens, tokens are counted in *)
(* thousands, so that costs are in millionths of a USD, the tolerance of   *)
(* CostBreakdown.                                                          *)
(***************************************************************************)
EXTENDS Optionals, Sequences, FiniteSetsExt

CONSTANT Tokens   \* bound: the counts a response reports

ASSUME TokensAssumption ==
  /\ Tokens \subseteq Nat
  /\ None \notin [in : Int, out : Int, total : Int, cached : Int \cup {None},
                 reasoning : Int \cup {None}]

VARIABLES
  vendor, response, \* fixed by Init
  priorUsage, priorModel, \* the user has set them on the span
  priced,           \* the wrapper has run
  spanTokens, spanPrice, spanModel \* None, or what it left on the span

priceVars == <<vendor, response, priorUsage, priorModel, priced, spanTokens, spanPrice, spanModel>>

-----------------------------------------------------------------------------
(* The tables *)

Row3(name, in, out, cached, reasoning) ==
  [name |-> name, in |-> in, out |-> out, cached |-> cached, reasoning |-> reasoning]
Row2(name, in, out, cached) == Row3(name, in, out, cached, None)
Row(name, in, out)          == Row2(name, in, out, None)

OpenAIPricing ==
  {Row2(<<"gpt", "4o">>, 2500, 10000, 1250),
   Row2(<<"gpt", "4o", "2024", "11", "20">>, 2500, 10000, 1250),
   Row2(<<"gpt", "4o", "2024", "08", "06">>, 2500, 10000, 1250),
   Row(<<"gpt", "4o", "2024", "05", "13">>, 5000, 15000),
   Row2(<<"gpt", "4o", "mini">>, 150, 600, 75),
   Row2(<<"gpt", "4o", "mini", "2024", "07", "18">>, 150, 600, 75),
   Row(<<"gpt", "4", "turbo">>, 10000, 30000),
   Row(<<"gpt", "4", "turbo", "2024", "04", "09">>, 10000, 30000),
   Row(<<"gpt", "4", "0125", "preview">>, 10000, 30000),
   Row(<<"gpt", "4", "1106", "preview">>, 10000, 30000), Row(<<"gpt", "4">>, 30000, 60000),
   Row(<<"gpt", "4", "0613">>, 30000, 60000), Row(<<"gpt", "3.5", "turbo">>, 500, 1500),
   Row(<<"gpt", "3.5", "turbo", "0125">>, 500, 1500),
   Row(<<"gpt", "3.5", "turbo", "1106">>, 1000, 2000),
   Row3(<<"o1">>, 15000, 60000, 7500, 60000),
   Row3(<<"o1", "2024", "12", "17">>, 15000, 60000, 7500, 60000),
   Row2(<<"o1", "mini">>, 3000, 12000, 1500),
   Row2(<<"o1", "mini", "2024", "09", "12">>, 3000, 12000, 1500),
   Row2(<<"o1", "preview">>, 15000, 60000, 7500), Row2(<<"o3", "mini">>, 1100, 4400, 550),
   Row2(<<"o3", "mini", "2025", "01", "31">>, 1100, 4400, 550),
   Row2(<<"o3">>, 10000, 40000, 2500), Row(<<"text", "embedding", "3", "small">>, 20, 0),
   Row(<<"text", "embedding", "3", "large">>, 130, 0),
   Row(<<"text", "embedding", "ada", "002">>, 100, 0)}

AnthropicPricing ==
  {Row(<<"claude", "3", "5", "sonnet", "20241022">>, 3000, 15000),
   Row(<<"claude", "3", "5", "sonnet", "20240620">>, 3000, 15000),
   Row(<<"claude", "3", "5", "haiku", "20241022">>, 800, 4000),
   Row(<<"claude", "3", "opus", "20240229">>, 15000, 75000),
   Row(<<"claude", "3", "sonnet", "20240229">>, 3000, 15000),
   Row(<<"claude", "3", "haiku", "20240307">>, 250, 1250),
   Row(<<"claude", "2.1">>, 8000, 24000), Row(<<"claude", "2.0">>, 8000, 24000),
   Row(<<"claude", "instant", "1.2">>, 800, 2400)}

GroqPricing ==
  {Row(<<"llama", "3.3", "70b", "versatile">>, 590, 790),
   Row(<<"llama", "3.3", "70b", "specdec">>, 590, 990),
   Row(<<"llama", "3.1", "70b", "versatile">>, 590, 790),
   Row(<<"llama", "3.1", "8b", "instant">>, 50, 80),
   Row(<<"llama", "3.1", "405b", "reasoning">>, 3000, 3000),
   Row(<<"llama", "3.2", "1b", "preview">>, 40, 40),
   Row(<<"llama", "3.2", "3b", "preview">>, 60, 60),
   Row(<<"llama", "3.2", "11b", "vision", "preview">>, 180, 180),
   Row(<<"llama", "3.2", "90b", "vision", "preview">>, 900, 900),
   Row(<<"llama3", "70b", "8192">>, 590, 790), Row(<<"llama3", "8b", "8192">>, 50, 80),
   Row(<<"llama3", "groq", "70b", "8192", "tool", "use", "preview">>, 890, 890),
   Row(<<"llama3", "groq", "8b", "8192", "tool", "use", "preview">>, 190, 190),
   Row(<<"mixtral", "8x7b", "32768">>, 240, 240), Row(<<"gemma", "7b", "it">>, 70, 70),
   Row(<<"gemma2", "9b", "it">>, 200, 200)}

TogetherPricing ==
  {Row(<<"meta-llama", "Llama-3.3-70B-Instruct-Turbo">>, 880, 880),
   Row(<<"meta-llama", "Llama-3.3-70B-Instruct-Turbo-Free">>, 0, 0),
   Row(<<"meta-llama", "Llama-3.2-90B-Vision-Instruct-Turbo">>, 1200, 1200),
   Row(<<"meta-llama", "Llama-3.2-11B-Vision-Instruct-Turbo">>, 180, 180),
   Row(<<"meta-llama", "Llama-3.2-3B-Instruct-Turbo">>, 60, 60),
   Row(<<"meta-llama", "Llama-3.2-1B-Instruct-Turbo">>, 40, 40),
   Row(<<"meta-llama", "Meta-Llama-3.1-405B-Instruct-Turbo">>, 3500, 3500),
   Row(<<"meta-llama", "Meta-Llama-3.1-70B-Instruct-Turbo">>, 880, 880),
   Row(<<"meta-llama", "Meta-Llama-3.1-8B-Instruct-Turbo">>, 180, 180),
   Row(<<"meta-llama", "Meta-Llama-3-70B-Instruct-Turbo">>, 880, 880),
   Row(<<"meta-llama", "Meta-Llama-3-8B-Instruct-Turbo">>, 180, 180),
   Row(<<"Qwen", "Qwen2.5-72B-Instruct-Turbo">>, 1200, 1200),
   Row(<<"Qwen", "Qwen2.5-7B-Instruct-Turbo">>, 300, 300),
   Row(<<"Qwen", "QwQ-32B-Preview">>, 1200, 1200),
   Row(<<"mistralai", "Mixtral-8x7B-Instruct-v0.1">>, 600, 600),
   Row(<<"mistralai", "Mixtral-8x22B-Instruct-v0.1">>, 1200, 1200),
   Row(<<"mistralai", "Mistral-7B-Instruct-v0.3">>, 200, 200),
   Row(<<"deepseek-ai", "DeepSeek-V3">>, 1250, 1250),
   Row(<<"deepseek-ai", "DeepSeek-R1">>, 2190, 7890),
   Row(<<"deepseek-ai", "DeepSeek-R1-Distill-Llama-70B">>, 2190, 2190),
   Row(<<"deepseek-ai", "DeepSeek-R1-Distill-Qwen-1.5B">>, 180, 180),
   Row(<<"google", "gemma-2-27b-it">>, 800, 800), Row(<<"google", "gemma-2-9b-it">>, 300, 300)}

(* Every run of Ollama is free.                                            *)
Vendors == {"openai", "anthropic", "groq", "together", "ollama"}
TableOf(v) ==
  CASE v = "openai" -> OpenAIPricing [] v = "anthropic" -> AnthropicPricing
    [] v = "groq" -> GroqPricing     [] v = "together" -> TogetherPricing
    [] v = "ollama" -> {}
Listed(v) == {r.name : r \in TableOf(v)}

-----------------------------------------------------------------------------
(* get_pricing, _get_pricing *)

(* rsplit("-", 3): the name itself, or without its last one, two or three  *)
(* parts; the longest one listed counts.  Mutant: rsplit("-", 2).          *)
WithoutDateShort(n) == {k \in Len(n) - 2 .. Len(n) : k > 0}
WithoutDate(n)      == {k \in Len(n) - 3 .. Len(n) : k > 0}

Preferred(lengths) == Max(lengths)

ByPrefix(v, n) ==
  LET listed == {k \in WithoutDate(n) : SubSeq(n, 1, k) \in Listed(v)}
  IN  IF listed = {} THEN {}
      ELSE {r \in TableOf(v) : r.name = SubSeq(n, 1, Preferred(listed))}

(* Together: the name, or what follows its first "/".                      *)
ByShortName(n) ==
  LET short == IF Len(n) > 1 THEN Tail(n) ELSE n
  IN  IF n \in Listed("together") THEN {r \in TogetherPricing : r.name = n}
      ELSE {r \in TogetherPricing : r.name = short}

(* No row, or the one row.                                                 *)
GetPricing(v, n) == IF v = "together" THEN ByShortName(n) ELSE ByPrefix(v, n)

-----------------------------------------------------------------------------
(* normalize_response *)

Absent == -1   \* the response has no such attribute

Counted(x) == IF x = None THEN 0 ELSE x

(* total_tokens is the provider's, or the sum if it has no such attribute; *)
(* Anthropic and Ollama have none and it is always the sum.                *)
TotalTokens(v, u) ==
  IF v \in {"openai", "groq", "together"} /\ u.total # Absent THEN Counted(u.total)
  ELSE Counted(u.in) + Counted(u.out)

NoUsage == [in |-> None, out |-> None, total |-> Absent, cached |-> None, reasoning |-> None]
TokenUsageOf(v, u) ==
  [in |-> Counted(u.in), out |-> Counted(u.out), total |-> TotalTokens(v, u),
   cached |-> IF v \in {"openai", "anthropic"} THEN u.cached ELSE None,
   reasoning |-> IF v = "openai" THEN u.reasoning ELSE None]

-----------------------------------------------------------------------------
(* _compute_cost *)

Zero == [in |-> 0, out |-> 0, total |-> 0, discount |-> 0, reasoning |-> 0]

NotNegative(x) == Max({0, x})

Discount(t, r) == NotNegative(Counted(t.cached) * (r.in - r.cached))

(* Reasoning tokens are among the output tokens and have a rate of their   *)
(* own in some rows.                                                       *)
RegularOutput(t) == NotNegative(t.out - t.reasoning)

(* Only OpenAI's cost looks at cached and reasoning tokens, but the other  *)
(* tables have no such rates.                                              *)
ComputeCost(t, r) ==
  LET in        == t.in * r.in
      reasons   == Counted(t.reasoning) # 0 /\ r.reasoning # None
      out       == (IF reasons THEN RegularOutput(t) ELSE t.out) * r.out
      reasoning == IF reasons THEN t.reasoning * r.reasoning ELSE 0
      discount  == IF Counted(t.cached) # 0 /\ r.cached # None THEN Discount(t, r) ELSE 0
  IN  [in |-> in, out |-> out, reasoning |-> reasoning, discount |-> discount,
       total |-> NotNegative(in + out + reasoning - discount)]

(* CostBreakdown refuses a total that is not the sum.                      *)
CostAccepted(c) == c.total - (c.in + c.out + c.reasoning - c.discount) \in -1..1

-----------------------------------------------------------------------------
(* Names and responses: listed models, later releases and variants of them *)
(* and unknown ones; a dated model of Anthropic is also called without its *)
(* date.                                                                   *)

Date         == <<"2030", "01", "01">>
ReleaseDates == {"20241022", "20240620", "20240307", "20240229"}
AliasesOf(v) ==
  {SubSeq(n, 1, Len(n) - 1) : n \in {m \in Listed(v) : m[Len(m)] \in ReleaseDates}}
Variants     == {<<"pro">>, <<"audio", "preview">>}
NamesOf(v) ==
  Listed(v) \cup AliasesOf(v) \cup {n \o s : n \in Listed(v), s \in {Date} \cup Variants}
  \cup {<<"org">> \o n : n \in IF v = "together" THEN Listed(v) ELSE {}} \cup {<<"unknown">>}

(* The total, which enters no cost, varies where the rest does not.        *)
UsagesOf(v) ==
  [in : Tokens, out : Tokens,
   total : IF v \in {"groq", "together"} THEN {Absent, None} \cup Tokens ELSE {Absent},
   cached : IF v \in {"openai", "anthropic"} THEN Tokens \cup {None} ELSE {None},
   reasoning : IF v = "openai" THEN Tokens \cup {None} ELSE {None}]

PriceInit ==
  /\ vendor \in Vendors
  /\ response \in [model : NamesOf(vendor), usage : UsagesOf(vendor) \cup {NoUsage}]
  /\ priorUsage \in BOOLEAN
  /\ priorModel = priorUsage
  /\ priced = FALSE /\ spanTokens = None /\ spanPrice = None /\ spanModel = None

(* _auto_populate_span: a usage the user set is kept, and so is a model;   *)
(* an error in between is swallowed, and the span is left as it was.       *)
PriceSpan ==
  LET tokens == TokenUsageOf(vendor, response.usage)
      rows   == GetPricing(vendor, response.model)
      cost   == IF rows = {} THEN Zero ELSE ComputeCost(tokens, CHOOSE r \in rows : TRUE)
  IN  /\ ~priced /\ priced' = TRUE
      /\ IF priorUsage \/ ~CostAccepted(cost)
           THEN UNCHANGED <<spanTokens, spanPrice, spanModel>>
           ELSE /\ spanTokens' = tokens /\ spanPrice' = cost
                /\ spanModel' = IF priorModel THEN None ELSE response.model
      /\ UNCHANGED <<vendor, response, priorUsage, priorModel>>

PriceNext == PriceSpan
PriceSpec == PriceInit /\ [][PriceNext]_priceVars

-----------------------------------------------------------------------------
(* Properties *)

(* OpenAI counts cached tokens in the input and reasoning tokens in the    *)
(* output; what Anthropic read from its cache is no part of its input, in  *)
(* any number.                                                             *)
CachedInput(v, t) == IF v = "openai" THEN Counted(t.cached) ELSE 0
WellFormed(v, t)  == CachedInput(v, t) <= t.in /\ Counted(t.reasoning) <= t.out

Rate(rate, otherwise) == IF rate = None THEN otherwise ELSE rate

(* Each input token and each output token is billed once, at the rate of   *)
(* its kind where the table has one, and no cost fails its own check.      *)
(* What Anthropic read from its cache is not billed at all, and a model    *)
(* for which no row is found is free.                                      *)
EveryTokenBilledOnce ==
  priced /\ ~priorUsage /\ WellFormed(vendor, TokenUsageOf(vendor, response.usage)) =>
    LET t == spanTokens
        c == CachedInput(vendor, spanTokens)
    IN
    /\ spanTokens # None
    /\ GetPricing(vendor, response.model) = {} => spanPrice = Zero
    /\ \A r \in GetPricing(vendor, response.model) :
         spanPrice.total = (t.in - c) * r.in + c * Rate(r.cached, r.in)
                           + (t.out - Counted(t.reasoning)) * r.out
                           + Counted(t.reasoning) * Rate(r.reasoning, r.out)

(* A listed model costs what its own row says, not what a shorter name's   *)
(* row says, and a later release of it, dated YYYY-MM-DD, costs the same.  *)
(* Of other names it says nothing: o1-pro, which is not listed, costs what *)
(* o1 does (OnlyDatesAreStripped).                                         *)
DatedReleaseCostsItsModel ==
  priced /\ spanPrice # None /\ vendor \in {"openai", "anthropic", "groq"} =>
    \A r \in TableOf(vendor) :
      response.model \in {r.name, r.name \o Date} =>
        /\ spanPrice.in = spanTokens.in * r.in
        /\ Counted(spanTokens.reasoning) = 0 => spanPrice.out = spanTokens.out * r.out

(* A response costs its input and output tokens, each once, at the rates   *)
(* of its own model if that is listed.                                     *)
EachTokenAtItsRate == EveryTokenBilledOnce /\ DatedReleaseCostsItsModel

(* _get_pricing of Anthropic: "claude-3-5-sonnet" matches                  *)
(* "claude-3-5-sonnet-20241022".  Not so: it finds no row and is free.     *)
AliasIsPriced ==
  priced /\ spanPrice # None /\ response.model \in AliasesOf(vendor) =>
    spanPrice.in > 0 \/ spanTokens.in = 0

(* get_pricing of OpenAI "falls back to stripping trailing date suffixes". *)
(* Not so: it strips any suffix, and a variant costs what another model    *)
(* does.                                                                   *)
OnlyDatesAreStripped ==
  priced /\ spanPrice # None /\ vendor = "openai" =>
    \/ \E n \in Listed(vendor) : response.model \in {n, n \o Date}
    \/ spanPrice = Zero
=============================================================================
