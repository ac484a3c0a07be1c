----------------------------- MODULE ModelBroker -----------------------------
(***************************************************************************)
(* The model broker (model.rs of both crates): a completion request is     *)
(* held against the budget in its headers for every configured provider,   *)
(* routed by the planner to one of those that pass, joined by the result   *)
(* of a tool if it asks for one, and sent.                                 *)
(*                                                                         *)
(* A message list is its estimate in tokens.  The aliases of the providers *)
(* are 1, 2 and so on; `auto' is the request that leaves the choice open.  *)
(* Prices are micros per token.                                            *)
(***************************************************************************)
EXTENDS Routes

CONSTANTS
    Aliases,
    Catalogs,   \* what can be configured: for every alias a provider
    Budgets,    \* what the headers of a request can say
    AnyModel,   \* the model name "auto"
    Natives,    \* the names that providers have for their models
    MaxTokens   \* the most that a request, or the result of a tool, has

BrokerTerms == Metrics = {"cost", "exposure"} /\ AnyModel \notin Aliases \cup Natives

BrokerValues ==
    /\ MaxMetric >= 5 /\ MaxTokens \in Nat
    /\ Aliases \subseteq Nat \ {0} /\ IsFiniteSet(Aliases)
    /\ \A c \in Catalogs, a \in Aliases :
          {c[a].inputPrice, c[a].outputPrice, c[a].contextLimit, c[a].maxOutput} \subseteq Nat
    /\ \A b \in Budgets :
          {b.maxInput, b.maxOutput, b.money, b.deadline, b.rounds} \subseteq Nat

ToolModes == {"off", "transparent", "lease"}
Commands == {"none", "unknown", "read_only", "write", "oversized"}

VARIABLES
    catalog, budget, model, input, output, mode, command,   \* the request
    phase,      \* "routing", "tool", "provider", "answered", "refused", "failed"
    chosen,     \* the alias that the planner selected
    result,     \* tokens of the tool's result, 0 without one
    sent        \* tokens that were sent to the provider

request == <<catalog, budget, model, input, output, mode, command>>
vars == <<request, phase, chosen, result, sent>>

-----------------------------------------------------------------------------
(* Routing                                                                 *)

EstimateCost(in, out, provider) == in * provider.inputPrice + out * provider.outputPrice

\* An empty allowlist lists everything.
Lists(list, name) == list = {} \/ name \in list

\* Mutant: the limit of the model's context is left to the provider.
EnforceBudgetNoContext(provider, in, out) ==
    /\ Lists(budget.providers, provider.name) /\ Lists(budget.models, provider.native)
    /\ in <= budget.maxInput
    /\ out <= budget.maxOutput
    /\ budget.deadline > 0
    /\ mode # "off" => budget.rounds > 0
    /\ EstimateCost(in, out, provider) <= budget.money

EnforceBudget(provider, in, out) ==
    /\ Lists(budget.providers, provider.name) /\ Lists(budget.models, provider.native)
    /\ in <= budget.maxInput /\ in <= provider.contextLimit
    /\ out <= budget.maxOutput
    /\ budget.deadline > 0
    /\ mode # "off" => budget.rounds > 0
    /\ EstimateCost(in, out, provider) <= budget.money

\* A provider goes by its alias, by the provider's own name for the model, or by "auto".
NameMatches(alias) == model \in {AnyModel, alias, catalog[alias].native}

Passes(alias) ==
    /\ NameMatches(alias)
    /\ output <= catalog[alias].maxOutput
    /\ EnforceBudget(catalog[alias], input, output)

Capped(n) == IF n > MaxMetric THEN MaxMetric ELSE n

Candidate(alias) ==
    LET provider == catalog[alias] IN
    [id |-> alias,
     allowed |-> Passes(alias),
     rejections |-> IF Passes(alias) THEN <<>> ELSE <<1>>,
     metric |-> [cost |-> Capped(provider.inputPrice + provider.outputPrice),
                 exposure |-> IF provider.name = "fixture" THEN 0 ELSE 1],
     loss |-> 0]

\* The weights of execute in tens: 30 for the cost, 50 for the exposure; nothing is lost.
Weights == [t \in Terms |-> IF t = "cost" THEN 3 ELSE 5]

Route ==
    LET plan == Decide(SetToSeq({Candidate(a) : a \in Aliases}), Weights) IN
    /\ phase = "routing"
    /\ IF output > 0 /\ plan.status = "selected"
       THEN phase' = "tool" /\ chosen' = plan.selected
       ELSE phase' = "refused" /\ UNCHANGED chosen
    /\ UNCHANGED <<request, result, sent>>

-----------------------------------------------------------------------------
(* The tool                                                                *)

\* maybe_execute_tool: at most one, read-only, of a bounded result.  A lease for just this
\* tool is issued in lease mode, and authorizes it.
MaybeExecuteTool ==
    /\ phase = "tool"
    /\ CASE mode = "off" \/ command = "none" ->
              result' = 0 /\ phase' = "provider"
         [] mode # "off" /\ command = "read_only" ->
              \/ result' \in 1..MaxTokens /\ phase' = "provider"
              \/ result' = 0 /\ phase' = "refused"
         [] OTHER ->
              result' = 0 /\ phase' = "refused"
    /\ UNCHANGED <<request, chosen, sent>>

\* The provider is called with the messages and the result, and answers in time, fails or
\* runs out of the deadline.
Complete ==
    /\ phase = "provider"
    /\ sent' = input + result
    /\ phase' \in {"answered", "failed"}
    /\ UNCHANGED <<request, chosen, result>>

-----------------------------------------------------------------------------
Init ==
    /\ catalog \in Catalogs
    /\ budget \in Budgets
    /\ model \in Aliases \cup Natives \cup {AnyModel}
    /\ input \in 0..MaxTokens /\ output \in 0..MaxTokens
    /\ mode \in ToolModes /\ command \in Commands
    /\ command # "none" => input > 0
    /\ phase = "routing" /\ chosen = 0 /\ result = 0 /\ sent = 0

Next == Route \/ MaybeExecuteTool \/ Complete

Spec == Init /\ [][Next]_vars

-----------------------------------------------------------------------------
\* A provider that the request as it came may be given to: it is asked for, within its
\* own limits, and within what the caller would spend.
Affordable(alias) ==
    LET provider == catalog[alias] IN
    /\ model \in {AnyModel, alias, provider.native}
    /\ budget.providers = {} \/ provider.name \in budget.providers
    /\ budget.models = {} \/ provider.native \in budget.models
    /\ output \in 1..provider.maxOutput /\ output <= budget.maxOutput
    /\ input <= provider.contextLimit /\ input <= budget.maxInput
    /\ input * provider.inputPrice + output * provider.outputPrice <= budget.money
    /\ budget.deadline # 0
    /\ mode = "off" \/ budget.rounds # 0

\* A request reaches a provider it can afford, unless it has none; of those no other is
\* as little exposed and cheaper.
RoutedToBest ==
    /\ phase \in {"tool", "provider", "answered", "failed"} =>
          /\ Affordable(chosen)
          /\ \A other \in Aliases : Affordable(other) /\ catalog[other].name = catalog[chosen].name =>
                Candidate(chosen).metric["cost"] <= Candidate(other).metric["cost"]
    /\ phase = "refused" /\ chosen = 0 => ~\E a \in Aliases : Affordable(a)

\* The hard checks on tokens and money hold for what a provider is sent.  Not kept, and
\* checked by no run: the result of a tool joins the messages after the checks.
SentWithinBudget ==
    phase \in {"answered", "failed"} =>
        /\ sent <= budget.maxInput /\ sent <= catalog[chosen].contextLimit
        /\ EstimateCost(sent, output, catalog[chosen]) <= budget.money
=============================================================================
