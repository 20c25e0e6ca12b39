---------------------------- MODULE PromptCaller ----------------------------
(***************************************************************************)
(* The function `prompt_<name>` that is emitted for every declared prompt, *)
(* with what it calls: the router, the prompt cache, the per-trace budget  *)
(* tracker, the bounded tool loop and the repair prompt.                   *)
(*                                                                         *)
(* Several invocations run at the same time in one Node process.  They     *)
(* share the cache and, when the caller passes `ctx.budget`, the tracker   *)
(* of their trace.  An invocation gives up the processor at every await;   *)
(* one action below is what runs between two awaits that other invocations *)
(* can notice.  Spans, counters and logs are left out: writeSpan() never   *)
(* throws and nothing reads them back.                                     *)
(***************************************************************************)
EXTENDS Naturals, Sequences

CONSTANTS
    Calls,          \* invocations of prompts
    Configs,        \* the prompts: records, see ConfigType
    Inputs,         \* values of the routing key; None stands for NaN
    Models, None,
    Tiers,          \* the router's tiers: Seq([max : Nat \cup {None}, model : Models])
    FallbackModel,  \* the router's fallback model, or None
    Estimate,       \* [Models -> Nat]: prompt tokens + maxOutput
    Rate,           \* [Models -> Nat]: price of a token in the model's cost class
    TokenLimit,     \* LLM_BUDGET_TOKENS_PER_TRACE
    UsdLimit,       \* LLM_BUDGET_USD_PER_TRACE, in the unit of Rate
    ToolLimit,      \* LLM_TOOL_CALL_MAX
    Trace           \* the tracker that a caller shares between its calls

(* What a prompt declares.  `model` is None for a routed prompt; `json`    *)
(* says that its output type needs JSON; `gated` that its router has a     *)
(* confidence threshold; `shared` that the caller passes ctx.budget.       *)
ConfigType ==
    [model : Models \cup {None}, onInvalid : {"fail", "retry", "repair", "escalate"},
     attempts : Nat \ {0}, cached : BOOLEAN, tools : BOOLEAN, json : BOOLEAN,
     gated : BOOLEAN, shared : BOOLEAN]

(* The type checker refuses a router without a tier or without a last      *)
(* default tier (T026), a prompt without model and router (T022).          *)
ASSUME PromptAssumption ==
    /\ Configs \subseteq ConfigType
    /\ Inputs \subseteq Nat \cup {None}
    /\ Tiers \in Seq([max : Nat \cup {None}, model : Models])
    /\ Len(Tiers) > 0 /\ Tiers[Len(Tiers)].max = None
    /\ FallbackModel \in Models \cup {None}
    /\ Estimate \in [Models -> Nat \ {0}] /\ Rate \in [Models -> Nat]
    /\ TokenLimit \in Nat /\ UsdLimit \in Nat /\ ToolLimit \in Nat \ {0}
    /\ Trace \notin Calls /\ None \notin Models

VARIABLES
    call,    \* the local variables of every invocation
    cache,   \* the prompt cache: [Keys -> Values \cup {None}]
    tokens,  \* StandardBudget._tokens of every tracker
    usd,     \* StandardBudget._usd of every tracker
    did,     \* history: the provider calls, tool runs and charges of a call
    slack    \* history: spending of a tracker that no check could foresee

vars == <<call, cache, tokens, usd, did, slack>>
money == <<tokens, usd, slack>>

Values == {"good", "bad"}
Keys == Configs \X Models \X Inputs
Trackers == Calls \cup {Trace}

(* What chat() of an adapter can come back with, for a tool-free answer:   *)
(* the shape of the text, a confidence below the threshold or not (or no   *)
(* confidence at all), and the usage: absent, less than the estimate, or   *)
(* more, as after tool turns or when the prompt was underestimated.        *)
Answers(m) ==
    [text : {"clean", "prose", "wrong", "garbage"}, low : BOOLEAN,
     usage : {0, 1, Estimate[m], Estimate[m] + 1}]

(* route(): the first tier whose threshold the value does not exceed; NaN  *)
(* and everything above the last threshold end in the default tier.        *)
Route(value) ==
    LET matches(i) == \/ Tiers[i].max = None
                      \/ value # None /\ value <= Tiers[i].max
    IN  CHOOSE i \in 1 .. Len(Tiers) :
            matches(i) /\ \A j \in 1 .. i - 1 : ~ matches(j)

(* What the text of an answer parses to, or None when parsing throws.  The *)
(* structured parser finds JSON in fences and prose; parseModelOutput(),   *)
(* all that the repair and the fallback have, does not.  A text that is    *)
(* not JSON is a value that does not validate for the other output types.  *)
Parse(json, structured, text) ==
    CASE text = "clean" -> "good"
      [] text = "wrong" -> "bad"
      [] text = "prose" -> IF json /\ ~ structured THEN None ELSE "good"
      [] OTHER -> IF json THEN None ELSE "bad"

TrackerOf(r, c) == IF r.cfg.shared THEN Trace ELSE c

-----------------------------------------------------------------------------
(* assertCanSpend(): a check only, it reserves nothing.                    *)
CanSpend(k, n, m) ==
    /\ tokens[k] + n <= TokenLimit
    /\ usd[k] + n * Rate[m] <= UsdLimit

(* What an invocation saw of its tracker when it was checked.              *)
Seen(k) == [tokens |-> tokens[k], usd |-> usd[k]]

(* charge() of n tokens of model m, and the part of it that the check of   *)
(* `est` tokens against `seen` did not foresee: what others have charged   *)
(* in between, and what goes beyond the estimate.                          *)
Charge(k, n, m, seen, est) ==
    LET beyond == IF n > est THEN n - est ELSE 0
    IN  /\ tokens' = [tokens EXCEPT ![k] = @ + n]
        /\ usd' = [usd EXCEPT ![k] = @ + n * Rate[m]]
        /\ slack' = [slack EXCEPT
               ![k].tokens = @ + (tokens[k] - seen.tokens) + beyond,
               ![k].usd = @ + (usd[k] - seen.usd) + beyond * Rate[m]]

(* After the last attempt: the router's fallback model, unless it is the   *)
(* model that just failed.                                                 *)
Exhausted(r) ==
    IF r.cfg.model = None /\ FallbackModel # None /\ FallbackModel # r.model
    THEN [r EXCEPT !.pc = "fallback"]
    ELSE [r EXCEPT !.pc = "failed"]

(* Mutant of NextAttempt: the bound of the retry loop is off by one.       *)
NextAttemptOffByOne(r) ==
    IF r.attempt <= r.cfg.attempts
    THEN [r EXCEPT !.pc = "attempt", !.attempt = @ + 1]
    ELSE Exhausted(r)

NextAttempt(r) ==
    IF r.attempt < r.cfg.attempts
    THEN [r EXCEPT !.pc = "attempt", !.attempt = @ + 1]
    ELSE Exhausted(r)

(* The catch block of an attempt.  `issues`: the error carries validation  *)
(* issues, so it is a validation or a low-confidence failure.              *)
Recover(r, issues) ==
    CASE r.cfg.onInvalid = "retry" -> NextAttempt(r)
      [] r.cfg.onInvalid = "repair" /\ issues -> [r EXCEPT !.pc = "repair"]
      [] r.cfg.onInvalid = "repair" /\ ~ issues -> NextAttempt(r)
      [] r.cfg.onInvalid = "escalate" /\ r.tier \in 1 .. Len(Tiers) - 1 ->
            NextAttempt([r EXCEPT !.tier = @ + 1, !.model = Tiers[r.tier + 1].model])
      [] OTHER -> [r EXCEPT !.pc = "failed"]

-----------------------------------------------------------------------------
Idle(cfg, input) ==
    [cfg |-> cfg, input |-> input, pc |-> "idle", tier |-> 0, model |-> None,
     first |-> None, attempt |-> 1, turn |-> 0, result |-> None,
     seen |-> [tokens |-> 0, usd |-> 0]]

Init ==
    /\ call \in [Calls -> {Idle(cfg, input) : cfg \in Configs, input \in Inputs}]
    /\ cache = [k \in Keys |-> None]
    /\ tokens = [k \in Trackers |-> 0]
    /\ usd = [k \in Trackers |-> 0]
    /\ did = [c \in Calls |-> [chats |-> 0, tools |-> 0, charges |-> 0]]
    /\ slack = [k \in Trackers |-> [tokens |-> 0, usd |-> 0]]

(* The call chooses its model, and the cache key that goes with it, once.  *)
Invoke(c) ==
    /\ call[c].pc = "idle"
    /\ LET cfg == call[c].cfg
           tier == IF cfg.model = None THEN Route(call[c].input) ELSE 0
           model == IF tier = 0 THEN cfg.model ELSE Tiers[tier].model
       IN  call' = [call EXCEPT ![c].pc = IF cfg.cached THEN "lookup" ELSE "attempt",
                                ![c].tier = tier, ![c].model = model, ![c].first = model]
    /\ UNCHANGED <<cache, money, did>>

KeyOf(r) == <<r.cfg, r.first, r.input>>

(* Mutant of Lookup: a miss waits for another call to fill the entry.      *)
LookupAwaitsFill(c) ==
    /\ call[c].pc = "lookup"
    /\ LET hit == cache[KeyOf(call[c])]
       IN  call' = [call EXCEPT ![c].result = hit,
                                ![c].pc = IF hit = None THEN "idle" ELSE "hit"]
    /\ UNCHANGED <<cache, money, did>>

(* cache.get(): a hit is returned as it is, without budget or validation.  *)
Lookup(c) ==
    /\ call[c].pc = "lookup"
    /\ LET hit == cache[KeyOf(call[c])]
       IN  call' = [call EXCEPT ![c].result = hit,
                                ![c].pc = IF hit = None THEN "attempt" ELSE "hit"]
    /\ UNCHANGED <<cache, money, did>>

(* The TTL of an entry passes; get() does not see it any more.             *)
Expire(k) ==
    /\ cache[k] # None
    /\ cache' = [cache EXCEPT ![k] = None]
    /\ UNCHANGED <<call, money, did>>

(* An attempt begins: the estimate was made for the first model and is not *)
(* made again after an escalation, the cost class is the current one's.  A *)
(* refusal by the tracker is final.                                        *)
Attempt(c) ==
    /\ call[c].pc = "attempt"
    /\ LET r == call[c]
           k == TrackerOf(r, c)
       IN  IF CanSpend(k, Estimate[r.first], r.model)
           THEN /\ call' = [call EXCEPT ![c].pc = "chat", ![c].turn = 0, ![c].seen = Seen(k)]
                /\ did' = [did EXCEPT ![c].chats = @ + 1]
           ELSE /\ call' = [call EXCEPT ![c].pc = "broke"]
                /\ UNCHANGED did
    /\ UNCHANGED <<cache, money>>

(* The provider fails, answers with an error status or is aborted by the   *)
(* timeout of the attempt or by the caller.                                *)
ProviderFails(c) ==
    /\ call[c].pc = "chat"
    /\ call' = [call EXCEPT ![c] = Recover(@, FALSE)]
    /\ UNCHANGED <<cache, money, did>>

(* Mutant of ToolTurn: the tool calls of earlier turns are not counted.    *)
ToolTurnUncounted(c, n) ==
    /\ call[c].pc = "chat" /\ call[c].cfg.tools
    /\ IF n > ToolLimit
       THEN call' = [call EXCEPT ![c] = Recover(@, FALSE)] /\ UNCHANGED did
       ELSE /\ did' = [did EXCEPT ![c].chats = @ + 1, ![c].tools = @ + n]
            /\ UNCHANGED call
    /\ UNCHANGED <<cache, money>>

(* The answer asks for n tools.  They are run one after the other, what    *)
(* fails becomes a result for the model, and the provider is asked again;  *)
(* more of them than the limit allows end the attempt before any is run.   *)
ToolTurn(c, n) ==
    /\ call[c].pc = "chat" /\ call[c].cfg.tools
    /\ IF call[c].turn + n > ToolLimit
       THEN call' = [call EXCEPT ![c] = Recover(@, FALSE)] /\ UNCHANGED did
       ELSE /\ call' = [call EXCEPT ![c].turn = @ + n]
            /\ did' = [did EXCEPT ![c].chats = @ + 1, ![c].tools = @ + n]
    /\ UNCHANGED <<cache, money>>

(* A final answer: parsed, held against the threshold, validated.  Only an *)
(* answer that passes is charged; a usage of 0 is charged as the estimate. *)
FinalAnswer(c, a) ==
    LET r == call[c]
        value == Parse(r.cfg.json, TRUE, a.text)
        est == Estimate[r.first]
    IN  /\ r.pc = "chat"
        /\ IF value = "good" /\ ~ (r.cfg.gated /\ a.low)
           THEN /\ Charge(TrackerOf(r, c), IF a.usage = 0 THEN est ELSE a.usage,
                          r.model, r.seen, est)
                /\ did' = [did EXCEPT ![c].charges = @ + 1]
                /\ call' = [call EXCEPT ![c].result = value,
                                        ![c].pc = IF r.cfg.cached THEN "put" ELSE "done"]
           ELSE /\ call' = [call EXCEPT ![c] = Recover(r, value # None)]
                /\ UNCHANGED <<money, did>>
        /\ UNCHANGED cache

(* cache.put() under the key of the first model; its failure is swallowed. *)
Put(c) ==
    /\ call[c].pc = "put"
    /\ \/ cache' = [cache EXCEPT ![KeyOf(call[c])] = call[c].result]
       \/ UNCHANGED cache
    /\ call' = [call EXCEPT ![c].pc = "done"]
    /\ UNCHANGED <<money, did>>

(* Mutant of Repair: the repaired output is accepted as it comes.          *)
RepairUnchecked(c, a) ==
    LET r == call[c]
        k == TrackerOf(r, c)
    IN  /\ r.pc = "repair"
        /\ Charge(k, a.usage, r.model, Seen(k), 0)
        /\ did' = [did EXCEPT ![c].charges = @ + 1, ![c].chats = @ + 1]
        /\ call' = [call EXCEPT ![c].pc = "done", ![c].result = Parse(FALSE, FALSE, a.text)]
        /\ UNCHANGED cache

(* REPAIRS[prompt](): one call without budget check; the output is parsed  *)
(* and validated again, charged when it passes, and never cached.          *)
Repair(c, a) ==
    LET r == call[c]
        k == TrackerOf(r, c)
        value == Parse(r.cfg.json, FALSE, a.text)
    IN  /\ r.pc = "repair"
        /\ IF value = "good"
           THEN /\ Charge(k, a.usage, r.model, Seen(k), 0)
                /\ did' = [did EXCEPT ![c].charges = @ + 1, ![c].chats = @ + 1]
                /\ call' = [call EXCEPT ![c].pc = "done", ![c].result = value]
           ELSE /\ call' = [call EXCEPT ![c] = NextAttempt(r)]
                /\ did' = [did EXCEPT ![c].chats = @ + 1]
                /\ UNCHANGED money
        /\ UNCHANGED cache

RepairFails(c) ==
    /\ call[c].pc = "repair"
    /\ call' = [call EXCEPT ![c] = NextAttempt(@)]
    /\ did' = [did EXCEPT ![c].chats = @ + 1]
    /\ UNCHANGED <<cache, money>>

(* Mutant of Fallback: the fallback is asked without the budget check.     *)
FallbackUnchecked(c) ==
    /\ call[c].pc = "fallback"
    /\ call' = [call EXCEPT ![c].pc = "fbchat", ![c].seen = Seen(TrackerOf(call[c], c))]
    /\ did' = [did EXCEPT ![c].chats = @ + 1]
    /\ UNCHANGED <<cache, money>>

(* The one attempt on the fallback model, if the budget allows it.  When   *)
(* it does not, the error of the last attempt is thrown, not this one.     *)
Fallback(c) ==
    /\ call[c].pc = "fallback"
    /\ LET k == TrackerOf(call[c], c)
       IN  IF CanSpend(k, Estimate[FallbackModel], FallbackModel)
           THEN /\ call' = [call EXCEPT ![c].pc = "fbchat", ![c].seen = Seen(k)]
                /\ did' = [did EXCEPT ![c].chats = @ + 1]
           ELSE /\ call' = [call EXCEPT ![c].pc = "failed"]
                /\ UNCHANGED did
    /\ UNCHANGED <<cache, money>>

(* Its answer is validated, but neither held against the threshold nor     *)
(* cached, and tools are not offered.                                      *)
FallbackAnswer(c, a) ==
    LET r == call[c]
        value == Parse(r.cfg.json, FALSE, a.text)
        est == Estimate[FallbackModel]
    IN  /\ r.pc = "fbchat"
        /\ IF value = "good"
           THEN /\ Charge(TrackerOf(r, c), IF a.usage = 0 THEN est ELSE a.usage,
                          FallbackModel, r.seen, est)
                /\ did' = [did EXCEPT ![c].charges = @ + 1]
                /\ call' = [call EXCEPT ![c].pc = "done", ![c].result = value]
           ELSE /\ call' = [call EXCEPT ![c].pc = "failed"]
                /\ UNCHANGED <<money, did>>
        /\ UNCHANGED cache

FallbackFails(c) ==
    /\ call[c].pc = "fbchat"
    /\ call' = [call EXCEPT ![c].pc = "failed"]
    /\ UNCHANGED <<cache, money, did>>

Step(c) ==
    \/ Invoke(c) \/ Lookup(c) \/ Attempt(c) \/ Put(c) \/ Fallback(c)
    \/ ProviderFails(c) \/ RepairFails(c) \/ FallbackFails(c)
    \/ \E n \in 1 .. ToolLimit + 1 : ToolTurn(c, n)
    \/ \E m \in Models : \E a \in Answers(m) :
          \/ m = call[c].model /\ (FinalAnswer(c, a) \/ Repair(c, a))
          \/ m = FallbackModel /\ FallbackAnswer(c, a)

Over(r) == r.pc \in {"hit", "done", "failed", "broke"}

AllOver == (\A c \in Calls : Over(call[c])) /\ UNCHANGED vars

Next == (\E c \in Calls : Step(c)) \/ (\E k \in Keys : Expire(k)) \/ AllOver

(* An invocation does not stop on its own: every await is on a promise     *)
(* that settles, a chat at the latest when the timer of the attempt aborts *)
(* it.  Nothing is assumed about when entries expire.                      *)
Fairness == \A c \in Calls : WF_vars(Step(c))

Spec == Init /\ [][Next]_vars /\ Fairness

-----------------------------------------------------------------------------
(* The types of the variables.                                             *)
CallType ==
    [cfg : Configs, input : Inputs, tier : 0 .. Len(Tiers), model : Models \cup {None},
     pc : {"idle", "lookup", "attempt", "chat", "put", "repair", "fallback", "fbchat",
           "hit", "done", "failed", "broke"},
     first : Models \cup {None}, attempt : Nat, turn : Nat,
     result : Values \cup {None}, seen : [tokens : Nat, usd : Nat]]

TypeOK ==
    /\ call \in [Calls -> CallType]
    /\ cache \in [Keys -> Values \cup {None}]
    /\ tokens \in [Trackers -> Nat] /\ usd \in [Trackers -> Nat]
    /\ did \in [Calls -> [chats : Nat, tools : Nat, charges : Nat]]
    /\ slack \in [Trackers -> [tokens : Nat, usd : Nat]]

(* Whatever way an answer takes to the caller - first attempt, later one,  *)
(* cache, repair, escalation, fallback - it has passed the validator the   *)
(* prompt declares (emit_cognition.ts 1023-1047, 1195, 1353).              *)
AnswersAreValid ==
    \A c \in Calls : call[c].pc \in {"hit", "done"} => call[c].result = "good"

(* The ceilings of a trace are exceeded by no more than what its checks    *)
(* could not see: charges of other calls between a check and the charge it *)
(* stands for, usage above the estimate (which an escalated model, a tool  *)
(* conversation or a prompt that was underestimated can have), and         *)
(* repairs.  Nothing else spends over a ceiling.                           *)
OverspendAccounted ==
    \A k \in Trackers : /\ tokens[k] <= TokenLimit + slack[k].tokens
                        /\ usd[k] <= UsdLimit + slack[k].usd

(* Retries, tool turns, repairs and the fallback together stay within what *)
(* the configuration says ("unbounded recursion" is ruled out, line 15),   *)
(* and an invocation is charged once at most.                              *)
WorkIsBounded ==
    \A c \in Calls :
        LET cfg == call[c].cfg
            turns == IF cfg.tools THEN ToolLimit + 1 ELSE 1
            repairs == IF cfg.onInvalid = "repair" THEN 1 ELSE 0
        IN  /\ did[c].tools <= cfg.attempts * ToolLimit
            /\ did[c].chats <= cfg.attempts * (turns + repairs) + 1
            /\ did[c].charges <= 1

(* Every invocation ends, in an answer, an error or a refusal.             *)
EveryCallEnds == \A c \in Calls : <>Over(call[c])

=============================================================================
