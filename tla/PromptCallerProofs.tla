------------------------- MODULE PromptCallerProofs -------------------------
(***************************************************************************)
(* Proofs about PromptCaller for any invocations, prompts, models, tiers,  *)
(* prices and limits.                                                      *)
(***************************************************************************)
EXTENDS PromptCaller, SequenceTheorems, WellFoundedInduction, TLAPS

\* An invocation that has chosen its model.
Routed(r) == r.pc # "idle" => r.model \in Models /\ r.first \in Models

\* What is true of an invocation apart from its work and its money: a result
\* that is about to be cached or returned has been validated.
Sound(r) ==
  /\ r \in CallType /\ Routed(r)
  /\ r.pc \in {"put", "hit", "done"} => r.result = "good"
  /\ r.pc \in {"fallback", "fbchat"} => FallbackModel \in Models

Money == [tokens : Nat, usd : Nat]

MoneyOK ==
  /\ tokens \in [Trackers -> Nat] /\ usd \in [Trackers -> Nat]
  /\ slack \in [Trackers -> Money]

\* A provider call in flight was within both ceilings when it was checked, and
\* its tracker, now at t tokens and u of money, has not gone down since.
Covered(r, t, u, est, m) ==
  /\ r.seen.tokens + est <= TokenLimit /\ r.seen.tokens <= t
  /\ r.seen.usd + est * Rate[m] <= UsdLimit /\ r.seen.usd <= u

InFlight(r, t, u) ==
  /\ r.pc = "chat" => Covered(r, t, u, Estimate[r.first], r.model)
  /\ r.pc = "fbchat" => Covered(r, t, u, Estimate[FallbackModel], FallbackModel)

Turns(cfg) == IF cfg.tools THEN ToolLimit + 1 ELSE 1
PerAttempt(cfg) == Turns(cfg) + IF cfg.onInvalid = "repair" THEN 1 ELSE 0

\* The work of an invocation so far: the attempts that are over, each at its
\* most, and what the present one has done.
Worked(r, d) ==
  LET before == (r.attempt - 1) * PerAttempt(r.cfg)
      tools == (r.attempt - 1) * ToolLimit
  IN  /\ r.attempt \in 1 .. r.cfg.attempts
      /\ r.pc \in {"idle", "lookup", "attempt", "hit"} => d.chats <= before /\ d.tools <= tools
      /\ r.pc = "chat" => /\ d.chats <= before + 1 + r.turn /\ d.tools <= tools + r.turn
                          /\ r.turn <= IF r.cfg.tools THEN ToolLimit ELSE 0
      /\ r.pc = "repair" => d.chats <= before + Turns(r.cfg) /\ r.cfg.onInvalid = "repair"
      /\ r.pc \in {"put", "fallback"} => d.chats <= before + PerAttempt(r.cfg)
      /\ r.pc \in {"fbchat", "done", "failed", "broke"} =>
            d.chats <= before + PerAttempt(r.cfg) + 1
      /\ d.tools <= tools + ToolLimit
      /\ d.charges = IF r.pc \in {"put", "done"} THEN 1 ELSE 0

DidType == [chats : Nat, tools : Nat, charges : Nat]

Invocations ==
  /\ call \in [Calls -> CallType] /\ did \in [Calls -> DidType]
  /\ \A c \in Calls :
        LET k == TrackerOf(call[c], c)
        IN  /\ Sound(call[c]) /\ Worked(call[c], did[c])
            /\ InFlight(call[c], tokens[k], usd[k])

IInv ==
  /\ Invocations
  /\ cache \in [Keys -> {None, "good"}]
  /\ MoneyOK /\ OverspendAccounted

-----------------------------------------------------------------------------
(* Constants and operators *)

\* A nonempty set of naturals has a least element.
LEMMA LeastNatural ==
  ASSUME NEW S \in SUBSET Nat, S # {}
  PROVE  \E i \in S : \A j \in S : i <= j
<1>1. IsWellFoundedOn(OpToRel(<, Nat), Nat)
  BY NatLessThanWellFounded
<1>2. PICK i \in S : \A j \in S : <<j, i>> \notin OpToRel(<, Nat)
  BY <1>1, WFMin
<1>3. \A j \in S : ~(j < i)
  BY <1>2 DEF OpToRel
<1>4. \A j \in S : i \in Nat /\ j \in Nat
  OBVIOUS
<1>5. QED
  BY <1>3, <1>4

\* The router always finds a tier, as the last one is a default tier.
LEMMA RouteInTiers ==
  ASSUME NEW value \in Inputs
  PROVE  Route(value) \in 1 .. Len(Tiers)
<1> DEFINE matches(i) == Tiers[i].max = None \/ (value # None /\ value <= Tiers[i].max)
<1> DEFINE S == {i \in 1 .. Len(Tiers) : matches(i)}
<1>1. Len(Tiers) \in S /\ S \in SUBSET Nat
  BY PromptAssumption
<1>2. PICK i \in S : \A j \in S : i <= j
  BY <1>1, LeastNatural
<1>3. i \in 1 .. Len(Tiers) /\ matches(i) /\ \A j \in 1 .. i - 1 : ~matches(j)
  BY <1>1, <1>2
<1>4. \E t \in 1 .. Len(Tiers) : matches(t) /\ \A j \in 1 .. t - 1 : ~matches(j)
  BY <1>3
<1> HIDE DEF matches, S
<1>5. (CHOOSE t \in 1 .. Len(Tiers) : matches(t) /\ \A j \in 1 .. t - 1 : ~matches(j))
        \in 1 .. Len(Tiers)
  BY <1>4
<1>6. QED
  BY <1>5 DEF Route, matches

\* The model of a tier.
LEMMA TierModel ==
  ASSUME NEW i \in 1 .. Len(Tiers)
  PROVE  Tiers[i].model \in Models
<1> DEFINE Tier == [max : Nat \cup {None}, model : Models]
<1>1. Tiers \in Seq(Tier)
  BY PromptAssumption
<1> HIDE DEF Tier
<1>2. Tiers[i] \in Tier
  BY <1>1, ElementOfSeq
<1>3. QED
  BY <1>2 DEF Tier

\* What a prompt declares, and the bounds that follow from it.
LEMMA ConfigFacts ==
  ASSUME NEW cfg \in Configs
  PROVE  /\ cfg \in ConfigType
         /\ cfg.attempts \in Nat \ {0} /\ cfg.model \in Models \cup {None}
         /\ cfg.tools \in BOOLEAN
         /\ Turns(cfg) \in Nat \ {0} /\ PerAttempt(cfg) \in Nat \ {0}
         /\ Turns(cfg) <= PerAttempt(cfg)
         /\ cfg.onInvalid = "repair" => PerAttempt(cfg) = Turns(cfg) + 1
<1>1. cfg \in ConfigType
  BY PromptAssumption
<1>2. cfg.attempts \in Nat \ {0} /\ cfg.model \in Models \cup {None} /\ cfg.tools \in BOOLEAN
  BY <1>1 DEF ConfigType
<1>3. Turns(cfg) \in Nat \ {0}
  BY PromptAssumption DEF Turns
<1>4. QED
  BY <1>1, <1>2, <1>3 DEF PerAttempt

\* The next attempt, the fallback or the end of the attempts.
LEMMA NextAttemptFacts ==
  ASSUME NEW r, Sound(r), r.attempt \in 1 .. r.cfg.attempts, r.pc # "idle"
  PROVE  LET q == NextAttempt(r)
         IN  /\ Sound(q) /\ q.cfg = r.cfg /\ q.turn = r.turn
             /\ q.pc \in {"attempt", "fallback", "failed"}
             /\ q.pc = "attempt" => q.attempt = r.attempt + 1 /\ q.attempt <= r.cfg.attempts
             /\ q.pc # "attempt" => q.attempt = r.attempt
<1>1. r \in CallType /\ r.model \in Models /\ r.first \in Models
  BY DEF Sound, Routed
<1>2. r.cfg.attempts \in Nat \ {0} /\ r.attempt \in Nat /\ r.attempt + 1 \in Nat
  BY <1>1, ConfigFacts DEF CallType
<1>3. CASE r.attempt < r.cfg.attempts
  <2> DEFINE q == [r EXCEPT !.pc = "attempt", !.attempt = @ + 1]
  <2>1. NextAttempt(r) = q
    BY <1>3 DEF NextAttempt
  <2>2. /\ q.pc = "attempt" /\ q.attempt = r.attempt + 1 /\ q.cfg = r.cfg /\ q.turn = r.turn
        /\ q.model = r.model /\ q.first = r.first /\ q \in CallType
    BY <1>1, <1>2 DEF CallType
  <2> HIDE DEF q
  <2>3. QED
    BY <1>1, <1>2, <1>3, <2>1, <2>2 DEF Sound, Routed
<1>4. CASE ~(r.attempt < r.cfg.attempts)
  <2>1. PICK l \in {"fallback", "failed"} :
          /\ NextAttempt(r) = [r EXCEPT !.pc = l]
          /\ l = "fallback" => FallbackModel # None
    BY <1>4 DEF NextAttempt, Exhausted
  <2> DEFINE q == [r EXCEPT !.pc = l]
  <2>2. /\ q.pc = l /\ q.attempt = r.attempt /\ q.cfg = r.cfg /\ q.turn = r.turn
        /\ q.model = r.model /\ q.first = r.first /\ q \in CallType
    BY <1>1 DEF CallType
  <2>3. l = "fallback" => FallbackModel \in Models
    BY <2>1, PromptAssumption
  <2>4. NextAttempt(r) = q
    BY <2>1
  <2> HIDE DEF q
  <2>5. Sound(q)
    BY <1>1, <2>2, <2>3 DEF Sound, Routed
  <2>6. QED
    BY <1>2, <2>2, <2>4, <2>5
<1>5. QED
  BY <1>3, <1>4

\* What the catch block of an attempt makes of an invocation.
LEMMA RecoverFacts ==
  ASSUME NEW r, Sound(r), r.attempt \in 1 .. r.cfg.attempts, r.pc # "idle", NEW issues \in BOOLEAN
  PROVE  LET q == Recover(r, issues)
         IN  /\ Sound(q) /\ q.cfg = r.cfg /\ q.turn = r.turn
             /\ q.pc \in {"attempt", "repair", "fallback", "failed"}
             /\ q.pc = "attempt" => q.attempt = r.attempt + 1 /\ q.attempt <= r.cfg.attempts
             /\ q.pc # "attempt" => q.attempt = r.attempt
             /\ q.pc = "repair" => r.cfg.onInvalid = "repair"
<1>1. r \in CallType /\ r.model \in Models /\ r.first \in Models
  BY DEF Sound, Routed
<1>2. CASE r.cfg.onInvalid = "retry" \/ (r.cfg.onInvalid = "repair" /\ ~issues)
  <2>1. Recover(r, issues) = NextAttempt(r)
    BY <1>2 DEF Recover
  <2>2. QED
    BY <2>1, NextAttemptFacts
<1>3. CASE r.cfg.onInvalid = "repair" /\ issues
  <2>1. Recover(r, issues) = [r EXCEPT !.pc = "repair"]
    BY <1>3 DEF Recover
  <2>2. QED
    BY <1>1, <1>3, <2>1 DEF Sound, Routed, CallType
<1>4. CASE r.cfg.onInvalid = "escalate" /\ r.tier \in 1 .. Len(Tiers) - 1
  <2> DEFINE q == [r EXCEPT !.tier = @ + 1, !.model = Tiers[r.tier + 1].model]
  <2>1. Recover(r, issues) = NextAttempt(q)
    BY <1>4 DEF Recover
  <2>2. r.tier + 1 \in 1 .. Len(Tiers) /\ r.tier + 1 \in 0 .. Len(Tiers)
    <3>1. Len(Tiers) \in Nat
      BY PromptAssumption
    <3>2. QED
      BY <1>4, <3>1
  <2>3. Tiers[r.tier + 1].model \in Models
    BY <2>2, TierModel
  <2>4. /\ q.pc = r.pc /\ q.attempt = r.attempt /\ q.cfg = r.cfg /\ q.turn = r.turn
        /\ Sound(q)
    BY <1>1, <2>2, <2>3 DEF Sound, Routed, CallType
  <2> HIDE DEF q
  <2>5. QED
    BY <1>4, <2>1, <2>4, NextAttemptFacts
<1>5. CASE /\ r.cfg.onInvalid \notin {"retry", "repair"}
           /\ ~(r.cfg.onInvalid = "escalate" /\ r.tier \in 1 .. Len(Tiers) - 1)
  <2>1. Recover(r, issues) = [r EXCEPT !.pc = "failed"]
    BY <1>5 DEF Recover
  <2>2. QED
    BY <1>1, <2>1 DEF Sound, Routed, CallType
<1>6. QED
  BY <1>2, <1>3, <1>4, <1>5

-----------------------------------------------------------------------------
(* Money *)

\* The price of tokens, in parts and in excess.
LEMMA Price ==
  ASSUME NEW n \in Nat, NEW est \in Nat, NEW rate \in Nat
  PROVE  /\ n * rate \in Nat /\ est * rate \in Nat
         /\ n <= est => n * rate <= est * rate
         /\ n > est => (n - est) * rate \in Nat /\ n * rate = est * rate + (n - est) * rate
<1>1. n * rate \in Nat /\ est * rate \in Nat
  OBVIOUS
<1>2. n <= est => n * rate <= est * rate
  OBVIOUS
<1>3. n > est => (n - est) * rate \in Nat /\ n * rate = est * rate + (n - est) * rate
  OBVIOUS
<1>4. QED
  BY <1>1, <1>2, <1>3

\* A charge that a check covers up to its estimate, or that is accounted for as
\* a whole, keeps the account of what is spent over the ceilings.
LEMMA ChargeAccounted ==
  ASSUME MoneyOK, OverspendAccounted, NEW k \in Trackers, NEW n \in Nat, NEW m \in Models,
         NEW seen \in Money, NEW est \in Nat, Charge(k, n, m, seen, est),
         seen.tokens <= tokens[k], seen.usd <= usd[k],
         \/ seen.tokens + est <= TokenLimit /\ seen.usd + est * Rate[m] <= UsdLimit
         \/ est = 0 /\ seen = Seen(k)
  PROVE  /\ MoneyOK' /\ OverspendAccounted'
         /\ \A j \in Trackers : tokens[j] <= tokens'[j] /\ usd[j] <= usd'[j]
<1> DEFINE beyond == IF n > est THEN n - est ELSE 0
           price == n * Rate[m]
           over == beyond * Rate[m]
<1>1. /\ Rate[m] \in Nat /\ beyond \in Nat /\ n <= est + beyond
      /\ TokenLimit \in Nat /\ UsdLimit \in Nat /\ seen.tokens \in Nat /\ seen.usd \in Nat
      /\ tokens[k] \in Nat /\ usd[k] \in Nat /\ slack[k].tokens \in Nat /\ slack[k].usd \in Nat
  <2>1. Rate[m] \in Nat /\ TokenLimit \in Nat /\ UsdLimit \in Nat
    BY PromptAssumption
  <2>2. beyond \in Nat /\ n <= est + beyond
    OBVIOUS
  <2>3. slack[k] \in Money
    BY DEF MoneyOK
  <2>4. QED
    BY <2>1, <2>2, <2>3 DEF Money, MoneyOK
<1>2. /\ price \in Nat /\ over \in Nat /\ est * Rate[m] \in Nat
      /\ price <= est * Rate[m] + over
      /\ est = 0 => price = over
  <2>1. CASE n > est
    BY <1>1, <2>1, Price
  <2>2. CASE ~(n > est)
    <3>1. over = 0
      BY <1>1, <2>2
    <3>2. est = 0 => n = 0 /\ price = 0
      BY <1>1, <2>2
    <3>3. QED
      BY <1>1, <2>2, <3>1, <3>2, Price
  <2>3. QED
    BY <2>1, <2>2
<1>3. /\ tokens' = [tokens EXCEPT ![k] = @ + n]
      /\ usd' = [usd EXCEPT ![k] = @ + price]
      /\ slack' = [slack EXCEPT ![k].tokens = @ + (tokens[k] - seen.tokens) + beyond,
                               ![k].usd = @ + (usd[k] - seen.usd) + over]
  BY DEF Charge
<1> HIDE DEF beyond, price, over
<1>4. /\ \A j \in Trackers \ {k} : /\ tokens'[j] = tokens[j] /\ usd'[j] = usd[j]
                                   /\ slack'[j] = slack[j]
      /\ tokens'[k] = tokens[k] + n /\ usd'[k] = usd[k] + price
      /\ slack'[k] = [tokens |-> slack[k].tokens + (tokens[k] - seen.tokens) + beyond,
                      usd |-> slack[k].usd + (usd[k] - seen.usd) + over]
  BY <1>3 DEF MoneyOK, Money
<1>5. MoneyOK'
  <2>1. slack[k].tokens + (tokens[k] - seen.tokens) + beyond \in Nat
    BY <1>1
  <2>2. slack[k].usd + (usd[k] - seen.usd) + over \in Nat
    BY <1>1, <1>2
  <2>3. slack'[k] \in Money
    BY <1>4, <2>1, <2>2 DEF Money
  <2>4. slack' \in [Trackers -> Money]
    BY <1>3, <1>4, <2>3 DEF MoneyOK
  <2>5. tokens' \in [Trackers -> Nat] /\ usd' \in [Trackers -> Nat]
    BY <1>1, <1>2, <1>3 DEF MoneyOK
  <2>6. QED
    BY <2>4, <2>5 DEF MoneyOK
<1>6. /\ tokens'[k] <= TokenLimit + slack'[k].tokens
      /\ usd'[k] <= UsdLimit + slack'[k].usd
  <2>1. CASE seen.tokens + est <= TokenLimit /\ seen.usd + est * Rate[m] <= UsdLimit
    BY <1>1, <1>2, <1>4, <2>1
  <2>2. CASE est = 0 /\ seen = Seen(k)
    <3>1. tokens[k] <= TokenLimit + slack[k].tokens /\ usd[k] <= UsdLimit + slack[k].usd
      BY DEF OverspendAccounted
    <3>2. seen.tokens = tokens[k] /\ seen.usd = usd[k]
      BY <2>2 DEF Seen
    <3>3. QED
      BY <1>1, <1>2, <1>4, <2>2, <3>1, <3>2
  <2>3. QED
    BY <2>1, <2>2
<1>7. OverspendAccounted'
  BY <1>4, <1>6 DEF OverspendAccounted
<1>8. \A j \in Trackers : tokens[j] <= tokens'[j] /\ usd[j] <= usd'[j]
  BY <1>1, <1>2, <1>4 DEF MoneyOK
<1>9. QED
  BY <1>5, <1>7, <1>8

-----------------------------------------------------------------------------
(* The steps of an invocation *)

\* One invocation moves on, and whatever it spends is accounted for.
LEMMA OneMoves ==
  ASSUME IInv, NEW c \in Calls, NEW q, NEW d \in DidType, Sound(q), Worked(q, d),
         call' = [call EXCEPT ![c] = q], did' = [did EXCEPT ![c] = d],
         cache' \in [Keys -> {None, "good"}], MoneyOK', OverspendAccounted',
         \A j \in Trackers : tokens[j] <= tokens'[j] /\ usd[j] <= usd'[j],
         InFlight(q, tokens'[TrackerOf(q, c)], usd'[TrackerOf(q, c)])
  PROVE  IInv'
<1>1. call' \in [Calls -> CallType] /\ did' \in [Calls -> DidType]
  BY DEF IInv, Invocations, Sound
<1>2. call'[c] = q /\ did'[c] = d
  BY DEF IInv, Invocations
<1>3. \A b \in Calls \ {c} : call'[b] = call[b] /\ did'[b] = did[b]
  BY DEF IInv, Invocations
<1>4. ASSUME NEW b \in Calls \ {c}
      PROVE  LET k == TrackerOf(call[b], b)
             IN  /\ Sound(call[b]) /\ Worked(call[b], did[b])
                 /\ InFlight(call[b], tokens'[k], usd'[k])
  <2> DEFINE r == call[b]
             k == TrackerOf(r, b)
  <2>1. k \in Trackers
    BY DEF TrackerOf, Trackers
  <2>2. tokens[k] <= tokens'[k] /\ usd[k] <= usd'[k]
    BY <2>1
  <2>3. /\ tokens[k] \in Nat /\ tokens'[k] \in Nat /\ usd[k] \in Nat /\ usd'[k] \in Nat
        /\ r.seen.tokens \in Nat /\ r.seen.usd \in Nat
    <3>1. r.seen \in Money
      BY DEF IInv, Invocations, CallType, Money
    <3>2. QED
      BY <2>1, <3>1 DEF IInv, MoneyOK, Money
  <2>4. Sound(r) /\ Worked(r, did[b]) /\ InFlight(r, tokens[k], usd[k])
    BY DEF IInv, Invocations
  <2> HIDE DEF r, k
  <2>5. InFlight(r, tokens'[k], usd'[k])
    BY <2>2, <2>3, <2>4 DEF InFlight, Covered
  <2>6. QED
    BY <2>4, <2>5 DEF r, k
<1>5. \A b \in Calls :
        LET k == TrackerOf(call'[b], b)
        IN  /\ Sound(call'[b]) /\ Worked(call'[b], did'[b])
            /\ InFlight(call'[b], tokens'[k], usd'[k])
  BY <1>2, <1>3, <1>4
<1>6. Invocations'
  BY <1>1, <1>5 DEF Invocations
<1>7. QED
  BY <1>6 DEF IInv

\* The same for a step that spends nothing.
LEMMA OneMovesFree ==
  ASSUME IInv, NEW c \in Calls, NEW q, NEW d \in DidType, Sound(q), Worked(q, d),
         call' = [call EXCEPT ![c] = q], did' = [did EXCEPT ![c] = d],
         cache' \in [Keys -> {None, "good"}], UNCHANGED money,
         InFlight(q, tokens[TrackerOf(q, c)], usd[TrackerOf(q, c)])
  PROVE  IInv'
<1>1. tokens' = tokens /\ usd' = usd /\ slack' = slack
  BY DEF money
<1>2. MoneyOK' /\ OverspendAccounted'
  BY <1>1 DEF IInv, MoneyOK, OverspendAccounted
<1>3. \A j \in Trackers : tokens[j] <= tokens'[j] /\ usd[j] <= usd'[j]
  BY <1>1 DEF IInv, MoneyOK
<1>4. QED
  BY <1>1, <1>2, <1>3, OneMoves

\* Numbers of an invocation.
LEMMA Numbers ==
  ASSUME IInv, NEW c \in Calls
  PROVE  LET r == call[c]
             d == did[c]
         IN  /\ r \in CallType /\ Sound(r) /\ Worked(r, d) /\ d \in DidType
             /\ r.cfg \in Configs /\ r.cfg.attempts \in Nat \ {0}
             /\ r.attempt \in Nat /\ r.attempt \in 1 .. r.cfg.attempts
             /\ r.turn \in Nat /\ r.seen \in Money
             /\ d.chats \in Nat /\ d.tools \in Nat /\ d.charges \in Nat
             /\ TrackerOf(r, c) \in Trackers
<1>1. /\ call[c] \in CallType /\ Sound(call[c]) /\ Worked(call[c], did[c])
      /\ did[c] \in DidType
  BY DEF IInv, Invocations
<1>2. /\ call[c].cfg \in Configs /\ call[c].turn \in Nat /\ call[c].seen \in Money
      /\ call[c].attempt \in Nat
  BY <1>1 DEF CallType, Money
<1>3. call[c].cfg.attempts \in Nat \ {0}
  BY <1>2, ConfigFacts
<1>4. did[c].chats \in Nat /\ did[c].tools \in Nat /\ did[c].charges \in Nat
  BY <1>1 DEF DidType
<1>5. TrackerOf(call[c], c) \in Trackers
  BY DEF TrackerOf, Trackers
<1>6. QED
  BY <1>1, <1>2, <1>3, <1>4, <1>5 DEF Worked

\* The work that is allowed to an attempt, and to the attempts before it.
LEMMA Attempts ==
  ASSUME NEW cfg \in Configs, NEW n \in 1 .. cfg.attempts
  PROVE  /\ (n - 1) * PerAttempt(cfg) \in Nat /\ (n - 1) * ToolLimit \in Nat
         /\ (n + 1 - 1) * PerAttempt(cfg) = (n - 1) * PerAttempt(cfg) + PerAttempt(cfg)
         /\ (n + 1 - 1) * ToolLimit = (n - 1) * ToolLimit + ToolLimit
         /\ (n - 1) * PerAttempt(cfg) + PerAttempt(cfg) <= cfg.attempts * PerAttempt(cfg)
         /\ (n - 1) * ToolLimit + ToolLimit <= cfg.attempts * ToolLimit
<1>1. n \in Nat \ {0} /\ cfg.attempts \in Nat /\ n <= cfg.attempts
  BY ConfigFacts
<1>2. ASSUME NEW p \in Nat
      PROVE  /\ (n - 1) * p \in Nat
             /\ (n + 1 - 1) * p = (n - 1) * p + p
             /\ (n - 1) * p + p <= cfg.attempts * p
  <2>1. (n - 1) * p \in Nat /\ n * p = (n - 1) * p + p
    BY <1>1
  <2>2. n * p <= cfg.attempts * p
    BY <1>1
  <2>3. n + 1 - 1 = n
    BY <1>1
  <2>4. QED
    BY <2>1, <2>2, <2>3
<1>3. PerAttempt(cfg) \in Nat /\ ToolLimit \in Nat
  BY ConfigFacts, PromptAssumption
<1>4. QED
  BY <1>2, <1>3

\* After an attempt, an invocation has done at most what its attempts allow.
LEMMA AttemptOver ==
  ASSUME NEW r \in CallType, r.attempt \in 1 .. r.cfg.attempts,
         NEW d \in DidType, d.charges = 0,
         d.chats <= (r.attempt - 1) * PerAttempt(r.cfg) + PerAttempt(r.cfg),
         d.tools <= (r.attempt - 1) * ToolLimit + ToolLimit,
         NEW q, q.cfg = r.cfg, q.pc \in {"attempt", "repair", "fallback", "failed"},
         q.pc = "attempt" => q.attempt = r.attempt + 1 /\ q.attempt <= r.cfg.attempts,
         q.pc # "attempt" => q.attempt = r.attempt,
         q.pc = "repair" => /\ r.cfg.onInvalid = "repair"
                            /\ d.chats <= (r.attempt - 1) * PerAttempt(r.cfg) + Turns(r.cfg)
  PROVE  Worked(q, d)
<1> DEFINE before == (r.attempt - 1) * PerAttempt(r.cfg)
           tools == (r.attempt - 1) * ToolLimit
<1>1. r.cfg \in Configs /\ r.attempt \in Nat /\ r.cfg.attempts \in Nat
      /\ PerAttempt(r.cfg) \in Nat /\ ToolLimit \in Nat
      /\ d.chats \in Nat /\ d.tools \in Nat
  BY ConfigFacts, PromptAssumption DEF CallType, DidType
<1>2. /\ before \in Nat /\ tools \in Nat
      /\ (r.attempt + 1 - 1) * PerAttempt(r.cfg) = before + PerAttempt(r.cfg)
      /\ (r.attempt + 1 - 1) * ToolLimit = tools + ToolLimit
  BY <1>1, Attempts
<1>3. CASE q.pc = "attempt"
  <2>1. q.attempt = r.attempt + 1 /\ q.attempt \in 1 .. r.cfg.attempts
    BY <1>1, <1>3
  <2>2. /\ (q.attempt - 1) * PerAttempt(q.cfg) = before + PerAttempt(r.cfg)
        /\ (q.attempt - 1) * ToolLimit = tools + ToolLimit
    BY <1>2, <2>1
  <2> HIDE DEF before, tools
  <2>3. d.tools <= tools + ToolLimit /\ d.chats <= before + PerAttempt(r.cfg)
    BY DEF before, tools
  <2>4. QED
    BY <1>1, <1>2, <1>3, <2>1, <2>2, <2>3 DEF Worked
<1>4. CASE q.pc # "attempt"
  <2>1. /\ (q.attempt - 1) * PerAttempt(q.cfg) = before
        /\ (q.attempt - 1) * ToolLimit = tools
    BY <1>4
  <2>2. d.tools <= tools + ToolLimit /\ d.chats <= before + PerAttempt(r.cfg)
    OBVIOUS
  <2>3. q.pc = "repair" => d.chats <= before + Turns(q.cfg)
    OBVIOUS
  <2> HIDE DEF before, tools
  <2>4. QED
    BY <1>1, <1>2, <1>4, <2>1, <2>2, <2>3 DEF Worked
<1>5. QED
  BY <1>3, <1>4

\* What an attempt that has asked the provider can have done.
LEMMA ChatWork ==
  ASSUME NEW r \in CallType, NEW d \in DidType, Worked(r, d),
         r.pc \in {"chat", "repair"}
  PROVE  /\ d.charges = 0
         /\ d.chats <= (r.attempt - 1) * PerAttempt(r.cfg) + Turns(r.cfg)
         /\ d.chats <= (r.attempt - 1) * PerAttempt(r.cfg) + PerAttempt(r.cfg)
         /\ r.pc = "repair" =>
               d.chats + 1 <= (r.attempt - 1) * PerAttempt(r.cfg) + PerAttempt(r.cfg)
         /\ d.tools <= (r.attempt - 1) * ToolLimit + ToolLimit
<1> DEFINE before == (r.attempt - 1) * PerAttempt(r.cfg)
           tools == (r.attempt - 1) * ToolLimit
<1>1. r.cfg \in Configs /\ r.attempt \in 1 .. r.cfg.attempts /\ r.turn \in Nat
      /\ d.chats \in Nat /\ d.tools \in Nat
  BY DEF CallType, DidType, Worked
<1>2. before \in Nat /\ tools \in Nat
  BY <1>1, Attempts
<1>3. /\ d.charges = 0 /\ d.tools <= tools + ToolLimit
      /\ r.pc = "chat" => /\ d.chats <= before + 1 + r.turn
                          /\ r.turn <= IF r.cfg.tools THEN ToolLimit ELSE 0
      /\ r.pc = "repair" => d.chats <= before + Turns(r.cfg) /\ r.cfg.onInvalid = "repair"
  BY DEF Worked
<1> HIDE DEF before, tools
<1>4. r.pc = "chat" => 1 + r.turn <= Turns(r.cfg)
  BY <1>1, <1>3, PromptAssumption DEF Turns
<1>5. d.chats <= before + Turns(r.cfg)
  BY <1>1, <1>2, <1>3, <1>4, ConfigFacts
<1>6. d.chats <= before + PerAttempt(r.cfg)
  BY <1>1, <1>2, <1>5, ConfigFacts
<1>7. r.pc = "repair" => d.chats + 1 <= before + PerAttempt(r.cfg)
  BY <1>1, <1>2, <1>3, ConfigFacts
<1>8. QED
  BY <1>3, <1>5, <1>6, <1>7 DEF before, tools

\* A failed attempt keeps the invariant, whatever is done about it.
LEMMA Recovers ==
  ASSUME IInv, NEW c \in Calls, call[c].pc = "chat", NEW issues \in BOOLEAN,
         call' = [call EXCEPT ![c] = Recover(call[c], issues)],
         UNCHANGED <<cache, money, did>>
  PROVE  IInv'
<1> DEFINE r == call[c]
           q == Recover(r, issues)
           d == did[c]
<1>1. /\ r \in CallType /\ Sound(r) /\ Worked(r, d) /\ d \in DidType
      /\ r.attempt \in 1 .. r.cfg.attempts
  BY Numbers
<1>2. /\ Sound(q) /\ q.cfg = r.cfg
      /\ q.pc \in {"attempt", "repair", "fallback", "failed"}
      /\ q.pc = "attempt" => q.attempt = r.attempt + 1 /\ q.attempt <= r.cfg.attempts
      /\ q.pc # "attempt" => q.attempt = r.attempt
      /\ q.pc = "repair" => r.cfg.onInvalid = "repair"
  BY <1>1, RecoverFacts
<1>3. call' = [call EXCEPT ![c] = q] /\ did' = [did EXCEPT ![c] = d]
  BY DEF IInv, Invocations
<1>4. r.pc = "chat"
  OBVIOUS
<1>5. cache' \in [Keys -> {None, "good"}] /\ UNCHANGED money
  BY DEF IInv
<1> HIDE DEF r, q, d
<1>6. Worked(q, d)
  BY <1>1, <1>2, <1>4, ChatWork, AttemptOver
<1>7. InFlight(q, tokens[TrackerOf(q, c)], usd[TrackerOf(q, c)])
  BY <1>2 DEF InFlight
<1>8. QED
  BY <1>1, <1>2, <1>3, <1>5, <1>6, <1>7, OneMovesFree

\* A failed repair keeps the invariant.
LEMMA RepairRecovers ==
  ASSUME IInv, NEW c \in Calls, call[c].pc = "repair",
         call' = [call EXCEPT ![c] = NextAttempt(call[c])],
         did' = [did EXCEPT ![c].chats = @ + 1], UNCHANGED <<cache, money>>
  PROVE  IInv'
<1> DEFINE r == call[c]
           q == NextAttempt(r)
           d == [did[c] EXCEPT !.chats = @ + 1]
<1>1. /\ r \in CallType /\ Sound(r) /\ Worked(r, did[c]) /\ did[c] \in DidType
      /\ r.attempt \in 1 .. r.cfg.attempts /\ did[c].chats \in Nat
  BY Numbers
<1>2. /\ Sound(q) /\ q.cfg = r.cfg
      /\ q.pc \in {"attempt", "fallback", "failed"}
      /\ q.pc = "attempt" => q.attempt = r.attempt + 1 /\ q.attempt <= r.cfg.attempts
      /\ q.pc # "attempt" => q.attempt = r.attempt
  BY <1>1, NextAttemptFacts
<1>3. call' = [call EXCEPT ![c] = q] /\ did' = [did EXCEPT ![c] = d]
  BY DEF IInv, Invocations
<1>4. r.pc = "repair"
  OBVIOUS
<1>5. cache' \in [Keys -> {None, "good"}] /\ UNCHANGED money
  BY DEF IInv
<1>6. /\ d \in DidType /\ d.chats = did[c].chats + 1 /\ d.tools = did[c].tools
      /\ d.charges = did[c].charges
  BY <1>1 DEF DidType
<1> HIDE DEF r, q, d
<1>7. Worked(q, d)
  BY <1>1, <1>2, <1>4, <1>6, ChatWork, AttemptOver
<1>8. InFlight(q, tokens[TrackerOf(q, c)], usd[TrackerOf(q, c)])
  BY <1>2 DEF InFlight
<1>9. QED
  BY <1>1, <1>2, <1>3, <1>5, <1>6, <1>7, <1>8, OneMovesFree


-----------------------------------------------------------------------------
(* One lemma for each action *)

LEMMA InvokeKeepsIInv ==
  ASSUME IInv, NEW c \in Calls, Invoke(c)
  PROVE  IInv'
<1> DEFINE r == call[c]
           tier == IF r.cfg.model = None THEN Route(r.input) ELSE 0
           model == IF tier = 0 THEN r.cfg.model ELSE Tiers[tier].model
           q == [r EXCEPT !.pc = IF r.cfg.cached THEN "lookup" ELSE "attempt",
                          !.tier = tier, !.model = model, !.first = model]
           d == did[c]
<1>1. /\ r \in CallType /\ Sound(r) /\ Worked(r, d) /\ d \in DidType
      /\ r.cfg \in Configs /\ r.input \in Inputs
  BY Numbers DEF CallType
<1>2. r.pc = "idle"
  BY DEF Invoke
<1>3. tier \in 0 .. Len(Tiers) /\ model \in Models
  <2>1. CASE r.cfg.model = None
    <3>1. tier \in 1 .. Len(Tiers)
      BY <1>1, <2>1, RouteInTiers
    <3>2. model = Tiers[tier].model /\ tier \in 0 .. Len(Tiers)
      BY <3>1, PromptAssumption
    <3>3. QED
      BY <3>1, <3>2, TierModel
  <2>2. CASE r.cfg.model # None
    <3>1. r.cfg.model \in Models
      BY <1>1, <2>2, ConfigFacts
    <3>2. QED
      BY <2>2, <3>1, PromptAssumption
  <2>3. QED
    BY <2>1, <2>2
<1>4. call' = [call EXCEPT ![c] = q] /\ did' = [did EXCEPT ![c] = d]
  BY DEF Invoke, IInv, Invocations
<1>5. cache' \in [Keys -> {None, "good"}] /\ UNCHANGED money
  BY DEF IInv, Invoke
<1> HIDE DEF tier, model
<1>6. /\ q \in CallType /\ q.pc \in {"lookup", "attempt"} /\ q.model \in Models
      /\ q.first \in Models /\ q.cfg = r.cfg /\ q.attempt = r.attempt
  BY <1>1, <1>3 DEF CallType
<1> HIDE DEF r, q, d
<1>7. Sound(q) /\ InFlight(q, tokens[TrackerOf(q, c)], usd[TrackerOf(q, c)])
  BY <1>6 DEF Sound, Routed, InFlight
<1>8. Worked(q, d)
  BY <1>1, <1>2, <1>6 DEF Worked
<1>9. QED
  BY <1>1, <1>4, <1>5, <1>7, <1>8, OneMovesFree

\* A hit was validated before it was cached.
LEMMA LookupKeepsIInv ==
  ASSUME IInv, NEW c \in Calls, Lookup(c)
  PROVE  IInv'
<1> DEFINE r == call[c]
           hit == cache[KeyOf(r)]
           q == [r EXCEPT !.result = hit, !.pc = IF hit = None THEN "attempt" ELSE "hit"]
           d == did[c]
<1>1. /\ r \in CallType /\ Sound(r) /\ Worked(r, d) /\ d \in DidType /\ r.pc = "lookup"
      /\ r.cfg \in Configs /\ r.input \in Inputs /\ r.first \in Models /\ r.model \in Models
  BY Numbers DEF CallType, Lookup, Sound, Routed
<1>2. hit \in {None, "good"}
  BY <1>1 DEF Keys, KeyOf, IInv
<1>3. call' = [call EXCEPT ![c] = q] /\ did' = [did EXCEPT ![c] = d]
  BY DEF Lookup, IInv, Invocations
<1>4. cache' \in [Keys -> {None, "good"}] /\ UNCHANGED money
  BY DEF IInv, Lookup
<1> HIDE DEF hit
<1>5. /\ q \in CallType /\ q.pc \in {"attempt", "hit"} /\ q.model \in Models
      /\ q.first \in Models /\ q.cfg = r.cfg /\ q.attempt = r.attempt
      /\ q.pc = "hit" => q.result = "good"
  BY <1>1, <1>2 DEF CallType, Values
<1> HIDE DEF r, q, d
<1>6. Sound(q) /\ InFlight(q, tokens[TrackerOf(q, c)], usd[TrackerOf(q, c)])
  BY <1>5 DEF Sound, Routed, InFlight
<1>7. Worked(q, d)
  BY <1>1, <1>5 DEF Worked
<1>8. QED
  BY <1>1, <1>3, <1>4, <1>6, <1>7, OneMovesFree

LEMMA ExpireKeepsIInv ==
  ASSUME IInv, NEW k \in Keys, Expire(k)
  PROVE  IInv'
<1>1. cache' \in [Keys -> {None, "good"}]
  BY DEF IInv, Expire
<1>2. call' = call /\ did' = did /\ tokens' = tokens /\ usd' = usd /\ slack' = slack
  BY DEF Expire, money
<1>3. Invocations' /\ MoneyOK' /\ OverspendAccounted'
  BY <1>2 DEF IInv, Invocations, MoneyOK, OverspendAccounted
<1>4. QED
  BY <1>1, <1>3 DEF IInv

\* The check covers the estimate, at the price of the current model.
LEMMA AttemptKeepsIInv ==
  ASSUME IInv, NEW c \in Calls, Attempt(c)
  PROVE  IInv'
<1> DEFINE r == call[c]
           k == TrackerOf(r, c)
           n == did[c].chats + 1
<1>1. /\ r \in CallType /\ Sound(r) /\ Worked(r, did[c]) /\ did[c] \in DidType
      /\ r.pc = "attempt" /\ r.cfg \in Configs /\ r.first \in Models /\ r.model \in Models
      /\ r.attempt \in 1 .. r.cfg.attempts /\ k \in Trackers /\ did[c].chats \in Nat
      /\ did[c].tools \in Nat /\ n \in Nat
  BY Numbers DEF CallType, Attempt, Sound, Routed
<1>2. cache' \in [Keys -> {None, "good"}] /\ UNCHANGED money
  BY DEF IInv, Attempt
<1>3. (r.attempt - 1) * PerAttempt(r.cfg) \in Nat /\ (r.attempt - 1) * ToolLimit \in Nat
  BY <1>1, Attempts
<1>4. CASE CanSpend(k, Estimate[r.first], r.model)
  <2> DEFINE q == [r EXCEPT !.pc = "chat", !.turn = 0, !.seen = Seen(k)]
             d == [did[c] EXCEPT !.chats = n]
  <2>1. call' = [call EXCEPT ![c] = q] /\ did' = [did EXCEPT ![c] = d]
    BY <1>4 DEF Attempt, IInv, Invocations
  <2>2. tokens[k] \in Nat /\ usd[k] \in Nat /\ Seen(k) \in Money
        /\ Seen(k).tokens = tokens[k] /\ Seen(k).usd = usd[k]
    BY <1>1 DEF IInv, MoneyOK, Seen, Money
  <2>3. /\ q \in CallType /\ q.pc = "chat" /\ q.turn = 0 /\ q.seen = Seen(k)
        /\ q.model = r.model /\ q.first = r.first /\ q.cfg = r.cfg /\ q.attempt = r.attempt
    BY <1>1, <2>2 DEF CallType, Money
  <2>4. /\ d \in DidType /\ d.chats = n /\ d.tools = did[c].tools
        /\ d.charges = did[c].charges
    BY <1>1 DEF DidType
  <2>5. TrackerOf(q, c) = k
    BY <2>3 DEF TrackerOf
  <2> HIDE DEF q, d
  <2>6. Sound(q)
    BY <1>1, <2>3 DEF Sound, Routed
  <2>7. Covered(q, tokens[k], usd[k], Estimate[q.first], q.model)
    BY <1>4, <2>2, <2>3 DEF Covered, CanSpend
  <2>8. InFlight(q, tokens[TrackerOf(q, c)], usd[TrackerOf(q, c)])
    BY <2>3, <2>5, <2>7 DEF InFlight
  <2>9. Worked(q, d)
    <3> DEFINE before == (r.attempt - 1) * PerAttempt(r.cfg)
               tools == (r.attempt - 1) * ToolLimit
    <3>1. /\ did[c].chats <= before /\ did[c].tools <= tools
          /\ did[c].tools <= tools + ToolLimit /\ did[c].charges = 0
      BY <1>1 DEF Worked
    <3>2. (q.attempt - 1) * PerAttempt(q.cfg) = before /\ (q.attempt - 1) * ToolLimit = tools
      BY <2>3
    <3>3. before \in Nat /\ tools \in Nat /\ ToolLimit \in Nat
      BY <1>3, PromptAssumption
    <3> HIDE DEF before, tools
    <3>4. d.chats <= before + 1 + q.turn /\ d.tools <= tools + q.turn
      BY <1>1, <2>3, <2>4, <3>1, <3>3
    <3>5. q.turn <= IF q.cfg.tools THEN ToolLimit ELSE 0
      BY <2>3, <3>3
    <3>6. QED
      BY <1>1, <2>3, <2>4, <3>1, <3>2, <3>4, <3>5 DEF Worked
  <2>10. QED
    BY <1>2, <2>1, <2>4, <2>6, <2>8, <2>9, OneMovesFree
<1>5. CASE ~CanSpend(k, Estimate[r.first], r.model)
  <2> DEFINE q == [r EXCEPT !.pc = "broke"]
             d == did[c]
  <2>1. call' = [call EXCEPT ![c] = q] /\ did' = [did EXCEPT ![c] = d]
    BY <1>5 DEF Attempt, IInv, Invocations
  <2>2. /\ q \in CallType /\ q.pc = "broke" /\ q.cfg = r.cfg /\ q.attempt = r.attempt
        /\ q.model \in Models /\ q.first \in Models
    BY <1>1 DEF CallType
  <2> HIDE DEF q
  <2>3. Sound(q) /\ InFlight(q, tokens[TrackerOf(q, c)], usd[TrackerOf(q, c)])
    BY <2>2 DEF Sound, Routed, InFlight
  <2>4. PerAttempt(r.cfg) \in Nat
    BY <1>1, ConfigFacts
  <2>5. Worked(q, d)
    BY <1>1, <1>3, <2>2, <2>4 DEF Worked
  <2>6. QED
    BY <1>1, <1>2, <2>1, <2>3, <2>5, OneMovesFree
<1>6. QED
  BY <1>4, <1>5

LEMMA ProviderFailsKeepsIInv ==
  ASSUME IInv, NEW c \in Calls, ProviderFails(c)
  PROVE  IInv'
BY Recovers DEF ProviderFails

\* Tools run only within the limit, and each turn is one more provider call.
LEMMA ToolTurnKeepsIInv ==
  ASSUME IInv, NEW c \in Calls, NEW n \in 1 .. ToolLimit + 1, ToolTurn(c, n)
  PROVE  IInv'
<1>1. CASE call[c].turn + n > ToolLimit
  BY <1>1, Recovers DEF ToolTurn
<1>2. CASE ~(call[c].turn + n > ToolLimit)
  <2> DEFINE r == call[c]
             q == [r EXCEPT !.turn = @ + n]
             d == [did[c] EXCEPT !.chats = @ + 1, !.tools = @ + n]
  <2>1. /\ r \in CallType /\ Sound(r) /\ Worked(r, did[c]) /\ did[c] \in DidType
        /\ r.pc = "chat" /\ r.cfg \in Configs /\ r.cfg.tools
        /\ r.attempt \in 1 .. r.cfg.attempts /\ r.turn \in Nat
        /\ did[c].chats \in Nat /\ did[c].tools \in Nat
        /\ n \in Nat \ {0} /\ r.turn + n <= ToolLimit
    <3>1. /\ r \in CallType /\ Sound(r) /\ Worked(r, did[c]) /\ did[c] \in DidType
          /\ r.cfg \in Configs /\ r.attempt \in 1 .. r.cfg.attempts /\ r.turn \in Nat
          /\ did[c].chats \in Nat /\ did[c].tools \in Nat
      BY Numbers
    <3>2. r.pc = "chat" /\ r.cfg.tools
      BY DEF ToolTurn
    <3>3. n \in Nat \ {0} /\ r.turn + n <= ToolLimit
      <4>1. ToolLimit \in Nat
        BY PromptAssumption
      <4>2. QED
        BY <1>2, <3>1, <4>1
    <3>4. QED
      BY <3>1, <3>2, <3>3
  <2>2. r.turn + n \in Nat /\ did[c].chats + 1 \in Nat /\ did[c].tools + n \in Nat
    BY <2>1
  <2>3. cache' \in [Keys -> {None, "good"}] /\ UNCHANGED money
    BY DEF IInv, ToolTurn
  <2>4. call' = [call EXCEPT ![c] = q] /\ did' = [did EXCEPT ![c] = d]
    BY <1>2 DEF ToolTurn, IInv, Invocations
  <2>5. /\ q \in CallType /\ q.pc = "chat" /\ q.turn = r.turn + n /\ q.seen = r.seen
        /\ q.model = r.model /\ q.first = r.first /\ q.cfg = r.cfg /\ q.attempt = r.attempt
    BY <2>1, <2>2 DEF CallType
  <2>6. /\ d \in DidType /\ d.chats = did[c].chats + 1 /\ d.tools = did[c].tools + n
        /\ d.charges = did[c].charges
    BY <2>1, <2>2 DEF DidType
  <2>7. InFlight(r, tokens[TrackerOf(r, c)], usd[TrackerOf(r, c)])
    BY DEF IInv, Invocations
  <2>8. TrackerOf(q, c) = TrackerOf(r, c)
    BY <2>5 DEF TrackerOf
  <2>9. (r.attempt - 1) * PerAttempt(r.cfg) \in Nat /\ (r.attempt - 1) * ToolLimit \in Nat
    BY <2>1, Attempts
  <2> HIDE DEF r, q, d
  <2>10. Sound(q)
    BY <2>1, <2>5 DEF Sound, Routed
  <2>11. InFlight(q, tokens[TrackerOf(q, c)], usd[TrackerOf(q, c)])
    BY <2>1, <2>5, <2>7, <2>8 DEF InFlight, Covered
  <2>12. Worked(q, d)
    <3> DEFINE before == (r.attempt - 1) * PerAttempt(r.cfg)
               tools == (r.attempt - 1) * ToolLimit
    <3>1. /\ did[c].chats <= before + 1 + r.turn /\ did[c].tools <= tools + r.turn
          /\ did[c].tools <= tools + ToolLimit /\ did[c].charges = 0
      BY <2>1 DEF Worked
    <3>2. (q.attempt - 1) * PerAttempt(q.cfg) = before /\ (q.attempt - 1) * ToolLimit = tools
      BY <2>5
    <3>3. before \in Nat /\ tools \in Nat /\ ToolLimit \in Nat
      BY <2>9, PromptAssumption
    <3> HIDE DEF before, tools
    <3>4. /\ d.chats <= before + 1 + q.turn /\ d.tools <= tools + q.turn
          /\ d.tools <= tools + ToolLimit
      BY <2>1, <2>5, <2>6, <3>1, <3>3
    <3>5. q.turn <= IF q.cfg.tools THEN ToolLimit ELSE 0
      BY <2>1, <2>5
    <3>6. q.attempt \in 1 .. q.cfg.attempts /\ d.charges = 0
      BY <2>1, <2>5, <2>6, <3>1
    <3>7. QED
      BY <2>5, <3>2, <3>4, <3>5, <3>6 DEF Worked
  <2>13. QED
    BY <2>3, <2>4, <2>6, <2>10, <2>11, <2>12, OneMovesFree
<1>3. QED
  BY <1>1, <1>2


\* Once its attempts are over, what an invocation does is bounded by them.
LEMMA AfterAttempts ==
  ASSUME NEW r \in CallType, r.attempt \in 1 .. r.cfg.attempts,
         NEW d \in DidType, NEW q, q.cfg = r.cfg, q.attempt = r.attempt,
         \/ q.pc \in {"put", "done"} /\ d.charges = 1
         \/ q.pc \in {"fbchat", "failed", "broke"} /\ d.charges = 0,
         d.chats <= (r.attempt - 1) * PerAttempt(r.cfg) + PerAttempt(r.cfg) + 1,
         q.pc = "put" => d.chats <= (r.attempt - 1) * PerAttempt(r.cfg) + PerAttempt(r.cfg),
         d.tools <= (r.attempt - 1) * ToolLimit + ToolLimit
  PROVE  Worked(q, d)
BY DEF Worked

\* Only an answer that validates is charged, within what the check allowed.
LEMMA FinalAnswerKeepsIInv ==
  ASSUME IInv, NEW c \in Calls, NEW a \in Answers(call[c].model), FinalAnswer(c, a)
  PROVE  IInv'
<1> DEFINE r == call[c]
           k == TrackerOf(r, c)
           value == Parse(r.cfg.json, TRUE, a.text)
           est == Estimate[r.first]
           n == IF a.usage = 0 THEN est ELSE a.usage
<1>1. /\ r \in CallType /\ Sound(r) /\ Worked(r, did[c]) /\ did[c] \in DidType
      /\ r.cfg \in Configs /\ r.attempt \in 1 .. r.cfg.attempts /\ k \in Trackers
      /\ r.seen \in Money
      /\ did[c].chats \in Nat /\ did[c].tools \in Nat /\ did[c].charges \in Nat
  BY Numbers
<1>2. r.pc = "chat" /\ r.model \in Models /\ r.first \in Models
  BY <1>1 DEF FinalAnswer, Sound, Routed
<1>3. CASE value = "good" /\ ~ (r.cfg.gated /\ a.low)
  <2> DEFINE q == [r EXCEPT !.result = "good", !.pc = IF r.cfg.cached THEN "put" ELSE "done"]
             d == [did[c] EXCEPT !.charges = @ + 1]
  <2>1. Charge(k, n, r.model, r.seen, est) /\ cache' = cache
    BY <1>3 DEF FinalAnswer
  <2>2. call' = [call EXCEPT ![c] = q] /\ did' = [did EXCEPT ![c] = d]
    BY <1>3 DEF FinalAnswer, IInv, Invocations
  <2>3. est \in Nat /\ n \in Nat
    BY <1>2, PromptAssumption DEF Answers
  <2>4. Covered(r, tokens[k], usd[k], est, r.model)
    BY <1>2 DEF IInv, Invocations, InFlight
  <2>5. /\ MoneyOK' /\ OverspendAccounted'
        /\ \A j \in Trackers : tokens[j] <= tokens'[j] /\ usd[j] <= usd'[j]
    <3> HIDE DEF k, est, n
    <3>1. QED
      BY <1>1, <1>2, <2>1, <2>3, <2>4, ChargeAccounted DEF IInv, Covered
  <2>6. /\ q \in CallType /\ q.pc \in {"put", "done"} /\ q.result = "good" /\ q.cfg = r.cfg
        /\ q.attempt = r.attempt /\ q.model = r.model /\ q.first = r.first
    BY <1>1 DEF CallType, Values
  <2>7. /\ did[c].charges = 0
        /\ did[c].chats <= (r.attempt - 1) * PerAttempt(r.cfg) + PerAttempt(r.cfg)
        /\ did[c].tools <= (r.attempt - 1) * ToolLimit + ToolLimit
    BY <1>1, <1>2, ChatWork
  <2>8. /\ d \in DidType /\ d.chats = did[c].chats /\ d.tools = did[c].tools
        /\ d.charges = did[c].charges + 1
    BY <1>1 DEF DidType
  <2>9. (r.attempt - 1) * PerAttempt(r.cfg) + PerAttempt(r.cfg) \in Nat
    BY <1>1, Attempts, ConfigFacts
  <2> HIDE DEF r, q, d
  <2>10. Sound(q) /\ InFlight(q, tokens'[TrackerOf(q, c)], usd'[TrackerOf(q, c)])
    BY <1>2, <2>6 DEF Sound, Routed, InFlight
  <2>11. d.chats <= (r.attempt - 1) * PerAttempt(r.cfg) + PerAttempt(r.cfg) + 1
    BY <1>1, <2>7, <2>8, <2>9
  <2>12. Worked(q, d)
    BY <1>1, <2>6, <2>7, <2>8, <2>11, AfterAttempts
  <2>13. cache' \in [Keys -> {None, "good"}]
    BY <2>1 DEF IInv
  <2>14. QED
    BY <2>2, <2>5, <2>8, <2>10, <2>12, <2>13, OneMoves
<1>4. CASE ~(value = "good" /\ ~ (r.cfg.gated /\ a.low))
  <2>1. call' = [call EXCEPT ![c] = Recover(call[c], value # None)]
    BY <1>4 DEF FinalAnswer
  <2>2. UNCHANGED <<cache, money, did>>
    BY <1>4 DEF FinalAnswer
  <2>3. QED
    BY <1>2, <2>1, <2>2, Recovers
<1>5. QED
  BY <1>3, <1>4

\* Only a validated result gets into the cache.
LEMMA PutKeepsIInv ==
  ASSUME IInv, NEW c \in Calls, Put(c)
  PROVE  IInv'
<1> DEFINE r == call[c]
           q == [r EXCEPT !.pc = "done"]
           d == did[c]
<1>1. /\ r \in CallType /\ Sound(r) /\ Worked(r, d) /\ d \in DidType /\ r.pc = "put"
      /\ r.model \in Models /\ r.first \in Models
      /\ r.cfg \in Configs /\ r.attempt \in 1 .. r.cfg.attempts /\ d.chats \in Nat
  BY Numbers DEF Put, Sound, Routed
<1>2. r.result = "good"
  BY <1>1 DEF Sound
<1>3. cache' \in [Keys -> {None, "good"}] /\ UNCHANGED money
  BY <1>2 DEF IInv, Put
<1>4. call' = [call EXCEPT ![c] = q] /\ did' = [did EXCEPT ![c] = d]
  BY DEF Put, IInv, Invocations
<1>5. /\ q \in CallType /\ q.pc = "done" /\ q.result = "good" /\ q.cfg = r.cfg
      /\ q.attempt = r.attempt /\ q.model = r.model /\ q.first = r.first
  BY <1>1, <1>2 DEF CallType
<1>6. (r.attempt - 1) * PerAttempt(r.cfg) + PerAttempt(r.cfg) \in Nat
  BY <1>1, Attempts, ConfigFacts
<1>7. /\ d.charges = 1 /\ d.tools <= (r.attempt - 1) * ToolLimit + ToolLimit
      /\ d.chats <= (r.attempt - 1) * PerAttempt(r.cfg) + PerAttempt(r.cfg)
  BY <1>1 DEF Worked
<1> HIDE DEF r, q, d
<1>8. Sound(q) /\ InFlight(q, tokens[TrackerOf(q, c)], usd[TrackerOf(q, c)])
  BY <1>1, <1>5 DEF Sound, Routed, InFlight
<1>9. d.chats <= (r.attempt - 1) * PerAttempt(r.cfg) + PerAttempt(r.cfg) + 1
  BY <1>1, <1>6, <1>7
<1>10. Worked(q, d)
  BY <1>1, <1>5, <1>7, <1>9, AfterAttempts
<1>11. QED
  BY <1>1, <1>3, <1>4, <1>8, <1>10, OneMovesFree

\* A repair is charged without a check, and so accounted for as a whole.
LEMMA RepairKeepsIInv ==
  ASSUME IInv, NEW c \in Calls, NEW a \in Answers(call[c].model), Repair(c, a)
  PROVE  IInv'
<1> DEFINE r == call[c]
           k == TrackerOf(r, c)
           value == Parse(r.cfg.json, FALSE, a.text)
<1>1. /\ r \in CallType /\ Sound(r) /\ Worked(r, did[c]) /\ did[c] \in DidType
      /\ r.cfg \in Configs /\ r.attempt \in 1 .. r.cfg.attempts /\ k \in Trackers
      /\ did[c].chats \in Nat /\ did[c].tools \in Nat /\ did[c].charges \in Nat
  BY Numbers
<1>2. r.pc = "repair" /\ r.model \in Models /\ r.first \in Models
  BY <1>1 DEF Repair, Sound, Routed
<1>3. CASE value = "good"
  <2> DEFINE q == [r EXCEPT !.pc = "done", !.result = "good"]
             d == [did[c] EXCEPT !.charges = @ + 1, !.chats = @ + 1]
  <2>1. Charge(k, a.usage, r.model, Seen(k), 0) /\ cache' = cache
    BY <1>3 DEF Repair
  <2>2. call' = [call EXCEPT ![c] = q] /\ did' = [did EXCEPT ![c] = d]
    BY <1>3 DEF Repair, IInv, Invocations
  <2>3. a.usage \in Nat
    BY <1>2, PromptAssumption DEF Answers
  <2>4. Seen(k) \in Money /\ Seen(k).tokens <= tokens[k] /\ Seen(k).usd <= usd[k]
    BY <1>1 DEF Seen, IInv, MoneyOK, Money
  <2>5. /\ MoneyOK' /\ OverspendAccounted'
        /\ \A j \in Trackers : tokens[j] <= tokens'[j] /\ usd[j] <= usd'[j]
    <3> HIDE DEF k
    <3>1. QED
      BY <1>1, <1>2, <2>1, <2>3, <2>4, ChargeAccounted DEF IInv
  <2>6. /\ q \in CallType /\ q.pc = "done" /\ q.result = "good" /\ q.cfg = r.cfg
        /\ q.attempt = r.attempt /\ q.model = r.model /\ q.first = r.first
    BY <1>1 DEF CallType, Values
  <2>7. /\ did[c].charges = 0
        /\ did[c].chats + 1 <= (r.attempt - 1) * PerAttempt(r.cfg) + PerAttempt(r.cfg)
        /\ did[c].tools <= (r.attempt - 1) * ToolLimit + ToolLimit
    BY <1>1, <1>2, ChatWork
  <2>8. /\ d \in DidType /\ d.chats = did[c].chats + 1 /\ d.tools = did[c].tools
        /\ d.charges = did[c].charges + 1
    <3>1. did[c].charges + 1 \in Nat /\ did[c].chats + 1 \in Nat
      BY <1>1
    <3>2. QED
      BY <1>1, <3>1 DEF DidType
  <2>9. (r.attempt - 1) * PerAttempt(r.cfg) + PerAttempt(r.cfg) \in Nat
    BY <1>1, Attempts, ConfigFacts
  <2> HIDE DEF r, q, d
  <2>10. Sound(q) /\ InFlight(q, tokens'[TrackerOf(q, c)], usd'[TrackerOf(q, c)])
    BY <1>2, <2>6 DEF Sound, Routed, InFlight
  <2>11. d.chats <= (r.attempt - 1) * PerAttempt(r.cfg) + PerAttempt(r.cfg) + 1
    BY <1>1, <2>7, <2>8, <2>9
  <2>12. Worked(q, d)
    BY <1>1, <2>6, <2>7, <2>8, <2>11, AfterAttempts
  <2>13. cache' \in [Keys -> {None, "good"}]
    BY <2>1 DEF IInv
  <2>14. QED
    BY <2>2, <2>5, <2>8, <2>10, <2>12, <2>13, OneMoves
<1>4. CASE value # "good"
  BY <1>2, <1>4, RepairRecovers DEF Repair
<1>5. QED
  BY <1>3, <1>4

LEMMA RepairFailsKeepsIInv ==
  ASSUME IInv, NEW c \in Calls, RepairFails(c)
  PROVE  IInv'
BY RepairRecovers DEF RepairFails


\* The fallback is checked at its own estimate and price.
LEMMA FallbackKeepsIInv ==
  ASSUME IInv, NEW c \in Calls, Fallback(c)
  PROVE  IInv'
<1> DEFINE r == call[c]
           k == TrackerOf(r, c)
           n == did[c].chats + 1
           before == (r.attempt - 1) * PerAttempt(r.cfg)
           tools == (r.attempt - 1) * ToolLimit
<1>1. /\ r \in CallType /\ Sound(r) /\ Worked(r, did[c]) /\ did[c] \in DidType
      /\ r.pc = "fallback" /\ r.cfg \in Configs /\ r.first \in Models /\ r.model \in Models
      /\ r.attempt \in 1 .. r.cfg.attempts /\ k \in Trackers /\ did[c].chats \in Nat
      /\ did[c].tools \in Nat /\ n \in Nat /\ FallbackModel \in Models
  BY Numbers DEF CallType, Fallback, Sound, Routed
<1>2. cache' \in [Keys -> {None, "good"}] /\ UNCHANGED money
  BY DEF IInv, Fallback
<1>3. before + PerAttempt(r.cfg) \in Nat
  BY <1>1, Attempts, ConfigFacts
<1>4. /\ did[c].charges = 0 /\ did[c].chats <= before + PerAttempt(r.cfg)
      /\ did[c].tools <= tools + ToolLimit
  BY <1>1 DEF Worked
<1>5. n <= before + PerAttempt(r.cfg) + 1 /\ did[c].chats <= before + PerAttempt(r.cfg) + 1
  <2> HIDE DEF before
  <2>1. QED
    BY <1>1, <1>3, <1>4
<1>6. CASE CanSpend(k, Estimate[FallbackModel], FallbackModel)
  <2> DEFINE q == [r EXCEPT !.pc = "fbchat", !.seen = Seen(k)]
             d == [did[c] EXCEPT !.chats = n]
  <2>1. call' = [call EXCEPT ![c] = q] /\ did' = [did EXCEPT ![c] = d]
    BY <1>6 DEF Fallback, IInv, Invocations
  <2>2. tokens[k] \in Nat /\ usd[k] \in Nat /\ Seen(k) \in Money
        /\ Seen(k).tokens = tokens[k] /\ Seen(k).usd = usd[k]
    BY <1>1 DEF IInv, MoneyOK, Seen, Money
  <2>3. /\ q \in CallType /\ q.pc = "fbchat" /\ q.seen = Seen(k)
        /\ q.model = r.model /\ q.first = r.first /\ q.cfg = r.cfg /\ q.attempt = r.attempt
    BY <1>1, <2>2 DEF CallType, Money
  <2>4. /\ d \in DidType /\ d.chats = n /\ d.tools = did[c].tools
        /\ d.charges = did[c].charges
    BY <1>1 DEF DidType
  <2>5. TrackerOf(q, c) = k
    BY <2>3 DEF TrackerOf
  <2> HIDE DEF q, d
  <2>6. Sound(q)
    BY <1>1, <2>3 DEF Sound, Routed
  <2>7. Covered(q, tokens[k], usd[k], Estimate[FallbackModel], FallbackModel)
    BY <1>6, <2>2, <2>3 DEF Covered, CanSpend
  <2>8. InFlight(q, tokens[TrackerOf(q, c)], usd[TrackerOf(q, c)])
    BY <2>3, <2>5, <2>7 DEF InFlight
  <2>9. Worked(q, d)
    <3> HIDE DEF r
    <3>1. QED
      BY <1>1, <1>4, <1>5, <2>3, <2>4, AfterAttempts
  <2>10. QED
    BY <1>2, <2>1, <2>4, <2>6, <2>8, <2>9, OneMovesFree
<1>7. CASE ~CanSpend(k, Estimate[FallbackModel], FallbackModel)
  <2> DEFINE q == [r EXCEPT !.pc = "failed"]
             d == did[c]
  <2>1. call' = [call EXCEPT ![c] = q] /\ did' = [did EXCEPT ![c] = d]
    BY <1>7 DEF Fallback, IInv, Invocations
  <2>2. /\ q \in CallType /\ q.pc = "failed" /\ q.cfg = r.cfg /\ q.attempt = r.attempt
        /\ q.model \in Models /\ q.first \in Models
    BY <1>1 DEF CallType
  <2> HIDE DEF q
  <2>3. Sound(q) /\ InFlight(q, tokens[TrackerOf(q, c)], usd[TrackerOf(q, c)])
    BY <2>2 DEF Sound, Routed, InFlight
  <2>4. Worked(q, d)
    <3> HIDE DEF r
    <3>1. QED
      BY <1>1, <1>4, <1>5, <2>2, AfterAttempts
  <2>5. QED
    BY <1>1, <1>2, <2>1, <2>3, <2>4, OneMovesFree
<1>8. QED
  BY <1>6, <1>7

\* An invocation on the fallback ends, with nothing charged.
LEMMA FallbackGivesUp ==
  ASSUME IInv, NEW c \in Calls, call[c].pc = "fbchat",
         call' = [call EXCEPT ![c].pc = "failed"], UNCHANGED <<cache, money, did>>
  PROVE  IInv'
<1> DEFINE r == call[c]
           q == [r EXCEPT !.pc = "failed"]
           d == did[c]
<1>1. /\ r \in CallType /\ Sound(r) /\ Worked(r, d) /\ d \in DidType /\ r.pc = "fbchat"
      /\ r.model \in Models /\ r.first \in Models
  BY Numbers DEF Sound, Routed
<1>2. cache' \in [Keys -> {None, "good"}] /\ UNCHANGED money
  BY DEF IInv
<1>3. call' = [call EXCEPT ![c] = q] /\ did' = [did EXCEPT ![c] = d]
  BY DEF IInv, Invocations
<1>4. /\ q \in CallType /\ q.pc = "failed" /\ q.cfg = r.cfg /\ q.attempt = r.attempt
      /\ q.model = r.model /\ q.first = r.first
  BY <1>1 DEF CallType
<1> HIDE DEF r, q, d
<1>5. Sound(q) /\ InFlight(q, tokens[TrackerOf(q, c)], usd[TrackerOf(q, c)])
  BY <1>1, <1>4 DEF Sound, Routed, InFlight
<1>6. Worked(q, d)
  BY <1>1, <1>4 DEF Worked
<1>7. QED
  BY <1>1, <1>2, <1>3, <1>5, <1>6, OneMovesFree

LEMMA FallbackAnswerKeepsIInv ==
  ASSUME IInv, NEW c \in Calls, NEW a \in Answers(FallbackModel), FallbackAnswer(c, a)
  PROVE  IInv'
<1> DEFINE r == call[c]
           k == TrackerOf(r, c)
           value == Parse(r.cfg.json, FALSE, a.text)
           est == Estimate[FallbackModel]
           n == IF a.usage = 0 THEN est ELSE a.usage
<1>1. /\ r \in CallType /\ Sound(r) /\ Worked(r, did[c]) /\ did[c] \in DidType
      /\ r.cfg \in Configs /\ r.attempt \in 1 .. r.cfg.attempts /\ k \in Trackers
      /\ r.seen \in Money
      /\ did[c].chats \in Nat /\ did[c].tools \in Nat /\ did[c].charges \in Nat
  BY Numbers
<1>2. /\ r.pc = "fbchat" /\ r.model \in Models /\ r.first \in Models
      /\ FallbackModel \in Models
  BY <1>1 DEF FallbackAnswer, Sound, Routed
<1>3. CASE value = "good"
  <2> DEFINE q == [r EXCEPT !.pc = "done", !.result = "good"]
             d == [did[c] EXCEPT !.charges = @ + 1]
  <2>1. Charge(k, n, FallbackModel, r.seen, est) /\ cache' = cache
    BY <1>3 DEF FallbackAnswer
  <2>2. call' = [call EXCEPT ![c] = q] /\ did' = [did EXCEPT ![c] = d]
    BY <1>3 DEF FallbackAnswer, IInv, Invocations
  <2>3. est \in Nat /\ n \in Nat
    BY <1>2, PromptAssumption DEF Answers
  <2>4. Covered(r, tokens[k], usd[k], est, FallbackModel)
    BY <1>2 DEF IInv, Invocations, InFlight
  <2>5. /\ MoneyOK' /\ OverspendAccounted'
        /\ \A j \in Trackers : tokens[j] <= tokens'[j] /\ usd[j] <= usd'[j]
    <3> HIDE DEF k, est, n
    <3>1. QED
      BY <1>1, <1>2, <2>1, <2>3, <2>4, ChargeAccounted DEF IInv, Covered
  <2>6. /\ q \in CallType /\ q.pc = "done" /\ q.result = "good" /\ q.cfg = r.cfg
        /\ q.attempt = r.attempt /\ q.model = r.model /\ q.first = r.first
    BY <1>1 DEF CallType, Values
  <2>7. /\ did[c].charges = 0
        /\ did[c].chats <= (r.attempt - 1) * PerAttempt(r.cfg) + PerAttempt(r.cfg) + 1
        /\ did[c].tools <= (r.attempt - 1) * ToolLimit + ToolLimit
    BY <1>1, <1>2 DEF Worked
  <2>8. /\ d \in DidType /\ d.chats = did[c].chats /\ d.tools = did[c].tools
        /\ d.charges = did[c].charges + 1
    BY <1>1 DEF DidType
  <2> HIDE DEF r, q, d
  <2>9. Sound(q) /\ InFlight(q, tokens'[TrackerOf(q, c)], usd'[TrackerOf(q, c)])
    BY <1>2, <2>6 DEF Sound, Routed, InFlight
  <2>10. Worked(q, d)
    BY <1>1, <2>6, <2>7, <2>8, AfterAttempts
  <2>11. cache' \in [Keys -> {None, "good"}]
    BY <2>1 DEF IInv
  <2>12. QED
    BY <2>2, <2>5, <2>8, <2>9, <2>10, <2>11, OneMoves
<1>4. CASE value # "good"
  BY <1>2, <1>4, FallbackGivesUp DEF FallbackAnswer
<1>5. QED
  BY <1>3, <1>4

LEMMA FallbackFailsKeepsIInv ==
  ASSUME IInv, NEW c \in Calls, FallbackFails(c)
  PROVE  IInv'
BY FallbackGivesUp DEF FallbackFails

-----------------------------------------------------------------------------
(* The theorems *)

LEMMA IInvInit == Init => IInv
<1> SUFFICES ASSUME Init PROVE IInv
  OBVIOUS
<1>1. call \in [Calls -> CallType]
  <2>1. \A cfg \in Configs, input \in Inputs : Idle(cfg, input) \in CallType
    BY PromptAssumption DEF Idle, CallType
  <2>2. QED
    BY <2>1 DEF Init
<1>2. did \in [Calls -> DidType]
  BY DEF Init, DidType
<1>3. ASSUME NEW c \in Calls
      PROVE  /\ call[c] \in CallType /\ call[c].pc = "idle" /\ call[c].attempt = 1
             /\ did[c] = [chats |-> 0, tools |-> 0, charges |-> 0]
  BY <1>1 DEF Init, Idle
<1>4. ASSUME NEW c \in Calls
      PROVE  LET k == TrackerOf(call[c], c)
             IN  /\ Sound(call[c]) /\ Worked(call[c], did[c])
                 /\ InFlight(call[c], tokens[k], usd[k])
  <2>1. call[c].cfg \in Configs /\ call[c].attempt \in 1 .. call[c].cfg.attempts
    BY <1>3, ConfigFacts DEF CallType
  <2>2. /\ (call[c].attempt - 1) * PerAttempt(call[c].cfg) = 0
        /\ (call[c].attempt - 1) * ToolLimit = 0 /\ ToolLimit \in Nat
    BY <1>3, <2>1, ConfigFacts, PromptAssumption
  <2>3. Sound(call[c]) /\ InFlight(call[c], tokens[TrackerOf(call[c], c)], usd[TrackerOf(call[c], c)])
    BY <1>3 DEF Sound, Routed, InFlight
  <2>4. did[c].chats = 0 /\ did[c].tools = 0 /\ did[c].charges = 0
    BY <1>3
  <2>5. Worked(call[c], did[c])
    <3>1. call[c].pc = "idle"
      BY <1>3
    <3>2. /\ did[c].chats <= (call[c].attempt - 1) * PerAttempt(call[c].cfg)
          /\ did[c].tools <= (call[c].attempt - 1) * ToolLimit
          /\ did[c].tools <= (call[c].attempt - 1) * ToolLimit + ToolLimit
      BY <2>2, <2>4
    <3>3. QED
      BY <2>1, <2>4, <3>1, <3>2 DEF Worked
  <2>6. QED
    BY <2>3, <2>5
<1>5. Invocations
  BY <1>1, <1>2, <1>4 DEF Invocations
<1>6. MoneyOK /\ OverspendAccounted
  BY PromptAssumption DEF Init, MoneyOK, Money, OverspendAccounted
<1>7. cache \in [Keys -> {None, "good"}]
  BY DEF Init
<1>8. QED
  BY <1>5, <1>6, <1>7 DEF IInv

LEMMA IInvStep == IInv /\ [Next]_vars => IInv'
<1> SUFFICES ASSUME IInv, [Next]_vars PROVE IInv'
  OBVIOUS
<1>1. ASSUME NEW c \in Calls, Step(c) PROVE IInv'
  <2>1. CASE Invoke(c) \/ Lookup(c) \/ Attempt(c) \/ Put(c) \/ Fallback(c)
    BY <2>1, InvokeKeepsIInv, LookupKeepsIInv, AttemptKeepsIInv, PutKeepsIInv, FallbackKeepsIInv
  <2>2. CASE ProviderFails(c) \/ RepairFails(c) \/ FallbackFails(c)
    BY <2>2, ProviderFailsKeepsIInv, RepairFailsKeepsIInv, FallbackFailsKeepsIInv
  <2>3. ASSUME NEW n \in 1 .. ToolLimit + 1, ToolTurn(c, n) PROVE IInv'
    BY <2>3, ToolTurnKeepsIInv
  <2>4. ASSUME NEW m \in Models, NEW a \in Answers(m),
               \/ m = call[c].model /\ (FinalAnswer(c, a) \/ Repair(c, a))
               \/ m = FallbackModel /\ FallbackAnswer(c, a)
        PROVE  IInv'
    BY <2>4, FinalAnswerKeepsIInv, RepairKeepsIInv, FallbackAnswerKeepsIInv
  <2>5. QED
    BY <1>1, <2>1, <2>2, <2>3, <2>4 DEF Step
<1>2. CASE \E k \in Keys : Expire(k)
  BY <1>2, ExpireKeepsIInv
<1>3. CASE UNCHANGED vars
  BY <1>3 DEF vars, IInv, Invocations, MoneyOK, OverspendAccounted
<1>4. QED
  BY <1>1, <1>2, <1>3 DEF Next, AllOver

LEMMA IInvAlways == Spec => []IInv
BY IInvInit, IInvStep, PTL DEF Spec

\* The variables of the prompt functions keep their types.
THEOREM PromptTypeOK == Spec => []TypeOK
<1>1. IInv => TypeOK
  BY DEF IInv, Invocations, TypeOK, MoneyOK, Money, DidType, Values
<1>2. QED
  BY <1>1, IInvAlways, PTL

\* An answer that reaches the caller has passed the validator, whether it comes
\* from a first attempt, a later one, the cache, a repair or the fallback.
THEOREM OnlyValidAnswers == Spec => []AnswersAreValid
<1>1. IInv => AnswersAreValid
  BY DEF IInv, Invocations, Sound, AnswersAreValid
<1>2. QED
  BY <1>1, IInvAlways, PTL

\* A tracker is over its ceilings by no more than what its checks could not see.
THEOREM SpendingAccounted == Spec => []OverspendAccounted
<1>1. IInv => OverspendAccounted
  BY DEF IInv
<1>2. QED
  BY <1>1, IInvAlways, PTL

\* The provider calls, tool runs and charges of an invocation stay within what
\* its prompt and the tool limit allow.
THEOREM WorkBounded == Spec => []WorkIsBounded
<1>1. ASSUME IInv PROVE WorkIsBounded
  <2> SUFFICES ASSUME NEW c \in Calls
               PROVE  LET cfg == call[c].cfg
                      IN  /\ did[c].tools <= cfg.attempts * ToolLimit
                          /\ did[c].chats <= cfg.attempts * PerAttempt(cfg) + 1
                          /\ did[c].charges <= 1
    BY DEF WorkIsBounded, PerAttempt, Turns
  <2> DEFINE r == call[c]
             d == did[c]
             before == (r.attempt - 1) * PerAttempt(r.cfg)
             tools == (r.attempt - 1) * ToolLimit
             most == r.cfg.attempts * PerAttempt(r.cfg)
             mostTools == r.cfg.attempts * ToolLimit
  <2>1. /\ r \in CallType /\ Worked(r, d) /\ d \in DidType /\ r.cfg \in Configs
        /\ r.attempt \in 1 .. r.cfg.attempts /\ d.chats \in Nat /\ d.tools \in Nat
    BY <1>1, Numbers
  <2>2. /\ before \in Nat /\ tools \in Nat /\ before + PerAttempt(r.cfg) <= most
        /\ tools + ToolLimit <= mostTools
    BY <2>1, Attempts
  <2>3. PerAttempt(r.cfg) \in Nat \ {0} /\ ToolLimit \in Nat /\ Turns(r.cfg) <= PerAttempt(r.cfg)
        /\ Turns(r.cfg) \in Nat /\ most \in Nat /\ mostTools \in Nat
    <3>1. /\ PerAttempt(r.cfg) \in Nat \ {0} /\ Turns(r.cfg) <= PerAttempt(r.cfg)
          /\ Turns(r.cfg) \in Nat /\ r.cfg.attempts \in Nat
      BY <2>1, ConfigFacts
    <3>2. ToolLimit \in Nat
      BY PromptAssumption
    <3>3. QED
      BY <3>1, <3>2
  <2>4. d.charges <= 1 /\ d.tools <= tools + ToolLimit
    BY <2>1 DEF Worked
  <2>5. d.chats <= before + PerAttempt(r.cfg) + 1
    <3>1. CASE r.pc \in {"chat", "repair"}
      <4>1. d.chats <= before + PerAttempt(r.cfg)
        BY <2>1, <3>1, ChatWork
      <4> HIDE DEF before
      <4>2. QED
        BY <2>1, <2>2, <2>3, <4>1
    <3>2. CASE r.pc \in {"idle", "lookup", "attempt", "hit"}
      <4>1. d.chats <= before
        BY <2>1, <3>2 DEF Worked
      <4> HIDE DEF before
      <4>2. QED
        BY <2>1, <2>2, <2>3, <4>1
    <3>3. CASE r.pc \in {"put", "fallback"}
      <4>1. d.chats <= before + PerAttempt(r.cfg)
        BY <2>1, <3>3 DEF Worked
      <4> HIDE DEF before
      <4>2. QED
        BY <2>1, <2>2, <2>3, <4>1
    <3>4. CASE r.pc \in {"fbchat", "done", "failed", "broke"}
      BY <2>1, <3>4 DEF Worked
    <3>5. QED
      BY <2>1, <3>1, <3>2, <3>3, <3>4 DEF CallType
  <2> HIDE DEF before, tools, most, mostTools
  <2>6. d.chats <= most + 1 /\ d.tools <= mostTools
    BY <2>1, <2>2, <2>3, <2>4, <2>5
  <2>7. QED
    BY <2>4, <2>6 DEF most, mostTools
<1>2. QED
  BY <1>1, IInvAlways, PTL

=============================================================================
