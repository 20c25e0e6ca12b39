--------------------------- MODULE MCPromptCaller ---------------------------
(***************************************************************************)
(* Two invocations over prompts that differ in what they do about a bad    *)
(* answer.  The prices are chosen so that a ceiling is met after one or    *)
(* two answers, and the fallback costs more than the first tier.           *)
(***************************************************************************)
EXTENDS PromptCaller, TLC

CONSTANTS c1, c2, small, large, none, trace

Base == [model |-> none, onInvalid |-> "retry", attempts |-> 2, cached |-> FALSE,
         tools |-> FALSE, json |-> TRUE, gated |-> FALSE, shared |-> TRUE]

MCConfigs ==
    {[Base EXCEPT !.model = small, !.tools = TRUE],
     [Base EXCEPT !.onInvalid = "escalate", !.cached = TRUE, !.gated = TRUE],
     [Base EXCEPT !.onInvalid = "repair"],
     [Base EXCEPT !.onInvalid = "fail", !.json = FALSE, !.shared = FALSE]}

MCInputs == {none, 2}
MCTiers == <<[max |-> 3, model |-> small], [max |-> none, model |-> large]>>
MCEstimate == small :> 2 @@ large :> 3
MCRate == small :> 1 @@ large :> 2

=============================================================================
