--------------------------- MODULE StructuredCall ---------------------------
(***************************************************************************)
(* One structured answer from a language model (LangChainStructured-       *)
(* Generator): the strategies a model is capable of are tried in order,    *)
(* each with retries of answers that do not validate and, inside each,     *)
(* retries of requests that failed for a moment.  Tokens are counted.      *)
(***************************************************************************)
EXTENDS Naturals, Sequences, FiniteSets

CONSTANTS
  MaxAttempts,   \* MAX_STRUCTURED_ATTEMPTS, answers asked of one strategy
  MaxTransport,  \* MAX_TRANSPORT_ATTEMPTS, requests made for one answer
  Refusals,      \* exceptions a request may end in
  Answers        \* what a provider may answer
ASSUME CallAssumption ==
  /\ {MaxAttempts, MaxTransport} \subseteq Nat \ {0}
  /\ \A x \in Refusals \cup Answers : x.cost \in Nat

VARIABLES
  gen,    \* the call being made
  tokens  \* history: the tokens the provider reported, and those of them that
          \* were lost with a strategy given up after it had answered

calls == <<gen, tokens>>

DefaultCapabilities == <<"native", "json_mode", "raw_json">>

(* DeepSeek's reasoners do not support the native path.                    *)
ResolveCapabilities(provider, model) ==
  IF provider # "deepseek" THEN DefaultCapabilities
  ELSE IF model = "reasoner" THEN <<"raw_json">>
  ELSE IF model = "v4" THEN <<"json_mode", "raw_json">>
  ELSE DefaultCapabilities

(* An exception has the status of its own or of the response it carries,   *)
(* says words of some lists of markers, is of a type, and reports tokens.   *)
StatusOf(e) == IF e.direct # 0 THEN e.direct ELSE e.nested

(* classify_request_error: the first of these that applies.                *)
Classify(e) ==
  IF StatusOf(e) \in {401, 403} \/ "auth" \in e.says THEN "permanent"
  ELSE IF \/ StatusOf(e) \in {429, 500, 502, 503, 504}
          \/ e.type = "TimeoutError" \/ "transient" \in e.says THEN "transient"
  ELSE IF \/ e.type \in {"NotImplementedError", "AttributeError"} \/ "local" \in e.says
          \/ StatusOf(e) \in {400, 404, 422} /\ "capability" \in e.says THEN "capability"
  ELSE "unknown"

(* Raw answers are JSON text, in a fence for JSON or in none.              *)
HasJsonText(answer) == answer.form \in {"text", "fenced", "parts"}

Accepted(strategy, answer) ==
  answer.valid /\ IF strategy = "raw_json" THEN HasJsonText(answer) ELSE answer.parsed

NoCall == [pc |-> "off", ways |-> <<>>, way |-> 0, attempt |-> 0, tries |-> 0,
           here |-> 0, sofar |-> 0, prior |-> 0, usage |-> 0]
NoTokens == [spent |-> 0, lost |-> 0]

Generate(provider, model) ==
  [NoCall EXCEPT !.pc = "open", !.ways = ResolveCapabilities(provider, model), !.way = 1]

Strategy == gen.ways[gen.way]
Raise == gen' = [gen EXCEPT !.pc = "failed"]

(* Variant, to test UsageAddsUp: only the last strategy's tokens count.     *)
GiveUp_Forgets(used) ==
  gen' = IF gen.way = Len(gen.ways) THEN [gen EXCEPT !.pc = "failed"]
         ELSE [gen EXCEPT !.pc = "open", !.way = @ + 1, !.prior = used]

(* A strategy the model cannot follow leaves its usage to the next one.     *)
GiveUp(used) ==
  gen' = IF gen.way = Len(gen.ways) THEN [gen EXCEPT !.pc = "failed", !.prior = @ + used]
         ELSE [gen EXCEPT !.pc = "open", !.way = @ + 1, !.prior = @ + used]

-----------------------------------------------------------------------------
(* The model is asked for a runnable of the strategy; raw JSON needs none.  *)
StrategyInvoke ==
  /\ gen.pc = "open"
  /\ gen' = [gen EXCEPT !.pc = "invoke", !.attempt = 0, !.tries = 0, !.here = 0, !.sofar = 0]
  /\ UNCHANGED tokens

StrategyInvokeFails(e) ==
  /\ gen.pc = "open" /\ Strategy # "raw_json"
  /\ IF Classify(e) = "capability" THEN GiveUp(0) ELSE Raise
  /\ UNCHANGED tokens

(* A request fails: the strategy is given up, the request is made again     *)
(* after a while, or the call fails.  The usage of a strategy given up is   *)
(* that of the requests for this answer only.                              *)
InvokeFails(e) ==
  /\ gen.pc = "invoke"
  /\ \/ Classify(e) = "capability" /\ GiveUp(gen.here + e.cost)
     \/ /\ Classify(e) = "transient" /\ gen.tries + 1 < MaxTransport
        /\ gen' = [gen EXCEPT !.tries = @ + 1, !.here = @ + e.cost]
     \/ /\ Classify(e) # "capability"
        /\ Classify(e) = "transient" => gen.tries + 1 >= MaxTransport
        /\ Raise
  /\ tokens' = [tokens EXCEPT
       !.spent = @ + e.cost,
       !.lost = IF Classify(e) = "capability" THEN @ + gen.sofar ELSE @]

(* An answer is the value of the call, is followed by a request that quotes *)
(* what was wrong with it, or is the last; one without a message fails.     *)
Answered(answer) ==
  /\ gen.pc = "invoke"
  /\ LET sofar == gen.sofar + gen.here + answer.cost
     IN  \/ /\ answer.form # "none" /\ Accepted(Strategy, answer)
            /\ gen' = [gen EXCEPT !.pc = "done", !.sofar = sofar, !.usage = gen.prior + sofar]
         \/ /\ answer.form # "none" /\ ~Accepted(Strategy, answer)
            /\ gen.attempt + 1 < MaxAttempts
            /\ gen' = [gen EXCEPT !.attempt = @ + 1, !.tries = 0, !.here = 0, !.sofar = sofar]
         \/ /\ answer.form # "none" => ~Accepted(Strategy, answer) /\ gen.attempt + 1 = MaxAttempts
            /\ Raise
  /\ tokens' = [tokens EXCEPT !.spent = @ + answer.cost]

CallInit == /\ \E provider \in {"deepseek", "other"}, model \in {"reasoner", "v4", "chat"} :
                 gen = Generate(provider, model)
            /\ tokens = NoTokens

CallNext ==
  \/ StrategyInvoke
  \/ \E e \in Refusals : StrategyInvokeFails(e)
  \/ \E e \in Refusals : InvokeFails(e)
  \/ \E a \in Answers : Answered(a)

CallSpec == CallInit /\ [][CallNext]_calls

-----------------------------------------------------------------------------
(* The usage a call reports is every token the provider reported on the    *)
(* way to it: of failed requests, of answers that did not validate and of  *)
(* strategies given up, except for the answers a strategy gave before it   *)
(* was given up, which the code loses.                                     *)
UsageAddsUp == gen.pc = "done" => gen.usage + tokens.lost = tokens.spent
=============================================================================
