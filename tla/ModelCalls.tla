------------------------------ MODULE ModelCalls ------------------------------
(* The calls a run makes to the language model (app/llm/client.py) from the  *)
(* nodes that consult it: the router, the strategy action, the insight and   *)
(* the extraction of memories.  In the delivery worker every call is         *)
(* reserved by an acknowledged event before the network and reported by      *)
(* another after it; an event that is not acknowledged is the worker's last. *)
(* Every node has an answer of its own for a model that is absent, fails or answers badly.     *)
(* Plans here have one action, the strategy or a tool's; AgentGraph has the  *)
(* longer ones, their budgets and the verifier.                              *)
EXTENDS Naturals, Sequences, SequencesExt

CONSTANTS
  MaxPasses,  \* passes over the plan, the replan included (2)
  None

VARIABLES
  setting,    \* delivery hooks installed, key missing, prompt of the strategy there
  node,       \* the node at work, "answered", "failed" or "stopped"
  phase,      \* of its call: "idle", "reserving", "sent", "telling", "concluding"
  body,       \* what the provider's response amounts to
  trace,      \* model_traces, with what the parent was told of each call
  usage,      \* rows of the usage collector
  intent, chunks,
  passes,     \* failed passes over the plan, by their reason
  made        \* how each node came by its result

mvars == <<setting, node, phase, body, trace, usage, intent, chunks, passes, made>>

Ended == {"answered", "failed", "stopped"}

\* "off_schema" stands for text that is no JSON too; an "empty" answer fits the
\* schema and says nothing; a "blank" one fits it too, with recommendations but an
\* empty diagnosis, with candidates but one of them without a subject.
Body == {"error", "no_usage", "off_schema", "empty", "blank", "unsure", "good"}

-----------------------------------------------------------------------------
(* One call                                                                 *)

\* Without a key the runtime has no model, and nothing else replaces it.
HasModel == ~ setting.stub

\* The strategy needs its prompt too; the insight is only asked to word what no
\* deterministic rendering covers.
Consults == /\ HasModel
            /\ node = "execute" => intent = "strategy" /\ chunks # None /\ setting.prompt
            /\ node = "insight" => intent = "strategy" /\ made.execute = "insufficient"

Ask ==
  /\ node \notin Ended /\ phase = "idle" /\ Consults
  /\ trace' = Append(trace, [status |-> "requested", acked |-> FALSE, told |-> None])
  /\ phase' = IF setting.observed THEN "reserving" ELSE "sent"
  /\ UNCHANGED <<setting, node, body, usage, intent, chunks, passes, made>>

\* The parent has recorded the input and reserved its cost.
Reserved ==
  /\ node \notin Ended /\ phase = "reserving"
  /\ trace' = [trace EXCEPT ![Len(trace)].acked = TRUE]
  /\ phase' = "sent"
  /\ UNCHANGED <<setting, node, body, usage, intent, chunks, passes, made>>

\* A response without usage is a failure where somebody counts it.
Completes(b) == b # "error" /\ (b = "no_usage" => ~ setting.observed)

\* The usage is recorded before the parent is told of it.
Respond(b) ==
  /\ node \notin Ended /\ phase = "sent"
  /\ body' = IF b = "no_usage" /\ Completes(b) THEN "good" ELSE b
  /\ trace' = [trace EXCEPT ![Len(trace)].status = IF Completes(b) THEN "completed" ELSE "failed"]
  /\ usage' = IF setting.observed /\ Completes(b) THEN usage + 1 ELSE usage
  /\ phase' = IF setting.observed THEN "telling" ELSE "concluding"
  /\ UNCHANGED <<setting, node, intent, chunks, passes, made>>

Told ==
  /\ node \notin Ended /\ phase = "telling"
  /\ trace' = [trace EXCEPT ![Len(trace)].told =
       IF trace[Len(trace)].status = "completed" THEN "usage" ELSE "error"]
  /\ phase' = "concluding"
  /\ UNCHANGED <<setting, node, body, usage, intent, chunks, passes, made>>

\* Mutant: a rejected event is an error like any other, and the node falls back.
RejectedFallsBack ==
  /\ node \notin Ended /\ setting.observed
  /\ phase \in {"idle", "reserving", "telling"}
  /\ IF phase = "idle" THEN node' = "stopped" /\ UNCHANGED <<phase, body>>
     ELSE phase' = "concluding" /\ body' = "error" /\ UNCHANGED node
  /\ UNCHANGED <<setting, trace, usage, intent, chunks, passes, made>>

\* An event the parent does not acknowledge is the worker's last.  The parent answers no
\* refusal: it recycles the worker, which is killed as it waits (WorkerStopped, no
\* Exception, would pass every handler of the nodes too).  When the parent is gone the wait
\* ends in an EOFError, which a node takes for a failed call; what it makes of that is
\* left out here, for its next event, before any other call, ends the run.
Rejected ==
  /\ node \notin Ended /\ setting.observed
  /\ phase \in {"idle", "reserving", "telling"}
  /\ node' = "stopped"
  /\ UNCHANGED <<setting, phase, body, trace, usage, intent, chunks, passes, made>>

-----------------------------------------------------------------------------
(* The nodes                                                                *)

\* Ready to conclude: the call is over, or there is none to make.
Concludes(n) == node = n /\ (phase = "concluding" \/ (phase = "idle" /\ ~ Consults))
Answer == IF phase = "concluding" THEN body ELSE None

\* Below 0.6 of confidence, and without an answer, the keywords decide.
Router ==
  /\ Concludes("router")
  /\ made' = [made EXCEPT !.router = IF Answer = "good" THEN "llm" ELSE "rule"]
  /\ intent' \in {"strategy", "metric"}
  /\ node' = "execute" /\ phase' = "idle"
  /\ UNCHANGED <<setting, body, trace, usage, chunks, passes>>

\* MAX_RUN_SECONDS are over: a pass finds so when it begins, and so does every later one.
Late == \E i \in DOMAIN passes : passes[i] = "timeout"
Begins == node = "execute" /\ phase = "idle" /\ chunks = None

\* A missing collection or reranker is caught; a model that embeds no query and a
\* search that fails are not.
Retrieve(found) ==
  /\ Begins /\ ~ Late /\ intent = "strategy" /\ found # "raises"
  /\ chunks' = found
  /\ UNCHANGED <<setting, node, phase, body, trace, usage, intent, passes, made>>

\* A failed action ends its pass; after the last one the evidence is insufficient.
Fail(reason) ==
  /\ passes' = Append(passes, reason)
  /\ chunks' = None /\ phase' = "idle"
  /\ IF Len(passes) + 1 < MaxPasses THEN UNCHANGED <<node, made>>
     ELSE node' = "insight" /\ made' = [made EXCEPT !.execute = "insufficient"]
  /\ UNCHANGED <<setting, body, trace, usage, intent>>

RetrieveRaises ==
  /\ Begins /\ ~ Late /\ intent = "strategy"
  /\ Fail("raises")

\* agent_timeout: the action is not tried.
TimesOut == Begins /\ Fail("timeout")

\* The recommendations of the model, else of the chunks, else that there are none.
Generation(answer) ==
  IF answer \in {"good", "unsure"} THEN "llm"
  ELSE IF chunks = "some" THEN "template" ELSE "unavailable"

\* A decision has a diagnosis; absent parts are filled in, a blank one is refused.
Decides(answer) == answer # "blank"

Strategy ==
  /\ Concludes("execute") /\ intent = "strategy" /\ chunks # None
  /\ IF ~ Decides(Answer) THEN Fail("blank")
     ELSE /\ made' = [made EXCEPT !.execute = Generation(Answer)]
          /\ node' = "insight" /\ phase' = "idle"
          /\ UNCHANGED <<setting, body, trace, usage, intent, chunks, passes>>

\* The tools' actions need no model.
Tool ==
  /\ Begins /\ ~ Late /\ intent = "metric"
  /\ \/ Fail("tool")
     \/ /\ made' = [made EXCEPT !.execute = "tool"]
        /\ node' = "insight"
        /\ UNCHANGED <<setting, phase, body, trace, usage, intent, chunks, passes>>

Insight ==
  /\ Concludes("insight")
  /\ made' = [made EXCEPT !.insight =
       CASE Answer \in Body \ {"error", "no_usage", "empty"} -> "llm"
         [] intent = "metric" \/ made.execute # "insufficient" -> "deterministic"
         [] OTHER -> "template"]
  /\ node' = "learn" /\ phase' = "idle"
  /\ UNCHANGED <<setting, body, trace, usage, intent, chunks, passes>>

\* An extraction that fails yields no candidate and no error; what is extracted goes
\* through the policy gate, which raises on a candidate without a subject.
Gated(answer) == answer # "blank"

Learn ==
  /\ Concludes("learn")
  /\ IF Gated(Answer)
     THEN /\ made' = [made EXCEPT !.learn =
               IF Answer \in {"good", "unsure"} THEN "candidates" ELSE "none"]
          /\ node' = "answered"
     ELSE node' = "failed" /\ UNCHANGED made
  /\ phase' = "idle"
  /\ UNCHANGED <<setting, body, trace, usage, intent, chunks, passes>>

-----------------------------------------------------------------------------

CallsInit ==
  /\ setting \in [observed : BOOLEAN, stub : BOOLEAN, prompt : BOOLEAN]
  /\ node = "router" /\ phase = "idle" /\ body = None
  /\ trace = <<>> /\ usage = 0 /\ intent = None /\ chunks = None /\ passes = <<>>
  /\ made = [router |-> None, execute |-> None, insight |-> None, learn |-> None]

CallsNext ==
  \/ Ask \/ Reserved \/ Told \/ Rejected
  \/ \E b \in Body : Respond(b)
  \/ Router \/ Strategy \/ Tool \/ Insight \/ Learn \/ RetrieveRaises \/ TimesOut
  \/ \E found \in {"some", "none"} : Retrieve(found)

CallsSpec == CallsInit /\ [][CallsNext]_mvars

-----------------------------------------------------------------------------
(* Properties                                                               *)

Calls == DOMAIN trace
Completed == {i \in Calls : trace[i].status = "completed"}

\* In the worker no call reaches the network before the parent has acknowledged it,
\* and one is over, and told, before the next is asked (_before_network).
CallsAreReserved ==
  setting.observed =>
    /\ \A i \in Calls : trace[i].status # "requested" => trace[i].acked
    /\ \A i \in Calls : i < Len(trace) => trace[i].told # None

\* Of an answered run the parent was told every call once: with usage exactly when the
\* collector has its row, whatever the node then made of the answer (_after_network).
CallsAreTold ==
  setting.observed =>
    /\ usage = Len(SelectSeq(trace, LAMBDA c : c.status = "completed"))
    /\ node = "answered" =>
         \A i \in Calls : trace[i].told = IF i \in Completed THEN "usage" ELSE "error"

\* A call whose acknowledgement is missing was the worker's last: nothing is asked and
\* no run answered after a rejection (executor._recycle, WorkerStopped).
RejectionStops ==
  setting.observed /\ node # "stopped" =>
    \A i \in Calls :
      \/ trace[i].told # None
      \/ i = Len(trace) /\ phase \in {"reserving", "sent", "telling"}

\* What a node says it has from the model it has from a completed call, and without a
\* model a run is answered all the same; a strategy by itself is only insufficient when
\* in every pass the retrieval raised, the diagnosis was blank or the time was over (the
\* fallback matrix).
FallbacksHold ==
  /\ \A n \in DOMAIN made : made[n] = "llm" => Completed # {}
  /\ made.learn = "candidates" => Completed # {}
  /\ intent = "strategy" /\ made.execute = "insufficient" =>
       Len(passes) = MaxPasses /\ \A i \in 1..MaxPasses : passes[i] \in {"raises", "blank", "timeout"}
  /\ setting.stub => trace = <<>> /\ made.insight # "llm"
  /\ node = "answered" => \A n \in DOMAIN made : made[n] # None
=============================================================================
