------------------------------- MODULE Kernel -------------------------------
(***************************************************************************)
(* RuntimeKernel.run (kernel/runtime.py) with _RunWorkspace: one Run, from *)
(* its first turn to its outcome.  The Run suspends while its monitor, its *)
(* context pipeline, its model or its batch of tools works; the tools of a *)
(* batch are concurrent tasks.  cancel() may come at any moment; every     *)
(* answer its dependencies' contracts allow may come, in any order.        *)
(*                                                                         *)
(* A tool call is a fresh id and a signature (its name and arguments); *)
(* of a text only that there is one.  Steering is left to Harness.         *)
(***************************************************************************)
EXTENDS Integers, Sequences, FiniteSets, SequencesExt

CONSTANTS
  None,         \* no outcome yet, no token budget, no signature
  Signatures,   \* the distinct calls a model makes
  MaxBatch,     \* bound on the calls of one message
  MaxUsage,     \* bound on the tokens of one request
  MaxTurns,     \* limits.max_turns
  MaxRepeated,  \* limits.max_repeated_tool_calls
  MaxRetries,   \* completion_policy.max_retries
  TokenLimits   \* the values of limits.max_tokens, None for no limit

(* how run() ends: a StopReason, or an exception that escapes *)
Outcomes ==
  {"text_response", "tool_completion", "tool_rejected", "tool_cancelled",
   "external_abort", "max_steps", "repeated_tool_call", "token_budget_exceeded",
   "usage_unavailable", "completion_audit_failed", "context_failed", "model_failed",
   "tool_failed", "raised"}

ASSUME KernelAssumption ==
  /\ None \notin Signatures \cup Outcomes
  /\ MaxBatch \in Nat \ {0} /\ MaxUsage \in Nat
  /\ MaxTurns \in Nat \ {0} /\ MaxRepeated \in Nat \ {0} /\ MaxRetries \in Nat
  /\ TokenLimits \subseteq (Nat \ {0}) \cup {None}

VARIABLES
  spec,       \* the RunSpec: enforce, plan, limit
  pc,         \* where run() is
  cancelled,  \* the CancellationToken
  turn,       \* workspace.turn
  requests,   \* model requests begun
  reported,   \* of which the usage is known
  spent,      \* tokens they used
  delta,      \* the messages this Run adds
  lastCall,   \* the repeat guard: signature of the last call proposed
  repeats,    \* and how often it came in a row
  active,     \* capture.active
  allowed,    \* capture.completion_allowed
  rejections, \* completion_rejections
  feedback,   \* completion_feedback is staged
  batch,      \* calls of the message in hand
  task,       \* per call of the batch: its task
  error,      \* the first exception of the batch
  outcome,    \* None, or how run() ended
  approved,   \* history: turns whose claim the monitor allowed
  rejected,   \* history: turns whose claim was rejected
  proposed    \* history: the calls the model proposed, over all turns

usage == <<requests, reported, spent>>
guard == <<lastCall, repeats>>
monitor == <<active, allowed>>
policy == <<rejections, feedback>>
tools == <<batch, task, error>>
history == <<approved, rejected, proposed>>
vars == <<spec, pc, cancelled, turn, requests, reported, spent, delta, lastCall, repeats,
          active, allowed, rejections, feedback, batch, task, error, outcome,
          approved, rejected, proposed>>

Specs == [enforce : BOOLEAN, plan : BOOLEAN, limit : TokenLimits]

User == [kind |-> "user", turn |-> 0, prose |-> TRUE, calls |-> <<>>]
Text == [kind |-> "text", turn |-> turn, prose |-> TRUE, calls |-> <<>>]
Proposal(calls, prose) ==
  [kind |-> "calls", turn |-> turn, prose |-> prose, calls |-> calls]
Result(call) ==
  [kind |-> "result", turn |-> turn, prose |-> FALSE, calls |-> <<call>>]

(* A TASK Run; a CompletionMode.ENFORCE needs a trajectory monitor *)
Init ==
  /\ spec \in Specs
  /\ active \in BOOLEAN /\ (spec.enforce => active)
  /\ pc = IF active THEN "baseline" ELSE "turn"
  /\ allowed = "unknown"
  /\ cancelled = FALSE
  /\ turn = 0
  /\ requests = 0 /\ reported = 0 /\ spent = 0
  /\ delta = <<User>>
  /\ lastCall = None /\ repeats = 0
  /\ rejections = 0 /\ feedback = FALSE
  /\ batch = <<>> /\ task = <<>> /\ error = "none"
  /\ outcome = None
  /\ approved = {} /\ rejected = {} /\ proposed = <<>>

End(how) == pc' = "done" /\ outcome' = how
Continue(place) == pc' = place /\ UNCHANGED outcome

(* RunCancelledError: the token was cancelled before the awaited work ended *)
Abort == cancelled /\ End("external_abort")

-----------------------------------------------------------------------------
Cancel ==
  /\ ~cancelled /\ pc # "done"
  /\ cancelled' = TRUE
  /\ UNCHANGED <<spec, pc, turn, usage, delta, guard, monitor, policy, tools, outcome,
                 history>>

Capturing == {"baseline", "claim", "observe", "tool claim"}

(* trajectory.capture returns a receipt, or fails and is not called again *)
Capture ==
  /\ pc \in Capturing
  /\ UNCHANGED <<spec, cancelled, turn, usage, delta, guard, policy, tools, rejected,
                 proposed>>
  /\ \/ /\ Abort
        /\ UNCHANGED <<monitor, approved>>
     \/ /\ \/ active' = TRUE /\ allowed' \in {"yes", "no", "unknown"}
           \/ active' = FALSE /\ allowed' = "unknown"
        /\ approved' = IF pc \in {"claim", "tool claim"} /\ allowed' = "yes"
                         THEN approved \cup {turn} ELSE approved
        /\ Continue(CASE pc = "baseline" -> "turn"
                      [] pc = "observe"  -> "after batch"
                      [] OTHER           -> "decide")

ExhaustedOver ==  \* mutant: > instead of >=
  /\ spec.limit # None /\ requests > 0
  /\ reported < requests \/ spent > spec.limit

(* _budget_failure *)
Exhausted ==
  /\ spec.limit # None /\ requests > 0
  /\ reported < requests \/ spent >= spec.limit

(* the head of the loop, up to the context pipeline *)
Turn ==
  /\ pc = "turn"
  /\ UNCHANGED <<spec, cancelled, usage, delta, guard, monitor, rejections, tools, history>>
  /\ \/ turn = MaxTurns /\ End("max_steps") /\ UNCHANGED <<turn, feedback>>
     \/ turn < MaxTurns /\ Abort /\ UNCHANGED <<turn, feedback>>
     \/ /\ turn < MaxTurns /\ ~cancelled /\ Exhausted
        /\ End(IF reported < requests THEN "usage_unavailable"
                                      ELSE "token_budget_exceeded")
        /\ UNCHANGED <<turn, feedback>>
     \/ /\ turn < MaxTurns /\ ~cancelled /\ ~Exhausted
        /\ turn' = turn + 1
        /\ Continue("context")
        /\ UNCHANGED feedback

(* _build_context; the view carries the staged feedback *)
BuildContext ==
  /\ pc = "context"
  /\ UNCHANGED <<spec, cancelled, turn, reported, spent, delta, guard, monitor, rejections,
                 tools, history>>
  /\ \/ /\ Abort \/ End("context_failed") \/ End("raised")
        /\ UNCHANGED <<requests, feedback>>
     \/ /\ feedback' = FALSE
        /\ requests' = requests + 1
        /\ IF cancelled THEN End("external_abort") ELSE Continue("model")


(* usage.record: tokens used, or none reported *)
RecordUsage ==
  \/ UNCHANGED <<reported, spent>>
  \/ /\ reported' = reported + 1
     /\ spent' \in spent..(spent + MaxUsage)

(* calls the model had not issued before in this Run: it answers once a turn *)
Batches ==
  UNION {{[i \in 1..n |-> [id |-> <<turn, i>>, signature |-> s[i]]] : s \in [1..n -> Signatures]}
           : n \in 1..MaxBatch}

(* record_tool_call for one call, and for those of a message in order, as the
   loop over them does until the limit is reached *)
RecordCall(g, call) ==
  IF g.repeats >= MaxRepeated THEN g
  ELSE [last |-> call.signature,
        repeats |-> IF call.signature = g.last THEN g.repeats + 1 ELSE 1]

RecordedFrom(start, calls) ==
  LET g[i \in 0..Len(calls)] == IF i = 0 THEN start ELSE RecordCall(g[i - 1], calls[i])
  IN g[Len(calls)]

RecordedPerMessage(calls) ==  \* mutant: the guard starts again with every message
  RecordedFrom([last |-> None, repeats |-> 0], calls)

Recorded(calls) == RecordedFrom([last |-> lastCall, repeats |-> repeats], calls)

(* the model answers with a text: a completion claim *)
RespondText ==
  /\ pc = "model"
  /\ RecordUsage
  /\ delta' = Append(delta, Text)
  /\ allowed' = "unknown"
  /\ batch' = <<>> /\ task' = <<>>
  /\ Continue(IF active THEN "claim" ELSE "decide")
  /\ UNCHANGED <<spec, cancelled, turn, requests, guard, active, policy, error, history>>

(* the model proposes tool calls; the repeat guard stops the Run before any
   of them executes, or a task is created for each *)
RespondCalls ==
  /\ pc = "model"
  /\ RecordUsage
  /\ \E calls \in Batches, prose \in BOOLEAN :
       /\ delta' = Append(delta, Proposal(calls, prose))
       /\ proposed' = proposed \o calls
       /\ lastCall' = Recorded(calls).last /\ repeats' = Recorded(calls).repeats
       /\ IF repeats' >= MaxRepeated
            THEN /\ End("repeated_tool_call")
                 /\ UNCHANGED <<batch, task>>
            ELSE /\ Continue("tools")
                 /\ batch' = calls
                 /\ task' = [i \in 1..Len(calls) |-> "created"]
  /\ UNCHANGED <<spec, cancelled, turn, requests, monitor, policy, error, approved, rejected>>

(* cancelled, a ModelCallError, or a protocol error: an unknown event, a
   stream without an end, a call id used before *)
ModelFails ==
  /\ pc = "model"
  /\ Abort \/ End("model_failed") \/ End("raised")
  /\ UNCHANGED <<spec, cancelled, turn, usage, delta, guard, monitor, policy, tools, history>>

-----------------------------------------------------------------------------
(* _execute_tools: one task per call *)
Controls == {"continue", "complete", "reject", "cancel"}
Alive == {"created", "running", "unwinding"}

StartToolAnyway(i) ==  \* mutant: the token is not looked at first
  /\ pc = "tools" /\ task[i] = "created"
  /\ task' = [task EXCEPT ![i] = "running"]
  /\ UNCHANGED <<spec, pc, cancelled, turn, usage, delta, guard, monitor, policy, batch,
                 error, outcome, history>>

(* the work of a call begins unless the Run has been cancelled *)
StartTool(i) ==
  /\ pc = "tools" /\ task[i] = "created"
  /\ task' = [task EXCEPT ![i] = IF cancelled THEN "ended" ELSE "running"]
  /\ error' = IF cancelled /\ error = "none" THEN "cancelled" ELSE error
  /\ UNCHANGED <<spec, pc, cancelled, turn, usage, delta, guard, monitor, policy, batch,
                 outcome, history>>

(* a call of a name that no tool has is answered with an error result *)
UnknownTool(i) ==
  /\ pc = "tools" /\ task[i] = "created"
  /\ task' = [task EXCEPT ![i] = "continue"]
  /\ UNCHANGED <<spec, pc, cancelled, turn, usage, delta, guard, monitor, policy, batch,
                 error, outcome, history>>

ReturnTool(i) ==
  /\ pc = "tools" /\ task[i] = "running"
  /\ \E control \in Controls : task' = [task EXCEPT ![i] = control]
  /\ UNCHANGED <<spec, pc, cancelled, turn, usage, delta, guard, monitor, policy, batch,
                 error, outcome, history>>

(* cancelled, a ToolExecutionError, or any other error *)
FailTool(i) ==
  /\ pc = "tools" /\ task[i] = "running"
  /\ task' = [task EXCEPT ![i] = "ended"]
  /\ \E kind \in {"tool_failed", "raised"} \cup (IF cancelled THEN {"cancelled"} ELSE {}) :
       error' = IF error = "none" THEN kind ELSE error
  /\ UNCHANGED <<spec, pc, cancelled, turn, usage, delta, guard, monitor, policy, batch,
                 outcome, history>>

CancelToolsForgotten ==  \* mutant: tasks are awaited but not cancelled
  /\ pc = "tools" /\ error # "none"
  /\ Continue("aborting")
  /\ UNCHANGED <<spec, cancelled, turn, usage, delta, guard, monitor, policy, tools,
                 history>>

(* gather raised the first exception: the other tasks are cancelled ... *)
CancelTools ==
  /\ pc = "tools" /\ error # "none"
  /\ Continue("aborting")
  /\ task' = [i \in DOMAIN task |-> CASE task[i] = "created" -> "ended"
                                      [] task[i] = "running" -> "unwinding"
                                      [] OTHER               -> task[i]]
  /\ UNCHANGED <<spec, cancelled, turn, usage, delta, guard, monitor, policy, batch, error,
                 history>>

UnwindTool(i) ==
  /\ pc = "aborting" /\ task[i] = "unwinding"
  /\ task' = [task EXCEPT ![i] = "ended"]
  /\ UNCHANGED <<spec, pc, cancelled, turn, usage, delta, guard, monitor, policy, batch,
                 error, outcome, history>>

AbortBatchAtOnce ==  \* mutant: cancelled tasks are not awaited
  /\ pc = "aborting"
  /\ End(IF error = "cancelled" THEN "external_abort" ELSE error)
  /\ UNCHANGED <<spec, cancelled, turn, usage, delta, guard, monitor, policy, tools, history>>

(* ... and awaited, before run() ends by the first exception *)
AbortBatch ==
  /\ pc = "aborting" /\ \A i \in DOMAIN task : task[i] \notin Alive
  /\ End(IF error = "cancelled" THEN "external_abort" ELSE error)
  /\ UNCHANGED <<spec, cancelled, turn, usage, delta, guard, monitor, policy, tools, history>>

(* every call returned: the results are appended in the order of the calls *)
CollectResults ==
  /\ pc = "tools" /\ error = "none" /\ \A i \in DOMAIN task : task[i] \in Controls
  /\ delta' = delta \o [i \in 1..Len(batch) |-> Result(batch[i])]
  /\ Continue(IF active THEN "observe" ELSE "after batch")
  /\ UNCHANGED <<spec, cancelled, turn, usage, guard, monitor, policy, tools, history>>

(* the first control of the batch that is not CONTINUE, "continue" if none *)
Terminal ==
  LET stops == SelectSeq(task, LAMBDA c : c # "continue")
  IN IF stops = <<>> THEN "continue" ELSE Head(stops)

ToolClaim == Terminal = "complete" /\ spec.plan /\ active

AfterBatchKeeping ==  \* mutant: the receipt of the tool batch counts for the claim
  /\ pc = "after batch"
  /\ Continue(IF Terminal = "continue" THEN "turn"
              ELSE IF ToolClaim THEN "tool claim" ELSE "decide")
  /\ UNCHANGED <<spec, cancelled, turn, usage, delta, guard, monitor, policy, tools, history>>

(* the loop goes on, or the batch ends the Run *)
AfterBatch ==
  /\ pc = "after batch"
  /\ IF Terminal = "continue"
       THEN Continue("turn") /\ UNCHANGED allowed
       ELSE /\ allowed' = "unknown"
            /\ Continue(IF ToolClaim THEN "tool claim" ELSE "decide")
  /\ UNCHANGED <<spec, cancelled, turn, usage, delta, guard, active, policy, tools, history>>

-----------------------------------------------------------------------------
Claim == batch = <<>> \/ Terminal = "complete"
Refused == Claim /\ spec.enforce /\ allowed # "yes"

Accept ==
  /\ pc = "decide" /\ ~Refused
  /\ End(IF batch = <<>> THEN "text_response"
         ELSE CASE Terminal = "complete" -> "tool_completion"
                [] Terminal = "reject"   -> "tool_rejected"
                [] OTHER                 -> "tool_cancelled")
  /\ UNCHANGED <<spec, cancelled, turn, usage, delta, guard, monitor, policy, tools, history>>

WithoutClaimKept == delta  \* mutant: the claim stays in the Run's delta

(* discard_completion_claim: a text goes, tool calls stay without the prose *)
WithoutClaim ==
  IF batch = <<>> THEN Front(delta)
                  ELSE [delta EXCEPT ![Len(delta) - Len(batch)].prose = FALSE]

Retry == active /\ rejections + 1 <= MaxRetries /\ turn < MaxTurns /\ ~Exhausted

(* _reject_completion *)
Reject ==
  /\ pc = "decide" /\ Refused
  /\ rejections' = rejections + 1
  /\ delta' = WithoutClaim
  /\ rejected' = rejected \cup {turn}
  /\ IF Retry
       THEN feedback' = TRUE /\ Continue("turn")
       ELSE feedback' = FALSE /\ End("completion_audit_failed")
  /\ UNCHANGED <<spec, cancelled, turn, usage, guard, monitor, tools, approved, proposed>>

-----------------------------------------------------------------------------
Tool(i) ==
  StartTool(i) \/ UnknownTool(i) \/ ReturnTool(i) \/ FailTool(i) \/ UnwindTool(i)

Run ==
  \/ Capture \/ Turn \/ BuildContext
  \/ RespondText \/ RespondCalls \/ ModelFails
  \/ CancelTools \/ AbortBatch \/ CollectResults \/ AfterBatch
  \/ Accept \/ Reject

Next == Cancel \/ Run \/ \E i \in DOMAIN task : Tool(i)

Spec == Init /\ [][Next]_vars

(* the coroutine runs, and what it awaits answers *)
Fairness == WF_vars(Run) /\ \A i \in 1..MaxBatch : WF_vars(i \in DOMAIN task /\ Tool(i))

FairSpec == Spec /\ Fairness

-----------------------------------------------------------------------------
(* Every variable stays in the range the code gives it. *)
TypeOK ==
  /\ spec \in Specs /\ cancelled \in BOOLEAN
  /\ pc \in Capturing \cup {"turn", "context", "model", "tools", "aborting", "after batch",
                            "decide", "done"}
  /\ turn \in 0..MaxTurns
  /\ requests \in 0..turn /\ reported \in 0..requests /\ spent \in 0..(reported * MaxUsage)
  /\ lastCall \in Signatures \cup {None} /\ repeats \in 0..MaxRepeated
  /\ active \in BOOLEAN /\ allowed \in {"yes", "no", "unknown"}
  /\ rejections \in 0..turn /\ feedback \in BOOLEAN
  /\ Len(task) = Len(batch)
  /\ \A i \in DOMAIN task : task[i] \in Controls \cup Alive \cup {"ended"}
  /\ error \in {"none", "cancelled", "tool_failed", "raised"}
  /\ outcome \in Outcomes \cup {None} /\ (outcome # None <=> pc = "done")

Completed == outcome \in {"text_response", "tool_completion"}

(* Under ENFORCE a Run is COMPLETED only by a claim the monitor has allowed:
   no receipt of an earlier claim, of the baseline or of a tool batch counts,
   and neither does a capture that failed. *)
CompletedIsApproved == Completed /\ spec.enforce => turn \in approved

Answered(i) ==
  LET calls == delta[i].calls
  IN /\ i + Len(calls) <= Len(delta)
     /\ \A k \in 1..Len(calls) :
          delta[i + k].kind = "result" /\ delta[i + k].calls = <<calls[k]>>

(* What a model is asked to continue, and what a COMPLETED Run adds to the
   Conversation, answers every tool call once, in order, right after the
   message that made it; prose of a rejected claim is in neither. *)
DeltaIsWellFormed ==
  pc = "context" \/ pc = "model" \/ Completed =>
    \A i \in 1..Len(delta) :
      /\ delta[i].kind = "calls" => Answered(i)
      /\ delta[i].turn \in rejected => ~delta[i].prose
      /\ delta[i].kind = "text" => i = Len(delta) /\ Completed

(* run() returns only when no tool of it is executing any more. *)
NoToolOutlivesTheRun == pc = "done" => \A i \in DOMAIN task : task[i] \notin Alive

(* Across turns and within a batch, the same call never executes as often in
   a row as the repeat guard allows it to be proposed. *)
RepeatedCallsDoNotExecute ==
  pc = "tools" =>
    \A i \in 1..Len(proposed) : \A j \in i..Len(proposed) :
      (\A k \in i..j : proposed[k].signature = proposed[i].signature)
        => j - i + 1 < MaxRepeated

(* Once the Run is cancelled no model request and no tool begins, and it never
   claims to have been cancelled when it was not. *)
CancelStopsWork ==
  [][/\ cancelled =>
          /\ pc' = "model" => pc = "model"
          /\ \A i \in DOMAIN task : task[i] = "created" => task'[i] # "running"
     /\ outcome' = "external_abort" => cancelled]_vars

(* The model is told why it is asked again exactly after a rejected claim, and
   a claim is rejected at most MaxRetries + 1 times. *)
FeedbackFollowsRejection ==
  /\ pc = "context" => (feedback <=> turn - 1 \in rejected)
  /\ Cardinality(rejected) <= MaxRetries + 1

(* A request begins only while every token of the earlier ones is known and
   their sum is below the limit: the overshoot is at most one request. *)
BudgetIsRespected ==
  spec.limit # None /\ pc = "model" => reported = requests - 1 /\ spent < spec.limit

(* After a failed capture the monitor is not called again and no claim is
   approved by it. *)
MonitorFailureIsFinal ==
  [][~active => ~active' /\ pc' \notin Capturing /\ approved' = approved]_vars

(* Every Run ends, whatever its dependencies answer. *)
RunEnds == <>(pc = "done")
=============================================================================
