------------------------------ MODULE Planning ------------------------------
(* Task planning of one Run: ModelTaskPlanner (planning/model.py) asks a model
   for the acceptance plan and the first execution plan, then _PlanningSession
   (harness/_planning.py) stands between the kernel and its tools, context and
   monitor, and lets the concurrent update_plan calls of a batch revise the
   steps.

   A criterion is identified with the host capability it selects; of steps only
   the criteria they name are kept.  What a model writes is arbitrary.        *)
EXTENDS OutputRecovery, Integers, SequencesExt

CONSTANTS
  Capabilities,     \* the host's VerificationCapability values
  Required,         \* those with the flag required
  Constraints,      \* those with the flag constraint
  Stranger,         \* an id no capability or criterion has
  Undefined,        \* no usage, no checkpoint, no plan
  PlannerRetries,   \* limits.max_format_retries
  PlannerTokens,    \* limits.max_tokens
  MaxPlannerReply,  \* bound on the tokens of one request
  MaxRevision,      \* bound on the plan versions of a Run
  MaxCaptures,      \* bound on its checkpoints
  MaxCalls          \* bound on the update_plan calls of a batch

ASSUME PlanningAssumption ==
  /\ Required \subseteq Capabilities /\ Constraints \subseteq Capabilities
  /\ Stranger \notin Capabilities
  /\ PlannerRetries \in Nat /\ PlannerTokens \in Nat \ {0} /\ MaxPlannerReply \in Nat
  /\ MaxRevision \in Nat /\ MaxCaptures \in Nat /\ MaxCalls \in Nat
  /\ Undefined \notin Nat

VARIABLES
  stage,      \* where the Run is
  quit,       \* its token is cancelled
  reminder,   \* _format_reminder, left by the tasks before
  sent,       \* requests; also the retry_index of the next one
  counted,    \* usage.total_tokens so far
  uncounted,  \* unreported
  account,    \* the planning_usage record of the Run
  accepted,   \* criteria of the EvaluationPlan
  plan,       \* the ExecutionPlan: version, criteria its steps name, basis
  checkpoint, \* checkpoint id, Undefined if the last capture did not succeed
  captures,   \* captures begun, the source of checkpoint ids
  calls,      \* update_plan calls of the batch that have not executed
  used,       \* history: tokens the model used
  log         \* history: captures and revisions in the order they happened

planner == <<reminder, sent, counted, uncounted, account, used>>
session == <<accepted, plan, checkpoint, captures, calls, log>>
planningVars == <<stage, quit, planner, session>>

Preparing == {"ask", "open"}
Running == {"capture", "turn", "batch"}

PlanningInit ==
  /\ stage = "ask" /\ quit = FALSE
  /\ reminder \in BOOLEAN
  /\ sent = 0 /\ counted = 0 /\ uncounted = FALSE
  /\ account = Undefined
  /\ accepted = {} /\ plan = Undefined
  /\ checkpoint = Undefined /\ captures = 0 /\ calls = 0
  /\ used = 0 /\ log = <<>>

Requirements == accepted \ Constraints

(* ExecutionPlan.validate_against *)
Covers(steps, criteria) == criteria \ Constraints \subseteq steps /\ steps \subseteq criteria

-----------------------------------------------------------------------------
(* Preparation *)

FailsCounting(n, u) ==  \* mutant: a failed request is left out of the sum
  account' = [requests |-> n, usage |-> IF n = 0 THEN Undefined ELSE counted]

(* a PlanningError carries the requests, and the usage if all of it is known *)
Fails(n, u) ==
  account' = [requests |-> n, usage |-> IF u \/ n = 0 THEN Undefined ELSE counted']

(* the head of the retry loop *)
AskModel ==
  /\ stage = "ask" /\ ~quit
  /\ IF counted >= PlannerTokens
       THEN stage' = "failed" /\ UNCHANGED <<sent, counted, uncounted>> /\ Fails(sent, uncounted)
       ELSE /\ stage' = "open" /\ sent' = sent + 1 /\ uncounted' = TRUE
            /\ UNCHANGED <<counted, account>>
  /\ UNCHANGED <<quit, reminder, used, session>>

(* the prompt, with what it is reminded of, is above max_prompt_bytes *)
PromptTooLong ==
  /\ stage = "ask" /\ ~quit
  /\ stage' = "failed" /\ UNCHANGED <<sent, counted, uncounted>> /\ Fails(sent, uncounted)
  /\ UNCHANGED <<quit, reminder, used, session>>

(* the model fails, breaks the protocol, is too slow, or counts no tokens *)
RequestFails ==
  /\ stage = "open"
  /\ used' \in used..(used + MaxPlannerReply)
  /\ stage' = "failed" /\ UNCHANGED <<sent, counted, uncounted>> /\ Fails(sent, uncounted)
  /\ UNCHANGED <<quit, reminder, session>>

(* what a well formed output can propose *)
Outputs ==
  [unsupported : BOOLEAN, criteria : (SUBSET (Capabilities \cup {Stranger})) \ {{}},
   steps : (SUBSET (Capabilities \cup {Stranger})) \ {{}}]

(* _bind *)
Binds(o) ==
  /\ ~o.unsupported
  /\ o.criteria \subseteq Capabilities /\ Required \subseteq o.criteria
  /\ o.criteria \ Constraints # {}
  /\ Covers(o.steps, o.criteria)

(* the bound definition is the Run's first plan, unless the harness refuses it:
   the monitor does not validate it, or a tool is called update_plan *)
Bind(o) ==
  /\ account' = [requests |-> sent, usage |-> counted']
  /\ \/ stage' = "failed" /\ UNCHANGED <<accepted, plan>>
     \/ /\ stage' = "capture"
        /\ accepted' = o.criteria
        /\ plan' = [version |-> 1, steps |-> o.steps, basis |-> Undefined]

(* a response whose usage is known; one that cannot be used ends the planning,
   a format error does when the retries are spent *)
Respond ==
  /\ stage = "open"
  /\ \E n \in 0..MaxPlannerReply : counted' = counted + n /\ used' = used + n
  /\ uncounted' = FALSE
  /\ \/ /\ stage' = "failed" /\ Fails(sent, FALSE)
        /\ UNCHANGED <<reminder, accepted, plan>>
     \/ /\ counted' <= PlannerTokens
        /\ \E text \in Texts :
             /\ reminder' = Reminds(ParseOutcome[text])
             /\ IF ParseOutcome[text] \in Accepted
                  THEN \E o \in Outputs :
                         IF Binds(o) THEN Bind(o)
                         ELSE /\ stage' = "failed" /\ Fails(sent, FALSE)
                              /\ UNCHANGED <<accepted, plan>>
                  ELSE /\ IF sent > PlannerRetries
                            THEN stage' = "failed" /\ Fails(sent, FALSE)
                            ELSE stage' = "ask" /\ UNCHANGED account
                       /\ UNCHANGED <<accepted, plan>>
  /\ UNCHANGED <<quit, sent, checkpoint, captures, calls, log>>

(* RunCancelledError: nothing is known of requests and usage *)
PlanningCancelled ==
  /\ stage \in Preparing /\ quit
  /\ stage' = "failed"
  /\ account' = [requests |-> Undefined, usage |-> Undefined]
  /\ used' \in (IF stage = "open" THEN used..(used + MaxPlannerReply) ELSE {used})
  /\ UNCHANGED <<quit, reminder, sent, counted, uncounted, session>>

-----------------------------------------------------------------------------
(* The session *)

(* the monitor returns a receipt, or fails: then it is not called again *)
Capture ==
  /\ stage = "capture" /\ captures < MaxCaptures
  /\ captures' = captures + 1
  /\ \/ /\ checkpoint' = captures'
        /\ log' = Append(log, [kind |-> "captured", id |-> captures'])
     \/ /\ checkpoint' = Undefined
        /\ log' = Append(log, [kind |-> "lost", id |-> captures'])
  /\ stage' = "turn"
  /\ UNCHANGED <<quit, planner, accepted, plan, calls>>

Monitored == log = <<>> \/ Last(log).kind # "lost"

(* a batch of tool calls, some of them update_plan *)
Propose ==
  /\ stage = "turn" /\ ~quit
  /\ calls' \in 0..MaxCalls
  /\ stage' = "batch"
  /\ UNCHANGED <<quit, planner, accepted, plan, checkpoint, captures, log>>

UpdateUncompared(expected, basis, steps) ==  \* mutant: the version is only recorded
  /\ checkpoint # Undefined /\ basis = checkpoint /\ Covers(steps, accepted)

(* what update_plan compares before it replaces the plan *)
Admits(expected, basis, steps) ==
  /\ expected = plan.version
  /\ checkpoint # Undefined /\ basis = checkpoint
  /\ Covers(steps, accepted)

(* one call, without an await: the plan is revised or the call is rejected *)
Update ==
  /\ stage = "batch" /\ calls > 0 /\ ~quit
  /\ calls' = calls - 1
  /\ \E expected \in 1..MaxRevision, basis \in 0..MaxCaptures,
        steps \in (SUBSET (Capabilities \cup {Stranger})) \ {{}} :
       IF Admits(expected, basis, steps)
         THEN /\ plan.version < MaxRevision
              /\ plan' = [version |-> plan.version + 1, steps |-> steps, basis |-> checkpoint]
              /\ log' = Append(log, [kind |-> "revised", id |-> basis, from |-> expected])
         ELSE UNCHANGED <<plan, log>>
  /\ UNCHANGED <<stage, quit, planner, accepted, checkpoint, captures>>

(* the batch has returned; an active monitor captures it *)
Return ==
  /\ stage = "batch" /\ calls = 0
  /\ stage' = IF Monitored THEN "capture" ELSE "turn"
  /\ UNCHANGED <<quit, planner, session>>

(* close_run at the end of the Run, whatever ends it *)
EndRun ==
  /\ stage \in Running
  /\ stage' = "closed" /\ checkpoint' = Undefined /\ calls' = 0
  /\ UNCHANGED <<quit, planner, accepted, plan, captures, log>>

Quit ==
  /\ ~quit /\ stage \in Preparing \cup Running
  /\ quit' = TRUE
  /\ UNCHANGED <<stage, planner, session>>

PlanningNext ==
  \/ AskModel \/ PromptTooLong \/ RequestFails \/ Respond \/ PlanningCancelled
  \/ Capture \/ Propose \/ Update \/ Return \/ EndRun \/ Quit

PlanningSpec == PlanningInit /\ [][PlanningNext]_planningVars

-----------------------------------------------------------------------------
(* Every variable stays in the range the code gives it. *)
PlanningTypeOK ==
  /\ stage \in Preparing \cup Running \cup {"failed", "closed"}
  /\ quit \in BOOLEAN /\ reminder \in BOOLEAN /\ uncounted \in BOOLEAN
  /\ sent \in Nat /\ counted \in Nat /\ used \in Nat
  /\ account = Undefined \/
       account \in [requests : Nat \cup {Undefined}, usage : Nat \cup {Undefined}]
  /\ accepted \subseteq Capabilities
  /\ plan = Undefined \/
       plan \in [version : Nat, steps : SUBSET Capabilities, basis : Nat \cup {Undefined}]
  /\ checkpoint \in Nat \cup {Undefined} /\ captures \in Nat /\ calls \in Nat
  /\ log \in Seq([kind : {"captured", "lost"}, id : Nat]
                   \cup [kind : {"revised"}, id : Nat, from : Nat])

(* The audit tells every token the planner used, or that it does not know;
   the overshoot of the budget is at most one request. *)
PlannerSpendingIsKnown ==
  /\ account # Undefined /\ account.usage # Undefined =>
       account.usage = used /\ account.requests = sent
  /\ sent <= PlannerRetries + 1
  /\ used < PlannerTokens + MaxPlannerReply \/ MaxPlannerReply = 0

(* No plan of the Run, first or revised, drops a condition of the host or a
   requirement of the task, or serves a criterion that is not accepted. *)
PlanCoversAcceptance ==
  plan # Undefined =>
    /\ Required \subseteq accepted /\ Requirements # {}
    /\ Requirements \subseteq plan.steps /\ plan.steps \subseteq accepted

(* Of the concurrent proposals that name the version they saw one is taken,
   and every revision rests on the newest capture, which succeeded. *)
RevisionsAreGrounded ==
  \A i \in 1..Len(log) : log[i].kind = "revised" =>
    \E j \in 1..i - 1 :
      /\ log[j] = [kind |-> "captured", id |-> log[i].id]
      /\ \A k \in j + 1..i - 1 : log[k].kind = "revised" /\ log[k].from < log[i].from

(* Every plan the kernel's turns are guided by covers what the host accepts,
   and every revision of it rests on the state it claims to know. *)
PlansAreGrounded == PlanCoversAcceptance /\ RevisionsAreGrounded
=============================================================================
