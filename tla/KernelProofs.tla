---------------------------- MODULE KernelProofs ----------------------------
(***************************************************************************)
(* Proofs about Kernel: what holds of one Run for every number of turns,   *)
(* retries, tools in a batch and tokens, whatever its dependencies answer. *)
(***************************************************************************)
EXTENDS Kernel, FiniteSetTheorems, FunctionTheorems, TLAPS

(* The counters, as far as the arguments below need their types. *)
Counting ==
  /\ spec \in Specs /\ cancelled \in BOOLEAN
  /\ turn \in Nat /\ requests \in Nat /\ reported \in Nat /\ spent \in Nat
  /\ rejections \in Nat /\ feedback \in BOOLEAN /\ active \in BOOLEAN
  /\ outcome # None => pc = "done"

(* Where "yes" can be the answer to the claim in hand, it is. *)
Approving ==
  /\ pc = "decide" /\ allowed = "yes" => turn \in approved
  /\ CompletedIsApproved

(* Tools execute only while run() awaits their batch. *)
Quiet == pc \notin {"tools", "aborting"} => \A i \in DOMAIN task : task[i] \notin Alive

(* The monitor is awaited only while it is active. *)
Monitoring == pc \in Capturing => active

(* A batch or a Run is recorded as cancelled only when it was. *)
Aborting ==
  /\ error \in {"none", "cancelled", "tool_failed", "raised"}
  /\ error = "cancelled" => cancelled
  /\ outcome = "external_abort" => cancelled

(* No request is accounted for twice, and before one begins all are known. *)
Budgeting ==
  /\ reported <= requests /\ (pc = "model" => reported < requests)
  /\ requests = 0 => spent = 0
  /\ pc = "context" /\ spec.limit # None => reported = requests /\ spent < spec.limit
  /\ BudgetIsRespected

(* A rejected turn is over, and its feedback is staged until the next one. *)
Explaining ==
  /\ rejected \subseteq 1..turn
  /\ pc \notin {"baseline", "turn", "done"} => turn >= 1
  /\ turn \in rejected => pc \in {"turn", "done"}
  /\ pc = "turn" => (feedback <=> turn \in rejected)
  /\ pc = "context" => (feedback <=> turn - 1 \in rejected)
  /\ pc \notin {"turn", "context", "done"} => ~feedback
  /\ Cardinality(rejected) = rejections
  /\ rejections <= MaxRetries + 1
  /\ pc # "done" => rejections <= MaxRetries

Inductive ==
  /\ Counting /\ Approving /\ Quiet /\ Monitoring /\ Aborting /\ Budgeting /\ Explaining

(* The counters keep their types. *)
LEMMA CountingStep ==
  ASSUME Inductive, [Next]_vars
  PROVE  Counting'
<1> USE DEF Inductive
<1>1. CASE Cancel
  BY <1>1, KernelAssumption DEF Cancel, usage, guard, monitor, policy, tools, history, Counting
<1>2. CASE Capture
  BY <1>2, KernelAssumption DEF Capture, Continue, Abort, Capturing, usage, guard, monitor, policy, tools, End, Counting
<1>3. CASE Turn
  BY <1>3, KernelAssumption DEF Turn, End, Continue, Abort, usage, guard, monitor, tools, history, Counting
<1>4. CASE BuildContext
  <2>1. /\ UNCHANGED <<spec, cancelled, turn, reported, spent, active, rejections>>
        /\ requests' \in {requests, requests + 1} /\ feedback' \in {feedback, FALSE}
    BY <1>4 DEF BuildContext, monitor
  <2>2. outcome' # None => pc' = "done"
    BY <1>4 DEF BuildContext, Abort, End, Continue, Counting
  <2>3. spec' \in Specs /\ cancelled' \in BOOLEAN /\ active' \in BOOLEAN
    BY <2>1 DEF Counting
  <2>4. turn' \in Nat /\ reported' \in Nat /\ spent' \in Nat /\ rejections' \in Nat
    BY <2>1 DEF Counting
  <2>5. requests' \in Nat
    BY <2>1 DEF Counting
  <2>6. feedback' \in BOOLEAN
    <3>1. feedback' = feedback \/ feedback' = FALSE
      BY <2>1, Zenon
    <3>2. feedback \in BOOLEAN
      BY DEF Counting
    <3>3. QED
      BY <3>1, <3>2, Zenon
  <2>7. QED
    BY <2>2, <2>3, <2>4, <2>5, <2>6 DEF Counting
<1>5. CASE RespondText
  BY <1>5, KernelAssumption DEF RespondText, Continue, RecordUsage, guard, policy, history, Counting
<1>6. CASE RespondCalls
  BY <1>6, KernelAssumption DEF RespondCalls, End, Continue, RecordUsage, monitor, policy, tools, history, Counting
<1>7. CASE ModelFails
  BY <1>7, KernelAssumption DEF ModelFails, End, Abort, usage, guard, monitor, policy, tools, history, Counting
<1>8. CASE CancelTools
  BY <1>8, KernelAssumption DEF CancelTools, Continue, usage, guard, monitor, policy, tools, history, Counting
<1>9. CASE AbortBatch
  BY <1>9, KernelAssumption DEF AbortBatch, End, Alive, usage, guard, monitor, policy, tools, history, Counting
<1>10. CASE CollectResults
  BY <1>10, KernelAssumption DEF CollectResults, Continue, Controls, usage, guard, monitor, policy, tools, history, Counting
<1>11. CASE AfterBatch
  BY <1>11, KernelAssumption DEF AfterBatch, Continue, ToolClaim, usage, guard, policy, tools, history, Counting
<1>12. CASE Accept
  BY <1>12, KernelAssumption DEF Accept, End, Refused, usage, guard, monitor, policy, tools, history, Claim, Counting
<1>13. CASE Reject
  <2>1. /\ UNCHANGED <<spec, cancelled, turn, requests, reported, spent, active>>
        /\ rejections' = rejections + 1 /\ feedback' \in BOOLEAN
    BY <1>13 DEF Reject, usage, monitor
  <2>2. outcome' # None => pc' = "done"
    BY <1>13 DEF Reject, End, Continue, Counting
  <2>3. QED
    BY <2>1, <2>2 DEF Counting
<1>14. ASSUME NEW i \in DOMAIN task, Tool(i) PROVE Counting'
  <2>1. CASE StartTool(i)
    BY <2>1, KernelAssumption DEF StartTool, usage, guard, monitor, policy, tools, history, Counting
  <2>2. CASE ReturnTool(i)
    BY <2>2, KernelAssumption DEF ReturnTool, Controls, usage, guard, monitor, policy, tools, history, Counting
  <2>3. CASE FailTool(i)
    BY <2>3, KernelAssumption DEF FailTool, usage, guard, monitor, policy, tools, history, Counting
  <2>4. CASE UnwindTool(i)
    BY <2>4, KernelAssumption DEF UnwindTool, usage, guard, monitor, policy, history, Counting
  <2>5. CASE UnknownTool(i)
    BY <2>5, KernelAssumption DEF UnknownTool, usage, guard, monitor, policy, tools, history, Counting
  <2>6. QED
    BY <1>14, <2>1, <2>2, <2>3, <2>4, <2>5 DEF Tool
<1>15. CASE UNCHANGED vars
  BY <1>15 DEF vars, Counting
<1>16. QED
  BY <1>1, <1>2, <1>3, <1>4, <1>5, <1>6, <1>7, <1>8, <1>9, <1>10, <1>11, <1>12, <1>13, <1>14, <1>15 DEF Next, Run

(* An answer to an older claim is forgotten before the next is decided. *)
LEMMA ApprovingStep ==
  ASSUME Inductive, [Next]_vars
  PROVE  Approving'
<1> USE DEF Inductive
<1>1. CASE Cancel
  BY <1>1 DEF Cancel, usage, guard, monitor, policy, tools, history, Aborting, Approving, CompletedIsApproved, Completed
<1>2. CASE Capture
  BY <1>2 DEF Capture, Continue, Abort, Capturing, usage, guard, monitor, policy, tools, End, Aborting, Approving, CompletedIsApproved, Completed
<1>3. CASE Turn
  <2>1. pc' # "decide" /\ UNCHANGED <<spec, approved>>
    BY <1>3 DEF Turn, End, Continue, Abort, history
  <2>2. outcome' \in {outcome, "max_steps", "external_abort", "usage_unavailable",
                      "token_budget_exceeded"}
    BY <1>3 DEF Turn, End, Continue, Abort
  <2>3. outcome = None
    BY <1>3 DEF Turn, Counting
  <2>4. ~Completed'
    BY <2>2, <2>3, KernelAssumption DEF Completed, Outcomes
  <2>5. QED
    BY <2>1, <2>4 DEF Approving, CompletedIsApproved
<1>4. CASE BuildContext
  BY <1>4 DEF BuildContext, End, Continue, Abort, guard, monitor, tools, history, Aborting, Approving, CompletedIsApproved, Completed
<1>5. CASE RespondText
  BY <1>5 DEF RespondText, Continue, RecordUsage, guard, policy, history, Aborting, Approving, CompletedIsApproved, Completed
<1>6. CASE RespondCalls
  BY <1>6 DEF RespondCalls, End, Continue, RecordUsage, monitor, policy, tools, history, Aborting, Approving, CompletedIsApproved, Completed
<1>7. CASE ModelFails
  BY <1>7 DEF ModelFails, End, Abort, usage, guard, monitor, policy, tools, history, Aborting, Approving, CompletedIsApproved, Completed
<1>8. CASE CancelTools
  BY <1>8 DEF CancelTools, Continue, usage, guard, monitor, policy, tools, history, Aborting, Approving, CompletedIsApproved, Completed
<1>9. CASE AbortBatch
  BY <1>9 DEF AbortBatch, End, Alive, usage, guard, monitor, policy, tools, history, Aborting, Approving, CompletedIsApproved, Completed
<1>10. CASE CollectResults
  BY <1>10 DEF CollectResults, Continue, Controls, usage, guard, monitor, policy, tools, history, Aborting, Approving, CompletedIsApproved, Completed
<1>11. CASE AfterBatch
  BY <1>11 DEF AfterBatch, Continue, ToolClaim, usage, guard, policy, tools, history, Aborting, Approving, CompletedIsApproved, Completed
<1>12. CASE Accept
  BY <1>12 DEF Accept, End, Refused, usage, guard, monitor, policy, tools, history, Claim, Aborting, Approving, CompletedIsApproved, Completed
<1>13. CASE Reject
  BY <1>13 DEF Reject, End, Continue, Refused, usage, guard, monitor, tools, Claim, Aborting, Approving, CompletedIsApproved, Completed
<1>14. ASSUME NEW i \in DOMAIN task, Tool(i) PROVE Approving'
  <2>1. CASE StartTool(i)
    BY <2>1 DEF StartTool, usage, guard, monitor, policy, tools, history, Aborting, Approving, CompletedIsApproved, Completed
  <2>2. CASE ReturnTool(i)
    BY <2>2 DEF ReturnTool, Controls, usage, guard, monitor, policy, tools, history, Aborting, Approving, CompletedIsApproved, Completed
  <2>3. CASE FailTool(i)
    BY <2>3 DEF FailTool, usage, guard, monitor, policy, tools, history, Aborting, Approving, CompletedIsApproved, Completed
  <2>4. CASE UnwindTool(i)
    BY <2>4 DEF UnwindTool, usage, guard, monitor, policy, history, Aborting, Approving, CompletedIsApproved, Completed
  <2>5. CASE UnknownTool(i)
    BY <2>5 DEF UnknownTool, usage, guard, monitor, policy, tools, history, Aborting, Approving, CompletedIsApproved, Completed
  <2>6. QED
    BY <1>14, <2>1, <2>2, <2>3, <2>4, <2>5 DEF Tool
<1>15. CASE UNCHANGED vars
  BY <1>15 DEF vars, Aborting, Approving, CompletedIsApproved, Completed
<1>16. QED
  BY <1>1, <1>2, <1>3, <1>4, <1>5, <1>6, <1>7, <1>8, <1>9, <1>10, <1>11, <1>12, <1>13, <1>14, <1>15 DEF Next, Run

(* Tools execute only while their batch is awaited. *)
LEMMA QuietStep ==
  ASSUME Inductive, [Next]_vars
  PROVE  Quiet'
<1> USE DEF Inductive
<1>1. CASE Cancel
  BY <1>1 DEF Cancel, usage, guard, monitor, policy, tools, history, Quiet, Alive
<1>2. CASE Capture
  BY <1>2 DEF Capture, Continue, Abort, Capturing, usage, guard, monitor, policy, tools, End, Quiet, Alive
<1>3. CASE Turn
  BY <1>3 DEF Turn, End, Continue, Abort, usage, guard, monitor, tools, history, Quiet, Alive
<1>4. CASE BuildContext
  BY <1>4 DEF BuildContext, End, Continue, Abort, guard, monitor, tools, history, Quiet, Alive
<1>5. CASE RespondText
  BY <1>5 DEF RespondText, Continue, RecordUsage, guard, policy, history, Quiet, Alive
<1>6. CASE RespondCalls
  BY <1>6 DEF RespondCalls, End, Continue, RecordUsage, monitor, policy, tools, history, Quiet, Alive
<1>7. CASE ModelFails
  BY <1>7 DEF ModelFails, End, Abort, usage, guard, monitor, policy, tools, history, Quiet, Alive
<1>8. CASE CancelTools
  BY <1>8 DEF CancelTools, Continue, usage, guard, monitor, policy, tools, history, Quiet, Alive
<1>9. CASE AbortBatch
  BY <1>9 DEF AbortBatch, End, Alive, usage, guard, monitor, policy, tools, history, Quiet
<1>10. CASE CollectResults
  BY <1>10 DEF CollectResults, Continue, Controls, usage, guard, monitor, policy, tools, history, Quiet, Alive
<1>11. CASE AfterBatch
  BY <1>11 DEF AfterBatch, Continue, ToolClaim, usage, guard, policy, tools, history, Quiet, Alive
<1>12. CASE Accept
  BY <1>12 DEF Accept, End, Refused, usage, guard, monitor, policy, tools, history, Claim, Quiet, Alive
<1>13. CASE Reject
  BY <1>13 DEF Reject, End, Continue, Refused, usage, guard, monitor, tools, Claim, Quiet, Alive
<1>14. ASSUME NEW i \in DOMAIN task, Tool(i) PROVE Quiet'
  <2>1. CASE StartTool(i)
    BY <2>1 DEF StartTool, usage, guard, monitor, policy, tools, history, Quiet, Alive
  <2>2. CASE ReturnTool(i)
    BY <2>2 DEF ReturnTool, Controls, usage, guard, monitor, policy, tools, history, Quiet, Alive
  <2>3. CASE FailTool(i)
    BY <2>3 DEF FailTool, usage, guard, monitor, policy, tools, history, Quiet, Alive
  <2>4. CASE UnwindTool(i)
    BY <2>4 DEF UnwindTool, usage, guard, monitor, policy, history, Quiet, Alive
  <2>5. CASE UnknownTool(i)
    BY <2>5 DEF UnknownTool, usage, guard, monitor, policy, tools, history, Quiet, Alive
  <2>6. QED
    BY <1>14, <2>1, <2>2, <2>3, <2>4, <2>5 DEF Tool
<1>15. CASE UNCHANGED vars
  BY <1>15 DEF vars, Quiet, Alive
<1>16. QED
  BY <1>1, <1>2, <1>3, <1>4, <1>5, <1>6, <1>7, <1>8, <1>9, <1>10, <1>11, <1>12, <1>13, <1>14, <1>15 DEF Next, Run

(* A monitor that failed is not awaited again. *)
LEMMA MonitoringStep ==
  ASSUME Inductive, [Next]_vars
  PROVE  Monitoring'
<1> USE DEF Inductive
<1>1. CASE Cancel
  BY <1>1 DEF Cancel, usage, guard, monitor, policy, tools, history, Monitoring, Capturing
<1>2. CASE Capture
  BY <1>2 DEF Capture, Continue, Abort, Capturing, usage, guard, monitor, policy, tools, End, Monitoring
<1>3. CASE Turn
  BY <1>3 DEF Turn, End, Continue, Abort, usage, guard, monitor, tools, history, Monitoring, Capturing
<1>4. CASE BuildContext
  BY <1>4 DEF BuildContext, End, Continue, Abort, guard, monitor, tools, history, Monitoring, Capturing
<1>5. CASE RespondText
  BY <1>5 DEF RespondText, Continue, RecordUsage, guard, policy, history, Monitoring, Capturing
<1>6. CASE RespondCalls
  BY <1>6 DEF RespondCalls, End, Continue, RecordUsage, monitor, policy, tools, history, Monitoring, Capturing
<1>7. CASE ModelFails
  BY <1>7 DEF ModelFails, End, Abort, usage, guard, monitor, policy, tools, history, Monitoring, Capturing
<1>8. CASE CancelTools
  BY <1>8 DEF CancelTools, Continue, usage, guard, monitor, policy, tools, history, Monitoring, Capturing
<1>9. CASE AbortBatch
  BY <1>9 DEF AbortBatch, End, Alive, usage, guard, monitor, policy, tools, history, Monitoring, Capturing
<1>10. CASE CollectResults
  BY <1>10 DEF CollectResults, Continue, Controls, usage, guard, monitor, policy, tools, history, Monitoring, Capturing
<1>11. CASE AfterBatch
  BY <1>11 DEF AfterBatch, Continue, ToolClaim, usage, guard, policy, tools, history, Monitoring, Capturing
<1>12. CASE Accept
  BY <1>12 DEF Accept, End, Refused, usage, guard, monitor, policy, tools, history, Claim, Monitoring, Capturing
<1>13. CASE Reject
  BY <1>13 DEF Reject, End, Continue, Refused, usage, guard, monitor, tools, Claim, Monitoring, Capturing
<1>14. ASSUME NEW i \in DOMAIN task, Tool(i) PROVE Monitoring'
  <2>1. CASE StartTool(i)
    BY <2>1 DEF StartTool, usage, guard, monitor, policy, tools, history, Monitoring, Capturing
  <2>2. CASE ReturnTool(i)
    BY <2>2 DEF ReturnTool, Controls, usage, guard, monitor, policy, tools, history, Monitoring, Capturing
  <2>3. CASE FailTool(i)
    BY <2>3 DEF FailTool, usage, guard, monitor, policy, tools, history, Monitoring, Capturing
  <2>4. CASE UnwindTool(i)
    BY <2>4 DEF UnwindTool, usage, guard, monitor, policy, history, Monitoring, Capturing
  <2>5. CASE UnknownTool(i)
    BY <2>5 DEF UnknownTool, usage, guard, monitor, policy, tools, history, Monitoring, Capturing
  <2>6. QED
    BY <1>14, <2>1, <2>2, <2>3, <2>4, <2>5 DEF Tool
<1>15. CASE UNCHANGED vars
  BY <1>15 DEF vars, Monitoring, Capturing
<1>16. QED
  BY <1>1, <1>2, <1>3, <1>4, <1>5, <1>6, <1>7, <1>8, <1>9, <1>10, <1>11, <1>12, <1>13, <1>14, <1>15 DEF Next, Run

(* Nothing is recorded as cancelled that was not. *)
LEMMA AbortingStep ==
  ASSUME Inductive, [Next]_vars
  PROVE  Aborting'
<1> USE DEF Inductive
<1>1. CASE Cancel
  BY <1>1 DEF Cancel, usage, guard, monitor, policy, tools, history, Aborting
<1>2. CASE Capture
  BY <1>2 DEF Capture, Continue, Abort, Capturing, usage, guard, monitor, policy, tools, End, Aborting
<1>3. CASE Turn
  BY <1>3 DEF Turn, End, Continue, Abort, usage, guard, monitor, tools, history, Aborting
<1>4. CASE BuildContext
  BY <1>4 DEF BuildContext, End, Continue, Abort, guard, monitor, tools, history, Aborting
<1>5. CASE RespondText
  BY <1>5 DEF RespondText, Continue, RecordUsage, guard, policy, history, Aborting
<1>6. CASE RespondCalls
  BY <1>6 DEF RespondCalls, End, Continue, RecordUsage, monitor, policy, tools, history, Aborting
<1>7. CASE ModelFails
  BY <1>7 DEF ModelFails, End, Abort, usage, guard, monitor, policy, tools, history, Aborting
<1>8. CASE CancelTools
  BY <1>8 DEF CancelTools, Continue, usage, guard, monitor, policy, tools, history, Aborting
<1>9. CASE AbortBatch
  BY <1>9 DEF AbortBatch, End, Alive, usage, guard, monitor, policy, tools, history, Aborting
<1>10. CASE CollectResults
  BY <1>10 DEF CollectResults, Continue, Controls, usage, guard, monitor, policy, tools, history, Aborting
<1>11. CASE AfterBatch
  BY <1>11 DEF AfterBatch, Continue, ToolClaim, usage, guard, policy, tools, history, Aborting
<1>12. CASE Accept
  BY <1>12 DEF Accept, End, Refused, usage, guard, monitor, policy, tools, history, Claim, Aborting
<1>13. CASE Reject
  BY <1>13 DEF Reject, End, Continue, Refused, usage, guard, monitor, tools, Claim, Aborting
<1>14. ASSUME NEW i \in DOMAIN task, Tool(i) PROVE Aborting'
  <2>1. CASE StartTool(i)
    BY <2>1 DEF StartTool, usage, guard, monitor, policy, tools, history, Aborting
  <2>2. CASE ReturnTool(i)
    BY <2>2 DEF ReturnTool, Controls, usage, guard, monitor, policy, tools, history, Aborting
  <2>3. CASE FailTool(i)
    BY <2>3 DEF FailTool, usage, guard, monitor, policy, tools, history, Aborting
  <2>4. CASE UnwindTool(i)
    BY <2>4 DEF UnwindTool, usage, guard, monitor, policy, history, Aborting
  <2>5. CASE UnknownTool(i)
    BY <2>5 DEF UnknownTool, usage, guard, monitor, policy, tools, history, Aborting
  <2>6. QED
    BY <1>14, <2>1, <2>2, <2>3, <2>4, <2>5 DEF Tool
<1>15. CASE UNCHANGED vars
  BY <1>15 DEF vars, Aborting
<1>16. QED
  BY <1>1, <1>2, <1>3, <1>4, <1>5, <1>6, <1>7, <1>8, <1>9, <1>10, <1>11, <1>12, <1>13, <1>14, <1>15 DEF Next, Run

(* Usage is complete and below the limit when a request begins. *)
LEMMA BudgetingStep ==
  ASSUME Inductive, [Next]_vars
  PROVE  Budgeting'
<1> USE DEF Inductive
<1>1. CASE Cancel
  BY <1>1, KernelAssumption DEF Cancel, usage, guard, monitor, policy, tools, history, Budgeting, BudgetIsRespected, Counting, Specs
<1>2. CASE Capture
  BY <1>2, KernelAssumption DEF Capture, Continue, Abort, Capturing, usage, guard, monitor, policy, tools, End, Budgeting, BudgetIsRespected, Counting, Specs
<1>3. CASE Turn
  <2>1. UNCHANGED <<spec, requests, reported, spent>> /\ pc' # "model"
    BY <1>3 DEF Turn, End, Continue, Abort, usage
  <2>2. pc' = "context" => ~Exhausted
    BY <1>3 DEF Turn, End, Continue, Abort
  <2>3. spec.limit # None => spec.limit \in Nat \ {0}
    BY KernelAssumption DEF Counting, Specs
  <2>4. pc' = "context" /\ spec.limit # None => reported = requests /\ spent < spec.limit
    BY <2>2, <2>3 DEF Exhausted, Budgeting, Counting
  <2>5. QED
    BY <2>1, <2>4 DEF Budgeting, BudgetIsRespected
<1>4. CASE BuildContext
  BY <1>4, KernelAssumption DEF BuildContext, End, Continue, Abort, guard, monitor, tools, history, Budgeting, BudgetIsRespected, Counting, Specs
<1>5. CASE RespondText
  BY <1>5, KernelAssumption DEF RespondText, Continue, RecordUsage, guard, policy, history, Budgeting, BudgetIsRespected, Counting, Specs
<1>6. CASE RespondCalls
  BY <1>6, KernelAssumption DEF RespondCalls, End, Continue, RecordUsage, monitor, policy, tools, history, Budgeting, BudgetIsRespected, Counting, Specs
<1>7. CASE ModelFails
  BY <1>7, KernelAssumption DEF ModelFails, End, Abort, usage, guard, monitor, policy, tools, history, Budgeting, BudgetIsRespected, Counting, Specs
<1>8. CASE CancelTools
  BY <1>8, KernelAssumption DEF CancelTools, Continue, usage, guard, monitor, policy, tools, history, Budgeting, BudgetIsRespected, Counting, Specs
<1>9. CASE AbortBatch
  BY <1>9, KernelAssumption DEF AbortBatch, End, Alive, usage, guard, monitor, policy, tools, history, Budgeting, BudgetIsRespected, Counting, Specs
<1>10. CASE CollectResults
  BY <1>10, KernelAssumption DEF CollectResults, Continue, Controls, usage, guard, monitor, policy, tools, history, Budgeting, BudgetIsRespected, Counting, Specs
<1>11. CASE AfterBatch
  BY <1>11, KernelAssumption DEF AfterBatch, Continue, ToolClaim, usage, guard, policy, tools, history, Budgeting, BudgetIsRespected, Counting, Specs
<1>12. CASE Accept
  BY <1>12, KernelAssumption DEF Accept, End, Refused, usage, guard, monitor, policy, tools, history, Claim, Budgeting, BudgetIsRespected, Counting, Specs
<1>13. CASE Reject
  BY <1>13, KernelAssumption DEF Reject, End, Continue, Refused, usage, guard, monitor, tools, Claim, Budgeting, BudgetIsRespected, Counting, Specs
<1>14. ASSUME NEW i \in DOMAIN task, Tool(i) PROVE Budgeting'
  <2>1. CASE StartTool(i)
    BY <2>1, KernelAssumption DEF StartTool, usage, guard, monitor, policy, tools, history, Budgeting, BudgetIsRespected, Counting, Specs
  <2>2. CASE ReturnTool(i)
    BY <2>2, KernelAssumption DEF ReturnTool, Controls, usage, guard, monitor, policy, tools, history, Budgeting, BudgetIsRespected, Counting, Specs
  <2>3. CASE FailTool(i)
    BY <2>3, KernelAssumption DEF FailTool, usage, guard, monitor, policy, tools, history, Budgeting, BudgetIsRespected, Counting, Specs
  <2>4. CASE UnwindTool(i)
    BY <2>4, KernelAssumption DEF UnwindTool, usage, guard, monitor, policy, history, Budgeting, BudgetIsRespected, Counting, Specs
  <2>5. CASE UnknownTool(i)
    BY <2>5, KernelAssumption DEF UnknownTool, usage, guard, monitor, policy, tools, history, Budgeting, BudgetIsRespected, Counting, Specs
  <2>6. QED
    BY <1>14, <2>1, <2>2, <2>3, <2>4, <2>5 DEF Tool
<1>15. CASE UNCHANGED vars
  BY <1>15 DEF vars, Budgeting, BudgetIsRespected, Counting, Specs
<1>16. QED
  BY <1>1, <1>2, <1>3, <1>4, <1>5, <1>6, <1>7, <1>8, <1>9, <1>10, <1>11, <1>12, <1>13, <1>14, <1>15 DEF Next, Run

(* What Explaining says survives a step that stays in its turn and leaves the
   rejections of _reject_completion alone. *)
LEMMA ExplainingKept ==
  ASSUME Inductive, UNCHANGED <<turn, rejected, rejections, feedback>>,
         \/ pc' = pc
         \/ /\ pc \notin {"turn", "context", "done"} /\ pc' # "context"
            /\ pc = "baseline" => pc' \in {"turn", "done"}
  PROVE  Explaining'
<1>1. rejected' \subseteq 1..turn' /\ Cardinality(rejected') = rejections'
  BY DEF Inductive, Explaining
<1>2. /\ pc' \notin {"baseline", "turn", "done"} => turn' >= 1
      /\ turn' \in rejected' => pc' \in {"turn", "done"}
  BY DEF Inductive, Explaining
<1>3. /\ pc' = "turn" => (feedback' <=> turn' \in rejected')
      /\ pc' \notin {"turn", "context", "done"} => ~feedback'
  BY DEF Inductive, Explaining
<1>4. pc' = "context" => (feedback' <=> turn' - 1 \in rejected')
  BY DEF Inductive, Explaining
<1>5. rejections' <= MaxRetries + 1 /\ (pc' # "done" => rejections' <= MaxRetries)
  BY DEF Inductive, Explaining
<1>6. QED
  BY <1>1, <1>2, <1>3, <1>4, <1>5 DEF Explaining

(* The next turn is the first the feedback is staged for; no turn is rejected
   twice. *)
LEMMA ExplainingStep ==
  ASSUME Inductive, [Next]_vars
  PROVE  Explaining'
<1> USE DEF Inductive
<1>1. CASE Cancel
  BY <1>1, ExplainingKept DEF Cancel, policy, history
<1>2. CASE Capture
  BY <1>2, ExplainingKept DEF Capture, Continue, Abort, Capturing, policy, End
<1>3. CASE Turn
  <2>1. /\ UNCHANGED <<rejected, rejections, feedback>> /\ pc = "turn"
        /\ \/ pc' = "done" /\ turn' = turn
           \/ pc' = "context" /\ turn' = turn + 1
    BY <1>3 DEF Turn, End, Continue, Abort, history
  <2>2. turn \in Nat /\ rejected \subseteq 1..turn
    BY DEF Counting, Explaining
  <2>3. rejected' \subseteq 1..turn' /\ (turn' \in rejected' => pc' = "done")
    BY <2>1, <2>2
  <2>4. pc' = "context" => turn' - 1 = turn /\ turn' >= 1
    BY <2>1, <2>2
  <2>5. pc' = "context" => (feedback' <=> turn' - 1 \in rejected')
    BY <2>1, <2>4 DEF Explaining
  <2>6. /\ Cardinality(rejected') = rejections' /\ rejections' <= MaxRetries
    BY <2>1 DEF Explaining
  <2>7. QED
    BY <2>1, <2>3, <2>4, <2>5, <2>6, KernelAssumption DEF Explaining, Counting
<1>4. CASE BuildContext
  <2>1. /\ UNCHANGED <<turn, rejected, rejections>> /\ pc = "context"
        /\ \/ pc' = "done"
           \/ pc' = "model" /\ feedback' = FALSE
    BY <1>4 DEF BuildContext, End, Continue, Abort, history
  <2>2. rejected' \subseteq 1..turn' /\ Cardinality(rejected') = rejections'
    BY <2>1 DEF Explaining
  <2>3. turn' >= 1 /\ turn' \notin rejected' /\ rejections' <= MaxRetries
    BY <2>1 DEF Explaining
  <2>4. QED
    BY <2>1, <2>2, <2>3, KernelAssumption DEF Explaining, Counting
<1>5. CASE RespondText
  BY <1>5, ExplainingKept DEF RespondText, Continue, policy, history
<1>6. CASE RespondCalls
  BY <1>6, ExplainingKept DEF RespondCalls, End, Continue, policy, history
<1>7. CASE ModelFails
  BY <1>7, ExplainingKept DEF ModelFails, End, Abort, policy, history
<1>8. CASE CancelTools
  BY <1>8, ExplainingKept DEF CancelTools, Continue, policy, history
<1>9. CASE AbortBatch
  BY <1>9, ExplainingKept DEF AbortBatch, End, policy, history
<1>10. CASE CollectResults
  BY <1>10, ExplainingKept DEF CollectResults, Continue, policy, history
<1>11. CASE AfterBatch
  BY <1>11, ExplainingKept DEF AfterBatch, Continue, policy, history
<1>12. CASE Accept
  BY <1>12, ExplainingKept DEF Accept, End, policy, history
<1>13. CASE Reject
  <2>1. /\ pc = "decide" /\ turn' = turn /\ rejected' = rejected \cup {turn}
        /\ rejections' = rejections + 1
        /\ \/ pc' = "turn" /\ feedback' = TRUE /\ rejections + 1 <= MaxRetries
           \/ pc' = "done"
    BY <1>13 DEF Reject, Retry, End, Continue
  <2>2. /\ turn \in Nat /\ turn >= 1 /\ rejected \subseteq 1..turn /\ turn \notin rejected
        /\ rejections \in Nat /\ rejections <= MaxRetries /\ Cardinality(rejected) = rejections
    BY <2>1 DEF Counting, Explaining
  <2>3. IsFiniteSet(rejected)
    <3>1. IsFiniteSet(1..turn)
      BY <2>2, FS_Interval
    <3>2. QED
      BY <2>2, <3>1, FS_Subset
  <2>4. Cardinality(rejected') = rejections'
    BY <2>1, <2>2, <2>3, FS_AddElement
  <2>5. rejected' \subseteq 1..turn' /\ turn' \in rejected'
    BY <2>1, <2>2
  <2>6. QED
    BY <2>1, <2>2, <2>4, <2>5, KernelAssumption DEF Explaining
<1>14. ASSUME NEW i \in DOMAIN task, Tool(i) PROVE Explaining'
  <2>1. UNCHANGED <<turn, rejected, rejections, feedback, pc>>
    BY <1>14 DEF Tool, StartTool, UnknownTool, ReturnTool, FailTool, UnwindTool, policy, history
  <2>2. QED
    BY <2>1, ExplainingKept
<1>15. CASE UNCHANGED vars
  BY <1>15, ExplainingKept DEF vars
<1>16. QED
  BY <1>1, <1>2, <1>3, <1>4, <1>5, <1>6, <1>7, <1>8, <1>9, <1>10, <1>11, <1>12, <1>13, <1>14, <1>15 DEF Next, Run

(* A Run begins with nothing requested, rejected or executed. *)
LEMMA InitInductive == Init => Inductive
<1> SUFFICES ASSUME Init PROVE Inductive
  OBVIOUS
<1>1. Counting
  BY KernelAssumption DEF Init, Specs, Counting
<1>2. Approving
  BY KernelAssumption DEF Init, Approving, CompletedIsApproved, Completed, Outcomes
<1>3. Quiet /\ Monitoring
  BY DEF Init, Quiet, Monitoring, Capturing
<1>4. Aborting
  BY KernelAssumption DEF Init, Aborting, Outcomes
<1>5. Budgeting
  BY DEF Init, Budgeting, BudgetIsRespected
<1>6. Explaining
  BY KernelAssumption, FS_EmptySet DEF Init, Explaining
<1>7. QED
  BY <1>1, <1>2, <1>3, <1>4, <1>5, <1>6 DEF Inductive

(* The inductive invariant of a Run, for every limit of its RunSpec. *)
THEOREM InductiveHolds == Spec => []Inductive
<1>1. Inductive /\ [Next]_vars => Inductive'
  BY CountingStep, ApprovingStep, QuietStep, MonitoringStep, AbortingStep, BudgetingStep,
     ExplainingStep DEF Inductive
<1>2. QED
  BY <1>1, InitInductive, PTL DEF Spec

(* No Run under CompletionMode.ENFORCE completes by a claim its monitor has
   not allowed. *)
THEOREM CompletedIsApprovedHolds == Spec => []CompletedIsApproved
<1>1. Inductive => CompletedIsApproved
  BY DEF Inductive, Approving
<1>2. QED
  BY <1>1, InductiveHolds, PTL

(* run() does not return while a tool of it executes, for batches of any size. *)
THEOREM NoToolOutlivesTheRunHolds == Spec => []NoToolOutlivesTheRun
<1>1. Inductive => NoToolOutlivesTheRun
  BY DEF Inductive, Quiet, NoToolOutlivesTheRun
<1>2. QED
  BY <1>1, InductiveHolds, PTL

(* No model request begins over the token budget or without knowing it. *)
THEOREM BudgetIsRespectedHolds == Spec => []BudgetIsRespected
<1>1. Inductive => BudgetIsRespected
  BY DEF Inductive, Budgeting
<1>2. QED
  BY <1>1, InductiveHolds, PTL

(* _reject_completion stages feedback for exactly the turn after a rejected
   claim and rejects no more than MaxRetries + 1 claims. *)
THEOREM FeedbackFollowsRejectionHolds == Spec => []FeedbackFollowsRejection
<1>1. Inductive => FeedbackFollowsRejection
  BY DEF Inductive, Explaining, FeedbackFollowsRejection
<1>2. QED
  BY <1>1, InductiveHolds, PTL

(* After cancel() no request and no tool begins, and only a cancelled Run is
   reported as aborted. *)
THEOREM CancelStopsWorkHolds == Spec => CancelStopsWork
<1> DEFINE Idle == \A i \in DOMAIN task : task[i] = "created" => task'[i] # "running"
           Stops == /\ cancelled => (pc' = "model" => pc = "model") /\ Idle
                    /\ outcome' = "external_abort" => cancelled
<1>1. ASSUME Inductive, [Next]_vars
      PROVE  [Stops]_vars
  <2> USE <1>1 DEF Inductive
  <2>1. ASSUME vars' # vars, cancelled, pc' = "model" PROVE pc = "model"
    BY <2>1 DEF Next, Run, Tool, Cancel, Capture, Turn, BuildContext, RespondText,
       RespondCalls, ModelFails, CancelTools, AbortBatch, CollectResults, AfterBatch, Accept,
       Reject, StartTool, UnknownTool, ReturnTool, FailTool, UnwindTool, End, Continue, Abort
  <2>2. ASSUME vars' # vars, cancelled, NEW i \in DOMAIN task, task[i] = "created"
        PROVE  task'[i] # "running"
    <3>1. CASE RespondCalls
      BY <2>2, <3>1 DEF RespondCalls, Quiet, Alive
    <3>2. CASE RespondText
      BY <2>2, <3>2 DEF RespondText, Quiet, Alive
    <3>3. CASE CancelTools
      BY <2>2, <3>3 DEF CancelTools
    <3>4. ASSUME NEW j \in DOMAIN task, Tool(j) PROVE task'[i] # "running"
      BY <2>2, <3>4 DEF Tool, StartTool, UnknownTool, ReturnTool, FailTool, UnwindTool, Controls
    <3>5. CASE UNCHANGED task
      BY <2>2, <3>5
    <3>6. QED
      BY <2>2, <3>1, <3>2, <3>3, <3>4, <3>5 DEF Next, Run, Cancel, Capture, Turn,
         BuildContext, ModelFails, AbortBatch, CollectResults, AfterBatch, Accept, Reject, tools
  <2>3. ASSUME outcome' = "external_abort" PROVE cancelled \/ vars' = vars
    <3>1. CASE UNCHANGED outcome
      BY <2>3, <3>1 DEF Aborting
    <3>2. CASE Capture
      BY <2>3, <3>2 DEF Capture, Abort, Continue, Aborting
    <3>3. CASE Turn
      BY <2>3, <3>3 DEF Turn, Abort, End, Continue, Aborting
    <3>4. CASE BuildContext
      BY <2>3, <3>4 DEF BuildContext, Abort, End, Continue, Aborting
    <3>5. CASE RespondCalls
      BY <2>3, <3>5 DEF RespondCalls, End, Continue, Aborting
    <3>6. CASE ModelFails
      BY <2>3, <3>6 DEF ModelFails, Abort, End
    <3>7. CASE AbortBatch
      BY <2>3, <3>7 DEF AbortBatch, End, Aborting
    <3>8. CASE Accept
      BY <2>3, <3>8 DEF Accept, End
    <3>9. CASE Reject
      BY <2>3, <3>9 DEF Reject, End, Continue, Aborting
    <3>10. QED
      BY <1>1, <3>1, <3>2, <3>3, <3>4, <3>5, <3>6, <3>7, <3>8, <3>9
         DEF Next, Run, Tool, Cancel, RespondText, CancelTools, CollectResults, AfterBatch,
             StartTool, UnknownTool, ReturnTool, FailTool, UnwindTool, Continue, vars
  <2>4. QED
    BY <2>1, <2>2, <2>3
<1>2. QED
  BY <1>1, InductiveHolds, PTL DEF Spec, CancelStopsWork

(* A monitor that has failed is neither awaited nor heard again. *)
THEOREM MonitorFailureIsFinalHolds == Spec => MonitorFailureIsFinal
<1> DEFINE Final == ~active => ~active' /\ pc' \notin Capturing /\ approved' = approved
<1>1. ASSUME Inductive, [Next]_vars
      PROVE  [Final]_vars
  <2> SUFFICES ASSUME vars' # vars, ~active PROVE ~active' /\ pc' \notin Capturing /\ approved' = approved
    OBVIOUS
  <2>1. pc \notin Capturing
    BY <1>1 DEF Inductive, Monitoring
  <2>2. CASE Turn
    BY <2>2 DEF Turn, End, Continue, Abort, Capturing, monitor, history
  <2>3. CASE BuildContext
    BY <2>3 DEF BuildContext, End, Continue, Abort, Capturing, monitor, history
  <2>4. CASE RespondText
    BY <2>4 DEF RespondText, Continue, Capturing, history
  <2>5. CASE RespondCalls
    BY <2>5 DEF RespondCalls, End, Continue, Capturing, monitor, history
  <2>6. CASE ModelFails
    BY <2>6 DEF ModelFails, End, Abort, Capturing, monitor, history
  <2>7. CASE CancelTools \/ AbortBatch
    <3>1. CASE CancelTools
      BY <3>1 DEF CancelTools, Continue, Capturing, monitor, history
    <3>2. CASE AbortBatch
      BY <3>2 DEF AbortBatch, End, Capturing, monitor, history
    <3>3. QED
      BY <2>7, <3>1, <3>2
  <2>8. CASE CollectResults
    BY <2>8 DEF CollectResults, Continue, Capturing, monitor, history
  <2>9. CASE AfterBatch
    BY <2>9 DEF AfterBatch, ToolClaim, Continue, Capturing, history
  <2>10. CASE Accept
    BY <2>10 DEF Accept, End, Capturing, monitor, history
  <2>11. CASE Reject
    BY <2>11 DEF Reject, End, Continue, Capturing, monitor
  <2>12. CASE \E i \in DOMAIN task : Tool(i)
    BY <2>1, <2>12 DEF Tool, StartTool, UnknownTool, ReturnTool, FailTool, UnwindTool, monitor, history
  <2>13. CASE Cancel
    BY <2>1, <2>13 DEF Cancel, monitor, history
  <2>14. ~Capture
    BY <2>1 DEF Capture
  <2>15. Next
    BY <1>1
  <2>16. QED
    BY <2>15, <2>2, <2>3, <2>4, <2>5, <2>6, <2>7, <2>8, <2>9, <2>10, <2>11, <2>12, <2>13, <2>14
       DEF Next, Run
<1>2. QED
  BY <1>1, InductiveHolds, PTL DEF Spec, MonitorFailureIsFinal

-----------------------------------------------------------------------------
(* The delta of a Run *)

Calls == [id : Nat \X Nat, signature : Signatures]
Messages == [kind : {"user", "text", "calls", "result"}, turn : Nat,
             prose : BOOLEAN, calls : Seq(Calls)]

(* The first n messages are a Conversation: every call is answered among them,
   no text is left, and nothing of a rejected claim. *)
Told(d, n, turns) ==
  \A i \in 1..n :
    /\ d[i].kind = "calls" =>
         /\ i + Len(d[i].calls) <= n
         /\ \A k \in 1..Len(d[i].calls) :
              d[i + k].kind = "result" /\ d[i + k].calls = <<d[i].calls[k]>>
    /\ d[i].turn \in turns => ~d[i].prose
    /\ d[i].kind # "text"

(* The first n messages are of turns before t. *)
Past(d, n, t) == \A i \in 1..n : d[i].turn < t

(* The last message is the answer in hand, a text or the calls of a batch ... *)
AnswerInHand(d, kind, calls, t, turns) ==
  LET n == Len(d)
  IN /\ n >= 1 /\ Told(d, n - 1, turns) /\ Past(d, n - 1, t)
     /\ d[n].kind = kind /\ d[n].calls = calls /\ d[n].turn = t

(* ... or the messages in hand are a batch and its results. *)
BatchInHand(d, calls, t, turns) ==
  LET p == Len(d) - Len(calls)
  IN /\ p \in 1..Len(d) /\ Told(d, Len(d), turns) /\ Past(d, p - 1, t)
     /\ d[p].kind = "calls" /\ d[p].turn = t
     /\ \A i \in (p + 1)..Len(d) : d[i].kind = "result" /\ d[i].turn = t /\ ~d[i].prose

Telling ==
  /\ delta \in Seq(Messages) /\ batch \in Seq(Calls)
  /\ pc \in {"tools", "aborting", "observe", "after batch", "tool claim"} => batch # <<>>
  /\ pc = "claim" => batch = <<>>
  /\ pc \in {"baseline", "turn"} =>
       Told(delta, Len(delta), rejected) /\ Past(delta, Len(delta), turn + 1)
  /\ pc \in {"context", "model"} =>
       Told(delta, Len(delta), rejected) /\ Past(delta, Len(delta), turn)
  /\ pc \in {"claim", "decide"} /\ batch = <<>> =>
       AnswerInHand(delta, "text", <<>>, turn, rejected)
  /\ pc \in {"tools", "aborting"} =>
       AnswerInHand(delta, "calls", batch, turn, rejected)
  /\ pc \in {"observe", "after batch", "tool claim", "decide"} /\ batch # <<>> =>
       BatchInHand(delta, batch, turn, rejected)
  /\ Completed => \/ Told(delta, Len(delta), rejected)
                  \/ turn \notin rejected /\ AnswerInHand(delta, "text", <<>>, turn, rejected)

(* What n messages say does not depend on what follows them. *)
LEMMA ToldPrefix ==
  ASSUME NEW d \in Seq(Messages), NEW e, NEW n \in 0..Len(d),
         \A i \in 1..n : e[i] = d[i], NEW turns
  PROVE  /\ Told(d, n, turns) => Told(e, n, turns)
         /\ \A t : Past(d, n, t) => Past(e, n, t)
<1>1. \A i \in 1..n : Len(d[i].calls) \in Nat
  BY DEF Messages
<1>2. ASSUME Told(d, n, turns) PROVE Told(e, n, turns)
  <2> SUFFICES ASSUME NEW i \in 1..n
               PROVE  /\ e[i].kind = "calls" =>
                           /\ i + Len(e[i].calls) <= n
                           /\ \A k \in 1..Len(e[i].calls) :
                                e[i + k].kind = "result" /\ e[i + k].calls = <<e[i].calls[k]>>
                      /\ e[i].turn \in turns => ~e[i].prose
                      /\ e[i].kind # "text"
    BY DEF Told
  <2>1. /\ d[i].kind = "calls" =>
             /\ i + Len(d[i].calls) <= n
             /\ \A k \in 1..Len(d[i].calls) :
                  d[i + k].kind = "result" /\ d[i + k].calls = <<d[i].calls[k]>>
        /\ d[i].turn \in turns => ~d[i].prose
        /\ d[i].kind # "text"
    BY <1>2 DEF Told
  <2>2. e[i] = d[i]
    OBVIOUS
  <2>3. ASSUME d[i].kind = "calls", NEW k \in 1..Len(d[i].calls)
        PROVE  e[i + k] = d[i + k]
    <3>1. i + k \in 1..n
      BY <1>1, <2>1, <2>3
    <3>2. QED
      BY <3>1
  <2>4. QED
    BY <2>1, <2>2, <2>3
<1>3. ASSUME NEW t, Past(d, n, t) PROVE Past(e, n, t)
  BY <1>3 DEF Past
<1>4. QED
  BY <1>2, <1>3

(* A message more changes nothing of those before it. *)
LEMMA ToldAppend ==
  ASSUME NEW d \in Seq(Messages), NEW m \in Messages, NEW n \in 0..Len(d), NEW turns
  PROVE  /\ Append(d, m) \in Seq(Messages) /\ Len(Append(d, m)) = Len(d) + 1
         /\ Append(d, m)[Len(d) + 1] = m
         /\ Told(d, n, turns) => Told(Append(d, m), n, turns)
         /\ \A t : Past(d, n, t) => Past(Append(d, m), n, t)
<1>1. /\ Append(d, m) \in Seq(Messages) /\ Len(Append(d, m)) = Len(d) + 1
      /\ Append(d, m)[Len(d) + 1] = m
      /\ \A i \in 1..Len(d) : Append(d, m)[i] = d[i]
  OBVIOUS
<1>2. \A i \in 1..n : Append(d, m)[i] = d[i]
  BY <1>1
<1>3. QED
  BY <1>1, <1>2, ToldPrefix

(* Neither does the end of the sequence. *)
LEMMA ToldFront ==
  ASSUME NEW d \in Seq(Messages), Len(d) >= 1, NEW turns, NEW t,
         Told(d, Len(d) - 1, turns), Past(d, Len(d) - 1, t)
  PROVE  /\ Front(d) \in Seq(Messages) /\ Len(Front(d)) = Len(d) - 1
         /\ Told(Front(d), Len(Front(d)), turns) /\ Past(Front(d), Len(Front(d)), t)
<1>1. /\ Front(d) = [i \in 1..(Len(d) - 1) |-> d[i]]
  BY DEF Front
<1>2. Front(d) \in Seq(Messages) /\ Len(Front(d)) = Len(d) - 1
  BY <1>1
<1>3. \A i \in 1..(Len(d) - 1) : Front(d)[i] = d[i]
  BY <1>1
<1>4. Len(d) - 1 \in 0..Len(d)
  OBVIOUS
<1>5. Told(Front(d), Len(d) - 1, turns) /\ Past(Front(d), Len(d) - 1, t)
  BY <1>3, <1>4, ToldPrefix
<1>6. QED
  BY <1>2, <1>5

LEMMA ConcatFacts ==
  ASSUME NEW d \in Seq(Messages), NEW r \in Seq(Messages)
  PROVE  /\ d \o r \in Seq(Messages) /\ Len(d \o r) = Len(d) + Len(r)
         /\ \A i \in 1..Len(d) : (d \o r)[i] = d[i]
         /\ \A k \in 1..Len(r) : (d \o r)[Len(d) + k] = r[k]
OBVIOUS

(* The results of a batch complete it. *)
LEMMA ToldResults ==
  ASSUME NEW d \in Seq(Messages), NEW calls \in Seq(Calls), calls # <<>>, NEW t \in Nat,
         NEW turns, t \notin turns, AnswerInHand(d, "calls", calls, t, turns),
         NEW r \in Seq(Messages), Len(r) = Len(calls),
         \A k \in 1..Len(calls) : /\ r[k].kind = "result" /\ r[k].calls = <<calls[k]>>
                                  /\ r[k].turn = t /\ ~r[k].prose,
         NEW e, e = d \o r
  PROVE  e \in Seq(Messages) /\ BatchInHand(e, calls, t, turns)
<1> DEFINE n == Len(d)
<1>1. n \in Nat /\ n >= 1 /\ Len(calls) \in Nat /\ Len(calls) >= 1
  BY DEF AnswerInHand
<1>2. e \in Seq(Messages) /\ Len(e) = n + Len(calls)
  BY ConcatFacts
<1>3. /\ \A i \in 1..n : e[i] = d[i]
      /\ \A k \in 1..Len(calls) : e[n + k] = r[k]
  BY ConcatFacts
<1>4. \A i \in (n + 1)..Len(e) :
        e[i].kind = "result" /\ e[i].turn = t /\ ~e[i].prose
  <2> SUFFICES ASSUME NEW i \in (n + 1)..Len(e)
               PROVE  e[i].kind = "result" /\ e[i].turn = t /\ ~e[i].prose
    OBVIOUS
  <2>1. PICK k \in 1..Len(calls) : i = n + k
    <3>1. i - n \in 1..Len(calls) /\ i = n + (i - n)
      BY <1>1, <1>2
    <3>2. QED
      BY <3>1
  <2>2. QED
    BY <1>3, <2>1
<1>5. Told(e, Len(e), turns)
  <2> SUFFICES ASSUME NEW i \in 1..Len(e)
               PROVE  /\ e[i].kind = "calls" =>
                           /\ i + Len(e[i].calls) <= Len(e)
                           /\ \A k \in 1..Len(e[i].calls) :
                                e[i + k].kind = "result" /\ e[i + k].calls = <<e[i].calls[k]>>
                      /\ e[i].turn \in turns => ~e[i].prose
                      /\ e[i].kind # "text"
    BY DEF Told
  <2>1. CASE i \in 1..(n - 1)
    <3>1. n - 1 \in 0..Len(d) /\ \A j \in 1..(n - 1) : e[j] = d[j]
      BY <1>1, <1>3
    <3>2. Told(e, n - 1, turns)
      BY <3>1, ToldPrefix DEF AnswerInHand
    <3>3. /\ e[i].kind = "calls" =>
               /\ i + Len(e[i].calls) <= n - 1
               /\ \A k \in 1..Len(e[i].calls) :
                    e[i + k].kind = "result" /\ e[i + k].calls = <<e[i].calls[k]>>
          /\ e[i].turn \in turns => ~e[i].prose
          /\ e[i].kind # "text"
      BY <2>1, <3>2 DEF Told
    <3>4. i \in 1..Len(e)
      OBVIOUS
    <3>5. Len(e[i].calls) \in Nat
      <4>1. e[i] \in Messages
        BY <1>2, <3>4
      <4>2. e[i].calls \in Seq(Calls)
        BY <4>1 DEF Messages
      <4>3. QED
        BY <4>2
    <3>6. e[i].kind = "calls" => i + Len(e[i].calls) <= Len(e)
      BY <1>1, <1>2, <3>3, <3>5
    <3>7. QED
      BY <3>3, <3>6
  <2>2. CASE i = n
    <3>1. e[i].kind = "calls" /\ e[i].calls = calls /\ e[i].turn = t
      BY <1>1, <1>3, <2>2 DEF AnswerInHand
    <3>2. \A k \in 1..Len(calls) :
            e[n + k].kind = "result" /\ e[n + k].calls = <<calls[k]>>
      BY <1>3
    <3>3. n + Len(calls) <= Len(e)
      BY <1>2
    <3>4. /\ i + Len(e[i].calls) <= Len(e)
          /\ \A k \in 1..Len(e[i].calls) :
               e[i + k].kind = "result" /\ e[i + k].calls = <<e[i].calls[k]>>
      BY <2>2, <3>1, <3>2, <3>3
    <3>5. e[i].turn \notin turns /\ e[i].kind # "text"
      BY <3>1
    <3>6. QED
      BY <3>4, <3>5
  <2>3. CASE i \in (n + 1)..Len(e)
    BY <1>4, <2>3
  <2>4. i \in 1..(n - 1) \/ i = n \/ i \in (n + 1)..Len(e)
    BY <1>1, <1>2
  <2>5. QED
    BY <2>1, <2>2, <2>3, <2>4
<1>6. Past(e, n - 1, t) /\ e[n].kind = "calls" /\ e[n].turn = t
  BY <1>1, <1>3 DEF AnswerInHand, Past
<1>7. Len(e) - Len(calls) = n /\ n \in 1..Len(e)
  BY <1>1, <1>2
<1>8. QED
  BY <1>2, <1>4, <1>5, <1>6, <1>7 DEF BatchInHand

(* Without the prose of its batch, nothing of the claim in hand is left. *)
LEMMA ToldWithoutProse ==
  ASSUME NEW d \in Seq(Messages), NEW calls \in Seq(Calls), NEW t \in Nat, NEW turns,
         BatchInHand(d, calls, t, turns),
         NEW e, e = [d EXCEPT ![Len(d) - Len(calls)].prose = FALSE]
  PROVE  /\ e \in Seq(Messages)
         /\ Told(e, Len(e), turns \cup {t}) /\ Past(e, Len(e), t + 1)
<1> DEFINE p == Len(d) - Len(calls)
<1>1. p \in 1..Len(d)
  BY DEF BatchInHand
<1>2. /\ DOMAIN e = 1..Len(d) /\ \A i \in 1..Len(d) : i # p => e[i] = d[i]
      /\ e[p] = [d[p] EXCEPT !.prose = FALSE]
  <2>1. DOMAIN d = 1..Len(d) /\ p \in DOMAIN d
    BY <1>1
  <2>2. e = [d EXCEPT ![p].prose = FALSE]
    OBVIOUS
  <2>3. QED
    BY <2>1, <2>2
<1>3. \A i \in 1..Len(d) : d[i] \in Messages
  OBVIOUS
<1>4. /\ e[p] \in Messages /\ ~e[p].prose /\ e[p].kind = d[p].kind
      /\ e[p].turn = d[p].turn /\ e[p].calls = d[p].calls
  BY <1>1, <1>2, <1>3 DEF Messages
<1>5. e \in Seq(Messages) /\ Len(e) = Len(d)
  <2>1. e \in [1..Len(d) -> Messages]
    BY <1>2, <1>3, <1>4
  <2>2. QED
    BY <2>1
<1>6. \A i \in 1..Len(d) :
        e[i].kind = d[i].kind /\ e[i].turn = d[i].turn /\ e[i].calls = d[i].calls
  BY <1>2, <1>4
<1>7. \A i \in 1..Len(d) : e[i].turn \in turns \cup {t} => ~e[i].prose
  <2> SUFFICES ASSUME NEW i \in 1..Len(d), e[i].turn \in turns \cup {t}
               PROVE  ~e[i].prose
    OBVIOUS
  <2>1. CASE i \in 1..(p - 1)
    <3>1. d[i].turn < t /\ d[i].turn \in Nat
      BY <1>3, <2>1 DEF BatchInHand, Past, Messages
    <3>2. e[i] = d[i] /\ d[i].turn # t
      BY <1>2, <2>1, <3>1
    <3>3. QED
      BY <3>2 DEF BatchInHand, Told
  <2>2. CASE i = p
    BY <1>4, <2>2
  <2>3. CASE i \in (p + 1)..Len(d)
    BY <1>1, <1>2, <2>3 DEF BatchInHand
  <2>4. QED
    BY <1>1, <2>1, <2>2, <2>3
<1>8. Told(e, Len(e), turns \cup {t})
  <2> SUFFICES ASSUME NEW i \in 1..Len(d)
               PROVE  /\ e[i].kind = "calls" =>
                           /\ i + Len(e[i].calls) <= Len(d)
                           /\ \A k \in 1..Len(e[i].calls) :
                                e[i + k].kind = "result" /\ e[i + k].calls = <<e[i].calls[k]>>
                      /\ e[i].kind # "text"
    BY <1>5, <1>7 DEF Told
  <2>1. /\ d[i].kind = "calls" =>
             /\ i + Len(d[i].calls) <= Len(d)
             /\ \A k \in 1..Len(d[i].calls) :
                  d[i + k].kind = "result" /\ d[i + k].calls = <<d[i].calls[k]>>
        /\ d[i].kind # "text"
    BY DEF BatchInHand, Told
  <2>2. Len(d[i].calls) \in Nat
    BY <1>3 DEF Messages
  <2>3. ASSUME d[i].kind = "calls", NEW k \in 1..Len(d[i].calls)
        PROVE  i + k \in 1..Len(d)
    BY <2>1, <2>2, <2>3
  <2>4. QED
    BY <1>6, <2>1, <2>3
<1>9. Past(e, Len(e), t + 1)
  <2> SUFFICES ASSUME NEW i \in 1..Len(d) PROVE d[i].turn < t + 1
    BY <1>5, <1>6 DEF Past
  <2>1. i \in 1..(p - 1) => d[i].turn < t /\ d[i].turn \in Nat
    BY <1>3 DEF BatchInHand, Past, Messages
  <2>2. i \notin 1..(p - 1) => d[i].turn = t
    BY <1>1 DEF BatchInHand
  <2>3. QED
    BY <2>1, <2>2
<1>10. QED
  BY <1>5, <1>8, <1>9

LEMMA BatchesType ==
  ASSUME turn \in Nat, NEW calls \in Batches
  PROVE  calls \in Seq(Calls) /\ calls # <<>>
<1>0. PICK n \in 1..MaxBatch : \E s \in [1..n -> Signatures] :
        calls = [i \in 1..n |-> [id |-> <<turn, i>>, signature |-> s[i]]]
  BY DEF Batches
<1>1. PICK s \in [1..n -> Signatures] :
        calls = [i \in 1..n |-> [id |-> <<turn, i>>, signature |-> s[i]]]
  BY <1>0
<1>2. n \in Nat /\ n >= 1
  BY KernelAssumption
<1>3. \A i \in 1..n : [id |-> <<turn, i>>, signature |-> s[i]] \in Calls
  BY <1>2 DEF Calls
<1>4. calls \in [1..n -> Calls]
  BY <1>1, <1>3
<1>5. calls \in Seq(Calls) /\ Len(calls) = n
  BY <1>1, <1>2, <1>4
<1>6. QED
  BY <1>2, <1>5

LEMMA MessageTypes ==
  ASSUME turn \in Nat
  PROVE  /\ Text \in Messages
         /\ \A calls \in Seq(Calls), prose \in BOOLEAN : Proposal(calls, prose) \in Messages
         /\ \A call \in Calls : Result(call) \in Messages
BY DEF Text, Proposal, Result, Messages

LEMMA InitTelling == Init => Telling
<1> SUFFICES ASSUME Init PROVE Telling
  OBVIOUS
<1>1. User \in Messages /\ User.turn = 0 /\ User.kind = "user"
  BY DEF User, Messages
<1>2. delta \in Seq(Messages) /\ Len(delta) = 1 /\ delta[1] = User
  BY <1>1 DEF Init
<1>3. Told(delta, Len(delta), rejected) /\ Past(delta, Len(delta), turn + 1)
  BY <1>1, <1>2 DEF Init, Told, Past
<1>4. ~Completed
  BY KernelAssumption DEF Init, Completed, Outcomes
<1>5. pc \in {"baseline", "turn"} /\ batch = <<>> /\ batch \in Seq(Calls)
  BY DEF Init
<1>6. QED
  BY <1>2, <1>3, <1>4, <1>5 DEF Telling

(* Before its end a Run has no outcome, and the turn in hand is not rejected. *)
LEMMA InHand ==
  ASSUME Inductive
  PROVE  /\ turn \in Nat
         /\ pc # "done" => ~Completed
         /\ pc \notin {"turn", "done"} => turn \notin rejected
BY KernelAssumption DEF Inductive, Counting, Explaining, Completed, Outcomes

(* A batch in hand is of the turn in hand: before the next, all is past. *)
LEMMA BatchIsPast ==
  ASSUME NEW d \in Seq(Messages), NEW calls \in Seq(Calls), NEW t \in Nat, NEW turns,
         BatchInHand(d, calls, t, turns)
  PROVE  Told(d, Len(d), turns) /\ Past(d, Len(d), t + 1)
<1> DEFINE p == Len(d) - Len(calls)
<1>1. p \in 1..Len(d)
  BY DEF BatchInHand
<1>2. Past(d, Len(d), t + 1)
  <2> SUFFICES ASSUME NEW i \in 1..Len(d) PROVE d[i].turn < t + 1
    BY DEF Past
  <2>1. d[i].turn \in Nat
    <3>1. d[i] \in Messages
      OBVIOUS
    <3>2. QED
      BY <3>1 DEF Messages
  <2>2. i \in 1..(p - 1) => d[i].turn < t
    BY DEF BatchInHand, Past
  <2>3. i \notin 1..(p - 1) => d[i].turn = t
    BY <1>1 DEF BatchInHand
  <2>4. QED
    BY <2>1, <2>2, <2>3
<1>3. QED
  BY <1>2 DEF BatchInHand

(* The places between which the messages are passed on unchanged. *)
Passes(from, to) ==
  \/ from = to
  \/ from = "baseline" /\ to = "turn"
  \/ from = "context" /\ to = "model"
  \/ from = "claim" /\ to = "decide"
  \/ from = "tools" /\ to = "aborting"
  \/ from = "observe" /\ to = "after batch"
  \/ from = "after batch" /\ to \in {"turn", "tool claim", "decide"}
  \/ from = "tool claim" /\ to = "decide"

LEMMA TellingPassed ==
  ASSUME Inductive, Telling, UNCHANGED <<delta, batch, turn, rejected, outcome>>,
         Passes(pc, pc')
  PROVE  Telling'
<1> USE DEF Telling
<1>0. turn \in Nat /\ (pc # "done" => ~Completed)
  BY InHand
<1>1. CASE pc' = pc
  BY <1>1 DEF Completed
<1>2. CASE pc = "after batch" /\ pc' = "turn"
  <2>1. Told(delta, Len(delta), rejected) /\ Past(delta, Len(delta), turn + 1)
    BY <1>0, <1>2, BatchIsPast
  <2>2. QED
    BY <1>0, <1>2, <2>1 DEF Completed
<1>3. CASE pc' # pc /\ pc' # "turn"
  BY <1>0, <1>3 DEF Completed, Passes
<1>4. CASE pc = "baseline" /\ pc' = "turn"
  BY <1>0, <1>4 DEF Completed
<1>5. QED
  BY <1>1, <1>2, <1>3, <1>4 DEF Passes

LEMMA TellingEnded ==
  ASSUME Telling, UNCHANGED <<delta, batch>>, pc' = "done", ~Completed'
  PROVE  Telling'
BY DEF Telling

LEMMA NextTelling ==
  ASSUME Inductive, Telling, [Next]_vars
  PROVE  Telling'
<1>0. turn \in Nat /\ (pc # "done" => ~Completed)
      /\ (pc \notin {"turn", "done"} => turn \notin rejected)
  BY InHand
<1>1. CASE Cancel
  BY <1>1, TellingPassed DEF Cancel, tools, history, Passes
<1>2. CASE Capture
  <2>1. UNCHANGED <<delta, batch, turn, rejected>>
    BY <1>2 DEF Capture, tools
  <2>2. CASE Abort
    BY <2>1, <2>2, TellingEnded DEF Abort, End, Completed
  <2>3. CASE ~Abort
    BY <1>2, <2>1, <2>3, TellingPassed DEF Capture, Capturing, Continue, Passes
  <2>4. QED
    BY <2>2, <2>3
<1>3. CASE Turn
  <2>1. UNCHANGED <<delta, batch, rejected>> /\ pc = "turn"
    BY <1>3 DEF Turn, tools, history
  <2>2. CASE pc' = "done"
    <3>1. ~Completed'
      BY <1>3, <2>2 DEF Turn, Abort, End, Continue, Completed
    <3>2. QED
      BY <2>1, <2>2, <3>1, TellingEnded
  <2>3. CASE turn' = turn + 1 /\ pc' = "context" /\ UNCHANGED outcome
    <3>1. Told(delta', Len(delta'), rejected') /\ Past(delta', Len(delta'), turn')
      BY <2>1, <2>3 DEF Telling
    <3>2. ~Completed'
      BY <1>0, <2>1, <2>3 DEF Completed
    <3>3. QED
      BY <2>1, <2>3, <3>1, <3>2 DEF Telling
  <2>4. QED
    BY <1>3, <2>2, <2>3 DEF Turn, Abort, End, Continue
<1>4. CASE BuildContext
  <2>1. UNCHANGED <<delta, batch, turn, rejected>>
    BY <1>4 DEF BuildContext, tools, history
  <2>2. CASE pc' = "done"
    <3>1. ~Completed'
      BY <1>0, <1>4, <2>2 DEF BuildContext, Abort, End, Continue, Completed
    <3>2. QED
      BY <2>1, <2>2, <3>1, TellingEnded
  <2>3. CASE pc' = "model" /\ UNCHANGED outcome
    BY <1>4, <2>1, <2>3, TellingPassed DEF BuildContext, Passes
  <2>4. QED
    BY <1>4, <2>2, <2>3 DEF BuildContext, Abort, End, Continue
<1>5. CASE RespondText
  <2>1. /\ pc = "model" /\ delta' = Append(delta, Text) /\ batch' = <<>>
        /\ pc' \in {"claim", "decide"} /\ UNCHANGED <<turn, rejected, outcome>>
    BY <1>5 DEF RespondText, Continue, history
  <2>2. /\ delta \in Seq(Messages)
        /\ Told(delta, Len(delta), rejected) /\ Past(delta, Len(delta), turn)
    BY <2>1 DEF Telling
  <2>3. Text \in Messages /\ Len(delta) \in 0..Len(delta)
    BY <1>0, <2>2, MessageTypes
  <2>4. /\ delta' \in Seq(Messages) /\ Len(delta') = Len(delta) + 1
        /\ delta'[Len(delta')] = Text
        /\ Told(delta', Len(delta), rejected) /\ Past(delta', Len(delta), turn)
    BY <2>1, <2>2, <2>3, ToldAppend
  <2>5. Len(delta') - 1 = Len(delta) /\ Len(delta') >= 1
    BY <2>2, <2>4
  <2>6. AnswerInHand(delta', "text", <<>>, turn', rejected')
    BY <2>1, <2>4, <2>5 DEF AnswerInHand, Text
  <2>7. ~Completed' /\ batch' \in Seq(Calls)
    BY <1>0, <2>1 DEF Completed
  <2>8. QED
    BY <2>1, <2>4, <2>6, <2>7 DEF Telling
<1>6. CASE RespondCalls
  <2>1. PICK calls \in Batches, prose \in BOOLEAN :
          /\ delta' = Append(delta, Proposal(calls, prose))
          /\ \/ End("repeated_tool_call") /\ UNCHANGED batch
             \/ Continue("tools") /\ batch' = calls
    BY <1>6 DEF RespondCalls
  <2>2. pc = "model" /\ UNCHANGED <<turn, rejected>>
    BY <1>6 DEF RespondCalls, history
  <2>3. /\ delta \in Seq(Messages) /\ batch \in Seq(Calls)
        /\ Told(delta, Len(delta), rejected) /\ Past(delta, Len(delta), turn)
    BY <2>2 DEF Telling
  <2>4. calls \in Seq(Calls) /\ calls # <<>>
    BY <1>0, BatchesType
  <2>5. Proposal(calls, prose) \in Messages /\ Len(delta) \in 0..Len(delta)
    BY <1>0, <2>3, <2>4, MessageTypes
  <2>6. /\ delta' \in Seq(Messages) /\ Len(delta') = Len(delta) + 1
        /\ delta'[Len(delta')] = Proposal(calls, prose)
        /\ Told(delta', Len(delta), rejected) /\ Past(delta', Len(delta), turn)
    BY <2>1, <2>3, <2>5, ToldAppend
  <2>7. Len(delta') - 1 = Len(delta) /\ Len(delta') >= 1
    BY <2>3, <2>6
  <2>8. AnswerInHand(delta', "calls", calls, turn', rejected')
    BY <2>2, <2>6, <2>7 DEF AnswerInHand, Proposal
  <2>9. CASE End("repeated_tool_call") /\ UNCHANGED batch
    <3>1. ~Completed' /\ pc' = "done"
      BY <2>9 DEF End, Completed
    <3>2. QED
      BY <2>3, <2>6, <2>9, <3>1 DEF Telling
  <2>10. CASE Continue("tools") /\ batch' = calls
    <3>1. ~Completed' /\ pc' = "tools"
      BY <1>0, <2>2, <2>10 DEF Continue, Completed
    <3>2. QED
      BY <2>4, <2>6, <2>8, <2>10, <3>1 DEF Telling
  <2>11. QED
    BY <2>1, <2>9, <2>10
<1>7. CASE ModelFails
  <2>1. UNCHANGED <<delta, batch>> /\ pc' = "done" /\ ~Completed'
    BY <1>7 DEF ModelFails, Abort, End, tools, Completed
  <2>2. QED
    BY <2>1, TellingEnded
<1>8. CASE CancelTools
  BY <1>8, TellingPassed DEF CancelTools, Continue, history, Passes
<1>9. CASE AbortBatch
  <2>1. UNCHANGED <<delta, batch>> /\ pc' = "done" /\ ~Completed'
    BY <1>9 DEF AbortBatch, End, tools, Completed, Inductive, Aborting
  <2>2. QED
    BY <2>1, TellingEnded
<1>10. CASE CollectResults
  <2> DEFINE results == [i \in 1..Len(batch) |-> Result(batch[i])]
  <2>1. /\ pc = "tools" /\ delta' = delta \o results
        /\ pc' \in {"observe", "after batch"} /\ UNCHANGED <<batch, turn, rejected, outcome>>
    BY <1>10 DEF CollectResults, Continue, tools, history
  <2>2. /\ delta \in Seq(Messages) /\ batch \in Seq(Calls) /\ batch # <<>>
        /\ AnswerInHand(delta, "calls", batch, turn, rejected)
    BY <2>1 DEF Telling
  <2>3. \A i \in 1..Len(batch) : Result(batch[i]) \in Messages
    BY <1>0, <2>2, MessageTypes
  <2>4. results \in Seq(Messages) /\ Len(results) = Len(batch)
    BY <2>2, <2>3
  <2>5. \A k \in 1..Len(batch) :
          /\ results[k].kind = "result" /\ results[k].calls = <<batch[k]>>
          /\ results[k].turn = turn /\ ~results[k].prose
    BY DEF Result
  <2> HIDE DEF results
  <2>6. turn \notin rejected
    BY <1>0, <2>1
  <2>7. delta' \in Seq(Messages) /\ BatchInHand(delta', batch, turn, rejected)
    BY <1>0, <2>1, <2>2, <2>4, <2>5, <2>6, ToldResults
  <2>8. ~Completed'
    BY <1>0, <2>1 DEF Completed
  <2>9. QED
    BY <2>1, <2>2, <2>7, <2>8 DEF Telling
<1>11. CASE AfterBatch
  <2>1. pc = "after batch" /\ pc' \in {"turn", "tool claim", "decide"}
        /\ UNCHANGED <<delta, batch, turn, rejected, outcome>>
    BY <1>11 DEF AfterBatch, Continue, tools, history
  <2>2. QED
    BY <2>1, TellingPassed DEF Passes
<1>12. CASE Accept
  <2>1. pc = "decide" /\ pc' = "done" /\ UNCHANGED <<delta, batch, turn, rejected>>
    BY <1>12 DEF Accept, End, tools, history
  <2>2. CASE batch = <<>>
    BY <1>0, <2>1, <2>2 DEF Telling
  <2>3. CASE batch # <<>>
    BY <2>1, <2>3 DEF Telling, BatchInHand
  <2>4. QED
    BY <2>2, <2>3
<1>13. CASE Reject
  <2>1. /\ pc = "decide" /\ delta' = WithoutClaim /\ rejected' = rejected \cup {turn}
        /\ UNCHANGED <<turn, batch>>
    BY <1>13 DEF Reject, tools
  <2>2. pc' \in {"turn", "done"} /\ ~Completed'
    BY <1>0, <1>13, <2>1 DEF Reject, End, Continue, Completed
  <2>3. delta \in Seq(Messages) /\ batch \in Seq(Calls)
    BY DEF Telling
  <2>4. /\ delta' \in Seq(Messages)
        /\ Told(delta', Len(delta'), rejected') /\ Past(delta', Len(delta'), turn + 1)
    <3>1. CASE batch = <<>>
      <4>1. AnswerInHand(delta, "text", <<>>, turn, rejected)
        BY <2>1, <3>1 DEF Telling
      <4>2. delta' = Front(delta)
        BY <2>1, <3>1 DEF WithoutClaim
      <4>3. /\ delta' \in Seq(Messages)
            /\ Told(delta', Len(delta'), rejected) /\ Past(delta', Len(delta'), turn)
        BY <2>3, <4>1, <4>2, ToldFront DEF AnswerInHand
      <4>4. \A i \in 1..Len(delta') : delta'[i].turn \in Nat /\ delta'[i].turn < turn
        <5>1. \A i \in 1..Len(delta') : delta'[i] \in Messages
          BY <4>3
        <5>2. QED
          BY <4>3, <5>1 DEF Past, Messages
      <4>5. \A i \in 1..Len(delta') : delta'[i].turn # turn /\ delta'[i].turn < turn + 1
        BY <1>0, <4>4
      <4>6. Told(delta', Len(delta'), rejected')
        BY <2>1, <4>3, <4>5 DEF Told
      <4>7. QED
        BY <4>3, <4>5, <4>6 DEF Past
    <3>2. CASE batch # <<>>
      <4>1. BatchInHand(delta, batch, turn, rejected)
        BY <2>1, <3>2 DEF Telling
      <4>2. delta' = [delta EXCEPT ![Len(delta) - Len(batch)].prose = FALSE]
        BY <2>1, <3>2 DEF WithoutClaim
      <4>3. QED
        BY <1>0, <2>1, <2>3, <4>1, <4>2, ToldWithoutProse
    <3>3. QED
      BY <3>1, <3>2
  <2>5. QED
    BY <2>1, <2>2, <2>3, <2>4 DEF Telling
<1>14. ASSUME NEW i \in DOMAIN task, Tool(i) PROVE Telling'
  <2>1. UNCHANGED <<delta, batch, turn, rejected, pc, outcome>>
    BY <1>14 DEF Tool, StartTool, UnknownTool, ReturnTool, FailTool, UnwindTool, history
  <2>2. QED
    BY <2>1, TellingPassed DEF Passes
<1>15. CASE UNCHANGED vars
  BY <1>15, TellingPassed DEF vars, Passes
<1>16. QED
  BY <1>1, <1>2, <1>3, <1>4, <1>5, <1>6, <1>7, <1>8, <1>9, <1>10, <1>11, <1>12, <1>13, <1>14, <1>15 DEF Next, Run

(* The inductive invariant of the delta, for batches of any size. *)
THEOREM TellingHolds == Spec => []Telling
<1>1. Inductive /\ Telling /\ [Next]_vars => Telling'
  BY NextTelling
<1>2. QED
  BY <1>1, InitTelling, InductiveHolds, PTL DEF Spec

LEMMA ToldIsWellFormed ==
  /\ Told(delta, Len(delta), rejected) => DeltaIsWellFormed
  /\ Completed /\ turn \notin rejected /\ delta \in Seq(Messages)
       /\ AnswerInHand(delta, "text", <<>>, turn, rejected) => DeltaIsWellFormed
<1>1. ASSUME Told(delta, Len(delta), rejected) PROVE DeltaIsWellFormed
  BY <1>1 DEF Told, DeltaIsWellFormed, Answered
<1>2. ASSUME Completed, turn \notin rejected, delta \in Seq(Messages),
             AnswerInHand(delta, "text", <<>>, turn, rejected)
      PROVE  DeltaIsWellFormed
  <2> SUFFICES ASSUME NEW i \in 1..Len(delta)
               PROVE  /\ delta[i].kind = "calls" => Answered(i)
                      /\ delta[i].turn \in rejected => ~delta[i].prose
                      /\ delta[i].kind = "text" => i = Len(delta) /\ Completed
    BY DEF DeltaIsWellFormed
  <2>1. CASE i \in 1..(Len(delta) - 1)
    <3>1. /\ delta[i].kind = "calls" =>
               /\ i + Len(delta[i].calls) <= Len(delta) - 1
               /\ \A k \in 1..Len(delta[i].calls) :
                    delta[i + k].kind = "result" /\ delta[i + k].calls = <<delta[i].calls[k]>>
          /\ delta[i].turn \in rejected => ~delta[i].prose
          /\ delta[i].kind # "text"
      BY <1>2, <2>1 DEF AnswerInHand, Told
    <3>2. Len(delta[i].calls) \in Nat /\ Len(delta) \in Nat
      BY <1>2 DEF Messages
    <3>3. delta[i].kind = "calls" => Answered(i)
      BY <3>1, <3>2 DEF Answered
    <3>4. QED
      BY <3>1, <3>3
  <2>2. CASE i = Len(delta)
    BY <1>2, <2>2 DEF AnswerInHand
  <2>3. QED
    BY <1>2, <2>1, <2>2
<1>3. QED
  BY <1>1, <1>2

(* What a model is given to continue, and what a COMPLETED Run leaves in the
   Conversation, answers every call of every batch in order and holds no prose
   of a rejected claim, for any number of turns, calls and rejections. *)
THEOREM DeltaIsWellFormedHolds == Spec => []DeltaIsWellFormed
<1>1. Telling => DeltaIsWellFormed
  <2>1. CASE pc = "context" \/ pc = "model"
    BY <2>1, ToldIsWellFormed DEF Telling
  <2>2. CASE Completed
    BY <2>2, ToldIsWellFormed DEF Telling
  <2>3. QED
    BY <2>1, <2>2 DEF DeltaIsWellFormed
<1>2. QED
  BY <1>1, TellingHolds, PTL

-----------------------------------------------------------------------------
(* The repeat guard *)

(* Induction over the numbers, from a fact about finite sets: had the numbers of
   0..n that are in T no largest, their successors would be all of them.  *)
LEMMA Induction ==
  ASSUME NEW T, 0 \in T, \A n \in Nat : n \in T => n + 1 \in T
  PROVE  \A n \in Nat : n \in T
<1> SUFFICES ASSUME NEW n \in Nat, n \notin T PROVE FALSE
  OBVIOUS
<1> DEFINE U == {i \in 0..n : i \in T}
           f == [i \in U |-> i + 1]
<1>1. \A i \in U : i + 1 \in U
  <2> SUFFICES ASSUME NEW i \in U PROVE i + 1 \in U
    OBVIOUS
  <2>1. i \in 0..n /\ i \in T /\ i # n
    OBVIOUS
  <2>2. i + 1 \in 0..n /\ i \in Nat
    BY <2>1
  <2>3. QED
    BY <2>1, <2>2
<1>2. IsFiniteSet(U)
  <2>1. IsFiniteSet(0..n)
    BY FS_Interval
  <2>2. QED
    BY <2>1, FS_Subset
<1>3. f \in [U -> U] /\ \A i, j \in U : f[i] = f[j] => i = j
  BY <1>1
<1>4. f \in Injection(U, U)
  BY <1>3, Fun_IsInj
<1>5. f \in Surjection(U, U)
  BY <1>2, <1>4, FS_Injection
<1>6. PICK i \in U : f[i] = 0
  <2>1. 0 \in U
    OBVIOUS
  <2>2. QED
    BY <1>5, <2>1, Fun_SurjectionProperties
<1>7. QED
  BY <1>6

(* The recursive function of RecordedFrom exists, and follows the loop. *)
LEMMA RecordedSteps ==
  ASSUME NEW start, NEW calls \in Seq(Calls)
  PROVE  \E g : /\ g[0] = start /\ RecordedFrom(start, calls) = g[Len(calls)]
                /\ \A i \in 1..Len(calls) : g[i] = RecordCall(g[i - 1], calls[i])
<1> DEFINE Step(g, n) ==
             [i \in 0..n |-> IF i = 0 THEN start ELSE RecordCall(g[i - 1], calls[i])]
           T == {n \in Nat : \E g : g = Step(g, n)}
<1>1. 0 \in T
  <2>1. [i \in 0..0 |-> start] = Step([i \in 0..0 |-> start], 0)
    OBVIOUS
  <2>2. QED
    BY <2>1
<1>2. ASSUME NEW n \in Nat, n \in T PROVE n + 1 \in T
  <2>1. PICK g : g = Step(g, n)
    BY <1>2
  <2> DEFINE h == Step(g, n + 1)
  <2>2. \A i \in 0..n : h[i] = g[i]
    BY <2>1
  <2>3. ASSUME NEW i \in 0..(n + 1), i # 0 PROVE h[i - 1] = g[i - 1]
    <3>1. i - 1 \in 0..n
      BY <2>3
    <3>2. QED
      BY <2>2, <3>1
  <2>4. h = Step(h, n + 1)
    <3>1. \A i \in 0..(n + 1) :
            (IF i = 0 THEN start ELSE RecordCall(g[i - 1], calls[i]))
              = (IF i = 0 THEN start ELSE RecordCall(h[i - 1], calls[i]))
      BY <2>3
    <3>2. QED
      BY <3>1
  <2> HIDE DEF h
  <2>5. \E x : x = Step(x, n + 1)
    BY <2>4
  <2>6. n + 1 \in Nat
    OBVIOUS
  <2>7. QED
    BY <2>5, <2>6
<1>3. Len(calls) \in T
  <2>1. Len(calls) \in Nat
    OBVIOUS
  <2> HIDE DEF T
  <2>2. QED
    BY <1>1, <1>2, <2>1, Induction
<1> DEFINE G == CHOOSE g : g = Step(g, Len(calls))
<1>4. G = Step(G, Len(calls))
  BY <1>3
<1>5. RecordedFrom(start, calls) = G[Len(calls)]
  BY DEF RecordedFrom
<1>6. /\ G[0] = start
      /\ \A i \in 1..Len(calls) : G[i] = RecordCall(G[i - 1], calls[i])
  <2> HIDE DEF G
  <2>1. Len(calls) \in Nat
    OBVIOUS
  <2>2. \A i \in 0..Len(calls) :
          G[i] = IF i = 0 THEN start ELSE RecordCall(G[i - 1], calls[i])
    BY <1>4
  <2>3. 0 \in 0..Len(calls) /\ \A i \in 1..Len(calls) : i \in 0..Len(calls) /\ i # 0
    BY <2>1
  <2>4. QED
    BY <2>2, <2>3
<1>7. QED
  BY <1>5, <1>6

(* Equal calls in a row, and what the guard knows of the last of n calls. *)
Equal(q, i, j) == \A k \in i..j : q[k].signature = q[i].signature

Short(q, n) == \A i \in 1..n : \A j \in i..n : Equal(q, i, j) => j - i + 1 < MaxRepeated

Guards(q, n, g) ==
  /\ n = 0 => g.last = None /\ g.repeats = 0
  /\ n > 0 =>
       /\ g.repeats \in 1..n
       /\ \A k \in (n - g.repeats + 1)..n : q[k].signature = g.last
       /\ g.repeats < n => q[n - g.repeats].signature # g.last

GuardTypes == [last : Signatures \cup {None}, repeats : 0..MaxRepeated]

LEMMA RecordCallType ==
  ASSUME NEW g \in GuardTypes, NEW call \in Calls
  PROVE  RecordCall(g, call) \in GuardTypes
<1>1. MaxRepeated \in Nat \ {0}
  BY KernelAssumption
<1>2. call.signature \in Signatures
  BY DEF Calls
<1>3. QED
  BY <1>1, <1>2 DEF RecordCall, GuardTypes

(* One call more: the guard knows the longest run of equal calls that ends with
   it, and if that is short all runs are. *)
LEMMA GuardStep ==
  ASSUME NEW q \in Seq(Calls), NEW n \in Nat, n < Len(q), NEW g \in GuardTypes,
         Guards(q, n, g), g.repeats < MaxRepeated, Short(q, n),
         NEW h, h = RecordCall(g, q[n + 1])
  PROVE  Guards(q, n + 1, h) /\ (h.repeats < MaxRepeated => Short(q, n + 1))
<1>1. n + 1 \in 1..Len(q) /\ q[n + 1] \in Calls
  OBVIOUS
<1>2. q[n + 1].signature \in Signatures /\ q[n + 1].signature # None
  BY <1>1, KernelAssumption DEF Calls
<1>3. MaxRepeated \in Nat /\ g.repeats \in Nat
  BY KernelAssumption DEF GuardTypes
<1>4. h.last = q[n + 1].signature
      /\ h.repeats = IF q[n + 1].signature = g.last THEN g.repeats + 1 ELSE 1
  <2>1. ~(g.repeats >= MaxRepeated)
    BY <1>3
  <2>2. QED
    BY <2>1 DEF RecordCall
<1>5. Guards(q, n + 1, h)
  <2>1. CASE q[n + 1].signature = g.last
    <3>1. n > 0
      BY <1>2, <2>1 DEF Guards
    <3>2. /\ g.repeats \in 1..n
          /\ \A k \in (n - g.repeats + 1)..n : q[k].signature = g.last
          /\ g.repeats < n => q[n - g.repeats].signature # g.last
      BY <3>1 DEF Guards
    <3>3. h.repeats = g.repeats + 1 /\ h.last = g.last
      BY <1>4, <2>1
    <3>4. n + 1 - h.repeats = n - g.repeats /\ h.repeats \in 1..(n + 1)
          /\ (h.repeats < n + 1 => g.repeats < n)
      BY <1>3, <3>2, <3>3
    <3>5. \A k \in (n - g.repeats + 1)..(n + 1) : q[k].signature = h.last
      <4> SUFFICES ASSUME NEW k \in (n - g.repeats + 1)..(n + 1)
                   PROVE  q[k].signature = h.last
        OBVIOUS
      <4>1. k \in (n - g.repeats + 1)..n \/ k = n + 1
        BY <1>3
      <4>2. QED
        BY <1>4, <3>2, <3>3, <4>1
    <3>6. /\ \A k \in (n + 1 - h.repeats + 1)..(n + 1) : q[k].signature = h.last
          /\ h.repeats < n + 1 => q[n + 1 - h.repeats].signature # h.last
      BY <3>2, <3>3, <3>4, <3>5
    <3>7. h.repeats \in 1..(n + 1) /\ n + 1 # 0
      BY <3>4
    <3>8. QED
      BY <3>6, <3>7 DEF Guards
  <2>2. CASE q[n + 1].signature # g.last
    <3>1. h.repeats = 1
      BY <1>4, <2>2
    <3>2. n + 1 - h.repeats = n /\ h.repeats \in 1..(n + 1) /\ n + 1 # 0
      BY <3>1
    <3>3. \A k \in (n + 1 - h.repeats + 1)..(n + 1) : q[k].signature = h.last
      <4>1. \A k \in (n + 1 - h.repeats + 1)..(n + 1) : k = n + 1
        BY <3>1
      <4>2. QED
        BY <1>4, <4>1
    <3>4. h.repeats < n + 1 => q[n].signature # h.last
      <4>1. SUFFICES ASSUME n > 0 PROVE q[n].signature = g.last
        BY <1>4, <2>2, <3>1
      <4>2. g.repeats \in 1..n /\ \A k \in (n - g.repeats + 1)..n : q[k].signature = g.last
        BY <4>1 DEF Guards
      <4>3. n \in (n - g.repeats + 1)..n
        BY <1>3, <4>2
      <4>4. QED
        BY <4>2, <4>3
    <3>5. h.repeats < n + 1 => q[n + 1 - h.repeats].signature # h.last
      BY <3>2, <3>4
    <3>6. h.repeats \in 1..(n + 1) /\ n + 1 # 0
      BY <3>1
    <3>7. QED
      BY <3>3, <3>5, <3>6 DEF Guards
  <2>3. QED
    BY <2>1, <2>2
<1>6. ASSUME h.repeats < MaxRepeated,
             NEW i \in 1..(n + 1), NEW j \in i..(n + 1), Equal(q, i, j)
      PROVE  j - i + 1 < MaxRepeated
  <2>1. CASE j <= n
    <3>1. i \in 1..n /\ j \in i..n
      BY <2>1
    <3>2. QED
      BY <1>6, <3>1 DEF Short
  <2>2. CASE j = n + 1
    <3>1. SUFFICES ASSUME j - i + 1 >= MaxRepeated PROVE FALSE
      BY <1>3
    <3> DEFINE m == n + 1 - h.repeats
    <3>2. /\ h.repeats \in 1..(n + 1)
          /\ h.repeats < n + 1 => q[m].signature # h.last
      BY <1>5 DEF Guards
    <3>3. h.repeats < n + 1 /\ m \in i..j
      <4>1. h.repeats \in Nat /\ i \in Nat /\ j = n + 1 /\ i >= 1
        BY <1>3, <2>2, <3>2
      <4>2. h.repeats < j - i + 1
        BY <1>3, <1>6, <3>1, <4>1
      <4>3. h.repeats < n + 1
        BY <1>3, <4>1, <4>2
      <4>4. m \in Nat /\ i <= m /\ m <= j
        BY <1>3, <4>1, <4>2, <4>3
      <4>5. QED
        BY <4>1, <4>3, <4>4
    <3>4. q[m].signature = q[i].signature
      BY <1>6, <3>3 DEF Equal
    <3>5. q[j].signature = q[i].signature
      <4>1. j \in i..j
        OBVIOUS
      <4>2. QED
        BY <1>6, <4>1 DEF Equal
    <3>6. QED
      BY <1>4, <2>2, <3>2, <3>3, <3>4, <3>5
  <2>3. QED
    BY <2>1, <2>2
<1>7. QED
  BY <1>5, <1>6 DEF Short

(* record_tool_call over all calls of a message. *)
LEMMA RecordedGuards ==
  ASSUME NEW q \in Seq(Calls), NEW calls \in Seq(Calls), NEW start \in GuardTypes,
         Guards(q, Len(q), start), start.repeats < MaxRepeated, Short(q, Len(q))
  PROVE  LET e == q \o calls
             h == RecordedFrom(start, calls)
         IN /\ e \in Seq(Calls) /\ h \in GuardTypes
            /\ h.repeats < MaxRepeated => Guards(e, Len(e), h) /\ Short(e, Len(e))
<1> DEFINE e == q \o calls
<1>1. PICK g : /\ g[0] = start /\ RecordedFrom(start, calls) = g[Len(calls)]
               /\ \A i \in 1..Len(calls) : g[i] = RecordCall(g[i - 1], calls[i])
  BY RecordedSteps
<1>2. /\ e \in Seq(Calls) /\ Len(e) = Len(q) + Len(calls)
      /\ \A i \in 1..Len(q) : e[i] = q[i]
      /\ \A i \in 1..Len(calls) : e[Len(q) + i] = calls[i]
  OBVIOUS
<1>3. Len(q) \in Nat /\ Len(calls) \in Nat
  OBVIOUS
<1> HIDE DEF e
<1> DEFINE Good(i) == /\ g[i] \in GuardTypes
                      /\ g[i].repeats < MaxRepeated =>
                           Guards(e, Len(q) + i, g[i]) /\ Short(e, Len(q) + i)
           T == {i \in Nat : i <= Len(calls) => Good(i)}
<1>4. Good(0)
  <2>1. Len(q) + 0 = Len(q)
    BY <1>3
  <2>2. Guards(e, Len(q), start)
    <3>1. ASSUME Len(q) > 0
          PROVE  /\ \A k \in (Len(q) - start.repeats + 1)..Len(q) : k \in 1..Len(q)
                 /\ start.repeats < Len(q) => Len(q) - start.repeats \in 1..Len(q)
      BY <1>3, <3>1 DEF Guards
    <3>2. QED
      BY <1>2, <3>1 DEF Guards
  <2>3. Short(e, Len(q))
    <3> SUFFICES ASSUME NEW i \in 1..Len(q), NEW j \in i..Len(q), Equal(e, i, j)
                 PROVE  Equal(q, i, j)
      BY DEF Short
    <3>1. ASSUME NEW k \in i..j PROVE e[k] = q[k]
      <4>1. k \in 1..Len(q)
        BY <1>3
      <4>2. QED
        BY <1>2, <4>1
    <3>2. i \in i..j
      OBVIOUS
    <3>3. QED
      BY <3>1, <3>2 DEF Equal
  <2>4. QED
    BY <1>1, <2>1, <2>2, <2>3
<1>5. ASSUME NEW i \in Nat, i + 1 <= Len(calls), Good(i) PROVE Good(i + 1)
  <2>1. /\ i + 1 \in 1..Len(calls) /\ Len(q) + i \in Nat /\ Len(q) + i < Len(e)
        /\ (i + 1) - 1 = i /\ Len(q) + (i + 1) = Len(q) + i + 1
    BY <1>2, <1>3, <1>5
  <2>2. calls[i + 1] \in Calls /\ e[Len(q) + i + 1] = calls[i + 1]
    BY <1>2, <2>1
  <2>3. g[i + 1] = RecordCall(g[i], calls[i + 1])
    BY <1>1, <2>1
  <2>4. g[i + 1] \in GuardTypes
    BY <1>5, <2>2, <2>3, RecordCallType
  <2>5. CASE g[i].repeats < MaxRepeated
    <3>1. Guards(e, Len(q) + i, g[i]) /\ Short(e, Len(q) + i) /\ g[i] \in GuardTypes
      BY <1>5, <2>5
    <3>2. g[i + 1] = RecordCall(g[i], e[Len(q) + i + 1])
      BY <2>2, <2>3
    <3>3. Guards(e, Len(q) + i + 1, g[i + 1])
          /\ (g[i + 1].repeats < MaxRepeated => Short(e, Len(q) + i + 1))
      BY <1>2, <2>1, <2>5, <3>1, <3>2, GuardStep
    <3>4. QED
      BY <2>1, <2>4, <3>3
  <2>6. CASE ~(g[i].repeats < MaxRepeated)
    <3>1. g[i].repeats \in Nat /\ MaxRepeated \in Nat
      BY <1>5, KernelAssumption DEF GuardTypes
    <3>2. g[i + 1] = g[i]
      BY <2>3, <2>6, <3>1 DEF RecordCall
    <3>3. QED
      BY <2>4, <2>6, <3>2
  <2>7. QED
    BY <2>5, <2>6
<1> HIDE DEF Good
<1>6. \A i \in Nat : i \in T
  <2>1. 0 \in T
    BY <1>4
  <2>2. ASSUME NEW i \in Nat, i \in T PROVE i + 1 \in T
    <3>1. i + 1 <= Len(calls) => i <= Len(calls)
      BY <1>3
    <3>2. QED
      BY <1>5, <2>2, <3>1
  <2> HIDE DEF T
  <2>3. QED
    BY <2>1, <2>2, Induction
<1>7. Good(Len(calls))
  BY <1>3, <1>6
<1>8. QED
  BY <1>1, <1>2, <1>7 DEF Good, e

(* Between messages the guard knows every call that was proposed; only a Run
   that has ended may have reached the limit. *)
Guard == [last |-> lastCall, repeats |-> repeats]

Guarding ==
  /\ proposed \in Seq(Calls) /\ Guard \in GuardTypes
  /\ pc # "done" =>
       /\ Guards(proposed, Len(proposed), Guard) /\ repeats < MaxRepeated
       /\ Short(proposed, Len(proposed))

LEMMA InitGuarding == Init => Guarding
<1> SUFFICES ASSUME Init PROVE Guarding
  OBVIOUS
<1>1. /\ proposed = <<>> /\ proposed \in Seq(Calls) /\ Len(proposed) = 0
      /\ lastCall = None /\ repeats = 0 /\ Guard.last = None /\ Guard.repeats = 0
  BY DEF Init, Guard
<1>2. MaxRepeated \in Nat \ {0}
  BY KernelAssumption
<1>3. QED
  BY <1>1, <1>2 DEF Guarding, Guard, GuardTypes, Guards, Short

LEMMA NextGuarding ==
  ASSUME Inductive, Guarding, [Next]_vars
  PROVE  Guarding'
<1>1. CASE RespondCalls
  <2>1. PICK calls \in Batches, prose \in BOOLEAN :
          /\ proposed' = proposed \o calls
          /\ lastCall' = Recorded(calls).last /\ repeats' = Recorded(calls).repeats
          /\ IF repeats' >= MaxRepeated THEN End("repeated_tool_call") ELSE Continue("tools")
    BY <1>1 DEF RespondCalls
  <2>2. calls \in Seq(Calls)
    BY BatchesType, InHand
  <2>3. pc = "model"
    BY <1>1 DEF RespondCalls
  <2> DEFINE h == RecordedFrom(Guard, calls)
             e == proposed \o calls
  <2>4. /\ proposed \in Seq(Calls) /\ Guard \in GuardTypes
        /\ Guards(proposed, Len(proposed), Guard) /\ Guard.repeats < MaxRepeated
        /\ Short(proposed, Len(proposed))
    BY <2>3 DEF Guarding, Guard
  <2>5. /\ e \in Seq(Calls) /\ h \in GuardTypes
        /\ h.repeats < MaxRepeated => Guards(e, Len(e), h) /\ Short(e, Len(e))
    BY <2>2, <2>4, RecordedGuards
  <2>6. Recorded(calls) = h
    BY DEF Recorded, Guard
  <2> HIDE DEF h, e
  <2>7. h = [last |-> h.last, repeats |-> h.repeats]
    BY <2>5 DEF GuardTypes
  <2>8. Guard' = h /\ repeats' = h.repeats
    BY <2>1, <2>6, <2>7 DEF Guard
  <2>9. proposed' = e
    BY <2>1 DEF e
  <2>10. pc' # "done" => h.repeats < MaxRepeated
    <3>1. h.repeats \in Nat /\ MaxRepeated \in Nat
      BY <2>5, KernelAssumption DEF GuardTypes
    <3>2. QED
      BY <2>1, <2>8, <3>1 DEF End
  <2>11. QED
    BY <2>5, <2>8, <2>9, <2>10 DEF Guarding
<1>2. CASE ~RespondCalls
  <2>1. UNCHANGED <<lastCall, repeats, proposed>>
    <3>1. ASSUME NEW i \in DOMAIN task, Tool(i)
          PROVE  UNCHANGED <<lastCall, repeats, proposed>>
      BY <3>1 DEF Tool, StartTool, UnknownTool, ReturnTool, FailTool, UnwindTool, guard, history
    <3>2. QED
      BY <1>2, <3>1 DEF Next, Run, Cancel, Capture, Turn, BuildContext, RespondText, ModelFails,
         CancelTools, AbortBatch, CollectResults, AfterBatch, Accept, Reject, guard, history, vars
  <2>2. pc = "done" => pc' = "done"
    BY DEF Next, Run, Tool, Cancel, Capture, Turn, BuildContext, RespondText, RespondCalls,
       ModelFails, CancelTools, AbortBatch, CollectResults, AfterBatch, Accept, Reject,
       StartTool, UnknownTool, ReturnTool, FailTool, UnwindTool, Capturing, vars
  <2>3. QED
    BY <2>1, <2>2 DEF Guarding, Guard
<1>3. QED
  BY <1>1, <1>2

(* The repeat guard of record_tool_call works: while tools execute, no call has
   been proposed max_repeated_tool_calls times in a row, within a batch, across
   batches and across rejected claims, for any number of turns. *)
THEOREM RepeatedCallsDoNotExecuteHolds == Spec => []RepeatedCallsDoNotExecute
<1>1. Inductive /\ Guarding /\ [Next]_vars => Guarding'
  BY NextGuarding
<1>2. Guarding => RepeatedCallsDoNotExecute
  BY DEF Guarding, Short, Equal, RepeatedCallsDoNotExecute
<1>3. QED
  BY <1>1, <1>2, InitGuarding, InductiveHolds, PTL DEF Spec
=============================================================================
