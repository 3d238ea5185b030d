----------------------------- MODULE MCServices -----------------------------
(* The services a Run uses, each on its own.  They share no state: what they
   answer meets only in the Kernel, the engine and the monitor, whose modules
   take any answer.  So a behaviour exercises the one service that its initial
   state chooses, and the others stay as they are.                            *)
EXTENDS Judge, Planning, ModelStream, Evidence, Toolbox, ContextViews, TLC

CONSTANTS r1, r2, q1, q2, q3, p1, p2, s1, s2, k1, k2

VARIABLE service

allVars == <<service, judgeVars, planningVars, streamVars, evidenceVars, toolboxVars,
             contextVars>>

(* two questions of one Run and one of another, which only competes for the
   permits: it sends one request and is neither cancelled nor closed *)
Asked == q1 :> r1 @@ q2 :> r1 @@ q3 :> r2

Competing ==
  ~stopped[r2] /\ ~failed[r2] /\ ~closed[r2] /\ usage[r2].requests <= 1

TwoPaths == <<p1, p2>>
TwoServices == <<s1, s2>>

(* a piece begins a call, or the same one again, or brings a part of its arguments *)
SomeFragments == {{"id", "name"}, {"part"}}

(* one port makes its client, the other is given one *)
OneOwned == client = "none" <=> port = "openai"

(* two skills, of which one has a template and is edited; the Conversation
   begins with a system message *)
TwoSkills == <<k1, k2>>
OneTemplate == files[k1].template # Absent /\ files[k2].template = Absent
OneEdited == files'[k2] = files[k2]

MCInit ==
  /\ service \in {"judge", "planning", "model", "evidence", "tools", "context"}
  /\ JudgeInit
  /\ PlanningInit /\ (service # "planning" => reminder = FALSE)
  /\ StreamInit /\ (service # "model" => port = "openai") /\ OneOwned
  /\ EvidenceInit /\ (service # "evidence" => \A p \in Names : disk[p].signature = 0)
  /\ ToolboxInit
  /\ ContextInit /\ OneTemplate /\ conversation # <<>>

JudgeStep ==
  /\ service = "judge" /\ JudgeNext /\ Competing'
  /\ UNCHANGED <<planningVars, streamVars, evidenceVars, toolboxVars, contextVars>>
PlanningStep ==
  /\ service = "planning" /\ PlanningNext
  /\ UNCHANGED <<judgeVars, streamVars, evidenceVars, toolboxVars, contextVars>>
StreamStep ==
  /\ service = "model" /\ StreamNext
  /\ UNCHANGED <<judgeVars, planningVars, evidenceVars, toolboxVars, contextVars>>
EvidenceStep ==
  /\ service = "evidence" /\ EvidenceNext
  /\ UNCHANGED <<judgeVars, planningVars, streamVars, toolboxVars, contextVars>>
ToolboxStep ==
  /\ service = "tools" /\ ToolboxNext
  /\ UNCHANGED <<judgeVars, planningVars, streamVars, evidenceVars, contextVars>>
ContextStep ==
  /\ service = "context" /\ ContextNext /\ OneEdited
  /\ UNCHANGED <<judgeVars, planningVars, streamVars, evidenceVars, toolboxVars>>

MCNext ==
  /\ JudgeStep \/ PlanningStep \/ StreamStep \/ EvidenceStep \/ ToolboxStep
     \/ ContextStep
  /\ UNCHANGED service

MCSpec == MCInit /\ [][MCNext]_allVars /\ JudgeFairness

(* The overshoot of either budget, the judge's and the planner's, is at most
   one request, and what is reported of requests, tokens and attempts is what
   happened, or that it is not known. *)
SpendingIsKnown == SpendingIsAccounted /\ PlannerSpendingIsKnown
=============================================================================
