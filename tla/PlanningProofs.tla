--------------------------- MODULE PlanningProofs ---------------------------
(***************************************************************************)
(* Proofs about Planning: what holds of the plans of one Run and of the    *)
(* planner's account for every set of capabilities and every limit,        *)
(* whatever a model writes.                                                *)
(***************************************************************************)
EXTENDS Planning, TLAPS

Entries ==
  [kind : {"captured", "lost"}, id : Nat] \cup [kind : {"revised"}, id : Nat, from : Nat]

(* The plan and what an update_plan call compares it with, as far as the
   arguments below need their types. *)
Recording ==
  /\ captures \in Nat
  /\ checkpoint \in Nat \cup {Undefined}
  /\ log \in Seq(Entries)
  /\ stage \in Running =>
       plan \in [version : Nat, steps : SUBSET accepted, basis : Nat \cup {Undefined}]

(* A Run is in its session only with a plan that covers what the host accepts. *)
Covering ==
  /\ stage \in Running \/ plan # Undefined =>
       /\ Required \subseteq accepted /\ Requirements # {}
       /\ Requirements \subseteq plan.steps /\ plan.steps \subseteq accepted
  /\ stage \in Preparing => plan = Undefined

(* The checkpoint is the newest capture, and the revisions that rest on it are
   those of the versions before this one. *)
Newest ==
  checkpoint # Undefined =>
    \E j \in 1..Len(log) :
      /\ log[j] = [kind |-> "captured", id |-> checkpoint]
      /\ \A k \in j + 1..Len(log) : log[k].kind = "revised" /\ log[k].from < plan.version

(* A session has a checkpoint only while it runs. *)
Grounding ==
  /\ stage \notin Running => checkpoint = Undefined
  /\ Newest
  /\ RevisionsAreGrounded

(* Where the planner stands in its loop, and what it knows of its spending. *)
Accounting ==
  /\ sent \in Nat /\ counted \in Nat /\ used \in Nat /\ uncounted \in BOOLEAN
  /\ stage = "ask" =>
       /\ uncounted = FALSE /\ used = counted /\ counted <= PlannerTokens /\ sent <= PlannerRetries
  /\ stage = "open" =>
       /\ uncounted = TRUE /\ used = counted /\ counted < PlannerTokens /\ sent \in 1..(PlannerRetries + 1)
  /\ stage \in Preparing => account = Undefined
  /\ PlannerSpendingIsKnown

Steps == \* the actions that touch neither plan nor log
  \/ AskModel \/ PromptTooLong \/ RequestFails \/ PlanningCancelled

-----------------------------------------------------------------------------
(* No step takes the plan's record, the checkpoints or the log out of their
   types. *)
LEMMA RecordingStep ==
  ASSUME Recording, [PlanningNext]_planningVars
  PROVE  Recording'
<1> USE PlanningAssumption
<1>1. CASE AskModel
  BY <1>1 DEF AskModel, session, Recording, Running
<1>2. CASE PromptTooLong
  BY <1>2 DEF PromptTooLong, session, Recording, Running
<1>3. CASE RequestFails
  BY <1>3 DEF RequestFails, session, Recording, Running
<1>4. CASE Respond
  <2>1. UNCHANGED <<captures, checkpoint, log>>
    BY <1>4 DEF Respond
  <2>2. stage' \in Running =>
          plan' \in [version : Nat, steps : SUBSET accepted', basis : Nat \cup {Undefined}]
    <3>1. SUFFICES ASSUME stage' \in Running
                   PROVE  plan' \in [version : Nat, steps : SUBSET accepted', basis : Nat \cup {Undefined}]
      OBVIOUS
    <3>2. PICK o \in Outputs : Binds(o) /\ Bind(o)
      BY <1>4, <3>1 DEF Respond, Running, Bind
    <3>3. QED
      BY <3>1, <3>2 DEF Bind, Binds, Covers, Running
  <2>3. QED
    BY <2>1, <2>2 DEF Recording
<1>5. CASE PlanningCancelled
  BY <1>5 DEF PlanningCancelled, session, Recording, Running
<1>6. CASE Capture
  <2>1. \E e \in Entries : log' = Append(log, e)
    BY <1>6 DEF Capture, Recording, Entries
  <2>2. QED
    BY <1>6, <2>1 DEF Capture, Recording, Running
<1>7. CASE Propose
  BY <1>7 DEF Propose, Recording, Running
<1>8. CASE Update
  <2> DEFINE Plans == [version : Nat, steps : SUBSET accepted, basis : Nat \cup {Undefined}]
  <2>1. /\ UNCHANGED <<captures, checkpoint, accepted, stage>> /\ stage = "batch"
    BY <1>8 DEF Update
  <2>2. plan \in Plans
    BY <2>1 DEF Recording, Running
  <2>3. PICK expected \in 1..MaxRevision, basis \in 0..MaxCaptures,
             steps \in (SUBSET (Capabilities \cup {Stranger})) \ {{}} :
          IF Admits(expected, basis, steps)
            THEN /\ plan' = [version |-> plan.version + 1, steps |-> steps, basis |-> checkpoint]
                 /\ log' = Append(log, [kind |-> "revised", id |-> basis, from |-> expected])
            ELSE UNCHANGED <<plan, log>>
    BY <1>8 DEF Update
  <2>4. CASE Admits(expected, basis, steps)
    <3>1. plan' \in Plans
      BY <2>2, <2>3, <2>4 DEF Admits, Covers, Recording
    <3>2. [kind |-> "revised", id |-> basis, from |-> expected] \in Entries
      BY DEF Entries
    <3>3. log' \in Seq(Entries)
      BY <2>3, <2>4, <3>2 DEF Recording
    <3>4. QED
      BY <2>1, <3>1, <3>3 DEF Recording
  <2>5. CASE ~Admits(expected, basis, steps)
    BY <2>1, <2>2, <2>3, <2>5 DEF Recording
  <2>6. QED
    BY <2>4, <2>5
<1>9. CASE Return
  BY <1>9 DEF Return, session, Recording, Running
<1>10. CASE EndRun
  BY <1>10 DEF EndRun, Recording, Running
<1>11. CASE Quit
  BY <1>11 DEF Quit, session, Recording, Running
<1>12. CASE UNCHANGED planningVars
  BY <1>12 DEF planningVars, session, Recording
<1>13. QED
  BY <1>1, <1>2, <1>3, <1>4, <1>5, <1>6, <1>7, <1>8, <1>9, <1>10, <1>11, <1>12
  DEF PlanningNext

(* The first plan covers what _bind accepted, and an update that is admitted
   covers it again. *)
LEMMA CoveringStep ==
  ASSUME Recording, Covering, [PlanningNext]_planningVars
  PROVE  Covering'
<1> USE PlanningAssumption
<1>1. CASE Respond
  <2>1. CASE UNCHANGED <<accepted, plan>> /\ stage' \notin Running
    BY <1>1, <2>1 DEF Respond, Covering, Requirements, Preparing, Running
  <2>2. CASE \E o \in Outputs : Binds(o) /\ Bind(o) /\ stage' = "capture"
    <3>1. PICK o \in Outputs : Binds(o) /\ Bind(o)
      BY <2>2
    <3>2. /\ accepted' = o.criteria /\ plan'.steps = o.steps
      BY <2>2, <3>1 DEF Bind
    <3>3. /\ Required \subseteq accepted' /\ accepted' \ Constraints # {}
          /\ accepted' \ Constraints \subseteq plan'.steps /\ plan'.steps \subseteq accepted'
      BY <3>1, <3>2 DEF Binds, Covers
    <3>4. QED
      BY <2>2, <3>3 DEF Covering, Requirements, Preparing
  <2>3. QED
    BY <1>1, <2>1, <2>2 DEF Respond, Bind, Running
<1>2. CASE Update
  <2>1. /\ UNCHANGED <<accepted, stage>> /\ stage = "batch"
    BY <1>2 DEF Update
  <2>2. PICK expected \in 1..MaxRevision, basis \in 0..MaxCaptures,
             steps \in (SUBSET (Capabilities \cup {Stranger})) \ {{}} :
          IF Admits(expected, basis, steps)
            THEN plan' = [version |-> plan.version + 1, steps |-> steps, basis |-> checkpoint]
            ELSE UNCHANGED plan
    BY <1>2 DEF Update
  <2>3. CASE Admits(expected, basis, steps)
    BY <2>1, <2>2, <2>3 DEF Covering, Admits, Covers, Requirements, Running, Preparing
  <2>4. CASE ~Admits(expected, basis, steps)
    BY <2>1, <2>2, <2>4 DEF Covering, Requirements, Running, Preparing
  <2>5. QED
    BY <2>3, <2>4
<1>3. CASE Steps
  BY <1>3 DEF Steps, AskModel, PromptTooLong, RequestFails, PlanningCancelled, session,
              Covering, Requirements, Running, Preparing
<1>4. CASE Capture \/ Propose \/ Return \/ EndRun \/ Quit
  BY <1>4 DEF Capture, Propose, Return, EndRun, Quit, session, Covering, Requirements,
              Running, Preparing
<1>5. CASE UNCHANGED planningVars
  BY <1>5 DEF planningVars, session, Covering, Requirements
<1>6. QED
  BY <1>1, <1>2, <1>3, <1>4, <1>5 DEF PlanningNext, Steps

-----------------------------------------------------------------------------
(* An entry appended to the log changes none of the older ones. *)
LEMMA Appended ==
  ASSUME NEW S, NEW s \in Seq(S), NEW e \in S
  PROVE  /\ Append(s, e) \in Seq(S)
         /\ Len(Append(s, e)) = Len(s) + 1
         /\ Append(s, e)[Len(s) + 1] = e
         /\ \A i \in 1..Len(s) : Append(s, e)[i] = s[i]
OBVIOUS

(* What holds of each revision in the log goes on holding of it: it names only
   older entries. *)
LEMMA OlderRevisions ==
  ASSUME Recording, RevisionsAreGrounded, NEW e \in Entries, log' = Append(log, e)
  PROVE  \A i \in 1..Len(log) : log'[i].kind = "revised" =>
           \E j \in 1..i - 1 :
             /\ log'[j] = [kind |-> "captured", id |-> log'[i].id]
             /\ \A k \in j + 1..i - 1 : log'[k].kind = "revised" /\ log'[k].from < log'[i].from
<1>1. \A i \in 1..Len(log) : log'[i] = log[i]
  BY Appended DEF Recording
<1>2. Len(log) \in Nat
  BY DEF Recording
<1>3. TAKE i \in 1..Len(log)
<1>4. HAVE log'[i].kind = "revised"
<1>5. PICK j \in 1..i - 1 :
        /\ log[j] = [kind |-> "captured", id |-> log[i].id]
        /\ \A k \in j + 1..i - 1 : log[k].kind = "revised" /\ log[k].from < log[i].from
  BY <1>1, <1>4 DEF RevisionsAreGrounded
<1>6. log'[j] = [kind |-> "captured", id |-> log'[i].id]
  BY <1>1, <1>2, <1>5
<1>7. \A k \in j + 1..i - 1 : log'[k].kind = "revised" /\ log'[k].from < log'[i].from
  <2>1. TAKE k \in j + 1..i - 1
  <2>2. k \in 1..Len(log)
    BY <1>2
  <2>3. log'[k] = log[k] /\ log'[i] = log[i]
    BY <1>1, <2>2
  <2>4. QED
    BY <1>5, <2>3
<1>8. QED
  BY <1>6, <1>7

(* A capture is the newest entry; the checkpoint is it, or gone. *)
LEMMA CaptureGrounds ==
  ASSUME Recording, Grounding, Capture
  PROVE  Grounding'
<1> USE PlanningAssumption
<1>1. PICK e \in Entries :
        /\ log' = Append(log, e) /\ e.kind # "revised"
        /\ checkpoint' # Undefined => e = [kind |-> "captured", id |-> checkpoint']
  BY DEF Capture, Recording, Entries
<1>2. /\ Len(log) \in Nat /\ Len(log') = Len(log) + 1 /\ log'[Len(log) + 1] = e
  BY <1>1, Appended DEF Recording
<1>3. RevisionsAreGrounded'
  <2>1. \A i \in 1..Len(log) : log'[i].kind = "revised" =>
          \E j \in 1..i - 1 :
            /\ log'[j] = [kind |-> "captured", id |-> log'[i].id]
            /\ \A k \in j + 1..i - 1 : log'[k].kind = "revised" /\ log'[k].from < log'[i].from
    BY <1>1, OlderRevisions DEF Grounding
  <2>2. log'[Len(log) + 1].kind # "revised"
    BY <1>1, <1>2
  <2>3. QED
    BY <1>2, <2>1, <2>2 DEF RevisionsAreGrounded
<1>4. Newest'
  BY <1>1, <1>2 DEF Newest
<1>5. stage' \in Running
  BY DEF Capture, Running
<1>6. QED
  BY <1>3, <1>4, <1>5 DEF Grounding

(* An admitted update names the checkpoint and the version it replaces. *)
LEMMA UpdateGrounds ==
  ASSUME Recording, Grounding, Update
  PROVE  Grounding'
<1> USE PlanningAssumption
<1>1. /\ UNCHANGED <<checkpoint, stage>> /\ stage \in Running
  BY DEF Update, Running
<1>2. plan.version \in Nat /\ log \in Seq(Entries) /\ Len(log) \in Nat
  BY <1>1 DEF Recording
<1>3. PICK expected \in 1..MaxRevision, basis \in 0..MaxCaptures,
           steps \in (SUBSET (Capabilities \cup {Stranger})) \ {{}} :
        IF Admits(expected, basis, steps)
          THEN /\ plan' = [version |-> plan.version + 1, steps |-> steps, basis |-> checkpoint]
               /\ log' = Append(log, [kind |-> "revised", id |-> basis, from |-> expected])
          ELSE UNCHANGED <<plan, log>>
  BY DEF Update
<1>4. CASE Admits(expected, basis, steps)
  <2> DEFINE e == [kind |-> "revised", id |-> checkpoint, from |-> plan.version]
  <2>1. /\ log' = Append(log, e) /\ e \in Entries /\ checkpoint # Undefined
        /\ plan'.version = plan.version + 1
    BY <1>3, <1>4 DEF Admits, Entries
  <2>2. /\ Len(log') = Len(log) + 1 /\ log'[Len(log) + 1] = e
        /\ \A i \in 1..Len(log) : log'[i] = log[i]
    BY <1>2, <2>1, Appended
  <2>3. PICK j \in 1..Len(log) :
          /\ log[j] = [kind |-> "captured", id |-> checkpoint]
          /\ \A k \in j + 1..Len(log) : log[k].kind = "revised" /\ log[k].from < plan.version
    BY <2>1 DEF Grounding, Newest
  <2>4. \A k \in j + 1..Len(log) : log'[k].kind = "revised" /\ log'[k].from < plan.version
    <3>1. TAKE k \in j + 1..Len(log)
    <3>2. k \in 1..Len(log)
      BY <1>2
    <3>3. QED
      BY <2>2, <2>3, <3>2
  <2>5. log'[j] = [kind |-> "captured", id |-> checkpoint]
    BY <2>2, <2>3
  <2>6. RevisionsAreGrounded'
    <3>1. \A i \in 1..Len(log) : log'[i].kind = "revised" =>
            \E l \in 1..i - 1 :
              /\ log'[l] = [kind |-> "captured", id |-> log'[i].id]
              /\ \A k \in l + 1..i - 1 : log'[k].kind = "revised" /\ log'[k].from < log'[i].from
      BY <2>1, OlderRevisions DEF Grounding
    <3>2. \A i \in 1..Len(log') : i \in 1..Len(log) \/ i = Len(log) + 1
      BY <1>2, <2>2
    <3>3. ASSUME NEW i \in 1..Len(log'), i = Len(log) + 1
          PROVE  \E l \in 1..i - 1 :
                   /\ log'[l] = [kind |-> "captured", id |-> log'[i].id]
                   /\ \A k \in l + 1..i - 1 : log'[k].kind = "revised" /\ log'[k].from < log'[i].from
      <4>1. log'[i].id = checkpoint /\ log'[i].from = plan.version /\ i - 1 = Len(log)
        BY <1>2, <2>2, <3>3
      <4>2. QED
        BY <2>4, <2>5, <4>1
    <3>4. QED
      BY <3>1, <3>2, <3>3 DEF RevisionsAreGrounded
  <2>7. Newest'
    <3>1. j \in 1..Len(log')
      BY <1>2, <2>2
    <3>2. \A k \in j + 1..Len(log') : log'[k].kind = "revised" /\ log'[k].from < plan'.version
      <4>1. TAKE k \in j + 1..Len(log')
      <4>2. CASE k = Len(log) + 1
        <5>1. log'[k].kind = "revised" /\ log'[k].from = plan.version
          BY <2>2, <4>2
        <5>2. plan.version < plan'.version
          BY <1>2, <2>1
        <5>3. QED
          BY <5>1, <5>2
      <4>3. CASE k \in j + 1..Len(log)
        <5>1. log'[k].from < plan.version /\ log'[k].kind = "revised"
          BY <2>4, <4>3
        <5>2. log'[k] \in Entries
          <6>1. k \in 1..Len(log)
            BY <1>2, <4>3
          <6>2. QED
            BY <1>2, <2>2, <6>1
        <5>3. log'[k].from \in Nat
          BY <5>1, <5>2 DEF Entries
        <5>4. plan.version \in Nat /\ plan'.version = plan.version + 1
          BY <1>2, <2>1
        <5>5. QED
          BY <5>1, <5>3, <5>4
      <4>4. QED
        BY <1>2, <2>2, <4>2, <4>3
    <3>3. QED
      BY <1>1, <2>5, <3>1, <3>2 DEF Newest
  <2>8. QED
    BY <1>1, <2>6, <2>7 DEF Grounding
<1>5. CASE ~Admits(expected, basis, steps)
  BY <1>1, <1>3, <1>5 DEF Grounding, Newest, RevisionsAreGrounded
<1>6. QED
  BY <1>4, <1>5

LEMMA GroundingStep ==
  ASSUME Recording, Grounding, [PlanningNext]_planningVars
  PROVE  Grounding'
<1>1. CASE Capture
  BY <1>1, CaptureGrounds
<1>2. CASE Update
  BY <1>2, UpdateGrounds
<1>3. CASE Steps
  BY <1>3 DEF Steps, AskModel, PromptTooLong, RequestFails, PlanningCancelled, session,
              Grounding, Newest, RevisionsAreGrounded, Running, Preparing
<1>4. CASE Respond
  <2>1. /\ UNCHANGED <<checkpoint, log>> /\ stage = "open"
    BY <1>4 DEF Respond
  <2>2. checkpoint = Undefined
    BY <2>1 DEF Grounding, Running
  <2>3. QED
    BY <2>1, <2>2 DEF Grounding, Newest, RevisionsAreGrounded
<1>5. CASE Propose \/ Return \/ EndRun \/ Quit
  BY <1>5 DEF Propose, Return, EndRun, Quit, session, Grounding, Newest,
              RevisionsAreGrounded, Running, Preparing
<1>6. CASE UNCHANGED planningVars
  BY <1>6 DEF planningVars, session, Grounding, Newest, RevisionsAreGrounded
<1>7. QED
  BY <1>1, <1>2, <1>3, <1>4, <1>5, <1>6 DEF PlanningNext, Steps

-----------------------------------------------------------------------------
(* For every set of capabilities and every bound: no plan of a Run drops a
   condition of the host or serves a criterion that is not accepted, and every
   revision rests on the newest capture and on a version of its own
   (_bind, _PlanningSession.update_plan, ExecutionPlan.validate_against). *)
THEOREM PlansAreGroundedHolds == PlanningSpec => []PlansAreGrounded
<1>1. PlanningInit => Recording /\ Covering /\ Grounding
  BY PlanningAssumption DEF PlanningInit, Recording, Covering, Grounding, Newest,
     RevisionsAreGrounded, Running, Preparing
<1>2. Recording /\ Covering /\ Grounding /\ [PlanningNext]_planningVars
        => (Recording /\ Covering /\ Grounding)'
  BY RecordingStep, CoveringStep, GroundingStep
<1>3. Covering /\ Grounding => PlansAreGrounded
  BY DEF Covering, Grounding, PlansAreGrounded, PlanCoversAcceptance
<1>4. QED
  BY <1>1, <1>2, <1>3, PTL DEF PlanningSpec

-----------------------------------------------------------------------------
(* The planner's loop keeps count: only a request that is not answered leaves
   its usage unknown, and none begins with the budget spent. *)
LEMMA AccountingStep ==
  ASSUME Accounting, [PlanningNext]_planningVars
  PROVE  Accounting'
<1> USE PlanningAssumption
<1>1. CASE AskModel
  <2>1. CASE counted >= PlannerTokens
    <3>1. /\ stage' = "failed" /\ UNCHANGED <<sent, counted, uncounted, used>>
          /\ account' = [requests |-> sent, usage |-> IF sent = 0 THEN Undefined ELSE counted]
          /\ stage = "ask"
      BY <1>1, <2>1 DEF AskModel, Fails, Accounting
    <3>2. QED
      BY <3>1 DEF Accounting, PlannerSpendingIsKnown, Preparing
  <2>2. CASE ~(counted >= PlannerTokens)
    <3>1. /\ stage = "ask" /\ stage' = "open" /\ sent' = sent + 1 /\ uncounted' = TRUE
          /\ UNCHANGED <<counted, account, used>>
      BY <1>1, <2>2 DEF AskModel
    <3>2. counted < PlannerTokens
      BY <2>2 DEF Accounting
    <3>3. QED
      BY <3>1, <3>2 DEF Accounting, PlannerSpendingIsKnown, Preparing
  <2>3. QED
    BY <2>1, <2>2
<1>2. CASE PromptTooLong
  BY <1>2 DEF PromptTooLong, Fails, session, Accounting, PlannerSpendingIsKnown, Preparing
<1>3. CASE RequestFails
  BY <1>3 DEF RequestFails, Fails, session, Accounting, PlannerSpendingIsKnown, Preparing
<1>4. CASE Respond
  <2>1. PICK n \in 0..MaxPlannerReply : counted' = counted + n /\ used' = used + n
    BY <1>4 DEF Respond
  <2>2. /\ stage = "open" /\ uncounted' = FALSE /\ sent' = sent
        /\ sent \in 1..(PlannerRetries + 1) /\ account = Undefined
        /\ used' = counted' /\ counted' \in Nat
        /\ used' < PlannerTokens + MaxPlannerReply \/ MaxPlannerReply = 0
    BY <1>4, <2>1 DEF Respond, Accounting, Preparing
  <2>3. CASE /\ stage' \in {"failed", "capture"}
             /\ account' = [requests |-> sent, usage |-> counted']
    BY <2>2, <2>3 DEF Accounting, PlannerSpendingIsKnown, Preparing
  <2>4. CASE /\ stage' = "ask" /\ account' = account
             /\ counted' <= PlannerTokens /\ sent <= PlannerRetries
    BY <2>2, <2>4 DEF Accounting, PlannerSpendingIsKnown, Preparing
  <2>5. Fails(sent, FALSE) => account' = [requests |-> sent, usage |-> counted']
    BY <2>2 DEF Fails
  <2>6. \A o : Bind(o) => /\ stage' \in {"failed", "capture"}
                          /\ account' = [requests |-> sent, usage |-> counted']
    BY DEF Bind
  <2>7. sent > PlannerRetries \/ sent <= PlannerRetries
    BY <2>2
  <2>8. CASE stage' = "failed" /\ Fails(sent, FALSE)
    BY <2>3, <2>5, <2>8
  <2>9. CASE \E o \in Outputs : Bind(o)
    BY <2>3, <2>6, <2>9
  <2>10. CASE /\ counted' <= PlannerTokens /\ ~(sent > PlannerRetries)
              /\ stage' = "ask" /\ UNCHANGED account
    BY <2>4, <2>7, <2>10
  <2>11. QED
    BY <1>4, <2>8, <2>9, <2>10 DEF Respond
<1>5. CASE PlanningCancelled
  BY <1>5 DEF PlanningCancelled, session, Accounting, PlannerSpendingIsKnown, Preparing
<1>6. CASE Capture \/ Propose \/ Update \/ Return \/ EndRun
  BY <1>6 DEF Capture, Propose, Update, Return, EndRun, planner, Running, Preparing,
              Accounting, PlannerSpendingIsKnown
<1>7. CASE Quit \/ UNCHANGED planningVars
  BY <1>7 DEF Quit, planningVars, planner, Accounting, PlannerSpendingIsKnown
<1>8. QED
  BY <1>1, <1>2, <1>3, <1>4, <1>5, <1>6, <1>7 DEF PlanningNext

(* For every limit: the audit of a Run tells the requests and tokens its
   planning used, or that it does not know, and the planner overshoots its
   budget by one request at most (ModelTaskPlanner.plan). *)
THEOREM PlannerSpendingIsKnownHolds == PlanningSpec => []PlannerSpendingIsKnown
<1>1. PlanningInit => Accounting
  <2>1. SUFFICES ASSUME PlanningInit PROVE Accounting
    OBVIOUS
  <2>2. /\ sent = 0 /\ counted = 0 /\ used = 0 /\ uncounted = FALSE /\ stage = "ask"
        /\ account = Undefined /\ 0 < PlannerTokens + MaxPlannerReply
    BY <2>1, PlanningAssumption DEF PlanningInit
  <2>3. PlannerSpendingIsKnown
    BY <2>2, PlanningAssumption DEF PlannerSpendingIsKnown
  <2>4. /\ 0 \in Nat /\ 0 <= PlannerTokens /\ 0 <= PlannerRetries /\ FALSE \in BOOLEAN
        /\ "ask" # "open"
    BY PlanningAssumption
  <2>5. QED
    BY <2>2, <2>3, <2>4, Zenon DEF Accounting, Preparing
<1>2. Accounting /\ [PlanningNext]_planningVars => Accounting'
  BY AccountingStep
<1>3. Accounting => PlannerSpendingIsKnown
  BY DEF Accounting
<1>4. QED
  BY <1>1, <1>2, <1>3, PTL DEF PlanningSpec
=============================================================================
