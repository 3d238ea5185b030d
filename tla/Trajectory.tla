----------------------------- MODULE Trajectory -----------------------------
(* The monitor of one Run: RuntimeKernel sends a signal at each boundary,
   OnlineTrajectoryMonitor.capture() (_trajectory/online.py) has the state
   evaluated, assesses the history with it and publishes the update,
   EvaluationMonitor (evaluation/trajectory.py) keeps the frame of the next
   decision, and TrajectoryContextPipeline shows it to the model.

   A capture awaits its evaluation; what follows it, up to the return, is one
   step of the event loop.  The Run enforces completion.                     *)
EXTENDS Shadow, SequencesExt

CONSTANTS
  States,      \* what an evaluation may find
  Batches,     \* signatures a batch of tool calls may have, and whether they are
               \* all of its Actions: the Kernel attributes every batch, a
               \* CheckpointSignal of another Runtime may not
  None,
  MaxTurns,    \* limits.max_turns
  MaxCheckpoints \* bound on the captures of the Run

ConstraintVerdicts == {"pass", "fail", "unknown"}

ASSUME TrajectoryAssumption ==
  /\ \A s \in States : /\ s.met \subseteq Requirements
                       /\ s.constraint \in ConstraintVerdicts
                       /\ s.complete \in BOOLEAN
  /\ \A b \in Batches : /\ b.path \in Seq(STRING) \ {<<>>}
                        /\ b.attributed \in BOOLEAN
  /\ MaxTurns \in Nat /\ MaxCheckpoints \in Nat

VARIABLES
  pc,       \* where the Kernel is
  turn,
  active,   \* no capture has failed
  acted,    \* Actions so far
  signal,   \* the CheckpointSignal of the capture under way
  history,  \* _RunState.checkpoints
  seen,     \* the evidence that is not new, kept by the evaluator
  frame,    \* the buffer's frame, None if there is none
  allowed,  \* completion_allowed of the last claim
  captured  \* history: the state the last capture evaluated, None if it failed before

Paths == {b.path : b \in Batches}

monitor == <<history, seen, frame, captured>>
vars == <<pc, turn, active, acted, signal, allowed, monitor>>

Triggers == {"baseline", "tool_batch_completed", "completion_proposed"}
Events == {"facts_updated", "progress_evaluated", "cycle_suspected", "cycle_confirmed",
           "constraint_violated", "completion_audit_failed", "evaluation_unavailable"}

Signals == [trigger : Triggers, turn : 0 .. MaxTurns, path : Paths \cup {<<>>},
            attributed : BOOLEAN, actions : Nat]
Checkpoints == [state : States, path : Paths \cup {<<>>}, attributed : BOOLEAN,
                actions : Nat, turn : 0 .. MaxTurns, novel : BOOLEAN]
Frames == [turn : 1 .. (MaxTurns + 1), event : Events, state : States]

ASSUME NoneAssumption == None \notin Signals \cup Frames

----------------------------------------------------------------------------
(* Assessment of one more Checkpoint *)

Satisfied(s) == s.met = Requirements /\ s.constraint = "pass"

(* its Actions are counted since the Checkpoint before *)
Valid(s, h) ==
  IF h = <<>> THEN s.trigger = "baseline"
  ELSE /\ s.trigger # "baseline"
       /\ s.turn >= 1 /\ s.turn >= h[Len(h)].turn
       /\ s.actions = h[Len(h)].actions + Len(s.path)

Checkpoint(s, state) ==
  [state |-> state, path |-> s.path, attributed |-> s.attributed, actions |-> s.actions,
   turn |-> s.turn, novel |-> state.refs \ seen # {}]

CompletionAllowed(s, h) ==
  IF s.trigger # "completion_proposed" THEN "unknown"
  ELSE IF /\ Satisfied(h[Len(h)].state) /\ h[Len(h)].state.complete
          /\ Verdict(h) # "insufficient_evidence"
       THEN "yes" ELSE "no"

Before(h) == h[Len(h) - 1].state
NewlyViolated(h) ==
  Len(h) > 1 /\ h[Len(h)].state.constraint = "fail" /\ Before(h).constraint # "fail"
Recovered(h) ==
  Len(h) > 1 /\ h[Len(h)].state.constraint = "pass" /\ Before(h).constraint # "pass"
Affected(h) ==
  Len(h) > 1 /\ (h[Len(h)].state.met # Before(h).met \/ NewlyViolated(h) \/ Recovered(h))

EventCycleFirst(s, h) ==  \* mutant: a suspicion hides why a claim was refused
  IF Verdict(h) = "cycle_suspected" THEN "cycle_suspected"
  ELSE IF ~h[Len(h)].state.complete THEN "evaluation_unavailable"
  ELSE IF s.trigger = "completion_proposed" /\ ~Satisfied(h[Len(h)].state)
    THEN "completion_audit_failed"
  ELSE "facts_updated"

(* _context_event, and what _publish makes of an incomplete evaluation *)
Event(s, h) ==
  IF ~h[Len(h)].state.complete THEN "evaluation_unavailable"
  ELSE IF s.trigger = "completion_proposed" /\ ~Satisfied(h[Len(h)].state)
    THEN "completion_audit_failed"
  ELSE IF Verdict(h) = "non_progress_cycle" THEN "cycle_confirmed"
  ELSE IF NewlyViolated(h) THEN "constraint_violated"
  ELSE IF Verdict(h) = "cycle_suspected" THEN "cycle_suspected"
  ELSE IF Affected(h) \/ h[Len(h)].novel THEN "progress_evaluated"
  ELSE "facts_updated"

----------------------------------------------------------------------------
(* The Kernel's boundaries *)

Init ==
  /\ pc = "start"
  /\ turn = 0 /\ active = TRUE /\ acted = 0
  /\ signal = None
  /\ history = <<>> /\ seen = {} /\ frame = None
  /\ allowed = "unknown"
  /\ captured = None

SendUncounted(trigger, path, attributed) ==  \* mutant: Actions are counted in the signal only
  /\ Len(history) < MaxCheckpoints
  /\ pc' = "capture"
  /\ signal' = [trigger |-> trigger, turn |-> turn, path |-> path,
                attributed |-> attributed, actions |-> acted + Len(path)]
  /\ UNCHANGED <<turn, active, acted, monitor>>

Send(trigger, path, attributed) ==
  /\ Len(history) < MaxCheckpoints
  /\ pc' = "capture"
  /\ acted' = acted + Len(path)
  /\ signal' = [trigger |-> trigger, turn |-> turn, path |-> path,
                attributed |-> attributed, actions |-> acted']
  /\ UNCHANGED <<turn, active, monitor>>

(* the Run's next boundary *)
GoTo(boundary) == pc' = boundary /\ UNCHANGED monitor

(* the Run is over, and the Kernel closes its monitor: close_run() *)
End ==
  /\ pc' = "ended"
  /\ history' = <<>> /\ seen' = {} /\ frame' = None /\ captured' = None

Baseline == pc = "start" /\ Send("baseline", <<>>, TRUE) /\ UNCHANGED allowed

(* a turn begins: the frame of exactly this turn is in the model's context *)
ShownLatest == frame  \* mutant: whatever the buffer holds
FrameOf(t) == IF frame # None /\ frame.turn = t THEN frame ELSE None
Shown == FrameOf(turn)

(* TrajectoryContextProjector.project raises: the event does not fit the state *)
Refused(f) ==
  CASE f.event = "evaluation_unavailable"  -> f.state.complete
    [] f.event = "constraint_violated"     -> ~f.state.complete \/ f.state.constraint # "fail"
    [] f.event = "completion_audit_failed" -> ~f.state.complete \/ Satisfied(f.state)
    [] OTHER                               -> ~f.state.complete

(* a frame that is refused is a ContextProtocolError, and ends the Run *)
BeginTurn ==
  /\ pc = "turn"
  /\ \/ /\ turn < MaxTurns /\ turn' = turn + 1
        /\ IF FrameOf(turn') # None /\ Refused(FrameOf(turn')) THEN End ELSE GoTo("model")
     \/ turn = MaxTurns /\ End /\ UNCHANGED turn
  /\ UNCHANGED <<active, acted, signal, allowed>>

(* a batch of tool calls, captured when it has ended *)
Act ==
  /\ pc = "model"
  /\ \E b \in Batches :
       \/ active /\ Send("tool_batch_completed", b.path, b.attributed)
       \/ /\ ~active /\ GoTo("batch_done")
          /\ acted' = acted + Len(b.path)
          /\ UNCHANGED <<turn, active, signal>>
  /\ UNCHANGED allowed

(* a final text, or a terminal tool after its batch was captured *)
Claim ==
  /\ pc \in {"model", "batch_done"}
  /\ allowed' = "unknown"
  /\ \/ active /\ Send("completion_proposed", <<>>, TRUE)
     \/ ~active /\ End /\ UNCHANGED <<turn, active, acted, signal>>

(* the next turn, or a terminal tool that does not claim completion *)
Continue ==
  /\ pc = "batch_done"
  /\ GoTo("turn") \/ End
  /\ UNCHANGED <<turn, active, acted, signal, allowed>>

----------------------------------------------------------------------------
(* capture() *)

After(trigger) ==
  IF trigger = "tool_batch_completed" THEN "batch_done"
  ELSE IF trigger = "baseline" THEN "turn" ELSE "decide"

PublishedTurn(s) == s.turn + 1

(* evaluated, assessed, published: the buffer keeps the frame of the next turn *)
Publish(state, h) ==
  /\ seen' = seen \cup state.refs
  /\ captured' = state
  /\ frame' = [turn |-> PublishedTurn(signal), event |-> Event(signal, h), state |-> state]

Capture ==
  /\ pc = "capture" /\ Valid(signal, history)
  /\ \E state \in States :
       LET h == Append(history, Checkpoint(signal, state))
       IN /\ Publish(state, h)
          /\ history' = h
          /\ allowed' = CompletionAllowed(signal, h)
  /\ pc' = After(signal.trigger) /\ signal' = None
  /\ UNCHANGED <<turn, active, acted>>

(* the Kernel goes on without its monitor; a claim is not approved *)
Fail ==
  /\ active' = FALSE /\ allowed' = "unknown"
  /\ pc' = After(signal.trigger) /\ signal' = None
  /\ UNCHANGED <<turn, acted, history>>

(* the host's update sink raises: the frame is out, the Checkpoint is not kept *)
SinkFails ==
  /\ pc = "capture" /\ Valid(signal, history)
  /\ \E state \in States : Publish(state, Append(history, Checkpoint(signal, state)))
  /\ Fail

(* the transition is refused, or the evaluation raises *)
CaptureFails ==
  /\ pc = "capture"
  /\ captured' = None
  /\ Fail
  /\ UNCHANGED <<seen, frame>>

(* the claim is accepted; or it is rejected, and the Run goes on while it has
   retries and somebody who can approve it *)
Decide ==
  /\ pc = "decide"
  /\ (allowed # "yes" /\ active /\ GoTo("turn")) \/ End
  /\ UNCHANGED <<turn, active, acted, signal, allowed>>

Cancel ==
  /\ pc # "ended"
  /\ signal' = None /\ End
  /\ UNCHANGED <<turn, active, acted, allowed>>

Next ==
  \/ Baseline \/ BeginTurn \/ Act \/ Claim \/ Continue
  \/ Capture \/ SinkFails \/ CaptureFails
  \/ Decide \/ Cancel

Spec == Init /\ [][Next]_vars

----------------------------------------------------------------------------
(* Every variable stays in its range. *)
TypeOK ==
  /\ pc \in {"start", "capture", "turn", "model", "batch_done", "decide", "ended"}
  /\ turn \in 0 .. MaxTurns /\ active \in BOOLEAN /\ acted \in Nat
  /\ signal \in Signals \cup {None}
  /\ signal # None <=> pc = "capture"
  /\ history \in Seq(Checkpoints)
  /\ frame \in Frames \cup {None}
  /\ allowed \in {"yes", "no", "unknown"}
  /\ captured \in States \cup {None}

(* docs/trajectory-shadow-design.md:124-132: two complete equivalent State
   cycles of p Checkpoints over one repeated path of Actions, all of it
   observed, without new evidence in the second.  A State that recurs meets the
   same requirements: there is no progress to ask for.                        *)
CycleOf(h, p) ==
  LET n == Len(h)
  IN /\ n > 2 * p
     /\ \A i \in n - p .. n : h[i].state = h[i - p].state
     /\ \A i \in n - p + 1 .. n :
          h[i].path # <<>> /\ h[i].path = h[i - p].path /\ ~h[i].novel
     /\ \A i \in n - 2 * p .. n : h[i].attributed /\ h[i].state.complete

(* A cycle is confirmed exactly when the Run is in one, whatever came before. *)
CyclesAreExact ==
  history # <<>> =>
    ((\E p \in Periods : CycleOf(history, p)) <=> Verdict(history) = "non_progress_cycle")

(* No cycle of a Run goes unnoticed. *)
CyclesAreFound ==
  history # <<>> =>
    ((\E p \in Periods : CycleOf(history, p)) => Verdict(history) = "non_progress_cycle")

(* A cycle is confirmed only after the Checkpoint before it was suspected:
   the actor has had one turn to break it ("CP3 suspicion and CP4
   confirmation", docs/trajectory-shadow-design.md:139). *)
SuspectedFirst ==
  Len(history) > 1 /\ Verdict(history) = "non_progress_cycle" =>
    Verdict(Front(history)) \in {"cycle_suspected", "non_progress_cycle"}

(* The feedback in a model's context describes the state found at the last
   boundary, never an earlier one, also after a capture has failed; and while
   captures succeed there is feedback at every turn: the projector refuses no
   frame of the monitor's own. *)
FeedbackIsCurrent ==
  /\ pc = "model" =>
       /\ active => Shown # None
       /\ Shown # None => Shown.state = captured
  /\ frame # None => ~Refused(frame)

(* When a claim was refused the next turn's feedback says so, whatever else
   there is to say of the state. *)
RefusalIsExplained ==
  pc = "model" /\ allowed = "no" =>
    Shown # None /\ Shown.event \in {"completion_audit_failed", "evaluation_unavailable"}

(* The Actions the Kernel counts are those its signals attribute: a capture is
   never refused, and the monitor lost, for a mismatch of the two. *)
SignalsAreAccepted == pc = "capture" => Valid(signal, history)
=============================================================================
