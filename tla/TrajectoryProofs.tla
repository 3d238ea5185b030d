-------------------------- MODULE TrajectoryProofs --------------------------
(***************************************************************************)
(* Proofs about Trajectory: what the monitor of a Run tells the Kernel and *)
(* the model, for any plan, any environment and any number of turns and    *)
(* captures.  Of the analyzer, what it makes of a history, first in        *)
(* general (floats, folds, cycles), then of the history of a Run.          *)
(***************************************************************************)
EXTENDS Trajectory, FiniteSetTheorems, WellFoundedInduction, TLAPS

(* Only a capture under way has a signal, and only an active monitor has one. *)
Capturing ==
  /\ pc = "capture" => active /\ signal.turn = turn
  /\ pc = "capture" /\ signal.trigger # "baseline" => turn >= 1
  /\ pc = "start" => turn = 0 /\ active
  /\ pc \in {"model", "batch_done", "decide"} => turn >= 1

Typed == TypeOK /\ Capturing

(* The Actions of the Kernel are those of the Checkpoints, as long as no
   capture has failed; the one under way adds those of its signal. *)
Counted ==
  /\ pc = "start" => history = <<>> /\ acted = 0
  /\ pc = "capture" =>
       /\ signal.trigger = "baseline" <=> history = <<>>
       /\ history # <<>> =>
            /\ signal.actions = history[Len(history)].actions + Len(signal.path)
            /\ history[Len(history)].turn <= turn
       /\ signal.actions = acted
  /\ active /\ pc \in {"turn", "model", "batch_done", "decide"} =>
       /\ history # <<>>
       /\ history[Len(history)].actions = acted
       /\ history[Len(history)].turn <= turn

(* Which turn the buffer's frame is for, and what it says, at each boundary. *)
IsNext == frame # None /\ frame.turn = turn + 1
IsCurrent == frame # None /\ frame.turn = turn

Framed ==
  /\ frame # None => ~Refused(frame)
  /\ pc = "start" => frame = None
  /\ pc = "capture" =>
       /\ signal.trigger = "baseline" => frame = None
       /\ signal.trigger = "tool_batch_completed" /\ frame # None => frame.turn <= turn
  /\ pc \in {"turn", "batch_done"} =>
       /\ active => IsNext
       /\ IsNext => frame.state = captured
  /\ frame # None => frame.turn <= turn + 1
  /\ pc = "decide" /\ active => IsNext /\ frame.state = captured
  /\ pc = "model" =>
       /\ active => IsCurrent
       /\ IsCurrent => frame.state = captured
       /\ frame # None => frame.turn <= turn

(* A refusal is remembered until the frame that explains it has been shown. *)
Explains == frame # None /\ frame.event \in {"completion_audit_failed", "evaluation_unavailable"}

Explained ==
  allowed = "no" =>
    /\ active /\ pc # "batch_done"
    /\ pc \in {"turn", "decide", "model"} => Explains

-----------------------------------------------------------------------------
(* Types *)

LEMMA TurnsAreNumbers == MaxTurns \in Nat /\ MaxCheckpoints \in Nat
BY TrajectoryAssumption

LEMMA PathLength == \A p \in Paths \cup {<<>>} : Len(p) \in Nat
<1>1. \A b \in Batches : Len(b.path) \in Nat
  BY TrajectoryAssumption
<1>2. QED
  BY <1>1 DEF Paths

(* What Checkpoint() makes of a signal is a Checkpoint, and the last one. *)
LEMMA CheckpointType ==
  ASSUME signal \in Signals, history \in Seq(Checkpoints), NEW state \in States
  PROVE  LET h == Append(history, Checkpoint(signal, state))
         IN /\ h \in Seq(Checkpoints) /\ h # <<>>
            /\ h[Len(h)] = Checkpoint(signal, state)
<1>1. Checkpoint(signal, state) \in Checkpoints
  BY DEF Checkpoint, Checkpoints, Signals
<1>2. QED
  BY <1>1

LEMMA EventType == \A s, h : Event(s, h) \in Events
BY DEF Event, Events

LEMMA AllowedType == \A s, h : CompletionAllowed(s, h) \in {"yes", "no", "unknown"}
BY DEF CompletionAllowed

LEMMA InitTyped == Init => Typed
<1> SUFFICES ASSUME Init PROVE Typed
  OBVIOUS
<1>1. history \in Seq(Checkpoints)
  BY DEF Init
<1>2. QED
  BY <1>1, TurnsAreNumbers DEF Init, Typed, TypeOK, Capturing

(* A new signal has its types. *)
LEMMA SendEffect ==
  ASSUME Typed, NEW trigger \in Triggers, NEW path \in Paths \cup {<<>>},
         NEW attributed \in BOOLEAN, Send(trigger, path, attributed)
  PROVE  /\ pc' = "capture" /\ acted' = acted + Len(path) /\ acted' \in Nat
         /\ signal' \in Signals /\ signal' # None
         /\ signal'.trigger = trigger /\ signal'.turn = turn /\ signal'.path = path
         /\ signal'.actions = acted'
         /\ UNCHANGED <<turn, active, history, seen, frame, captured>>
<1>1. Len(path) \in Nat /\ acted \in Nat /\ turn \in 0 .. MaxTurns
  BY PathLength DEF Typed, TypeOK
<1>2. acted' = acted + Len(path) /\ acted' \in Nat
  BY <1>1 DEF Send
<1>3. signal' = [trigger |-> trigger, turn |-> turn, path |-> path,
                 attributed |-> attributed, actions |-> acted']
  BY DEF Send
<1>4. signal' \in Signals
  BY <1>1, <1>2, <1>3 DEF Signals
<1>5. signal' # None
  BY <1>4, NoneAssumption
<1>6. QED
  BY <1>2, <1>3, <1>4, <1>5 DEF Send, monitor

LEMMA BatchType ==
  \A b \in Batches : b.path \in Paths \cup {<<>>} /\ b.attributed \in BOOLEAN
BY TrajectoryAssumption DEF Paths

LEMMA TriggerTypes ==
  "baseline" \in Triggers /\ "tool_batch_completed" \in Triggers
    /\ "completion_proposed" \in Triggers
BY DEF Triggers

(* Each boundary that is captured sends one signal. *)
LEMMA Sends ==
  ASSUME Typed
  PROVE  /\ Baseline =>
              pc = "start" /\ Send("baseline", <<>>, TRUE) /\ UNCHANGED allowed
         /\ Act =>
              /\ pc = "model" /\ UNCHANGED allowed
              /\ \/ active /\ \E b \in Batches :
                      Send("tool_batch_completed", b.path, b.attributed)
                 \/ /\ ~active /\ pc' = "batch_done" /\ acted' \in Nat
                    /\ UNCHANGED <<turn, active, signal, history, seen, frame, captured>>
         /\ Claim =>
              /\ pc \in {"model", "batch_done"} /\ allowed' = "unknown"
              /\ \/ active /\ Send("completion_proposed", <<>>, TRUE)
                 \/ ~active /\ End /\ UNCHANGED <<turn, active, acted, signal>>
<1>1. Act =>
        /\ pc = "model" /\ UNCHANGED allowed
        /\ \/ active /\ \E b \in Batches :
                Send("tool_batch_completed", b.path, b.attributed)
           \/ /\ ~active /\ pc' = "batch_done" /\ acted' \in Nat
              /\ UNCHANGED <<turn, active, signal, history, seen, frame, captured>>
  <2> SUFFICES ASSUME NEW b \in Batches, ~active, GoTo("batch_done"),
                      acted' = acted + Len(b.path), UNCHANGED <<turn, active, signal>>
               PROVE  /\ pc' = "batch_done" /\ acted' \in Nat
                      /\ UNCHANGED <<history, seen, frame, captured>>
    BY DEF Act
  <2>1. Len(b.path) \in Nat
    BY BatchType, PathLength
  <2>2. QED
    BY <2>1 DEF GoTo, monitor, Typed, TypeOK
<1>2. QED
  BY <1>1 DEF Baseline, Claim

(* After a signal the state is typed. *)
LEMMA SendTyped ==
  ASSUME Typed, NEW trigger \in Triggers, NEW path \in Paths \cup {<<>>},
         NEW attributed \in BOOLEAN, Send(trigger, path, attributed),
         active, trigger # "baseline" => turn >= 1,
         allowed' \in {"yes", "no", "unknown"}
  PROVE  Typed'
<1>1. /\ pc' = "capture" /\ acted' \in Nat
      /\ signal' \in Signals /\ signal' # None
      /\ signal'.trigger = trigger /\ signal'.turn = turn
      /\ UNCHANGED <<turn, active, history, seen, frame, captured>>
  BY SendEffect
<1>2. QED
  BY <1>1 DEF Typed, TypeOK, Capturing

LEMMA EndTyped ==
  ASSUME Typed, End, signal' = None, turn' \in 0 .. MaxTurns, UNCHANGED <<active, acted>>,
         allowed' \in {"yes", "no", "unknown"}
  PROVE  Typed'
<1>1. history' \in Seq(Checkpoints)
  BY DEF End
<1>2. QED
  BY <1>1 DEF End, Typed, TypeOK, Capturing

(* What a capture that found a state leaves behind. *)
LEMMA PublishEffect ==
  ASSUME Typed, pc = "capture", NEW state \in States,
         NEW h, h = Append(history, Checkpoint(signal, state)), Publish(state, h)
  PROVE  /\ h \in Seq(Checkpoints) /\ h # <<>>
         /\ h[Len(h)] = Checkpoint(signal, state) /\ h[Len(h)].state = state
         /\ captured' = state
         /\ frame' \in Frames /\ frame' # None
         /\ frame'.turn = turn + 1 /\ frame'.event = Event(signal, h)
         /\ frame'.state = state
<1>1. signal \in Signals /\ history \in Seq(Checkpoints) /\ signal.turn = turn
      /\ turn \in 0 .. MaxTurns
  BY DEF Typed, TypeOK, Capturing
<1>2. /\ h \in Seq(Checkpoints) /\ h # <<>>
      /\ h[Len(h)] = Checkpoint(signal, state) /\ h[Len(h)].state = state
  BY <1>1, CheckpointType DEF Checkpoint
<1>3. frame' = [turn |-> turn + 1, event |-> Event(signal, h), state |-> state]
      /\ captured' = state
  BY <1>1 DEF Publish, PublishedTurn
<1>4. turn + 1 \in 1 .. (MaxTurns + 1)
  BY <1>1, TurnsAreNumbers
<1>5. frame' \in Frames
  BY <1>3, <1>4, EventType DEF Frames
<1>6. QED
  BY <1>2, <1>3, <1>5, NoneAssumption

LEMMA AfterType ==
  \A t \in Triggers : After(t) \in {"batch_done", "turn", "decide"}
BY DEF After

(* Where a capture returns to, whatever came of it. *)
LEMMA AfterTyped ==
  ASSUME Typed, pc = "capture", pc' = After(signal.trigger), signal' = None,
         UNCHANGED <<turn, acted>>, active' \in BOOLEAN, history' \in Seq(Checkpoints),
         frame' \in Frames \cup {None}, captured' \in States \cup {None},
         allowed' \in {"yes", "no", "unknown"}
  PROVE  Typed'
<1>1. signal.trigger \in Triggers
  BY DEF Typed, TypeOK, Signals
<1>2. pc' \in {"batch_done", "turn", "decide"}
  BY <1>1, AfterType
<1>3. pc' # "turn" => signal.trigger # "baseline"
  BY DEF After
<1>4. pc' # "turn" => turn >= 1
  BY <1>3 DEF Typed, Capturing
<1>5. QED
  BY <1>2, <1>4 DEF Typed, TypeOK, Capturing

LEMMA NextTyped == Typed /\ [Next]_vars => Typed'
<1> SUFFICES ASSUME Typed, [Next]_vars PROVE Typed'
  OBVIOUS
<1> USE TriggerTypes
<1>1. CASE Baseline
  BY <1>1, Sends, SendTyped DEF Typed, TypeOK, Capturing
<1>2. CASE Act
  <2>1. ASSUME active, NEW b \in Batches, Send("tool_batch_completed", b.path, b.attributed)
        PROVE  Typed'
    BY <1>2, <2>1, BatchType, SendTyped, Sends DEF Typed, TypeOK, Capturing
  <2>2. ASSUME ~active, pc' = "batch_done", acted' \in Nat,
               UNCHANGED <<turn, active, signal, history, seen, frame, captured>>
        PROVE  Typed'
    BY <1>2, <2>2, Sends DEF Typed, TypeOK, Capturing
  <2>3. QED
    BY <1>2, <2>1, <2>2, Sends
<1>3. CASE Claim
  <2>1. ASSUME active, Send("completion_proposed", <<>>, TRUE) PROVE Typed'
    BY <1>3, <2>1, SendTyped, Sends DEF Typed, TypeOK, Capturing
  <2>2. ASSUME End, UNCHANGED <<turn, active, acted, signal>> PROVE Typed'
    BY <1>3, <2>2, EndTyped, Sends DEF Typed, TypeOK
  <2>3. QED
    BY <1>3, <2>1, <2>2, Sends
<1>4. CASE BeginTurn
  <2>1. turn' \in 0 .. MaxTurns /\ UNCHANGED <<active, acted, signal, allowed>>
    BY <1>4, TurnsAreNumbers DEF BeginTurn, Typed, TypeOK
  <2>2. CASE End
    BY <1>4, <2>1, <2>2, EndTyped DEF BeginTurn, Typed, TypeOK
  <2>3. CASE turn' = turn + 1 /\ GoTo("model")
    BY <1>4, <2>1, <2>3 DEF BeginTurn, GoTo, monitor, Typed, TypeOK, Capturing
  <2>4. QED
    BY <1>4, <2>2, <2>3 DEF BeginTurn
<1>5. CASE Continue
  <2>1. CASE End
    BY <1>5, <2>1, EndTyped DEF Continue, Typed, TypeOK
  <2>2. CASE GoTo("turn")
    BY <1>5, <2>2 DEF Continue, GoTo, monitor, Typed, TypeOK, Capturing
  <2>3. QED
    BY <1>5, <2>1, <2>2 DEF Continue
<1>6. CASE Capture
  <2>1. PICK state \in States :
          LET h == Append(history, Checkpoint(signal, state))
          IN Publish(state, h) /\ history' = h /\ allowed' = CompletionAllowed(signal, h)
    BY <1>6 DEF Capture
  <2>2. /\ history' \in Seq(Checkpoints) /\ captured' = state /\ frame' \in Frames
    BY <1>6, <2>1, PublishEffect DEF Capture
  <2>3. QED
    BY <1>6, <2>1, <2>2, AllowedType, AfterTyped DEF Capture, Typed, TypeOK
<1>7. CASE SinkFails
  <2>1. PICK state \in States : Publish(state, Append(history, Checkpoint(signal, state)))
    BY <1>7 DEF SinkFails
  <2>2. captured' = state /\ frame' \in Frames
    BY <1>7, <2>1, PublishEffect DEF SinkFails
  <2>3. QED
    BY <1>7, <2>2, AfterTyped DEF SinkFails, Fail, Typed, TypeOK
<1>8. CASE CaptureFails
  BY <1>8, AfterTyped DEF CaptureFails, Fail, Typed, TypeOK
<1>9. CASE Decide
  <2>1. CASE End
    BY <1>9, <2>1, EndTyped DEF Decide, Typed, TypeOK
  <2>2. CASE GoTo("turn")
    BY <1>9, <2>2 DEF Decide, GoTo, monitor, Typed, TypeOK, Capturing
  <2>3. QED
    BY <1>9, <2>1, <2>2 DEF Decide
<1>10. CASE Cancel
  BY <1>10, EndTyped DEF Cancel, Typed, TypeOK
<1>11. CASE UNCHANGED vars
  BY <1>11 DEF vars, monitor, Typed, TypeOK, Capturing
<1>12. QED
  BY <1>1, <1>2, <1>3, <1>4, <1>5, <1>6, <1>7, <1>8, <1>9, <1>10, <1>11 DEF Next

(* The state has its types, and only an active monitor is asked. *)
THEOREM TypedHolds == Spec => []Typed
BY InitTyped, NextTyped, PTL DEF Spec

(* Every variable of the monitor's Run stays in its range. *)
THEOREM TrajectoryTypeCorrect == Spec => []TypeOK
BY TypedHolds, PTL DEF Typed

-----------------------------------------------------------------------------
(* Actions *)

LEMMA InitCounted == Init => Counted
BY DEF Init, Counted

LEMMA SendCounted ==
  ASSUME Typed, Counted, NEW trigger \in Triggers, NEW path \in Paths \cup {<<>>},
         NEW attributed \in BOOLEAN, Send(trigger, path, attributed),
         \/ pc = "start" /\ trigger = "baseline" /\ path = <<>>
         \/ pc \in {"model", "batch_done"} /\ active /\ trigger # "baseline"
  PROVE  Counted'
<1>1. /\ pc' = "capture" /\ acted' = acted + Len(path)
      /\ signal'.trigger = trigger /\ signal'.path = path
      /\ signal'.actions = acted'
      /\ UNCHANGED <<turn, active, history>>
  BY SendEffect
<1>2. CASE pc = "start"
  BY <1>1, <1>2 DEF Counted
<1>3. CASE pc # "start"
  BY <1>1, <1>3 DEF Counted
<1>4. QED
  BY <1>2, <1>3

LEMMA NextCounted == Typed /\ Counted /\ [Next]_vars => Counted'
<1> SUFFICES ASSUME Typed, Counted, [Next]_vars PROVE Counted'
  OBVIOUS
<1> USE TriggerTypes
<1>1. CASE Baseline
  BY <1>1, Sends, SendCounted
<1>2. CASE Act
  <2>1. ASSUME active, NEW b \in Batches, Send("tool_batch_completed", b.path, b.attributed)
        PROVE  Counted'
    BY <1>2, <2>1, BatchType, SendCounted, Sends
  <2>2. ASSUME ~active, pc' = "batch_done", UNCHANGED active
        PROVE  Counted'
    BY <2>2 DEF Counted
  <2>3. QED
    BY <1>2, <2>1, <2>2, Sends
<1>3. CASE Claim
  <2>1. ASSUME active, Send("completion_proposed", <<>>, TRUE) PROVE Counted'
    BY <1>3, <2>1, SendCounted, Sends
  <2>2. CASE End
    BY <2>2 DEF End, Counted
  <2>3. QED
    BY <1>3, <2>1, <2>2, Sends
<1>4. CASE BeginTurn
  <2>1. CASE End
    BY <2>1 DEF End, Counted
  <2>2. CASE turn' = turn + 1 /\ GoTo("model") /\ UNCHANGED <<active, acted>>
    <3>1. active => /\ history # <<>> /\ history[Len(history)].actions = acted
                    /\ history[Len(history)].turn <= turn
      BY <1>4 DEF BeginTurn, Counted
    <3>2. active => history[Len(history)].turn \in Nat
      <4>1. history # <<>> => history[Len(history)] \in Checkpoints
        BY DEF Typed, TypeOK
      <4>2. QED
        BY <3>1, <4>1, TurnsAreNumbers DEF Checkpoints
    <3>3. turn \in Nat
      BY TurnsAreNumbers DEF Typed, TypeOK
    <3>4. active => history[Len(history)].turn <= turn + 1
      BY <3>1, <3>2, <3>3
    <3>5. QED
      BY <2>2, <3>1, <3>4 DEF GoTo, monitor, Counted
  <2>3. QED
    BY <1>4, <2>1, <2>2 DEF BeginTurn
<1>5. CASE Continue
  BY <1>5 DEF Continue, GoTo, monitor, End, Counted
<1>6. CASE Capture
  <2>1. PICK state \in States :
          LET h == Append(history, Checkpoint(signal, state))
          IN Publish(state, h) /\ history' = h /\ allowed' = CompletionAllowed(signal, h)
    BY <1>6 DEF Capture
  <2>2. history' # <<>> /\ history'[Len(history')] = Checkpoint(signal, state)
    BY <1>6, <2>1, PublishEffect DEF Capture
  <2>3. /\ history'[Len(history')].actions = acted
        /\ history'[Len(history')].turn = turn
    BY <1>6, <2>2 DEF Capture, Checkpoint, Counted, Typed, Capturing
  <2>4. turn \in Nat /\ turn' = turn /\ acted' = acted
    BY <1>6, TurnsAreNumbers DEF Capture, Typed, TypeOK
  <2>5. pc' \in {"batch_done", "turn", "decide"}
    BY <1>6, AfterType DEF Capture, Typed, TypeOK, Signals
  <2>6. QED
    BY <2>2, <2>3, <2>4, <2>5 DEF Counted
<1>7. CASE SinkFails \/ CaptureFails
  <2>1. ~active' /\ pc' = After(signal.trigger) /\ pc = "capture"
    BY <1>7 DEF SinkFails, CaptureFails, Fail
  <2>2. pc' \in {"batch_done", "turn", "decide"}
    BY <2>1, AfterType DEF Typed, TypeOK, Signals
  <2>3. QED
    BY <2>1, <2>2 DEF Counted
<1>8. CASE Decide
  BY <1>8 DEF Decide, GoTo, monitor, End, Counted
<1>9. CASE Cancel
  BY <1>9 DEF Cancel, End, Counted
<1>10. CASE UNCHANGED vars
  BY <1>10 DEF vars, monitor, Counted
<1>11. QED
  BY <1>1, <1>2, <1>3, <1>4, <1>5, <1>6, <1>7, <1>8, <1>9, <1>10 DEF Next

LEMMA CountedIsValid == Typed /\ Counted => SignalsAreAccepted
<1> SUFFICES ASSUME Typed, Counted, pc = "capture" PROVE Valid(signal, history)
  BY DEF SignalsAreAccepted
<1>1. signal.turn = turn /\ (signal.trigger # "baseline" => turn >= 1)
  BY DEF Typed, Capturing
<1>2. QED
  BY <1>1 DEF Valid, Counted

(* No capture is refused: the Kernel's signals continue the history they are
   assessed with, in their Actions and in their turn, at every boundary. *)
THEOREM SignalsAreAcceptedHolds == Spec => []SignalsAreAccepted
BY InitTyped, NextTyped, InitCounted, NextCounted, CountedIsValid, PTL DEF Spec

-----------------------------------------------------------------------------
(* Frames *)

LEMMA EvaluatedStates == \A s \in States : s.complete \in BOOLEAN
BY TrajectoryAssumption

(* The projector refuses no frame whose event was made of its own state. *)
LEMMA NeverRefused ==
  ASSUME NEW s, NEW h, NEW state \in States, h[Len(h)].state = state,
         NEW f, f.event = Event(s, h), f.state = state
  PROVE  ~Refused(f)
<1>1. state.complete \in BOOLEAN
  BY EvaluatedStates
<1>2. CASE ~state.complete
  BY <1>2 DEF Event, Refused
<1>3. CASE state.complete /\ s.trigger = "completion_proposed" /\ ~Satisfied(state)
  BY <1>3 DEF Event, Refused
<1>4. CASE state.complete /\ ~(s.trigger = "completion_proposed" /\ ~Satisfied(state))
  <2>1. /\ f.event # "evaluation_unavailable" /\ f.event # "completion_audit_failed"
        /\ f.event = "constraint_violated" => state.constraint = "fail"
    BY <1>4 DEF Event, NewlyViolated
  <2>2. QED
    BY <1>4, <2>1 DEF Refused
<1>5. QED
  BY <1>1, <1>2, <1>3, <1>4

LEMMA InitFramed == Init => Framed
BY NoneAssumption DEF Init, Framed, IsNext, IsCurrent

LEMMA FrameTurns == Typed => turn \in Nat /\ (frame # None => frame.turn \in Nat)
BY TurnsAreNumbers DEF Typed, TypeOK, Frames

LEMMA EndFramed == End => Framed'
BY DEF End, Framed, IsNext, IsCurrent

LEMMA SendFramed ==
  ASSUME Typed, Framed, NEW trigger \in Triggers, NEW path \in Paths \cup {<<>>},
         NEW attributed \in BOOLEAN, Send(trigger, path, attributed),
         \/ pc = "start"
         \/ pc = "model" /\ trigger = "tool_batch_completed"
         \/ pc \in {"model", "batch_done"} /\ trigger = "completion_proposed"
  PROVE  Framed'
<1>1. /\ pc' = "capture" /\ signal'.trigger = trigger
      /\ UNCHANGED <<turn, active, frame, captured>>
  BY SendEffect
<1>2. QED
  BY <1>1 DEF Framed, Refused

(* A capture that found a state leaves the frame of the next turn. *)
LEMMA PublishFramed ==
  ASSUME Typed, pc = "capture", NEW state \in States,
         NEW h, h = Append(history, Checkpoint(signal, state)), Publish(state, h),
         pc' = After(signal.trigger), UNCHANGED turn
  PROVE  Framed'
<1>1. /\ h[Len(h)].state = state
      /\ captured' = state /\ frame' # None
      /\ frame'.turn = turn + 1 /\ frame'.event = Event(signal, h)
      /\ frame'.state = state
  BY PublishEffect
<1>2. ~Refused(frame')
  BY <1>1, NeverRefused
<1>3. pc' \in {"batch_done", "turn", "decide"}
  BY AfterType DEF Typed, TypeOK, Signals
<1>4. turn \in Nat
  BY FrameTurns
<1>5. QED
  BY <1>1, <1>2, <1>3, <1>4 DEF Framed, IsNext, IsCurrent, Refused

LEMMA NextFramed == Typed /\ Framed /\ [Next]_vars => Framed'
<1> SUFFICES ASSUME Typed, Framed, [Next]_vars PROVE Framed'
  OBVIOUS
<1> USE TriggerTypes
<1>0. turn \in Nat /\ (frame # None => frame.turn \in Nat)
  BY FrameTurns
<1>1. CASE Baseline
  BY <1>1, Sends, SendFramed
<1>2. CASE Act
  <2>1. ASSUME active, NEW b \in Batches, Send("tool_batch_completed", b.path, b.attributed)
        PROVE  Framed'
    BY <1>2, <2>1, BatchType, SendFramed, Sends
  <2>2. ASSUME ~active, pc' = "batch_done", UNCHANGED <<turn, active, frame, captured>>
        PROVE  Framed'
    <3>1. frame # None => frame.turn <= turn
      BY <1>2, Sends DEF Framed
    <3>2. QED
      BY <1>0, <2>2, <3>1 DEF Framed, IsNext, IsCurrent, Refused
  <2>3. QED
    BY <1>2, <2>1, <2>2, Sends
<1>3. CASE Claim
  <2>1. ASSUME active, Send("completion_proposed", <<>>, TRUE) PROVE Framed'
    BY <1>3, <2>1, SendFramed, Sends
  <2>2. QED
    BY <1>3, <2>1, EndFramed, Sends
<1>4. CASE BeginTurn
  <2>1. CASE turn' = turn + 1 /\ GoTo("model") /\ UNCHANGED active
    <3>1. /\ active => IsNext
          /\ IsNext => frame.state = captured
          /\ frame # None => ~Refused(frame)
          /\ frame # None => frame.turn <= turn + 1
      BY <1>4 DEF BeginTurn, Framed
    <3>2. pc' = "model" /\ UNCHANGED <<active, frame, captured>>
      BY <2>1 DEF GoTo, monitor
    <3>3. QED
      BY <1>0, <2>1, <3>1, <3>2 DEF Framed, IsNext, IsCurrent, Refused
  <2>2. QED
    BY <1>4, <2>1, EndFramed DEF BeginTurn
<1>5. CASE Continue
  <2>1. CASE GoTo("turn")
    <3>1. pc' = "turn" /\ UNCHANGED <<turn, active, frame, captured>>
      BY <1>5, <2>1 DEF Continue, GoTo, monitor
    <3>2. QED
      BY <1>5, <3>1 DEF Continue, Framed, IsNext, IsCurrent, Refused
  <2>2. QED
    BY <1>5, <2>1, EndFramed DEF Continue
<1>6. CASE Capture
  <2>1. PICK state \in States : Publish(state, Append(history, Checkpoint(signal, state)))
    BY <1>6 DEF Capture
  <2>2. QED
    BY <1>6, <2>1, PublishFramed DEF Capture
<1>7. CASE SinkFails
  <2>1. PICK state \in States : Publish(state, Append(history, Checkpoint(signal, state)))
    BY <1>7 DEF SinkFails
  <2>2. QED
    BY <1>7, <2>1, PublishFramed DEF SinkFails, Fail
<1>8. CASE CaptureFails
  <2>1. /\ pc = "capture" /\ pc' = After(signal.trigger) /\ ~active' /\ captured' = None
        /\ UNCHANGED <<turn, frame>>
    BY <1>8 DEF CaptureFails, Fail
  <2>2. signal.trigger \in Triggers
    BY <2>1 DEF Typed, TypeOK, Signals
  <2>3. pc' \in {"batch_done", "turn", "decide"}
    BY <2>1, <2>2, AfterType
  <2>4. pc' \in {"batch_done", "turn"} /\ frame # None => frame.turn <= turn
    BY <2>1, <2>2 DEF After, Triggers, Framed
  <2>5. pc' \in {"batch_done", "turn"} => ~IsNext
    BY <1>0, <2>4 DEF IsNext
  <2>6. QED
    BY <2>1, <2>3, <2>5 DEF Framed, IsNext, IsCurrent, Refused
<1>9. CASE Decide
  <2>1. CASE active /\ GoTo("turn")
    <3>1. pc' = "turn" /\ UNCHANGED <<turn, active, frame, captured>>
      BY <1>9, <2>1 DEF Decide, GoTo, monitor
    <3>2. QED
      BY <1>9, <2>1, <3>1 DEF Decide, Framed, IsNext, IsCurrent, Refused
  <2>2. QED
    BY <1>9, <2>1, EndFramed DEF Decide
<1>10. CASE Cancel
  BY <1>10, EndFramed DEF Cancel
<1>11. CASE UNCHANGED vars
  BY <1>11 DEF vars, monitor, Framed, IsNext, IsCurrent, Refused
<1>12. QED
  BY <1>1, <1>2, <1>3, <1>4, <1>5, <1>6, <1>7, <1>8, <1>9, <1>10, <1>11 DEF Next

LEMMA FramedIsCurrent == Framed => FeedbackIsCurrent
BY DEF Framed, IsCurrent, FeedbackIsCurrent, Shown, FrameOf

(* The frame a model is shown is of its own turn and describes the state of the
   last boundary, also when a later capture has failed; an active monitor has
   one for every turn, and none that the projector refuses. *)
THEOREM FeedbackIsCurrentHolds == Spec => []FeedbackIsCurrent
BY InitTyped, NextTyped, InitFramed, NextFramed, FramedIsCurrent, PTL DEF Spec

-----------------------------------------------------------------------------
(* Refused claims *)

LEMMA InitExplained == Init => Explained
BY DEF Init, Explained

(* Of a complete evaluation the analyzer makes something. *)
LEMMA CompleteIsSufficient ==
  \A h : h[Len(h)].state.complete => Verdict(h) # "insufficient_evidence"
BY DEF Verdict

(* A claim is refused for what its event says. *)
LEMMA RefusalEvent ==
  ASSUME NEW s, NEW h, CompletionAllowed(s, h) = "no"
  PROVE  /\ s.trigger = "completion_proposed"
         /\ Event(s, h) \in {"completion_audit_failed", "evaluation_unavailable"}
<1>1. s.trigger = "completion_proposed"
  BY DEF CompletionAllowed
<1>2. ~(Satisfied(h[Len(h)].state) /\ h[Len(h)].state.complete)
  BY <1>1, CompleteIsSufficient DEF CompletionAllowed
<1>3. QED
  BY <1>1, <1>2 DEF Event

LEMMA NextExplained == Typed /\ Explained /\ [Next]_vars => Explained'
<1> SUFFICES ASSUME Typed, Explained, [Next]_vars PROVE Explained'
  OBVIOUS
<1>1. CASE Baseline
  BY <1>1 DEF Baseline, Send, monitor, Explained
<1>2. CASE Act
  <2>1. pc' = "capture" \/ ~active
    BY <1>2 DEF Act, Send
  <2>2. UNCHANGED <<active, allowed>>
    BY <1>2 DEF Act, Send
  <2>3. QED
    BY <2>1, <2>2 DEF Explained
<1>3. CASE Claim
  BY <1>3 DEF Claim, Explained
<1>4. CASE BeginTurn
  <2>1. CASE GoTo("model")
    BY <1>4, <2>1 DEF BeginTurn, GoTo, monitor, Explained, Explains
  <2>2. CASE End
    BY <1>4, <2>2 DEF BeginTurn, End, Explained
  <2>3. QED
    BY <1>4, <2>1, <2>2 DEF BeginTurn
<1>5. CASE Continue
  BY <1>5 DEF Continue, GoTo, End, Explained
<1>6. CASE Capture
  <2>1. PICK state \in States :
          LET h == Append(history, Checkpoint(signal, state))
          IN Publish(state, h) /\ history' = h /\ allowed' = CompletionAllowed(signal, h)
    BY <1>6 DEF Capture
  <2>2. frame' # None /\ frame'.event = Event(signal, history')
    BY <1>6, <2>1, PublishEffect DEF Capture
  <2>3. ASSUME allowed' = "no"
        PROVE  Explains' /\ pc' = "decide" /\ active'
    BY <1>6, <2>1, <2>2, <2>3, RefusalEvent
    DEF Capture, After, Explains, Typed, Capturing
  <2>4. QED
    BY <2>3 DEF Explained
<1>7. CASE SinkFails \/ CaptureFails
  BY <1>7 DEF SinkFails, CaptureFails, Fail, Explained
<1>8. CASE Decide
  <2>1. CASE GoTo("turn")
    BY <1>8, <2>1 DEF Decide, GoTo, monitor, Explained, Explains
  <2>2. CASE End
    BY <1>8, <2>2 DEF Decide, End, Explained
  <2>3. QED
    BY <1>8, <2>1, <2>2 DEF Decide
<1>9. CASE Cancel
  BY <1>9 DEF Cancel, End, Explained
<1>10. CASE UNCHANGED vars
  BY <1>10 DEF vars, monitor, Explained, Explains
<1>11. QED
  BY <1>1, <1>2, <1>3, <1>4, <1>5, <1>6, <1>7, <1>8, <1>9, <1>10 DEF Next

LEMMA ExplainedIsShown == Framed /\ Explained => RefusalIsExplained
<1> SUFFICES ASSUME Framed, Explained, pc = "model", allowed = "no"
             PROVE  Shown # None /\ Shown.event \in {"completion_audit_failed",
                                                     "evaluation_unavailable"}
  BY DEF RefusalIsExplained
<1>1. Explains /\ IsCurrent
  BY DEF Framed, Explained
<1>2. QED
  BY <1>1 DEF Explains, IsCurrent, Shown, FrameOf

(* A model whose claim of completion was refused is told so at its next turn,
   and neither a suspected cycle nor progress hides the reason. *)
THEOREM RefusalIsExplainedHolds == Spec => []RefusalIsExplained
BY InitTyped, NextTyped, InitFramed, NextFramed, InitExplained, NextExplained,
   ExplainedIsShown, PTL DEF Spec

-----------------------------------------------------------------------------
(* Induction in this module is from a smallest number of a set. *)
LEMMA Smallest ==
  ASSUME NEW S \in SUBSET Nat, S # {}
  PROVE  \E i \in S : \A j \in S : i <= j
<1>1. PICK i \in S : \A j \in S : <<j, i>> \notin OpToRel(<, Nat)
  BY NatLessThanWellFounded, WFMin
<1>2. \A j \in S : ~(j < i)
  BY <1>1 DEF OpToRel
<1>3. QED
  BY <1>2

-----------------------------------------------------------------------------
(* Floats: what the unit of one is a multiple of *)
LEMMA Powers ==
  ASSUME NEW n \in Nat
  PROVE  2 ^ n \in Nat /\ 2 ^ (n + 1) = 2 * 2 ^ n
<1> DEFINE A == SUBSET (1 .. n)
           B == {s \cup {n + 1} : s \in A}
<1>1. IsFiniteSet(1 .. n) /\ Cardinality(1 .. n) = n
  BY FS_Interval
<1>2. IsFiniteSet(1 .. (n + 1)) /\ Cardinality(1 .. (n + 1)) = n + 1
  BY FS_Interval
<1>3. IsFiniteSet(A) /\ Cardinality(A) = 2 ^ n
  BY <1>1, FS_SUBSET
<1>4. Cardinality(SUBSET (1 .. (n + 1))) = 2 ^ (n + 1)
  BY <1>2, FS_SUBSET
<1>5. 2 ^ n \in Nat
  BY <1>3, FS_CardinalityType
<1>6. ExistsBijection(A, B)
  <2> DEFINE f == [s \in A |-> s \cup {n + 1}]
  <2>1. \A s \in A : n + 1 \notin s
    OBVIOUS
  <2>2. f \in [A -> B] /\ \A b \in B : \E s \in A : f[s] = b
    OBVIOUS
  <2>3. ASSUME NEW s \in A, NEW t \in A, f[s] = f[t]
        PROVE  s = t
    <3>1. s \cup {n + 1} = t \cup {n + 1}
      BY <2>3
    <3>2. s = (s \cup {n + 1}) \ {n + 1} /\ t = (t \cup {n + 1}) \ {n + 1}
      BY <2>1
    <3>3. QED
      BY <3>1, <3>2
  <2> HIDE DEF f, A, B
  <2>4. QED
    BY <2>2, <2>3 DEF ExistsBijection, Bijection, Injection, Surjection, IsInjective
<1>7. IsFiniteSet(B) /\ Cardinality(B) = Cardinality(A)
  BY <1>3, <1>6, FS_Bijection
<1>8. SUBSET (1 .. (n + 1)) = A \cup B
  <2>1. ASSUME NEW s \in SUBSET (1 .. (n + 1)), n + 1 \in s
        PROVE  s \in B
    <3>1. s \ {n + 1} \in A /\ (s \ {n + 1}) \cup {n + 1} = s
      BY <2>1
    <3>2. QED
      BY <3>1
  <2>2. ASSUME NEW s \in SUBSET (1 .. (n + 1)), n + 1 \notin s
        PROVE  s \in A
    BY <2>2
  <2>3. \A s \in A : s \in SUBSET (1 .. (n + 1)) /\ s \cup {n + 1} \in SUBSET (1 .. (n + 1))
    <3>1. 1 .. n \subseteq 1 .. (n + 1) /\ n + 1 \in 1 .. (n + 1)
      OBVIOUS
    <3>2. QED
      BY <3>1
  <2>4. A \subseteq SUBSET (1 .. (n + 1)) /\ B \subseteq SUBSET (1 .. (n + 1))
    <3>1. A \subseteq SUBSET (1 .. (n + 1))
      BY <2>3
    <3>2. \A t \in B : \E s \in A : t = s \cup {n + 1}
      OBVIOUS
    <3> HIDE DEF A, B
    <3>3. ASSUME NEW t \in B
          PROVE  t \in SUBSET (1 .. (n + 1))
      <4>1. PICK s \in A : t = s \cup {n + 1}
        BY <3>2
      <4>2. s \cup {n + 1} \in SUBSET (1 .. (n + 1))
        BY <2>3
      <4>3. QED
        BY <4>1, <4>2
    <3>4. QED
      BY <3>1, <3>3
  <2> HIDE DEF A, B
  <2>5. QED
    BY <2>1, <2>2, <2>4
<1>9. A \cap B = {}
  <2>1. \A s \in A : n + 1 \notin s
    OBVIOUS
  <2>2. \A s \in B : n + 1 \in s
    OBVIOUS
  <2>3. QED
    BY <2>1, <2>2
<1> HIDE DEF A, B
<1>10. Cardinality(A \cup B) = Cardinality(A) + Cardinality(B)
  <2>1. Cardinality(A \cup B) = Cardinality(A) + Cardinality(B) - Cardinality(A \cap B)
    BY <1>3, <1>7, FS_Union
  <2>2. Cardinality(A) \in Nat /\ Cardinality(A \cap B) = 0
    BY <1>3, <1>9, FS_CardinalityType, FS_EmptySet
  <2>3. QED
    BY <1>7, <2>1, <2>2
<1>11. 2 ^ (n + 1) = 2 ^ n + 2 ^ n
  BY <1>3, <1>4, <1>7, <1>8, <1>10
<1>12. QED
  BY <1>5, <1>11

LEMMA Unit == \E m \in Nat : One = 16 * m
<1>1. Precision \in Nat \ (0 .. 3)
  BY ShadowAssumption
<1>2. PICK n \in Nat : Precision = n + 4
  BY <1>1
<1>3. 2 ^ n \in Nat /\ 2 ^ (n + 1) = 2 * 2 ^ n
  BY Powers
<1>4. 2 ^ ((n + 1) + 1) = 2 * 2 ^ (n + 1)
  BY Powers
<1>5. 2 ^ ((n + 2) + 1) = 2 * 2 ^ (n + 2)
  BY Powers
<1>6. 2 ^ ((n + 3) + 1) = 2 * 2 ^ (n + 3)
  BY Powers
<1>7. 2 ^ ((n + 4) + 1) = 2 * 2 ^ (n + 4)
  BY Powers
<1>8. (n + 1) + 1 = n + 2 /\ (n + 2) + 1 = n + 3 /\ (n + 3) + 1 = n + 4
  OBVIOUS
<1>9. 2 ^ (n + 4) = 16 * 2 ^ n
  BY <1>3, <1>4, <1>5, <1>6, <1>8
<1>10. One = 16 * (2 * 2 ^ n)
  BY <1>2, <1>3, <1>7, <1>9 DEF One
<1>11. QED
  BY <1>3, <1>10

LEMMA SpacingType == \A u : Spacing(u) \in {1, 2, 4}
BY DEF Spacing

LEMMA QuotientType ==
  ASSUME NEW n \in Nat, NEW d \in 1 .. 4
  PROVE  Quotient(n, d) \in Int
<1> DEFINE step == Spacing(n \div d)
<1>1. step \in {1, 2, 4}
  BY SpacingType
<1> HIDE DEF step
<1>2. step * d \in 1 .. 16
  BY <1>1
<1>3. n \div (step * d) \in Int
  BY <1>2
<1>4. \A b \in {0, 1} : step * (n \div (step * d) + b) \in Int
  BY <1>1, <1>3
<1>5. QED
  BY <1>4 DEF Quotient, step

(* A quotient that is a multiple of the largest spacing is not rounded. *)
LEMMA QuotientExact ==
  ASSUME NEW d \in {1, 2, 4}, NEW k \in Nat
  PROVE  Quotient(4 * d * k, d) = 4 * k
<1> DEFINE n == 4 * d * k
           step == Spacing(n \div d)
<1>1. step \in {1, 2, 4}
  BY SpacingType
<1> HIDE DEF step
<1>2. PICK e \in {1, 2, 4} : step * e = 4
  BY <1>1
<1>3. n \div (step * d) = e * k /\ n % (step * d) = 0
  BY <1>1, <1>2
<1>4. step * (e * k) = 4 * k
  BY <1>1, <1>2
<1>5. step * d \in 1 .. 16
  BY <1>1
<1>6. ~(2 * 0 > step * d) /\ 2 * 0 # step * d
  BY <1>5
<1>7. Quotient(n, d) = step * (e * k + 0)
  BY <1>3, <1>6 DEF Quotient, step
<1>8. e * k \in Int
  BY <1>2
<1>9. QED
  BY <1>4, <1>7, <1>8

LEMMA RoundedType == \A u \in Int : Rounded(u) \in Int
<1>1. ASSUME NEW u \in Int
      PROVE  Rounded(u) \in Int
  <2>1. CASE u < 0
    <3>1. Quotient(-u, 1) \in Int
      BY <2>1, QuotientType
    <3>2. QED
      BY <2>1, <3>1 DEF Rounded
  <2>2. CASE ~(u < 0)
    <3>1. Quotient(u, 1) \in Int
      BY <2>2, QuotientType
    <3>2. QED
      BY <2>2, <3>1 DEF Rounded
  <2>3. QED
    BY <2>1, <2>2
<1>2. QED
  BY <1>1

LEMMA RoundedExact ==
  ASSUME NEW k \in Int
  PROVE  Rounded(4 * k) = 4 * k
<1>1. CASE k < 0
  <2>1. Quotient(4 * 1 * (-k), 1) = 4 * (-k)
    <3>1. -k \in Nat
      BY <1>1
    <3>2. QED
      BY <3>1, QuotientExact
  <2>2. 4 * 1 * (-k) = -(4 * k) /\ 4 * k < 0
    BY <1>1
  <2>3. Quotient(-(4 * k), 1) = -(4 * k)
    BY <2>1, <2>2
  <2>4. QED
    BY <2>2, <2>3 DEF Rounded
<1>2. CASE ~(k < 0)
  <2>1. Quotient(4 * 1 * k, 1) = 4 * k
    BY <1>2, QuotientExact
  <2>2. 4 * 1 * k = 4 * k /\ ~(4 * k < 0)
    BY <1>2
  <2>3. QED
    BY <2>1, <2>2 DEF Rounded
<1>3. QED
  BY <1>1, <1>2

-----------------------------------------------------------------------------
(* Sums: g[s] is the sum of w over the set s, in whatever order it is taken. *)
Sums(n, w, g) ==
  /\ w \in [1 .. n -> Int] /\ g \in [SUBSET (1 .. n) -> Int]
  /\ g[{}] = 0
  /\ \A s \in SUBSET (1 .. n) : \A x \in s : g[s] = w[x] + g[s \ {x}]

LEMMA SumsAreExtended ==
  ASSUME NEW n \in Nat, NEW w \in [1 .. (n + 1) -> Int], NEW g,
         Sums(n, [i \in 1 .. n |-> w[i]], g)
  PROVE  \E k : Sums(n + 1, w, k)
<1> DEFINE z == n + 1
           k == [s \in SUBSET (1 .. (n + 1)) |->
                   IF z \in s THEN w[z] + g[s \ {z}] ELSE g[s]]
<1>1. /\ g \in [SUBSET (1 .. n) -> Int] /\ g[{}] = 0
      /\ \A s \in SUBSET (1 .. n) : \A x \in s : g[s] = w[x] + g[s \ {x}]
  BY DEF Sums
<1>2. z \notin 1 .. n /\ 1 .. (n + 1) = 1 .. n \cup {z} /\ w[z] \in Int /\ \A i \in 1 .. n : w[i] \in Int
  OBVIOUS
<1> HIDE DEF z
<1>3. \A s \in SUBSET (1 .. (n + 1)) :
        s \ {z} \in SUBSET (1 .. n) /\ (z \notin s => s \in SUBSET (1 .. n) /\ s \ {z} = s)
  BY <1>2
<1>4. \A s \in SUBSET (1 .. (n + 1)) :
        k[s] \in Int /\ k[s] = IF z \in s THEN w[z] + g[s \ {z}] ELSE g[s]
  BY <1>1, <1>2, <1>3
<1>5. k \in [SUBSET (1 .. (n + 1)) -> Int]
  BY <1>4
<1>6. k[{}] = 0
  BY <1>1, <1>4
<1> HIDE DEF k
<1>7. ASSUME NEW s \in SUBSET (1 .. (n + 1)), NEW x \in s
      PROVE  k[s] = w[x] + k[s \ {x}]
  <2>1. s \ {x} \in SUBSET (1 .. (n + 1))
    OBVIOUS
  <2>2. CASE x = z
    <3>1. k[s] = w[z] + g[s \ {z}] /\ k[s \ {x}] = g[s \ {z}]
      BY <1>4, <2>1, <2>2
    <3>2. QED
      BY <2>2, <3>1
  <2>3. CASE x # z /\ z \in s
    <3> DEFINE r == s \ {z}
    <3>1. r \in SUBSET (1 .. n) /\ x \in r /\ x \in 1 .. n
      BY <1>2, <1>3, <2>3
    <3>2. g[r] = w[x] + g[r \ {x}]
      BY <1>1, <3>1
    <3>3. k[s] = w[z] + g[r]
      BY <1>4, <2>3
    <3>4. (s \ {x}) \ {z} = r \ {x} /\ z \in s \ {x}
      BY <2>3
    <3>5. k[s \ {x}] = w[z] + g[r \ {x}]
      BY <1>4, <2>1, <3>4
    <3>6. r \ {x} \in SUBSET (1 .. n)
      BY <3>1
    <3> HIDE DEF r
    <3>7. g[r] \in Int /\ g[r \ {x}] \in Int /\ w[x] \in Int
      BY <1>1, <1>2, <3>1, <3>6
    <3>8. QED
      BY <1>2, <3>2, <3>3, <3>5, <3>7
  <2>4. CASE z \notin s
    <3>1. s \in SUBSET (1 .. n) /\ z \notin s \ {x}
      BY <1>3, <2>4
    <3>2. k[s] = g[s] /\ k[s \ {x}] = g[s \ {x}]
      BY <1>4, <2>1, <2>4, <3>1
    <3>3. QED
      BY <1>1, <3>1, <3>2
  <2>5. QED
    BY <2>2, <2>3, <2>4
<1>8. Sums(n + 1, w, k)
  BY <1>5, <1>6, <1>7 DEF Sums
<1>9. QED
  BY <1>8

LEMMA SumsExist ==
  ASSUME NEW n \in Nat, NEW w \in [1 .. n -> Int]
  PROVE  \E g : Sums(n, w, g)
<1> DEFINE Bad == {i \in 0 .. n : \A g : ~Sums(i, [j \in 1 .. i |-> w[j]], g)}
<1>1. ASSUME Bad # {}
      PROVE  FALSE
  <2>1. Bad \in SUBSET Nat
    OBVIOUS
  <2>2. PICK i \in Bad : \A j \in Bad : i <= j
    BY <1>1, <2>1, Smallest
  <2>3. CASE i = 0
    <3> DEFINE g == [s \in SUBSET (1 .. 0) |-> 0]
    <3>1. 1 .. 0 = {}
      OBVIOUS
    <3>2. Sums(0, [j \in 1 .. 0 |-> w[j]], g)
      BY <3>1 DEF Sums
    <3>3. QED
      BY <2>2, <2>3, <3>2
  <2>4. CASE i # 0
    <3> DEFINE m == i - 1
    <3>1. m \in 0 .. n /\ m + 1 = i /\ ~(i <= m)
      BY <2>2, <2>4
    <3>2. m \notin Bad
      BY <2>2, <3>1
    <3>3. PICK g : Sums(m, [j \in 1 .. m |-> w[j]], g)
      BY <3>1, <3>2
    <3> DEFINE v == [j \in 1 .. (m + 1) |-> w[j]]
    <3>4. v \in [1 .. (m + 1) -> Int] /\ [j \in 1 .. m |-> v[j]] = [j \in 1 .. m |-> w[j]]
      BY <3>1
    <3>5. \E k : Sums(m + 1, v, k)
      <4> HIDE DEF v
      <4>1. m \in Nat
        BY <3>1
      <4> HIDE DEF m
      <4>2. QED
        BY <3>3, <3>4, <4>1, SumsAreExtended
    <3>6. QED
      BY <2>2, <3>1, <3>5
  <2>5. QED
    BY <2>3, <2>4
<1>2. n \notin Bad
  BY <1>1
<1>3. [j \in 1 .. n |-> w[j]] = w
  OBVIOUS
<1>4. QED
  BY <1>2, <1>3

(* What a fold over the sets of indexes returns. *)
Unfolds(f, w, T) ==
  \A s \in SUBSET T :
    f[s] = IF s = {} THEN 0 ELSE w[CHOOSE x \in s : TRUE] + f[s \ {CHOOSE x \in s : TRUE}]

LEMMA FoldIsSum ==
  ASSUME NEW n \in Nat, NEW w, NEW g, Sums(n, w, g), NEW T \in SUBSET (1 .. n), NEW f,
         Unfolds(f, w, T)
  PROVE  f[T] = g[T]
<1>1. IsFiniteSet(1 .. n)
  BY FS_Interval
<1>2. \A s \in SUBSET T : s \in SUBSET (1 .. n) /\ IsFiniteSet(s) /\ Cardinality(s) \in Nat
  BY <1>1, FS_Subset, FS_CardinalityType
<1> DEFINE Bad == {Cardinality(s) : s \in {t \in SUBSET T : f[t] # g[t]}}
<1>3. ASSUME Bad # {}
      PROVE  FALSE
  <2>1. Bad \in SUBSET Nat
    BY <1>2
  <2>2. PICK c \in Bad : \A d \in Bad : c <= d
    BY <1>3, <2>1, Smallest
  <2>3. PICK s \in SUBSET T : f[s] # g[s] /\ Cardinality(s) = c
    BY <2>2
  <2>4. s # {}
    BY <2>3 DEF Sums, Unfolds
  <2> DEFINE x == CHOOSE x \in s : TRUE
  <2>5. x \in s
    BY <2>4
  <2>6. f[s] = w[x] + f[s \ {x}]
    BY <2>4 DEF Unfolds
  <2> HIDE DEF x
  <2>7. s \ {x} \in SUBSET T /\ Cardinality(s \ {x}) = c - 1
    BY <1>2, <2>3, <2>5, FS_RemoveElement
  <2>8. f[s \ {x}] = g[s \ {x}]
    <3>1. ~(c <= c - 1)
      BY <2>1, <2>2
    <3>2. c - 1 \notin Bad
      BY <2>2, <3>1
    <3>3. QED
      BY <2>7, <3>2
  <2>9. g[s] = w[x] + g[s \ {x}]
    BY <1>2, <2>5 DEF Sums
  <2>10. QED
    BY <2>3, <2>6, <2>8, <2>9
<1>4. QED
  BY <1>3

LEMMA ProgressIsSum ==
  ASSUME NEW n \in Nat, NEW w, NEW g, Sums(n, w, g), NEW h, NEW p,
         LastOf(h, p) \in SUBSET (1 .. n),
         \A i \in LastOf(h, p) : CoverageDelta(h, i) = w[i]
  PROVE  ProgressOver(h, p) = g[LastOf(h, p)]
<1> DEFINE T == LastOf(h, p)
           Next_(f) == [s \in SUBSET T |->
             IF s = {} THEN 0
             ELSE CoverageDelta(h, CHOOSE x \in s : TRUE) + f[s \ {CHOOSE x \in s : TRUE}]]
           k == [s \in SUBSET T |-> g[s]]
<1>1. \A s \in SUBSET T : s # {} =>
        LET x == CHOOSE x \in s : TRUE
        IN x \in s /\ CoverageDelta(h, x) = w[x] /\ g[s] = w[x] + g[s \ {x}] /\ s \ {x} \in SUBSET T
  <2>1. ASSUME NEW s \in SUBSET T, s # {}
        PROVE  LET x == CHOOSE x \in s : TRUE
               IN x \in s /\ CoverageDelta(h, x) = w[x] /\ g[s] = w[x] + g[s \ {x}] /\ s \ {x} \in SUBSET T
    <3> DEFINE x == CHOOSE x \in s : TRUE
    <3>1. x \in s
      BY <2>1
    <3> HIDE DEF x
    <3>2. s \in SUBSET (1 .. n)
      OBVIOUS
    <3>3. QED
      BY <3>1, <3>2 DEF Sums, x
  <2>2. QED
    BY <2>1
<1>2. k = Next_(k)
  <2>1. ASSUME NEW s \in SUBSET T
        PROVE  k[s] = Next_(k)[s]
    <3>1. CASE s = {}
      BY <3>1 DEF Sums
    <3>2. CASE s # {}
      <4> DEFINE x == CHOOSE x \in s : TRUE
      <4>1. CoverageDelta(h, x) = w[x] /\ g[s] = w[x] + g[s \ {x}] /\ s \ {x} \in SUBSET T
        BY <1>1, <3>2
      <4>2. Next_(k)[s] = CoverageDelta(h, x) + k[s \ {x}]
        BY <3>2
      <4> HIDE DEF x
      <4>3. QED
        BY <4>1, <4>2
    <3>3. QED
      BY <3>1, <3>2
  <2>2. k = [s \in SUBSET T |-> k[s]] /\ Next_(k) = [s \in SUBSET T |-> Next_(k)[s]]
    OBVIOUS
  <2> HIDE DEF k, Next_
  <2>3. QED
    BY <2>1, <2>2
<1>3. \E f : f = Next_(f)
  BY <1>2
<1> DEFINE f == CHOOSE f : f = Next_(f)
<1>4. f = Next_(f)
  BY <1>3
<1>5. ProgressOver(h, p) = f[T]
  BY DEF ProgressOver, MapThenSumSet, MapThenFoldSet
<1> HIDE DEF f, k
<1>6. Unfolds(f, w, T)
  <2>1. ASSUME NEW s \in SUBSET T
        PROVE  f[s] = IF s = {} THEN 0
                      ELSE w[CHOOSE x \in s : TRUE] + f[s \ {CHOOSE x \in s : TRUE}]
    <3>1. f[s] = Next_(f)[s]
      BY <1>4
    <3>2. s # {} => CoverageDelta(h, CHOOSE x \in s : TRUE) = w[CHOOSE x \in s : TRUE]
      BY <1>1
    <3>3. QED
      BY <3>1, <3>2
  <2>2. QED
    BY <2>1 DEF Unfolds
<1>7. QED
  <2> HIDE DEF T
  <2>1. T \in SUBSET (1 .. n)
    BY DEF T
  <2>2. f[T] = g[T]
    BY <1>6, <2>1, FoldIsSum
  <2>3. QED
    BY <1>5, <2>2 DEF T

LEMMA ActionsAreSum ==
  ASSUME NEW n \in Nat, NEW w, NEW g, Sums(n, w, g), NEW h, NEW p,
         LastOf(h, p) \in SUBSET (1 .. n),
         \A i \in LastOf(h, p) : ActionsSince(h, i) = w[i]
  PROVE  ActionsOver(h, p) = g[LastOf(h, p)]
<1> DEFINE T == LastOf(h, p)
           Next_(f) == [s \in SUBSET T |->
             IF s = {} THEN 0
             ELSE ActionsSince(h, CHOOSE x \in s : TRUE) + f[s \ {CHOOSE x \in s : TRUE}]]
           k == [s \in SUBSET T |-> g[s]]
<1>1. \A s \in SUBSET T : s # {} =>
        LET x == CHOOSE x \in s : TRUE
        IN x \in s /\ ActionsSince(h, x) = w[x] /\ g[s] = w[x] + g[s \ {x}] /\ s \ {x} \in SUBSET T
  <2>1. ASSUME NEW s \in SUBSET T, s # {}
        PROVE  LET x == CHOOSE x \in s : TRUE
               IN x \in s /\ ActionsSince(h, x) = w[x] /\ g[s] = w[x] + g[s \ {x}] /\ s \ {x} \in SUBSET T
    <3> DEFINE x == CHOOSE x \in s : TRUE
    <3>1. x \in s
      BY <2>1
    <3> HIDE DEF x
    <3>2. s \in SUBSET (1 .. n)
      OBVIOUS
    <3>3. QED
      BY <3>1, <3>2 DEF Sums, x
  <2>2. QED
    BY <2>1
<1>2. k = Next_(k)
  <2>1. ASSUME NEW s \in SUBSET T
        PROVE  k[s] = Next_(k)[s]
    <3>1. CASE s = {}
      BY <3>1 DEF Sums
    <3>2. CASE s # {}
      <4> DEFINE x == CHOOSE x \in s : TRUE
      <4>1. ActionsSince(h, x) = w[x] /\ g[s] = w[x] + g[s \ {x}] /\ s \ {x} \in SUBSET T
        BY <1>1, <3>2
      <4>2. Next_(k)[s] = ActionsSince(h, x) + k[s \ {x}]
        BY <3>2
      <4> HIDE DEF x
      <4>3. QED
        BY <4>1, <4>2
    <3>3. QED
      BY <3>1, <3>2
  <2>2. k = [s \in SUBSET T |-> k[s]] /\ Next_(k) = [s \in SUBSET T |-> Next_(k)[s]]
    OBVIOUS
  <2> HIDE DEF k, Next_
  <2>3. QED
    BY <2>1, <2>2
<1>3. \E f : f = Next_(f)
  BY <1>2
<1> DEFINE f == CHOOSE f : f = Next_(f)
<1>4. f = Next_(f)
  BY <1>3
<1>5. ActionsOver(h, p) = f[T]
  BY DEF ActionsOver, MapThenSumSet, MapThenFoldSet
<1> HIDE DEF f, k
<1>6. Unfolds(f, w, T)
  <2>1. ASSUME NEW s \in SUBSET T
        PROVE  f[s] = IF s = {} THEN 0
                      ELSE w[CHOOSE x \in s : TRUE] + f[s \ {CHOOSE x \in s : TRUE}]
    <3>1. f[s] = Next_(f)[s]
      BY <1>4
    <3>2. s # {} => ActionsSince(h, CHOOSE x \in s : TRUE) = w[CHOOSE x \in s : TRUE]
      BY <1>1
    <3>3. QED
      BY <3>1, <3>2
  <2>2. QED
    BY <2>1 DEF Unfolds
<1>7. QED
  <2> HIDE DEF T
  <2>1. T \in SUBSET (1 .. n)
    BY DEF T
  <2>2. f[T] = g[T]
    BY <1>6, <2>1, FoldIsSum
  <2>3. QED
    BY <1>5, <2>2 DEF T


(* A sum of differences of neighbours is the difference of the ends. *)
Differences(w, c, a, b) ==
  c \in [a .. b -> Int] /\ \A i \in (a + 1) .. b : w[i] = c[i] - c[i - 1]

LEMMA Telescopes ==
  ASSUME NEW n \in Nat, NEW w, NEW g, Sums(n, w, g), NEW a \in 0 .. n, NEW b \in a .. n,
         NEW c, Differences(w, c, a, b)
  PROVE  g[(a + 1) .. b] = c[b] - c[a]
<1> USE DEF Differences
<1> DEFINE Bad == {i \in a .. b : g[(a + 1) .. i] # c[i] - c[a]}
<1>1. ASSUME Bad # {}
      PROVE  FALSE
  <2>1. Bad \in SUBSET Nat
    OBVIOUS
  <2>2. PICK i \in Bad : \A j \in Bad : i <= j
    BY <1>1, <2>1, Smallest
  <2>3. i \in a .. b /\ g[(a + 1) .. i] # c[i] - c[a]
    BY <2>2
  <2>4. CASE i = a
    <3>1. (a + 1) .. i = {} /\ c[a] \in Int
      BY <2>4
    <3>2. g[(a + 1) .. i] = 0
      BY <3>1 DEF Sums
    <3>3. QED
      BY <2>3, <2>4, <3>1, <3>2
  <2>5. CASE i # a
    <3>1. i - 1 \in a .. b /\ ~(i <= i - 1) /\ i \in (a + 1) .. b
      BY <2>3, <2>5
    <3>2. g[(a + 1) .. (i - 1)] = c[i - 1] - c[a]
      BY <2>2, <3>1
    <3> DEFINE s == (a + 1) .. i
    <3>3. s \in SUBSET (1 .. n) /\ i \in s /\ s \ {i} = (a + 1) .. (i - 1)
      <4>1. a \in Nat /\ b \in Nat /\ i \in Nat /\ b <= n /\ a + 1 <= i /\ i <= b
        BY <3>1
      <4>2. \A j \in s : j \in 1 .. n
        BY <4>1
      <4>3. i \in s
        BY <4>1
      <4>4. s \ {i} = (a + 1) .. (i - 1)
        <5>1. \A j \in s : j # i => j \in (a + 1) .. (i - 1)
          BY <4>1
        <5>2. \A j \in (a + 1) .. (i - 1) : j \in s /\ j # i
          BY <4>1
        <5> HIDE DEF s
        <5>3. QED
          BY <5>1, <5>2
      <4>5. QED
        BY <4>2, <4>3, <4>4
    <3> HIDE DEF s
    <3>4. g[s] = w[i] + g[s \ {i}]
      BY <3>3 DEF Sums
    <3>5. c[i] \in Int /\ c[i - 1] \in Int /\ c[a] \in Int
      BY <3>1
    <3>6. w[i] = c[i] - c[i - 1]
      BY <3>1
    <3>7. g[s] = c[i] - c[a]
      <4>1. g[s] = (c[i] - c[i - 1]) + (c[i - 1] - c[a])
        BY <3>2, <3>3, <3>4, <3>6
      <4>2. QED
        BY <3>5, <4>1
    <3>8. QED
      BY <2>3, <3>7 DEF s
  <2>6. QED
    BY <2>4, <2>5
<1>2. b \in a .. b
  OBVIOUS
<1>3. b \notin Bad
  BY <1>1
<1>4. QED
  BY <1>2, <1>3

LEMMA Greatest ==
  ASSUME NEW n \in Nat \ {0}, NEW v \in [1 .. n -> Int]
  PROVE  \E m \in 1 .. n : \A j \in 1 .. n : v[j] <= v[m]
<1> DEFINE Bad == {i \in 1 .. n : \A m \in 1 .. i : \E j \in 1 .. i : ~(v[j] <= v[m])}
<1>1. ASSUME Bad # {}
      PROVE  FALSE
  <2>1. Bad \in SUBSET Nat
    OBVIOUS
  <2>2. PICK i \in Bad : \A j \in Bad : i <= j
    BY <1>1, <2>1, Smallest
  <2>3. i \in 1 .. n /\ \A m \in 1 .. i : \E j \in 1 .. i : ~(v[j] <= v[m])
    BY <2>2
  <2>4. CASE i = 1
    <3>1. v[1] \in Int /\ 1 .. i = {1} /\ v[1] <= v[1]
      BY <2>4
    <3>2. QED
      BY <2>3, <3>1
  <2>5. CASE i # 1
    <3>1. i - 1 \in 1 .. n /\ ~(i <= i - 1) /\ 1 .. i = 1 .. (i - 1) \cup {i}
      BY <2>3, <2>5
    <3>2. i - 1 \notin Bad
      BY <2>2, <3>1
    <3>3. PICK m \in 1 .. (i - 1) : \A j \in 1 .. (i - 1) : v[j] <= v[m]
      BY <3>1, <3>2
    <3>4. m \in 1 .. i /\ i \in 1 .. i /\ \A j \in 1 .. i : v[j] \in Int
      BY <2>3, <3>1
    <3>5. CASE v[i] <= v[m]
      <4>1. \A j \in 1 .. i : v[j] <= v[m]
        BY <3>1, <3>3, <3>5
      <4>2. QED
        BY <2>3, <3>4, <4>1
    <3>6. CASE ~(v[i] <= v[m])
      <4>1. \A j \in 1 .. i : v[j] <= v[i]
        <5>1. \A j \in 1 .. (i - 1) : v[j] <= v[i]
          BY <3>1, <3>3, <3>4, <3>6
        <5>2. v[i] <= v[i]
          BY <3>4
        <5>3. QED
          BY <3>1, <5>1, <5>2
      <4>2. QED
        BY <2>3, <3>4, <4>1
    <3>7. QED
      BY <3>5, <3>6
  <2>6. QED
    BY <2>4, <2>5
<1>2. n \notin Bad
  BY <1>1
<1>3. QED
  BY <1>2

-----------------------------------------------------------------------------
(* What the analyzer computes of a history *)

(* One, two or four requirements: the coverages are floats, and so are their
   differences. *)
CoverageIsExact == Cardinality(Requirements) # 3

LEMMA Shares ==
  ASSUME NEW c \in Checkpoints
  PROVE  /\ Cardinality(Requirements) \in 1 .. 4
         /\ Cardinality(c.state.met) \in 0 .. Cardinality(Requirements)
<1>1. c.state.met \subseteq Requirements
  BY TrajectoryAssumption DEF Checkpoints
<1>2. QED
  BY <1>1, ShadowAssumption, FS_Subset, FS_CardinalityType

LEMMA CoverageType == \A c \in Checkpoints : Coverage(c) \in Int
<1>1. ASSUME NEW c \in Checkpoints
      PROVE  Coverage(c) \in Int
  <2> DEFINE k == Cardinality(c.state.met)
             r == Cardinality(Requirements)
  <2>1. r \in 1 .. 4 /\ k \in 0 .. 4
    BY Shares
  <2>2. PICK m \in Nat : One = 16 * m
    BY Unit
  <2> HIDE DEF k, r
  <2>3. k * One \in Nat
    BY <2>1, <2>2
  <2>4. QED
    BY <2>1, <2>3, QuotientType DEF Coverage, k, r
<1>2. QED
  BY <1>1

LEMMA CoverageExact ==
  ASSUME CoverageIsExact, NEW c \in Checkpoints
  PROVE  \E k \in Nat : Coverage(c) = 4 * k
<1> DEFINE k == Cardinality(c.state.met)
           r == Cardinality(Requirements)
<1>1. r \in {1, 2, 4} /\ k \in 0 .. 4
  BY Shares DEF CoverageIsExact
<1>2. PICK m \in Nat : One = 16 * m
  BY Unit
<1> HIDE DEF k, r
<1>3. PICK e \in {1, 2, 4} : r * e = 4
  BY <1>1
<1> DEFINE j == e * (k * m)
<1>4. k * m \in Nat /\ k * One = 16 * (k * m)
  BY <1>1, <1>2
<1>5. j \in Nat
  BY <1>4
<1>6. 16 * (k * m) = 4 * r * j
  <2> DEFINE q == k * m
  <2>1. q \in Nat
    BY <1>4
  <2> HIDE DEF q
  <2>2. 16 * q = 4 * r * (e * q)
    BY <1>1, <1>3, <2>1
  <2>3. QED
    BY <2>2 DEF q
<1> HIDE DEF j
<1>7. Coverage(c) = Quotient(4 * r * j, r)
  BY <1>4, <1>6 DEF Coverage, k, r
<1>8. QED
  BY <1>1, <1>5, <1>7, QuotientExact

LEMMA DeltaType ==
  ASSUME NEW h \in Seq(Checkpoints), NEW i \in 1 .. Len(h)
  PROVE  CoverageDelta(h, i) \in Int
<1>1. CASE i = 1
  BY <1>1 DEF CoverageDelta
<1>2. CASE i # 1
  <2>1. h[i] \in Checkpoints /\ h[i - 1] \in Checkpoints
    BY <1>2
  <2>2. Coverage(h[i]) - Coverage(h[i - 1]) \in Int
    BY <2>1, CoverageType
  <2>3. QED
    BY <1>2, <2>2, RoundedType DEF CoverageDelta
<1>3. QED
  BY <1>1, <1>2

LEMMA DeltaExact ==
  ASSUME CoverageIsExact, NEW h \in Seq(Checkpoints), NEW i \in 2 .. Len(h)
  PROVE  CoverageDelta(h, i) = Coverage(h[i]) - Coverage(h[i - 1])
<1>1. h[i] \in Checkpoints /\ h[i - 1] \in Checkpoints /\ i # 1
  OBVIOUS
<1>2. PICK k \in Nat : Coverage(h[i]) = 4 * k
  BY <1>1, CoverageExact
<1>3. PICK j \in Nat : Coverage(h[i - 1]) = 4 * j
  BY <1>1, CoverageExact
<1>4. k - j \in Int /\ 4 * k - 4 * j = 4 * (k - j)
  OBVIOUS
<1>5. Rounded(4 * (k - j)) = 4 * (k - j)
  BY <1>4, RoundedExact
<1>6. QED
  BY <1>1, <1>2, <1>3, <1>4, <1>5 DEF CoverageDelta

LEMMA BestIsReached ==
  ASSUME NEW h \in Seq(Checkpoints), NEW i \in 1 .. Len(h)
  PROVE  /\ Best(h, i) \in Int
         /\ \E m \in 1 .. i : Best(h, i) = Coverage(h[m])
         /\ \A j \in 1 .. i : Coverage(h[j]) <= Best(h, i)
<1> DEFINE v == [j \in 1 .. i |-> Coverage(h[j])]
           S == {Coverage(h[j]) : j \in 1 .. i}
<1>1. v \in [1 .. i -> Int]
  BY CoverageType
<1>2. PICK m \in 1 .. i : \A j \in 1 .. i : v[j] <= v[m]
  <2>1. i \in Nat \ {0}
    OBVIOUS
  <2> HIDE DEF v
  <2>2. QED
    BY <1>1, <2>1, Greatest
<1>3. v[m] \in S /\ \A y \in S : v[m] >= y
  BY <1>1, <1>2
<1>4. Best(h, i) \in S /\ \A y \in S : Best(h, i) >= y
  BY <1>3 DEF Best, Max
<1>5. S \subseteq Int
  BY <1>1
<1>6. QED
  BY <1>4, <1>5

(* The Actions of a history are counted from its beginning: each Checkpoint
   has more than those before it, if there were any Actions since. *)
Counts(h) ==
  \A j \in 1 .. Len(h) : \A i \in 1 .. (j - 1) :
    /\ h[i].actions <= h[j].actions
    /\ h[j].path # <<>> => h[i].actions < h[j].actions

(* What both thresholds ask of the Actions of a window. *)
LEMMA WindowHasActions ==
  ASSUME NEW h \in Seq(Checkpoints), Counts(h), NEW p \in Nat \ {0}, p < Len(h),
         h[Len(h)].path # <<>>
  PROVE  ActionsOver(h, p) > 0
<1> DEFINE n == Len(h)
           w == [i \in 1 .. n |-> ActionsSince(h, i)]
           c == [i \in (n - p) .. n |-> h[i].actions]
<1>1. n \in Nat /\ \A i \in 1 .. n : h[i].actions \in Nat
  <2>1. n \in Nat /\ \A i \in 1 .. n : h[i] \in Checkpoints
    OBVIOUS
  <2>2. QED
    BY <2>1 DEF Checkpoints
<1>2. w \in [1 .. n -> Int]
  BY <1>1 DEF ActionsSince
<1>3. PICK g : Sums(n, w, g)
  BY <1>1, <1>2, SumsExist
<1>4. LastOf(h, p) = ((n - p) + 1) .. n /\ LastOf(h, p) \in SUBSET (1 .. n)
  BY <1>1 DEF LastOf
<1>5. ActionsOver(h, p) = g[LastOf(h, p)]
  <2>1. \A i \in LastOf(h, p) : ActionsSince(h, i) = w[i]
    BY <1>4
  <2> HIDE DEF w
  <2>2. QED
    BY <1>1, <1>3, <1>4, <2>1, ActionsAreSum
<1>6. n - p \in 0 .. n /\ n \in (n - p) .. n /\ n - p \in (n - p) .. n
  BY <1>1
<1>7. c \in [(n - p) .. n -> Int]
  BY <1>1
<1>8. \A i \in ((n - p) + 1) .. n : w[i] = c[i] - c[i - 1]
  BY <1>1 DEF ActionsSince
<1>9. c[n] = h[n].actions /\ c[n - p] = h[n - p].actions
  BY <1>6
<1>10. g[((n - p) + 1) .. n] = c[n] - c[n - p]
  <2> DEFINE a == n - p
             b == n
  <2>1. a \in 0 .. n /\ b \in a .. n /\ Differences(w, c, a, b)
    BY <1>6, <1>7, <1>8 DEF Differences
  <2> HIDE DEF w, c, a, b, n
  <2>2. g[(a + 1) .. b] = c[b] - c[a]
    BY <1>1, <1>3, <2>1, Telescopes
  <2>3. QED
    BY <2>2 DEF a, b
<1>11. h[n - p].actions < h[n].actions
  BY <1>1 DEF Counts
<1>12. QED
  BY <1>1, <1>4, <1>5, <1>9, <1>10, <1>11

LEMMA ConfirmedIsCycle ==
  ASSUME NEW h \in Seq(Checkpoints), NEW p \in Nat \ {0}, Confirmed(h, p)
  PROVE  CycleOf(h, p)
<1> DEFINE n == Len(h)
<1>1. n \in Nat /\ n >= 2 * p + 1
  BY DEF Confirmed, Recurs
<1>2. LastOf(h, p) = (n - p + 1) .. n /\ LastOf(h, 2 * p) = (n - 2 * p + 1) .. n
        /\ LastOf(h, 2 * p + 1) = (n - 2 * p) .. n
  BY <1>1 DEF LastOf
<1>3. ASSUME NEW i \in (n - p) .. n
      PROVE  h[i].state = h[i - p].state
  <2> DEFINE j == i - p - n + (2 * p + 1)
  <2>1. j \in 1 .. (p + 1) /\ n - (2 * p + 1) + j = i - p /\ n - (2 * p + 1) + j + p = i
    BY <1>1
  <2>2. Equivalent(h[n - (2 * p + 1) + j], h[n - (2 * p + 1) + j + p])
    BY <2>1 DEF Confirmed, Recurs
  <2>3. QED
    BY <2>1, <2>2 DEF Equivalent
<1>4. ASSUME NEW i \in (n - p + 1) .. n
      PROVE  h[i].path # <<>> /\ h[i].path = h[i - p].path /\ ~h[i].novel
  <2>1. i \in LastOf(h, p) /\ i \in LastOf(h, 2 * p)
    BY <1>1, <1>2
  <2>2. QED
    BY <2>1 DEF Confirmed, PathRepeats, NoProgress
<1>5. \A i \in (n - 2 * p) .. n : h[i].attributed /\ h[i].state.complete
  BY <1>2 DEF Confirmed, Observed
<1>6. n > 2 * p
  BY <1>1
<1>7. QED
  BY <1>3, <1>4, <1>5, <1>6 DEF CycleOf

(* A cycle that ends a history is confirmed, if nothing is rounded: over the
   window the differences of coverage add up to nothing. *)
LEMMA CycleIsConfirmed ==
  ASSUME CoverageIsExact, NEW h \in Seq(Checkpoints), Counts(h), NEW p \in Nat \ {0}, CycleOf(h, p)
  PROVE  Confirmed(h, p)
<1> DEFINE n == Len(h)
<1>1. n \in Nat /\ n > 2 * p
  BY DEF CycleOf
<1>2. LastOf(h, p) = ((n - p) + 1) .. n /\ LastOf(h, 2 * p) = (n - 2 * p + 1) .. n
        /\ LastOf(h, 2 * p + 1) = (n - 2 * p) .. n
  BY <1>1 DEF LastOf
<1>3. \A i \in (n - p) .. n : h[i].state = h[i - p].state
  BY DEF CycleOf
<1>4. \A i \in (n - p + 1) .. n :
        h[i].path # <<>> /\ h[i].path = h[i - p].path /\ ~h[i].novel
  BY DEF CycleOf
<1>5. \A i \in (n - 2 * p) .. n : h[i].attributed /\ h[i].state.complete
  BY DEF CycleOf
<1>6. Recurs(h, 2 * p + 1, p + 1, p)
  <2>1. ASSUME NEW j \in 1 .. (p + 1)
        PROVE  Equivalent(h[n - (2 * p + 1) + j], h[n - (2 * p + 1) + j + p])
    <3> DEFINE i == n - (2 * p + 1) + j + p
    <3>1. i \in (n - p) .. n /\ i - p = n - (2 * p + 1) + j
      BY <1>1
    <3>2. h[i].state = h[i - p].state
      BY <1>3, <3>1
    <3>3. QED
      BY <3>1, <3>2 DEF Equivalent
  <2>2. n >= 2 * p + 1
    BY <1>1
  <2>3. QED
    BY <2>1, <2>2 DEF Recurs
<1>7. PathRepeats(h, p)
  <2>1. ASSUME NEW i \in (n - 2 * p + 1) .. n
        PROVE  h[i].path # <<>>
    <3>1. CASE i >= n - p + 1
      <4>1. i \in (n - p + 1) .. n
        BY <1>1, <3>1
      <4>2. QED
        BY <1>4, <4>1
    <3>2. CASE ~(i >= n - p + 1)
      <4>1. i + p \in (n - p + 1) .. n /\ (i + p) - p = i
        BY <1>1, <3>2
      <4>2. QED
        BY <1>4, <4>1
    <3>3. QED
      BY <3>1, <3>2
  <2>2. QED
    BY <1>2, <1>4, <2>1 DEF PathRepeats
<1>8. Observed(h, 2 * p + 1)
  BY <1>2, <1>5 DEF Observed
<1>9. ProgressOver(h, p) <= 0
  <2> DEFINE w == [i \in 1 .. n |-> CoverageDelta(h, i)]
             a == n - p
             c == [i \in a .. n |-> Coverage(h[i])]
  <2>1. w \in [1 .. n -> Int]
    BY DeltaType
  <2>2. PICK g : Sums(n, w, g)
    BY <1>1, <2>1, SumsExist
  <2>3. LastOf(h, p) \in SUBSET (1 .. n) /\ \A i \in LastOf(h, p) : CoverageDelta(h, i) = w[i]
    BY <1>1, <1>2
  <2>4. a \in 0 .. n /\ n \in a .. n /\ a \in a .. n
    BY <1>1
  <2>5. \A i \in a .. n : i \in 1 .. n /\ h[i] \in Checkpoints
    BY <1>1
  <2>6. c \in [a .. n -> Int]
    BY <2>5, CoverageType
  <2>7. \A i \in (a + 1) .. n : w[i] = c[i] - c[i - 1]
    <3>1. ASSUME NEW i \in (a + 1) .. n
          PROVE  w[i] = c[i] - c[i - 1]
      <4>1. i \in 2 .. n /\ i \in a .. n /\ i - 1 \in a .. n /\ i \in 1 .. n
        BY <1>1
      <4>2. CoverageDelta(h, i) = Coverage(h[i]) - Coverage(h[i - 1])
        BY <4>1, DeltaExact
      <4>3. QED
        BY <4>1, <4>2
    <3>2. QED
      BY <3>1
  <2>8. h[n].state = h[a].state
    BY <1>1, <1>3
  <2>9. c[n] = c[a]
    BY <2>4, <2>8 DEF Coverage
  <2>10. c[n] \in Int
    BY <2>4, <2>6
  <2> HIDE DEF w, c
  <2>11. ProgressOver(h, p) = g[LastOf(h, p)]
    <3> HIDE DEF n
    <3>1. QED
      BY <1>1, <2>2, <2>3, ProgressIsSum
  <2>12. LastOf(h, p) = (a + 1) .. n
    BY <1>2
  <2> HIDE DEF a, n
  <2>13. g[(a + 1) .. n] = c[n] - c[a]
    <3>1. Differences(w, c, a, n)
      BY <2>6, <2>7 DEF Differences
    <3>2. QED
      BY <1>1, <2>2, <2>4, <3>1, Telescopes
  <2>14. QED
    BY <2>9, <2>10, <2>11, <2>12, <2>13
<1>10. ActionsOver(h, p) > 0
  <2>1. p < Len(h)
    BY <1>1
  <2>2. h[Len(h)].path # <<>>
    BY <1>1, <1>4
  <2>3. QED
    BY <2>1, <2>2, WindowHasActions
<1>11. NoProgress(h, p)
  BY <1>2, <1>4, <1>9, <1>10 DEF NoProgress
<1>12. Best(h, n) <= Best(h, n - p)
  <2>1. n \in 1 .. n /\ n - p \in 1 .. n
    BY <1>1
  <2>2. PICK m \in 1 .. n : Best(h, n) = Coverage(h[m])
    BY <2>1, BestIsReached
  <2>3. \A j \in 1 .. (n - p) : Coverage(h[j]) <= Best(h, n - p)
    BY <2>1, BestIsReached
  <2>4. CASE m <= n - p
    <3>1. m \in 1 .. (n - p)
      BY <1>1, <2>4
    <3>2. QED
      BY <2>2, <2>3, <3>1
  <2>5. CASE ~(m <= n - p)
    <3>1. m \in (n - p) .. n /\ m - p \in 1 .. (n - p)
      BY <1>1, <2>5
    <3>2. Coverage(h[m]) = Coverage(h[m - p])
      BY <1>3, <3>1 DEF Coverage
    <3>3. QED
      BY <2>2, <2>3, <3>1, <3>2
  <2>6. QED
    BY <2>4, <2>5
<1>13. QED
  BY <1>6, <1>7, <1>8, <1>11, <1>12 DEF Confirmed

(* Evidence of a State is news once: when the State recurs it is not. *)
News(h) ==
  \A j \in 1 .. Len(h) : \A i \in 1 .. (j - 1) : h[i].state = h[j].state => ~h[j].novel

LEMMA FrontIs ==
  ASSUME NEW h \in Seq(Checkpoints), Len(h) > 1
  PROVE  /\ Front(h) \in Seq(Checkpoints) /\ Len(Front(h)) = Len(h) - 1
         /\ \A i \in 1 .. (Len(h) - 1) : Front(h)[i] = h[i]
BY DEF Front

LEMMA FrontCounts ==
  ASSUME NEW h \in Seq(Checkpoints), Len(h) > 1, Counts(h)
  PROVE  Counts(Front(h))
<1> DEFINE f == Front(h)
<1>1. Len(f) = Len(h) - 1 /\ \A i \in 1 .. (Len(h) - 1) : f[i] = h[i]
  BY FrontIs
<1>2. Len(h) \in Nat
  OBVIOUS
<1> HIDE DEF f
<1>3. ASSUME NEW j \in 1 .. Len(f), NEW i \in 1 .. (j - 1)
      PROVE  /\ f[i].actions <= f[j].actions
             /\ f[j].path # <<>> => f[i].actions < f[j].actions
  <2>1. j \in 1 .. Len(h) /\ f[j] = h[j] /\ f[i] = h[i]
    BY <1>1, <1>2
  <2>2. QED
    BY <2>1 DEF Counts
<1>4. Counts(f)
  BY <1>3 DEF Counts
<1>5. QED
  BY <1>4 DEF f

(* What is confirmed of a history was suspected one Checkpoint earlier: its
   window, moved back by one, leaves a Checkpoint out and takes in the one it
   recurs to, with the same State, the same difference and no more news. *)
LEMMA ConfirmedWasSuspected ==
  ASSUME NEW h \in Seq(Checkpoints), Counts(h), News(h), NEW p \in Nat \ {0}, Confirmed(h, p)
  PROVE  Suspected(Front(h), p) /\ Front(h)[Len(Front(h))].state.complete
<1> DEFINE n == Len(h)
           f == Front(h)
<1>1. CycleOf(h, p)
  BY ConfirmedIsCycle
<1>2. n \in Nat /\ n > 2 * p /\ n > 1
  BY <1>1 DEF CycleOf
<1>3. f \in Seq(Checkpoints) /\ Len(f) = n - 1 /\ \A i \in 1 .. (n - 1) : f[i] = h[i]
  BY <1>2, FrontIs
<1>4. \A i \in (n - p) .. n : h[i].state = h[i - p].state
  BY <1>1 DEF CycleOf
<1>5. \A i \in (n - p + 1) .. n :
        h[i].path # <<>> /\ h[i].path = h[i - p].path /\ ~h[i].novel
  BY <1>1 DEF CycleOf
<1>6. \A i \in (n - 2 * p) .. n : h[i].attributed /\ h[i].state.complete
  BY <1>1 DEF CycleOf
<1>7. LastOf(h, p) = (n - p + 1) .. n /\ LastOf(f, p) = (n - p) .. (n - 1)
        /\ LastOf(f, 2 * p) = (n - 2 * p) .. (n - 1)
  BY <1>2, <1>3 DEF LastOf
<1>8. Counts(f)
  BY <1>2, FrontCounts
<1> HIDE DEF f
<1>9. Recurs(f, 2 * p, p, p)
  <2>1. ASSUME NEW j \in 1 .. p
        PROVE  Equivalent(f[Len(f) - 2 * p + j], f[Len(f) - 2 * p + j + p])
    <3> DEFINE i == (n - 1) - 2 * p + j + p
    <3>1. i \in (n - p) .. n /\ i \in 1 .. (n - 1) /\ i - p \in 1 .. (n - 1)
            /\ i - p = (n - 1) - 2 * p + j
      BY <1>2
    <3>2. h[i].state = h[i - p].state
      BY <1>4, <3>1
    <3>3. QED
      BY <1>3, <3>1, <3>2 DEF Equivalent
  <2>2. Len(f) >= 2 * p
    BY <1>2, <1>3
  <2>3. QED
    BY <2>1, <2>2 DEF Recurs
<1>10. Observed(f, 2 * p)
  <2>1. \A i \in (n - 2 * p) .. (n - 1) : i \in 1 .. (n - 1) /\ i \in (n - 2 * p) .. n
    BY <1>2
  <2>2. QED
    BY <1>3, <1>6, <1>7, <2>1 DEF Observed
<1>11. ProgressOver(f, p) <= 0
  <2> DEFINE w == [i \in 1 .. n |-> CoverageDelta(h, i)]
             R == (n - p + 1) .. (n - 1)
  <2>1. w \in [1 .. n -> Int]
    BY DeltaType
  <2>2. PICK g : Sums(n, w, g)
    BY <1>2, <2>1, SumsExist
  <2>3. LastOf(h, p) \in SUBSET (1 .. n) /\ \A i \in LastOf(h, p) : CoverageDelta(h, i) = w[i]
    BY <1>2, <1>7
  <2>4. LastOf(f, p) \in SUBSET (1 .. n)
    BY <1>2, <1>7
  <2>5. ASSUME NEW i \in LastOf(f, p)
        PROVE  CoverageDelta(f, i) = w[i]
    <3>1. i \in 1 .. (n - 1) /\ i - 1 \in 1 .. (n - 1) /\ i # 1 /\ i \in 1 .. n
      BY <1>2, <1>7
    <3>2. f[i] = h[i] /\ f[i - 1] = h[i - 1]
      BY <1>3, <3>1
    <3>3. QED
      BY <3>1, <3>2 DEF CoverageDelta
  <2>6. w[n] = w[n - p]
    <3>1. h[n].state = h[n - p].state /\ h[n - 1].state = h[(n - p) - 1].state
      <4>1. n \in (n - p) .. n /\ n - 1 \in (n - p) .. n /\ (n - 1) - p = (n - p) - 1
        BY <1>2
      <4>2. QED
        BY <1>4, <4>1
    <3>2. n \in 1 .. n /\ n - p \in 1 .. n /\ n # 1 /\ n - p # 1
      <4> HIDE DEF n
      <4>1. n - p > 1 /\ n - p <= n
        BY <1>2
      <4>2. QED
        BY <1>2, <4>1
    <3>3. QED
      BY <3>1, <3>2 DEF CoverageDelta, Coverage
  <2> HIDE DEF w
  <2>7. ProgressOver(h, p) = g[LastOf(h, p)]
    <3> HIDE DEF n
    <3>1. QED
      BY <1>2, <2>2, <2>3, ProgressIsSum
  <2>8. ProgressOver(f, p) = g[LastOf(f, p)]
    <3> HIDE DEF n
    <3>1. QED
      BY <1>2, <2>2, <2>4, <2>5, ProgressIsSum
  <2>9. n \in LastOf(h, p) /\ LastOf(h, p) \ {n} = R
    BY <1>2, <1>7
  <2>10. n - p \in LastOf(f, p) /\ LastOf(f, p) \ {n - p} = R
    BY <1>2, <1>7
  <2> HIDE DEF n, R
  <2>11. g[LastOf(h, p)] = w[n] + g[R]
    BY <2>2, <2>3, <2>9 DEF Sums
  <2>12. g[LastOf(f, p)] = w[n - p] + g[R]
    BY <2>2, <2>4, <2>10 DEF Sums
  <2>13. ProgressOver(h, p) <= 0
    BY DEF Confirmed, NoProgress
  <2>14. QED
    BY <2>6, <2>7, <2>8, <2>11, <2>12, <2>13
<1>12. ASSUME NEW i \in LastOf(f, p)
       PROVE  ~f[i].novel
  <2>1. i \in 1 .. (n - 1) /\ i \in 1 .. n /\ i \in (n - p) .. n /\ i - p \in 1 .. (i - 1)
    BY <1>2, <1>7
  <2>2. h[i - p].state = h[i].state
    BY <1>4, <2>1
  <2>3. ~h[i].novel
    BY <2>1, <2>2 DEF News
  <2>4. QED
    BY <1>3, <2>1, <2>3
<1>13. ActionsOver(f, p) > 0
  <2>1. h[n - 1].path # <<>>
    <3>1. CASE p = 1
      <4>1. n \in (n - p + 1) .. n /\ n - p = n - 1
        BY <1>2, <3>1
      <4>2. QED
        BY <1>5, <4>1
    <3>2. CASE p # 1
      <4>1. n - 1 \in (n - p + 1) .. n
        BY <1>2, <3>2
      <4>2. QED
        BY <1>5, <4>1
    <3>3. QED
      BY <3>1, <3>2
  <2>2. f[Len(f)].path # <<>> /\ p < Len(f)
    BY <1>2, <1>3, <2>1
  <2>3. QED
    BY <1>3, <1>8, <2>2, WindowHasActions
<1>14. f[Len(f)].state.complete
  <2>1. n - 1 \in (n - 2 * p) .. n /\ n - 1 \in 1 .. (n - 1)
    BY <1>2
  <2>2. QED
    BY <1>3, <1>6, <2>1
<1>15. Suspected(f, p)
  BY <1>9, <1>10, <1>11, <1>12, <1>13 DEF Suspected, NoProgress
<1>16. QED
  BY <1>14, <1>15 DEF f

(* What a capture has recorded, of Actions and of evidence. *)
Recorded ==
  /\ Counts(history) /\ News(history)
  /\ \A i \in 1 .. Len(history) : history[i].state.refs \subseteq seen

LEMMA RecordedAtEnd == history' = <<>> => Recorded'
BY DEF Recorded, Counts, News

LEMMA InitRecorded == Init => Recorded
BY DEF Init, Recorded, Counts, News

(* Nothing is recorded, or the evidence of a Checkpoint that is not kept. *)
LEMMA RecordedStays ==
  Recorded /\ history' = history /\ seen \subseteq seen' => Recorded'
BY DEF Recorded

LEMMA CaptureRecorded ==
  ASSUME Typed, Counted, Recorded, Capture
  PROVE  Recorded'
<1>1. PICK state \in States :
        LET h == Append(history, Checkpoint(signal, state))
        IN Publish(state, h) /\ history' = h
  BY DEF Capture
<1> DEFINE c == Checkpoint(signal, state)
           n == Len(history)
<1>2. pc = "capture" /\ history \in Seq(Checkpoints) /\ signal \in Signals
  BY DEF Capture, Typed, TypeOK
<1>3. history' = Append(history, c) /\ seen' = seen \cup state.refs
  BY <1>1 DEF Publish
<1>4. /\ c.state = state /\ c.path = signal.path /\ c.actions = signal.actions
      /\ c.novel = (state.refs \ seen # {})
  BY DEF Checkpoint
<1>5. /\ n \in Nat /\ Len(history') = n + 1 /\ history'[n + 1] = c
      /\ \A i \in 1 .. n : history'[i] = history[i] /\ history[i] \in Checkpoints
  BY <1>2, <1>3
<1> HIDE DEF c
<1>6. \A i \in 1 .. n : history[i].actions \in Nat
  BY <1>5 DEF Checkpoints
<1>7. Len(signal.path) \in Nat /\ (signal.path # <<>> => Len(signal.path) > 0)
  <2>1. signal.path \in Paths \cup {<<>>}
    BY <1>2 DEF Signals
  <2>2. \A b \in Batches : Len(b.path) \in Nat /\ Len(b.path) > 0
    BY TrajectoryAssumption
  <2>3. QED
    BY <2>1, <2>2 DEF Paths
<1>8. n # 0 => c.actions = history[n].actions + Len(signal.path)
  <2>1. n # 0 => history # <<>>
    BY <1>2
  <2>2. QED
    BY <1>2, <1>4, <2>1 DEF Counted
<1> HIDE DEF n
<1>9. ASSUME NEW i \in 1 .. n
      PROVE  /\ history[i].actions <= c.actions
             /\ c.path # <<>> => history[i].actions < c.actions
  <2>1. n \in 1 .. n /\ n # 0
    BY <1>5
  <2>2. history[i].actions <= history[n].actions
    <3>1. CASE i = n
      BY <1>6, <2>1, <3>1
    <3>2. CASE i # n
      <4>1. i \in 1 .. (n - 1)
        BY <1>5, <3>2
      <4>2. QED
        BY <2>1, <4>1 DEF Recorded, Counts, n
    <3>3. QED
      BY <3>1, <3>2
  <2>3. history[i].actions \in Nat /\ history[n].actions \in Nat
    BY <1>6, <2>1
  <2>4. QED
    BY <1>4, <1>7, <1>8, <2>1, <2>2, <2>3
<1>10. ASSUME NEW j \in 1 .. Len(history'), NEW i \in 1 .. (j - 1)
       PROVE  /\ history'[i].actions <= history'[j].actions
              /\ history'[j].path # <<>> => history'[i].actions < history'[j].actions
              /\ history'[i].state = history'[j].state => ~history'[j].novel
  <2>1. i \in 1 .. n /\ history'[i] = history[i]
    BY <1>5
  <2>2. CASE j = n + 1
    <3>1. history'[j] = c
      BY <1>5, <2>2
    <3>2. history[i].state.refs \subseteq seen
      BY <2>1 DEF Recorded, n
    <3>3. history[i].state = c.state => ~c.novel
      BY <1>4, <3>2
    <3>4. QED
      BY <1>9, <2>1, <3>1, <3>3
  <2>3. CASE j # n + 1
    <3>1. j \in 1 .. n /\ history'[j] = history[j]
      BY <1>5, <2>3
    <3>2. QED
      BY <2>1, <3>1 DEF Recorded, Counts, News, n
  <2>4. QED
    BY <2>2, <2>3
<1>11. ASSUME NEW i \in 1 .. Len(history')
       PROVE  history'[i].state.refs \subseteq seen'
  <2>1. CASE i = n + 1
    BY <1>3, <1>4, <1>5, <2>1
  <2>2. CASE i # n + 1
    <3>1. i \in 1 .. n /\ history'[i] = history[i]
      BY <1>5, <2>2
    <3>2. QED
      BY <1>3, <3>1 DEF Recorded, n
  <2>3. QED
    BY <2>1, <2>2
<1>12. Counts(history)'
  BY <1>10 DEF Counts
<1>13. News(history)'
  BY <1>10 DEF News
<1>14. QED
  BY <1>11, <1>12, <1>13 DEF Recorded

LEMMA NextRecorded == Typed /\ Counted /\ Recorded /\ [Next]_vars => Recorded'
<1> SUFFICES ASSUME Typed, Counted, Recorded, [Next]_vars PROVE Recorded'
  OBVIOUS
<1>1. CASE Capture
  BY <1>1, CaptureRecorded
<1>2. CASE SinkFails
  <2>1. history' = history /\ seen \subseteq seen'
    BY <1>2 DEF SinkFails, Publish, Fail
  <2>2. QED
    BY <2>1, RecordedStays
<1>3. CASE CaptureFails
  BY <1>3, RecordedStays DEF CaptureFails, Fail
<1>4. CASE Baseline \/ Act
  BY <1>4, RecordedStays DEF Baseline, Act, Send, GoTo, monitor
<1>5. CASE BeginTurn \/ Continue \/ Decide \/ Cancel \/ Claim
  <2>1. history' = <<>> \/ UNCHANGED <<history, seen>>
    BY <1>5 DEF BeginTurn, Continue, Decide, Cancel, Claim, Send, GoTo, End, monitor
  <2>2. QED
    BY <2>1, RecordedAtEnd, RecordedStays
<1>6. CASE UNCHANGED vars
  BY <1>6, RecordedStays DEF vars, monitor
<1>7. QED
  BY <1>1, <1>2, <1>3, <1>4, <1>5, <1>6 DEF Next

(* Of a Run's history, the Actions are counted and the evidence is news once. *)
THEOREM RecordedHolds == Spec => []Recorded
<1>1. Init => Typed /\ Counted /\ Recorded
  BY InitTyped, InitCounted, InitRecorded
<1>2. Typed /\ Counted /\ Recorded /\ [Next]_vars => (Typed /\ Counted /\ Recorded)'
  BY NextTyped, NextCounted, NextRecorded
<1>3. QED
  BY <1>1, <1>2, PTL DEF Spec

LEMMA PeriodsArePositive == Periods \subseteq Nat \ {0}
BY ShadowAssumption DEF Periods

LEMMA RecordedIsSuspected == Typed /\ Recorded => SuspectedFirst
<1> SUFFICES ASSUME Typed, Recorded, Len(history) > 1, Verdict(history) = "non_progress_cycle"
             PROVE  Verdict(Front(history)) \in {"cycle_suspected", "non_progress_cycle"}
  BY DEF SuspectedFirst
<1>1. PICK p \in Periods : Confirmed(history, p)
  BY DEF Verdict
<1>2. p \in Nat \ {0} /\ history \in Seq(Checkpoints)
  BY PeriodsArePositive DEF Typed, TypeOK
<1>3. Suspected(Front(history), p) /\ Front(history)[Len(Front(history))].state.complete
  BY <1>1, <1>2, ConfirmedWasSuspected DEF Recorded
<1>4. QED
  BY <1>3 DEF Verdict

LEMMA ConfirmedAreCycles ==
  ASSUME Typed, history # <<>>, Verdict(history) = "non_progress_cycle"
  PROVE  \E p \in Periods : CycleOf(history, p)
<1>1. PICK p \in Periods : Confirmed(history, p)
  BY DEF Verdict
<1>2. p \in Nat \ {0} /\ history \in Seq(Checkpoints)
  BY PeriodsArePositive DEF Typed, TypeOK
<1>3. QED
  BY <1>1, <1>2, ConfirmedIsCycle

LEMMA RecordedIsExact ==
  ASSUME CoverageIsExact, Typed, Recorded
  PROVE  CyclesAreExact
<1>1. ASSUME history # <<>>, NEW p \in Periods, CycleOf(history, p)
      PROVE  Verdict(history) = "non_progress_cycle"
  <2>1. p \in Nat \ {0} /\ history \in Seq(Checkpoints)
    BY PeriodsArePositive DEF Typed, TypeOK
  <2>2. Confirmed(history, p)
    BY <1>1, <2>1, CycleIsConfirmed DEF Recorded
  <2>3. history[Len(history)].state.complete
    <3> DEFINE n == Len(history)
    <3>1. n \in Nat
      BY <2>1
    <3>2. n \in (n - 2 * p) .. n
      BY <2>1, <3>1
    <3>3. QED
      BY <1>1, <3>2 DEF CycleOf
  <2>4. QED
    BY <2>2, <2>3 DEF Verdict
<1>2. QED
  BY <1>1, ConfirmedAreCycles DEF CyclesAreExact

(* The actor has had its turn: whatever the plan, the rounding, the Actions and
   the evidence of a Run, what is confirmed at one Checkpoint was suspected, or
   confirmed already, at the one before. *)
THEOREM SuspectedFirstHolds == Spec => []SuspectedFirst
BY TypedHolds, RecordedHolds, RecordedIsSuspected, PTL

(* No cycle is confirmed that is none, for every plan: rounding can hide a
   cycle and never makes one. *)
THEOREM ConfirmedCyclesAreCycles ==
  Spec => [](history # <<>> /\ Verdict(history) = "non_progress_cycle" =>
               \E p \in Periods : CycleOf(history, p))
<1>1. Typed => (history # <<>> /\ Verdict(history) = "non_progress_cycle" =>
                  \E p \in Periods : CycleOf(history, p))
  BY ConfirmedAreCycles
<1>2. QED
  BY <1>1, TypedHolds, PTL

(* A cycle is confirmed exactly when the Run is in one, for one, two and four
   requirements and any limit on its period.  With three the coverage of a
   State is rounded, and so are its differences: there is a Run whose cycle is
   missed. *)
THEOREM CyclesAreExactHolds ==
  ASSUME CoverageIsExact
  PROVE  Spec => []CyclesAreExact
<1>1. Typed /\ Recorded => CyclesAreExact
  BY RecordedIsExact
<1>2. QED
  BY <1>1, TypedHolds, RecordedHolds, PTL
=============================================================================
