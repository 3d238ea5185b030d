---------------------------- MODULE SessionStore ----------------------------
(***************************************************************************)
(* What the SessionStore protocol promises (contracts/session.py 117-128): *)
(* every call of commit() takes effect at most once, at one instant        *)
(* between call and return; an effect appends the Run to one agreed log if *)
(* and only if the commit's base is the log's current Conversation; the    *)
(* same commit again is answered from the log; another commit under a      *)
(* recorded run id is refused.  A call may also fail operationally, and    *)
(* then the caller does not learn whether it took effect.                  *)
(***************************************************************************)
EXTENDS SessionCommits

CONSTANT Writers    \* processes that share one agent's session

VARIABLES
  log,        \* the committed Runs, in commit order
  phase,      \* per writer: idle, or a call before or after its effect
  proposal,   \* per writer: the commit being proposed, None between calls
  outcome     \* per writer: how its latest call ended

vars == <<log, phase, proposal, outcome>>

Phases == {"idle", "called", "effected"}
Outcomes == {"none", "committed", "conflict", "failed"}

TypeOK ==
  /\ log \in Seq(Commit)
  /\ phase \in [Writers -> Phases]
  /\ proposal \in [Writers -> Commit \cup {None}]
  /\ outcome \in [Writers -> Outcomes]

Init ==
  /\ log = <<>>
  /\ phase = [w \in Writers |-> "idle"]
  /\ proposal = [w \in Writers |-> None]
  /\ outcome = [w \in Writers |-> "none"]

(* any commit may be proposed, stale ones included *)
Call(w) ==
  /\ phase[w] = "idle"
  /\ phase' = [phase EXCEPT ![w] = "called"]
  /\ proposal'[w] \in Commit
  /\ proposal' = [proposal EXCEPT ![w] = proposal'[w]]
  /\ outcome' = [outcome EXCEPT ![w] = "none"]
  /\ UNCHANGED log

(* the commit is recorded: its run id is new and its base is current *)
Record(w) ==
  /\ phase[w] = "called"
  /\ SameRun(log, proposal[w]) = {}
  /\ BaseIsCurrent(log, proposal[w])
  /\ log' = Append(log, proposal[w])
  /\ phase' = [phase EXCEPT ![w] = "effected"]
  /\ UNCHANGED <<proposal, outcome>>

Return(w, answer) ==
  /\ phase' = [phase EXCEPT ![w] = "idle"]
  /\ proposal' = [proposal EXCEPT ![w] = None]
  /\ outcome' = [outcome EXCEPT ![w] = answer]
  /\ UNCHANGED log

(* the repetition of a recorded commit is answered from the log *)
Repeat(w) ==
  /\ phase[w] = "called"
  /\ proposal[w] \in Recorded(log)
  /\ Return(w, "committed")

Succeed(w) == phase[w] = "effected" /\ Return(w, "committed")

Conflict(w) ==
  /\ phase[w] = "called"
  /\ proposal[w] \notin Recorded(log)
  /\ SameRun(log, proposal[w]) # {} \/ ~BaseIsCurrent(log, proposal[w])
  /\ Return(w, "conflict")

Fail(w) == phase[w] # "idle" /\ Return(w, "failed")

Next ==
  \E w \in Writers :
    \/ Call(w)
    \/ Record(w)
    \/ Repeat(w)
    \/ Succeed(w)
    \/ Conflict(w)
    \/ Fail(w)

Spec == Init /\ [][Next]_vars
=============================================================================
