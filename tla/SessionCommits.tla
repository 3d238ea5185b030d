--------------------------- MODULE SessionCommits ---------------------------
(***************************************************************************)
(* The values that cross the SessionStore seam of                          *)
(* src/src/ejagent/contracts/session.py, shared by the abstract store, the *)
(* JSONL store and the Harness.                                            *)
(*                                                                         *)
(* A Conversation is abstracted to the ids of the Runs whose Delta was     *)
(* committed, after the messages the Agent was created with (its seed):    *)
(* revision 0 is the seed alone, and each COMPLETED Run appends one Delta. *)
(***************************************************************************)
EXTENDS Integers, Sequences

CONSTANTS
  Seeds,     \* initial message lists an Agent may be created with
  RunIds,    \* ids the run_id_factory can produce
  None       \* Python's None

ASSUME SeedsAssumption == Seeds # {} /\ RunIds # {}

(* ConversationSnapshot: base messages and the committed Deltas after them *)
Conversation == [seed : Seeds, runs : Seq(RunIds)]

Revision(conv) == Len(conv.runs)

(* SessionCommit: one Run proposed against the Conversation it started from.
   `completed` is advances_revision: RunStatus.COMPLETED and nothing else. *)
Commit == [run : RunIds, base : Conversation, completed : BOOLEAN]

ASSUME NoneAssumption == None \notin Commit \cup Conversation

(* SessionCommit.resulting_conversation *)
ResultingConversation(c) ==
  IF c.completed
    THEN [c.base EXCEPT !.runs = Append(@, c.run)]
    ELSE c.base

Recorded(log) == {log[i] : i \in 1..Len(log)}

SameRun(log, c) == {d \in Recorded(log) : d.run = c.run}


FollowsStale(previous, c) ==  \* mutant: an older base will do
  Revision(c.base) <=
    (IF previous = None THEN 0 ELSE Revision(ResultingConversation(previous)))

(* JsonlSessionStore._commit_sync 109-119 with _validate_base: the first
   commit must start at revision 0, a later one from exactly the revision
   and the messages the one before it resulted in. *)
Follows(previous, c) ==
  IF previous = None
    THEN Revision(c.base) = 0
    ELSE c.base = ResultingConversation(previous)

Latest(log) == IF log = <<>> THEN None ELSE log[Len(log)]

BaseIsCurrent(log, c) == Follows(Latest(log), c)
=============================================================================
