----------------------------- MODULE JsonlStore -----------------------------
(***************************************************************************)
(* JsonlSessionStore (storage/jsonl.py): several processes commit Runs of  *)
(* one agent to one append-only file under an exclusive lock.  Modelled    *)
(* step by step: waiting for the lock, reading the index, cutting a torn   *)
(* tail, appending one line, fsync of the file and of its directory.  A    *)
(* process may be killed between any two steps, a write may be partial, a  *)
(* sync may fail, the calling coroutine may be cancelled, and the machine  *)
(* may lose power.  One writer stands for the calls of one process (its    *)
(* asyncio.Lock lets one of them run at a time).                           *)
(***************************************************************************)
EXTENDS SessionCommits

CONSTANTS
  Writers,       \* processes that share the agent's file
  NoWriter,      \* the lock is free
  LockTimeout,   \* whether lock_timeout is finite
  MaxPowerLosses \* bound on the power losses of a behaviour

ASSUME WritersAssumption ==
  /\ NoWriter \notin Writers
  /\ LockTimeout \in BOOLEAN
  /\ MaxPowerLosses \in Nat

VARIABLES
  file,       \* complete lines of the file
  torn,       \* whether bytes without a newline follow the last line
  synced,     \* how many of the lines have reached the disk
  entry,      \* whether the directory entry of the file has
  lock,       \* holder of StoreFileLock
  pc,         \* per writer: where its call of commit() is
  call,       \* per writer: the commit of its latest call
  count,      \* per writer: record_count of the index it has read
  cancelled,  \* per writer: whether the calling coroutine was cancelled
  outcome,    \* per writer: how its latest call ended, none while it runs
  view,       \* per writer: the Conversation its Harness holds, None when down
  losses,     \* how often the machine has lost power
  acked       \* history: <<commit, how>> of every reported success: "written" by
              \* the call or "replayed" from the file, "unlisted" if the disk
              \* has no directory entry of the file yet

state == <<file, torn, synced, entry, lock, losses>>
vars == <<file, torn, synced, entry, lock, pc, call, count, cancelled,
          outcome, view, losses, acked>>

(* a line of the file; sequence 0 stands for one that is not JSON *)
Line == [sequence : Nat, commit : Commit]

Log == [i \in 1..Len(file) |-> file[i].commit]

(* _read_sync with _apply_record: every line parses, is numbered in order,
   names a new run and is based on the Conversation before it. *)
Readable ==
  \A i \in 1..Len(file) :
    /\ file[i].sequence = i
    /\ Follows(IF i = 1 THEN None ELSE file[i - 1].commit, file[i].commit)
    /\ \A j \in 1..(i - 1) : file[j].commit.run # file[i].commit.run

Initial(seed) == [seed |-> seed, runs |-> <<>>]

Init ==
  /\ file = <<>> /\ torn = FALSE /\ synced = 0 /\ entry = FALSE
  /\ lock = NoWriter
  /\ pc = [w \in Writers |-> "idle"]
  /\ call = [w \in Writers |-> None]
  /\ count = [w \in Writers |-> 0]
  /\ cancelled = [w \in Writers |-> FALSE]
  /\ outcome = [w \in Writers |-> "none"]
  /\ \E seed \in [Writers -> Seeds] : view = [w \in Writers |-> Initial(seed[w])]
  /\ losses = 0
  /\ acked = {}

Goto(w, from, to) == pc[w] = from /\ pc' = [pc EXCEPT ![w] = to]

(* The worker thread leaves the lock and the awaiting coroutine resumes:
   a cancelled one raises CancelledError whatever the worker did. *)
Return(w, answer) ==
  /\ lock' = IF lock = w THEN NoWriter ELSE lock
  /\ pc' = [pc EXCEPT ![w] = "idle"]
  /\ outcome' = [outcome EXCEPT ![w] = IF cancelled[w] THEN "failed" ELSE answer]
  /\ count' = [count EXCEPT ![w] = 0]
  /\ cancelled' = [cancelled EXCEPT ![w] = FALSE]

Report(w, how) ==
  /\ Return(w, "committed")
  /\ IF cancelled[w]
       THEN UNCHANGED <<view, acked>>
       ELSE /\ view' = [view EXCEPT ![w] = ResultingConversation(call[w])]
            /\ acked' = acked \cup {<<call[w], how>>}

-----------------------------------------------------------------------------
(* commit(): a new Run from the caller's view, or its latest commit again *)
Begin(w) ==
  /\ Goto(w, "idle", "locking")
  /\ \/ \E r \in RunIds, completed \in BOOLEAN :
          call' = [call EXCEPT ![w] =
                     [run |-> r, base |-> view[w], completed |-> completed]]
     \/ call[w] # None /\ UNCHANGED call
  /\ outcome' = [outcome EXCEPT ![w] = "none"]
  /\ UNCHANGED <<state, count, cancelled, view, acked>>

(* the caller's task is cancelled while commit() is pending *)
Cancel(w) ==
  /\ pc[w] \notin {"idle", "down"} /\ ~cancelled[w]
  /\ cancelled' = [cancelled EXCEPT ![w] = TRUE]
  /\ UNCHANGED <<state, pc, call, count, outcome, view, acked>>

AcquireAnyway(w) ==  \* mutant: the file lock does not exclude
  /\ Goto(w, "locking", "reading")
  /\ ~cancelled[w]
  /\ lock' = w
  /\ UNCHANGED <<file, torn, synced, entry, call, count, cancelled, outcome,
                 view, acked, losses>>

(* StoreFileLock.acquire in the worker thread *)
Acquire(w) ==
  /\ Goto(w, "locking", "reading")
  /\ lock = NoWriter /\ ~cancelled[w]
  /\ lock' = w
  /\ UNCHANGED <<file, torn, synced, entry, call, count, cancelled, outcome,
                 view, acked, losses>>

GiveUpCancelled(w) ==  \* mutant: no deadline
  /\ pc[w] = "locking"
  /\ cancelled[w]
  /\ Return(w, "failed")
  /\ UNCHANGED <<file, torn, synced, entry, call, view, acked, losses>>

(* _StoreLockCancelled, SessionStoreLockTimeoutError *)
GiveUp(w) ==
  /\ pc[w] = "locking"
  /\ cancelled[w] \/ (LockTimeout /\ lock # NoWriter)
  /\ Return(w, "failed")
  /\ UNCHANGED <<file, torn, synced, entry, call, view, acked, losses>>

(* _commit_sync up to the write; a torn tail is not part of the index.  The
   read fails on an OSError and on a line that does not parse or fit. *)
ReadIndex(w) ==
  /\ pc[w] = "reading"
  /\ UNCHANGED <<file, torn, synced, entry, call, losses>>
  /\ \/ /\ Return(w, "failed")
        /\ UNCHANGED <<view, acked>>
     \/ /\ Readable /\ call[w] \in Recorded(Log)
        /\ Report(w, IF entry THEN "replayed" ELSE "unlisted")
     \/ /\ Readable /\ call[w] \notin Recorded(Log)
        /\ SameRun(Log, call[w]) # {} \/ ~BaseIsCurrent(Log, call[w])
        /\ Return(w, "conflict")
        /\ UNCHANGED <<view, acked>>
     \/ /\ Readable /\ SameRun(Log, call[w]) = {} /\ BaseIsCurrent(Log, call[w])
        /\ pc' = [pc EXCEPT ![w] = "truncating"]
        /\ count' = [count EXCEPT ![w] = Len(file)]
        /\ UNCHANGED <<lock, cancelled, outcome, view, acked>>

TruncateNothing(w) ==  \* mutant: a torn tail stays
  /\ Goto(w, "truncating", "appending")
  /\ UNCHANGED <<state, call, count, cancelled, outcome, view, acked>>

(* ftruncate to the valid length the index was read with *)
Truncate(w) ==
  /\ Goto(w, "truncating", "appending")
  /\ file' = SubSeq(file, 1, count[w])
  /\ torn' = FALSE
  /\ synced' = IF synced < count[w] THEN synced ELSE count[w]
  /\ UNCHANGED <<entry, lock, call, count, cancelled, outcome, view, acked, losses>>

(* os.write of one line at the end of the file: complete, partial or failed *)
AppendLine(w) ==
  /\ pc[w] = "appending"
  /\ UNCHANGED <<synced, entry, call, view, acked, losses>>
  /\ \/ /\ file' = Append(file, [sequence |-> IF torn THEN 0 ELSE count[w] + 1,
                              commit |-> call[w]])
        /\ torn' = FALSE
        /\ pc' = [pc EXCEPT ![w] = "syncing"]
        /\ UNCHANGED <<lock, count, cancelled, outcome>>
     \/ /\ torn' \in {torn, TRUE}
        /\ Return(w, "failed")
        /\ UNCHANGED file

SyncSkipped(w) ==  \* mutant: os.fsync is not called
  /\ Goto(w, "syncing", "syncing_directory")
  /\ UNCHANGED <<state, call, count, cancelled, outcome, view, acked>>

(* os.fsync: on failure any part of the file may have reached the disk *)
Sync(w) ==
  /\ pc[w] = "syncing"
  /\ UNCHANGED <<file, torn, entry, call, view, acked, losses>>
  /\ \/ /\ synced' = Len(file)
        /\ pc' = [pc EXCEPT ![w] = "syncing_directory"]
        /\ UNCHANGED <<lock, count, cancelled, outcome>>
     \/ /\ synced' \in synced..Len(file)
        /\ Return(w, "failed")

(* _fsync_directory swallows its errors, then the commit is reported *)
SyncDirectory(w) ==
  /\ pc[w] = "syncing_directory"
  /\ entry' \in {entry, TRUE}
  /\ Report(w, IF entry' THEN "written" ELSE "unlisted")
  /\ UNCHANGED <<file, torn, synced, call, losses>>

(* Harness start(): load() under the lock; an unreadable file fails it *)
Load(w) ==
  /\ pc[w] = "down"
  /\ lock = NoWriter
  /\ Readable
  /\ pc' = [pc EXCEPT ![w] = "idle"]
  /\ \E seed \in Seeds :
       view' = [view EXCEPT ![w] = IF file = <<>> THEN Initial(seed)
                                   ELSE ResultingConversation(Latest(Log))]
  /\ UNCHANGED <<state, call, count, cancelled, outcome, acked>>

-----------------------------------------------------------------------------
(* Faults.  A killed process loses its lock and its caller's answer; a
   kill inside os.write may leave part of the line. *)
Kill(w) ==
  /\ pc[w] # "down"
  /\ pc' = [pc EXCEPT ![w] = "down"]
  /\ call' = [call EXCEPT ![w] = None]
  /\ lock' = IF lock = w THEN NoWriter ELSE lock
  /\ outcome' = [outcome EXCEPT ![w] = IF pc[w] = "idle" THEN @ ELSE "failed"]
  /\ torn' \in IF pc[w] = "appending" THEN {torn, TRUE} ELSE {torn}
  /\ count' = [count EXCEPT ![w] = 0]
  /\ cancelled' = [cancelled EXCEPT ![w] = FALSE]
  /\ view' = [view EXCEPT ![w] = None]
  /\ UNCHANGED <<file, synced, entry, acked, losses>>

(* Lines that were not synced may be lost or torn; a file whose directory
   entry was not synced may be lost as a whole. *)
PowerLoss ==
  /\ losses < MaxPowerLosses
  /\ losses' = losses + 1
  /\ \E kept \in (IF entry THEN synced ELSE 0)..Len(file) :
       /\ file' = SubSeq(file, 1, kept)
       /\ torn' \in IF kept < Len(file) THEN BOOLEAN ELSE {torn, FALSE}
       /\ synced' = kept
       /\ entry' = (entry \/ kept > 0)
  /\ lock' = NoWriter
  /\ pc' = [w \in Writers |-> "down"]
  /\ call' = [w \in Writers |-> None]
  /\ outcome' = [w \in Writers |-> IF pc[w] \in {"idle", "down"}
                                   THEN outcome[w] ELSE "failed"]
  /\ count' = [w \in Writers |-> 0]
  /\ cancelled' = [w \in Writers |-> FALSE]
  /\ view' = [w \in Writers |-> None]
  /\ UNCHANGED acked

Next ==
  \/ \E w \in Writers :
       \/ Begin(w) \/ Cancel(w) \/ Acquire(w) \/ GiveUp(w) \/ ReadIndex(w)
       \/ Truncate(w) \/ AppendLine(w) \/ Sync(w) \/ SyncDirectory(w)
       \/ Load(w) \/ Kill(w)
  \/ PowerLoss

Spec == Init /\ [][Next]_vars

(* Every started call runs on: the worker thread is not stopped while its
   process lives, and polling the lock ends at its deadline. *)
Fairness ==
  \A w \in Writers :
    /\ WF_vars(Acquire(w) \/ GiveUp(w))
    /\ WF_vars(ReadIndex(w))
    /\ WF_vars(Truncate(w))
    /\ WF_vars(AppendLine(w))
    /\ WF_vars(Sync(w))
    /\ WF_vars(SyncDirectory(w))

FairSpec == Spec /\ Fairness

-----------------------------------------------------------------------------
Steps == {"idle", "locking", "reading", "truncating", "appending", "syncing",
          "syncing_directory", "down"}

TypeOK ==
  /\ file \in Seq(Line)
  /\ torn \in BOOLEAN
  /\ synced \in 0..Len(file)
  /\ entry \in BOOLEAN
  /\ lock \in Writers \cup {NoWriter}
  /\ pc \in [Writers -> Steps]
  /\ call \in [Writers -> Commit \cup {None}]
  /\ count \in [Writers -> Nat]
  /\ cancelled \in [Writers -> BOOLEAN]
  /\ outcome \in [Writers -> {"none", "committed", "conflict", "failed"}]
  /\ losses \in 0..MaxPowerLosses
  /\ view \in [Writers -> Conversation \cup {None}]
  /\ \A w \in Writers : view[w] = None <=> pc[w] = "down"
  /\ acked \in SUBSET (Commit \X {"written", "unlisted", "replayed"})

(* No interleaving of writers, kills, partial writes and power losses leaves
   a file that _read_sync refuses: such a session could never be started
   again (storage/jsonl.py 194-228). *)
AlwaysReadable == Readable

(* The recorded Runs form one history: each is based on exactly the messages
   the one before it left, so nobody's committed turn is lost or forked off
   (the compare half of compare-and-commit, storage/jsonl.py 274-285). *)
LinearHistory ==
  \A i \in 1..(Len(file) - 1) :
    file[i + 1].commit.base = ResultingConversation(file[i].commit)

(* A reported success names a recorded commit, whatever crashed since:
   "Durable append-only SessionStore" (storage/jsonl.py 47). *)
AckedIsRecorded == \A a \in acked : a[1] \in Recorded(Log)

(* The part of it that the two fsyncs carry across a power loss: a commit
   this call wrote itself, with its directory entry on the disk. *)
WrittenIsRecorded ==
  \A a \in acked : a[2] = "written" => a[1] \in Recorded(Log)

(* The same of a success that was answered from the file, whose directory entry
   the disk has: nothing but the fsync of its line is asked here of the
   "Durable append-only SessionStore" (storage/jsonl.py 47). *)
ReplayedIsRecorded ==
  \A a \in acked : a[2] = "replayed" => a[1] \in Recorded(Log)

(* Cutting a torn tail never cuts a recorded line (ftruncate at 324-325). *)
AppendOnly ==
  [][/\ Len(file') >= Len(file)
     /\ SubSeq(file', 1, Len(file)) = file]_file

(* Two running Harnesses never hold diverging committed Conversations: what
   either was told is committed is a prefix of what the other was told. *)
ViewsDoNotFork ==
  \A v, w \in Writers :
    pc[v] # "down" /\ pc[w] # "down"
      /\ Revision(view[v]) > 0 /\ Revision(view[w]) >= Revision(view[v])
    => /\ view[v].seed = view[w].seed
       /\ SubSeq(view[w].runs, 1, Revision(view[v])) = view[v].runs

(* The inductive invariant behind the safety properties: whoever is past the
   lock owns it, so the index it has read stays true until it has written. *)
Holding == Steps \ {"idle", "locking", "down"}

LockOwned == \A w \in Writers : pc[w] \in Holding <=> lock = w

IndexFresh ==
  \A w \in Writers :
    /\ pc[w] \notin {"idle", "down"} => call[w] # None
    /\ pc[w] \in {"truncating", "appending"} =>
         /\ count[w] = Len(file)
         /\ SameRun(Log, call[w]) = {}
         /\ BaseIsCurrent(Log, call[w])
    /\ pc[w] = "appending" => ~torn
    /\ pc[w] \in {"syncing", "syncing_directory"} => Latest(Log) = call[w]

Inductive == TypeOK /\ Readable /\ LockOwned /\ IndexFresh

(* Every call of commit() ends, with an answer or with its process. *)
CallsReturn == \A w \in Writers : pc[w] = "locking" ~> pc[w] \in {"idle", "down"}

-----------------------------------------------------------------------------
(* The store implements the seam's promise.  A call takes effect when its
   line is complete in the file. *)
AbstractPhase(w) ==
  CASE pc[w] \in {"idle", "down"} -> "idle"
    [] pc[w] \in {"locking", "reading", "truncating", "appending"} -> "called"
    [] OTHER -> "effected"

Promise == INSTANCE SessionStore WITH
  log <- Log,
  phase <- [w \in Writers |-> AbstractPhase(w)],
  proposal <- [w \in Writers |->
                 IF AbstractPhase(w) = "idle" THEN None ELSE call[w]]

(* Without power loss, commits are atomic, compare against the latest one and
   are idempotent per run id, as contracts/session.py 117-128 requires. *)
ImplementsPromise == Promise!Spec
=============================================================================
