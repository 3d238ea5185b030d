-------------------------- MODULE JsonlStoreProofs --------------------------
(***************************************************************************)
(* Proofs about JsonlStore, for any number of processes, run ids, seeds    *)
(* and power losses, and for a file of any length.                         *)
(***************************************************************************)
EXTENDS JsonlStore, TLAPS

(* ResultingConversation stays within the type of Conversations. *)
LEMMA ResultType ==
  ASSUME NEW c \in Commit
  PROVE  ResultingConversation(c) \in Conversation
<1>1. c.base \in Conversation /\ c.run \in RunIds
  BY DEF Commit
<1>2. Append(c.base.runs, c.run) \in Seq(RunIds)
  BY <1>1 DEF Conversation
<1>3. [c.base EXCEPT !.runs = Append(@, c.run)] \in Conversation
  BY <1>1, <1>2 DEF Conversation
<1>4. QED
  BY <1>1, <1>3 DEF ResultingConversation

LEMMA LogType ==
  ASSUME TypeOK
  PROVE  /\ Log \in Seq(Commit)
         /\ Len(Log) = Len(file)
         /\ \A i \in 1..Len(file) : Log[i] = file[i].commit
<1>1. \A i \in 1..Len(file) : file[i].commit \in Commit
  <2>1. file \in Seq(Line)
    BY DEF TypeOK
  <2>2. \A i \in 1..Len(file) : file[i] \in Line
    BY <2>1
  <2>3. QED
    BY <2>2 DEF Line
<1>2. QED
  BY <1>1 DEF Log, TypeOK

LEMMA InitInductive == Init => Inductive
<1> SUFFICES ASSUME Init PROVE Inductive
  OBVIOUS
<1>1. TypeOK
  <2>1. PICK seed \in [Writers -> Seeds] : view = [w \in Writers |-> Initial(seed[w])]
    BY DEF Init
  <2>2. \A s \in Seeds : Initial(s) \in Conversation
    BY DEF Initial, Conversation
  <2>3. view \in [Writers -> Conversation]
    BY <2>1, <2>2
  <2>4. \A w \in Writers : view[w] # None
    BY <2>3, NoneAssumption
  <2>5. file \in Seq(Line) /\ synced \in 0..Len(file) /\ losses \in 0..MaxPowerLosses
    BY WritersAssumption DEF Init
  <2>6. \A w \in Writers : view[w] = None <=> pc[w] = "down"
    BY <2>4 DEF Init
  <2>7. acked \in SUBSET (Commit \X {"written", "unlisted", "replayed"})
    BY DEF Init
  <2>8. QED
    BY <2>3, <2>5, <2>6, <2>7 DEF Init, TypeOK, Steps
<1>2. Readable
  BY DEF Init, Readable
<1>3. LockOwned
  BY WritersAssumption DEF Init, LockOwned, Holding
<1>4. IndexFresh
  BY DEF Init, IndexFresh
<1>5. QED
  BY <1>1, <1>2, <1>3, <1>4 DEF Inductive

(* What leaving commit() does to the writer's own state. *)
LEMMA ReturnEffect ==
  ASSUME NEW w \in Writers, NEW answer \in {"committed", "conflict", "failed"},
         TypeOK, pc[w] # "down", Return(w, answer)
  PROVE  /\ lock' \in Writers \cup {NoWriter}
         /\ pc' \in [Writers -> Steps]
         /\ outcome' \in [Writers -> {"none", "committed", "conflict", "failed"}]
         /\ count' \in [Writers -> Nat]
         /\ cancelled' \in [Writers -> BOOLEAN]
         /\ pc'[w] = "idle"
         /\ \A v \in Writers \ {w} : pc'[v] = pc[v] /\ count'[v] = count[v]
         /\ lock' = IF lock = w THEN NoWriter ELSE lock
BY DEF TypeOK, Return, Steps

(* Steps that leave the file alone keep it readable and the log the same. *)
LEMMA FileFrame ==
  ASSUME Readable, file' = file
  PROVE  Readable' /\ Log' = Log
BY DEF Readable, Log

LEMMA BeginStep ==
  ASSUME Inductive, NEW w \in Writers, Begin(w)
  PROVE  Inductive'
<1> USE DEF Inductive
<1>1. /\ pc[w] = "idle" /\ pc' = [pc EXCEPT ![w] = "locking"]
      /\ UNCHANGED <<file, torn, synced, entry, lock, losses, count, cancelled, view, acked>>
      /\ outcome' = [outcome EXCEPT ![w] = "none"]
  BY DEF Begin, Goto, state
<1>2. /\ call' \in [Writers -> Commit \cup {None}]
      /\ call'[w] # None
      /\ \A v \in Writers \ {w} : call'[v] = call[v]
  <2>1. CASE \E r \in RunIds, completed \in BOOLEAN :
               call' = [call EXCEPT ![w] =
                  [run |-> r, base |-> view[w], completed |-> completed]]
    <3>1. PICK r \in RunIds, completed \in BOOLEAN :
               call' = [call EXCEPT ![w] =
                  [run |-> r, base |-> view[w], completed |-> completed]]
      BY <2>1
    <3>2. view[w] \in Conversation
      BY <1>1 DEF TypeOK
    <3>3. [run |-> r, base |-> view[w], completed |-> completed] \in Commit
      BY <3>2 DEF Commit
    <3>4. QED
      BY <3>1, <3>3, NoneAssumption DEF TypeOK
  <2>2. CASE call[w] # None /\ UNCHANGED call
    BY <2>2 DEF TypeOK
  <2>3. QED
    BY <2>1, <2>2 DEF Begin
<1>3. TypeOK'
  BY <1>1, <1>2 DEF TypeOK, Steps
<1>4. Readable' /\ Log' = Log
  BY <1>1, FileFrame
<1>5. LockOwned'
  BY <1>1 DEF TypeOK, LockOwned, Holding, Steps
<1>6. IndexFresh'
  BY <1>1, <1>2, <1>4 DEF TypeOK, IndexFresh
<1>7. QED
  BY <1>3, <1>4, <1>5, <1>6

LEMMA CancelStep ==
  ASSUME Inductive, NEW w \in Writers, Cancel(w)
  PROVE  Inductive'
<1> USE DEF Inductive
<1>1. UNCHANGED <<file, torn, synced, entry, lock, losses, pc, call, count, outcome, view, acked>>
      /\ cancelled' \in [Writers -> BOOLEAN]
  BY DEF Cancel, state, TypeOK
<1>2. Readable' /\ Log' = Log
  BY <1>1, FileFrame
<1>3. TypeOK' /\ LockOwned' /\ IndexFresh'
  BY <1>1, <1>2 DEF TypeOK, LockOwned, IndexFresh
<1>4. QED
  BY <1>2, <1>3

LEMMA AcquireStep ==
  ASSUME Inductive, NEW w \in Writers, Acquire(w)
  PROVE  Inductive'
<1> USE DEF Inductive
<1>1. /\ pc[w] = "locking" /\ pc' = [pc EXCEPT ![w] = "reading"]
      /\ lock = NoWriter /\ lock' = w
      /\ UNCHANGED <<file, torn, synced, entry, call, count, cancelled, outcome, view, acked, losses>>
  BY DEF Acquire, Goto
<1>2. Readable' /\ Log' = Log
  BY <1>1, FileFrame
<1>3. TypeOK'
  BY <1>1 DEF TypeOK, Steps
<1>4. LockOwned'
  BY <1>1, WritersAssumption DEF TypeOK, LockOwned, Holding, Steps
<1>5. IndexFresh'
  BY <1>1, <1>2 DEF TypeOK, IndexFresh
<1>6. QED
  BY <1>2, <1>3, <1>4, <1>5

(* A call that returns hands the lock back and leaves the file as it is. *)
LEMMA ReturnStep ==
  ASSUME Inductive, NEW w \in Writers, NEW answer \in {"committed", "conflict", "failed"},
         pc[w] \notin {"idle", "down"}, Return(w, answer),
         UNCHANGED <<file, call>>, torn' \in BOOLEAN,
         pc[w] = "appending" \/ torn' = torn,
         synced' \in 0..Len(file), entry' \in BOOLEAN, losses' = losses,
         view' \in [Writers -> Conversation \cup {None}],
         view'[w] # None, \A v \in Writers \ {w} : view'[v] = view[v],
         acked' \in SUBSET (Commit \X {"written", "unlisted", "replayed"})
  PROVE  Inductive'
<1> USE DEF Inductive
<1>1. /\ lock' \in Writers \cup {NoWriter}
      /\ pc' \in [Writers -> Steps]
      /\ outcome' \in [Writers -> {"none", "committed", "conflict", "failed"}]
      /\ count' \in [Writers -> Nat]
      /\ cancelled' \in [Writers -> BOOLEAN]
      /\ pc'[w] = "idle"
      /\ \A v \in Writers \ {w} : pc'[v] = pc[v] /\ count'[v] = count[v]
      /\ lock' = IF lock = w THEN NoWriter ELSE lock
  BY ReturnEffect
<1>2. TypeOK'
  BY <1>1 DEF TypeOK
<1>3. Readable' /\ Log' = Log
  BY FileFrame
<1>4. LockOwned'
  BY <1>1, WritersAssumption DEF TypeOK, LockOwned, Holding
<1>5. IndexFresh'
  <2>1. ASSUME NEW v \in Writers, v # w, pc[v] = "appending"
        PROVE  torn' = torn
    BY <2>1 DEF LockOwned, Holding, TypeOK, Steps
  <2>2. QED
    BY <1>1, <1>3, <2>1 DEF IndexFresh
<1>6. QED
  BY <1>2, <1>3, <1>4, <1>5

LEMMA GiveUpStep ==
  ASSUME Inductive, NEW w \in Writers, GiveUp(w)
  PROVE  Inductive'
<1>1. /\ pc[w] = "locking" /\ Return(w, "failed")
      /\ UNCHANGED <<file, torn, synced, entry, call, view, acked, losses>>
  BY DEF GiveUp
<1>2. QED
  BY <1>1, ReturnStep DEF Inductive, TypeOK

(* A call in progress has a proposal. *)
LEMMA CallIsCommit ==
  ASSUME Inductive, NEW w \in Writers, pc[w] \notin {"idle", "down"}
  PROVE  call[w] \in Commit
BY DEF Inductive, TypeOK, IndexFresh

(* The ways Report ends a call keep the types of view and acked. *)
LEMMA ReportEffect ==
  ASSUME Inductive, NEW w \in Writers, pc[w] \notin {"idle", "down"},
         NEW how \in {"written", "unlisted", "replayed"}, Report(w, how)
  PROVE  /\ Return(w, "committed")
         /\ view' \in [Writers -> Conversation \cup {None}]
         /\ view'[w] # None
         /\ \A v \in Writers \ {w} : view'[v] = view[v]
         /\ acked' \in SUBSET (Commit \X {"written", "unlisted", "replayed"})
<1>1. call[w] \in Commit
  BY CallIsCommit
<1>2. ResultingConversation(call[w]) \in Conversation
  BY <1>1, ResultType
<1>3. CASE cancelled[w]
  BY <1>3 DEF Report, Inductive, TypeOK
<1>4. CASE ~cancelled[w]
  <2>1. /\ view' = [view EXCEPT ![w] = ResultingConversation(call[w])]
        /\ acked' = acked \cup {<<call[w], how>>}
    BY <1>4 DEF Report
  <2>2. <<call[w], how>> \in Commit \X {"written", "unlisted", "replayed"}
    BY <1>1
  <2>3. acked' \in SUBSET (Commit \X {"written", "unlisted", "replayed"})
    BY <2>1, <2>2 DEF Inductive, TypeOK
  <2>4. QED
    BY <1>2, <2>1, <2>3, NoneAssumption DEF Report, Inductive, TypeOK
<1>5. QED
  BY <1>3, <1>4

LEMMA ReadIndexStep ==
  ASSUME Inductive, NEW w \in Writers, ReadIndex(w)
  PROVE  Inductive'
<1>1. /\ pc[w] = "reading"
      /\ UNCHANGED <<file, torn, synced, entry, call, losses>>
  BY DEF ReadIndex
<1>2. CASE Return(w, "failed") /\ UNCHANGED <<view, acked>>
  BY <1>1, <1>2, ReturnStep DEF Inductive, TypeOK
<1>3. CASE Report(w, IF entry THEN "replayed" ELSE "unlisted")
  <2>1. /\ Return(w, "committed")
        /\ view' \in [Writers -> Conversation \cup {None}]
        /\ view'[w] # None
        /\ \A v \in Writers \ {w} : view'[v] = view[v]
        /\ acked' \in SUBSET (Commit \X {"written", "unlisted", "replayed"})
    BY <1>1, <1>3, ReportEffect
  <2>2. QED
    BY <1>1, <2>1, ReturnStep DEF Inductive, TypeOK
<1>4. CASE Return(w, "conflict") /\ UNCHANGED <<view, acked>>
  BY <1>1, <1>4, ReturnStep DEF Inductive, TypeOK
<1>5. CASE /\ Readable /\ SameRun(Log, call[w]) = {} /\ BaseIsCurrent(Log, call[w])
           /\ pc' = [pc EXCEPT ![w] = "truncating"]
           /\ count' = [count EXCEPT ![w] = Len(file)]
           /\ UNCHANGED <<lock, cancelled, outcome, view, acked>>
  <2> USE DEF Inductive
  <2>1. Readable' /\ Log' = Log
    BY <1>1, FileFrame
  <2>2. TypeOK'
    BY <1>1, <1>5 DEF TypeOK, Steps
  <2>3. LockOwned'
    BY <1>1, <1>5 DEF TypeOK, LockOwned, Holding, Steps
  <2>4. IndexFresh'
    <3>1. /\ pc'[w] = "truncating" /\ count'[w] = Len(file')
          /\ \A v \in Writers \ {w} : pc'[v] = pc[v] /\ count'[v] = count[v]
      BY <1>1, <1>5 DEF TypeOK
    <3>2. SameRun(Log', call'[w]) = {} /\ BaseIsCurrent(Log', call'[w]) /\ call'[w] # None
      BY <1>1, <1>5, <2>1 DEF IndexFresh
    <3>3. QED
      BY <1>1, <2>1, <3>1, <3>2 DEF IndexFresh
  <2>5. QED
    BY <2>1, <2>2, <2>3, <2>4
<1>6. QED
  BY <1>2, <1>3, <1>4, <1>5 DEF ReadIndex

(* The index is fresh, so cutting the file at it cuts no line. *)
LEMMA TruncateKeepsFile ==
  ASSUME Inductive, NEW w \in Writers, Truncate(w)
  PROVE  file' = file /\ synced' = synced
<1>1. count[w] = Len(file) /\ file \in Seq(Line) /\ synced \in 0..Len(file)
  BY DEF Inductive, IndexFresh, Truncate, Goto, TypeOK
<1>2. SubSeq(file, 1, Len(file)) = file
  BY <1>1
<1>3. file' = file
  BY <1>1, <1>2 DEF Truncate
<1>4. synced' = IF synced < count[w] THEN synced ELSE count[w]
  BY DEF Truncate
<1>5. Len(file) \in Nat /\ synced \in Nat /\ synced <= count[w]
  BY <1>1
<1>6. synced' = synced
  BY <1>1, <1>4, <1>5
<1>7. QED
  BY <1>3, <1>6

LEMMA TruncateStep ==
  ASSUME Inductive, NEW w \in Writers, Truncate(w)
  PROVE  Inductive'
<1> USE DEF Inductive
<1>1. /\ pc[w] = "truncating" /\ pc' = [pc EXCEPT ![w] = "appending"]
      /\ torn' = FALSE
      /\ UNCHANGED <<entry, lock, call, count, cancelled, outcome, view, acked, losses>>
  BY DEF Truncate, Goto
<1>2. file' = file /\ synced' = synced
  BY TruncateKeepsFile
<1>3. Readable' /\ Log' = Log
  BY <1>2, FileFrame
<1>4. TypeOK'
  BY <1>1, <1>2 DEF TypeOK, Steps
<1>5. LockOwned'
  BY <1>1 DEF TypeOK, LockOwned, Holding, Steps
<1>6. IndexFresh'
  BY <1>1, <1>2, <1>3 DEF TypeOK, IndexFresh
<1>7. QED
  BY <1>3, <1>4, <1>5, <1>6

(* The appended line continues the history the index was read from. *)
LEMMA AppendKeepsReadable ==
  ASSUME Inductive, NEW w \in Writers, pc[w] = "appending",
         file' = Append(file, [sequence |-> IF torn THEN 0 ELSE count[w] + 1,
                               commit |-> call[w]])
  PROVE  /\ file' \in Seq(Line)
         /\ Len(file') = Len(file) + 1
         /\ \A i \in 1..Len(file) : file'[i] = file[i]
         /\ file'[Len(file')].commit = call[w]
         /\ Readable'
<1> USE DEF Inductive
<1> DEFINE new == [sequence |-> Len(file) + 1, commit |-> call[w]]
           n == Len(file)
<1>1. call[w] \in Commit
  BY CallIsCommit
<1>2. /\ ~torn /\ count[w] = n /\ SameRun(Log, call[w]) = {}
      /\ BaseIsCurrent(Log, call[w]) /\ file \in Seq(Line) /\ n \in Nat
  BY DEF IndexFresh, TypeOK
<1>3. new \in Line
  BY <1>1, <1>2 DEF Line
<1>4. file' = Append(file, new)
  BY <1>2
<1>5. /\ file' \in Seq(Line)
      /\ Len(file') = n + 1
      /\ \A i \in 1..n : file'[i] = file[i]
      /\ file'[n + 1] = new
  BY <1>2, <1>3, <1>4
<1>6. Log \in Seq(Commit) /\ Len(Log) = n /\ \A i \in 1..n : Log[i] = file[i].commit
  BY LogType
<1>7. \A i \in 1..n : file[i].commit.run # call[w].run
  <2>1. \A i \in 1..n : file[i].commit \in Recorded(Log)
    BY <1>6 DEF Recorded
  <2>2. QED
    BY <1>2, <2>1 DEF SameRun
<1>8. Follows(IF n + 1 = 1 THEN None ELSE file[n].commit, call[w])
  <2>1. CASE n = 0
    <3>1. Latest(Log) = None
      BY <1>6, <2>1 DEF Latest
    <3>2. QED
      BY <1>2, <2>1, <3>1 DEF BaseIsCurrent
  <2>2. CASE n # 0
    <3>1. Log # <<>> /\ n \in 1..n
      BY <1>2, <1>6, <2>2
    <3>2. Latest(Log) = file[n].commit
      BY <1>6, <3>1 DEF Latest
    <3>3. QED
      BY <1>2, <2>2, <3>2 DEF BaseIsCurrent
  <2>3. QED
    BY <2>1, <2>2
<1>9. Readable'
  <2> SUFFICES ASSUME NEW i \in 1..(n + 1)
               PROVE  /\ file'[i].sequence = i
                      /\ Follows(IF i = 1 THEN None ELSE file'[i - 1].commit,
                                 file'[i].commit)
                      /\ \A j \in 1..(i - 1) : file'[j].commit.run # file'[i].commit.run
    BY <1>5 DEF Readable
  <2>1. CASE i \in 1..n
    <3>1. file'[i] = file[i] /\ \A j \in 1..(i - 1) : file'[j] = file[j]
      BY <1>2, <1>5, <2>1
    <3>2. i # 1 => file'[i - 1] = file[i - 1]
      BY <1>2, <1>5, <2>1
    <3>3. QED
      BY <2>1, <3>1, <3>2 DEF Readable
  <2>2. CASE i = n + 1
    <3>1. file'[i] = new /\ \A j \in 1..n : file'[j] = file[j]
      BY <1>5, <2>2
    <3>2. i # 1 => file'[i - 1] = file[n]
      BY <1>2, <1>5, <2>2
    <3>3. \A j \in 1..(i - 1) : file'[j].commit.run # file'[i].commit.run
      BY <1>2, <1>7, <2>2, <3>1
    <3>4. QED
      BY <1>8, <2>2, <3>1, <3>2, <3>3
  <2>3. QED
    BY <1>2, <2>1, <2>2
<1>10. QED
  BY <1>5, <1>9

LEMMA AppendLineStep ==
  ASSUME Inductive, NEW w \in Writers, AppendLine(w)
  PROVE  Inductive'
<1> USE DEF Inductive
<1>1. /\ pc[w] = "appending"
      /\ UNCHANGED <<synced, entry, call, view, acked, losses>>
  BY DEF AppendLine
<1>2. CASE /\ file' = Append(file, [sequence |-> IF torn THEN 0 ELSE count[w] + 1,
                                     commit |-> call[w]])
           /\ torn' = FALSE
           /\ pc' = [pc EXCEPT ![w] = "syncing"]
           /\ UNCHANGED <<lock, count, cancelled, outcome>>
  <2>1. /\ file' \in Seq(Line)
        /\ Len(file') = Len(file) + 1
        /\ file'[Len(file')].commit = call[w]
        /\ Readable'
    BY <1>1, <1>2, AppendKeepsReadable
  <2>2. Len(file) \in Nat /\ synced \in 0..Len(file')
    BY <1>1, <2>1 DEF TypeOK
  <2>3. TypeOK'
    BY <1>1, <1>2, <2>1, <2>2 DEF TypeOK, Steps
  <2>4. LockOwned'
    BY <1>1, <1>2 DEF TypeOK, LockOwned, Holding, Steps
  <2>5. Latest(Log') = call[w]
    <3>1. Len(Log') = Len(file') /\ \A i \in 1..Len(file') : Log'[i] = file'[i].commit
      BY <2>1 DEF Log
    <3>2. Len(file') \in 1..Len(file') /\ Log' # <<>>
      BY <2>1, <2>2, <3>1
    <3>3. QED
      BY <2>1, <3>1, <3>2 DEF Latest
  <2>6. \A v \in Writers \ {w} : pc[v] \notin Holding /\ pc'[v] = pc[v]
    BY <1>1, <1>2 DEF LockOwned, Holding, Steps, TypeOK
  <2>7. IndexFresh'
    BY <1>1, <1>2, <2>5, <2>6 DEF IndexFresh, Holding, Steps, TypeOK
  <2>8. QED
    BY <2>1, <2>3, <2>4, <2>7
<1>3. CASE torn' \in {torn, TRUE} /\ Return(w, "failed") /\ UNCHANGED file
  BY <1>1, <1>3, ReturnStep DEF TypeOK
<1>4. QED
  BY <1>2, <1>3 DEF AppendLine

LEMMA SyncStep ==
  ASSUME Inductive, NEW w \in Writers, Sync(w)
  PROVE  Inductive'
<1> USE DEF Inductive
<1>1. /\ pc[w] = "syncing"
      /\ UNCHANGED <<file, torn, entry, call, view, acked, losses>>
  BY DEF Sync
<1>2. Len(file) \in Nat /\ synced \in 0..Len(file)
  BY DEF TypeOK
<1>3. CASE /\ synced' = Len(file)
           /\ pc' = [pc EXCEPT ![w] = "syncing_directory"]
           /\ UNCHANGED <<lock, count, cancelled, outcome>>
  <2>1. Readable' /\ Log' = Log
    BY <1>1, FileFrame
  <2>2. TypeOK'
    BY <1>1, <1>2, <1>3 DEF TypeOK, Steps
  <2>3. LockOwned'
    BY <1>1, <1>3 DEF TypeOK, LockOwned, Holding, Steps
  <2>4. IndexFresh'
    BY <1>1, <1>3, <2>1 DEF TypeOK, IndexFresh
  <2>5. QED
    BY <2>1, <2>2, <2>3, <2>4
<1>4. CASE synced' \in synced..Len(file) /\ Return(w, "failed")
  <2>1. synced' \in 0..Len(file)
    BY <1>2, <1>4
  <2>2. QED
    BY <1>1, <1>4, <2>1, ReturnStep DEF TypeOK
<1>5. QED
  BY <1>3, <1>4 DEF Sync

LEMMA SyncDirectoryStep ==
  ASSUME Inductive, NEW w \in Writers, SyncDirectory(w)
  PROVE  Inductive'
<1>1. /\ pc[w] = "syncing_directory" /\ entry' \in {entry, TRUE}
      /\ Report(w, IF entry' THEN "written" ELSE "unlisted")
      /\ UNCHANGED <<file, torn, synced, call, losses>>
  BY DEF SyncDirectory
<1>2. (IF entry' THEN "written" ELSE "unlisted") \in {"written", "unlisted", "replayed"}
  OBVIOUS
<1>3. /\ Return(w, "committed")
      /\ view' \in [Writers -> Conversation \cup {None}]
      /\ view'[w] # None
      /\ \A v \in Writers \ {w} : view'[v] = view[v]
      /\ acked' \in SUBSET (Commit \X {"written", "unlisted", "replayed"})
  BY <1>1, <1>2, ReportEffect
<1>4. QED
  BY <1>1, <1>3, ReturnStep DEF Inductive, TypeOK

LEMMA LoadStep ==
  ASSUME Inductive, NEW w \in Writers, Load(w)
  PROVE  Inductive'
<1> USE DEF Inductive
<1>1. /\ pc[w] = "down" /\ lock = NoWriter
      /\ pc' = [pc EXCEPT ![w] = "idle"]
      /\ UNCHANGED <<file, torn, synced, entry, lock, losses, call, count, cancelled, outcome, acked>>
  BY DEF Load, state
<1>2. /\ view' \in [Writers -> Conversation \cup {None}]
      /\ view'[w] # None
      /\ \A v \in Writers \ {w} : view'[v] = view[v]
  <2>1. PICK seed \in Seeds :
          view' = [view EXCEPT ![w] = IF file = <<>> THEN Initial(seed)
                                      ELSE ResultingConversation(Latest(Log))]
    BY DEF Load
  <2>2. Initial(seed) \in Conversation
    BY DEF Initial, Conversation
  <2>3. ASSUME file # <<>> PROVE ResultingConversation(Latest(Log)) \in Conversation
    <3>1. Len(file) \in 1..Len(file)
      BY <2>3 DEF TypeOK
    <3>2. Log \in Seq(Commit) /\ Len(Log) = Len(file)
      BY LogType
    <3>3. Latest(Log) \in Commit
      BY <3>1, <3>2 DEF Latest
    <3>4. QED
      BY <3>3, ResultType
  <2>4. QED
    BY <2>1, <2>2, <2>3, NoneAssumption DEF TypeOK
<1>3. Readable' /\ Log' = Log
  BY <1>1, FileFrame
<1>4. TypeOK'
  BY <1>1, <1>2 DEF TypeOK, Steps
<1>5. LockOwned'
  BY <1>1 DEF TypeOK, LockOwned, Holding, Steps
<1>6. IndexFresh'
  BY <1>1, <1>3 DEF TypeOK, IndexFresh
<1>7. QED
  BY <1>3, <1>4, <1>5, <1>6

LEMMA KillStep ==
  ASSUME Inductive, NEW w \in Writers, Kill(w)
  PROVE  Inductive'
<1> USE DEF Inductive
<1>1. /\ pc[w] # "down" /\ pc' = [pc EXCEPT ![w] = "down"]
      /\ call' = [call EXCEPT ![w] = None]
      /\ lock' = IF lock = w THEN NoWriter ELSE lock
      /\ outcome' = [outcome EXCEPT ![w] = IF pc[w] = "idle" THEN @ ELSE "failed"]
      /\ torn' \in IF pc[w] = "appending" THEN {torn, TRUE} ELSE {torn}
      /\ count' = [count EXCEPT ![w] = 0]
      /\ cancelled' = [cancelled EXCEPT ![w] = FALSE]
      /\ view' = [view EXCEPT ![w] = None]
      /\ UNCHANGED <<file, synced, entry, acked, losses>>
  BY DEF Kill
<1>2. Readable' /\ Log' = Log
  BY <1>1, FileFrame
<1>3. TypeOK'
  BY <1>1 DEF TypeOK, Steps
<1>4. LockOwned'
  BY <1>1, WritersAssumption DEF TypeOK, LockOwned, Holding, Steps
<1>5. IndexFresh'
  <2>1. ASSUME NEW v \in Writers, v # w, pc[v] = "appending"
        PROVE  torn' = torn
    BY <1>1, <2>1 DEF LockOwned, Holding, TypeOK, Steps
  <2>2. \A v \in Writers \ {w} : pc'[v] = pc[v] /\ call'[v] = call[v] /\ count'[v] = count[v]
    BY <1>1 DEF TypeOK
  <2>3. pc'[w] = "down"
    BY <1>1 DEF TypeOK
  <2>4. QED
    BY <1>1, <1>2, <2>1, <2>2, <2>3 DEF IndexFresh
<1>6. QED
  BY <1>2, <1>3, <1>4, <1>5

(* What a power loss leaves is a prefix, and a prefix of a history is one. *)
LEMMA PowerLossStep ==
  ASSUME Inductive, PowerLoss
  PROVE  Inductive'
<1> USE DEF Inductive
<1>1. PICK kept \in (IF entry THEN synced ELSE 0)..Len(file) :
        /\ file' = SubSeq(file, 1, kept)
        /\ torn' \in IF kept < Len(file) THEN BOOLEAN ELSE {torn, FALSE}
        /\ synced' = kept
        /\ entry' = (entry \/ kept > 0)
  BY DEF PowerLoss
<1>2. kept \in 0..Len(file) /\ Len(file) \in Nat /\ file \in Seq(Line)
  BY <1>1 DEF TypeOK
<1>3. /\ file' \in Seq(Line) /\ Len(file') = kept
      /\ \A i \in 1..kept : file'[i] = file[i]
  BY <1>1, <1>2
<1>4. TypeOK'
  <2>1. /\ torn' \in BOOLEAN
        /\ entry' \in BOOLEAN
        /\ synced' \in 0..Len(file')
    <3>1. torn' \in BOOLEAN
      BY <1>1 DEF TypeOK
    <3>2. entry' \in BOOLEAN
      BY <1>1 DEF TypeOK
    <3>3. synced' \in 0..Len(file')
      BY <1>1, <1>2, <1>3
    <3>4. QED
      BY <3>1, <3>2, <3>3
  <2>2. losses' \in 0..MaxPowerLosses
    BY WritersAssumption DEF PowerLoss, TypeOK
  <2>3. outcome' \in [Writers -> {"none", "committed", "conflict", "failed"}]
    BY DEF PowerLoss, TypeOK
  <2>4. QED
    BY <1>3, <2>1, <2>2, <2>3 DEF PowerLoss, TypeOK, Steps
<1>5. Readable'
  <2> SUFFICES ASSUME NEW i \in 1..kept
               PROVE  /\ file'[i].sequence = i
                      /\ Follows(IF i = 1 THEN None ELSE file'[i - 1].commit,
                                 file'[i].commit)
                      /\ \A j \in 1..(i - 1) : file'[j].commit.run # file'[i].commit.run
    BY <1>3 DEF Readable
  <2>1. i \in 1..Len(file) /\ file'[i] = file[i] /\ \A j \in 1..(i - 1) : file'[j] = file[j]
    BY <1>2, <1>3
  <2>2. i # 1 => file'[i - 1] = file[i - 1]
    BY <1>2, <1>3
  <2>3. QED
    BY <2>1, <2>2 DEF Readable
<1>6. LockOwned' /\ IndexFresh'
  BY WritersAssumption DEF PowerLoss, LockOwned, IndexFresh, Holding
<1>7. QED
  BY <1>4, <1>5, <1>6

LEMMA NextInductive == Inductive /\ [Next]_vars => Inductive'
<1> SUFFICES ASSUME Inductive, [Next]_vars PROVE Inductive'
  OBVIOUS
<1>1. ASSUME NEW w \in Writers,
             \/ Begin(w) \/ Cancel(w) \/ Acquire(w) \/ GiveUp(w) \/ ReadIndex(w)
             \/ Truncate(w) \/ AppendLine(w) \/ Sync(w) \/ SyncDirectory(w)
             \/ Load(w) \/ Kill(w)
      PROVE  Inductive'
  BY <1>1, BeginStep, CancelStep, AcquireStep, GiveUpStep, ReadIndexStep,
     TruncateStep, AppendLineStep, SyncStep, SyncDirectoryStep, LoadStep, KillStep
<1>2. CASE UNCHANGED vars
  <2>1. UNCHANGED <<file, torn, synced, entry, lock, pc, call, count, cancelled,
                    outcome, view, losses, acked>>
    BY <1>2 DEF vars
  <2>2. Readable' /\ Log' = Log
    BY <2>1, FileFrame DEF Inductive
  <2>3. TypeOK'
    BY <2>1 DEF Inductive, TypeOK
  <2>4. LockOwned' /\ IndexFresh'
    BY <2>1, <2>2 DEF Inductive, LockOwned, IndexFresh
  <2>5. QED
    BY <2>2, <2>3, <2>4 DEF Inductive
<1>3. QED
  BY <1>1, <1>2, PowerLossStep DEF Next

(* The inductive invariant holds of every behaviour. *)
THEOREM InductiveHolds == Spec => []Inductive
BY InitInductive, NextInductive, PTL DEF Spec

(* The state has its types, for every number of processes and run ids. *)
THEOREM TypeCorrect == Spec => []TypeOK
BY InductiveHolds, PTL DEF Inductive

(* No interleaving of writers, kills, partial writes and power losses leaves
   a file that _read_sync refuses. *)
THEOREM ReadableHolds == Spec => []AlwaysReadable
BY InductiveHolds, PTL DEF Inductive, AlwaysReadable

(* The recorded Runs form one history, each based on the one before it. *)
THEOREM LinearHistoryHolds == Spec => []LinearHistory
<1>1. Inductive => LinearHistory
  <2> SUFFICES ASSUME Inductive, NEW i \in 1..(Len(file) - 1)
               PROVE  file[i + 1].commit.base = ResultingConversation(file[i].commit)
    BY DEF LinearHistory
  <2>1. i + 1 \in 1..Len(file) /\ i + 1 # 1 /\ (i + 1) - 1 = i /\ i \in 1..Len(file)
    BY DEF Inductive, TypeOK
  <2>2. Follows(file[i].commit, file[i + 1].commit)
    BY <2>1 DEF Inductive, Readable
  <2>3. file[i].commit # None
    <3>1. file[i] \in Line
      BY <2>1 DEF Inductive, TypeOK
    <3>2. QED
      BY <3>1, NoneAssumption DEF Line
  <2>4. QED
    BY <2>2, <2>3 DEF Follows
<1>2. QED
  BY <1>1, InductiveHolds, PTL

(* No machine that never loses power does. *)
LEMMA NoPowerLoss ==
  ASSUME Inductive, MaxPowerLosses = 0
  PROVE  ~PowerLoss
BY DEF PowerLoss, Inductive, TypeOK

(* A step that loses no power only makes the file grow, and by whole lines. *)
LEMMA FileGrows ==
  ASSUME Inductive, [Next]_vars, ~PowerLoss
  PROVE  \/ file' = file
         \/ /\ Len(file') = Len(file) + 1
            /\ file' \in Seq(Line)
            /\ \A i \in 1..Len(file) : file'[i] = file[i]
<1>1. ASSUME NEW w \in Writers,
             \/ Begin(w) \/ Cancel(w) \/ Acquire(w) \/ GiveUp(w) \/ ReadIndex(w)
             \/ Sync(w) \/ SyncDirectory(w) \/ Load(w) \/ Kill(w)
      PROVE  file' = file
  BY <1>1 DEF Begin, Cancel, Acquire, GiveUp, ReadIndex, Sync, SyncDirectory,
     Load, Kill, state
<1>2. ASSUME NEW w \in Writers, Truncate(w) PROVE file' = file
  BY <1>2, TruncateKeepsFile
<1>3. ASSUME NEW w \in Writers, AppendLine(w), file' # file
      PROVE  /\ Len(file') = Len(file) + 1
             /\ file' \in Seq(Line)
             /\ \A i \in 1..Len(file) : file'[i] = file[i]
  <2>1. /\ pc[w] = "appending"
        /\ file' = Append(file, [sequence |-> IF torn THEN 0 ELSE count[w] + 1,
                                 commit |-> call[w]])
    BY <1>3 DEF AppendLine
  <2>2. QED
    BY <2>1, AppendKeepsReadable
<1>4. QED
  BY <1>1, <1>2, <1>3 DEF Next, vars

(* Cutting a torn tail never cuts a recorded line, whatever the writers do. *)
THEOREM AppendOnlyHolds ==
  ASSUME MaxPowerLosses = 0
  PROVE  Spec => AppendOnly
<1>1. Inductive /\ [Next]_vars =>
        [Len(file') >= Len(file) /\ SubSeq(file', 1, Len(file)) = file]_file
  <2> SUFFICES ASSUME Inductive, [Next]_vars, file' # file
               PROVE  Len(file') >= Len(file) /\ SubSeq(file', 1, Len(file)) = file
    OBVIOUS
  <2>1. /\ Len(file') = Len(file) + 1
        /\ file' \in Seq(Line)
        /\ \A i \in 1..Len(file) : file'[i] = file[i]
    BY FileGrows, NoPowerLoss
  <2>2. file \in Seq(Line) /\ Len(file) \in Nat
    BY DEF Inductive, TypeOK
  <2>3. SubSeq(file', 1, Len(file)) = file
    BY <2>1, <2>2
  <2>4. QED
    BY <2>1, <2>2, <2>3
<1>2. QED
  BY <1>1, InductiveHolds, PTL DEF Spec, AppendOnly

LEMMA RecordedGrows ==
  ASSUME Inductive, [Next]_vars, ~PowerLoss
  PROVE  Recorded(Log) \subseteq Recorded(Log')
<1>1. file \in Seq(Line) /\ Len(file) \in Nat
  BY DEF Inductive, TypeOK
<1>2. CASE file' = file
  BY <1>2 DEF Log
<1>3. CASE /\ Len(file') = Len(file) + 1
           /\ file' \in Seq(Line)
           /\ \A i \in 1..Len(file) : file'[i] = file[i]
  <2>1. Len(Log) = Len(file) /\ \A i \in 1..Len(file) : Log[i] = file[i].commit
    BY <1>1 DEF Log
  <2>2. Len(Log') = Len(file') /\ \A i \in 1..Len(file') : Log'[i] = file'[i].commit
    BY <1>3 DEF Log
  <2>3. \A i \in 1..Len(Log) : i \in 1..Len(Log') /\ Log'[i] = Log[i]
    BY <1>1, <1>3, <2>1, <2>2
  <2>4. QED
    BY <2>3 DEF Recorded
<1>4. QED
  BY <1>2, <1>3, FileGrows

LEMMA LatestIsRecorded ==
  ASSUME Inductive, NEW w \in Writers, pc[w] \in {"syncing", "syncing_directory"}
  PROVE  call[w] \in Recorded(Log)
<1>1. Latest(Log) = call[w] /\ call[w] \in Commit
  BY CallIsCommit DEF Inductive, IndexFresh
<1>2. Log # <<>> /\ Log \in Seq(Commit)
  BY <1>1, LogType, NoneAssumption DEF Latest, Inductive
<1>3. Len(Log) \in 1..Len(Log) /\ Log[Len(Log)] = call[w]
  BY <1>1, <1>2 DEF Latest
<1>4. QED
  BY <1>3 DEF Recorded

LEMMA NewAcksAreRecorded ==
  ASSUME Inductive, [Next]_vars, NEW a \in acked', a \notin acked
  PROVE  a[1] \in Recorded(Log)
<1>1. ASSUME NEW w \in Writers, ReadIndex(w) PROVE a[1] \in Recorded(Log)
  <2>1. CASE UNCHANGED acked
    BY <2>1
  <2>2. CASE call[w] \in Recorded(Log)
             /\ Report(w, IF entry THEN "replayed" ELSE "unlisted")
    <3>1. PICK how \in {"replayed", "unlisted"} : Report(w, how)
      BY <2>2
    <3>2. acked' = acked \/ acked' = acked \cup {<<call[w], how>>}
      BY <3>1 DEF Report
    <3>3. a[1] = call[w]
      BY <3>2
    <3>4. QED
      BY <2>2, <3>3
  <2>3. QED
    BY <1>1, <2>1, <2>2 DEF ReadIndex
<1>2. ASSUME NEW w \in Writers, SyncDirectory(w) PROVE a[1] \in Recorded(Log)
  <2>1. PICK how : Report(w, how) /\ pc[w] = "syncing_directory"
    BY <1>2 DEF SyncDirectory
  <2>2. acked' = acked \/ acked' = acked \cup {<<call[w], how>>}
    BY <2>1 DEF Report
  <2>3. a[1] = call[w]
    BY <2>2
  <2>4. QED
    BY <2>1, <2>3, LatestIsRecorded
<1>3. ASSUME NEW w \in Writers,
             \/ Begin(w) \/ Cancel(w) \/ Acquire(w) \/ GiveUp(w) \/ Truncate(w)
             \/ AppendLine(w) \/ Sync(w) \/ Load(w) \/ Kill(w)
      PROVE  acked' = acked
  BY <1>3 DEF Begin, Cancel, Acquire, GiveUp, Truncate, AppendLine, Sync, Load, Kill
<1>4. PowerLoss => acked' = acked
  BY DEF PowerLoss
<1>5. QED
  BY <1>1, <1>2, <1>3, <1>4 DEF Next, vars

(* Unless power is lost, a reported success names a recorded commit. *)
THEOREM AckedIsRecordedHolds ==
  ASSUME MaxPowerLosses = 0
  PROVE  Spec => []AckedIsRecorded
<1>1. Init => AckedIsRecorded
  BY DEF Init, AckedIsRecorded
<1>2. Inductive /\ AckedIsRecorded /\ [Next]_vars => AckedIsRecorded'
  <2> SUFFICES ASSUME Inductive, AckedIsRecorded, [Next]_vars, NEW a \in acked'
               PROVE  a[1] \in Recorded(Log')
    BY DEF AckedIsRecorded
  <2>1. a[1] \in Recorded(Log)
    BY NewAcksAreRecorded DEF AckedIsRecorded
  <2>2. QED
    BY <2>1, RecordedGrows, NoPowerLoss
<1>3. QED
  BY <1>1, <1>2, InductiveHolds, PTL DEF Spec

-----------------------------------------------------------------------------
(* What the two fsyncs buy: a commit reported as written lies in the part of
   the file the disk has, and the disk has the file. *)
OnDisk(c) == entry /\ \E i \in 1..synced : file[i].commit = c

Durable ==
  /\ \A a \in acked : a[2] = "written" => OnDisk(a[1])
  /\ \A w \in Writers : pc[w] = "syncing_directory" => synced = Len(file)

(* A step never takes back what the disk has, power loss included. *)
LEMMA DiskKeeps ==
  ASSUME Inductive, [Next]_vars, entry
  PROVE  /\ entry' /\ synced' \in Nat /\ synced <= synced'
         /\ \A i \in 1..synced : file'[i] = file[i]
<1> Len(file) \in Nat /\ synced \in 0..Len(file) /\ file \in Seq(Line) /\ entry = TRUE
  BY DEF Inductive, TypeOK
<1>1. ASSUME NEW w \in Writers,
             \/ Begin(w) \/ Cancel(w) \/ Acquire(w) \/ GiveUp(w) \/ ReadIndex(w)
             \/ Load(w) \/ Kill(w) \/ SyncDirectory(w)
      PROVE  file' = file /\ synced' = synced /\ entry'
  BY <1>1 DEF Begin, Cancel, Acquire, GiveUp, ReadIndex, Load, Kill,
     SyncDirectory, state
<1>2. ASSUME NEW w \in Writers, Truncate(w)
      PROVE  file' = file /\ synced' = synced /\ entry'
  BY <1>2, TruncateKeepsFile DEF Truncate
<1>3. ASSUME NEW w \in Writers, Sync(w)
      PROVE  file' = file /\ synced' \in synced..Len(file) /\ entry'
  BY <1>3 DEF Sync
<1>4. ASSUME NEW w \in Writers, AppendLine(w)
      PROVE  synced' = synced /\ entry' /\ \A i \in 1..synced : file'[i] = file[i]
  <2>1. synced' = synced /\ entry'
    BY <1>4 DEF AppendLine
  <2>2. \A i \in 1..Len(file) : file'[i] = file[i]
    BY <1>4, AppendKeepsReadable DEF AppendLine
  <2>3. QED
    BY <2>1, <2>2
<1>5. ASSUME PowerLoss
      PROVE  /\ entry' /\ synced' \in synced..Len(file)
             /\ \A i \in 1..synced : file'[i] = file[i]
  <2>1. PICK kept \in synced..Len(file) :
          file' = SubSeq(file, 1, kept) /\ synced' = kept /\ entry' = (entry \/ kept > 0)
    BY <1>5 DEF PowerLoss
  <2>2. kept \in 0..Len(file) /\ 1..synced \subseteq 1..kept
    BY <2>1
  <2>3. \A i \in 1..kept : file'[i] = file[i]
    BY <2>1, <2>2
  <2>4. QED
    BY <2>1, <2>2, <2>3
<1>6. CASE UNCHANGED vars
  BY <1>6 DEF vars
<1>7. QED
  BY <1>1, <1>2, <1>3, <1>4, <1>5, <1>6 DEF Next

(* The only success that is reported as written is the end of such a call. *)
LEMMA NewWritten ==
  ASSUME Inductive, [Next]_vars, NEW a \in acked', a \notin acked, a[2] = "written"
  PROVE  \E w \in Writers : SyncDirectory(w) /\ entry' /\ a[1] = call[w]
<1>1. ASSUME NEW w \in Writers, ReadIndex(w) PROVE FALSE
  BY <1>1 DEF ReadIndex, Report
<1>2. ASSUME NEW w \in Writers, SyncDirectory(w)
      PROVE  entry' /\ a[1] = call[w]
  BY <1>2 DEF SyncDirectory, Report
<1>3. ASSUME NEW w \in Writers,
             \/ Begin(w) \/ Cancel(w) \/ Acquire(w) \/ GiveUp(w) \/ Truncate(w)
             \/ AppendLine(w) \/ Sync(w) \/ Load(w) \/ Kill(w)
      PROVE  acked' = acked
  BY <1>3 DEF Begin, Cancel, Acquire, GiveUp, Truncate, AppendLine, Sync, Load, Kill
<1>4. PowerLoss => acked' = acked
  BY DEF PowerLoss
<1>5. QED
  BY <1>1, <1>2, <1>3, <1>4 DEF Next, vars

(* While one writer is between its two syncs nobody else writes. *)
LEMMA SyncedStays ==
  ASSUME Inductive, Durable, [Next]_vars, NEW w \in Writers,
         pc'[w] = "syncing_directory"
  PROVE  synced' = Len(file')
<1>1. CASE pc[w] = "syncing_directory"
  <2>1. \A v \in Writers \ {w} : pc[v] \in {"idle", "locking", "down"}
    BY <1>1 DEF Inductive, TypeOK, LockOwned, Holding
  <2>2. ASSUME NEW v \in Writers, v # w,
               \/ Begin(v) \/ Cancel(v) \/ Acquire(v) \/ GiveUp(v) \/ ReadIndex(v)
               \/ Truncate(v) \/ AppendLine(v) \/ Sync(v) \/ SyncDirectory(v)
               \/ Load(v) \/ Kill(v)
        PROVE  file' = file /\ synced' = synced
    BY <2>1, <2>2 DEF Begin, Cancel, Acquire, GiveUp, ReadIndex, Truncate,
       AppendLine, Sync, SyncDirectory, Load, Kill, Goto, state
  <2>3. ASSUME \/ Begin(w) \/ Cancel(w) \/ Acquire(w) \/ GiveUp(w) \/ ReadIndex(w)
               \/ Truncate(w) \/ AppendLine(w) \/ Sync(w) \/ SyncDirectory(w)
               \/ Load(w) \/ Kill(w)
        PROVE  file' = file /\ synced' = synced
    BY <1>1, <2>3 DEF Begin, Cancel, Acquire, GiveUp, ReadIndex, Truncate,
       AppendLine, Sync, SyncDirectory, Load, Kill, Goto, state
  <2>4. ~PowerLoss
    BY DEF PowerLoss
  <2>5. QED
    BY <1>1, <2>2, <2>3, <2>4 DEF Durable, Next, vars
<1>2. CASE pc[w] # "syncing_directory"
  <2>1. ASSUME NEW v \in Writers,
               \/ Begin(v) \/ Cancel(v) \/ Acquire(v) \/ GiveUp(v) \/ ReadIndex(v)
               \/ Truncate(v) \/ AppendLine(v) \/ SyncDirectory(v)
               \/ Load(v) \/ Kill(v)
        PROVE  FALSE
    BY <1>2, <2>1 DEF Begin, Cancel, Acquire, GiveUp, ReadIndex, Truncate, Report,
       AppendLine, SyncDirectory, Load, Kill, Goto, Return, Inductive, TypeOK
  <2>2. ASSUME NEW v \in Writers, Sync(v)
        PROVE  synced' = Len(file')
    BY <1>2, <2>2 DEF Sync, Return, Inductive, TypeOK
  <2>3. ~PowerLoss
    BY DEF PowerLoss
  <2>4. QED
    BY <1>2, <2>1, <2>2, <2>3 DEF Next, vars
<1>3. QED
  BY <1>1, <1>2

(* A commit reported as written is recorded, whatever the processes and the
   machine do afterwards, however often power is lost. *)
THEOREM WrittenIsRecordedHolds == Spec => []WrittenIsRecorded
<1>1. Init => Durable
  BY DEF Init, Durable
<1>2. Inductive /\ Durable /\ [Next]_vars => Durable'
  <2> SUFFICES ASSUME Inductive, Durable, [Next]_vars PROVE Durable'
    OBVIOUS
  <2>1. ASSUME NEW a \in acked', a[2] = "written"
        PROVE  OnDisk(a[1])'
    <3>1. CASE a \in acked
      <4>1. entry
        BY <2>1, <3>1 DEF Durable, OnDisk
      <4>2. PICK i \in 1..synced : file[i].commit = a[1]
        BY <2>1, <3>1 DEF Durable, OnDisk
      <4>3. entry' /\ i \in 1..synced' /\ file'[i] = file[i]
        BY <4>1, <4>2, DiskKeeps DEF Inductive, TypeOK
      <4>4. QED
        BY <4>2, <4>3 DEF OnDisk
    <3>2. CASE a \notin acked
      <4>1. PICK w \in Writers : SyncDirectory(w) /\ entry' /\ a[1] = call[w]
        BY <2>1, <3>2, NewWritten
      <4>2. pc[w] = "syncing_directory" /\ file' = file /\ synced' = synced
        BY <4>1 DEF SyncDirectory
      <4>3. synced = Len(file) /\ Latest(Log) = call[w] /\ call[w] # None
        BY <4>2 DEF Durable, Inductive, IndexFresh
      <4>4. Len(file) \in 1..Len(file) /\ file[Len(file)].commit = call[w]
        <5>1. Len(Log) = Len(file) /\ Log # <<>> /\ Log[Len(file)] = call[w]
          BY <4>3, LogType DEF Inductive, Latest
        <5>2. Len(file) \in 1..Len(file)
          BY <5>1, LogType DEF Inductive, TypeOK
        <5>3. QED
          BY <5>1, <5>2 DEF Log
      <4>5. QED
        BY <4>1, <4>2, <4>3, <4>4 DEF OnDisk
    <3>3. QED
      BY <3>1, <3>2
  <2>2. QED
    BY <2>1, SyncedStays DEF Durable
<1>3. Inductive /\ Durable => WrittenIsRecorded
  <2> SUFFICES ASSUME Inductive, Durable, NEW a \in acked, a[2] = "written"
               PROVE  a[1] \in Recorded(Log)
    BY DEF WrittenIsRecorded
  <2>1. PICK i \in 1..synced : file[i].commit = a[1]
    BY DEF Durable, OnDisk
  <2>2. i \in 1..Len(Log) /\ Log[i] = a[1]
    BY <2>1, LogType DEF Inductive, TypeOK
  <2>3. QED
    BY <2>2 DEF Recorded
<1>4. QED
  BY <1>1, <1>2, <1>3, InductiveHolds, PTL DEF Spec

-----------------------------------------------------------------------------
(* Why Harnesses never diverge: the Conversations the lines result in are
   prefixes of each other, and each Harness holds one of them. *)
Continues(b, a) ==
  /\ a.seed = b.seed
  /\ Len(a.runs) <= Len(b.runs)
  /\ \A k \in 1..Len(a.runs) : b.runs[k] = a.runs[k]

After(lines, i) == ResultingConversation(lines[i].commit)

OneHistory ==
  \A i, j \in 1..Len(file) : i <= j => Continues(After(file, j), After(file, i))

ViewsAreRecorded ==
  \A w \in Writers :
    pc[w] # "down" /\ Revision(view[w]) > 0
      => \E i \in 1..Len(file) : view[w] = After(file, i)

LEMMA AfterType ==
  ASSUME TypeOK, NEW i \in 1..Len(file)
  PROVE  file[i].commit \in Commit /\ After(file, i) \in Conversation
<1>1. file[i] \in Line
  BY DEF TypeOK
<1>2. file[i].commit \in Commit
  BY <1>1 DEF Line
<1>3. QED
  BY <1>2, ResultType DEF After

(* A commit's result continues the Conversation it started from. *)
LEMMA ResultContinues ==
  ASSUME NEW c \in Commit
  PROVE  Continues(ResultingConversation(c), c.base)
<1>1. c.base \in Conversation /\ c.run \in RunIds
  BY DEF Commit
<1>2. c.base.runs \in Seq(RunIds) /\ Len(c.base.runs) \in Nat
  BY <1>1 DEF Conversation
<1>3. CASE c.completed
  <2>1. ResultingConversation(c).seed = c.base.seed
        /\ ResultingConversation(c).runs = Append(c.base.runs, c.run)
    BY <1>1, <1>3 DEF ResultingConversation, Conversation
  <2>2. Len(Append(c.base.runs, c.run)) = Len(c.base.runs) + 1
        /\ \A k \in 1..Len(c.base.runs) : Append(c.base.runs, c.run)[k] = c.base.runs[k]
    BY <1>1, <1>2
  <2>3. QED
    BY <1>2, <2>1, <2>2 DEF Continues
<1>4. CASE ~c.completed
  BY <1>2, <1>4 DEF ResultingConversation, Continues
<1>5. QED
  BY <1>3, <1>4

LEMMA ContinuesTransitive ==
  ASSUME NEW a \in Conversation, NEW b \in Conversation, NEW c \in Conversation,
         Continues(b, a), Continues(c, b)
  PROVE  Continues(c, a)
<1>1. Len(a.runs) \in Nat /\ Len(b.runs) \in Nat /\ Len(c.runs) \in Nat
  BY DEF Conversation
<1>2. Len(a.runs) <= Len(b.runs) /\ Len(b.runs) <= Len(c.runs)
  BY DEF Continues
<1>3. \A k \in 1..Len(a.runs) : k \in 1..Len(b.runs)
  BY <1>1, <1>2
<1>4. \A k \in 1..Len(a.runs) : c.runs[k] = a.runs[k]
  BY <1>3 DEF Continues
<1>5. QED
  BY <1>1, <1>2, <1>4 DEF Continues

(* The lines a power loss keeps still result in one history. *)
LEMMA PrefixKeepsHistory ==
  ASSUME OneHistory, Len(file) \in Nat, Len(file') \in Nat,
         Len(file') <= Len(file),
         \A i \in 1..Len(file') : file'[i] = file[i]
  PROVE  OneHistory'
BY DEF OneHistory, After

(* The line a writer appends continues every line before it. *)
LEMMA AppendKeepsHistory ==
  ASSUME Inductive, OneHistory, NEW w \in Writers, pc[w] = "appending",
         file' = Append(file, [sequence |-> IF torn THEN 0 ELSE count[w] + 1,
                               commit |-> call[w]])
  PROVE  OneHistory'
<1> DEFINE n == Len(file)
<1>1. /\ n \in Nat /\ Len(file') = n + 1
      /\ \A i \in 1..n : file'[i] = file[i]
      /\ file'[n + 1].commit = call[w]
  BY AppendKeepsReadable DEF Inductive, TypeOK
<1>2. call[w] \in Commit /\ Continues(ResultingConversation(call[w]), call[w].base)
  BY CallIsCommit, ResultContinues
<1>3. \A i \in 1..n : After(file', i) = After(file, i) /\ After(file, i) \in Conversation
  BY <1>1, AfterType DEF After, Inductive
<1>4. After(file', n + 1) = ResultingConversation(call[w])
      /\ After(file', n + 1) \in Conversation
  BY <1>1, <1>2, ResultType DEF After
<1>5. ASSUME NEW i \in 1..n
      PROVE  Continues(After(file', n + 1), After(file, i))
  <2>1. n \in 1..n /\ i <= n
    BY <1>1
  <2>2. call[w].base = After(file, n)
    <3>1. BaseIsCurrent(Log, call[w])
      BY DEF Inductive, IndexFresh
    <3>2. Log # <<>> /\ Latest(Log) = file[n].commit
      BY <2>1, LogType DEF Inductive, Latest
    <3>3. file[n].commit # None
      BY <2>1, AfterType, NoneAssumption DEF Inductive
    <3>4. QED
      BY <3>1, <3>2, <3>3 DEF BaseIsCurrent, Follows, After
  <2>3. Continues(After(file, n), After(file, i))
    BY <2>1 DEF OneHistory
  <2>4. QED
    BY <1>2, <1>3, <1>4, <2>1, <2>2, <2>3, ContinuesTransitive
<1>6. Continues(After(file', n + 1), After(file', n + 1))
  <2>1. Len(After(file', n + 1).runs) \in Nat
    BY <1>4 DEF Conversation
  <2>2. QED
    BY <2>1 DEF Continues
<1>7. SUFFICES ASSUME NEW i \in 1..(n + 1), NEW j \in 1..(n + 1), i <= j
               PROVE  Continues(After(file', j), After(file', i))
  BY <1>1 DEF OneHistory
<1>8. CASE j = n + 1
  <2>1. i \in 1..n \/ i = n + 1
    BY <1>1
  <2>2. QED
    BY <1>3, <1>5, <1>6, <1>8, <2>1
<1>9. CASE j # n + 1
  <2> HIDE DEF n
  <2>1. i \in 1..n /\ j \in 1..n
    BY <1>1, <1>7, <1>9
  <2>2. After(file', i) = After(file, i) /\ After(file', j) = After(file, j)
    BY <1>3, <2>1
  <2>3. Continues(After(file, j), After(file, i))
    BY <1>7, <2>1 DEF OneHistory, n
  <2>4. QED
    BY <2>2, <2>3
<1>10. QED
  BY <1>8, <1>9

LEMMA HistoryStep ==
  ASSUME Inductive, OneHistory, [Next]_vars
  PROVE  OneHistory'
<1>1. Len(file) \in Nat /\ file \in Seq(Line)
  BY DEF Inductive, TypeOK
<1>2. CASE PowerLoss
  <2>1. PICK kept \in 0..Len(file) : file' = SubSeq(file, 1, kept)
    BY <1>2 DEF PowerLoss, Inductive, TypeOK
  <2>2. Len(file') = kept /\ \A i \in 1..kept : file'[i] = file[i]
    BY <1>1, <2>1
  <2>3. QED
    BY <1>1, <2>1, <2>2, PrefixKeepsHistory
<1>3. ASSUME NEW w \in Writers, AppendLine(w)
      PROVE  OneHistory'
  <2>1. CASE file' = file
    BY <2>1 DEF OneHistory, After
  <2>2. CASE file' # file
    BY <1>3, <2>2, AppendKeepsHistory DEF AppendLine
  <2>3. QED
    BY <2>1, <2>2
<1>4. ASSUME NEW w \in Writers,
             \/ Begin(w) \/ Cancel(w) \/ Acquire(w) \/ GiveUp(w) \/ ReadIndex(w)
             \/ Truncate(w) \/ Sync(w) \/ SyncDirectory(w) \/ Load(w) \/ Kill(w)
      PROVE  file' = file
  BY <1>4, TruncateKeepsFile DEF Begin, Cancel, Acquire, GiveUp, ReadIndex, Sync,
     SyncDirectory, Load, Kill, state
<1>5. CASE file' = file
  BY <1>5 DEF OneHistory, After
<1>6. QED
  BY <1>2, <1>3, <1>4, <1>5 DEF Next, vars

(* The Conversation a Harness takes over is one the file results in. *)
LEMMA NewViews ==
  ASSUME Inductive, [Next]_vars, NEW w \in Writers, pc'[w] # "down",
         view'[w] # view[w], Revision(view'[w]) > 0
  PROVE  \E i \in 1..Len(file) : view'[w] = After(file, i)
<1> DEFINE Goal == \E i \in 1..Len(file) : view'[w] = After(file, i)
<1>1. ASSUME call[w] \in Recorded(Log), view'[w] = ResultingConversation(call[w])
      PROVE  Goal
  <2>1. PICK i \in 1..Len(Log) : Log[i] = call[w]
    BY <1>1 DEF Recorded
  <2>2. i \in 1..Len(file) /\ file[i].commit = call[w]
    BY <2>1, LogType DEF Inductive
  <2>3. QED
    BY <1>1, <2>2 DEF After
<1>2. ASSUME NEW v \in Writers,
             \/ Begin(v) \/ Cancel(v) \/ Acquire(v) \/ GiveUp(v)
             \/ Truncate(v) \/ AppendLine(v) \/ Sync(v)
      PROVE  FALSE
  BY <1>2 DEF Begin, Cancel, Acquire, GiveUp, Truncate, AppendLine, Sync
<1>3. ASSUME NEW v \in Writers, NEW how, Report(v, how)
      PROVE  v = w /\ view'[w] = ResultingConversation(call[w])
  BY <1>3 DEF Report, Inductive, TypeOK
<1>4. ASSUME NEW v \in Writers, ReadIndex(v) PROVE Goal
  <2>1. call[v] \in Recorded(Log)
        /\ Report(v, IF entry THEN "replayed" ELSE "unlisted")
    BY <1>4 DEF ReadIndex
  <2>2. QED
    BY <1>1, <1>3, <2>1
<1>5. ASSUME NEW v \in Writers, SyncDirectory(v) PROVE Goal
  <2>1. PICK how : Report(v, how) /\ pc[v] = "syncing_directory"
    BY <1>5 DEF SyncDirectory
  <2>2. call[v] \in Recorded(Log)
    BY <2>1, LatestIsRecorded
  <2>3. QED
    BY <1>1, <1>3, <2>1, <2>2
<1>6. ASSUME NEW v \in Writers, Load(v) PROVE Goal
  <2>1. PICK seed \in Seeds :
          view' = [view EXCEPT ![v] = IF file = <<>> THEN Initial(seed)
                                      ELSE ResultingConversation(Latest(Log))]
    BY <1>6 DEF Load
  <2>2. v = w
    BY <2>1 DEF Inductive, TypeOK
  <2>3. file # <<>>
    <3>1. Revision(Initial(seed)) = 0
      BY DEF Initial, Revision
    <3>2. ASSUME file = <<>> PROVE view'[w] = Initial(seed)
      BY <2>1, <2>2, <3>2 DEF Inductive, TypeOK
    <3>3. QED
      BY <3>1, <3>2
  <2>4. view'[w] = ResultingConversation(Latest(Log))
    BY <2>1, <2>2, <2>3 DEF Inductive, TypeOK
  <2>5. Len(file) \in 1..Len(file) /\ Latest(Log) = file[Len(file)].commit
    <3>1. Len(file) \in 1..Len(file)
      BY <2>3 DEF Inductive, TypeOK
    <3>2. QED
      BY <3>1, LogType DEF Inductive, Latest
  <2>6. QED
    BY <2>4, <2>5 DEF After
<1>7. ASSUME NEW v \in Writers, Kill(v) PROVE FALSE
  <2>1. view' = [view EXCEPT ![v] = None] /\ pc' = [pc EXCEPT ![v] = "down"]
    BY <1>7 DEF Kill
  <2>2. v = w
    BY <2>1 DEF Inductive, TypeOK
  <2>3. QED
    BY <2>1, <2>2 DEF Inductive, TypeOK
<1>8. ~PowerLoss
  BY DEF PowerLoss
<1>9. QED
  BY <1>2, <1>4, <1>5, <1>6, <1>7, <1>8 DEF Next, vars

LEMMA ViewsStep ==
  ASSUME Inductive, ViewsAreRecorded, [Next]_vars
  PROVE  ViewsAreRecorded'
<1> SUFFICES ASSUME NEW w \in Writers, pc'[w] # "down", Revision(view'[w]) > 0
             PROVE  \E i \in 1..Len(file') : view'[w] = After(file', i)
  BY DEF ViewsAreRecorded
<1>1. ~PowerLoss
  BY DEF PowerLoss
<1>2. \A i \in 1..Len(file) : i \in 1..Len(file') /\ file'[i] = file[i]
  BY <1>1, FileGrows DEF Inductive, TypeOK
<1>3. \E i \in 1..Len(file) : view'[w] = After(file, i)
  <2>1. CASE view'[w] # view[w]
    BY <2>1, NewViews
  <2>2. CASE view'[w] = view[w]
    <3>1. view'[w] # None
      <4>1. Inductive'
        BY NextInductive
      <4>2. QED
        BY <4>1 DEF Inductive, TypeOK
    <3>2. pc[w] # "down"
      BY <2>2, <3>1 DEF Inductive, TypeOK
    <3>3. QED
      BY <2>2, <3>2 DEF ViewsAreRecorded
  <2>3. QED
    BY <2>1, <2>2
<1>4. QED
  BY <1>2, <1>3 DEF After

(* Two running Harnesses never hold diverging committed Conversations,
   however often processes are killed and power is lost. *)
THEOREM ViewsDoNotForkHolds == Spec => []ViewsDoNotFork
<1>1. Init => OneHistory /\ ViewsAreRecorded
  <2> SUFFICES ASSUME Init PROVE OneHistory /\ ViewsAreRecorded
    OBVIOUS
  <2>1. \A w \in Writers : Revision(view[w]) = 0
    BY DEF Init, Initial, Revision
  <2>2. 1..Len(file) = {}
    BY DEF Init
  <2>3. QED
    BY <2>1, <2>2 DEF OneHistory, ViewsAreRecorded
<1>2. Inductive /\ OneHistory /\ ViewsAreRecorded /\ [Next]_vars
        => OneHistory' /\ ViewsAreRecorded'
  BY HistoryStep, ViewsStep
<1>3. Inductive /\ OneHistory /\ ViewsAreRecorded => ViewsDoNotFork
  <2> SUFFICES ASSUME Inductive, OneHistory, ViewsAreRecorded,
                      NEW v \in Writers, NEW w \in Writers,
                      pc[v] # "down", pc[w] # "down",
                      Revision(view[v]) > 0, Revision(view[w]) >= Revision(view[v])
               PROVE  /\ view[v].seed = view[w].seed
                      /\ SubSeq(view[w].runs, 1, Revision(view[v])) = view[v].runs
    BY DEF ViewsDoNotFork
  <2>1. /\ view[v] \in Conversation /\ view[w] \in Conversation
        /\ Len(view[v].runs) \in Nat /\ Len(view[w].runs) \in Nat
        /\ view[v].runs \in Seq(RunIds) /\ view[w].runs \in Seq(RunIds)
        /\ Revision(view[v]) = Len(view[v].runs)
        /\ Revision(view[w]) = Len(view[w].runs)
    BY DEF Inductive, TypeOK, Conversation, Revision
  <2>2. PICK i \in 1..Len(file) : view[v] = After(file, i)
    BY DEF ViewsAreRecorded
  <2>3. PICK j \in 1..Len(file) : view[w] = After(file, j)
    BY <2>1 DEF ViewsAreRecorded
  <2>4. Continues(view[w], view[v])
    <3>1. CASE i <= j
      BY <2>2, <2>3, <3>1 DEF OneHistory
    <3>2. CASE j < i
      <4>1. Continues(view[v], view[w])
        BY <2>2, <2>3, <3>2 DEF OneHistory
      <4>2. Len(view[w].runs) = Len(view[v].runs)
        BY <2>1, <4>1 DEF Continues
      <4>3. QED
        BY <2>1, <4>1, <4>2 DEF Continues
    <3>3. i \in Nat /\ j \in Nat
      BY DEF Inductive, TypeOK
    <3>4. QED
      BY <3>1, <3>2, <3>3
  <2>5. SubSeq(view[w].runs, 1, Len(view[v].runs)) = view[v].runs
    BY <2>1, <2>4 DEF Continues
  <2>6. QED
    BY <2>1, <2>4, <2>5 DEF Continues
<1>4. QED
  BY <1>1, <1>2, <1>3, InductiveHolds, PTL DEF Spec

-----------------------------------------------------------------------------
(* The refinement mapping, named. *)
APhase == [w \in Writers |-> AbstractPhase(w)]
AProposal == [w \in Writers |-> IF AbstractPhase(w) = "idle" THEN None ELSE call[w]]

(* The instance shares the operators on commits. *)
LEMMA SameOperators ==
  /\ Promise!Commit = Commit
  /\ Promise!Recorded(Log) = Recorded(Log)
  /\ \A c : Promise!SameRun(Log, c) = SameRun(Log, c)
  /\ \A c : Promise!BaseIsCurrent(Log, c) = BaseIsCurrent(Log, c)
BY DEF Promise!Commit, Commit, Promise!Conversation, Conversation,
   Promise!Recorded, Recorded, Promise!SameRun, SameRun,
   Promise!BaseIsCurrent, BaseIsCurrent, Promise!Latest, Latest,
   Promise!Follows, Follows, Promise!Revision, Revision,
   Promise!ResultingConversation, ResultingConversation

LEMMA PromiseInit == Init => Promise!Init
BY DEF Init, Promise!Init, AbstractPhase, Log

(* Steps that move no writer between abstract phases stutter. *)
LEMMA PhaseFrame ==
  ASSUME Inductive, Inductive', NEW w \in Writers,
         \A v \in Writers \ {w} : pc'[v] = pc[v] /\ call'[v] = call[v]
  PROVE  /\ \A v \in Writers \ {w} : AbstractPhase(v)' = AbstractPhase(v)
         /\ APhase' = [APhase EXCEPT ![w] = AbstractPhase(w)']
         /\ AProposal' = [AProposal EXCEPT ![w] =
               IF AbstractPhase(w)' = "idle" THEN None ELSE call'[w]]
<1>1. \A v \in Writers \ {w} : AbstractPhase(v)' = AbstractPhase(v)
  BY DEF AbstractPhase
<1>2. APhase' = [APhase EXCEPT ![w] = AbstractPhase(w)']
  BY <1>1 DEF APhase
<1>3. AProposal' = [AProposal EXCEPT ![w] =
               IF AbstractPhase(w)' = "idle" THEN None ELSE call'[w]]
  BY <1>1 DEF AProposal
<1>4. QED
  BY <1>1, <1>2, <1>3

(* A step that leaves the file, and only moves w inside one abstract phase *)
LEMMA Stutter ==
  ASSUME Inductive, Inductive', NEW w \in Writers,
         \A v \in Writers \ {w} : pc'[v] = pc[v] /\ call'[v] = call[v],
         AbstractPhase(w)' = AbstractPhase(w),
         AbstractPhase(w) = "idle" \/ call'[w] = call[w],
         file' = file, outcome' = outcome
  PROVE  UNCHANGED Promise!vars
<1>1. APhase' = APhase /\ AProposal' = AProposal
  BY PhaseFrame DEF APhase, AProposal
<1>2. Log' = Log
  BY DEF Log
<1>3. QED
  BY <1>1, <1>2 DEF Promise!vars, APhase, AProposal

(* A returning call returns in the abstract store too. *)
LEMMA ReturnMaps ==
  ASSUME Inductive, Inductive', NEW w \in Writers, NEW answer,
         \A v \in Writers \ {w} : pc'[v] = pc[v] /\ call'[v] = call[v],
         AbstractPhase(w)' = "idle", file' = file,
         outcome' = [outcome EXCEPT ![w] = answer]
  PROVE  Promise!Return(w, answer)
<1>1. /\ APhase' = [APhase EXCEPT ![w] = "idle"]
      /\ AProposal' = [AProposal EXCEPT ![w] = None]
  BY PhaseFrame
<1>2. Log' = Log
  BY DEF Log
<1>3. QED
  BY <1>1, <1>2 DEF Promise!Return, APhase, AProposal

LEMMA OthersStay ==
  ASSUME Inductive, NEW w \in Writers,
         \/ Begin(w) \/ Cancel(w) \/ Acquire(w) \/ GiveUp(w) \/ ReadIndex(w)
         \/ Truncate(w) \/ AppendLine(w) \/ Sync(w) \/ SyncDirectory(w)
         \/ Load(w) \/ Kill(w)
  PROVE  \A v \in Writers \ {w} : pc'[v] = pc[v] /\ call'[v] = call[v]
BY DEF Begin, Cancel, Acquire, GiveUp, ReadIndex, Truncate, AppendLine, Sync,
   SyncDirectory, Load, Kill, Goto, Return, Report, state, Inductive, TypeOK

LEMMA BeginMaps ==
  ASSUME Inductive, Inductive', NEW w \in Writers, Begin(w)
  PROVE  Promise!Call(w)
<1>1. \A v \in Writers \ {w} : pc'[v] = pc[v] /\ call'[v] = call[v]
  BY OthersStay
<1>2. pc[w] = "idle" /\ pc'[w] = "locking" /\ file' = file
      /\ outcome' = [outcome EXCEPT ![w] = "none"]
  BY DEF Begin, Goto, state, Inductive, TypeOK
<1>3. AbstractPhase(w) = "idle" /\ AbstractPhase(w)' = "called"
  BY <1>2 DEF AbstractPhase
<1>4. /\ APhase' = [APhase EXCEPT ![w] = "called"]
      /\ AProposal' = [AProposal EXCEPT ![w] = call'[w]]
  BY <1>1, <1>3, PhaseFrame
<1>5. call'[w] \in Commit
  <2>1. call'[w] # None
    BY <1>2 DEF Inductive, IndexFresh
  <2>2. call'[w] \in Commit \cup {None}
    BY DEF Inductive, TypeOK
  <2>3. QED
    BY <2>1, <2>2
<1>6. AProposal'[w] = call'[w]
  BY <1>3 DEF AProposal
<1>7. Log' = Log
  BY <1>2 DEF Log
<1>8. APhase[w] = "idle"
  BY <1>3 DEF APhase
<1>9. QED
  BY <1>2, <1>4, <1>5, <1>6, <1>7, <1>8, SameOperators DEF Promise!Call, APhase, AProposal

(* Leaving a call in progress, with any answer, is one abstract return. *)
LEMMA LeaveMaps ==
  ASSUME Inductive, Inductive', NEW w \in Writers, NEW answer,
         \A v \in Writers \ {w} : pc'[v] = pc[v] /\ call'[v] = call[v],
         pc[w] \notin {"idle", "down"}, Return(w, answer), file' = file
  PROVE  IF cancelled[w] THEN Promise!Fail(w) ELSE Promise!Return(w, answer)
<1>1. pc'[w] = "idle"
      /\ outcome' = [outcome EXCEPT ![w] = IF cancelled[w] THEN "failed" ELSE answer]
  BY DEF Return, Inductive, TypeOK
<1>2. AbstractPhase(w)' = "idle" /\ AbstractPhase(w) # "idle"
  BY <1>1 DEF AbstractPhase
<1>3. CASE cancelled[w]
  <2>1. outcome' = [outcome EXCEPT ![w] = "failed"]
    BY <1>1, <1>3
  <2>2. Promise!Return(w, "failed")
    BY <1>2, <2>1, ReturnMaps
  <2>3. QED
    BY <1>2, <1>3, <2>2 DEF Promise!Fail
<1>4. CASE ~cancelled[w]
  <2>1. outcome' = [outcome EXCEPT ![w] = answer]
    BY <1>1, <1>4
  <2>2. QED
    BY <1>2, <1>4, <2>1, ReturnMaps
<1>5. QED
  BY <1>3, <1>4

LEMMA ReadIndexMaps ==
  ASSUME Inductive, Inductive', NEW w \in Writers, ReadIndex(w)
  PROVE  \/ Promise!Fail(w) \/ Promise!Repeat(w) \/ Promise!Conflict(w)
         \/ UNCHANGED Promise!vars
<1>1. \A v \in Writers \ {w} : pc'[v] = pc[v] /\ call'[v] = call[v]
  BY OthersStay
<1>2. pc[w] = "reading" /\ file' = file /\ call' = call
  BY DEF ReadIndex
<1>3. AbstractPhase(w) = "called" /\ APhase[w] = "called" /\ AProposal[w] = call[w]
  BY <1>2 DEF AbstractPhase, APhase, AProposal
<1>4. CASE Return(w, "failed")
  <2>1. IF cancelled[w] THEN Promise!Fail(w) ELSE Promise!Return(w, "failed")
    BY <1>1, <1>2, <1>4, LeaveMaps
  <2>2. QED
    BY <1>3, <2>1 DEF Promise!Fail
<1>5. CASE call[w] \in Recorded(Log)
           /\ Report(w, IF entry THEN "replayed" ELSE "unlisted")
  <2>1. IF cancelled[w] THEN Promise!Fail(w) ELSE Promise!Return(w, "committed")
    BY <1>1, <1>2, <1>5, LeaveMaps DEF Report
  <2>2. QED
    BY <1>3, <1>5, <2>1, SameOperators DEF Promise!Repeat, APhase, AProposal
<1>6. CASE /\ call[w] \notin Recorded(Log)
           /\ SameRun(Log, call[w]) # {} \/ ~BaseIsCurrent(Log, call[w])
           /\ Return(w, "conflict")
  <2>1. IF cancelled[w] THEN Promise!Fail(w) ELSE Promise!Return(w, "conflict")
    BY <1>1, <1>2, <1>6, LeaveMaps
  <2>2. QED
    BY <1>3, <1>6, <2>1, SameOperators DEF Promise!Conflict, APhase, AProposal
<1>7. CASE pc' = [pc EXCEPT ![w] = "truncating"] /\ UNCHANGED outcome
  <2>1. pc'[w] = "truncating"
    BY <1>7 DEF Inductive, TypeOK
  <2>2. AbstractPhase(w)' = "called"
    BY <2>1 DEF AbstractPhase
  <2>3. QED
    BY <1>1, <1>2, <1>3, <1>7, <2>2, Stutter
<1>8. QED
  BY <1>4, <1>5, <1>6, <1>7 DEF ReadIndex

(* The line becomes complete: the instant the commit takes effect. *)
LEMMA AppendLineMaps ==
  ASSUME Inductive, Inductive', NEW w \in Writers, AppendLine(w)
  PROVE  Promise!Record(w) \/ Promise!Fail(w)
<1>1. \A v \in Writers \ {w} : pc'[v] = pc[v] /\ call'[v] = call[v]
  BY OthersStay
<1>2. pc[w] = "appending" /\ call' = call
  BY DEF AppendLine
<1>3. APhase[w] = "called" /\ AProposal[w] = call[w] /\ AbstractPhase(w) = "called"
  BY <1>2 DEF AbstractPhase, APhase, AProposal
<1>4. CASE Return(w, "failed") /\ UNCHANGED file
  <2>1. IF cancelled[w] THEN Promise!Fail(w) ELSE Promise!Return(w, "failed")
    BY <1>1, <1>2, <1>4, LeaveMaps
  <2>2. QED
    BY <1>3, <2>1 DEF Promise!Fail, APhase
<1>5. CASE /\ file' = Append(file, [sequence |-> IF torn THEN 0 ELSE count[w] + 1,
                                     commit |-> call[w]])
           /\ pc' = [pc EXCEPT ![w] = "syncing"]
           /\ UNCHANGED outcome
  <2>1. pc'[w] = "syncing"
    BY <1>5 DEF Inductive, TypeOK
  <2>2. AbstractPhase(w)' = "effected"
    BY <2>1 DEF AbstractPhase
  <2>3. /\ APhase' = [APhase EXCEPT ![w] = "effected"]
        /\ AProposal' = [AProposal EXCEPT ![w] = call'[w]]
    BY <1>1, <2>2, PhaseFrame
  <2>4. AProposal' = AProposal
    BY <1>2, <1>3, <2>3 DEF AProposal
  <2>5. Log' = Append(Log, call[w])
    <3>1. /\ Len(file') = Len(file) + 1 /\ file' \in Seq(Line)
          /\ \A i \in 1..Len(file) : file'[i] = file[i]
          /\ file'[Len(file')].commit = call[w]
      BY <1>2, <1>5, AppendKeepsReadable
    <3>2. Log \in Seq(Commit) /\ Len(Log) = Len(file)
          /\ \A i \in 1..Len(file) : Log[i] = file[i].commit
      BY LogType DEF Inductive
    <3>3. Log' \in Seq(Commit) /\ Len(Log') = Len(file')
          /\ \A i \in 1..Len(file') : Log'[i] = file'[i].commit
      <4>1. \A i \in 1..Len(file') : file'[i] \in Line
        BY <3>1
      <4>2. \A i \in 1..Len(file') : file'[i].commit \in Commit
        BY <4>1 DEF Line
      <4>3. Len(file') \in Nat
        BY <3>1
      <4>4. QED
        BY <4>2, <4>3 DEF Log
    <3>4. call[w] \in Commit
      BY <1>2, CallIsCommit
    <3>5. Append(Log, call[w]) \in Seq(Commit)
          /\ Len(Append(Log, call[w])) = Len(Log) + 1
          /\ \A i \in 1..Len(Log) : Append(Log, call[w])[i] = Log[i]
          /\ Append(Log, call[w])[Len(Log) + 1] = call[w]
      BY <3>2, <3>4
    <3>6. Len(file) \in Nat
      BY DEF Inductive, TypeOK
    <3>7. Len(Log') = Len(Append(Log, call[w]))
          /\ \A i \in 1..Len(Log') : Log'[i] = Append(Log, call[w])[i]
      <4> SUFFICES ASSUME NEW i \in 1..(Len(file) + 1)
                   PROVE  Log'[i] = Append(Log, call[w])[i]
        BY <3>1, <3>2, <3>3, <3>5
      <4>1. CASE i \in 1..Len(file)
        <5>1. i \in 1..Len(file')
          BY <3>1, <3>6
        <5>2. Log'[i] = file'[i].commit /\ file'[i] = file[i]
          BY <3>1, <3>3, <4>1, <5>1
        <5>3. Append(Log, call[w])[i] = file[i].commit
          BY <3>2, <3>5, <4>1
        <5>4. QED
          BY <5>2, <5>3
      <4>2. CASE i = Len(file) + 1
        <5>1. Len(file') \in 1..Len(file') /\ i = Len(file')
          BY <3>1, <3>6, <4>2
        <5>2. Log'[i] = call[w]
          BY <3>1, <3>3, <5>1
        <5>3. Append(Log, call[w])[i] = call[w]
          BY <3>2, <3>5, <4>2
        <5>4. QED
          BY <5>2, <5>3
      <4>3. i \in 1..Len(file) \/ i = Len(file) + 1
        BY <3>6
      <4>4. QED
        BY <4>1, <4>2, <4>3
    <3>8. QED
      BY <3>3, <3>5, <3>7
  <2>6. SameRun(Log, call[w]) = {} /\ BaseIsCurrent(Log, call[w])
    BY <1>2 DEF Inductive, IndexFresh
  <2>7. Promise!Record(w)
    BY <1>3, <1>5, <2>3, <2>4, <2>5, <2>6, SameOperators
    DEF Promise!Record, APhase, AProposal
  <2>8. QED
    BY <2>7
<1>6. QED
  BY <1>4, <1>5 DEF AppendLine

LEMMA SyncMaps ==
  ASSUME Inductive, Inductive', NEW w \in Writers, Sync(w)
  PROVE  Promise!Fail(w) \/ UNCHANGED Promise!vars
<1>1. \A v \in Writers \ {w} : pc'[v] = pc[v] /\ call'[v] = call[v]
  BY OthersStay
<1>2. pc[w] = "syncing" /\ call' = call /\ file' = file
  BY DEF Sync
<1>3. AbstractPhase(w) = "effected" /\ APhase[w] = "effected"
  BY <1>2 DEF AbstractPhase, APhase
<1>4. CASE Return(w, "failed")
  <2>1. IF cancelled[w] THEN Promise!Fail(w) ELSE Promise!Return(w, "failed")
    BY <1>1, <1>2, <1>4, LeaveMaps
  <2>2. QED
    BY <1>3, <2>1 DEF Promise!Fail, APhase
<1>5. CASE pc' = [pc EXCEPT ![w] = "syncing_directory"] /\ UNCHANGED outcome
  <2>1. pc'[w] = "syncing_directory"
    BY <1>5 DEF Inductive, TypeOK
  <2>2. AbstractPhase(w)' = "effected"
    BY <2>1 DEF AbstractPhase
  <2>3. QED
    BY <1>1, <1>2, <1>3, <1>5, <2>2, Stutter
<1>6. QED
  BY <1>4, <1>5 DEF Sync

LEMMA SyncDirectoryMaps ==
  ASSUME Inductive, Inductive', NEW w \in Writers, SyncDirectory(w)
  PROVE  Promise!Fail(w) \/ Promise!Succeed(w)
<1>1. \A v \in Writers \ {w} : pc'[v] = pc[v] /\ call'[v] = call[v]
  BY OthersStay
<1>2. pc[w] = "syncing_directory" /\ call' = call /\ file' = file
      /\ Return(w, "committed")
  BY DEF SyncDirectory, Report
<1>3. APhase[w] = "effected"
  BY <1>2 DEF AbstractPhase, APhase
<1>4. IF cancelled[w] THEN Promise!Fail(w) ELSE Promise!Return(w, "committed")
  BY <1>1, <1>2, LeaveMaps
<1>5. QED
  BY <1>3, <1>4 DEF Promise!Succeed, APhase

LEMMA GiveUpMaps ==
  ASSUME Inductive, Inductive', NEW w \in Writers, GiveUp(w)
  PROVE  Promise!Fail(w)
<1>1. \A v \in Writers \ {w} : pc'[v] = pc[v] /\ call'[v] = call[v]
  BY OthersStay
<1>2. pc[w] = "locking" /\ file' = file /\ Return(w, "failed")
  BY DEF GiveUp
<1>3. APhase[w] = "called"
  BY <1>2 DEF AbstractPhase, APhase
<1>4. IF cancelled[w] THEN Promise!Fail(w) ELSE Promise!Return(w, "failed")
  BY <1>1, <1>2, LeaveMaps
<1>5. QED
  BY <1>3, <1>4 DEF Promise!Fail, APhase

(* A killed process's call fails without an answer. *)
LEMMA KillMaps ==
  ASSUME Inductive, Inductive', NEW w \in Writers, Kill(w)
  PROVE  Promise!Fail(w) \/ UNCHANGED Promise!vars
<1>1. \A v \in Writers \ {w} : pc'[v] = pc[v] /\ call'[v] = call[v]
  BY OthersStay
<1>2. /\ pc[w] # "down" /\ pc'[w] = "down" /\ file' = file
      /\ outcome' = [outcome EXCEPT ![w] = IF pc[w] = "idle" THEN @ ELSE "failed"]
  BY DEF Kill, Inductive, TypeOK
<1>3. AbstractPhase(w)' = "idle"
  BY <1>2 DEF AbstractPhase
<1>4. CASE pc[w] = "idle"
  <2>1. AbstractPhase(w) = "idle"
    BY <1>4 DEF AbstractPhase
  <2>2. outcome' = outcome
    BY <1>2, <1>4 DEF Inductive, TypeOK
  <2>3. QED
    BY <1>1, <1>2, <1>3, <2>1, <2>2, Stutter
<1>5. CASE pc[w] # "idle"
  <2>1. APhase[w] # "idle"
    BY <1>2, <1>5 DEF AbstractPhase, APhase
  <2>2. outcome' = [outcome EXCEPT ![w] = "failed"]
    BY <1>2, <1>5
  <2>3. Promise!Return(w, "failed")
    BY <1>1, <1>2, <1>3, <2>2, ReturnMaps
  <2>4. QED
    BY <2>1, <2>3 DEF Promise!Fail, APhase
<1>6. QED
  BY <1>4, <1>5

LEMMA QuietMaps ==
  ASSUME Inductive, Inductive', NEW w \in Writers,
         Cancel(w) \/ Acquire(w) \/ Truncate(w) \/ Load(w)
  PROVE  UNCHANGED Promise!vars
<1>1. \A v \in Writers \ {w} : pc'[v] = pc[v] /\ call'[v] = call[v]
  BY OthersStay
<1>2. call' = call /\ outcome' = outcome
  BY DEF Cancel, Acquire, Truncate, Load
<1>3. file' = file
  BY TruncateKeepsFile DEF Cancel, Acquire, Load, state
<1>4. AbstractPhase(w)' = AbstractPhase(w)
  BY DEF Cancel, Acquire, Truncate, Load, Goto, AbstractPhase, Inductive, TypeOK
<1>5. QED
  BY <1>1, <1>2, <1>3, <1>4, Stutter

(* Unless power is lost, the JSONL store keeps the promise of the seam. *)
THEOREM StoreImplementsPromise ==
  ASSUME MaxPowerLosses = 0
  PROVE  Spec => ImplementsPromise
<1>1. Inductive /\ Inductive' /\ [Next]_vars => [Promise!Next]_(Promise!vars)
  <2> SUFFICES ASSUME Inductive, Inductive', [Next]_vars
               PROVE  [Promise!Next]_(Promise!vars)
    OBVIOUS
  <2>1. ASSUME NEW w \in Writers,
               \/ Begin(w) \/ Cancel(w) \/ Acquire(w) \/ GiveUp(w) \/ ReadIndex(w)
               \/ Truncate(w) \/ AppendLine(w) \/ Sync(w) \/ SyncDirectory(w)
               \/ Load(w) \/ Kill(w)
        PROVE  \/ Promise!Call(w) \/ Promise!Record(w) \/ Promise!Repeat(w)
               \/ Promise!Succeed(w) \/ Promise!Conflict(w) \/ Promise!Fail(w)
               \/ UNCHANGED Promise!vars
    BY <2>1, BeginMaps, GiveUpMaps, ReadIndexMaps, AppendLineMaps, SyncMaps,
       SyncDirectoryMaps, KillMaps, QuietMaps
  <2>2. CASE UNCHANGED vars
    BY <2>2 DEF vars, Promise!vars, Log, AbstractPhase
  <2>3. ~PowerLoss
    BY DEF PowerLoss, Inductive, TypeOK
  <2>4. QED
    BY <2>1, <2>2, <2>3 DEF Next, Promise!Next
<1>2. QED
  BY <1>1, PromiseInit, InductiveHolds, PTL DEF Spec, ImplementsPromise, Promise!Spec

=============================================================================
