------------------------------ MODULE Evidence ------------------------------
(* WorkspaceEvidenceSource and CommandEvidenceSource (evaluation/workspace.py)
   over FileEvidenceSource (evaluation/sources.py): the reads of one Run while
   others write, delete and create the files.

   A read looks at the files one after another, twice; a command read runs the
   host's command in between, or returns what it has cached for the revision of
   the first look.  A revision is the stat signature of each file or "absent".
   The signature (inode, size, mtime, ctime) is taken to be new with every
   change, which the clock of a file system may be too coarse for.  The command opens each file at a time of its
   own.                                                                       *)
EXTENDS Integers, SequencesExt

CONSTANTS
  Paths,          \* the workspace's paths, in their order
  Missing,        \* the revision of a file that is not there
  Unseen,         \* not looked at yet
  MaxChanges,     \* bound on the changes of one file
  MaxInvalidations, \* bound on the host's invalidate() calls
  MaxReads        \* bound on the reads of the Run

ASSUME EvidenceAssumption ==
  /\ IsInjective(Paths) /\ Paths # <<>>
  /\ Missing \notin Nat /\ Unseen \notin Nat \cup {Missing}
  /\ MaxChanges \in Nat /\ MaxInvalidations \in Nat /\ MaxReads \in Nat

Names == ToSet(Paths)
Signatures == Nat \cup {Missing}

VARIABLES
  disk,       \* each file: the signature it has, and how often it changed
  generation, \* _generation
  cache,      \* the Run's entry of _cache, Unseen if none
  doing,      \* "idle", or the step of the read in progress
  command,    \* the read is one of the command source
  look,       \* what the look in progress has seen
  before,     \* what the first look saw, with the generation at its end
  output,     \* the files as the command saw them, and when it began
  served,     \* what the last read returned, Unseen if it failed
  reads,      \* reads begun
  moments     \* history: the disk at every instant of the read

evidenceVars == <<disk, generation, cache, doing, command, look, before, output, served,
                  reads, moments>>

Blank == [p \in Names |-> Unseen]
Signature(p) == disk[p].signature
Disk == [p \in Names |-> Signature(p)]

EvidenceInit ==
  /\ disk \in {[p \in Names |-> [signature |-> s, changes |-> 0]] : s \in {0, Missing}}
  /\ generation = 0
  /\ cache = Unseen
  /\ doing = "idle" /\ command = FALSE
  /\ look = Blank /\ before = Unseen /\ output = Unseen /\ served = Unseen
  /\ reads = 0 /\ moments = {}

(* someone writes, replaces, creates or deletes a file; the command is
   observational *)
ChangeFile(p) ==
  /\ disk[p].changes < MaxChanges
  /\ \E s \in {disk[p].changes + 1, Missing} :
       /\ s # Signature(p)
       /\ disk' = [disk EXCEPT ![p] = [signature |-> s, changes |-> @.changes + 1]]
  /\ moments' = IF doing = "idle" \/ command THEN moments
                 ELSE moments \cup {[Disk EXCEPT ![p] = disk'[p].signature]}
  /\ UNCHANGED <<generation, cache, doing, command, look, before, output, served, reads>>

Invalidate ==
  /\ generation < MaxInvalidations
  /\ generation' = generation + 1
  /\ cache' = Unseen
  /\ UNCHANGED <<disk, doing, command, look, before, output, served, reads, moments>>

BeginRead ==
  /\ doing = "idle" /\ reads < MaxReads
  /\ command' \in BOOLEAN
  /\ doing' = "first" /\ served' = Unseen
  /\ reads' = reads + 1 /\ moments' = IF command' THEN {} ELSE {Disk}
  /\ UNCHANGED <<disk, generation, cache, look, before, output>>

EndRead == doing' = "idle" /\ look' = Blank /\ before' = Unseen /\ output' = Unseen

(* the next path of the look; FileEvidenceSource stats the file on both sides
   of its read, so that it has one signature or is unavailable *)
LookAt(p) ==
  /\ doing \in {"first", "second"}
  /\ look[p] = Unseen
  /\ \A k \in 1..Len(Paths) : look[Paths[k]] = Unseen =>
       \E j \in 1..k : Paths[j] = p
  /\ look' = [look EXCEPT ![p] = Signature(p)]
  /\ UNCHANGED <<disk, generation, cache, doing, command, before, output, served, reads,
                 moments>>

RevisionOfFiles == [files |-> look, generation |-> 0]  \* mutant: no generation in it

(* what revision() fingerprints: the files, and at the end of the look the
   generation *)
Revision == [files |-> look, generation |-> IF command THEN generation ELSE 0]

Seen == \A p \in Names : look[p] # Unseen

Cached == command /\ cache # Unseen /\ cache.revision = Revision

(* the first look is complete; the cache answers if it holds this revision *)
FirstLook ==
  /\ doing = "first" /\ Seen
  /\ IF Cached
       THEN EndRead /\ served' = [cache EXCEPT !.now = generation]
       ELSE /\ doing' = IF command THEN "running" ELSE "second"
            /\ look' = Blank /\ before' = Revision
            /\ output' = IF command THEN [files |-> Blank, began |-> generation] ELSE Unseen
            /\ UNCHANGED served
  /\ UNCHANGED <<disk, generation, cache, command, reads, moments>>

(* the command opens a file *)
CommandOpens(p) ==
  /\ doing = "running" /\ output.files[p] = Unseen
  /\ output' = [output EXCEPT !.files[p] = Signature(p)]
  /\ UNCHANGED <<disk, generation, cache, doing, command, look, before, served, reads, moments>>

CommandEnds ==
  /\ doing = "running" /\ \A p \in Names : output.files[p] # Unseen
  /\ doing' = "second"
  /\ UNCHANGED <<disk, generation, cache, command, look, before, output, served, reads,
                 moments>>

Unchanged == before = Revision

(* the second look is complete: the same revision, or nothing is returned *)
SecondLook ==
  /\ doing = "second" /\ Seen
  /\ IF Unchanged
       THEN /\ served' = [revision |-> Revision, output |-> output, now |-> generation]
            /\ cache' = IF command THEN served' ELSE cache
       ELSE UNCHANGED <<served, cache>>
  /\ EndRead
  /\ UNCHANGED <<disk, generation, command, reads, moments>>

(* cancelled, too slow (the command's process group is killed), too large, not
   UTF-8 or changed while it was read: EvidenceUnavailable *)
Unavailable ==
  /\ doing # "idle"
  /\ EndRead
  /\ UNCHANGED <<disk, generation, cache, command, served, reads, moments>>

CloseEvidence ==
  /\ doing = "idle" /\ cache # Unseen
  /\ cache' = Unseen
  /\ UNCHANGED <<disk, generation, doing, command, look, before, output, served, reads,
                 moments>>

EvidenceNext ==
  \/ \E p \in Names : ChangeFile(p) \/ LookAt(p) \/ CommandOpens(p)
  \/ Invalidate \/ BeginRead \/ FirstLook \/ CommandEnds \/ SecondLook
  \/ Unavailable \/ CloseEvidence

EvidenceSpec == EvidenceInit /\ [][EvidenceNext]_evidenceVars

-----------------------------------------------------------------------------
(* Every variable stays in the range the code gives it. *)
EvidenceTypeOK ==
  /\ disk \in [Names -> [signature : Signatures, changes : Nat]]
  /\ generation \in Nat /\ reads \in Nat /\ command \in BOOLEAN
  /\ doing \in {"idle", "first", "second", "running"}
  /\ look \in [Names -> Signatures \cup {Unseen}]

(* A command's output is served, cached or not, only for the revision its
   command saw: of every file that exists in it the very version, and no
   invalidation since it began. *)
CommandOutputIsCurrent ==
  served # Unseen /\ command =>
    /\ served.output.began = served.now
    /\ \A p \in Names : served.revision.files[p] # Missing =>
         served.output.files[p] = served.revision.files[p]

(* A workspace read shows all the files that exist in it as they were at one
   moment of the read. *)
WorkspaceReadIsOneMoment ==
  served # Unseen /\ ~command =>
    \E m \in moments : \A p \in Names :
      served.revision.files[p] # Missing => m[p] = served.revision.files[p]

(* What a read returns is of the revision it is returned with. *)
ReadsAreConsistent == CommandOutputIsCurrent /\ WorkspaceReadIsOneMoment
=============================================================================
