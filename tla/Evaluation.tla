----------------------------- MODULE Evaluation -----------------------------
(* GoalEvaluator (evaluation/engine.py): one Run's evaluations of its plan
   against an environment that others change all the time.

   An evaluation brackets its reads between two barriers of revision checks,
   lets the verifiers judge what was read, and checks the revisions a third
   time.  The tasks of a barrier run concurrently: todo holds those that have
   not answered.  asyncio.Lock serializes the evaluations of a Run, so one at a
   time is modelled.  A verdict that is known is cached with the evidence it
   rests on.  The environment is external: a source answers with the value it
   has at one instant, and its revision is what its class makes of it.        *)
EXTENDS Integers, FiniteSets

CONSTANTS
  Sources,        \* keys bound to an EvidenceSource
  Files,          \* those of them that are a FileEvidenceSource
  Completion,     \* the reserved key "$completion"
  Criteria,       \* requirements and constraints of the plan
  Needs,          \* evidence_keys of each of them
  CompletionOnly, \* criteria that are scheduled for the completion audit
  Semantic,       \* criteria the model judge decides
  Guarded,        \* those of them that have a guard_method
  Present, Absent, \* the values a file_exists rule tells apart
  None,
  MaxVersion,     \* bound on the changes of one source
  MaxEvaluations  \* bound on the checkpoints of the Run

Keys == Sources \cup {Completion}
Values == {Present, Absent}
Versions == 0 .. MaxVersion
Revisions == Versions \cup Values

ASSUME EvaluationAssumption ==
  /\ Files \subseteq Sources
  /\ Completion \notin Sources
  /\ Needs \in [Criteria -> (SUBSET Keys) \ {{}}]
  /\ CompletionOnly \subseteq Criteria
  /\ Semantic \subseteq Criteria
  /\ Guarded \subseteq Semantic
  /\ Present # Absent
  /\ MaxVersion \in Nat /\ MaxEvaluations \in Nat
  /\ Values \cap Versions = {}
  /\ None \notin Revisions
  /\ None \notin [revision : Revisions, value : Values]

Statuses == {"pass", "fail", "unknown", "conflict"}
Known == {"pass", "fail"}
Barriers == {"before", "after", "final"}
Working == Barriers \cup {"read", "verify", "publish"}

VARIABLES
  env,         \* what each source is at this instant, and how often it changed
  pc,          \* where the evaluation is
  completion,  \* signal.trigger is COMPLETION_PROPOSED
  candidate,   \* signal.completion_candidate, None if missing or truncated
  todo,        \* keys or criteria whose task has not ended
  rev,         \* the revisions each barrier saw
  snapshots,   \* the evidence read
  diagnostics, \* keys without evidence
  status,      \* what was found of each criterion
  report,      \* what _evaluate returned
  cache,       \* _RunState.cache
  previous,    \* evidence of _RunState.previous, all that is looked at again
  evaluations, \* evaluations begun, for MaxEvaluations
  instants,    \* history: what the sources were since the evaluation began
  verified,    \* history: what they were when the last verifier ended
  believed     \* history: facts published and not retracted since, None if unknown

locals == <<completion, candidate, todo, rev, snapshots, diagnostics, status>>
runState == <<cache, previous>>
history == <<instants, verified, believed>>
vars == <<env, pc, locals, report, runState, evaluations, history>>

Snapshots == [revision : Revisions, value : Values]
Refs == Keys \X Values
Dependencies == UNION {[S -> Snapshots] : S \in SUBSET Keys}
Reports ==
  [evidence : [Keys -> Snapshots \cup {None}], status : [Criteria -> Statuses],
   complete : BOOLEAN, completion : BOOLEAN, invalidated : SUBSET Refs]

ASSUME NoneAssumption == None \notin Reports

Nothing == [k \in Keys |-> None]
Unread == [b \in Barriers |-> Nothing]
Pending == [c \in Criteria |-> None]
Now == [k \in Sources |-> env[k].value]

----------------------------------------------------------------------------
(* Criteria and rules *)

Active(c) == c \notin CompletionOnly \/ completion

ActiveKeys == UNION {Needs[c] : c \in {d \in Criteria : Active(d)}}

Cited(evidence) == {k \in Keys : evidence[k] # None}

Ref(evidence, k) == <<k, evidence[k].value>>

(* file_exists: absence is evidence of failure *)
Rule(c, evidence) ==
  IF \A k \in Needs[c] : evidence[k].value = Present THEN "pass" ELSE "fail"

(* a rule or guard may time out or lack evidence; a judge may answer anything *)
Answers(c) ==
  LET found == Rule(c, snapshots)
  IN CASE c \notin Semantic                  -> {found, "unknown"}
       [] c \in Guarded /\ found # "pass"    -> {found, "unknown"}
       [] OTHER                              -> Statuses

(* the revision a source answers: FileEvidenceSource says "absent" of any
   missing file, the contract of the others is one revision per change *)
Revision(k) ==
  IF k \in Files /\ env[k].value = Absent THEN Absent ELSE env[k].version

----------------------------------------------------------------------------
Init ==
  /\ env \in [Sources -> [version : {0}, value : Values]]
  /\ pc = "idle"
  /\ completion = FALSE /\ candidate = None
  /\ todo = {} /\ rev = Unread /\ snapshots = Nothing /\ diagnostics = {}
  /\ status = Pending
  /\ report = None
  /\ cache = Pending /\ previous = Nothing
  /\ evaluations = 0
  /\ instants = {} /\ verified = None /\ believed = {}

(* someone changes what a source observes, or writes the same again *)
Change(k) ==
  /\ env[k].version < MaxVersion
  /\ \E v \in Values :
       /\ k \in Files /\ env[k].value = Absent => v = Present
       /\ env' = [env EXCEPT ![k] = [version |-> @.version + 1, value |-> v]]
  /\ instants' = IF pc \in Working THEN instants \cup {[Now EXCEPT ![k] = env'[k].value]}
                                   ELSE instants
  /\ UNCHANGED <<pc, locals, report, runState, evaluations, verified, believed>>

(* evaluate(): the lock is taken, the keys of the active criteria are listed *)
Begin ==
  /\ pc = "idle" /\ evaluations < MaxEvaluations
  /\ completion' \in BOOLEAN
  /\ candidate' \in IF completion' THEN Values \cup {None} ELSE {None}
  /\ pc' = "before" /\ todo' = ActiveKeys' \cap Sources
  /\ evaluations' = evaluations + 1
  /\ instants' = {Now}
  /\ UNCHANGED <<env, rev, snapshots, diagnostics, status, report, runState, verified,
                 believed>>

(* revision(key, target) of one of the three barriers; that of "$completion"
   returns at once, and nobody looks at one of a key with a diagnostic *)
CheckRevision(k) ==
  /\ pc \in Barriers /\ k \in todo
  /\ todo' = todo \ {k}
  /\ \/ /\ k \notin diagnostics
        /\ rev' = [rev EXCEPT ![pc][k] = Revision(k)]
        /\ UNCHANGED diagnostics
     \/ /\ diagnostics' = diagnostics \cup {k}
        /\ UNCHANGED rev
  /\ UNCHANGED <<env, pc, completion, candidate, snapshots, status, report,
                 runState, evaluations, history>>

(* reading "$completion" takes no await; a key with a diagnostic is not read *)
StartReads ==
  /\ pc = "before" /\ todo = {}
  /\ pc' = "read" /\ todo' = (ActiveKeys \cap Sources) \ diagnostics
  /\ \/ /\ Completion \notin ActiveKeys
        /\ UNCHANGED <<snapshots, diagnostics>>
     \/ /\ Completion \in ActiveKeys /\ candidate = None
        /\ diagnostics' = diagnostics \cup {Completion}
        /\ UNCHANGED snapshots
     \/ /\ Completion \in ActiveKeys /\ candidate # None
        /\ snapshots' = [snapshots EXCEPT
                           ![Completion] = [revision |-> candidate, value |-> candidate]]
        /\ UNCHANGED diagnostics
  /\ UNCHANGED <<env, completion, candidate, rev, status, report, runState,
                 evaluations, history>>

(* read(key): a bounded snapshot, or none *)
Read(k) ==
  /\ pc = "read" /\ k \in todo
  /\ todo' = todo \ {k}
  /\ \/ /\ snapshots' = [snapshots EXCEPT
                           ![k] = [revision |-> Revision(k), value |-> env[k].value]]
        /\ UNCHANGED diagnostics
     \/ /\ diagnostics' = diagnostics \cup {k}
        /\ UNCHANGED snapshots
  /\ UNCHANGED <<env, pc, completion, candidate, rev, status, report, runState,
                 evaluations, history>>

StartRecheck ==
  /\ pc = "read" /\ todo = {}
  /\ pc' = "after" /\ todo' = ActiveKeys \cap Sources
  /\ UNCHANGED <<env, completion, candidate, rev, snapshots, diagnostics, status,
                 report, runState, evaluations, history>>

RacedNever == FALSE  \* mutant: the check after verification is taken for enough
Raced ==
  \E k \in Sources \ diagnostics :
    /\ snapshots[k] # None
    /\ rev["before"][k] # rev["after"][k] \/ snapshots[k].revision # rev["after"][k]

(* a race of one key spoils the whole evidence set; the revisions seen so far
   are of no further use *)
StartVerifiers ==
  /\ pc = "after" /\ todo = {}
  /\ pc' = "verify" /\ todo' = Criteria
  /\ diagnostics' = IF Raced THEN ActiveKeys ELSE diagnostics
  /\ snapshots' = [k \in Keys |-> IF k \in diagnostics' THEN None ELSE snapshots[k]]
  /\ rev' = Unread
  /\ UNCHANGED <<env, completion, candidate, status, report, runState,
                 evaluations, history>>

Keeps(s) == s \in Known

Missing(c) == Needs[c] \ Cited(snapshots)
DependenciesOf(c) == [k \in Needs[c] |-> snapshots[k]]

HitAnyVersion(c) == cache[c] # None  \* mutant: the evidence is not compared
Hit(c) == cache[c] # None /\ cache[c].evidence = DependenciesOf(c)

(* verify(item): scheduled for later, unavailable, cached, or judged *)
Verify(c) ==
  /\ pc = "verify" /\ c \in todo
  /\ todo' = todo \ {c}
  /\ \/ /\ ~Active(c)
        /\ status' = [status EXCEPT ![c] = "unknown"]
        /\ UNCHANGED cache
     \/ /\ Active(c) /\ Missing(c) # {}
        /\ status' = [status EXCEPT ![c] = "unknown"]
        /\ cache' = [cache EXCEPT ![c] = None]
     \/ /\ Active(c) /\ Missing(c) = {} /\ Hit(c)
        /\ status' = [status EXCEPT ![c] = cache[c].status]
        /\ UNCHANGED cache
     \/ /\ Active(c) /\ Missing(c) = {} /\ ~Hit(c)
        /\ \E s \in Answers(c) :
             /\ status' = [status EXCEPT ![c] = s]
             /\ cache' = [cache EXCEPT ![c] =
                  IF Keeps(s) THEN [evidence |-> DependenciesOf(c), status |-> s]
                                 ELSE None]
  /\ UNCHANGED <<env, pc, completion, candidate, rev, snapshots, diagnostics, report,
                 previous, evaluations, history>>

StartFinalCheck ==
  /\ pc = "verify" /\ todo = {}
  /\ pc' = "final" /\ todo' = Cited(snapshots) \cap Sources
  /\ verified' = Now
  /\ UNCHANGED <<env, completion, candidate, rev, snapshots, diagnostics, status,
                 report, runState, evaluations, instants, believed>>

StaleIfUnavailable ==  \* mutant: the final revisions are not compared
  \E k \in Sources : snapshots[k] # None /\ k \in diagnostics

Stale ==
  \E k \in Sources :
    snapshots[k] # None
      /\ (k \in diagnostics \/ rev["final"][k] # snapshots[k].revision)

InvalidatedByValue(evidence) ==  \* mutant: the same content is the same fact
  {Ref(previous, k) : k \in {j \in Cited(previous) :
     evidence[j] = None \/ evidence[j].value # previous[j].value}}

(* facts of the previous report that these snapshots do not confirm *)
Invalidated(evidence) ==
  {Ref(previous, k) : k \in {j \in Cited(previous) : evidence[j] # previous[j]}}

Forget ==
  /\ completion' = FALSE /\ candidate' = None /\ todo' = {} /\ rev' = Unread
  /\ snapshots' = Nothing /\ diagnostics' = {} /\ status' = Pending

(* the last barrier is over: _evaluate returns its report *)
Conclude ==
  /\ pc = "final" /\ todo = {}
  /\ LET evidence == IF Stale THEN Nothing ELSE snapshots
         found == IF Stale THEN [c \in Criteria |-> "unknown"] ELSE status
     IN /\ report' =
             [evidence |-> evidence, status |-> found,
              complete |-> /\ Cited(evidence) # {} /\ ~Stale /\ diagnostics = {}
                           /\ \A c \in Criteria : Active(c) => found[c] \in Known,
              completion |-> completion,
              invalidated |-> Invalidated(evidence)]
  /\ cache' = IF Stale THEN Pending ELSE cache
  /\ pc' = "publish"
  /\ Forget
  /\ UNCHANGED <<env, previous, evaluations, history>>

Facts(evidence) == {<<k, evidence[k]>> : k \in Cited(evidence)}

(* what a reader behind the sink takes for current *)
Believed(r) ==
  IF believed = None THEN None
  ELSE {f \in believed : <<f[1], f[2].value>> \notin r.invalidated} \cup Facts(r.evidence)

Return == pc' = "idle" /\ report' = None /\ instants' = {} /\ verified' = None

(* the sink has taken the report, and then it is the latest one *)
Publish ==
  /\ pc = "publish"
  /\ previous' = report.evidence /\ believed' = Believed(report)
  /\ Return
  /\ UNCHANGED <<env, locals, cache, evaluations>>

(* the sink raises: evaluate() raises, the latest report stays *)
SinkFails ==
  /\ pc = "publish"
  /\ Return
  /\ UNCHANGED <<env, locals, runState, evaluations, believed>>

(* the report of an evaluation that was broken off *)
Interrupted ==
  [evidence |-> Nothing, status |-> [c \in Criteria |-> "unknown"],
   complete |-> FALSE, completion |-> completion,
   invalidated |-> Invalidated(Nothing)]

(* a cancellation, a broken integration or an undeclared error at any await; the
   sink is told, and what it raises is swallowed: then its reader has missed a
   report, and what he believes is not followed any further *)
Interrupt ==
  /\ pc \in Working
  /\ previous' = Interrupted.evidence
  /\ believed' \in {Believed(Interrupted), None}
  /\ Return /\ Forget
  /\ UNCHANGED <<env, cache, evaluations>>

(* close_run(): refused while an evaluation holds the lock *)
Close ==
  /\ pc = "idle"
  /\ pc' = "closed"
  /\ cache' = Pending /\ previous' = Nothing
  /\ believed' = {}
  /\ UNCHANGED <<env, locals, report, evaluations, instants, verified>>

Next ==
  \/ \E k \in Sources : Change(k)
  \/ Begin
  \/ \E k \in Sources : CheckRevision(k) \/ Read(k)
  \/ StartReads \/ StartRecheck \/ StartVerifiers
  \/ \E c \in Criteria : Verify(c)
  \/ StartFinalCheck \/ Conclude
  \/ Publish \/ SinkFails \/ Interrupt \/ Close

Spec == Init /\ [][Next]_vars

----------------------------------------------------------------------------
(* Every variable stays in its range. *)
TypeOK ==
  /\ env \in [Sources -> [version : Versions, value : Values]]
  /\ pc \in Working \cup {"idle", "closed"}
  /\ completion \in BOOLEAN /\ candidate \in Values \cup {None}
  /\ todo \in (SUBSET Keys) \cup (SUBSET Criteria)
  /\ rev \in [Barriers -> [Keys -> Revisions \cup {None}]]
  /\ snapshots \in [Keys -> Snapshots \cup {None}]
  /\ diagnostics \subseteq Keys
  /\ status \in [Criteria -> Statuses \cup {None}]
  /\ report \in Reports \cup {None}
  /\ previous \in [Keys -> Snapshots \cup {None}]
  /\ (report # None) <=> (pc = "publish")
  /\ \A c \in Criteria : cache[c] # None =>
       cache[c] \in [evidence : [Needs[c] -> Snapshots], status : Known]
  /\ DOMAIN cache = Criteria
  /\ evaluations \in 0 .. MaxEvaluations
  /\ instants \subseteq [Sources -> Values]
  /\ verified \in [Sources -> Values] \cup {None}
  /\ believed \in (SUBSET (Keys \X Snapshots)) \cup {None}

(* What a file source cannot tell apart by its revision. *)
Recurring(k, snapshot) == k \in Files /\ snapshot.value = Absent

(* All evidence a verifier is given was true at one instant of this
   evaluation, however the sources changed between their reads ("an
   inconsistent snapshot remains unknown", docs/evaluation.md:79).  Nothing is
   read any more from here on: the first state of this phase, where instants
   ends with the reads, decides. *)
VerifiersSeeOneMoment ==
  pc = "verify" =>
    \E now \in instants :
      \A k \in Sources : snapshots[k] # None => now[k] = snapshots[k].value

(* The evidence of a report was still true when the last verifier ended: a
   slow verifier does not certify what changed meanwhile. *)
VerdictsAreCurrent ==
  pc = "publish" =>
    \A k \in Sources :
      LET snapshot == report.evidence[k]
      IN snapshot # None /\ ~Recurring(k, snapshot) => verified[k] = snapshot.value

(* A known verdict, also one from the cache of an earlier evaluation, is what
   the rule finds in the evidence of the very report that carries it; a guard
   keeps the judge from passing what it refuses. *)
VerdictsFollowTheRules ==
  pc = "publish" =>
    \A c \in Criteria : report.status[c] \in Known =>
      /\ Needs[c] \subseteq Cited(report.evidence)
      /\ c \notin Semantic => Rule(c, report.evidence) = report.status[c]
      /\ c \in Guarded /\ report.status[c] = "pass" => Rule(c, report.evidence) = "pass"

(* A reader that adds the evidence of each report and drops what it
   invalidates holds exactly the evidence of the latest report: no fact
   outlives its source, also over interrupted evaluations, unless the sink
   refused the report of one. *)
FactsAreRetracted == believed # None => believed = Facts(previous)

(* All evidence of a complete report was true at one instant between the begin
   of its evaluation and its publication, whatever the sources are
   (docs/evaluation.md:76-79: revisions change also when a mutation restores
   previous content, an inconsistent snapshot is unknown). *)
ReportsShowOneMoment ==
  pc = "publish" /\ report.complete =>
    \E now \in instants :
      \A k \in Sources : report.evidence[k] # None => now[k] = report.evidence[k].value
=============================================================================
