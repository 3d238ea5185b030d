-------------------------- MODULE EvaluationProofs --------------------------
(***************************************************************************)
(* Proofs about Evaluation, for any plan, any number of sources, changes   *)
(* and checkpoints.                                                        *)
(***************************************************************************)
EXTENDS Evaluation, TLAPS

(* What the variables are in each phase, beyond their types. *)
Phases ==
  /\ pc \in Barriers \cup {"read"} => todo \subseteq Sources
  /\ pc = "verify" =>
       /\ todo \subseteq Criteria
       /\ \A c \in Criteria \ todo : status[c] \in Statuses
  /\ pc = "final" => status \in [Criteria -> Statuses] /\ verified \in [Sources -> Values]

Typed == TypeOK /\ Phases

LEMMA RevisionType ==
  ASSUME TypeOK, NEW k \in Sources
  PROVE  Revision(k) \in Revisions /\ env[k].value \in Values /\ env[k].version \in Versions
BY DEF TypeOK, Revision, Revisions

LEMMA NowType == TypeOK => Now \in [Sources -> Values]
BY DEF TypeOK, Now

LEMMA NothingType ==
  /\ Nothing \in [Keys -> Snapshots \cup {None}]
  /\ Unread \in [Barriers -> [Keys -> Revisions \cup {None}]]
  /\ Pending \in [Criteria -> Statuses \cup {None}]
BY DEF Nothing, Unread, Pending

LEMMA RefsType ==
  ASSUME TypeOK, NEW evidence
  PROVE  Invalidated(evidence) \subseteq Refs
<1> SUFFICES ASSUME NEW k \in Cited(previous) PROVE Ref(previous, k) \in Refs
  BY DEF Invalidated
<1>1. k \in Keys /\ previous[k] \in Snapshots
  BY DEF Cited, TypeOK
<1>2. QED
  BY <1>1 DEF Ref, Refs, Snapshots

LEMMA AnswersType == \A c : Answers(c) \subseteq Statuses
<1>1. \A c, e : Rule(c, e) \in Statuses
  BY DEF Rule, Statuses
<1>2. QED
  BY <1>1 DEF Answers, Statuses

LEMMA BelievedType ==
  ASSUME TypeOK, NEW r, r.evidence \in [Keys -> Snapshots \cup {None}]
  PROVE  Believed(r) \in (SUBSET (Keys \X Snapshots)) \cup {None}
<1>1. Facts(r.evidence) \subseteq Keys \X Snapshots
  <2> SUFFICES ASSUME NEW k \in Cited(r.evidence)
               PROVE  <<k, r.evidence[k]>> \in Keys \X Snapshots
    BY DEF Facts
  <2>1. QED
    BY DEF Cited
<1>2. QED
  BY <1>1 DEF Believed, TypeOK

LEMMA InitTyped == Init => Typed
<1> SUFFICES ASSUME Init PROVE Typed
  OBVIOUS
<1>1. 0 \in Versions /\ 0 \in 0 .. MaxEvaluations
  BY EvaluationAssumption DEF Versions
<1>2. env \in [Sources -> [version : Versions, value : Values]]
  BY <1>1 DEF Init
<1>3. Pending \in [Criteria -> Statuses \cup {None}] /\ DOMAIN Pending = Criteria
      /\ \A c \in Criteria : Pending[c] = None
  BY DEF Pending
<1>4. TypeOK
  BY <1>1, <1>2, <1>3, NothingType DEF Init, TypeOK, Facts
<1>5. Phases
  BY DEF Init, Phases, Barriers
<1>6. QED
  BY <1>4, <1>5 DEF Typed

LEMMA ActiveKeysType == ActiveKeys \subseteq Keys
<1>1. \A c \in Criteria : Needs[c] \subseteq Keys
  BY EvaluationAssumption
<1>2. QED
  BY <1>1 DEF ActiveKeys

(* Each action keeps the types. *)
LEMMA ChangeTyped ==
  ASSUME Typed, NEW k \in Sources, Change(k)
  PROVE  Typed'
<1>1. env' \in [Sources -> [version : Versions, value : Values]]
  <2>1. PICK v \in Values :
          env' = [env EXCEPT ![k] = [version |-> @.version + 1, value |-> v]]
    BY DEF Change
  <2>2. env[k].version + 1 \in Versions
    BY EvaluationAssumption DEF Change, Typed, TypeOK, Versions
  <2>3. QED
    BY <2>1, <2>2 DEF Typed, TypeOK
<1>2. instants' \subseteq [Sources -> Values]
  <2>1. [Now EXCEPT ![k] = env'[k].value] \in [Sources -> Values]
    BY <1>1, NowType DEF Typed
  <2>2. QED
    BY <2>1 DEF Change, Typed, TypeOK
<1>3. UNCHANGED <<pc, completion, candidate, todo, rev, snapshots, diagnostics, status,
                  report, cache, previous, evaluations, verified, believed>>
  BY DEF Change, locals, runState
<1>4. QED
  BY <1>1, <1>2, <1>3 DEF Typed, TypeOK, Phases

LEMMA BeginTyped ==
  ASSUME Typed, Begin
  PROVE  Typed'
<1>1. todo' \subseteq Sources /\ todo' \in SUBSET Keys
  BY DEF Begin, Keys
<1>2. instants' \subseteq [Sources -> Values]
  BY NowType DEF Begin, Typed
<1>3. evaluations' \in 0 .. MaxEvaluations
  BY EvaluationAssumption DEF Begin, Typed, TypeOK
<1>4. completion' \in BOOLEAN /\ candidate' \in Values \cup {None}
  BY DEF Begin
<1>5. QED
  BY <1>1, <1>2, <1>3, <1>4 DEF Begin, Typed, TypeOK, Phases, Barriers, Working, runState

LEMMA CheckRevisionTyped ==
  ASSUME Typed, NEW k \in Sources, CheckRevision(k)
  PROVE  Typed'
<1>1. pc \in Barriers /\ todo' \subseteq todo /\ diagnostics' \subseteq Keys
  BY DEF CheckRevision, Typed, TypeOK, Keys
<1>2. todo' \subseteq Sources /\ todo' \in SUBSET Keys
  BY <1>1 DEF Typed, Phases, Keys
<1>3. rev' \in [Barriers -> [Keys -> Revisions \cup {None}]]
  <2>1. CASE rev' = [rev EXCEPT ![pc][k] = Revision(k)]
    <3>1. Revision(k) \in Revisions /\ k \in Keys
      BY RevisionType DEF Typed, Keys
    <3>2. QED
      BY <1>1, <2>1, <3>1 DEF Typed, TypeOK
  <2>2. CASE UNCHANGED rev
    BY <2>2 DEF Typed, TypeOK
  <2>3. QED
    BY <2>1, <2>2 DEF CheckRevision
<1>4. QED
  BY <1>1, <1>2, <1>3 DEF CheckRevision, Typed, TypeOK, Phases, Barriers, runState, history

LEMMA StartReadsTyped ==
  ASSUME Typed, StartReads
  PROVE  Typed'
<1>1. todo' \subseteq Sources /\ todo' \in SUBSET Keys
  BY DEF StartReads, Keys
<1>2. diagnostics' \subseteq Keys
  BY DEF StartReads, Typed, TypeOK, Keys
<1>3. snapshots' \in [Keys -> Snapshots \cup {None}]
  <2>1. ASSUME candidate # None
        PROVE  [revision |-> candidate, value |-> candidate] \in Snapshots
    BY <2>1 DEF Typed, TypeOK, Snapshots, Revisions
  <2>2. QED
    BY <2>1 DEF StartReads, Typed, TypeOK
<1>4. QED
  BY <1>1, <1>2, <1>3 DEF StartReads, Typed, TypeOK, Phases, Working, Barriers, runState, history

LEMMA ReadTyped ==
  ASSUME Typed, NEW k \in Sources, Read(k)
  PROVE  Typed'
<1>1. todo' \subseteq todo /\ diagnostics' \subseteq Keys /\ pc = "read"
  BY DEF Read, Typed, TypeOK, Keys
<1>2. todo' \subseteq Sources /\ todo' \in SUBSET Keys
  BY <1>1 DEF Typed, Phases, Keys
<1>3. snapshots' \in [Keys -> Snapshots \cup {None}]
  <2>1. [revision |-> Revision(k), value |-> env[k].value] \in Snapshots
    BY RevisionType DEF Typed, Snapshots
  <2>2. QED
    BY <2>1 DEF Read, Typed, TypeOK
<1>4. QED
  BY <1>1, <1>2, <1>3 DEF Read, Typed, TypeOK, Phases, Barriers, runState, history

LEMMA StartRecheckTyped ==
  ASSUME Typed, StartRecheck
  PROVE  Typed'
<1>1. todo' \subseteq Sources /\ todo' \in SUBSET Keys
  BY DEF StartRecheck, Keys
<1>2. QED
  BY <1>1 DEF StartRecheck, Typed, TypeOK, Phases, Working, Barriers, runState, history

LEMMA StartVerifiersTyped ==
  ASSUME Typed, StartVerifiers
  PROVE  Typed'
<1>1. diagnostics' \subseteq Keys
  BY ActiveKeysType DEF StartVerifiers, Typed, TypeOK
<1>2. snapshots' \in [Keys -> Snapshots \cup {None}]
  BY DEF StartVerifiers, Typed, TypeOK
<1>3. pc' = "verify" /\ todo' = Criteria /\ rev' = Unread
      /\ UNCHANGED <<env, completion, candidate, status, report, cache, previous,
                     evaluations, instants, verified, believed>>
      /\ pc = "after"
  BY DEF StartVerifiers, runState, history
<1>4. TypeOK'
  BY <1>1, <1>2, <1>3, NothingType DEF Typed, TypeOK, Working, Barriers
<1>5. Phases'
  BY <1>3 DEF Phases, Barriers
<1>6. QED
  BY <1>4, <1>5 DEF Typed

LEMMA VerifyTyped ==
  ASSUME Typed, NEW c \in Criteria, Verify(c)
  PROVE  Typed'
<1>1. /\ pc = "verify" /\ todo' = todo \ {c} /\ todo \subseteq Criteria
      /\ UNCHANGED <<env, pc, completion, candidate, rev, snapshots, diagnostics, report,
                     previous, evaluations, instants, verified, believed>>
  BY DEF Verify, Typed, Phases, history
<1>2. ASSUME Missing(c) = {} PROVE DependenciesOf(c) \in [Needs[c] -> Snapshots]
  <2>1. Needs[c] \subseteq Cited(snapshots)
    BY <1>2 DEF Missing
  <2>2. \A k \in Needs[c] : snapshots[k] \in Snapshots
    BY <2>1 DEF Cited, Typed, TypeOK
  <2>3. QED
    BY <2>2 DEF DependenciesOf
<1>3. /\ status' \in [Criteria -> Statuses \cup {None}]
      /\ status'[c] \in Statuses
      /\ \A d \in Criteria \ {c} : status'[d] = status[d]
  <2>1. PICK s \in Statuses : status' = [status EXCEPT ![c] = s]
    <3>1. CASE status' = [status EXCEPT ![c] = "unknown"]
      BY <3>1 DEF Statuses
    <3>2. CASE Missing(c) = {} /\ Hit(c) /\ status' = [status EXCEPT ![c] = cache[c].status]
      BY <3>2 DEF Hit, Typed, TypeOK, Known, Statuses
    <3>3. CASE \E s \in Answers(c) : status' = [status EXCEPT ![c] = s]
      BY <3>3, AnswersType
    <3>4. QED
      BY <3>1, <3>2, <3>3 DEF Verify
  <2>2. QED
    BY <2>1 DEF Typed, TypeOK
<1>4. /\ DOMAIN cache' = Criteria
      /\ \A d \in Criteria : cache'[d] # None =>
           cache'[d] \in [evidence : [Needs[d] -> Snapshots], status : Known]
  <2>1. CASE UNCHANGED cache
    BY <2>1 DEF Typed, TypeOK
  <2>2. CASE cache' = [cache EXCEPT ![c] = None]
    BY <2>2 DEF Typed, TypeOK
  <2>3. CASE /\ Missing(c) = {}
             /\ \E s \in Answers(c) :
                  cache' = [cache EXCEPT ![c] =
                    IF Keeps(s) THEN [evidence |-> DependenciesOf(c), status |-> s]
                                ELSE None]
    BY <1>2, <2>3 DEF Keeps, Typed, TypeOK
  <2>4. QED
    BY <2>1, <2>2, <2>3 DEF Verify
<1>5. QED
  BY <1>1, <1>3, <1>4 DEF Typed, TypeOK, Phases, Barriers

LEMMA StartFinalCheckTyped ==
  ASSUME Typed, StartFinalCheck
  PROVE  Typed'
<1>1. todo' \subseteq Sources /\ todo' \in SUBSET Keys
  BY DEF StartFinalCheck, Keys
<1>2. status \in [Criteria -> Statuses]
  BY DEF StartFinalCheck, Typed, TypeOK, Phases
<1>3. QED
  BY <1>1, <1>2, NowType
  DEF StartFinalCheck, Typed, TypeOK, Phases, Working, Barriers, runState

(* What Forget leaves has its types. *)
LEMMA ForgetTyped ==
  ASSUME Forget
  PROVE  /\ completion' \in BOOLEAN /\ candidate' \in Values \cup {None}
         /\ todo' \in (SUBSET Keys) \cup (SUBSET Criteria)
         /\ rev' \in [Barriers -> [Keys -> Revisions \cup {None}]]
         /\ snapshots' \in [Keys -> Snapshots \cup {None}]
         /\ diagnostics' \subseteq Keys
         /\ status' \in [Criteria -> Statuses \cup {None}]
BY NothingType DEF Forget

(* Conclude builds a report. *)
LEMMA ConcludedReport ==
  ASSUME Typed, Conclude
  PROVE  report' \in Reports
<1> DEFINE evidence == IF Stale THEN Nothing ELSE snapshots
           found == IF Stale THEN [c \in Criteria |-> "unknown"] ELSE status
<1>1. evidence \in [Keys -> Snapshots \cup {None}]
  BY NothingType DEF Typed, TypeOK
<1>2. found \in [Criteria -> Statuses]
  BY DEF Conclude, Typed, Phases, Statuses
<1>3. Invalidated(evidence) \in SUBSET Refs
  BY RefsType DEF Typed
<1>4. completion \in BOOLEAN
  BY DEF Typed, TypeOK
<1>5. PICK b \in BOOLEAN :
        report' = [evidence |-> evidence, status |-> found, complete |-> b,
                   completion |-> completion, invalidated |-> Invalidated(evidence)]
  BY DEF Conclude
<1>6. QED
  BY <1>1, <1>2, <1>3, <1>4, <1>5 DEF Reports

LEMMA ConcludeTyped ==
  ASSUME Typed, Conclude
  PROVE  Typed'
<1>1. report' \in Reports /\ report' # None
  <2>1. report' \in Reports
    BY ConcludedReport
  <2>2. None \notin Reports
    BY NoneAssumption
  <2>3. QED
    BY <2>1, <2>2
<1>2. /\ pc' = "publish" /\ Forget
      /\ cache' = IF Stale THEN Pending ELSE cache
      /\ UNCHANGED <<env, previous, evaluations, instants, verified, believed>>
  BY DEF Conclude, history
<1>3. /\ DOMAIN cache' = Criteria
      /\ \A d \in Criteria : cache'[d] # None =>
           cache'[d] \in [evidence : [Needs[d] -> Snapshots], status : Known]
  BY <1>2 DEF Pending, Typed, TypeOK
<1>4. TypeOK'
  <2>1. /\ completion' \in BOOLEAN /\ candidate' \in Values \cup {None}
        /\ todo' \in (SUBSET Keys) \cup (SUBSET Criteria)
        /\ rev' \in [Barriers -> [Keys -> Revisions \cup {None}]]
        /\ snapshots' \in [Keys -> Snapshots \cup {None}]
        /\ diagnostics' \subseteq Keys
        /\ status' \in [Criteria -> Statuses \cup {None}]
    BY <1>2, ForgetTyped
  <2>2. pc' \in Working /\ pc' = "publish"
    BY <1>2 DEF Working
  <2>3. QED
    BY <1>1, <1>2, <1>3, <2>1, <2>2 DEF Typed, TypeOK
<1>5. Phases'
  BY <1>2 DEF Phases, Barriers
<1>6. QED
  BY <1>4, <1>5 DEF Typed

LEMMA PublishTyped ==
  ASSUME Typed, Publish \/ SinkFails
  PROVE  Typed'
<1>1. report \in Reports /\ report.evidence \in [Keys -> Snapshots \cup {None}]
  BY DEF Publish, SinkFails, Typed, TypeOK, Reports
<1>2. previous' \in [Keys -> Snapshots \cup {None}]
  BY <1>1 DEF Publish, SinkFails, Typed, TypeOK, runState
<1>3. believed' \in (SUBSET (Keys \X Snapshots)) \cup {None}
  <2>1. Believed(report) \in (SUBSET (Keys \X Snapshots)) \cup {None}
    BY <1>1, BelievedType DEF Typed
  <2>2. QED
    BY <2>1 DEF Publish, SinkFails, Typed, TypeOK
<1>4. /\ pc' = "idle" /\ report' = None /\ instants' = {} /\ verified' = None
      /\ UNCHANGED <<env, completion, candidate, todo, rev, snapshots, diagnostics,
                     status, cache, evaluations>>
  BY DEF Publish, SinkFails, Return, locals, runState
<1>5. TypeOK'
  BY <1>2, <1>3, <1>4 DEF Typed, TypeOK, Working
<1>6. Phases'
  BY <1>4 DEF Phases, Barriers
<1>7. QED
  BY <1>5, <1>6 DEF Typed

LEMMA InterruptTyped ==
  ASSUME Typed, Interrupt
  PROVE  Typed'
<1>1. Interrupted.evidence = Nothing
  BY DEF Interrupted
<1>2. believed' \in (SUBSET (Keys \X Snapshots)) \cup {None}
  <2>1. Believed(Interrupted) \in (SUBSET (Keys \X Snapshots)) \cup {None}
    BY <1>1, NothingType, BelievedType DEF Typed
  <2>2. QED
    BY <2>1 DEF Interrupt
<1>3. /\ pc' = "idle" /\ report' = None /\ instants' = {} /\ verified' = None
      /\ previous' = Nothing /\ Forget
      /\ UNCHANGED <<env, cache, evaluations>>
  BY <1>1 DEF Interrupt, Return
<1>4. TypeOK'
  <2>1. /\ completion' \in BOOLEAN /\ candidate' \in Values \cup {None}
        /\ todo' \in (SUBSET Keys) \cup (SUBSET Criteria)
        /\ rev' \in [Barriers -> [Keys -> Revisions \cup {None}]]
        /\ snapshots' \in [Keys -> Snapshots \cup {None}]
        /\ diagnostics' \subseteq Keys
        /\ status' \in [Criteria -> Statuses \cup {None}]
    BY <1>3, ForgetTyped
  <2>2. QED
    BY <1>2, <1>3, <2>1, NothingType DEF Typed, TypeOK, Working
<1>5. Phases'
  BY <1>3 DEF Phases, Barriers
<1>6. QED
  BY <1>4, <1>5 DEF Typed

LEMMA CloseTyped ==
  ASSUME Typed, Close
  PROVE  Typed'
<1>1. /\ pc = "idle" /\ pc' = "closed"
      /\ cache' = Pending /\ previous' = Nothing /\ believed' = {}
      /\ UNCHANGED <<env, completion, candidate, todo, rev, snapshots, diagnostics,
                     status, report, evaluations, instants, verified>>
  BY DEF Close, locals
<1>2. DOMAIN cache' = Criteria /\ \A c \in Criteria : cache'[c] = None
  BY <1>1 DEF Pending
<1>3. TypeOK'
  BY <1>1, <1>2, NothingType DEF Typed, TypeOK, Working
<1>4. Phases'
  BY <1>1 DEF Phases, Barriers
<1>5. QED
  BY <1>3, <1>4 DEF Typed

LEMMA NextTyped == Typed /\ [Next]_vars => Typed'
<1> SUFFICES ASSUME Typed, [Next]_vars PROVE Typed'
  OBVIOUS
<1>1. CASE UNCHANGED vars
  BY <1>1 DEF vars, locals, runState, history, Typed, TypeOK, Phases
<1>2. QED
  BY <1>1, ChangeTyped, BeginTyped, CheckRevisionTyped, StartReadsTyped, ReadTyped,
     StartRecheckTyped, StartVerifiersTyped, VerifyTyped, StartFinalCheckTyped,
     ConcludeTyped, PublishTyped, InterruptTyped, CloseTyped DEF Next

(* Every variable stays in its range, and each phase finds what it needs. *)
THEOREM TypedHolds == Spec => []Typed
BY InitTyped, NextTyped, PTL DEF Spec

(* The types hold for any plan, any number of sources, changes, evaluations. *)
THEOREM EvaluationTypeCorrect == Spec => []TypeOK
BY TypedHolds, PTL DEF Typed

-----------------------------------------------------------------------------
(* What a report retracts is decided against the report before it, and nothing
   replaces that one until this one is out. *)
RetractsItsDifference ==
  pc = "publish" => report.invalidated = Invalidated(report.evidence)

(* Dropping what is retracted and adding the new evidence leaves just that. *)
LEMMA BelievedIsCurrent ==
  ASSUME NEW r, r.invalidated = Invalidated(r.evidence), believed = Facts(previous)
  PROVE  Believed(r) \in {Facts(r.evidence), None}
<1> SUFFICES ASSUME believed # None
             PROVE  {f \in believed : <<f[1], f[2].value>> \notin r.invalidated}
                      \subseteq Facts(r.evidence)
  BY DEF Believed
<1> SUFFICES ASSUME NEW k \in Cited(previous),
                    <<k, previous[k].value>> \notin r.invalidated
             PROVE  <<k, previous[k]>> \in Facts(r.evidence)
  BY DEF Facts
<1>1. r.evidence[k] = previous[k]
  BY DEF Invalidated, Ref
<1>2. k \in Cited(r.evidence)
  BY <1>1 DEF Cited
<1>3. QED
  BY <1>1, <1>2 DEF Facts

LEMMA NothingFacts == Facts(Nothing) = {}
BY DEF Facts, Cited, Nothing

(* No fact outlives its source in the eyes of a reader of all reports. *)
THEOREM FactsAreRetractedHolds == Spec => []FactsAreRetracted
<1> DEFINE IInv == RetractsItsDifference /\ FactsAreRetracted
<1>1. Init => IInv
  BY NothingFacts DEF Init, RetractsItsDifference, FactsAreRetracted
<1>2. IInv /\ [Next]_vars => IInv'
  <2> SUFFICES ASSUME RetractsItsDifference, FactsAreRetracted, [Next]_vars
               PROVE  RetractsItsDifference' /\ FactsAreRetracted'
    OBVIOUS
  <2>1. ASSUME UNCHANGED <<previous, believed>>,
               pc' # "publish" \/ (UNCHANGED <<pc, report>>)
        PROVE  RetractsItsDifference' /\ FactsAreRetracted'
    BY <2>1 DEF RetractsItsDifference, FactsAreRetracted, Invalidated, Cited, Ref, Facts
  <2>2. ASSUME NEW k \in Sources, Change(k) \/ CheckRevision(k) \/ Read(k)
        PROVE  UNCHANGED <<pc, report, previous, believed>>
    BY <2>2 DEF Change, CheckRevision, Read, runState, history
  <2>3. ASSUME NEW c \in Criteria, Verify(c)
        PROVE  UNCHANGED <<pc, report, previous, believed>>
    BY <2>3 DEF Verify, history
  <2>4. ASSUME Begin \/ StartReads \/ StartRecheck \/ StartVerifiers \/ StartFinalCheck
               \/ SinkFails
        PROVE  UNCHANGED <<previous, believed>> /\ pc' # "publish"
    BY <2>4 DEF Begin, StartReads, StartRecheck, StartVerifiers, StartFinalCheck,
       SinkFails, Return, runState, history
  <2>5. ASSUME Conclude PROVE RetractsItsDifference' /\ FactsAreRetracted'
    <3>1. UNCHANGED <<previous, believed>>
      BY <2>5 DEF Conclude, history
    <3>2. report'.invalidated = Invalidated(report'.evidence)
      BY <2>5 DEF Conclude
    <3>3. QED
      BY <3>1, <3>2 DEF RetractsItsDifference, FactsAreRetracted, Invalidated, Cited, Ref, Facts
  <2>6. ASSUME Publish PROVE RetractsItsDifference' /\ FactsAreRetracted'
    <3>1. /\ pc = "publish" /\ pc' = "idle"
          /\ previous' = report.evidence /\ believed' = Believed(report)
      BY <2>6 DEF Publish, Return
    <3>2. believed' # None => believed' = Facts(previous')
      BY <3>1, BelievedIsCurrent DEF RetractsItsDifference, FactsAreRetracted, Believed
    <3>3. QED
      BY <3>1, <3>2 DEF RetractsItsDifference, FactsAreRetracted
  <2>7. ASSUME Interrupt PROVE RetractsItsDifference' /\ FactsAreRetracted'
    <3>1. /\ pc' = "idle" /\ previous' = Interrupted.evidence
          /\ believed' \in {Believed(Interrupted), None}
      BY <2>7 DEF Interrupt, Return
    <3>2. Interrupted.invalidated = Invalidated(Interrupted.evidence)
      BY DEF Interrupted
    <3>3. believed' # None => believed' = Facts(previous')
      BY <3>1, <3>2, BelievedIsCurrent DEF FactsAreRetracted, Believed
    <3>4. QED
      BY <3>1, <3>3 DEF RetractsItsDifference, FactsAreRetracted
  <2>8. ASSUME Close PROVE RetractsItsDifference' /\ FactsAreRetracted'
    BY <2>8, NothingFacts DEF Close, RetractsItsDifference, FactsAreRetracted
  <2>9. CASE UNCHANGED vars
    BY <2>1, <2>9 DEF vars, runState, history
  <2>10. QED
    BY <2>1, <2>2, <2>3, <2>4, <2>5, <2>6, <2>7, <2>8, <2>9 DEF Next
<1>3. QED
  BY <1>1, <1>2, PTL DEF Spec

-----------------------------------------------------------------------------
(* What a known verdict on a criterion may say of the evidence it rests on. *)
Sound(c, evidence, s) ==
  /\ c \notin Semantic => Rule(c, evidence) = s
  /\ c \in Guarded /\ s = "pass" => Rule(c, evidence) = "pass"

(* A cached verdict is sound for the evidence it is cached with. *)
CacheIsSound ==
  \A c \in Criteria : cache[c] # None => Sound(c, cache[c].evidence, cache[c].status)

(* So is what the verifiers of this evaluation have found so far. *)
Judged(c) ==
  status[c] \in Known => Needs[c] \subseteq Cited(snapshots) /\ Sound(c, snapshots, status[c])

JudgedSoFar ==
  /\ pc = "verify" => \A c \in Criteria \ todo : Judged(c)
  /\ pc = "final" => \A c \in Criteria : Judged(c)

(* A rule looks at the evidence its criterion needs, and at nothing else. *)
LEMMA RuleReadsDependencies ==
  ASSUME NEW c \in Criteria
  PROVE  Rule(c, DependenciesOf(c)) = Rule(c, snapshots)
BY DEF Rule, DependenciesOf

LEMMA AnswersAreSound ==
  ASSUME NEW c \in Criteria, NEW s \in Answers(c), s \in Known
  PROVE  Sound(c, snapshots, s)
<1>1. CASE c \notin Semantic
  <2>1. s \in {Rule(c, snapshots), "unknown"}
    BY <1>1 DEF Answers
  <2>2. s = Rule(c, snapshots)
    BY <2>1 DEF Known
  <2>3. QED
    BY <2>2 DEF Sound
<1>2. CASE c \in Semantic
  <2>1. CASE c \in Guarded /\ Rule(c, snapshots) # "pass"
    <3>1. s \in {Rule(c, snapshots), "unknown"}
      BY <1>2, <2>1 DEF Answers
    <3>2. s # "pass"
      BY <2>1, <3>1
    <3>3. QED
      BY <1>2, <3>2 DEF Sound
  <2>2. CASE c \notin Guarded \/ Rule(c, snapshots) = "pass"
    BY <1>2, <2>2 DEF Sound
  <2>3. QED
    BY <2>1, <2>2
<1>3. QED
  BY <1>1, <1>2

(* A verifier's verdict, fresh or from the cache, fits what was read. *)
LEMMA VerifyJudges ==
  ASSUME Typed, CacheIsSound, NEW c \in Criteria, Verify(c)
  PROVE  /\ CacheIsSound'
         /\ Judged(c)'
         /\ \A d \in Criteria \ {c} : status'[d] = status[d]
<1>1. UNCHANGED snapshots
  BY DEF Verify
<1>2. \A d \in Criteria \ {c} : status'[d] = status[d]
  BY DEF Verify, Typed, TypeOK
<1>3. Missing(c) = {} => Needs[c] \subseteq Cited(snapshots)
  BY DEF Missing
<1>4. CASE status' = [status EXCEPT ![c] = "unknown"] /\ UNCHANGED cache
  <2>1. status'[c] \notin Known
    BY <1>4 DEF Typed, TypeOK, Known
  <2>2. QED
    BY <1>2, <1>4, <2>1 DEF Judged, CacheIsSound, Sound, Rule
<1>5. CASE /\ status' = [status EXCEPT ![c] = "unknown"]
           /\ cache' = [cache EXCEPT ![c] = None]
  <2>1. status'[c] \notin Known
    BY <1>5 DEF Typed, TypeOK, Known
  <2>2. CacheIsSound'
    BY <1>5 DEF Typed, TypeOK, CacheIsSound, Sound, Rule
  <2>3. QED
    BY <1>2, <2>1, <2>2 DEF Judged
<1>6. CASE /\ Missing(c) = {} /\ Hit(c)
           /\ status' = [status EXCEPT ![c] = cache[c].status]
           /\ UNCHANGED cache
  <2>1. status'[c] = cache[c].status
    BY <1>6 DEF Typed, TypeOK
  <2>2. Sound(c, DependenciesOf(c), cache[c].status)
    BY <1>6 DEF Hit, CacheIsSound
  <2>3. Sound(c, snapshots, cache[c].status)
    BY <2>2, RuleReadsDependencies DEF Sound
  <2>4. QED
    BY <1>1, <1>2, <1>3, <1>6, <2>1, <2>3
    DEF Judged, CacheIsSound, Sound, Rule, Cited
<1>7. CASE /\ Missing(c) = {}
           /\ \E s \in Answers(c) :
                /\ status' = [status EXCEPT ![c] = s]
                /\ cache' = [cache EXCEPT ![c] =
                     IF Keeps(s) THEN [evidence |-> DependenciesOf(c), status |-> s]
                                 ELSE None]
  <2>1. PICK s \in Answers(c) :
          /\ status' = [status EXCEPT ![c] = s]
          /\ cache' = [cache EXCEPT ![c] =
               IF Keeps(s) THEN [evidence |-> DependenciesOf(c), status |-> s]
                           ELSE None]
    BY <1>7
  <2>2. status'[c] = s
    BY <2>1 DEF Typed, TypeOK
  <2>3. s \in Known => Sound(c, snapshots, s)
    BY AnswersAreSound
  <2>4. Judged(c)'
    BY <1>1, <1>3, <1>7, <2>2, <2>3 DEF Judged, Sound, Rule, Cited
  <2>5. CacheIsSound'
    <3>1. s \in Known => Sound(c, DependenciesOf(c), s)
      BY <2>3, RuleReadsDependencies DEF Sound
    <3>2. \A d \in Criteria \ {c} : cache'[d] = cache[d]
      BY <2>1 DEF Typed, TypeOK
    <3>3. cache'[c] # None =>
            /\ s \in Known
            /\ cache'[c].evidence = DependenciesOf(c) /\ cache'[c].status = s
      BY <2>1 DEF Keeps, Typed, TypeOK
    <3>4. ASSUME NEW d \in Criteria, cache'[d] # None
          PROVE  Sound(d, cache'[d].evidence, cache'[d].status)
      <4>1. CASE d = c
        BY <3>1, <3>3, <3>4, <4>1
      <4>2. CASE d # c
        BY <3>2, <3>4, <4>2 DEF CacheIsSound
      <4>3. QED
        BY <4>1, <4>2
    <3>5. QED
      BY <3>4 DEF CacheIsSound, Sound, Rule
  <2>6. QED
    BY <1>2, <2>4, <2>5
<1>8. QED
  BY <1>4, <1>5, <1>6, <1>7 DEF Verify

(* A known verdict of a report, also one from the cache of an earlier
   evaluation, is what the rule finds in the evidence of that report. *)
THEOREM VerdictsFollowTheRulesHolds == Spec => []VerdictsFollowTheRules
<1> DEFINE IInv == CacheIsSound /\ JudgedSoFar /\ VerdictsFollowTheRules
<1>1. Init => IInv
  <2>1. \A c \in Criteria : Pending[c] = None
    BY DEF Pending
  <2>2. QED
    BY <2>1 DEF Init, CacheIsSound, JudgedSoFar, VerdictsFollowTheRules
<1>2. Typed /\ IInv /\ [Next]_vars => IInv'
  <2> SUFFICES ASSUME Typed, CacheIsSound, JudgedSoFar, VerdictsFollowTheRules, [Next]_vars
               PROVE  IInv'
    OBVIOUS
  <2>1. ASSUME UNCHANGED <<pc, report, cache, status, snapshots, todo>> PROVE IInv'
    BY <2>1 DEF CacheIsSound, JudgedSoFar, VerdictsFollowTheRules, Sound, Judged, Rule, Cited
  <2>2. ASSUME UNCHANGED cache, pc' \notin {"verify", "final", "publish"} PROVE IInv'
    BY <2>2 DEF CacheIsSound, JudgedSoFar, VerdictsFollowTheRules, Sound, Rule
  <2>3. ASSUME NEW k \in Sources, Change(k)
        PROVE  UNCHANGED <<pc, report, cache, status, snapshots, todo>>
    BY <2>3 DEF Change, locals, runState
  <2>4. ASSUME NEW k \in Sources, CheckRevision(k) PROVE IInv'
    <3>1. /\ UNCHANGED <<pc, report, cache, status, snapshots>>
          /\ pc \in Barriers
      BY <2>4 DEF CheckRevision, runState
    <3>2. QED
      BY <3>1 DEF Barriers, CacheIsSound, JudgedSoFar, VerdictsFollowTheRules, Sound,
         Judged, Rule, Cited
  <2>5. ASSUME Begin \/ StartReads \/ StartRecheck \/ (\E k \in Sources : Read(k))
               \/ Publish \/ SinkFails \/ Interrupt
        PROVE  UNCHANGED cache /\ pc' \notin {"verify", "final", "publish"}
    BY <2>5 DEF Begin, StartReads, StartRecheck, Read, Publish, SinkFails, Interrupt,
       Return, runState
  <2>6. ASSUME StartVerifiers PROVE IInv'
    <3>1. UNCHANGED cache /\ pc' = "verify" /\ todo' = Criteria
      BY <2>6 DEF StartVerifiers, runState
    <3>2. QED
      BY <3>1 DEF CacheIsSound, JudgedSoFar, VerdictsFollowTheRules, Sound, Rule
  <2>7. ASSUME NEW c \in Criteria, Verify(c) PROVE IInv'
    <3>1. /\ CacheIsSound' /\ Judged(c)'
          /\ \A d \in Criteria \ {c} : status'[d] = status[d]
      BY <2>7, VerifyJudges
    <3>2. /\ pc = "verify" /\ pc' = "verify" /\ todo' = todo \ {c}
          /\ UNCHANGED snapshots
      BY <2>7 DEF Verify
    <3>3. \A d \in Criteria \ todo : d # c => Judged(d)'
      BY <3>1, <3>2 DEF JudgedSoFar, Judged, Sound, Rule, Cited
    <3>4. QED
      BY <3>1, <3>2, <3>3 DEF JudgedSoFar, VerdictsFollowTheRules
  <2>8. ASSUME StartFinalCheck PROVE IInv'
    <3>1. /\ UNCHANGED <<cache, status, snapshots>>
          /\ pc = "verify" /\ todo = {} /\ pc' = "final"
      BY <2>8 DEF StartFinalCheck, runState
    <3>2. QED
      BY <3>1 DEF CacheIsSound, JudgedSoFar, VerdictsFollowTheRules, Sound, Judged, Rule, Cited
  <2>9. ASSUME Conclude PROVE IInv'
    <3>1. pc = "final" /\ pc' = "publish" /\ cache' = IF Stale THEN Pending ELSE cache
      BY <2>9 DEF Conclude
    <3>2. CacheIsSound'
      <4>1. \A c \in Criteria : Pending[c] = None
        BY DEF Pending
      <4>2. QED
        BY <3>1, <4>1 DEF CacheIsSound, Sound, Rule
    <3>3. VerdictsFollowTheRules'
      <4>1. CASE Stale
        <5>1. report'.status = [c \in Criteria |-> "unknown"]
          BY <2>9, <4>1 DEF Conclude
        <5>2. QED
          BY <5>1 DEF VerdictsFollowTheRules, Known
      <4>2. CASE ~Stale
        <5>1. report'.status = status /\ report'.evidence = snapshots
          BY <2>9, <4>2 DEF Conclude
        <5>2. QED
          BY <3>1, <5>1 DEF JudgedSoFar, Judged, Sound, VerdictsFollowTheRules, Rule, Cited
      <4>3. QED
        BY <4>1, <4>2
    <3>4. QED
      BY <3>1, <3>2, <3>3 DEF JudgedSoFar
  <2>10. ASSUME Close PROVE IInv'
    <3>1. pc' = "closed" /\ \A c \in Criteria : cache'[c] = None
      BY <2>10 DEF Close, Pending
    <3>2. QED
      BY <3>1 DEF CacheIsSound, JudgedSoFar, VerdictsFollowTheRules
  <2>11. CASE UNCHANGED vars
    BY <2>1, <2>11 DEF vars, locals, runState
  <2>12. QED
    BY <2>1, <2>2, <2>3, <2>4, <2>5, <2>6, <2>7, <2>8, <2>9, <2>10, <2>11 DEF Next
<1>3. QED
  BY <1>1, <1>2, TypedHolds, PTL DEF Spec

-----------------------------------------------------------------------------
(* What a source reveals by its revision.  A change gives a source a version it
   never had before, so a revision that is still the present version means that
   nothing has changed since; only an absent file says no version. *)
Dated(k) ==
  snapshots[k] # None /\ ~Recurring(k, snapshots[k]) =>
    /\ snapshots[k].revision \in Versions
    /\ snapshots[k].revision <= env[k].version
    /\ snapshots[k].revision = env[k].version => snapshots[k].value = env[k].value

SnapshotsAreDated == \A k \in Sources : Dated(k)

(* The last barrier compares with what the sources were when the last verifier
   ended. *)
Confirmed(k) ==
  snapshots[k] # None /\ ~Recurring(k, snapshots[k]) =>
    /\ snapshots[k].revision = env[k].version => verified[k] = snapshots[k].value
    /\ k \notin todo \cup diagnostics /\ rev["final"][k] = snapshots[k].revision
         => verified[k] = snapshots[k].value

FinalConfirms == pc = "final" => \A k \in Sources : Confirmed(k)

LEMMA RevisionIsVersion ==
  ASSUME TypeOK, NEW k \in Sources
  PROVE  Revision(k) = IF Recurring(k, env[k]) THEN Absent ELSE env[k].version
BY DEF Revision, Recurring

LEMMA VersionsAreNumbers ==
  /\ Versions \subseteq Nat
  /\ Absent \notin Versions
  /\ None \notin Versions
BY EvaluationAssumption DEF Versions, Values, Revisions

LEMMA ChangeEffect ==
  ASSUME TypeOK, NEW k \in Sources, Change(k)
  PROVE  /\ env'[k].version = env[k].version + 1 /\ env[k].version \in Nat
         /\ \A j \in Sources \ {k} : env'[j] = env[j]
<1>1. env[k].version \in Nat
  BY VersionsAreNumbers DEF TypeOK
<1>2. QED
  BY <1>1 DEF Change, TypeOK

(* A change outdates what was known of its source, and of no other. *)
LEMMA ChangeKeepsDates ==
  ASSUME Typed, SnapshotsAreDated, FinalConfirms, NEW k \in Sources, Change(k)
  PROVE  SnapshotsAreDated' /\ FinalConfirms'
<1>1. /\ env'[k].version = env[k].version + 1 /\ env[k].version \in Nat
      /\ \A j \in Sources \ {k} : env'[j] = env[j]
  BY ChangeEffect DEF Typed
<1>2. UNCHANGED <<pc, todo, rev, snapshots, diagnostics, verified>>
  BY DEF Change, locals
<1>3. snapshots[k] # None /\ ~Recurring(k, snapshots[k]) =>
        /\ snapshots[k].revision \in Nat
        /\ snapshots[k].revision <= env[k].version
  BY VersionsAreNumbers DEF SnapshotsAreDated, Dated
<1>4. Dated(k)'
  <2>1. snapshots[k] # None /\ ~Recurring(k, snapshots[k]) =>
          /\ snapshots[k].revision \in Versions
          /\ snapshots[k].revision <= env'[k].version
          /\ snapshots[k].revision # env'[k].version
    BY <1>1, <1>3 DEF SnapshotsAreDated, Dated
  <2>2. QED
    BY <1>2, <2>1 DEF Dated, Recurring
<1>5. pc = "final" => Confirmed(k)'
  <2>1. snapshots[k] # None /\ ~Recurring(k, snapshots[k]) =>
          snapshots[k].revision # env'[k].version
    BY <1>1, <1>3
  <2>2. QED
    BY <1>2, <2>1 DEF FinalConfirms, Confirmed, Recurring
<1>6. \A j \in Sources \ {k} : Dated(j)'
  BY <1>1, <1>2 DEF SnapshotsAreDated, Dated, Recurring
<1>7. pc = "final" => \A j \in Sources \ {k} : Confirmed(j)'
  BY <1>1, <1>2 DEF FinalConfirms, Confirmed, Recurring
<1>8. QED
  BY <1>2, <1>4, <1>5, <1>6, <1>7 DEF SnapshotsAreDated, FinalConfirms

LEMMA ReadDates ==
  ASSUME Typed, SnapshotsAreDated, NEW k \in Sources, Read(k)
  PROVE  SnapshotsAreDated'
<1> DEFINE s == [revision |-> Revision(k), value |-> env[k].value]
<1>1. UNCHANGED env /\ k \in Keys
  BY DEF Read, Keys
<1>2. CASE UNCHANGED snapshots
  BY <1>1, <1>2 DEF SnapshotsAreDated, Dated, Recurring
<1>3. CASE snapshots' = [snapshots EXCEPT ![k] = s]
  <2>1. snapshots'[k] = s /\ \A j \in Sources \ {k} : snapshots'[j] = snapshots[j]
    BY <1>1, <1>3 DEF Typed, TypeOK, Keys
  <2>2. ~Recurring(k, s) => s.revision = env[k].version /\ s.value = env[k].value
    BY RevisionIsVersion DEF Recurring, Typed
  <2>3. env[k].version \in Versions /\ env[k].version <= env[k].version
    <3>1. env[k].version \in Versions
      BY RevisionType DEF Typed
    <3>2. env[k].version \in Nat
      BY <3>1, VersionsAreNumbers
    <3>3. QED
      BY <3>1, <3>2
  <2>4. Dated(k)'
    BY <1>1, <2>1, <2>2, <2>3 DEF Dated, Recurring
  <2>5. \A j \in Sources \ {k} : Dated(j)'
    BY <1>1, <2>1 DEF SnapshotsAreDated, Dated, Recurring
  <2>6. QED
    BY <2>4, <2>5 DEF SnapshotsAreDated
<1>4. QED
  BY <1>2, <1>3 DEF Read

(* A revision of the last barrier that is the one that was read was answered
   before anything changed. *)
LEMMA FinalCheckConfirms ==
  ASSUME Typed, SnapshotsAreDated, FinalConfirms, NEW k \in Sources, CheckRevision(k)
  PROVE  FinalConfirms'
<1> SUFFICES ASSUME pc = "final" PROVE \A j \in Sources : Confirmed(j)'
  BY DEF CheckRevision, FinalConfirms
<1>1. UNCHANGED <<env, snapshots, verified>> /\ todo' = todo \ {k}
  BY DEF CheckRevision, history
<1>2. CASE UNCHANGED rev /\ diagnostics' = diagnostics \cup {k}
  BY <1>1, <1>2 DEF FinalConfirms, Confirmed, Recurring
<1>3. CASE rev' = [rev EXCEPT !["final"][k] = Revision(k)] /\ UNCHANGED diagnostics
  <2>1. /\ rev'["final"][k] = Revision(k)
        /\ \A j \in Sources \ {k} : rev'["final"][j] = rev["final"][j]
    BY <1>3 DEF Typed, TypeOK, Barriers, Keys
  <2>2. \A j \in Sources \ {k} : Confirmed(j)'
    BY <1>1, <1>3, <2>1 DEF FinalConfirms, Confirmed, Recurring
  <2>3. ASSUME snapshots[k] # None, ~Recurring(k, snapshots[k]),
               Revision(k) = snapshots[k].revision
        PROVE  snapshots[k].revision = env[k].version
    BY <2>3, RevisionIsVersion, VersionsAreNumbers DEF Typed, SnapshotsAreDated, Dated
  <2>4. Confirmed(k)'
    BY <1>1, <2>1, <2>3 DEF FinalConfirms, Confirmed, Recurring
  <2>5. QED
    BY <2>2, <2>4
<1>4. QED
  BY <1>2, <1>3 DEF CheckRevision

(* Snapshots are dated, and what the last barrier lets pass is confirmed. *)
THEOREM DatesHold == Spec => [](SnapshotsAreDated /\ FinalConfirms /\ VerdictsAreCurrent)
<1> DEFINE IInv == SnapshotsAreDated /\ FinalConfirms /\ VerdictsAreCurrent
<1>1. Init => IInv
  BY DEF Init, SnapshotsAreDated, Dated, Nothing, Keys, FinalConfirms, VerdictsAreCurrent
<1>2. Typed /\ IInv /\ [Next]_vars => IInv'
  <2> SUFFICES ASSUME Typed, SnapshotsAreDated, FinalConfirms, VerdictsAreCurrent,
                      [Next]_vars
               PROVE  IInv'
    OBVIOUS
  <2>1. ASSUME UNCHANGED <<env, pc, todo, rev, snapshots, diagnostics, verified, report>>
        PROVE  IInv'
    BY <2>1 DEF SnapshotsAreDated, Dated, FinalConfirms, Confirmed, VerdictsAreCurrent,
       Recurring
  <2>2. ASSUME UNCHANGED env, pc' \notin {"final", "publish"},
               \A k \in Sources : snapshots'[k] \in {snapshots[k], None}
        PROVE  IInv'
    <3>1. SnapshotsAreDated'
      BY <2>2 DEF SnapshotsAreDated, Dated, Recurring
    <3>2. QED
      BY <2>2, <3>1 DEF FinalConfirms, VerdictsAreCurrent
  <2>3. ASSUME NEW k \in Sources, Change(k) PROVE IInv'
    <3>1. UNCHANGED <<pc, verified, report>>
      BY <2>3 DEF Change
    <3>2. QED
      BY <2>3, <3>1, ChangeKeepsDates DEF VerdictsAreCurrent, Recurring
  <2>4. ASSUME Begin \/ StartRecheck \/ Publish \/ SinkFails \/ Close
        PROVE  /\ UNCHANGED <<env, snapshots>> /\ pc' \notin {"final", "publish"}
    BY <2>4 DEF Begin, StartRecheck, Publish, SinkFails, Close, Return, locals
  <2>5. ASSUME NEW k \in Sources, CheckRevision(k) PROVE IInv'
    <3>1. UNCHANGED <<env, pc, snapshots, verified, report>> /\ pc # "publish"
      BY <2>5 DEF CheckRevision, history, Barriers
    <3>2. SnapshotsAreDated'
      BY <3>1 DEF SnapshotsAreDated, Dated, Recurring
    <3>3. QED
      BY <2>5, <3>1, <3>2, FinalCheckConfirms DEF VerdictsAreCurrent
  <2>6. ASSUME NEW k \in Sources, Read(k) PROVE IInv'
    <3>1. pc = "read" /\ pc' = "read"
      BY <2>6 DEF Read
    <3>2. QED
      BY <2>6, <3>1, ReadDates DEF FinalConfirms, VerdictsAreCurrent
  <2>7. ASSUME StartReads PROVE IInv'
    <3>1. \A k \in Sources : snapshots'[k] = snapshots[k]
      BY <2>7, EvaluationAssumption DEF StartReads, Typed, TypeOK, Keys
    <3>2. UNCHANGED env /\ pc' = "read"
      BY <2>7 DEF StartReads
    <3>3. QED
      BY <2>2, <3>1, <3>2
  <2>8. ASSUME StartVerifiers PROVE IInv'
    <3>1. \A k \in Sources : snapshots'[k] \in {snapshots[k], None}
      BY <2>8 DEF StartVerifiers, Keys
    <3>2. UNCHANGED env /\ pc' = "verify"
      BY <2>8 DEF StartVerifiers
    <3>3. QED
      BY <2>2, <3>1, <3>2
  <2>9. ASSUME NEW c \in Criteria, Verify(c) PROVE IInv'
    <3>1. UNCHANGED <<env, snapshots>> /\ pc' = "verify"
      BY <2>9 DEF Verify
    <3>2. QED
      BY <2>2, <3>1
  <2>10. ASSUME StartFinalCheck PROVE IInv'
    <3>1. /\ UNCHANGED <<env, snapshots>> /\ pc' = "final" /\ verified' = Now
          /\ todo' = Cited(snapshots) \cap Sources
      BY <2>10 DEF StartFinalCheck
    <3>2. SnapshotsAreDated'
      BY <3>1 DEF SnapshotsAreDated, Dated, Recurring
    <3>3. ASSUME NEW k \in Sources PROVE Confirmed(k)'
      <4>1. snapshots[k] # None => k \in todo'
        BY <3>1 DEF Cited, Keys
      <4>2. verified'[k] = env[k].value
        BY <3>1 DEF Now
      <4>3. QED
        BY <3>1, <4>1, <4>2 DEF Confirmed, SnapshotsAreDated, Dated, Recurring
    <3>4. QED
      BY <3>1, <3>2, <3>3 DEF FinalConfirms, VerdictsAreCurrent
  <2>11. ASSUME Conclude PROVE IInv'
    <3>1. /\ pc = "final" /\ todo = {} /\ pc' = "publish" /\ snapshots' = Nothing
          /\ UNCHANGED <<env, verified>>
      BY <2>11 DEF Conclude, Forget, history
    <3>2. SnapshotsAreDated'
      BY <3>1 DEF SnapshotsAreDated, Dated, Nothing, Keys
    <3>3. VerdictsAreCurrent'
      <4>1. CASE Stale
        <5>1. report'.evidence = Nothing
          BY <2>11, <4>1 DEF Conclude
        <5>2. QED
          BY <5>1 DEF VerdictsAreCurrent, Nothing, Keys
      <4>2. CASE ~Stale
        <5>1. report'.evidence = snapshots
          BY <2>11, <4>2 DEF Conclude
        <5>2. \A k \in Sources : snapshots[k] # None =>
                k \notin diagnostics /\ rev["final"][k] = snapshots[k].revision
          BY <4>2 DEF Stale
        <5>3. QED
          BY <3>1, <5>1, <5>2 DEF VerdictsAreCurrent, FinalConfirms, Confirmed, Recurring
      <4>3. QED
        BY <4>1, <4>2
    <3>4. QED
      BY <3>1, <3>2, <3>3 DEF FinalConfirms
  <2>12. ASSUME Interrupt PROVE IInv'
    <3>1. UNCHANGED env /\ pc' = "idle" /\ \A k \in Sources : snapshots'[k] = None
      BY <2>12 DEF Interrupt, Return, Forget, Nothing, Keys
    <3>2. QED
      BY <2>2, <3>1
  <2>13. CASE UNCHANGED vars
    BY <2>1, <2>13 DEF vars, locals, history
  <2>14. QED
    BY <2>2, <2>3, <2>4, <2>5, <2>6, <2>7, <2>8, <2>9, <2>10, <2>11, <2>12, <2>13 DEF Next
<1>3. QED
  BY <1>1, <1>2, TypedHolds, PTL DEF Spec

(* The evidence of a report was still true when the last verifier ended. *)
THEOREM VerdictsAreCurrentHolds == Spec => []VerdictsAreCurrent
BY DatesHold, PTL

-----------------------------------------------------------------------------
(* Why the two barriers around the reads are enough while only one source can
   say the same revision of two different states. *)
Collecting == {"before", "read", "after"}

Tidy ==
  /\ pc \in {"idle", "closed", "publish"} => snapshots = Nothing /\ rev = Unread
  /\ pc = "before" => snapshots = Nothing
  /\ pc \in {"before", "read"} => rev["after"] = Nothing
  /\ pc \in {"read", "after"} => \A k \in Sources : snapshots[k] # None => k \in ActiveKeys
  /\ pc = "read" => todo \subseteq ActiveKeys
  /\ pc \in Collecting => Now \in instants

BeforeIsDated ==
  \A k \in Sources : rev["before"][k] \in Versions => rev["before"][k] <= env[k].version

(* An instant between the two barriers shows every source as it is if it has
   not changed since the first, and as it was read if the second has seen that
   it had not changed; it is the one at which an absent file was read. *)
FitsAt(m, k) ==
  /\ rev["before"][k] \in Versions /\ rev["before"][k] = env[k].version
       => m[k] = env[k].value
  /\ snapshots[k] # None /\ Recurring(k, snapshots[k]) => m[k] = snapshots[k].value
  /\ (/\ pc = "after" /\ k \notin todo /\ k \notin diagnostics
      /\ snapshots[k] # None /\ snapshots[k].revision \in Versions
      /\ rev["before"][k] = snapshots[k].revision
      /\ rev["after"][k] = snapshots[k].revision)
       => m[k] = snapshots[k].value

Fits(m) == \A k \in Sources : FitsAt(m, k)

MomentExists == pc \in {"read", "after"} => \E m \in instants : Fits(m)

LEMMA TidyInit == Init => Tidy /\ BeforeIsDated
BY VersionsAreNumbers
DEF Init, Tidy, BeforeIsDated, Collecting, Nothing, Unread, Barriers, Keys

LEMMA TidyStep ==
  ASSUME Typed, Tidy, [Next]_vars
  PROVE  Tidy'
<1>1. ASSUME NEW k \in Sources, Change(k) PROVE Tidy'
  <2>1. /\ UNCHANGED <<pc, completion, todo, rev, snapshots>>
        /\ instants' = IF pc \in Working
                         THEN instants \cup {[Now EXCEPT ![k] = env'[k].value]} ELSE instants
        /\ \A j \in Sources \ {k} : env'[j] = env[j]
    BY <1>1, ChangeEffect DEF Change, locals, Typed
  <2>2. Now' = [Now EXCEPT ![k] = env'[k].value]
    BY <2>1 DEF Now
  <2>3. QED
    BY <2>1, <2>2 DEF Tidy, ActiveKeys, Active, Collecting, Working, Barriers
<1>2. ASSUME NEW k \in Sources, CheckRevision(k) PROVE Tidy'
  <2>1. /\ UNCHANGED <<env, pc, completion, snapshots, instants>>
        /\ todo' = todo \ {k} /\ pc \in Barriers
    BY <1>2 DEF CheckRevision, history
  <2>2. pc = "before" => rev'["after"] = rev["after"]
    BY <1>2 DEF CheckRevision, Typed, TypeOK, Barriers
  <2>3. QED
    BY <2>1, <2>2 DEF Tidy, ActiveKeys, Active, Now, Barriers
<1>3. ASSUME NEW k \in Sources, Read(k) PROVE Tidy'
  <2>1. /\ UNCHANGED <<env, pc, completion, rev, instants>> /\ pc = "read"
        /\ todo' = todo \ {k} /\ k \in todo
        /\ \A j \in Sources \ {k} : snapshots'[j] = snapshots[j]
    BY <1>3 DEF Read, history, Typed, TypeOK, Keys
  <2>2. QED
    BY <2>1 DEF Tidy, ActiveKeys, Active, Now
<1>4. ASSUME Begin PROVE Tidy'
  <2>1. /\ UNCHANGED <<env, rev, snapshots>> /\ pc = "idle" /\ pc' = "before"
        /\ instants' = {Now}
    BY <1>4 DEF Begin
  <2>2. rev["after"] = Nothing /\ Now' = Now
    BY <2>1 DEF Tidy, Unread, Barriers, Now
  <2>3. QED
    BY <2>1, <2>2 DEF Tidy
<1>5. ASSUME StartReads PROVE Tidy'
  <2>1. /\ UNCHANGED <<env, completion, rev, instants>> /\ pc = "before" /\ pc' = "read"
        /\ todo' \subseteq ActiveKeys
        /\ \A k \in Sources : snapshots'[k] = snapshots[k]
    BY <1>5, EvaluationAssumption DEF StartReads, history, Typed, TypeOK, Keys
  <2>2. \A k \in Sources : snapshots'[k] = None
    BY <2>1 DEF Tidy, Nothing, Keys
  <2>3. QED
    BY <2>1, <2>2 DEF Tidy, ActiveKeys, Active, Now, Collecting
<1>6. ASSUME StartRecheck PROVE Tidy'
  <2>1. /\ UNCHANGED <<env, completion, snapshots, instants>> /\ pc = "read" /\ pc' = "after"
    BY <1>6 DEF StartRecheck, history
  <2>2. QED
    BY <2>1 DEF Tidy, ActiveKeys, Active, Now, Collecting
<1>7. ASSUME StartVerifiers \/ StartFinalCheck \/ (\E c \in Criteria : Verify(c))
      PROVE  pc' \in {"verify", "final"}
  BY <1>7 DEF StartVerifiers, StartFinalCheck, Verify
<1>8. ASSUME Conclude \/ Interrupt PROVE Tidy'
  BY <1>8 DEF Conclude, Interrupt, Forget, Return, Tidy, Collecting
<1>9. ASSUME Publish \/ SinkFails \/ Close PROVE Tidy'
  <2>1. UNCHANGED <<rev, snapshots>> /\ pc \in {"publish", "idle"}
        /\ pc' \in {"idle", "closed"}
    BY <1>9 DEF Publish, SinkFails, Close, Return, locals
  <2>2. QED
    BY <2>1 DEF Tidy, Collecting
<1>10. CASE UNCHANGED vars
  BY <1>10 DEF vars, locals, history, Tidy, ActiveKeys, Active, Now
<1>11. ASSUME pc' \in {"verify", "final"} PROVE Tidy'
  BY <1>11 DEF Tidy, Collecting
<1>12. QED
  BY <1>1, <1>2, <1>3, <1>4, <1>5, <1>6, <1>7, <1>8, <1>9, <1>10, <1>11 DEF Next

LEMMA BeforeStep ==
  ASSUME Typed, BeforeIsDated, [Next]_vars
  PROVE  BeforeIsDated'
<1>1. ASSUME UNCHANGED <<env, rev>> PROVE BeforeIsDated'
  BY <1>1 DEF BeforeIsDated
<1>2. ASSUME rev' = Unread PROVE BeforeIsDated'
  BY <1>2, VersionsAreNumbers DEF BeforeIsDated, Unread, Barriers, Nothing, Keys
<1>3. ASSUME NEW k \in Sources, Change(k) PROVE BeforeIsDated'
  <2>1. /\ env'[k].version = env[k].version + 1 /\ env[k].version \in Nat
        /\ \A j \in Sources \ {k} : env'[j] = env[j]
        /\ UNCHANGED rev
    BY <1>3, ChangeEffect DEF Typed, Change, locals
  <2>2. rev["before"][k] \in Versions => rev["before"][k] \in Nat
    BY VersionsAreNumbers
  <2>3. QED
    BY <2>1, <2>2 DEF BeforeIsDated
<1>4. ASSUME NEW k \in Sources, CheckRevision(k) PROVE BeforeIsDated'
  <2>1. UNCHANGED env
    BY <1>4 DEF CheckRevision
  <2>2. CASE rev' = [rev EXCEPT ![pc][k] = Revision(k)]
    <3>1. \A j \in Sources : rev'["before"][j] \in {rev["before"][j], Revision(j)}
      BY <1>4, <2>2 DEF CheckRevision, Typed, TypeOK, Barriers, Keys
    <3>2. ASSUME NEW j \in Sources, Revision(j) \in Versions
          PROVE  Revision(j) <= env[j].version
      <4>1. Revision(j) = env[j].version
        BY <3>2, RevisionIsVersion, VersionsAreNumbers DEF Typed
      <4>2. env[j].version \in Nat
        BY RevisionType, VersionsAreNumbers DEF Typed
      <4>3. QED
        BY <4>1, <4>2
    <3>3. QED
      BY <2>1, <3>1, <3>2 DEF BeforeIsDated
  <2>3. QED
    BY <1>1, <1>4, <2>1, <2>2 DEF CheckRevision
<1>5. ASSUME \/ Begin \/ StartReads \/ StartRecheck \/ StartFinalCheck \/ Publish
             \/ SinkFails \/ Close \/ (\E k \in Sources : Read(k))
             \/ (\E c \in Criteria : Verify(c)) \/ UNCHANGED vars
      PROVE  UNCHANGED <<env, rev>>
  BY <1>5 DEF Begin, StartReads, StartRecheck, StartFinalCheck, Publish, SinkFails,
     Close, Read, Verify, vars, locals
<1>6. ASSUME StartVerifiers \/ Conclude \/ Interrupt PROVE rev' = Unread
  BY <1>6 DEF StartVerifiers, Conclude, Interrupt, Forget
<1>7. QED
  BY <1>1, <1>2, <1>3, <1>4, <1>5, <1>6 DEF Next

(* A change leaves the moment what it was. *)
LEMMA ChangeKeepsMoment ==
  ASSUME Typed, BeforeIsDated, NEW k \in Sources, Change(k), NEW m, Fits(m)
  PROVE  Fits(m)'
<1>1. /\ env'[k].version = env[k].version + 1 /\ env[k].version \in Nat
      /\ \A j \in Sources \ {k} : env'[j] = env[j]
  BY ChangeEffect DEF Typed
<1>2. UNCHANGED <<pc, todo, rev, snapshots, diagnostics>>
  BY DEF Change, locals
<1>3. rev["before"][k] \in Versions => rev["before"][k] # env'[k].version
  <2>1. rev["before"][k] \in Versions =>
          rev["before"][k] \in Nat /\ rev["before"][k] <= env[k].version
    BY VersionsAreNumbers DEF BeforeIsDated
  <2>2. QED
    BY <1>1, <2>1
<1>4. QED
  BY <1>1, <1>2, <1>3 DEF Fits, FitsAt, Recurring

(* Reading an absent file fixes the moment; no other read does. *)
LEMMA ReadKeepsMoment ==
  ASSUME Typed, Tidy, \A i, j \in Files : i = j, MomentExists,
         NEW k \in Sources, Read(k)
  PROVE  MomentExists'
<1> DEFINE s == [revision |-> Revision(k), value |-> env[k].value]
<1>1. /\ UNCHANGED <<env, pc, rev, instants>> /\ pc = "read" /\ k \in Keys
  BY DEF Read, history, Keys
<1>2. PICK m \in instants : Fits(m)
  BY <1>1 DEF MomentExists
<1>3. CASE UNCHANGED snapshots
  BY <1>1, <1>2, <1>3 DEF MomentExists, Fits, FitsAt, Recurring
<1>4. CASE snapshots' = [snapshots EXCEPT ![k] = s]
  <2>1. snapshots'[k] = s /\ \A j \in Sources \ {k} : snapshots'[j] = snapshots[j]
    BY <1>1, <1>4 DEF Typed, TypeOK, Keys
  <2>2. CASE ~Recurring(k, s)
    <3>1. Fits(m)'
      BY <1>1, <1>2, <2>1, <2>2 DEF Fits, FitsAt, Recurring
    <3>2. QED
      BY <1>1, <1>2, <3>1 DEF MomentExists
  <2>3. CASE Recurring(k, s)
    <3>1. Now \in instants' /\ \A j \in Sources : Now[j] = env[j].value
      BY <1>1 DEF Tidy, Collecting, Now
    <3>2. \A j \in Sources : Recurring(j, snapshots'[j]) => j = k
      BY <2>3 DEF Recurring
    <3>3. Now[k] = snapshots'[k].value
      BY <2>1, <3>1
    <3>4. ASSUME NEW j \in Sources
          PROVE  /\ Now[j] = env'[j].value
                 /\ Recurring(j, snapshots'[j]) => Now[j] = snapshots'[j].value
      BY <1>1, <3>1, <3>2, <3>3
    <3>5. PICK now \in instants : now = Now
      BY <1>1, <3>1
    <3>6. ASSUME NEW j \in Sources PROVE FitsAt(now, j)'
      BY <1>1, <3>4, <3>5 DEF FitsAt, Recurring
    <3>7. QED
      BY <1>1, <3>5, <3>6 DEF MomentExists, Fits
  <2>4. QED
    BY <2>2, <2>3
<1>5. QED
  BY <1>3, <1>4 DEF Read

(* What the second barrier sees unchanged was at the moment as it was read. *)
LEMMA CheckKeepsMoment ==
  ASSUME Typed, SnapshotsAreDated, pc = "after", NEW k \in Sources, CheckRevision(k),
         NEW m, Fits(m)
  PROVE  Fits(m)'
<1>1. /\ UNCHANGED <<env, pc, snapshots>> /\ todo' = todo \ {k}
  BY DEF CheckRevision
<1>2. CASE UNCHANGED rev /\ diagnostics' = diagnostics \cup {k}
  <2>1. \A j \in Sources : j \notin todo' /\ j \notin diagnostics' => j \notin todo /\ j \notin diagnostics
    BY <1>1, <1>2
  <2>2. ASSUME NEW j \in Sources PROVE FitsAt(m, j)'
    <3>1. FitsAt(m, j)
      BY DEF Fits
    <3>2. QED
      BY <1>1, <1>2, <2>1, <3>1 DEF FitsAt, Recurring
  <2>3. QED
    BY <2>2 DEF Fits
<1>3. CASE rev' = [rev EXCEPT !["after"][k] = Revision(k)] /\ UNCHANGED diagnostics
  <2>1. /\ rev'["before"] = rev["before"]
        /\ rev'["after"][k] = Revision(k)
        /\ \A j \in Sources \ {k} : rev'["after"][j] = rev["after"][j]
    BY <1>3 DEF Typed, TypeOK, Barriers, Keys
  <2>2. ASSUME snapshots[k] # None, snapshots[k].revision \in Versions,
               rev["before"][k] = snapshots[k].revision,
               Revision(k) = snapshots[k].revision
        PROVE  m[k] = snapshots[k].value
    <3>1. snapshots[k].revision = env[k].version
      BY <2>2, RevisionIsVersion, VersionsAreNumbers DEF Typed
    <3>2. m[k] = env[k].value
      BY <2>2, <3>1 DEF Fits, FitsAt
    <3>3. CASE Recurring(k, snapshots[k])
      BY <2>2, <3>3 DEF Fits, FitsAt
    <3>4. CASE ~Recurring(k, snapshots[k])
      BY <2>2, <3>1, <3>2, <3>4 DEF SnapshotsAreDated, Dated
    <3>5. QED
      BY <3>3, <3>4
  <2>3. QED
    BY <1>1, <1>3, <2>1, <2>2 DEF Fits, FitsAt, Recurring
<1>4. QED
  BY <1>2, <1>3 DEF CheckRevision

(* Evidence that is not raced was true at the moment, all of it. *)
LEMMA VerifiersGetTheMoment ==
  ASSUME Typed, Tidy, SnapshotsAreDated, MomentExists, StartVerifiers
  PROVE  VerifiersSeeOneMoment'
<1>1. /\ pc = "after" /\ todo = {} /\ UNCHANGED instants
      /\ diagnostics' = IF Raced THEN ActiveKeys ELSE diagnostics
      /\ \A k \in Sources : snapshots'[k] = IF k \in diagnostics' THEN None ELSE snapshots[k]
  BY DEF StartVerifiers, history, Keys
<1>2. PICK m \in instants : Fits(m)
  BY <1>1 DEF MomentExists
<1>3. ASSUME NEW k \in Sources, snapshots'[k] # None
      PROVE  m[k] = snapshots'[k].value
  <2>1. ~Raced
    BY <1>1, <1>3 DEF Tidy
  <2>2. k \notin diagnostics /\ snapshots'[k] = snapshots[k] /\ snapshots[k] # None
    BY <1>1, <1>3, <2>1
  <2>3. rev["before"][k] = rev["after"][k] /\ snapshots[k].revision = rev["after"][k]
    BY <2>1, <2>2 DEF Raced
  <2>4. CASE Recurring(k, snapshots[k])
    BY <1>2, <2>2, <2>4 DEF Fits, FitsAt
  <2>5. CASE ~Recurring(k, snapshots[k])
    <3>1. snapshots[k].revision \in Versions
      BY <2>2, <2>5 DEF SnapshotsAreDated, Dated
    <3>2. QED
      BY <1>1, <1>2, <2>2, <2>3, <3>1 DEF Fits, FitsAt
  <2>6. QED
    BY <2>4, <2>5
<1>4. QED
  BY <1>1, <1>2, <1>3 DEF VerifiersSeeOneMoment

(* All evidence a verifier is given was true at one instant of the evaluation,
   whatever changes meanwhile, if at most one of the sources is a file: the
   revision "absent" of one file can hide a change, but not of two at once. *)
THEOREM VerifiersSeeOneMomentHolds ==
  ASSUME \A j, k \in Files : j = k
  PROVE  Spec => []VerifiersSeeOneMoment
<1> DEFINE IInv == Tidy /\ BeforeIsDated /\ MomentExists /\ VerifiersSeeOneMoment
<1>1. Init => IInv
  BY TidyInit DEF Init, MomentExists, VerifiersSeeOneMoment
<1>2. Typed /\ SnapshotsAreDated /\ IInv /\ [Next]_vars => IInv'
  <2> SUFFICES ASSUME Typed, SnapshotsAreDated, Tidy, BeforeIsDated, MomentExists,
                      VerifiersSeeOneMoment, [Next]_vars
               PROVE  MomentExists' /\ VerifiersSeeOneMoment'
    BY TidyStep, BeforeStep
  <2>1. ASSUME pc' \notin {"read", "after", "verify"}
        PROVE  MomentExists' /\ VerifiersSeeOneMoment'
    BY <2>1 DEF MomentExists, VerifiersSeeOneMoment
  <2>2. ASSUME UNCHANGED <<env, pc, todo, rev, snapshots, diagnostics, instants>>
        PROVE  MomentExists' /\ VerifiersSeeOneMoment'
    BY <2>2 DEF MomentExists, VerifiersSeeOneMoment, Fits, FitsAt, Recurring
  <2>3. ASSUME NEW k \in Sources, Change(k)
        PROVE  MomentExists' /\ VerifiersSeeOneMoment'
    <3>1. UNCHANGED <<pc, snapshots>> /\ instants \subseteq instants'
      BY <2>3 DEF Change, locals
    <3>2. MomentExists'
      BY <2>3, <3>1, ChangeKeepsMoment DEF MomentExists
    <3>3. VerifiersSeeOneMoment'
      BY <3>1 DEF VerifiersSeeOneMoment
    <3>4. QED
      BY <3>2, <3>3
  <2>4. ASSUME NEW k \in Sources, CheckRevision(k)
        PROVE  MomentExists' /\ VerifiersSeeOneMoment'
    <3>1. UNCHANGED <<pc, snapshots, instants>> /\ pc \in Barriers
      BY <2>4 DEF CheckRevision, history
    <3>2. CASE pc = "after"
      <4>1. MomentExists'
        BY <2>4, <3>1, <3>2, CheckKeepsMoment DEF MomentExists
      <4>2. QED
        BY <3>1, <3>2, <4>1 DEF VerifiersSeeOneMoment
    <3>3. CASE pc # "after"
      BY <2>1, <3>1, <3>3 DEF Barriers
    <3>4. QED
      BY <3>2, <3>3
  <2>5. ASSUME NEW k \in Sources, Read(k)
        PROVE  MomentExists' /\ VerifiersSeeOneMoment'
    <3>1. pc' = "read"
      BY <2>5 DEF Read
    <3>2. QED
      BY <2>5, <3>1, ReadKeepsMoment DEF VerifiersSeeOneMoment
  <2>6. ASSUME StartReads
        PROVE  MomentExists' /\ VerifiersSeeOneMoment'
    <3>1. /\ UNCHANGED <<env, instants>> /\ pc = "before" /\ pc' = "read"
      BY <2>6 DEF StartReads, history
    <3>2. \A k \in Sources : snapshots'[k] = None
      <4>1. \A k \in Sources : snapshots'[k] = snapshots[k]
        BY <2>6, EvaluationAssumption DEF StartReads, Typed, TypeOK, Keys
      <4>2. QED
        BY <3>1, <4>1 DEF Tidy, Nothing, Keys
    <3>3. Now \in instants' /\ \A k \in Sources : Now[k] = env'[k].value
      BY <3>1 DEF Tidy, Collecting, Now
    <3>4. PICK now \in instants : now = Now
      BY <3>1, <3>3
    <3>5. ASSUME NEW j \in Sources PROVE FitsAt(now, j)'
      BY <3>1, <3>2, <3>3, <3>4 DEF FitsAt
    <3>6. QED
      BY <3>1, <3>4, <3>5 DEF MomentExists, VerifiersSeeOneMoment, Fits
  <2>7. ASSUME StartRecheck
        PROVE  MomentExists' /\ VerifiersSeeOneMoment'
    <3>1. /\ UNCHANGED <<env, rev, snapshots, diagnostics, instants>>
          /\ pc = "read" /\ pc' = "after"
      BY <2>7 DEF StartRecheck, history
    <3>2. \A k \in Sources : rev["after"][k] = None
      BY <3>1 DEF Tidy, Nothing, Keys
    <3>3. PICK m \in instants : Fits(m)
      BY <3>1 DEF MomentExists
    <3>4. Fits(m)'
      BY <3>1, <3>2, <3>3, VersionsAreNumbers DEF Fits, FitsAt, Recurring
    <3>5. QED
      BY <3>1, <3>3, <3>4 DEF MomentExists, VerifiersSeeOneMoment
  <2>8. ASSUME StartVerifiers
        PROVE  MomentExists' /\ VerifiersSeeOneMoment'
    <3>1. pc' = "verify"
      BY <2>8 DEF StartVerifiers
    <3>2. QED
      BY <2>8, <3>1, VerifiersGetTheMoment DEF MomentExists
  <2>9. ASSUME NEW c \in Criteria, Verify(c)
        PROVE  MomentExists' /\ VerifiersSeeOneMoment'
    <3>1. UNCHANGED <<pc, snapshots, instants>> /\ pc = "verify"
      BY <2>9 DEF Verify, history
    <3>2. QED
      BY <3>1 DEF MomentExists, VerifiersSeeOneMoment
  <2>10. ASSUME Begin \/ StartFinalCheck \/ Conclude \/ Publish \/ SinkFails
                \/ Interrupt \/ Close
         PROVE  pc' \notin {"read", "after", "verify"}
    BY <2>10 DEF Begin, StartFinalCheck, Conclude, Publish, SinkFails, Interrupt, Close,
       Return
  <2>11. CASE UNCHANGED vars
    BY <2>2, <2>11 DEF vars, locals, history
  <2>12. QED
    BY <2>1, <2>3, <2>4, <2>5, <2>6, <2>7, <2>8, <2>9, <2>10, <2>11 DEF Next
<1>3. QED
  BY <1>1, <1>2, TypedHolds, DatesHold, PTL DEF Spec

-----------------------------------------------------------------------------
(* What the verifiers were given stays what it was until it is reported. *)
VerifiedMoment ==
  pc \in {"verify", "final"} =>
    \E now \in instants :
      \A k \in Sources : snapshots[k] # None => now[k] = snapshots[k].value

LEMMA ConcludeShowsMoment ==
  ASSUME Conclude, VerifiedMoment
  PROVE  ReportsShowOneMoment'
<1>1. pc = "final" /\ instants' = instants
  BY DEF Conclude, history
<1>2. PICK now \in instants :
        \A k \in Sources : snapshots[k] # None => now[k] = snapshots[k].value
  BY <1>1 DEF VerifiedMoment
<1>3. report'.evidence = IF Stale THEN Nothing ELSE snapshots
  BY DEF Conclude
<1>4. ASSUME NEW k \in Sources, report'.evidence[k] # None
      PROVE  now[k] = report'.evidence[k].value
  BY <1>2, <1>3, <1>4 DEF Nothing, Keys
<1>5. QED
  BY <1>1, <1>2, <1>4 DEF ReportsShowOneMoment

(* All evidence of a complete report was true at one instant of its evaluation
   if at most one of the sources is a file; a run refutes it for two. *)
THEOREM ReportsShowOneMomentHolds ==
  ASSUME \A j, k \in Files : j = k
  PROVE  Spec => []ReportsShowOneMoment
<1> DEFINE IInv == VerifiedMoment /\ ReportsShowOneMoment
<1>1. Init => IInv
  BY DEF Init, VerifiedMoment, ReportsShowOneMoment
<1>2. VerifiersSeeOneMoment' /\ IInv /\ [Next]_vars => IInv'
  <2> SUFFICES ASSUME VerifiersSeeOneMoment', VerifiedMoment, ReportsShowOneMoment, [Next]_vars
               PROVE  IInv'
    OBVIOUS
  <2>1. ASSUME pc' \notin {"verify", "final", "publish"}
        PROVE  IInv'
    BY <2>1 DEF VerifiedMoment, ReportsShowOneMoment
  <2>2. ASSUME UNCHANGED <<pc, snapshots, report>>, instants \subseteq instants'
        PROVE  IInv'
    BY <2>2 DEF VerifiedMoment, ReportsShowOneMoment
  <2>3. ASSUME NEW k \in Sources, Change(k) PROVE IInv'
    <3>1. UNCHANGED <<pc, snapshots, report>> /\ instants \subseteq instants'
      BY <2>3 DEF Change, locals
    <3>2. QED
      BY <2>2, <3>1
  <2>4. ASSUME NEW k \in Sources, CheckRevision(k) PROVE IInv'
    BY <2>2, <2>4 DEF CheckRevision, history
  <2>5. ASSUME NEW c \in Criteria, Verify(c) PROVE IInv'
    BY <2>2, <2>5 DEF Verify, history
  <2>6. ASSUME StartVerifiers PROVE IInv'
    BY <2>6 DEF StartVerifiers, VerifiersSeeOneMoment, VerifiedMoment, ReportsShowOneMoment
  <2>7. ASSUME StartFinalCheck PROVE IInv'
    BY <2>7 DEF StartFinalCheck, VerifiedMoment, ReportsShowOneMoment
  <2>8. ASSUME Conclude PROVE IInv'
    <3>1. pc' = "publish"
      BY <2>8 DEF Conclude
    <3>2. QED
      BY <2>8, <3>1, ConcludeShowsMoment DEF VerifiedMoment
  <2>9. ASSUME NEW k \in Sources, Read(k) PROVE IInv'
    BY <2>1, <2>9 DEF Read
  <2>10. ASSUME Begin \/ StartReads \/ StartRecheck \/ Publish \/ SinkFails \/ Interrupt \/ Close
         PROVE  IInv'
    BY <2>1, <2>10 DEF Begin, StartReads, StartRecheck, Publish, SinkFails, Interrupt, Close,
       Return
  <2>11. CASE UNCHANGED vars
    BY <2>2, <2>11 DEF vars, locals, history
  <2>12. QED
    BY <2>3, <2>4, <2>5, <2>6, <2>7, <2>8, <2>9, <2>10, <2>11 DEF Next
<1>3. QED
  BY <1>1, <1>2, VerifiersSeeOneMomentHolds, PTL DEF Spec
=============================================================================
