---------------------------- MODULE ContextViews ----------------------------
(* The messages a model is shown: each turn of a Run the kernel asks its
   context pipeline for a view (kernel/runtime.py, _build_context).  The whole
   chain is modelled, from the outside in: _PlanningSession.build,
   TrajectoryContextPipeline, SkillsContextPipeline and
   DerivedCompactionPipeline.  It lives as long as the harness, while other
   programs edit the files of the skills.

   Of a message its kind, its place in the Conversation and the skills its text
   names are kept; of a file only its version.                                *)
EXTENDS Integers, SequencesExt, FiniteSets

CONSTANTS
  SkillOrder,       \* the skill directories as discover() sorts them
  Absent,           \* no such file
  MinimumMessages,  \* of DerivedCompactionPipeline
  MaxTexts,         \* bound on the edits of files
  MaxRuns,
  MaxViews,         \* limits.max_turns
  MaxInputs,        \* bound on the steering of a turn
  MaxPlans          \* bound on the plan versions of a Run

Skills == ToSet(SkillOrder)

ASSUME ContextAssumption ==
  /\ SkillOrder \in Seq(Skills) /\ IsInjective(SkillOrder)
  /\ Absent \notin Nat
  /\ MinimumMessages \in Nat \ {0}
  /\ MaxTexts \in Nat /\ MaxRuns \in Nat /\ MaxViews \in Nat /\ MaxInputs \in Nat
  /\ MaxPlans \in Nat \ {0}

VARIABLES
  files,       \* the version of each file of each skill
  texts,       \* versions written
  catalog,     \* SkillCatalog._skills: the files of each skill found, {} if it is none
  discovered,  \* _discovered
  loaded,      \* _skill_content, <<>> if it is not cached
  draft,       \* the content that is being read
  up,          \* _started
  conversation,
  begun,       \* Runs so far
  step,        \* where the Run is
  turn,
  pending,     \* pending_messages of the workspace
  due,         \* transient_instructions: of the next view, or of the one being built
  given,       \* instructions the Run was given so far
  plan_version,  \* of the execution plan, 0 without one
  view,
  heard,       \* history: the instructions shown, in order
  chosen,      \* history: the skills in the first view of the Run
  told         \* history: the content first shown of a skill

skillVars == <<files, texts, catalog, discovered, loaded, draft, up>>
runVars == <<conversation, begun, step, turn, pending, due, given, plan_version, view, heard,
             chosen, told>>
contextVars == <<skillVars, runVars>>

Parts == {"skill", "template"}

ContextInit ==
  /\ files \in [Skills -> {[skill |-> 0, template |-> 0], [skill |-> 0, template |-> Absent]}]
  /\ texts = 0
  /\ catalog = [s \in Skills |-> {}] /\ discovered = FALSE
  /\ loaded = [s \in Skills |-> <<>>] /\ draft = <<>> /\ up = FALSE
  /\ conversation \in {<<>>, <<[kind |-> "system", id |-> 1, names |-> {}]>>}
  /\ begun = 0 /\ step = "idle" /\ turn = 0
  /\ pending = <<>> /\ due = <<>> /\ given = 0 /\ plan_version = 0
  /\ view = <<>> /\ heard = <<>> /\ chosen = {}
  /\ told = [s \in Skills |-> <<>>]

-----------------------------------------------------------------------------
(* The catalog *)

(* discover() *)
Found == [s \in Skills |-> IF files[s].skill = Absent THEN {}
                           ELSE {p \in Parts : files[s][p] # Absent}]

StartAfresh ==  \* mutant: every start looks for the skills anew
  /\ ~up /\ step = "idle"
  /\ discovered' = TRUE /\ catalog' = Found /\ loaded' = [s \in Skills |-> <<>>]
  /\ up' \in BOOLEAN
  /\ UNCHANGED <<files, texts, draft, runVars>>

(* start(): the skills are looked for once, then the compactor may fail *)
StartContext ==
  /\ ~up /\ step = "idle"
  /\ discovered' = TRUE
  /\ catalog' = IF discovered THEN catalog ELSE Found
  /\ up' \in BOOLEAN
  /\ UNCHANGED <<files, texts, loaded, draft, runVars>>

(* shutdown(): the catalog and its contents stay *)
ShutdownContext ==
  /\ up /\ step = "idle"
  /\ up' = FALSE
  /\ UNCHANGED <<files, texts, catalog, discovered, loaded, draft, runVars>>

EditFile ==
  /\ texts < MaxTexts
  /\ texts' = texts + 1
  /\ \E s \in Skills, p \in Parts :
       \E v \in {texts', Absent} : files' = [files EXCEPT ![s][p] = v]
  /\ UNCHANGED <<catalog, discovered, loaded, draft, up, runVars>>

(* _latest_user_task: the skills it names *)
Task ==
  LET messages == conversation \o pending
      users == {i \in 1..Len(messages) : messages[i].kind = "user"}
  IN IF users = {} THEN {}
     ELSE messages[CHOOSE i \in users : \A j \in users : j <= i].names

(* the places of those that are in the catalog *)
Named == {i \in 1..Len(SkillOrder) : catalog[SkillOrder[i]] # {} /\ SkillOrder[i] \in Task}

(* select_explicit_skill_from_text: the first of the catalog that the task names *)
Selected == SkillOrder[CHOOSE i \in Named : \A j \in Named : i <= j]

PartsOf(s) == SelectSeq(<<"skill", "template">>, LAMBDA p : p \in catalog[s])

-----------------------------------------------------------------------------
(* The Run, as the kernel and the harness have it *)

Written(kind, i, names) ==
  [kind |-> kind, id |-> Len(conversation) + Len(pending) + i, names |-> names]

(* calls and their results *)
Exchange == <<Written("calls", 1, {}), Written("results", 2, {})>>

Over ==
  /\ step' = "idle" /\ turn' = 0
  /\ pending' = <<>> /\ due' = <<>> /\ given' = 0 /\ plan_version' = 0
  /\ view' = <<>> /\ heard' = <<>> /\ chosen' = {}

(* run(), planned or not, or continue_run() *)
BeginRun ==
  /\ up /\ step = "idle" /\ begun < MaxRuns
  /\ begun' = begun + 1
  /\ step' = "turn"
  /\ \/ \E names \in SUBSET Skills : pending' = <<Written("user", 1, names)>>
        /\ plan_version' \in {0, 1}
     \/ pending' = <<>> /\ plan_version' = 0
  /\ UNCHANGED <<skillVars, conversation, turn, due, given, view, heard, chosen, told>>

Instructions(kind, n) == [i \in 1..n |-> [kind |-> kind, number |-> given + i]]

(* a turn begins: the inputs queued are drained behind the feedback *)
BeginView ==
  /\ step = "turn" /\ turn < MaxViews
  /\ turn' = turn + 1
  /\ \E n \in 0..MaxInputs : /\ due' = due \o Instructions("steering", n)
                             /\ given' = given + n
  /\ step' = "skills"
  /\ UNCHANGED <<skillVars, conversation, begun, pending, plan_version, view, heard, chosen,
                 told>>

(* tools were called, and perhaps update_plan; a terminal tool's claim may be
   rejected *)
AnswerWithTools ==
  /\ step = "built"
  /\ pending' = pending \o Exchange
  /\ \/ due' = <<>> /\ UNCHANGED given
     \/ due' = Instructions("feedback", 1) /\ given' = given + 1
  /\ plan_version' \in {plan_version, IF plan_version \in 1..MaxPlans - 1
                                      THEN plan_version + 1 ELSE plan_version}
  /\ step' = "turn" /\ view' = <<>>
  /\ UNCHANGED <<skillVars, conversation, begun, turn, heard, chosen, told>>

(* a claim in plain text is rejected, and taken out of the messages again *)
AnswerRejected ==
  /\ step = "built"
  /\ due' = Instructions("feedback", 1) /\ given' = given + 1
  /\ step' = "turn" /\ view' = <<>>
  /\ UNCHANGED <<skillVars, conversation, begun, turn, pending, plan_version, heard, chosen,
                 told>>

(* the Run completes, and its Delta is committed *)
AnswerCommitted ==
  /\ step = "built"
  /\ \E e \in {Exchange, <<Written("assistant", 1, {})>>} :
       conversation' = conversation \o pending \o e
  /\ Over
  /\ UNCHANGED <<skillVars, begun, told>>

(* it fails or is cancelled: nothing of it is committed *)
RunFails ==
  /\ step \in {"turn", "compacting", "built"}
  /\ Over
  /\ UNCHANGED <<skillVars, conversation, begun, told>>

-----------------------------------------------------------------------------
(* build() *)

(* the content of the selected skill is not cached *)
Unread == Named # {} /\ loaded[Selected] = <<>>

(* build_skill_context_content: one file after the other; one that is gone
   fails the Run, and nothing is remembered *)
ReadPart ==
  /\ step = "skills" /\ Unread
  /\ LET s == Selected
         content == Append(draft, files[s][PartsOf(s)[Len(draft) + 1]])
     IN IF Last(content) = Absent
          THEN draft' = <<>> /\ UNCHANGED loaded /\ Over
          ELSE /\ IF Len(content) < Len(PartsOf(s))
                    THEN draft' = content /\ UNCHANGED loaded
                    ELSE draft' = <<>> /\ loaded' = [loaded EXCEPT ![s] = content]
               /\ UNCHANGED <<step, turn, pending, due, given, plan_version, view, heard, chosen>>
  /\ UNCHANGED <<files, texts, catalog, discovered, up, conversation, begun, told>>

(* what SkillsContextPipeline puts before the transient instructions *)
SkillInstructions ==
  (IF \E s \in Skills : catalog[s] # {} THEN <<[kind |-> "index"]>> ELSE <<>>)
    \o (IF Named = {} THEN <<>>
        ELSE <<[kind |-> "skill", skill |-> Selected, text |-> loaded[Selected]]>>)

Transient == SkillInstructions \o due

SystemEnd ==
  LET other == {i \in 1..Len(conversation) : conversation[i].kind # "system"}
  IN IF other = {} THEN Len(conversation)
     ELSE (CHOOSE i \in other : \A j \in other : i <= j) - 1

History == SubSeq(conversation, SystemEnd + 1, Len(conversation))

CompactedBare ==  \* mutant: the summary's view is made of messages only
  SubSeq(conversation, 1, SystemEnd) \o <<[kind |-> "summary", of |-> History]>> \o pending

(* the view with the summary, and the one of IdentityContextPipeline *)
Compacted ==
  SubSeq(conversation, 1, SystemEnd) \o <<[kind |-> "summary", of |-> History]>>
    \o pending \o Transient
Identical == conversation \o pending \o Transient

ShownSkills(v) == {e \in ToSet(v) : e.kind = "skill"}
Heard(v) ==
  FlattenSeq([i \in 1..Len(v) |->
    IF v[i].kind \in {"feedback", "steering"} THEN <<v[i]>> ELSE <<>>])

(* the trajectory's projection and the newest plan are put behind it *)
Deliver(base) ==
  /\ view' = base \o <<[kind |-> "trajectory"]>>
                  \o (IF plan_version = 0 THEN <<>>
                      ELSE <<[kind |-> "plan", version |-> plan_version]>>)
  /\ step' = "built"
  /\ due' = <<>>
  /\ heard' = heard \o Heard(view')
  /\ chosen' = IF turn = 1 THEN {e.skill : e \in ShownSkills(view')} ELSE chosen
  /\ told' = [s \in Skills |->
       LET shown == {e.text : e \in {t \in ShownSkills(view') : t.skill = s}}
       IN IF told[s] = <<>> /\ shown # {} THEN CHOOSE text \in shown : TRUE ELSE told[s]]
  /\ UNCHANGED <<skillVars, conversation, begun, turn, pending, given, plan_version>>

Ready == step = "skills" /\ ~Unread

BuildIdentical == Ready /\ Len(History) < MinimumMessages /\ Deliver(Identical)

(* the compactor is awaited *)
BeginCompaction ==
  /\ Ready /\ Len(History) >= MinimumMessages
  /\ step' = "compacting"
  /\ UNCHANGED <<skillVars, conversation, begun, turn, pending, due, given, plan_version, view,
                 heard, chosen, told>>

BuildCompacted == step = "compacting" /\ Deliver(Compacted)

ContextNext ==
  \/ StartContext \/ ShutdownContext \/ EditFile \/ BeginRun
  \/ BeginView \/ ReadPart \/ BuildIdentical \/ BeginCompaction \/ BuildCompacted
  \/ AnswerWithTools \/ AnswerRejected \/ AnswerCommitted \/ RunFails

ContextSpec == ContextInit /\ [][ContextNext]_contextVars

-----------------------------------------------------------------------------
(* Every variable stays in the range the code gives it. *)
ContextTypeOK ==
  /\ files \in [Skills -> [Parts -> Nat \cup {Absent}]] /\ texts \in 0..MaxTexts
  /\ catalog \in [Skills -> SUBSET Parts] /\ discovered \in BOOLEAN /\ up \in BOOLEAN
  /\ loaded \in [Skills -> Seq(Nat)] /\ draft \in Seq(Nat) /\ told \in [Skills -> Seq(Nat)]
  /\ step \in {"idle", "turn", "skills", "compacting", "built"}
  /\ begun \in 0..MaxRuns /\ turn \in 0..MaxViews /\ given \in Nat
  /\ plan_version \in 0..MaxPlans /\ chosen \subseteq Skills

MessageKinds == {"system", "user", "assistant", "calls", "results"}

(* the messages an item of a view is, or stands for *)
Spoken(e) ==
  CASE e.kind = "summary" -> e.of
    [] e.kind \in MessageKinds -> <<e>>
    [] OTHER -> <<>>

Retold(v) == FlattenSeq([i \in 1..Len(v) |-> Spoken(v[i])])

(* Whatever is summarized, decorated and appended, a view tells the model all
   of the Conversation and of the Run, in order and once; each feedback and
   each steering input of the Run was shown in exactly one view, in the order
   given; its last word is the newest plan; and it holds a message to answer,
   unless the Run continues a Conversation of which only summary and
   instructions are left. *)
ViewsTellTheRun ==
  step = "built" =>
    /\ Retold(view) = conversation \o pending
    /\ [i \in 1..Len(heard) |-> heard[i].number] = [i \in 1..given |-> i]
    /\ plan_version # 0 => Last(view) = [kind |-> "plan", version |-> plan_version]
    /\ \/ \E e \in ToSet(view) : e.kind \in MessageKinds \ {"system"}
       \/ pending = <<>> /\ (History = <<>> \/ \E e \in ToSet(view) : e.kind = "summary")

(* The instructions of a skill do not change under a model: all views of a Run
   show the same one skill or none, and a skill's text is the one first shown
   of it, whatever becomes of its files and whoever restarts the pipeline. *)
SkillsAreStable ==
  step = "built" =>
    /\ {e.skill : e \in ShownSkills(view)} = chosen
    /\ \A e \in ShownSkills(view) : e.text = told[e.skill]
=============================================================================
