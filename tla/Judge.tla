------------------------------- MODULE Judge -------------------------------
(* ModelJudge (evaluation/judge.py): the semantic questions that the Runs'
   evaluations ask one shared judge, as concurrent tasks.

   A question waits for the lock of its Run in an inner task of
   CancellationToken.run, so there is an instant at which the inner task holds
   the lock and the question has not resumed ("granted").  It then waits for a
   permit, and asks the model once and again for every rejected format.  The
   engine runs the questions of an evaluation in one TaskGroup: when one task
   fails all are cancelled, and the Run is not evaluated again.              *)
EXTENDS OutputRecovery, Integers, FiniteSets, SequencesExt

CONSTANTS
  JudgeRuns,        \* the Runs
  Questions,        \* semantic criteria of an evaluation
  RunOf,            \* the Run that asks each
  Nobody,           \* the holder of a free lock
  MaxRequests,      \* limits.max_requests, per Run
  MaxTokens,        \* limits.max_tokens, per Run
  MaxFormatRetries, \* limits.max_format_retries, per question
  MaxConcurrency,   \* limits.max_concurrency, of the judge
  MaxReply          \* bound on the tokens one request uses

ASSUME JudgeAssumption ==
  /\ IsFiniteSet(Questions) /\ RunOf \in [Questions -> JudgeRuns]
  /\ Nobody \notin Questions
  /\ MaxRequests \in Nat \ {0} /\ MaxTokens \in Nat \ {0}
  /\ MaxConcurrency \in Nat \ {0} /\ MaxFormatRetries \in Nat
  /\ MaxReply \in Nat

VARIABLES
  usage,      \* per Run: requests, tokens, unreported_requests
  attempts,   \* per Run: what each request came to, and if it was reminded
  correction, \* per Run: format_correction
  holder,     \* per Run: the question that holds its lock
  stopped,    \* per Run: the token is cancelled
  failed,     \* per Run: a task of its TaskGroup failed
  closed,     \* per Run: close_run dropped its state
  at,         \* where each question is
  retry,      \* its retry_index
  verdict     \* how it ended

runs == <<usage, attempts, correction>>
judgeVars == <<usage, attempts, correction, holder, stopped, failed, closed,
               at, retry, verdict>>

Unused == [requests |-> 0, tokens |-> 0, unreported |-> 0]

(* "unread": truncated, refused or invalid_response, none of which is parsed *)
AttemptOutcomes ==
  {"interrupted", "unavailable", "budget_exceeded", "unread", "invalid"} \cup Accepted

Admitted == {"loop", "open", "completed"}   \* inside the semaphore
Locked == {"granted", "permit"} \cup Admitted
Busy == {"lock"} \cup Locked

JudgeInit ==
  /\ usage = [r \in JudgeRuns |-> Unused]
  /\ attempts = [r \in JudgeRuns |-> <<>>]
  /\ correction = [r \in JudgeRuns |-> FALSE]
  /\ holder = [r \in JudgeRuns |-> Nobody]
  /\ stopped = [r \in JudgeRuns |-> FALSE]
  /\ failed = [r \in JudgeRuns |-> FALSE]
  /\ closed = [r \in JudgeRuns |-> FALSE]
  /\ at = [q \in Questions |-> "new"]
  /\ retry = [q \in Questions |-> 0]
  /\ verdict = [q \in Questions |-> "none"]

Move(q, place) == at' = [at EXCEPT ![q] = place]

LeaveHolding(q, how) ==  \* mutant: the lock is released only inside the semaphore
  /\ Move(q, "ended")
  /\ verdict' = [verdict EXCEPT ![q] = how]
  /\ holder' = [holder EXCEPT ![RunOf[q]] = IF at[q] \in Admitted THEN Nobody ELSE @]

(* the question ends; if it held the lock, its finally clause releases it *)
Leave(q, how) ==
  /\ Move(q, "ended")
  /\ verdict' = [verdict EXCEPT ![q] = how]
  /\ holder' = [holder EXCEPT ![RunOf[q]] = IF at[q] \in Locked THEN Nobody ELSE @]

-----------------------------------------------------------------------------
(* Waiting *)

Ask(q) ==
  /\ at[q] = "new" /\ ~failed[RunOf[q]] /\ ~closed[RunOf[q]]
  /\ IF stopped[RunOf[q]] THEN Leave(q, "cancelled")
                          ELSE Move(q, "lock") /\ UNCHANGED <<holder, verdict>>
  /\ UNCHANGED <<runs, stopped, failed, closed, retry>>

GrantUnheld(q) ==  \* mutant: each question finds a lock of its own
  /\ at[q] = "lock" /\ ~stopped[RunOf[q]] /\ ~failed[RunOf[q]]
  /\ holder' = [holder EXCEPT ![RunOf[q]] = q]
  /\ Move(q, "granted")
  /\ UNCHANGED <<runs, stopped, failed, closed, retry, verdict>>

(* the inner task acquires the lock *)
Grant(q) ==
  /\ at[q] = "lock" /\ holder[RunOf[q]] = Nobody
  /\ ~stopped[RunOf[q]] /\ ~failed[RunOf[q]]
  /\ holder' = [holder EXCEPT ![RunOf[q]] = q]
  /\ Move(q, "granted")
  /\ UNCHANGED <<runs, stopped, failed, closed, retry, verdict>>

(* the question itself goes on, invoke() begins *)
Resume(q) ==
  /\ at[q] = "granted" /\ ~failed[RunOf[q]]
  /\ IF stopped[RunOf[q]] THEN Leave(q, "cancelled")
                          ELSE Move(q, "permit") /\ UNCHANGED <<holder, verdict>>
  /\ UNCHANGED <<runs, stopped, failed, closed, retry>>

(* everywhere else cancellation.run interrupts it *)
Interrupt(q) ==
  /\ at[q] \in Busy \ {"granted"} /\ stopped[RunOf[q]]
  /\ Leave(q, "cancelled")
  /\ UNCHANGED <<runs, stopped, failed, closed, retry>>

(* the TaskGroup cancels the question's task.  Between the grant and its
   resumption nobody releases the lock: the exception leaves before the try *)
Abandon(q) ==
  /\ at[q] \in Busy /\ failed[RunOf[q]]
  /\ IF at[q] = "granted"
       THEN /\ Move(q, "ended") /\ verdict' = [verdict EXCEPT ![q] = "abandoned"]
            /\ UNCHANGED holder
       ELSE Leave(q, "abandoned")
  /\ UNCHANGED <<runs, stopped, failed, closed, retry>>

(* asyncio.timeout around the permit and everything after it *)
TimeOut(q) ==
  /\ at[q] \in {"permit"} \cup Admitted
  /\ Leave(q, "unknown")
  /\ UNCHANGED <<runs, stopped, failed, closed, retry>>

-----------------------------------------------------------------------------
(* One request *)

HasPermit(q) ==
  /\ at[q] = "permit" => Cardinality({p \in Questions : at[p] \in Admitted}) < MaxConcurrency
  /\ at[q] \in {"permit", "loop"}

(* the budget of the Run cannot take, or cannot be seen to take, one more *)
Exhausted(r) ==
  \/ usage[r].unreported > 0
  \/ usage[r].requests >= MaxRequests
  \/ usage[r].tokens >= MaxTokens

(* the budget is gone, or the prompt, as any may be, above max_prompt_bytes *)
Refuse(q) ==
  /\ HasPermit(q) /\ ~stopped[RunOf[q]]
  /\ Leave(q, "unknown")
  /\ UNCHANGED <<runs, stopped, failed, closed, retry>>

Send(q) ==
  LET r == RunOf[q]
  IN /\ HasPermit(q) /\ ~stopped[r] /\ ~Exhausted(r)
     /\ usage' = [usage EXCEPT ![r].requests = @ + 1, ![r].unreported = @ + 1]
     /\ attempts' = [attempts EXCEPT ![r] =
                       Append(@, [outcome |-> "interrupted", reminded |-> correction[r]])]
     /\ Move(q, "open")
     /\ UNCHANGED <<correction, holder, stopped, failed, closed, retry, verdict>>

(* the completion event, with its usage or without *)
Complete(q) ==
  /\ at[q] = "open" /\ ~stopped[RunOf[q]]
  /\ \/ UNCHANGED usage
     \/ \E n \in 0..MaxReply :
          usage' = [usage EXCEPT ![RunOf[q]].tokens = @ + n, ![RunOf[q]].unreported = @ - 1]
  /\ Move(q, "completed")
  /\ UNCHANGED <<attempts, correction, holder, stopped, failed, closed, retry, verdict>>

(* the provider fails, the stream goes on after its completion, is too long
   or counts no integers: one unknown verdict, the attempt stays "interrupted" *)
Break(q) ==
  /\ at[q] \in {"open", "completed"}
  /\ Leave(q, "unknown")
  /\ UNCHANGED <<runs, stopped, failed, closed, retry>>

(* what _parse makes of a text: bindings that do not fit are a format error *)
Readings == {ParseOutcome[text] : text \in Texts}

(* _interpret: usage and budget come before any content *)
Interpretations(q) ==
  LET u == usage[RunOf[q]]
  IN IF at[q] = "open" \/ u.unreported > 0 THEN {"unavailable"}
     ELSE IF u.tokens > MaxTokens THEN {"budget_exceeded"}
     ELSE {"unread"} \cup Readings

(* the stream has ended; a cancellation in this very instant comes too late *)
Finish(q) ==
  LET r == RunOf[q]
  IN /\ at[q] \in {"open", "completed"}
     /\ \E outcome \in Interpretations(q) :
          /\ attempts' = [attempts EXCEPT ![r][Len(attempts[r])].outcome = outcome]
          /\ correction' = IF outcome \in Readings
                             THEN [correction EXCEPT ![r] = Reminds(outcome)] ELSE correction
          /\ IF outcome = "invalid" /\ retry[q] < MaxFormatRetries
               THEN /\ Move(q, "loop")
                    /\ retry' = [retry EXCEPT ![q] = @ + 1]
                    /\ UNCHANGED <<holder, verdict>>
               ELSE /\ \E v \in {"unknown"} \cup
                                (IF outcome \in Accepted THEN {"known"} ELSE {}) : Leave(q, v)
                    /\ UNCHANGED retry
     /\ UNCHANGED <<usage, stopped, failed, closed>>

-----------------------------------------------------------------------------
(* The Run *)

Stop(r) ==
  /\ ~stopped[r] /\ ~closed[r]
  /\ stopped' = [stopped EXCEPT ![r] = TRUE]
  /\ UNCHANGED <<runs, holder, failed, closed, at, retry, verdict>>

OneOf(r) == \E q \in Questions : RunOf[q] = r /\ at[q] \in Busy

(* a rule, a guard or a question of the same evaluation raises *)
Fail(r) ==
  /\ ~failed[r] /\ OneOf(r)
  /\ failed' = [failed EXCEPT ![r] = TRUE]
  /\ UNCHANGED <<runs, holder, stopped, closed, at, retry, verdict>>

(* close_run, after the last evaluation: a held lock makes it raise *)
CloseRun(r) ==
  /\ ~closed[r] /\ ~OneOf(r) /\ holder[r] = Nobody
  /\ closed' = [closed EXCEPT ![r] = TRUE]
  /\ usage' = [usage EXCEPT ![r] = Unused]
  /\ attempts' = [attempts EXCEPT ![r] = <<>>]
  /\ correction' = [correction EXCEPT ![r] = FALSE]
  /\ UNCHANGED <<holder, stopped, failed, at, retry, verdict>>

Answer(q) ==
  Grant(q) \/ Resume(q) \/ Interrupt(q) \/ Abandon(q) \/ TimeOut(q) \/ Refuse(q)
    \/ Send(q) \/ Complete(q) \/ Break(q) \/ Finish(q)

JudgeNext ==
  \/ \E q \in Questions : Ask(q) \/ Answer(q)
  \/ \E r \in JudgeRuns : Stop(r) \/ Fail(r) \/ CloseRun(r)

JudgeSpec == JudgeInit /\ [][JudgeNext]_judgeVars

(* tasks and timers run, the asyncio.timeout included *)
JudgeFairness == \A q \in Questions : WF_judgeVars(Answer(q))

-----------------------------------------------------------------------------
(* Every variable stays in the range the code gives it. *)
JudgeTypeOK ==
  /\ usage \in [JudgeRuns -> [requests : Nat, tokens : Nat, unreported : Nat]]
  /\ attempts \in [JudgeRuns -> Seq([outcome : AttemptOutcomes, reminded : BOOLEAN])]
  /\ correction \in [JudgeRuns -> BOOLEAN]
  /\ holder \in [JudgeRuns -> Questions \cup {Nobody}]
  /\ stopped \in [JudgeRuns -> BOOLEAN] /\ failed \in [JudgeRuns -> BOOLEAN]
  /\ closed \in [JudgeRuns -> BOOLEAN]
  /\ at \in [Questions -> {"new", "lock", "ended"} \cup Locked]
  /\ retry \in [Questions -> 0..MaxFormatRetries]
  /\ verdict \in [Questions -> {"none", "known", "unknown", "cancelled", "abandoned"}]

(* "Requests serialize within a Run": one question of it at a time competes for
   the permits, and the judge never has more requests in flight than permits,
   however waiting questions are cancelled. *)
OneRequestPerRun ==
  /\ \A p, q \in Questions :
       p # q /\ RunOf[p] = RunOf[q] => at[p] \notin Locked \/ at[q] \notin Locked
  /\ Cardinality({q \in Questions : at[q] \in Admitted}) <= MaxConcurrency

(* The overshoot of a Run's budget is at most one request, and one request of
   unknown usage is the last of the Run. *)
BudgetIsBounded ==
  \A r \in JudgeRuns :
    /\ usage[r].unreported <= 1
    /\ usage[r].requests <= MaxRequests
    /\ usage[r].tokens < MaxTokens + MaxReply \/ MaxReply = 0

(* attempts() accounts for usage(): one record per request, unknown usage only
   of a last request that was interrupted or came to nothing, and a reminder in
   each request that follows a text other than a bare object. *)
AttemptsAreTrue ==
  \A r \in JudgeRuns :
    LET tries == attempts[r]
        Read(i) == tries[i].outcome \in Readings
    IN /\ Len(tries) = usage[r].requests
       /\ \A i \in 1..Len(tries) :
            /\ tries[i].outcome = "unavailable" => i = Len(tries) /\ usage[r].unreported = 1
            /\ tries[i].reminded <=>
                 \E j \in 1..i - 1 : /\ Read(j) /\ tries[j].outcome # "valid"
                                     /\ \A k \in j + 1..i - 1 : ~Read(k)
       /\ usage[r].unreported = 1 =>
            Last(tries).outcome \in {"interrupted", "unavailable"}

(* What the judge tells of a Run's requests and tokens is what was sent and
   what is known of it. *)
SpendingIsAccounted == BudgetIsBounded /\ AttemptsAreTrue

(* Every question is answered or ends with its evaluation: the lock that an
   abandoned question leaves held stops nobody. *)
QuestionsEnd == \A q \in Questions : at[q] # "new" ~> at[q] = "ended"
=============================================================================
