----------------------------- MODULE JudgeProofs -----------------------------
(***************************************************************************)
(* Proofs about Judge: for any number of Runs, questions and permits, how  *)
(* requests exclude each other and what they may cost.                     *)
(***************************************************************************)
EXTENDS Judge, FiniteSetTheorems, TLAPS

Places == {"new", "lock", "ended"} \cup Locked

(* Where a question is and who holds the lock of a Run. *)
Standing ==
  /\ at \in [Questions -> Places]
  /\ holder \in [JudgeRuns -> Questions \cup {Nobody}]

(* A question past the lock holds it.  The converse fails: an abandoned one may
   leave it held. *)
Holding == \A q \in Questions : at[q] \in Locked => holder[RunOf[q]] = q

InFlight == {q \in Questions : at[q] \in Admitted}

(* Only a question without a request in flight asks for a permit. *)
Permitting == Cardinality(InFlight) <= MaxConcurrency

(* While a request is in flight its usage is the one that is unknown, and the
   budget was not spent when it began. *)
Spending ==
  /\ usage \in [JudgeRuns -> [requests : Nat, tokens : Nat, unreported : Nat]]
  /\ BudgetIsBounded
  /\ \A q \in Questions : at[q] = "open" =>
       usage[RunOf[q]].unreported = 1 /\ usage[RunOf[q]].tokens < MaxTokens

LEMMA Leaving ==
  ASSUME NEW q \in Questions, NEW how, Standing, Leave(q, how)
  PROVE  /\ at' = [at EXCEPT ![q] = "ended"]
         /\ at[q] \in Locked => holder' = [holder EXCEPT ![RunOf[q]] = Nobody]
         /\ at[q] \notin Locked => holder' = holder
BY JudgeAssumption DEF Leave, Move, Standing

(* What a step does to one question: it stays, leaves, or goes on. *)
Goes(q, from, to) == at[q] \in from /\ at' = [at EXCEPT ![q] = to] /\ UNCHANGED holder

Acts(q) ==
  \/ \E how : Leave(q, how)
  \/ Goes(q, {"new"}, "lock")
  \/ /\ at[q] = "lock" /\ holder[RunOf[q]] = Nobody
     /\ holder' = [holder EXCEPT ![RunOf[q]] = q] /\ at' = [at EXCEPT ![q] = "granted"]
  \/ Goes(q, {"granted"}, "permit")
  \/ Goes(q, {"granted"}, "ended")
  \/ HasPermit(q) /\ Goes(q, {"permit", "loop"}, "open")
  \/ Goes(q, {"open"}, "completed")
  \/ Goes(q, {"open", "completed"}, "loop")

(* Every step is one of these for one question, or moves nobody. *)
LEMMA EveryStep ==
  ASSUME [JudgeNext]_judgeVars
  PROVE  UNCHANGED <<at, holder>> \/ \E q \in Questions : Acts(q)
<1>1. ASSUME NEW q \in Questions, Ask(q) PROVE Acts(q)
  BY <1>1 DEF Ask, Move, Acts, Goes
<1>2. ASSUME NEW q \in Questions, Answer(q) PROVE Acts(q)
  <2>1. CASE Grant(q)
    BY <2>1 DEF Grant, Move, Acts
  <2>2. CASE Resume(q)
    BY <2>2 DEF Resume, Move, Acts, Goes
  <2>3. CASE Interrupt(q)
    BY <2>3 DEF Interrupt, Acts
  <2>4. CASE Abandon(q)
    BY <2>4 DEF Abandon, Move, Acts, Goes
  <2>5. CASE TimeOut(q) \/ Refuse(q) \/ Break(q)
    BY <2>5 DEF TimeOut, Refuse, Break, Acts
  <2>6. CASE Send(q)
    BY <2>6 DEF Send, HasPermit, Move, Acts, Goes
  <2>7. CASE Complete(q)
    BY <2>7 DEF Complete, Move, Acts, Goes
  <2>8. CASE Finish(q)
    BY <2>8 DEF Finish, Move, Acts, Goes
  <2>9. QED
    BY <1>2, <2>1, <2>2, <2>3, <2>4, <2>5, <2>6, <2>7, <2>8 DEF Answer
<1>3. ASSUME NEW r \in JudgeRuns, Stop(r) \/ Fail(r) \/ CloseRun(r)
      PROVE  UNCHANGED <<at, holder>>
  BY <1>3 DEF Stop, Fail, CloseRun
<1>4. CASE UNCHANGED judgeVars
  BY <1>4 DEF judgeVars
<1>5. QED
  BY <1>1, <1>2, <1>3, <1>4 DEF JudgeNext

(* Nobody is past the lock without holding it. *)
LEMMA HoldingStep ==
  ASSUME Standing, Holding, [JudgeNext]_judgeVars
  PROVE  Standing' /\ Holding'
<1> USE JudgeAssumption DEF Places, Locked, Admitted
<1>1. CASE UNCHANGED <<at, holder>>
  BY <1>1 DEF Standing, Holding
<1>2. ASSUME NEW q \in Questions, Acts(q) PROVE Standing' /\ Holding'
  <2>1. ASSUME NEW how, Leave(q, how) PROVE Standing' /\ Holding'
    BY <2>1, Leaving DEF Standing, Holding
  <2>2. CASE /\ at[q] = "lock" /\ holder[RunOf[q]] = Nobody
             /\ holder' = [holder EXCEPT ![RunOf[q]] = q] /\ at' = [at EXCEPT ![q] = "granted"]
    BY <2>2 DEF Standing, Holding
  <2>3. ASSUME NEW from \in {{"new"}, {"granted"}, {"permit", "loop"}, {"open"}, {"open", "completed"}},
               NEW to \in Places, Goes(q, from, to),
               to \in Locked => from # {"new"}
        PROVE  Standing' /\ Holding'
    BY <2>3 DEF Goes, Standing, Holding
  <2>4. QED
    BY <1>2, <2>1, <2>2, <2>3 DEF Acts
<1>3. QED
  BY <1>1, <1>2, EveryStep

(* The requests in flight are a finite set, and only a question with a permit
   to take adds to them. *)
LEMMA PermittingStep ==
  ASSUME Standing, Permitting, [JudgeNext]_judgeVars
  PROVE  Permitting'
<1> USE JudgeAssumption DEF Places, Locked, Admitted
<1>1. IsFiniteSet(InFlight) /\ Cardinality(InFlight) \in Nat
  <2>1. InFlight \in SUBSET Questions
    BY DEF InFlight
  <2>2. QED
    BY <2>1, FS_Subset, FS_CardinalityType
<1>2. ASSUME InFlight' \subseteq InFlight PROVE Permitting'
  <2>1. Cardinality(InFlight') <= Cardinality(InFlight) /\ Cardinality(InFlight') \in Nat
    BY <1>1, <1>2, FS_Subset, FS_CardinalityType
  <2>2. QED
    BY <1>1, <2>1 DEF Permitting
<1>3. CASE UNCHANGED <<at, holder>>
  BY <1>2, <1>3 DEF InFlight
<1>4. ASSUME NEW q \in Questions, Acts(q) PROVE Permitting'
  <2>1. ASSUME NEW to \in Places, at' = [at EXCEPT ![q] = to],
               to \notin Admitted \/ at[q] \in Admitted
        PROVE  Permitting'
    <3>1. InFlight' \subseteq InFlight
      BY <2>1 DEF InFlight, Standing
    <3>2. QED
      BY <1>2, <3>1
  <2>2. ASSUME NEW how, Leave(q, how) PROVE Permitting'
    BY <2>1, <2>2 DEF Leave, Move
  <2>3. CASE HasPermit(q) /\ Goes(q, {"permit", "loop"}, "open")
    <3>1. CASE at[q] = "loop"
      BY <2>1, <2>3, <3>1 DEF Goes
    <3>2. CASE at[q] = "permit"
      <4>1. Cardinality(InFlight) < MaxConcurrency /\ q \notin InFlight
        BY <2>3, <3>2 DEF HasPermit, InFlight
      <4>2. InFlight' = InFlight \cup {q}
        BY <2>3 DEF Goes, InFlight, Standing
      <4>3. Cardinality(InFlight') = Cardinality(InFlight) + 1
        BY <1>1, <4>1, <4>2, FS_AddElement
      <4>4. QED
        BY <1>1, <4>1, <4>3 DEF Permitting
    <3>3. QED
      BY <2>3, <3>1, <3>2 DEF Goes
  <2>4. QED
    BY <1>4, <2>1, <2>2, <2>3 DEF Acts, Goes
<1>5. QED
  BY <1>3, <1>4, EveryStep

(* A question asks only with the budget of its Run known and not spent, and
   nobody else spends it meanwhile. *)
LEMMA SpendingStep ==
  ASSUME Standing, Holding, Spending, [JudgeNext]_judgeVars
  PROVE  Spending'
<1> USE JudgeAssumption DEF Places, Locked, Admitted
<1> DEFINE Usage == [requests : Nat, tokens : Nat, unreported : Nat]
<1>1. ASSUME UNCHANGED usage, \A q \in Questions : at'[q] = "open" => at[q] = "open"
      PROVE  Spending'
  BY <1>1 DEF Spending, BudgetIsBounded
<1>2. ASSUME NEW q \in Questions, Ask(q) PROVE Spending'
  BY <1>1, <1>2 DEF Ask, Leave, Move, runs, Standing
<1>3. ASSUME NEW q \in Questions, Answer(q) PROVE Spending'
  <2> DEFINE r == RunOf[q]
  <2>1. CASE Grant(q) \/ Resume(q) \/ Interrupt(q) \/ Abandon(q) \/ TimeOut(q) \/ Refuse(q)
             \/ Break(q) \/ Finish(q)
    BY <1>1, <2>1 DEF Grant, Resume, Interrupt, Abandon, TimeOut, Refuse, Break, Finish,
                      Leave, Move, runs, Standing
  <2>2. r \in JudgeRuns /\ usage[r] \in Usage
    BY DEF Spending
  <2>3. CASE Send(q)
    <3>1. /\ usage' = [usage EXCEPT ![r].requests = @ + 1, ![r].unreported = @ + 1]
          /\ at' = [at EXCEPT ![q] = "open"] /\ at[q] \in {"permit", "loop"}
          /\ usage[r].unreported = 0 /\ usage[r].requests < MaxRequests
          /\ usage[r].tokens < MaxTokens
      BY <2>2, <2>3 DEF Send, Move, HasPermit, Exhausted
    <3>2. usage' \in [JudgeRuns -> Usage]
      BY <2>2, <3>1 DEF Spending
    <3>3. /\ usage'[r].unreported = 1 /\ usage'[r].requests <= MaxRequests
          /\ usage'[r].tokens = usage[r].tokens
          /\ \A o \in JudgeRuns \ {r} : usage'[o] = usage[o]
      BY <2>2, <3>1 DEF Spending
    <3>4. BudgetIsBounded'
      BY <2>2, <3>3 DEF Spending, BudgetIsBounded
    <3>5. ASSUME NEW p \in Questions, at'[p] = "open"
          PROVE  usage'[RunOf[p]].unreported = 1 /\ usage'[RunOf[p]].tokens < MaxTokens
      <4>1. CASE RunOf[p] = r
        BY <3>1, <3>3, <4>1
      <4>2. CASE RunOf[p] # r
        BY <3>1, <3>3, <3>5, <4>2 DEF Spending, Standing
      <4>3. QED
        BY <4>1, <4>2
    <3>6. QED
      BY <3>2, <3>4, <3>5 DEF Spending
  <2>4. CASE Complete(q)
    <3>1. /\ at' = [at EXCEPT ![q] = "completed"] /\ at[q] = "open"
          /\ usage[r].unreported = 1 /\ usage[r].tokens < MaxTokens
      BY <2>4 DEF Complete, Move, Spending
    <3>2. CASE UNCHANGED usage
      BY <1>1, <3>1, <3>2 DEF Standing
    <3>3. ASSUME NEW n \in 0..MaxReply,
                 usage' = [usage EXCEPT ![r].tokens = @ + n, ![r].unreported = @ - 1]
          PROVE  Spending'
      <4>1. usage' \in [JudgeRuns -> Usage]
        BY <2>2, <3>1, <3>3 DEF Spending
      <4>2. /\ usage'[r].unreported = 0 /\ usage'[r].requests = usage[r].requests
            /\ usage'[r].tokens = usage[r].tokens + n
            /\ \A o \in JudgeRuns \ {r} : usage'[o] = usage[o]
        BY <2>2, <3>1, <3>3 DEF Spending
      <4>3. BudgetIsBounded'
        <5>1. ASSUME NEW o \in JudgeRuns
              PROVE  /\ usage'[o].unreported <= 1 /\ usage'[o].requests <= MaxRequests
                     /\ usage'[o].tokens < MaxTokens + MaxReply \/ MaxReply = 0
          <6>1. CASE o = r
            BY <2>2, <3>1, <4>2, <6>1 DEF Spending, BudgetIsBounded
          <6>2. CASE o # r
            BY <4>2, <6>2 DEF Spending, BudgetIsBounded
          <6>3. QED
            BY <6>1, <6>2
        <5>2. QED
          BY <5>1 DEF BudgetIsBounded
      <4>4. ASSUME NEW p \in Questions, at'[p] = "open"
            PROVE  usage'[RunOf[p]].unreported = 1 /\ usage'[RunOf[p]].tokens < MaxTokens
        <5>1. p # q /\ at[p] = "open"
          BY <3>1, <4>4 DEF Standing
        <5>2. RunOf[p] # r
          BY <3>1, <5>1 DEF Holding
        <5>3. QED
          BY <4>2, <5>1, <5>2 DEF Spending
      <4>5. QED
        BY <4>1, <4>3, <4>4 DEF Spending
    <3>4. QED
      BY <2>4, <3>2, <3>3 DEF Complete
  <2>5. QED
    BY <1>3, <2>1, <2>3, <2>4 DEF Answer
<1>4. ASSUME NEW r \in JudgeRuns, Stop(r) \/ Fail(r) PROVE Spending'
  BY <1>1, <1>4 DEF Stop, Fail, runs
<1>5. ASSUME NEW r \in JudgeRuns, CloseRun(r) PROVE Spending'
  <2>1. /\ usage' = [usage EXCEPT ![r] = Unused] /\ UNCHANGED at
        /\ \A q \in Questions : at[q] = "open" => RunOf[q] # r
    BY <1>5 DEF CloseRun, OneOf, Busy
  <2>2. /\ Unused \in Usage /\ Unused.unreported <= 1 /\ Unused.requests <= MaxRequests
        /\ Unused.tokens < MaxTokens + MaxReply
    BY DEF Unused
  <2>3. QED
    BY <2>1, <2>2 DEF Spending, BudgetIsBounded
<1>6. CASE UNCHANGED judgeVars
  BY <1>1, <1>6 DEF judgeVars
<1>7. QED
  BY <1>2, <1>3, <1>4, <1>5, <1>6 DEF JudgeNext

-----------------------------------------------------------------------------
Tries == [outcome : AttemptOutcomes, reminded : BOOLEAN]

(* The last of the first n texts that were read is no bare object. *)
Owes(tries, n) ==
  \E j \in 1..n :
    /\ tries[j].outcome \in Readings /\ tries[j].outcome # "valid"
    /\ \A k \in j + 1..n : tries[k].outcome \notin Readings

(* What attempts() shows beside the usage, and what the next request is to be
   reminded of. *)
Accounted(tries, spent, reminder) ==
  /\ Len(tries) = spent.requests
  /\ \A i \in 1..Len(tries) :
       tries[i].outcome = "unavailable" => i = Len(tries) /\ spent.unreported = 1
  /\ \A i \in 1..Len(tries) : tries[i].reminded <=> Owes(tries, i - 1)
  /\ reminder <=> Owes(tries, Len(tries))
  /\ spent.unreported = 1 =>
       Len(tries) > 0 /\ tries[Len(tries)].outcome \in {"interrupted", "unavailable"}

(* The last attempt of a request in flight. *)
Undecided(tries) == Len(tries) > 0 /\ tries[Len(tries)].outcome = "interrupted"

Telling ==
  /\ attempts \in [JudgeRuns -> Seq(Tries)] /\ correction \in [JudgeRuns -> BOOLEAN]
  /\ \A r \in JudgeRuns : Accounted(attempts[r], usage[r], correction[r])
  /\ \A q \in Questions : at[q] \in {"open", "completed"} => Undecided(attempts[RunOf[q]])

LEMMA WhatIsRead ==
  Readings = {"valid", "recovered_markdown", "invalid"}
<1>1. /\ ParseOutcome["object"] = "valid" /\ ParseOutcome["fenced"] = "recovered_markdown"
      /\ ParseOutcome["malformed"] = "invalid"
  BY DEF ParseOutcome
<1>2. QED
  BY <1>1 DEF Readings, Texts

LEMMA OwesSame ==
  ASSUME NEW s, NEW t, NEW n \in Nat, \A i \in 1..n : t[i].outcome = s[i].outcome
  PROVE  Owes(t, n) <=> Owes(s, n)
BY DEF Owes

(* A longer record owes what the last text it adds says. *)
LEMMA OwesMore ==
  ASSUME NEW t, NEW n \in Nat
  PROVE  /\ t[n + 1].outcome \notin Readings => (Owes(t, n + 1) <=> Owes(t, n))
         /\ t[n + 1].outcome \in Readings => (Owes(t, n + 1) <=> t[n + 1].outcome # "valid")
<1>1. ASSUME t[n + 1].outcome \notin Readings PROVE Owes(t, n + 1) <=> Owes(t, n)
  <2>1. ASSUME Owes(t, n) PROVE Owes(t, n + 1)
    <3>1. PICK j \in 1..n : /\ t[j].outcome \in Readings /\ t[j].outcome # "valid"
                            /\ \A k \in j + 1..n : t[k].outcome \notin Readings
      BY <2>1 DEF Owes
    <3>2. \A k \in j + 1..n + 1 : k \in j + 1..n \/ k = n + 1
      OBVIOUS
    <3>3. \A k \in j + 1..n + 1 : t[k].outcome \notin Readings
      BY <1>1, <3>1, <3>2
    <3>4. j \in 1..n + 1
      OBVIOUS
    <3>5. QED
      BY <3>1, <3>3, <3>4 DEF Owes
  <2>2. ASSUME Owes(t, n + 1) PROVE Owes(t, n)
    <3>1. PICK j \in 1..n + 1 : /\ t[j].outcome \in Readings /\ t[j].outcome # "valid"
                                /\ \A k \in j + 1..n + 1 : t[k].outcome \notin Readings
      BY <2>2 DEF Owes
    <3>2. j # n + 1
      BY <1>1, <3>1
    <3>3. j \in 1..n /\ \A k \in j + 1..n : k \in j + 1..n + 1
      BY <3>2
    <3>4. QED
      BY <3>1, <3>3 DEF Owes
  <2>3. QED
    BY <2>1, <2>2
<1>2. ASSUME t[n + 1].outcome \in Readings PROVE Owes(t, n + 1) <=> t[n + 1].outcome # "valid"
  <2>1. n + 1 \in 1..n + 1 /\ (n + 1) + 1..n + 1 = {}
    OBVIOUS
  <2>2. ASSUME NEW j \in 1..n + 1, \A k \in j + 1..n + 1 : t[k].outcome \notin Readings
        PROVE  j = n + 1
    <3>1. CASE j # n + 1
      <4>1. n + 1 \in j + 1..n + 1
        BY <3>1
      <4>2. QED
        BY <1>2, <2>2, <4>1
    <3>2. QED
      BY <3>1
  <2>3. QED
    BY <1>2, <2>1, <2>2 DEF Owes
<1>3. QED
  BY <1>1, <1>2

(* One more request, reminded as the Run's correction says. *)
LEMMA AccountedSend ==
  ASSUME NEW tries \in Seq(Tries), NEW u, NEW w, NEW c \in BOOLEAN, Accounted(tries, u, c),
         u.unreported = 0, w.unreported = 1, w.requests = u.requests + 1,
         NEW t \in Seq(Tries), Len(t) = Len(tries) + 1,
         t[Len(t)] = [outcome |-> "interrupted", reminded |-> c],
         \A i \in 1..Len(tries) : t[i] = tries[i]
  PROVE  Accounted(t, w, c) /\ Undecided(t)
<1> DEFINE e == [outcome |-> "interrupted", reminded |-> c]
           n == Len(tries)
<1>2. /\ n \in Nat /\ Len(t) = n + 1 /\ t[n + 1] = e
      /\ \A i \in 1..n : t[i] = tries[i]
  OBVIOUS
<1>3. Undecided(t)
  BY <1>2 DEF Undecided
<1>4. ASSUME NEW i \in 1..n PROVE t[i].outcome # "unavailable" /\ (t[i].reminded <=> Owes(t, i - 1))
  <2>1. i - 1 \in Nat /\ \A k \in 1..i - 1 : k \in 1..n
    BY <1>2
  <2>2. Owes(t, i - 1) <=> Owes(tries, i - 1)
    BY <1>2, <2>1, OwesSame
  <2>3. tries[i].outcome # "unavailable" /\ (tries[i].reminded <=> Owes(tries, i - 1))
    BY DEF Accounted
  <2>4. t[i] = tries[i]
    BY <1>2
  <2>5. QED
    BY <2>2, <2>3, <2>4
<1>5. c <=> Owes(tries, n)
  BY DEF Accounted
<1>6. Owes(t, n + 1) <=> Owes(tries, n)
  <2>1. t[n + 1].outcome \notin Readings
    BY <1>2, WhatIsRead
  <2>2. \A i \in 1..n : t[i].outcome = tries[i].outcome
    BY <1>2
  <2>3. (Owes(t, n + 1) <=> Owes(t, n)) /\ (Owes(t, n) <=> Owes(tries, n))
    BY <1>2, <2>1, <2>2, OwesMore, OwesSame
  <2>4. QED
    BY <2>3
<1>7. \A i \in 1..Len(t) : t[i].reminded <=> Owes(t, i - 1)
  <2>1. SUFFICES ASSUME NEW i \in 1..Len(t) PROVE t[i].reminded <=> Owes(t, i - 1)
    OBVIOUS
  <2>2. CASE i \in 1..n
    BY <1>4, <2>2
  <2>3. CASE i = n + 1
    <3>1. i - 1 = n /\ t[i].reminded = c
      BY <1>2, <2>3
    <3>2. Owes(t, n) <=> Owes(tries, n)
      BY <1>2, OwesSame
    <3>3. QED
      BY <1>5, <3>1, <3>2
  <2>4. i \in 1..n \/ i = n + 1
    BY <1>2
  <2>5. QED
    BY <2>2, <2>3, <2>4
<1>8. \A i \in 1..Len(t) : t[i].outcome # "unavailable"
  <2>1. \A i \in 1..Len(t) : i \in 1..n \/ i = n + 1
    BY <1>2
  <2>2. QED
    BY <1>2, <1>4, <2>1
<1>9. Len(t) = w.requests
  BY <1>2 DEF Accounted
<1>10. c <=> Owes(t, Len(t))
  BY <1>2, <1>5, <1>6
<1>11. \A i \in 1..Len(t) : t[i].outcome = "unavailable" => i = Len(t) /\ w.unreported = 1
  BY <1>8
<1>12. w.unreported = 1 => Len(t) > 0 /\ t[Len(t)].outcome \in {"interrupted", "unavailable"}
  BY <1>3 DEF Undecided
<1>13. QED
  BY <1>3, <1>7, <1>9, <1>10, <1>11, <1>12 DEF Accounted

(* The usage of the request in flight becomes known. *)
LEMMA AccountedComplete ==
  ASSUME NEW tries \in Seq(Tries), NEW u, NEW w, NEW c, Accounted(tries, u, c),
         Undecided(tries), w.unreported = 0, w.requests = u.requests
  PROVE  Accounted(tries, w, c)
<1>1. \A i \in 1..Len(tries) : tries[i].outcome # "unavailable"
  BY DEF Accounted, Undecided
<1>2. QED
  BY <1>1 DEF Accounted

(* The request in flight comes to its outcome. *)
LEMMA AccountedFinish ==
  ASSUME NEW tries \in Seq(Tries), NEW u, NEW c \in BOOLEAN, Accounted(tries, u, c),
         Undecided(tries), NEW outcome \in AttemptOutcomes,
         outcome = "unavailable" <=> u.unreported = 1,
         NEW t \in Seq(Tries), Len(t) = Len(tries), t[Len(t)].outcome = outcome,
         t[Len(t)].reminded = tries[Len(t)].reminded,
         \A i \in 1..Len(tries) : i # Len(tries) => t[i] = tries[i],
         NEW d \in BOOLEAN, outcome \in Readings => (d <=> Reminds(outcome)),
         outcome \notin Readings => (d <=> c)
  PROVE  Accounted(t, u, d)
<1> DEFINE n == Len(tries)
<1>1. n \in Nat /\ n > 0 /\ tries[n] \in Tries /\ tries[n].outcome = "interrupted"
  BY DEF Undecided
<1>3. /\ Len(t) = n /\ t[n].outcome = outcome
      /\ \A i \in 1..n : i # n => t[i] = tries[i]
      /\ t[n].reminded = tries[n].reminded
  OBVIOUS
<1>5. ASSUME NEW i \in 1..n PROVE Owes(t, i - 1) <=> Owes(tries, i - 1)
  <2>1. i - 1 \in Nat /\ \A k \in 1..i - 1 : k \in 1..n /\ k # n
    BY <1>1
  <2>2. \A k \in 1..i - 1 : t[k].outcome = tries[k].outcome
    BY <1>3, <2>1
  <2>3. QED
    BY <2>1, <2>2, OwesSame
<1>6. \A i \in 1..n : t[i].reminded = tries[i].reminded
  BY <1>3
<1>7. \A i \in 1..n : t[i].reminded <=> Owes(t, i - 1)
  BY <1>5, <1>6 DEF Accounted
<1>8. d <=> Owes(t, n)
  <2>1. PICK m \in Nat : m + 1 = n
    <3>1. n - 1 \in Nat /\ (n - 1) + 1 = n
      BY <1>1
    <3>2. QED
      BY <3>1
  <2>2. \A k \in 1..m : t[k].outcome = tries[k].outcome
    <3>1. \A k \in 1..m : k \in 1..n /\ k # n
      BY <2>1
    <3>2. QED
      BY <1>3, <3>1
  <2>3. /\ outcome \notin Readings => (Owes(t, n) <=> Owes(tries, m))
        /\ outcome \in Readings => (Owes(t, n) <=> outcome # "valid")
    <3>1. Owes(t, m) <=> Owes(tries, m)
      BY <2>2, OwesSame
    <3>2. /\ t[m + 1].outcome \notin Readings => (Owes(t, m + 1) <=> Owes(t, m))
          /\ t[m + 1].outcome \in Readings => (Owes(t, m + 1) <=> t[m + 1].outcome # "valid")
      BY OwesMore
    <3>3. QED
      BY <1>3, <2>1, <3>1, <3>2
  <2>4. c <=> Owes(tries, m)
    <3>1. tries[m + 1].outcome \notin Readings
      BY <1>1, <2>1, WhatIsRead
    <3>2. Owes(tries, m + 1) <=> Owes(tries, m)
      BY <3>1, OwesMore
    <3>3. c <=> Owes(tries, n)
      BY DEF Accounted
    <3>4. QED
      BY <2>1, <3>2, <3>3
  <2>5. QED
    BY <2>3, <2>4 DEF Reminds
<1>9. \A i \in 1..n : t[i].outcome = "unavailable" => i = n /\ u.unreported = 1
  BY <1>3 DEF Accounted
<1>10. u.unreported = 1 => n > 0 /\ t[n].outcome = "unavailable"
  BY <1>1, <1>3
<1>11. Len(t) = u.requests
  BY <1>3 DEF Accounted
<1>12. QED
  BY <1>3, <1>7, <1>8, <1>9, <1>10, <1>11 DEF Accounted

(* attempts() stays what the usage says: only the question that holds the lock
   of a Run has a request in flight, and a request whose usage is unknown lets
   no other follow. *)
LEMMA TellingStep ==
  ASSUME Standing, Holding, Spending, Telling, [JudgeNext]_judgeVars
  PROVE  Telling'
<1> USE JudgeAssumption DEF Places, Locked, Admitted
<1> DEFINE Flying(q) == at[q] \in {"open", "completed"}
<1>1. ASSUME UNCHANGED runs, \A q \in Questions : Flying(q)' => Flying(q)
      PROVE  Telling'
  BY <1>1 DEF Telling, runs
<1>2. ASSUME NEW q \in Questions, Ask(q) PROVE Telling'
  BY <1>1, <1>2 DEF Ask, Leave, Move, Standing
<1>3. ASSUME NEW q \in Questions, Answer(q) PROVE Telling'
  <2> DEFINE r == RunOf[q]
             t == attempts[r]
  <2>1. CASE Grant(q) \/ Resume(q) \/ Interrupt(q) \/ Abandon(q) \/ TimeOut(q) \/ Refuse(q)
             \/ Break(q)
    BY <1>1, <2>1 DEF Grant, Resume, Interrupt, Abandon, TimeOut, Refuse, Break,
                      Leave, Move, Standing
  <2>2. /\ r \in JudgeRuns /\ t \in Seq(Tries) /\ correction[r] \in BOOLEAN
        /\ Accounted(t, usage[r], correction[r])
        /\ usage[r] \in [requests : Nat, tokens : Nat, unreported : Nat]
        /\ usage[r].unreported <= 1
    BY DEF Telling, Spending, BudgetIsBounded
  <2>3. ASSUME NEW p \in Questions, at[q] \in Locked, Flying(p), p # q
        PROVE  RunOf[p] # r
    BY <2>3 DEF Holding
  <2>4. CASE Send(q)
    <3> DEFINE w == usage'[r]
    <3>1. /\ usage' = [usage EXCEPT ![r].requests = @ + 1, ![r].unreported = @ + 1]
          /\ attempts' = [attempts EXCEPT ![r] =
                            Append(@, [outcome |-> "interrupted", reminded |-> correction[r]])]
          /\ at' = [at EXCEPT ![q] = "open"] /\ at[q] \in {"permit", "loop"}
          /\ usage[r].unreported = 0 /\ UNCHANGED correction
      BY <2>2, <2>4 DEF Send, Move, HasPermit, Exhausted
    <3>2. /\ w.unreported = 1 /\ w.requests = usage[r].requests + 1
          /\ \A o \in JudgeRuns \ {r} : usage'[o] = usage[o]
      BY <2>2, <3>1 DEF Spending
    <3>3. /\ attempts'[r] = Append(t, [outcome |-> "interrupted", reminded |-> correction[r]])
          /\ \A o \in JudgeRuns \ {r} : attempts'[o] = attempts[o]
      BY <2>2, <3>1 DEF Telling
    <3>4. attempts'[r] \in Seq(Tries) /\ Accounted(attempts'[r], w, correction[r])
            /\ Undecided(attempts'[r])
      <4>1. PICK tries : tries = attempts'[r]
        OBVIOUS
      <4>2. PICK spent : spent = usage'[r]
        OBVIOUS
      <4>3. [outcome |-> "interrupted", reminded |-> correction[r]] \in Tries
        BY <2>2 DEF Tries, AttemptOutcomes
      <4>4. /\ tries \in Seq(Tries) /\ Len(tries) = Len(t) + 1
            /\ tries[Len(tries)] = [outcome |-> "interrupted", reminded |-> correction[r]]
            /\ \A i \in 1..Len(t) : tries[i] = t[i]
        BY <2>2, <3>3, <4>1, <4>3
      <4>5. t \in Seq(Tries) /\ correction[r] \in BOOLEAN /\ Accounted(t, usage[r], correction[r])
        BY <2>2
      <4>6. /\ usage[r].unreported = 0 /\ spent.unreported = 1
            /\ spent.requests = usage[r].requests + 1
        BY <3>1, <3>2, <4>2
      <4>7. PICK tt, c, u : tt = t /\ c = correction[r] /\ u = usage[r]
        OBVIOUS
      <4>8. Accounted(tries, spent, c) /\ Undecided(tries)
        BY <4>4, <4>5, <4>6, <4>7, AccountedSend
      <4>9. QED
        BY <4>1, <4>2, <4>4, <4>7, <4>8
    <3>5. attempts' \in [JudgeRuns -> Seq(Tries)]
      BY <3>1, <3>3, <3>4 DEF Telling
    <3>6. \A o \in JudgeRuns : Accounted(attempts'[o], usage'[o], correction'[o])
      BY <3>1, <3>2, <3>3, <3>4 DEF Telling
    <3>7. ASSUME NEW p \in Questions, Flying(p)' PROVE Undecided(attempts'[RunOf[p]])
      <4>1. CASE RunOf[p] = r
        BY <3>4, <4>1
      <4>2. CASE RunOf[p] # r
        BY <3>1, <3>3, <3>7, <4>2 DEF Telling, Standing
      <4>3. QED
        BY <4>1, <4>2
    <3>8. correction' \in [JudgeRuns -> BOOLEAN]
      BY <3>1 DEF Telling
    <3>9. QED
      BY <3>5, <3>6, <3>7, <3>8 DEF Telling
  <2>5. CASE Complete(q)
    <3>1. /\ at' = [at EXCEPT ![q] = "completed"] /\ at[q] = "open"
          /\ usage[r].unreported = 1 /\ UNCHANGED <<attempts, correction>>
      BY <2>5 DEF Complete, Move, Spending
    <3>2. Undecided(t)
      BY <3>1 DEF Telling
    <3>3. \A p \in Questions : Flying(p)' => Flying(p)
      BY <3>1 DEF Standing
    <3>4. CASE UNCHANGED usage
      BY <1>1, <3>1, <3>3, <3>4 DEF runs
    <3>5. ASSUME NEW n \in 0..MaxReply,
                 usage' = [usage EXCEPT ![r].tokens = @ + n, ![r].unreported = @ - 1]
          PROVE  Telling'
      <4>1. /\ usage'[r].unreported = 0 /\ usage'[r].requests = usage[r].requests
            /\ \A o \in JudgeRuns \ {r} : usage'[o] = usage[o]
        BY <2>2, <3>1, <3>5 DEF Spending
      <4>2. Accounted(t, usage'[r], correction[r])
        BY <2>2, <3>2, <4>1, AccountedComplete
      <4>3. \A o \in JudgeRuns : Accounted(attempts[o], usage'[o], correction[o])
        BY <4>1, <4>2 DEF Telling
      <4>4. QED
        BY <3>1, <3>3, <4>3 DEF Telling
    <3>6. QED
      BY <2>5, <3>4, <3>5 DEF Complete
  <2>6. CASE Finish(q)
    <3>1. at[q] \in {"open", "completed"} /\ UNCHANGED usage
      BY <2>6 DEF Finish
    <3>2. Undecided(t)
      BY <3>1 DEF Telling
    <3>3. PICK outcome \in Interpretations(q) :
            /\ attempts' = [attempts EXCEPT ![r][Len(attempts[r])].outcome = outcome]
            /\ correction' = IF outcome \in Readings
                               THEN [correction EXCEPT ![r] = Reminds(outcome)] ELSE correction
            /\ at' = [at EXCEPT ![q] = "loop"] \/ at' = [at EXCEPT ![q] = "ended"]
      BY <2>6 DEF Finish, Move, Leave
    <3>4. outcome \in AttemptOutcomes /\ (outcome = "unavailable" <=> usage[r].unreported = 1)
      <4>1. CASE at[q] = "open" \/ usage[r].unreported > 0
        <5>1. usage[r].unreported = 1
          BY <2>2, <4>1 DEF Spending
        <5>2. outcome = "unavailable"
          BY <3>3, <4>1 DEF Interpretations
        <5>3. QED
          BY <5>1, <5>2 DEF AttemptOutcomes
      <4>2. CASE ~(at[q] = "open" \/ usage[r].unreported > 0)
        <5>1. usage[r].unreported # 1
          BY <4>2
        <5>2. outcome \in {"budget_exceeded", "unread", "valid", "recovered_markdown", "invalid"}
          BY <3>3, <4>2, WhatIsRead DEF Interpretations
        <5>3. QED
          BY <5>1, <5>2 DEF AttemptOutcomes, Accepted
      <4>3. QED
        BY <4>1, <4>2
    <3> DEFINE d == IF outcome \in Readings THEN Reminds(outcome) ELSE correction[r]
    <3>5. /\ attempts'[r] = [t EXCEPT ![Len(t)].outcome = outcome]
          /\ \A o \in JudgeRuns \ {r} : attempts'[o] = attempts[o]
          /\ DOMAIN attempts' = JudgeRuns /\ attempts' = [o \in JudgeRuns |-> attempts'[o]]
      BY <2>2, <3>3 DEF Telling
    <3>6. attempts'[r] \in Seq(Tries) /\ d \in BOOLEAN /\ Accounted(attempts'[r], usage[r], d)
      <4>1. PICK tries : tries = attempts'[r]
        OBVIOUS
      <4>2. t[Len(t)] \in Tries /\ [t[Len(t)] EXCEPT !.outcome = outcome] \in Tries
        <5>1. Len(t) \in 1..Len(t)
          BY <2>2, <3>2 DEF Undecided
        <5>2. t[Len(t)] \in Tries
          BY <2>2, <5>1
        <5>3. QED
          BY <3>4, <5>2 DEF Tries
      <4>3. /\ tries \in Seq(Tries) /\ Len(tries) = Len(t)
            /\ tries[Len(t)].outcome = outcome /\ tries[Len(t)].reminded = t[Len(t)].reminded
            /\ \A i \in 1..Len(t) : i # Len(t) => tries[i] = t[i]
        BY <2>2, <3>2, <3>5, <4>1, <4>2 DEF Undecided, Tries
      <4>4. d \in BOOLEAN
        BY <2>2 DEF Reminds
      <4>5. /\ t \in Seq(Tries) /\ correction[r] \in BOOLEAN
            /\ Accounted(t, usage[r], correction[r])
        BY <2>2
      <4>6. PICK tt, c, u, dd : tt = t /\ c = correction[r] /\ u = usage[r] /\ dd = d
        OBVIOUS
      <4>7. /\ outcome \in Readings => (dd <=> Reminds(outcome))
            /\ outcome \notin Readings => (dd <=> c)
        BY <4>6
      <4>8. /\ outcome \in AttemptOutcomes /\ (outcome = "unavailable" <=> u.unreported = 1)
            /\ Accounted(tt, u, c) /\ Undecided(tt) /\ tt \in Seq(Tries)
            /\ c \in BOOLEAN /\ dd \in BOOLEAN
        BY <3>2, <3>4, <4>4, <4>5, <4>6
      <4>9. /\ Len(tries) = Len(tt) /\ tries[Len(tries)].outcome = outcome
            /\ tries[Len(tries)].reminded = tt[Len(tries)].reminded
            /\ \A i \in 1..Len(tt) : i # Len(tt) => tries[i] = tt[i]
        BY <4>3, <4>6
      <4>10. Accounted(tries, u, dd)
        BY <4>3, <4>7, <4>8, <4>9, AccountedFinish
      <4>11. QED
        BY <4>1, <4>3, <4>4, <4>6, <4>10
    <3>7. /\ correction'[r] = d
          /\ \A o \in JudgeRuns \ {r} : correction'[o] = correction[o]
          /\ correction' \in [JudgeRuns -> BOOLEAN]
      <4>1. CASE outcome \in Readings
        BY <2>2, <3>3, <3>6, <4>1 DEF Telling
      <4>2. CASE outcome \notin Readings
        BY <2>2, <3>3, <4>2 DEF Telling
      <4>3. QED
        BY <4>1, <4>2
    <3> HIDE DEF d
    <3>8. attempts' \in [JudgeRuns -> Seq(Tries)]
      BY <3>5, <3>6 DEF Telling
    <3>9. \A o \in JudgeRuns : Accounted(attempts'[o], usage'[o], correction'[o])
      BY <3>1, <3>5, <3>6, <3>7 DEF Telling
    <3>10. ASSUME NEW p \in Questions, Flying(p)' PROVE Undecided(attempts'[RunOf[p]])
      <4>1. Flying(p) /\ p # q
        BY <3>3, <3>10 DEF Standing
      <4>2. RunOf[p] \in JudgeRuns \ {r}
        BY <2>3, <3>1, <4>1
      <4>3. QED
        BY <3>5, <4>1, <4>2 DEF Telling
    <3>11. QED
      BY <3>7, <3>8, <3>9, <3>10 DEF Telling
  <2>7. QED
    BY <1>3, <2>1, <2>4, <2>5, <2>6 DEF Answer
<1>4. ASSUME NEW r \in JudgeRuns, Stop(r) \/ Fail(r) PROVE Telling'
  BY <1>1, <1>4 DEF Stop, Fail
<1>5. ASSUME NEW r \in JudgeRuns, CloseRun(r) PROVE Telling'
  <2>1. /\ usage' = [usage EXCEPT ![r] = Unused] /\ attempts' = [attempts EXCEPT ![r] = <<>>]
        /\ correction' = [correction EXCEPT ![r] = FALSE] /\ UNCHANGED at
        /\ \A q \in Questions : Flying(q) => RunOf[q] # r
    BY <1>5 DEF CloseRun, OneOf, Busy
  <2>2. Accounted(<<>>, Unused, FALSE)
    BY DEF Accounted, Owes, Unused
  <2>3. <<>> \in Seq(Tries)
    OBVIOUS
  <2>4. /\ attempts' \in [JudgeRuns -> Seq(Tries)] /\ correction' \in [JudgeRuns -> BOOLEAN]
        /\ attempts'[r] = <<>> /\ correction'[r] = FALSE /\ usage'[r] = Unused
        /\ \A o \in JudgeRuns \ {r} : /\ attempts'[o] = attempts[o] /\ usage'[o] = usage[o]
                                      /\ correction'[o] = correction[o]
    BY <2>1, <2>3 DEF Telling, Spending
  <2>5. \A o \in JudgeRuns : Accounted(attempts'[o], usage'[o], correction'[o])
    BY <2>2, <2>4 DEF Telling
  <2>6. QED
    BY <2>1, <2>4, <2>5 DEF Telling
<1>6. CASE UNCHANGED judgeVars
  BY <1>1, <1>6 DEF judgeVars, runs
<1>7. QED
  BY <1>2, <1>3, <1>4, <1>5, <1>6 DEF JudgeNext

-----------------------------------------------------------------------------
JudgeInductive == Standing /\ Holding /\ Permitting /\ Spending /\ Telling

LEMMA JudgeInductiveHolds == JudgeSpec => []JudgeInductive
<1>1. JudgeInit => JudgeInductive
  <2>1. SUFFICES ASSUME JudgeInit PROVE JudgeInductive
    OBVIOUS
  <2>2. Standing /\ Holding
    BY <2>1 DEF JudgeInit, Standing, Holding, Places, Locked, Admitted
  <2>3. Permitting
    <3>1. InFlight = {}
      BY <2>1 DEF JudgeInit, InFlight, Admitted
    <3>2. Cardinality(InFlight) = 0
      BY <3>1, FS_EmptySet
    <3>3. QED
      BY <3>2, JudgeAssumption DEF Permitting
  <2>4. Spending
    BY <2>1, JudgeAssumption DEF JudgeInit, Spending, BudgetIsBounded, Unused
  <2>5. Telling
    <3>1. Accounted(<<>>, Unused, FALSE)
      BY DEF Accounted, Owes, Unused
    <3>2. /\ attempts \in [JudgeRuns -> Seq(Tries)] /\ correction \in [JudgeRuns -> BOOLEAN]
          /\ \A r \in JudgeRuns :
               attempts[r] = <<>> /\ usage[r] = Unused /\ correction[r] = FALSE
      BY <2>1 DEF JudgeInit
    <3>3. \A q \in Questions : at[q] \notin {"open", "completed"}
      BY <2>1 DEF JudgeInit
    <3>4. QED
      BY <3>1, <3>2, <3>3 DEF Telling
  <2>6. QED
    BY <2>2, <2>3, <2>4, <2>5 DEF JudgeInductive
<1>2. JudgeInductive /\ [JudgeNext]_judgeVars => JudgeInductive'
  BY HoldingStep, PermittingStep, SpendingStep, TellingStep DEF JudgeInductive
<1>3. QED
  BY <1>1, <1>2, PTL DEF JudgeSpec

(* For any number of Runs, questions and permits, and however questions are
   cancelled: one question of a Run at a time is past its lock, and the judge
   has no more requests in flight than permits (ModelJudge.evaluate). *)
THEOREM OneRequestPerRunHolds == JudgeSpec => []OneRequestPerRun
<1>1. JudgeInductive => OneRequestPerRun
  BY JudgeAssumption DEF JudgeInductive, Holding, Permitting, InFlight, OneRequestPerRun
<1>2. QED
  BY <1>1, JudgeInductiveHolds, PTL

(* For every limit: a Run never has two requests of unknown usage, or more
   requests than its limit, and its tokens overshoot by one reply at most
   (ModelJudge._evaluate_locked). *)
THEOREM BudgetIsBoundedHolds == JudgeSpec => []BudgetIsBounded
<1>1. JudgeInductive => BudgetIsBounded
  BY DEF JudgeInductive, Spending
<1>2. QED
  BY <1>1, JudgeInductiveHolds, PTL

(* For every limit and format policy: usage() and attempts() tell the same
   story.  There is one record per request; unknown usage is that of a last
   request that was interrupted or unavailable; a request is reminded of the
   format exactly when the last text that was read was no bare object, whatever
   was cancelled, timed out or broke in between (ModelJudge._evaluate_locked). *)
THEOREM SpendingIsAccountedHolds == JudgeSpec => []SpendingIsAccounted
<1>1. JudgeInductive => AttemptsAreTrue
  <2>1. SUFFICES ASSUME Telling, NEW r \in JudgeRuns
                 PROVE  LET tries == attempts[r]
                            Read(i) == tries[i].outcome \in Readings
                        IN /\ Len(tries) = usage[r].requests
                           /\ \A i \in 1..Len(tries) :
                                /\ tries[i].outcome = "unavailable" =>
                                     i = Len(tries) /\ usage[r].unreported = 1
                                /\ tries[i].reminded <=>
                                     \E j \in 1..i - 1 : /\ Read(j) /\ tries[j].outcome # "valid"
                                                         /\ \A k \in j + 1..i - 1 : ~Read(k)
                           /\ usage[r].unreported = 1 =>
                                Last(tries).outcome \in {"interrupted", "unavailable"}
    BY DEF JudgeInductive, AttemptsAreTrue
  <2>2. Accounted(attempts[r], usage[r], correction[r])
    BY <2>1 DEF Telling
  <2>3. \A i \in 1..Len(attempts[r]) :
          attempts[r][i].reminded <=>
            \E j \in 1..i - 1 :
              /\ attempts[r][j].outcome \in Readings /\ attempts[r][j].outcome # "valid"
              /\ \A k \in j + 1..i - 1 : ~(attempts[r][k].outcome \in Readings)
    BY <2>2 DEF Accounted, Owes
  <2>4. QED
    BY <2>2, <2>3 DEF Accounted, Last
<1>2. JudgeInductive => BudgetIsBounded
  BY DEF JudgeInductive, Spending
<1>3. QED
  BY <1>1, <1>2, JudgeInductiveHolds, PTL DEF SpendingIsAccounted
=============================================================================
