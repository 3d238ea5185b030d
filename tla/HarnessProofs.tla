---------------------------- MODULE HarnessProofs ----------------------------
(***************************************************************************)
(* Proofs about Harness, for any number of callers, shutdowns, follow-ups, *)
(* inputs and resources, whoever is cancelled while it waits for a lock:   *)
(* the two locks keep Runs apart from each other and from shutdown(),      *)
(* steering stays with its Run, and follow-ups are counted and in order.   *)
(***************************************************************************)
EXTENDS Harness, FiniteSetTheorems, SequenceTheorems, TLAPS

Distinct(s) == \A i, j \in 1..Len(s) : s[i] = s[j] => i = j

(* The discipline of a lock, as sets of tasks: W wait for it, O own it, Q are
   leaving, and G are running or about to run.  The owner is the first in line;
   a waiting task goes on only when it is the first; and the first does. *)
Discipline(lock, W, O, Q, G) ==
  /\ lock \in Seq(Tasks) /\ Distinct(lock)
  /\ W \subseteq ToSet(lock) /\ ToSet(lock) \subseteq O \cup W \cup Q
  /\ \A t \in O : t \in ToSet(lock) /\ Head(lock) = t
  /\ \A t \in W \cap G : Head(lock) = t
  /\ lock # <<>> /\ Head(lock) \in W => Head(lock) \in G

(* who goes on when the first in line is gone *)
Second(lock) == IF Len(lock) > 1 THEN {lock[2]} ELSE {}

-----------------------------------------------------------------------------
(* Sequences without repetition: what is in them after an append, without the
   head, and without one element. *)
LEMMA AppendDistinct ==
  ASSUME NEW S, NEW s \in Seq(S), NEW e \in S, e \notin ToSet(s), Distinct(s)
  PROVE  /\ Append(s, e) \in Seq(S) /\ Distinct(Append(s, e))
         /\ ToSet(Append(s, e)) = ToSet(s) \cup {e}
         /\ Append(s, e) # <<>>
         /\ Head(Append(s, e)) = IF s = <<>> THEN e ELSE Head(s)
<1> DEFINE a == Append(s, e)
<1>1. /\ a \in Seq(S) /\ Len(a) = Len(s) + 1 /\ a[Len(s) + 1] = e
      /\ \A i \in 1..Len(s) : a[i] = s[i]
  OBVIOUS
<1>2. Len(s) \in Nat /\ DOMAIN s = 1..Len(s) /\ DOMAIN a = 1..Len(a)
  BY <1>1
<1>3. \A i \in 1..Len(s) : s[i] \in ToSet(s)
  BY <1>2 DEF ToSet
<1>4. Distinct(a)
  <2>1. ASSUME NEW i \in 1..Len(a), NEW j \in 1..Len(a), a[i] = a[j] PROVE i = j
    <3>1. CASE i = Len(s) + 1 /\ j = Len(s) + 1
      BY <3>1
    <3>2. CASE i # Len(s) + 1 /\ j # Len(s) + 1
      BY <1>1, <1>2, <2>1, <3>2 DEF Distinct
    <3>3. CASE i = Len(s) + 1 /\ j # Len(s) + 1
      BY <1>1, <1>2, <1>3, <2>1, <3>3
    <3>4. CASE i # Len(s) + 1 /\ j = Len(s) + 1
      BY <1>1, <1>2, <1>3, <2>1, <3>4
    <3>5. QED
      BY <3>1, <3>2, <3>3, <3>4
  <2>2. QED
    BY <2>1 DEF Distinct
<1>5. ToSet(a) = ToSet(s) \cup {e}
  <2>1. ASSUME NEW x \in ToSet(a) PROVE x \in ToSet(s) \cup {e}
    <3>1. PICK i \in 1..Len(a) : x = a[i]
      BY <1>2, <2>1 DEF ToSet
    <3>2. QED
      BY <1>1, <1>2, <1>3, <3>1
  <2>2. ASSUME NEW x \in ToSet(s) PROVE x \in ToSet(a)
    <3>1. PICK i \in 1..Len(s) : x = s[i]
      BY <1>2, <2>2 DEF ToSet
    <3>2. i \in DOMAIN a /\ a[i] = x
      BY <1>1, <1>2, <3>1
    <3>3. QED
      BY <3>2 DEF ToSet
  <2>3. e \in ToSet(a)
    BY <1>1, <1>2 DEF ToSet
  <2>4. QED
    BY <2>1, <2>2, <2>3
<1>6. a # <<>> /\ Head(a) = IF s = <<>> THEN e ELSE Head(s)
  <2>1. a # <<>> /\ Head(a) = a[1]
    BY <1>1, <1>2
  <2>2. CASE s = <<>>
    BY <1>1, <2>1, <2>2
  <2>3. CASE s # <<>>
    <3>1. 1 \in 1..Len(s) /\ Head(s) = s[1]
      BY <2>3
    <3>2. QED
      BY <1>1, <2>1, <2>3, <3>1
  <2>4. QED
    BY <2>2, <2>3
<1>7. QED
  BY <1>1, <1>4, <1>5, <1>6

LEMMA TailDistinct ==
  ASSUME NEW S, NEW s \in Seq(S), s # <<>>, Distinct(s)
  PROVE  /\ Tail(s) \in Seq(S) /\ Distinct(Tail(s))
         /\ ToSet(Tail(s)) = ToSet(s) \ {Head(s)}
         /\ Head(s) \in ToSet(s) /\ Head(s) \in S
         /\ Tail(s) # <<>> => Len(s) > 1 /\ Head(Tail(s)) = s[2]
         /\ Len(s) > 1 => s[2] \in ToSet(Tail(s)) /\ s[2] # Head(s)
<1> DEFINE a == Tail(s)
<1>1. /\ a \in Seq(S) /\ Len(a) = Len(s) - 1 /\ Head(s) = s[1]
      /\ \A i \in 1..Len(a) : a[i] = s[i + 1]
  OBVIOUS
<1>2. Len(s) \in Nat \ {0} /\ DOMAIN s = 1..Len(s) /\ DOMAIN a = 1..Len(a) /\ Len(a) \in Nat
  BY <1>1
<1>3. Distinct(a)
  <2>1. ASSUME NEW i \in 1..Len(a), NEW j \in 1..Len(a), a[i] = a[j] PROVE i = j
    <3>1. i + 1 \in 1..Len(s) /\ j + 1 \in 1..Len(s) /\ s[i + 1] = s[j + 1]
      BY <1>1, <1>2, <2>1
    <3>2. i + 1 = j + 1
      BY <3>1 DEF Distinct
    <3>3. QED
      BY <1>2, <3>2
  <2>2. QED
    BY <2>1 DEF Distinct
<1>4. \A i \in 1..Len(s) : s[i] \in ToSet(s)
  BY <1>2 DEF ToSet
<1>5. \A i \in 1..Len(a) : a[i] \in ToSet(a)
  BY <1>2 DEF ToSet
<1>6. ToSet(a) = ToSet(s) \ {Head(s)}
  <2>1. ASSUME NEW x \in ToSet(a) PROVE x \in ToSet(s) /\ x # Head(s)
    <3>1. PICK i \in 1..Len(a) : x = a[i]
      BY <1>2, <2>1 DEF ToSet
    <3>2. i + 1 \in 1..Len(s) /\ i + 1 # 1 /\ x = s[i + 1] /\ 1 \in 1..Len(s)
      BY <1>1, <1>2, <3>1
    <3>3. QED
      BY <1>1, <1>4, <3>2 DEF Distinct
  <2>2. ASSUME NEW x \in ToSet(s), x # Head(s) PROVE x \in ToSet(a)
    <3>1. PICK i \in 1..Len(s) : x = s[i]
      BY <1>2, <2>2 DEF ToSet
    <3>2. i # 1 /\ i - 1 \in 1..Len(a) /\ i - 1 + 1 = i
      BY <1>1, <1>2, <2>2, <3>1
    <3>3. a[i - 1] = x
      BY <1>1, <3>1, <3>2
    <3>4. QED
      BY <1>5, <3>2, <3>3
  <2>3. QED
    BY <2>1, <2>2
<1>7. a # <<>> => Len(s) > 1 /\ Head(a) = s[2]
  BY <1>1, <1>2
<1>8. ASSUME Len(s) > 1 PROVE s[2] \in ToSet(a) /\ s[2] # Head(s)
  <2>1. 1 \in 1..Len(a) /\ a[1] = s[2]
    BY <1>1, <1>2, <1>8
  <2>2. 1 \in 1..Len(s) /\ 2 \in 1..Len(s)
    BY <1>2, <1>8
  <2>3. QED
    BY <1>1, <1>5, <2>1, <2>2 DEF Distinct
<1>9. Head(s) \in ToSet(s) /\ Head(s) \in S
  BY <1>1, <1>2, <1>4
<1>10. QED
  BY <1>1, <1>3, <1>6, <1>7, <1>8, <1>9

LEMMA WithoutDistinct ==
  ASSUME NEW s \in Seq(Tasks), NEW e \in Tasks, Distinct(s)
  PROVE  /\ Without(s, e) \in Seq(Tasks) /\ Distinct(Without(s, e))
         /\ ToSet(Without(s, e)) = ToSet(s) \ {e}
         /\ s # <<>> /\ Head(s) # e =>
              Without(s, e) # <<>> /\ Head(Without(s, e)) = Head(s)
         /\ s # <<>> /\ Head(s) = e => Without(s, e) = Tail(s)
<1>1. Len(s) \in Nat /\ DOMAIN s = 1..Len(s)
  OBVIOUS
<1>2. CASE e \notin ToSet(s)
  <2>1. Without(s, e) = s
    BY <1>2 DEF Without
  <2>2. s # <<>> => Head(s) \in ToSet(s)
    BY <1>1 DEF ToSet
  <2>3. QED
    BY <1>2, <2>1, <2>2
<1>3. CASE e \in ToSet(s)
  <2> DEFINE k == CHOOSE i \in 1..Len(s) : s[i] = e
             a == Without(s, e)
  <2>1. k \in 1..Len(s) /\ s[k] = e
    BY <1>1, <1>3 DEF ToSet
  <2>2. a = SubSeq(s, 1, k - 1) \o SubSeq(s, k + 1, Len(s))
    BY <1>3 DEF Without, RemoveAt
  <2> HIDE DEF k
  <2>3. /\ a \in Seq(Tasks) /\ Len(a) = Len(s) - 1
        /\ \A i \in 1..Len(a) : a[i] = IF i < k THEN s[i] ELSE s[i + 1]
    <3> DEFINE b == SubSeq(s, 1, k - 1)
               c == SubSeq(s, k + 1, Len(s))
    <3>1. /\ b \in Seq(Tasks) /\ Len(b) = k - 1
          /\ \A i \in 1..k - 1 : b[i] = s[i]
      BY <1>1, <2>1
    <3>2. /\ c \in Seq(Tasks) /\ Len(c) = Len(s) - k
          /\ \A i \in 1..Len(s) - k : c[i] = s[i + k]
      <4>1. k + 1 \in Int /\ Len(s) \in Int /\ \A i \in k + 1..Len(s) : s[i] \in Tasks
        BY <1>1, <2>1
      <4>2. /\ c \in Seq(Tasks)
            /\ Len(c) = IF k + 1 <= Len(s) THEN Len(s) - (k + 1) + 1 ELSE 0
            /\ \A i \in 1..Len(s) - (k + 1) + 1 : c[i] = s[k + 1 + i - 1]
        BY <4>1, SubSeqProperties
      <4> HIDE DEF a, b, c
      <4>3. c \in Seq(Tasks) /\ Len(c) = Len(s) - k
        <5>1. k \in Int /\ k <= Len(s)
          BY <1>1, <2>1
        <5>2. (IF k + 1 <= Len(s) THEN Len(s) - (k + 1) + 1 ELSE 0) = Len(s) - k
          BY <4>1, <5>1
        <5>3. QED
          BY <4>2, <5>2
      <4>4. ASSUME NEW i \in 1..Len(s) - k PROVE c[i] = s[i + k]
        <5>1. i \in 1..Len(s) - (k + 1) + 1 /\ k + 1 + i - 1 = i + k
          BY <1>1, <2>1
        <5>2. QED
          BY <4>2, <5>1
      <4>5. QED
        BY <4>3, <4>4
    <3> HIDE DEF b, c
    <3>3. a = b \o c
      BY <2>2 DEF b, c
    <3>4. /\ a \in Seq(Tasks) /\ Len(a) = Len(b) + Len(c)
          /\ \A i \in 1..Len(b) + Len(c) : a[i] = IF i <= Len(b) THEN b[i] ELSE c[i - Len(b)]
      <4> HIDE DEF a
      <4>1. b \in Seq(Tasks) /\ c \in Seq(Tasks)
        BY <3>1, <3>2
      <4>2. QED
        BY <3>3, <4>1, ConcatProperties
    <3>5. ASSUME NEW i \in 1..Len(a) PROVE a[i] = IF i < k THEN s[i] ELSE s[i + 1]
      <4>1. CASE i < k
        BY <1>1, <2>1, <3>1, <3>4, <4>1
      <4>2. CASE ~(i < k)
        <5>1. a[i] = c[i - (k - 1)] /\ i - (k - 1) \in 1..Len(s) - k
          BY <1>1, <2>1, <3>1, <3>2, <3>4, <4>2
        <5>2. c[i - (k - 1)] = s[i - (k - 1) + k]
          BY <3>2, <5>1
        <5>3. i - (k - 1) + k = i + 1
          BY <1>1, <2>1
        <5>4. QED
          BY <4>2, <5>1, <5>2, <5>3
      <4>3. QED
        BY <4>1, <4>2
    <3>6. QED
      BY <1>1, <2>1, <3>1, <3>2, <3>4, <3>5
  <2> HIDE DEF a
  <2>4. DOMAIN a = 1..Len(a) /\ Len(a) \in Nat
    BY <1>1, <2>1, <2>3
  <2> DEFINE from(i) == IF i < k THEN i ELSE i + 1
  <2>5. \A i \in 1..Len(a) : from(i) \in 1..Len(s) /\ from(i) # k /\ a[i] = s[from(i)]
    BY <1>1, <2>1, <2>3
  <2>6. Distinct(a)
    <3>1. ASSUME NEW i \in 1..Len(a), NEW j \in 1..Len(a), a[i] = a[j] PROVE i = j
      <4>1. from(i) = from(j)
        BY <2>5, <3>1 DEF Distinct
      <4>2. QED
        BY <2>1, <2>4, <4>1
    <3>2. QED
      BY <3>1 DEF Distinct
  <2>7. ToSet(a) = ToSet(s) \ {e}
    <3>1. ASSUME NEW x \in ToSet(a) PROVE x \in ToSet(s) /\ x # e
      <4>1. PICK i \in 1..Len(a) : x = a[i]
        BY <2>4, <3>1 DEF ToSet
      <4>2. from(i) \in 1..Len(s) /\ x = s[from(i)] /\ from(i) # k
        BY <2>5, <4>1
      <4>3. x # e
        BY <2>1, <4>2 DEF Distinct
      <4>4. QED
        BY <1>1, <4>2, <4>3 DEF ToSet
    <3>2. ASSUME NEW x \in ToSet(s), x # e PROVE x \in ToSet(a)
      <4>1. PICK i \in 1..Len(s) : x = s[i]
        BY <1>1, <3>2 DEF ToSet
      <4>2. i # k
        BY <2>1, <3>2, <4>1
      <4>3. CASE i < k
        <5>1. i \in DOMAIN a /\ a[i] = x
          BY <1>1, <2>1, <2>3, <2>4, <4>1, <4>3
        <5>2. QED
          BY <5>1 DEF ToSet
      <4>4. CASE i > k
        <5>1. i - 1 \in DOMAIN a /\ a[i - 1] = s[i - 1 + 1] /\ i - 1 + 1 = i
          BY <1>1, <2>1, <2>3, <2>4, <4>4
        <5>2. QED
          BY <4>1, <5>1 DEF ToSet
      <4>5. QED
        BY <1>1, <2>1, <4>2, <4>3, <4>4
    <3>3. QED
      BY <3>1, <3>2
  <2>8. ASSUME s # <<>>, Head(s) # e
        PROVE  a # <<>> /\ Head(a) = Head(s)
    <3>1. Head(s) = s[1] /\ k # 1
      BY <2>1, <2>8
    <3>2. Len(a) >= 1 /\ a[1] = s[1]
      BY <1>1, <2>1, <2>3, <3>1
    <3>3. QED
      BY <2>3, <3>1, <3>2
  <2>9. ASSUME s # <<>>, Head(s) = e
        PROVE  a = Tail(s)
    <3>1. k = 1
      <4>1. 1 \in 1..Len(s) /\ s[1] = e
        BY <1>1, <2>9
      <4>2. QED
        BY <2>1, <4>1 DEF Distinct
    <3>2. /\ Tail(s) \in Seq(Tasks) /\ Len(Tail(s)) = Len(a)
          /\ \A i \in 1..Len(a) : Tail(s)[i] = a[i]
      BY <1>1, <2>3, <2>9, <3>1
    <3>3. QED
      BY <2>3, <3>2
  <2>10. QED
    BY <2>3, <2>6, <2>7, <2>8, <2>9 DEF a
<1>4. QED
  BY <1>2, <1>3

-----------------------------------------------------------------------------
(* What a step of one task does to the discipline of one lock.  Same says that
   the step leaves every other task where it was. *)
Same(t, W, O, Q, W2, O2, Q2) ==
  \A u \in Tasks \ {t} :
    (u \in W2 <=> u \in W) /\ (u \in O2 <=> u \in O) /\ (u \in Q2 <=> u \in Q)

(* A task that neither asks for the lock nor gives it back. *)
LEMMA Unmoved ==
  ASSUME NEW lock, NEW t \in Tasks,
         NEW W \in SUBSET Tasks, NEW O \in SUBSET Tasks, NEW Q \in SUBSET Tasks,
         NEW G \in SUBSET Tasks, NEW W2 \in SUBSET Tasks, NEW O2 \in SUBSET Tasks,
         NEW Q2 \in SUBSET Tasks, NEW G2 \in SUBSET Tasks,
         Discipline(lock, W, O, Q, G), Same(t, W, O, Q, W2, O2, Q2),
         t \notin W, t \notin W2, t \in O2 <=> t \in O, t \in Q => t \in Q2,
         \A u \in W : u \in G2 <=> u \in G
  PROVE  Discipline(lock, W2, O2, Q2, G2)
<1>1. W2 = W /\ O2 = O /\ Q \subseteq Q2
  BY DEF Same
<1>2. QED
  BY <1>1 DEF Discipline

(* A task that asks for it: it goes on at once when nobody is in line. *)
LEMMA Joins ==
  ASSUME NEW lock, NEW t \in Tasks,
         NEW W \in SUBSET Tasks, NEW O \in SUBSET Tasks, NEW Q \in SUBSET Tasks,
         NEW G \in SUBSET Tasks, NEW W2 \in SUBSET Tasks, NEW O2 \in SUBSET Tasks,
         NEW Q2 \in SUBSET Tasks, NEW G2 \in SUBSET Tasks,
         Discipline(lock, W, O, Q, G), Same(t, W, O, Q, W2, O2, Q2),
         t \notin W, t \notin O, t \notin Q, t \in W2, t \notin O2,
         t \in G2 <=> lock = <<>>,
         \A u \in W : u \in G2 <=> u \in G
  PROVE  Discipline(Append(lock, t), W2, O2, Q2, G2)
<1> DEFINE a == Append(lock, t)
<1>1. W2 = W \cup {t} /\ O2 = O /\ Q \subseteq Q2
  <2>1. W2 = W \cup {t}
    BY DEF Same
  <2>2. O2 = O
    <3>1. \A u \in Tasks : u \in O2 <=> u \in O
      BY DEF Same
    <3>2. QED
      BY <3>1
  <2>3. Q \subseteq Q2
    BY DEF Same
  <2>4. QED
    BY <2>1, <2>2, <2>3
<1>2. lock \in Seq(Tasks) /\ Distinct(lock) /\ t \notin ToSet(lock)
  BY DEF Discipline
<1>3. /\ a \in Seq(Tasks) /\ Distinct(a) /\ ToSet(a) = ToSet(lock) \cup {t}
      /\ a # <<>> /\ Head(a) = IF lock = <<>> THEN t ELSE Head(lock)
  BY <1>2, AppendDistinct
<1>4. lock = <<>> => ToSet(lock) = {}
  BY DEF ToSet
<1> HIDE DEF a
<1>5. W2 \subseteq ToSet(a) /\ ToSet(a) \subseteq O2 \cup W2 \cup Q2
  BY <1>1, <1>3 DEF Discipline
<1>6. \A u \in O2 : u \in ToSet(a) /\ Head(a) = u
  BY <1>1, <1>3, <1>4 DEF Discipline
<1>7. \A u \in W2 \cap G2 : Head(a) = u
  BY <1>1, <1>3, <1>4 DEF Discipline
<1>8. Head(a) \in W2 => Head(a) \in G2
  <2>1. CASE lock = <<>>
    BY <1>3, <2>1
  <2>2. CASE lock # <<>>
    <3>1. Head(lock) \in ToSet(lock) /\ Head(a) = Head(lock)
      BY <1>2, <1>3, <2>2 DEF ToSet
    <3>2. QED
      BY <1>1, <1>2, <2>2, <3>1 DEF Discipline
  <2>3. QED
    BY <2>1, <2>2
<1>9. QED
  BY <1>3, <1>5, <1>6, <1>7, <1>8 DEF Discipline, a

(* The first in line takes it. *)
LEMMA Owns ==
  ASSUME NEW lock, NEW t \in Tasks,
         NEW W \in SUBSET Tasks, NEW O \in SUBSET Tasks, NEW Q \in SUBSET Tasks,
         NEW G \in SUBSET Tasks, NEW W2 \in SUBSET Tasks, NEW O2 \in SUBSET Tasks,
         NEW Q2 \in SUBSET Tasks, NEW G2 \in SUBSET Tasks,
         Discipline(lock, W, O, Q, G), Same(t, W, O, Q, W2, O2, Q2),
         t \in W, t \in G, t \notin Q, t \notin W2, t \in O2,
         \A u \in W \ {t} : u \in G2 <=> u \in G
  PROVE  Discipline(lock, W2, O2, Q2, G2)
<1>1. W2 = W \ {t} /\ O2 = O \cup {t} /\ Q \subseteq Q2
  BY DEF Same
<1>2. Head(lock) = t
  BY DEF Discipline
<1>3. QED
  BY <1>1, <1>2 DEF Discipline

(* The first in line is done with it, and wakes the second. *)
LEMMA Passes ==
  ASSUME NEW lock, NEW t \in Tasks,
         NEW W \in SUBSET Tasks, NEW O \in SUBSET Tasks, NEW Q \in SUBSET Tasks,
         NEW G \in SUBSET Tasks, NEW W2 \in SUBSET Tasks, NEW O2 \in SUBSET Tasks,
         NEW Q2 \in SUBSET Tasks, NEW G2 \in SUBSET Tasks,
         Discipline(lock, W, O, Q, G), Same(t, W, O, Q, W2, O2, Q2),
         t \in O \cup (W \cap G), t \notin Q, t \notin W2, t \notin O2,
         \A u \in W \ {t} : u \in G2 <=> u \in G \cup Second(lock)
  PROVE  Discipline(Tail(lock), W2, O2, Q2, G2)
<1> DEFINE a == Tail(lock)
<1>1. W2 = W \ {t} /\ O2 = O \ {t} /\ Q \subseteq Q2
  BY DEF Same
<1>2. lock \in Seq(Tasks) /\ Distinct(lock) /\ t \in ToSet(lock) /\ Head(lock) = t
  BY DEF Discipline
<1>3. lock # <<>>
  BY <1>2 DEF ToSet
<1>4. /\ a \in Seq(Tasks) /\ Distinct(a) /\ ToSet(a) = ToSet(lock) \ {t}
      /\ a # <<>> => Len(lock) > 1 /\ Head(a) = lock[2]
      /\ Len(lock) > 1 => lock[2] \in ToSet(a) /\ lock[2] # t
  BY <1>2, <1>3, TailDistinct
<1>5. Len(lock) > 1 => a # <<>>
  BY <1>4 DEF ToSet
<1> HIDE DEF a
<1>6. O \subseteq {t} /\ O2 = {} /\ \A u \in W2 : u \notin G
  BY <1>1, <1>2 DEF Discipline
<1>7. W2 \subseteq ToSet(a) /\ ToSet(a) \subseteq O2 \cup W2 \cup Q2
  BY <1>1, <1>4, <1>6 DEF Discipline
<1>8. \A u \in W2 \cap G2 : Head(a) = u
  BY <1>1, <1>4, <1>5, <1>6 DEF Second
<1>9. a # <<>> /\ Head(a) \in W2 => Head(a) \in G2
  BY <1>1, <1>4 DEF Second
<1>10. QED
  BY <1>4, <1>6, <1>7, <1>8, <1>9 DEF Discipline, a

(* Anyone is cancelled: it keeps its place in line until it leaves. *)
LEMMA GivesUp ==
  ASSUME NEW lock, NEW t \in Tasks,
         NEW W \in SUBSET Tasks, NEW O \in SUBSET Tasks, NEW Q \in SUBSET Tasks,
         NEW G \in SUBSET Tasks, NEW W2 \in SUBSET Tasks, NEW O2 \in SUBSET Tasks,
         NEW Q2 \in SUBSET Tasks, NEW G2 \in SUBSET Tasks,
         Discipline(lock, W, O, Q, G), Same(t, W, O, Q, W2, O2, Q2),
         t \notin W2, t \notin O2, t \in Q2,
         \A u \in W \ {t} : u \in G2 <=> u \in G
  PROVE  Discipline(lock, W2, O2, Q2, G2)
<1>1. W2 = W \ {t} /\ O2 = O \ {t} /\ Q2 = Q \cup {t}
  BY DEF Same
<1>2. QED
  BY <1>1 DEF Discipline

(* It leaves the line, and wakes the second if it was the first. *)
LEMMA Leaves ==
  ASSUME NEW lock, NEW t \in Tasks,
         NEW W \in SUBSET Tasks, NEW O \in SUBSET Tasks, NEW Q \in SUBSET Tasks,
         NEW G \in SUBSET Tasks, NEW W2 \in SUBSET Tasks, NEW O2 \in SUBSET Tasks,
         NEW Q2 \in SUBSET Tasks, NEW G2 \in SUBSET Tasks,
         Discipline(lock, W, O, Q, G), Same(t, W, O, Q, W2, O2, Q2),
         t \notin W, t \notin O, t \notin W2, t \notin O2,
         \A u \in W : u \in G2 <=>
           \/ u \in G
           \/ lock # <<>> /\ Head(lock) = t /\ u \in Second(lock)
  PROVE  Discipline(Without(lock, t), W2, O2, Q2, G2)
<1> DEFINE a == Without(lock, t)
<1>1. W2 = W /\ O2 = O /\ Q \ {t} \subseteq Q2
  <2>1. W2 = W
    BY DEF Same
  <2>2. O2 = O
    BY DEF Same
  <2>3. Q \ {t} \subseteq Q2
    BY DEF Same
  <2>4. QED
    BY <2>1, <2>2, <2>3
<1>2. lock \in Seq(Tasks) /\ Distinct(lock)
  BY DEF Discipline
<1>3. /\ a \in Seq(Tasks) /\ Distinct(a) /\ ToSet(a) = ToSet(lock) \ {t}
      /\ lock # <<>> /\ Head(lock) # t => a # <<>> /\ Head(a) = Head(lock)
      /\ lock # <<>> /\ Head(lock) = t => a = Tail(lock)
  BY <1>2, WithoutDistinct
<1>4. lock = <<>> => ToSet(lock) = {}
  BY DEF ToSet
<1>5. a # <<>> => Head(a) \in ToSet(a)
  BY <1>3 DEF ToSet
<1> HIDE DEF a
<1>6. W2 \subseteq ToSet(a) /\ ToSet(a) \subseteq O2 \cup W2 \cup Q2
  BY <1>1, <1>3 DEF Discipline
<1>7. CASE lock = <<>>
  BY <1>1, <1>3, <1>4, <1>5, <1>6, <1>7 DEF Discipline, a
<1>8. CASE lock # <<>> /\ Head(lock) # t
  BY <1>1, <1>3, <1>6, <1>8 DEF Discipline, a
<1>9. CASE lock # <<>> /\ Head(lock) = t
  <2>1. /\ a # <<>> => Len(lock) > 1 /\ Head(a) = lock[2]
        /\ Len(lock) > 1 => lock[2] \in ToSet(a)
    BY <1>2, <1>3, <1>9, TailDistinct
  <2>2. Len(lock) > 1 => a # <<>>
    BY <2>1 DEF ToSet
  <2>3. O = {} /\ \A u \in W : u \notin G
    BY <1>9 DEF Discipline
  <2>4. \A u \in W2 \cap G2 : Head(a) = u
    BY <1>1, <1>9, <2>1, <2>2, <2>3 DEF Second
  <2>5. a # <<>> /\ Head(a) \in W2 => Head(a) \in G2
    BY <1>1, <1>9, <2>1 DEF Second
  <2>6. QED
    BY <1>1, <1>3, <1>6, <2>3, <2>4, <2>5 DEF Discipline, a
<1>10. QED
  BY <1>7, <1>8, <1>9

-----------------------------------------------------------------------------
(* The inductive invariant *)
Places == {"idle", "entering", "gate", "starting", "loading", "undoing", "queueing",
           "slot", "kernel", "committing", "serving", "flushing", "releasing",
           "joining", "leaving", "done"}

Waits(place) == {t \in Tasks : pc[t] = place}
Going == {t \in Tasks : t = running \/ t \in ToSet(ready)}

OwnsLifecycle(t, place) ==
  \/ place \in {"starting", "loading", "undoing"}
  \/ t \in Closers /\ place \in {"queueing", "slot", "flushing", "releasing", "joining"}
OwnsSlot(place) == place \in {"kernel", "committing", "flushing", "releasing"}

LifecycleOwners == {t \in Tasks : OwnsLifecycle(t, pc[t])}
SlotOwners == {t \in Tasks : OwnsSlot(pc[t])}

LifecycleLock ==
  Discipline(lifecycle, Waits("gate"), LifecycleOwners, Waits("leaving"), Going)
SlotLock == Discipline(runLock, Waits("slot"), SlotOwners, Waits("leaving"), Going)

(* A task is at most once in the loop, and only when there is something to do:
   what a shutdown awaits has ended. *)
Scheduled ==
  /\ ready \in Seq(Tasks) /\ Distinct(ready)
  /\ running \in Tasks \cup {None} /\ running \notin ToSet(ready)
Woke(t) ==
  /\ pc[t] \notin {"idle", "done"}
  /\ pc[t] = "flushing" => observing = 0
  /\ pc[t] = "joining" => pc[Worker] = "idle"
Looping == Scheduled /\ \A t \in Going : Woke(t)

(* What a task may rely on at each of its places ... *)
Phase(t) ==
  /\ pc[t] \in {"starting", "loading", "undoing"} => t \in Runners /\ status = "starting"
  /\ pc[t] = "loading" => live = Resources
  /\ pc[t] \in {"queueing", "slot"} /\ t \in Runners => status \notin {"new", "starting"}
  /\ pc[t] \in {"kernel", "committing"} =>
       t \in Runners /\ status \notin {"new", "starting"}
         /\ live = Resources /\ base = snapshot
  /\ pc[t] \in {"flushing", "releasing", "joining"} => t \in Closers
  /\ t \in Closers /\ pc[t] \in {"queueing", "slot", "flushing", "releasing", "joining"}
       => closing
  /\ pc[t] = "releasing" => observing = 0

(* ... and what the Harness keeps. *)
Keeping ==
  /\ status \in {"new", "starting", "ready", "running", "stopping", "closed"}
  /\ closing <=> status \in {"stopping", "closed"}
  /\ status \in {"ready", "running"} => live = Resources /\ snapshot <= stored
  /\ status \in {"new", "starting"} => observing = 0
  /\ observing > 0 => live = Resources
  /\ base \in Nat /\ snapshot \in Nat /\ stored \in Nat /\ observing \in Nat
Phases == Keeping /\ \A t \in Tasks : Phase(t)

Inductive ==
  pc \in [Tasks -> Places] /\ LifecycleLock /\ SlotLock /\ Looping /\ Phases

(* A step that moves t to place b and wakes the tasks in woken. *)
Moves(t, b, woken) ==
  /\ b \in Places
  /\ pc' = [pc EXCEPT ![t] = b]
  /\ \A u \in Tasks \ {t} : u \in Going' <=> u \in Going \cup woken

-----------------------------------------------------------------------------
(* Roles do not overlap. *)
LEMMA Roles ==
  /\ Tasks = Runners \cup Closers /\ Runners \cap Closers = {}
  /\ Worker \in Runners /\ Worker \in Tasks /\ None \notin Tasks
BY HarnessAssumption DEF Tasks, Runners

(* Where the others are after such a step, and what that means for the locks. *)
LEMMA Moved ==
  ASSUME Inductive, NEW t \in Tasks, NEW b, NEW woken, Moves(t, b, woken)
  PROVE  /\ pc' \in [Tasks -> Places] /\ pc'[t] = b
         /\ \A u \in Tasks \ {t} : pc'[u] = pc[u]
         /\ Same(t, Waits("gate"), LifecycleOwners, Waits("leaving"),
                    Waits("gate")', LifecycleOwners', Waits("leaving")')
         /\ Same(t, Waits("slot"), SlotOwners, Waits("leaving"),
                    Waits("slot")', SlotOwners', Waits("leaving")')
         /\ \A u \in Tasks : /\ u \in Waits("gate")' <=> pc'[u] = "gate"
                             /\ u \in Waits("slot")' <=> pc'[u] = "slot"
                             /\ u \in Waits("leaving")' <=> pc'[u] = "leaving"
                             /\ u \in LifecycleOwners' <=> OwnsLifecycle(u, pc'[u])
                             /\ u \in SlotOwners' <=> OwnsSlot(pc'[u])
<1>1. pc' \in [Tasks -> Places] /\ pc'[t] = b /\ \A u \in Tasks \ {t} : pc'[u] = pc[u]
  BY DEF Moves, Inductive
<1>2. \A u \in Tasks : /\ u \in Waits("gate")' <=> pc'[u] = "gate"
                       /\ u \in Waits("slot")' <=> pc'[u] = "slot"
                       /\ u \in Waits("leaving")' <=> pc'[u] = "leaving"
                       /\ u \in LifecycleOwners' <=> OwnsLifecycle(u, pc'[u])
                       /\ u \in SlotOwners' <=> OwnsSlot(pc'[u])
  BY DEF Waits, LifecycleOwners, SlotOwners, OwnsLifecycle, OwnsSlot
<1>3. \A u \in Tasks : /\ u \in Waits("gate") <=> pc[u] = "gate"
                       /\ u \in Waits("slot") <=> pc[u] = "slot"
                       /\ u \in Waits("leaving") <=> pc[u] = "leaving"
                       /\ u \in LifecycleOwners <=> OwnsLifecycle(u, pc[u])
                       /\ u \in SlotOwners <=> OwnsSlot(pc[u])
  BY DEF Waits, LifecycleOwners, SlotOwners
<1>4. QED
  BY <1>1, <1>2, <1>3 DEF Same

(* The second in a line waits there or is leaving. *)
LEMMA SecondWaits ==
  ASSUME NEW lock, NEW W, NEW O, NEW Q, NEW G, Discipline(lock, W, O, Q, G)
  PROVE  Second(lock) \subseteq W \cup Q
<1>1. SUFFICES ASSUME Len(lock) > 1 PROVE lock[2] \in W \cup Q
  BY DEF Second
<1>2. lock \in Seq(Tasks) /\ lock # <<>> /\ Distinct(lock)
  BY <1>1 DEF Discipline
<1>3. lock[2] \in ToSet(lock) /\ lock[2] # Head(lock)
  BY <1>1, <1>2, TailDistinct
<1>4. QED
  BY <1>3 DEF Discipline

(* The loop after a lock's owner woke the second in line. *)
LEMMA WokenSet ==
  ASSUME NEW lock \in Seq(Tasks), lock # <<>>, NEW r \in Seq(Tasks), Distinct(r)
  PROVE  /\ Woken(lock, r) \in Seq(Tasks) /\ Distinct(Woken(lock, r))
         /\ ToSet(Woken(lock, r)) = ToSet(r) \cup Second(lock)
<1>1. Len(lock) \in Nat \ {0}
  OBVIOUS
<1>2. CASE Len(lock) = 1
  BY <1>2 DEF Woken, Second
<1>3. CASE Len(lock) # 1 /\ lock[2] \in ToSet(r)
  BY <1>1, <1>3 DEF Woken, Second
<1>4. CASE Len(lock) # 1 /\ lock[2] \notin ToSet(r)
  <2>1. Len(lock) > 1 /\ 2 \in 1..Len(lock)
    <3> DEFINE n == Len(lock)
    <3>1. n \in Nat \ {0} /\ n # 1
      BY <1>1, <1>4
    <3> HIDE DEF n
    <3>2. n > 1 /\ 2 \in 1..n
      BY <3>1
    <3>3. QED
      BY <3>2 DEF n
  <2>2. Second(lock) = {lock[2]} /\ lock[2] \in Tasks
    BY <2>1 DEF Second
  <2>3. Woken(lock, r) = Append(r, lock[2])
    BY <1>4 DEF Woken
  <2>4. QED
    BY <1>4, <2>2, <2>3, AppendDistinct
<1>5. QED
  BY <1>2, <1>3, <1>4

-----------------------------------------------------------------------------
(* A step within or outside _lifecycle_lock. *)
LEMMA LifecycleStays ==
  ASSUME Inductive, NEW t \in Tasks, NEW b, NEW woken, Moves(t, b, woken),
         lifecycle' = lifecycle, pc[t] \notin {"gate", "leaving"}, b # "gate",
         OwnsLifecycle(t, b) <=> OwnsLifecycle(t, pc[t]),
         woken \cap Waits("gate") = {}
  PROVE  LifecycleLock'
<1> DEFINE W == Waits("gate")  O == LifecycleOwners  Q == Waits("leaving")
           W2 == W'  O2 == O'  Q2 == Q'
<1>1. /\ W \in SUBSET Tasks /\ O \in SUBSET Tasks /\ Q \in SUBSET Tasks
      /\ W2 \in SUBSET Tasks /\ O2 \in SUBSET Tasks /\ Q2 \in SUBSET Tasks
      /\ Going \in SUBSET Tasks /\ Going' \in SUBSET Tasks
  BY DEF Waits, LifecycleOwners, Going
<1>2. Discipline(lifecycle, W, O, Q, Going) /\ Same(t, W, O, Q, W2, O2, Q2)
  BY Moved DEF Inductive, LifecycleLock
<1>3. t \notin W /\ t \notin W2 /\ t \notin Q /\ (t \in O2 <=> t \in O)
  BY Moved DEF Waits, LifecycleOwners
<1>4. \A u \in W : u \in Going' <=> u \in Going
  BY <1>1, <1>3 DEF Moves
<1> HIDE DEF W, O, Q, W2, O2, Q2
<1>5. Discipline(lifecycle, W2, O2, Q2, Going')
  BY <1>1, <1>2, <1>3, <1>4, Unmoved
<1>6. QED
  BY <1>5 DEF LifecycleLock, W, O, Q, W2, O2, Q2

(* A step within or outside _run_lock. *)
LEMMA SlotStays ==
  ASSUME Inductive, NEW t \in Tasks, NEW b, NEW woken, Moves(t, b, woken),
         runLock' = runLock, pc[t] \notin {"slot", "leaving"}, b # "slot",
         OwnsSlot(b) <=> OwnsSlot(pc[t]),
         woken \cap Waits("slot") = {}
  PROVE  SlotLock'
<1> DEFINE W == Waits("slot")  O == SlotOwners  Q == Waits("leaving")
           W2 == W'  O2 == O'  Q2 == Q'
<1>1. /\ W \in SUBSET Tasks /\ O \in SUBSET Tasks /\ Q \in SUBSET Tasks
      /\ W2 \in SUBSET Tasks /\ O2 \in SUBSET Tasks /\ Q2 \in SUBSET Tasks
      /\ Going \in SUBSET Tasks /\ Going' \in SUBSET Tasks
  BY DEF Waits, SlotOwners, Going
<1>2. Discipline(runLock, W, O, Q, Going) /\ Same(t, W, O, Q, W2, O2, Q2)
  BY Moved DEF Inductive, SlotLock
<1>3. t \notin W /\ t \notin W2 /\ t \notin Q /\ (t \in O2 <=> t \in O)
  BY Moved DEF Waits, SlotOwners
<1>4. \A u \in W : u \in Going' <=> u \in Going
  BY <1>1, <1>3 DEF Moves
<1> HIDE DEF W, O, Q, W2, O2, Q2
<1>5. Discipline(runLock, W2, O2, Q2, Going')
  BY <1>1, <1>2, <1>3, <1>4, Unmoved
<1>6. QED
  BY <1>5 DEF SlotLock, W, O, Q, W2, O2, Q2

(* A step that releases _lifecycle_lock. *)
LEMMA LifecyclePasses ==
  ASSUME Inductive, NEW t \in Tasks, NEW b, NEW woken, Moves(t, b, woken),
         lifecycle' = Tail(lifecycle),
         pc[t] # "leaving", b # "gate", ~OwnsLifecycle(t, b),
         OwnsLifecycle(t, pc[t]) \/ (pc[t] = "gate" /\ t \in Going),
         woken \cap Waits("gate") = Second(lifecycle) \cap Waits("gate")
  PROVE  LifecycleLock'
<1> DEFINE W == Waits("gate")  O == LifecycleOwners  Q == Waits("leaving")
           W2 == W'  O2 == O'  Q2 == Q'
<1>1. /\ W \in SUBSET Tasks /\ O \in SUBSET Tasks /\ Q \in SUBSET Tasks
      /\ W2 \in SUBSET Tasks /\ O2 \in SUBSET Tasks /\ Q2 \in SUBSET Tasks
      /\ Going \in SUBSET Tasks /\ Going' \in SUBSET Tasks
  BY DEF Waits, LifecycleOwners, Going
<1>2. Discipline(lifecycle, W, O, Q, Going) /\ Same(t, W, O, Q, W2, O2, Q2)
  BY Moved DEF Inductive, LifecycleLock
<1>3. t \in O \cup (W \cap Going) /\ t \notin W2 /\ t \notin Q /\ t \notin O2
  BY Moved DEF Waits, LifecycleOwners
<1>4. \A u \in W \ {t} : u \in Going' <=> u \in Going \cup Second(lifecycle)
  BY <1>1 DEF Moves
<1> HIDE DEF W, O, Q, W2, O2, Q2
<1>5. Discipline(Tail(lifecycle), W2, O2, Q2, Going')
  BY <1>1, <1>2, <1>3, <1>4, Passes
<1>6. QED
  BY <1>5 DEF LifecycleLock, W, O, Q, W2, O2, Q2

(* A step that releases _run_lock. *)
LEMMA SlotPasses ==
  ASSUME Inductive, NEW t \in Tasks, NEW b, NEW woken, Moves(t, b, woken),
         runLock' = Tail(runLock),
         pc[t] # "leaving", b # "slot", ~OwnsSlot(b),
         OwnsSlot(pc[t]) \/ (pc[t] = "slot" /\ t \in Going),
         woken \cap Waits("slot") = Second(runLock) \cap Waits("slot")
  PROVE  SlotLock'
<1> DEFINE W == Waits("slot")  O == SlotOwners  Q == Waits("leaving")
           W2 == W'  O2 == O'  Q2 == Q'
<1>1. /\ W \in SUBSET Tasks /\ O \in SUBSET Tasks /\ Q \in SUBSET Tasks
      /\ W2 \in SUBSET Tasks /\ O2 \in SUBSET Tasks /\ Q2 \in SUBSET Tasks
      /\ Going \in SUBSET Tasks /\ Going' \in SUBSET Tasks
  BY DEF Waits, SlotOwners, Going
<1>2. Discipline(runLock, W, O, Q, Going) /\ Same(t, W, O, Q, W2, O2, Q2)
  BY Moved DEF Inductive, SlotLock
<1>3. t \in O \cup (W \cap Going) /\ t \notin W2 /\ t \notin Q /\ t \notin O2
  BY Moved DEF Waits, SlotOwners
<1>4. \A u \in W \ {t} : u \in Going' <=> u \in Going \cup Second(runLock)
  BY <1>1 DEF Moves
<1> HIDE DEF W, O, Q, W2, O2, Q2
<1>5. Discipline(Tail(runLock), W2, O2, Q2, Going')
  BY <1>1, <1>2, <1>3, <1>4, Passes
<1>6. QED
  BY <1>5 DEF SlotLock, W, O, Q, W2, O2, Q2

(* A step after which whoever goes on has something to do. *)
LEMMA Wakes ==
  ASSUME Inductive, NEW t \in Tasks, NEW b, NEW woken, Moves(t, b, woken),
         Scheduled', t \in Going' => Woke(t)',
         \A u \in woken \ {t} : pc[u] \in {"gate", "slot", "leaving"},
         pc[Worker] = "idle" => pc'[Worker] = "idle",
         \A u \in Going \ {t} : pc[u] = "flushing" => observing' = 0
  PROVE  Looping'
<1>1. ASSUME NEW u \in Going' PROVE Woke(u)'
  <2>1. u \in Tasks
    BY <1>1 DEF Going
  <2>2. CASE u = t
    BY <1>1, <2>2
  <2>3. CASE u # t
    <3>1. pc'[u] = pc[u] /\ u \in Going \cup woken
      BY <1>1, <2>1, <2>3, Moved DEF Moves
    <3>2. CASE u \in Going
      BY <2>3, <3>1, <3>2 DEF Inductive, Looping, Woke
    <3>3. CASE u \in woken
      BY <2>3, <3>1, <3>3 DEF Woke
    <3>4. QED
      BY <3>1, <3>2, <3>3
  <2>4. QED
    BY <2>2, <2>3
<1>2. QED
  BY <1>1 DEF Looping

(* A step that touches nothing but what t may rely on. *)
LEMMA Phased ==
  ASSUME Inductive, NEW t \in Tasks, NEW b, NEW woken, Moves(t, b, woken),
         UNCHANGED <<status, closing, live, base, snapshot, stored, observing>>,
         Phase(t)'
  PROVE  Phases'
<1>1. ASSUME NEW u \in Tasks PROVE Phase(u)'
  <2>1. CASE u = t
    BY <2>1
  <2>2. CASE u # t
    BY <1>1, <2>2, Moved DEF Inductive, Phases, Phase
  <2>3. QED
    BY <2>1, <2>2
<1>2. Keeping'
  BY DEF Inductive, Phases, Keeping
<1>3. QED
  BY <1>1, <1>2 DEF Phases

(* The loop when the running task goes on or suspends ... *)
LEMMA LoopKeeps ==
  ASSUME Inductive, NEW t \in Tasks, running = t, ready' = ready, running' \in {t, None},
         NEW b \in Places, pc' = [pc EXCEPT ![t] = b]
  PROVE  Scheduled' /\ Moves(t, b, {}) /\ (t \in Going' <=> running' = t) /\ t \in Going
<1>1. Scheduled'
  <2>1. ready \in Seq(Tasks) /\ Distinct(ready) /\ t \notin ToSet(ready)
    BY DEF Inductive, Looping, Scheduled
  <2>2. ToSet(ready) \subseteq Tasks
    BY <2>1 DEF ToSet
  <2>3. QED
    BY <2>1, <2>2, Roles DEF Scheduled
<1>2. \A u \in Tasks : u # t => (u \in Going' <=> u \in Going)
  BY Roles DEF Going
<1>3. t \in Going' <=> running' = t
  BY DEF Going, Inductive, Looping, Scheduled
<1>4. QED
  BY <1>1, <1>2, <1>3 DEF Moves, Going

(* ... and when it wakes the second in a line whose head it is. *)
LEMMA LoopWakes ==
  ASSUME Inductive, NEW t \in Tasks, running = t, running' \in {t, None},
         NEW lock \in Seq(Tasks), Distinct(lock), lock # <<>>, Head(lock) = t,
         ready' = Woken(lock, ready),
         NEW b \in Places, pc' = [pc EXCEPT ![t] = b]
  PROVE  /\ Scheduled' /\ Moves(t, b, Second(lock))
         /\ t \in Going' <=> running' = t
         /\ t \in Going
<1>1. ready \in Seq(Tasks) /\ Distinct(ready) /\ t \notin ToSet(ready)
  BY DEF Inductive, Looping, Scheduled
<1>2. /\ ready' \in Seq(Tasks) /\ Distinct(ready')
      /\ ToSet(ready') = ToSet(ready) \cup Second(lock)
  BY <1>1, WokenSet
<1>3. Second(lock) \subseteq Tasks /\ t \notin Second(lock)
  BY TailDistinct DEF Second
<1>4. ToSet(ready) \subseteq Tasks
  BY <1>1 DEF ToSet
<1>5. Scheduled'
  BY <1>1, <1>2, <1>3, <1>4, Roles DEF Scheduled
<1>6. \A u \in Tasks : u # t => (u \in Going' <=> u \in Going \cup Second(lock))
  BY <1>2, <1>3, Roles DEF Going
<1>7. t \in Going' <=> running' = t
  BY <1>1, <1>2, <1>3 DEF Going
<1>8. QED
  BY <1>5, <1>6, <1>7 DEF Moves, Going

(* Who is second, and who is first, in the two lines. *)
LEMMA Seconds ==
  ASSUME Inductive
  PROVE  /\ \A u \in Second(lifecycle) : pc[u] \in {"gate", "leaving"}
         /\ \A u \in Second(runLock) : pc[u] \in {"slot", "leaving"}
BY SecondWaits DEF Inductive, LifecycleLock, SlotLock, Waits

LEMMA LifecycleHead ==
  ASSUME Inductive, NEW t \in Tasks,
         OwnsLifecycle(t, pc[t]) \/ (pc[t] = "gate" /\ t \in Going)
  PROVE  /\ lifecycle \in Seq(Tasks) /\ Distinct(lifecycle)
         /\ lifecycle # <<>> /\ Head(lifecycle) = t
<1>1. t \in LifecycleOwners \/ t \in Waits("gate") \cap Going
  BY DEF LifecycleOwners, Waits
<1>2. t \in ToSet(lifecycle) /\ Head(lifecycle) = t
  BY <1>1 DEF Inductive, LifecycleLock, Discipline
<1>3. lifecycle # <<>>
  BY <1>2 DEF ToSet
<1>4. QED
  BY <1>2, <1>3 DEF Inductive, LifecycleLock, Discipline

LEMMA SlotHead ==
  ASSUME Inductive, NEW t \in Tasks,
         OwnsSlot(pc[t]) \/ (pc[t] = "slot" /\ t \in Going)
  PROVE  /\ runLock \in Seq(Tasks) /\ Distinct(runLock)
         /\ runLock # <<>> /\ Head(runLock) = t
<1>1. t \in SlotOwners \/ t \in Waits("slot") \cap Going
  BY DEF SlotOwners, Waits
<1>2. t \in ToSet(runLock) /\ Head(runLock) = t
  BY <1>1 DEF Inductive, SlotLock, Discipline
<1>3. runLock # <<>>
  BY <1>2 DEF ToSet
<1>4. QED
  BY <1>2, <1>3 DEF Inductive, SlotLock, Discipline

(* Nobody else owns a lock whose first in line this is. *)
LEMMA Alone ==
  ASSUME Inductive, NEW t \in Tasks, NEW u \in Tasks
  PROVE  /\ (OwnsLifecycle(t, pc[t]) \/ (pc[t] = "gate" /\ t \in Going))
              /\ OwnsLifecycle(u, pc[u]) => u = t
         /\ (OwnsSlot(pc[t]) \/ (pc[t] = "slot" /\ t \in Going))
              /\ OwnsSlot(pc[u]) => u = t
<1>1. ASSUME OwnsLifecycle(t, pc[t]) \/ (pc[t] = "gate" /\ t \in Going),
             OwnsLifecycle(u, pc[u])
      PROVE  u = t
  <2>1. Head(lifecycle) = t
    BY <1>1, LifecycleHead
  <2>2. Head(lifecycle) = u
    <3>1. OwnsLifecycle(u, pc[u]) \/ (pc[u] = "gate" /\ u \in Going)
      BY <1>1
    <3>2. QED
      BY <3>1, LifecycleHead
  <2>3. QED
    BY <2>1, <2>2
<1>2. ASSUME OwnsSlot(pc[t]) \/ (pc[t] = "slot" /\ t \in Going), OwnsSlot(pc[u])
      PROVE  u = t
  <2>1. Head(runLock) = t
    BY <1>2, SlotHead
  <2>2. Head(runLock) = u
    <3>1. OwnsSlot(pc[u]) \/ (pc[u] = "slot" /\ u \in Going)
      BY <1>2
    <3>2. QED
      BY <3>1, SlotHead
  <2>3. QED
    BY <2>1, <2>2
<1>3. QED
  BY <1>1, <1>2

(* The three ways in which the running task goes on: it keeps its locks, ... *)
LEMMA Inside ==
  ASSUME Inductive, NEW t \in Tasks, running = t, ready' = ready, running' \in {t, None},
         NEW b \in Places, pc' = [pc EXCEPT ![t] = b],
         lifecycle' = lifecycle, runLock' = runLock,
         pc[t] \notin {"gate", "slot", "leaving"}, b \notin {"gate", "slot"},
         OwnsLifecycle(t, b) <=> OwnsLifecycle(t, pc[t]),
         OwnsSlot(b) <=> OwnsSlot(pc[t]),
         running' = t => Woke(t)',
         observing' = observing
  PROVE  LifecycleLock' /\ SlotLock' /\ Looping' /\ Moves(t, b, {})
<1>1. Scheduled' /\ Moves(t, b, {}) /\ (t \in Going' <=> running' = t) /\ t \in Going
  BY LoopKeeps
<1>2. LifecycleLock'
  BY <1>1, LifecycleStays
<1>3. SlotLock'
  BY <1>1, SlotStays
<1>4. Looping'
  <2>1. pc[Worker] = "idle" => pc'[Worker] = "idle"
    BY <1>1, Moved, Roles DEF Inductive, Looping, Woke
  <2>2. \A u \in Going \ {t} : pc[u] = "flushing" => observing' = 0
    BY DEF Inductive, Looping, Woke
  <2>3. QED
    BY <1>1, <2>1, <2>2, Wakes
<1>5. QED
  BY <1>1, <1>2, <1>3, <1>4

(* ... it releases _lifecycle_lock, ... *)
LEMMA ReleasesLifecycle ==
  ASSUME Inductive, NEW t \in Tasks, running = t, ReleaseLifecycle, running' \in {t, None},
         NEW b \in Places, pc' = [pc EXCEPT ![t] = b], runLock' = runLock,
         OwnsLifecycle(t, pc[t]) \/ pc[t] = "gate",
         pc[t] \notin {"slot", "leaving"}, b \notin {"gate", "slot"},
         ~OwnsLifecycle(t, b), OwnsSlot(b) <=> OwnsSlot(pc[t]),
         running' = t => Woke(t)',
         observing' = observing
  PROVE  LifecycleLock' /\ SlotLock' /\ Looping' /\ Moves(t, b, Second(lifecycle))
<1>1. /\ lifecycle \in Seq(Tasks) /\ Distinct(lifecycle)
      /\ lifecycle # <<>> /\ Head(lifecycle) = t
  BY LifecycleHead DEF Going
<1>2. /\ Scheduled' /\ Moves(t, b, Second(lifecycle))
      /\ t \in Going' <=> running' = t
      /\ t \in Going
  BY <1>1, LoopWakes DEF ReleaseLifecycle
<1>3. LifecycleLock'
  BY <1>2, LifecyclePasses DEF ReleaseLifecycle
<1>4. SlotLock'
  BY <1>2, SlotStays, Seconds DEF Waits
<1>5. Looping'
  <2>1. pc[Worker] = "idle" => pc'[Worker] = "idle"
    BY <1>2, Moved, Roles DEF Inductive, Looping, Woke
  <2>2. \A u \in Going \ {t} : pc[u] = "flushing" => observing' = 0
    BY DEF Inductive, Looping, Woke
  <2>3. QED
    BY <1>2, <2>1, <2>2, Wakes, Seconds
<1>6. QED
  BY <1>2, <1>3, <1>4, <1>5

(* ... or it releases _run_lock. *)
LEMMA ReleasesSlot ==
  ASSUME Inductive, NEW t \in Tasks, running = t, ReleaseRunLock, running' \in {t, None},
         NEW b \in Places, pc' = [pc EXCEPT ![t] = b], lifecycle' = lifecycle,
         OwnsSlot(pc[t]) \/ pc[t] = "slot",
         b \notin {"gate", "slot"}, ~OwnsSlot(b),
         OwnsLifecycle(t, b) <=> OwnsLifecycle(t, pc[t]),
         running' = t => Woke(t)'
  PROVE  LifecycleLock' /\ SlotLock' /\ Looping' /\ Moves(t, b, Second(runLock))
<1>1. /\ runLock \in Seq(Tasks) /\ Distinct(runLock)
      /\ runLock # <<>> /\ Head(runLock) = t
  BY SlotHead DEF Going
<1>2. /\ Scheduled' /\ Moves(t, b, Second(runLock))
      /\ t \in Going' <=> running' = t
      /\ t \in Going
  BY <1>1, LoopWakes DEF ReleaseRunLock
<1>3. LifecycleLock'
  BY <1>2, LifecycleStays, Seconds DEF Waits, OwnsSlot
<1>4. SlotLock'
  BY <1>2, SlotPasses DEF ReleaseRunLock, OwnsSlot
<1>5. Looping'
  <2>1. pc[Worker] = "idle" => pc'[Worker] = "idle"
    BY <1>2, Moved, Roles DEF Inductive, Looping, Woke
  <2>2. \A u \in Going \ {t} : pc[u] = "flushing" => observing' = 0
    <3>1. \A u \in Tasks : pc[u] = "flushing" => u = t
      BY <1>2, Alone DEF OwnsSlot
    <3>2. QED
      BY <3>1 DEF Going
  <2>3. QED
    BY <1>2, <2>1, <2>2, Wakes, Seconds
<1>6. QED
  BY <1>2, <1>3, <1>4, <1>5

(* It may also take a lock it was the first to wait for. *)
LEMMA TakesLifecycle ==
  ASSUME Inductive, NEW t \in Tasks, running = t, ready' = ready, running' \in {t, None},
         NEW b \in Places, pc' = [pc EXCEPT ![t] = b],
         lifecycle' = lifecycle, runLock' = runLock,
         pc[t] = "gate", OwnsLifecycle(t, b), b # "slot", ~OwnsSlot(b),
         running' = t => Woke(t)',
         observing' = observing
  PROVE  LifecycleLock' /\ SlotLock' /\ Looping' /\ Moves(t, b, {})
<1> DEFINE W == Waits("gate")  O == LifecycleOwners  Q == Waits("leaving")
           W2 == W'  O2 == O'  Q2 == Q'
<1>1. Scheduled' /\ Moves(t, b, {}) /\ (t \in Going' <=> running' = t) /\ t \in Going
  BY LoopKeeps
<1>2. /\ W \in SUBSET Tasks /\ O \in SUBSET Tasks /\ Q \in SUBSET Tasks
      /\ W2 \in SUBSET Tasks /\ O2 \in SUBSET Tasks /\ Q2 \in SUBSET Tasks
      /\ Going \in SUBSET Tasks /\ Going' \in SUBSET Tasks
  BY DEF Waits, LifecycleOwners, Going
<1>3. Discipline(lifecycle, W, O, Q, Going) /\ Same(t, W, O, Q, W2, O2, Q2)
  BY <1>1, Moved DEF Inductive, LifecycleLock
<1>4. t \in W /\ t \notin Q /\ t \notin W2 /\ t \in O2
  BY <1>1, Moved DEF Waits, OwnsLifecycle
<1>5. \A u \in W \ {t} : u \in Going' <=> u \in Going
  BY <1>1, <1>2 DEF Moves
<1> HIDE DEF W, O, Q, W2, O2, Q2
<1>6. Discipline(lifecycle, W2, O2, Q2, Going')
  BY <1>1, <1>2, <1>3, <1>4, <1>5, Owns
<1>7. LifecycleLock'
  BY <1>6 DEF LifecycleLock, W, O, Q, W2, O2, Q2
<1>8. SlotLock'
  BY <1>1, SlotStays DEF OwnsSlot
<1>9. Looping'
  <2>1. pc[Worker] = "idle" => pc'[Worker] = "idle"
    BY <1>1, Moved, Roles DEF Inductive, Looping, Woke
  <2>2. \A u \in Going \ {t} : pc[u] = "flushing" => observing' = 0
    BY DEF Inductive, Looping, Woke
  <2>3. QED
    BY <1>1, <2>1, <2>2, Wakes
<1>10. QED
  BY <1>1, <1>7, <1>8, <1>9

LEMMA TakesRunLock ==
  ASSUME Inductive, NEW t \in Tasks, running = t, ready' = ready, running' \in {t, None},
         NEW b \in Places, pc' = [pc EXCEPT ![t] = b],
         lifecycle' = lifecycle, runLock' = runLock,
         pc[t] = "slot", OwnsSlot(b),
         OwnsLifecycle(t, b) <=> OwnsLifecycle(t, pc[t]),
         running' = t => Woke(t)',
         observing' = observing
  PROVE  LifecycleLock' /\ SlotLock' /\ Looping' /\ Moves(t, b, {})
<1> DEFINE W == Waits("slot")  O == SlotOwners  Q == Waits("leaving")
           W2 == W'  O2 == O'  Q2 == Q'
<1>1. Scheduled' /\ Moves(t, b, {}) /\ (t \in Going' <=> running' = t) /\ t \in Going
  BY LoopKeeps
<1>2. /\ W \in SUBSET Tasks /\ O \in SUBSET Tasks /\ Q \in SUBSET Tasks
      /\ W2 \in SUBSET Tasks /\ O2 \in SUBSET Tasks /\ Q2 \in SUBSET Tasks
      /\ Going \in SUBSET Tasks /\ Going' \in SUBSET Tasks
  BY DEF Waits, SlotOwners, Going
<1>3. Discipline(runLock, W, O, Q, Going) /\ Same(t, W, O, Q, W2, O2, Q2)
  BY <1>1, Moved DEF Inductive, SlotLock
<1>4. t \in W /\ t \notin Q /\ t \notin W2 /\ t \in O2
  BY <1>1, Moved DEF Waits, OwnsSlot
<1>5. \A u \in W \ {t} : u \in Going' <=> u \in Going
  BY <1>1, <1>2 DEF Moves
<1> HIDE DEF W, O, Q, W2, O2, Q2
<1>6. Discipline(runLock, W2, O2, Q2, Going')
  BY <1>1, <1>2, <1>3, <1>4, <1>5, Owns
<1>7. SlotLock'
  BY <1>6 DEF SlotLock, W, O, Q, W2, O2, Q2
<1>8. LifecycleLock'
  BY <1>1, LifecycleStays DEF OwnsSlot
<1>9. Looping'
  <2>1. pc[Worker] = "idle" => pc'[Worker] = "idle"
    BY <1>1, Moved, Roles DEF Inductive, Looping, Woke
  <2>2. \A u \in Going \ {t} : pc[u] = "flushing" => observing' = 0
    BY DEF Inductive, Looping, Woke
  <2>3. QED
    BY <1>1, <2>1, <2>2, Wakes
<1>10. QED
  BY <1>1, <1>7, <1>8, <1>9

(* _execute ends for a caller, and for the worker, which goes on. *)
Ended(t) == IF t = Worker THEN "serving" ELSE "done"

LEMMA Ends ==
  ASSUME NEW t \in Tasks, running = t, NEW how, End(t, how)
  PROVE  /\ Ended(t) \in Places /\ Ended(t) \in {"serving", "done"}
         /\ pc' = [pc EXCEPT ![t] = Ended(t)]
         /\ running' \in {t, None} /\ (running' = t => Ended(t) = "serving")
BY Roles DEF End, Ended, Places

-----------------------------------------------------------------------------
(* The steps of start() *)
LEMMA PassGateStep ==
  ASSUME Inductive, NEW t \in Tasks, PassGate(t)
  PROVE  Inductive'
<1>1. /\ running = t /\ running' = t /\ pc[t] = "gate" /\ "queueing" \in Places
      /\ pc' = [pc EXCEPT ![t] = "queueing"] /\ t \in Runners /\ t \notin Closers
  BY Roles DEF PassGate, Goto, Places
<1>2. pc'[t] = "queueing"
  BY <1>1 DEF Inductive
<1>3. LifecycleLock' /\ SlotLock' /\ Looping' /\ Moves(t, "queueing", Second(lifecycle))
  BY <1>1, <1>2, ReleasesLifecycle DEF PassGate, session, OwnsLifecycle, OwnsSlot, Woke
<1>4. Phases'
  BY <1>1, <1>2, <1>3, Phased DEF PassGate, phase, session, Phase
<1>5. QED
  BY <1>3, <1>4, Moved DEF Inductive

LEMMA RefuseStartStep ==
  ASSUME Inductive, NEW t \in Tasks, RefuseStart(t)
  PROVE  Inductive'
<1>1. running = t /\ pc[t] = "gate" /\ End(t, "closed")
  BY DEF RefuseStart
<1>2. /\ Ended(t) \in Places /\ Ended(t) \in {"serving", "done"}
      /\ pc' = [pc EXCEPT ![t] = Ended(t)]
      /\ running' \in {t, None} /\ (running' = t => Ended(t) = "serving")
  BY <1>1, Ends
<1>3. pc'[t] = Ended(t)
  BY <1>2 DEF Inductive
<1>4. LifecycleLock' /\ SlotLock' /\ Looping' /\ Moves(t, Ended(t), Second(lifecycle))
  BY <1>1, <1>2, <1>3, ReleasesLifecycle DEF RefuseStart, OwnsLifecycle, OwnsSlot, Woke
<1>5. Phases'
  BY <1>2, <1>3, <1>4, Phased DEF RefuseStart, phase, session, Phase
<1>6. QED
  BY <1>4, <1>5, Moved DEF Inductive

LEMMA StartResourceStep ==
  ASSUME Inductive, NEW t \in Runners, StartResource(t)
  PROVE  Inductive'
<1>1. PICK b \in {"loading", "starting", "undoing"} :
        /\ running = t /\ pc[t] = "starting" /\ b \in Places
        /\ pc' = [pc EXCEPT ![t] = b] /\ ready' = ready /\ running' \in {t, None}
        /\ b = "loading" => live' = Resources
  BY Roles DEF StartResource, Suspend, loop, Places, Inductive
<1>2. pc'[t] = b /\ t \in Tasks /\ t \notin Closers
  BY <1>1, Roles DEF Inductive
<1>3. LifecycleLock' /\ SlotLock' /\ Looping' /\ Moves(t, b, {})
  BY <1>1, <1>2, Inside DEF StartResource, locks, OwnsLifecycle, OwnsSlot, Woke
<1>4. status = "starting" /\ observing = 0 /\ ~closing
  BY <1>1, <1>2 DEF Inductive, Phases, Phase, Keeping
<1>5. ASSUME NEW u \in Tasks, pc[u] \in {"starting", "loading", "undoing"} PROVE u = t
  BY <1>1, <1>2, <1>5, Alone DEF OwnsLifecycle
<1>6. UNCHANGED <<status, closing, base, snapshot, stored, observing>>
  BY DEF StartResource, session
<1>7. Keeping'
  BY <1>4, <1>6 DEF Inductive, Phases, Keeping
<1>8. Phase(t)'
  BY <1>1, <1>2, <1>4, <1>6 DEF Phase
<1>9. ASSUME NEW u \in Tasks, u # t PROVE Phase(u)'
  BY <1>3, <1>4, <1>5, <1>6, <1>9, Moved, <1>2 DEF Inductive, Phases, Phase
<1>10. QED
  BY <1>2, <1>3, <1>7, <1>8, <1>9, Moved DEF Inductive, Phases

LEMMA BeginStartStep ==
  ASSUME Inductive, NEW t \in Tasks, BeginStart(t)
  PROVE  Inductive'
<1>1. /\ running = t /\ pc[t] = "gate" /\ "starting" \in Places
      /\ pc' = [pc EXCEPT ![t] = "starting"] /\ ready' = ready /\ running' \in {t, None}
      /\ running' # t /\ t \in Runners /\ t \notin Closers
  BY Roles DEF BeginStart, Goto, Suspend, Places
<1>2. pc'[t] = "starting"
  BY <1>1 DEF Inductive
<1>3. LifecycleLock' /\ SlotLock' /\ Looping' /\ Moves(t, "starting", {})
  BY <1>1, TakesLifecycle DEF BeginStart, locks, OwnsLifecycle, OwnsSlot
<1>4. /\ status \in {"new", "starting"} /\ ~closing /\ observing = 0
      /\ status' = "starting"
      /\ UNCHANGED <<closing, live, base, snapshot, stored, observing>>
  BY DEF BeginStart, Closed, session, Inductive, Phases, Keeping
<1>5. Keeping'
  BY <1>4 DEF Inductive, Phases, Keeping
<1>6. Phase(t)'
  BY <1>1, <1>2 DEF Phase, BeginStart
<1>7. ASSUME NEW u \in Tasks, u # t PROVE Phase(u)'
  BY <1>3, <1>4, <1>7, Moved DEF Inductive, Phases, Phase
<1>8. QED
  BY <1>3, <1>5, <1>6, <1>7, Moved DEF Inductive, Phases

LEMMA LoadStep ==
  ASSUME Inductive, NEW t \in Runners, Load(t)
  PROVE  Inductive'
<1>1. /\ running = t /\ pc[t] = "loading" /\ t \in Tasks /\ t \notin Closers
      /\ running' = t /\ runLock' = runLock /\ observing' = observing
  BY Roles DEF Load
<1>2. status = "starting" /\ observing = 0 /\ ~closing /\ live = Resources
  BY <1>1 DEF Inductive, Phases, Phase, Keeping
<1>3. CASE /\ snapshot' = stored /\ status' = "ready"
           /\ pc' = [pc EXCEPT ![t] = "queueing"] /\ ReleaseLifecycle
  <2>1. pc'[t] = "queueing" /\ "queueing" \in Places
    BY <1>1, <1>3 DEF Inductive, Places
  <2>2. LifecycleLock' /\ SlotLock' /\ Looping' /\ Moves(t, "queueing", Second(lifecycle))
    BY <1>1, <1>3, <2>1, ReleasesLifecycle DEF OwnsLifecycle, OwnsSlot, Woke
  <2>3. ASSUME NEW u \in Tasks, pc[u] \in {"starting", "loading", "undoing"} PROVE u = t
    BY <1>1, <2>3, Alone DEF OwnsLifecycle
  <2>4. UNCHANGED <<closing, live, base, stored, observing>>
    BY DEF Load
  <2>5. Keeping'
    BY <1>2, <1>3, <2>4 DEF Inductive, Phases, Keeping
  <2>6. Phase(t)'
    BY <1>1, <1>3, <2>1 DEF Phase
  <2>7. ASSUME NEW u \in Tasks, u # t PROVE Phase(u)'
    BY <1>2, <1>3, <2>2, <2>3, <2>4, <2>7, Moved DEF Inductive, Phases, Phase
  <2>8. QED
    BY <1>1, <2>2, <2>5, <2>6, <2>7, Moved DEF Inductive, Phases
<1>4. CASE /\ pc' = [pc EXCEPT ![t] = "undoing"]
           /\ UNCHANGED <<ready, lifecycle, status, snapshot>>
  <2>1. pc'[t] = "undoing" /\ "undoing" \in Places
    BY <1>1, <1>4 DEF Inductive, Places
  <2>2. LifecycleLock' /\ SlotLock' /\ Looping' /\ Moves(t, "undoing", {})
    BY <1>1, <1>4, <2>1, Inside DEF OwnsLifecycle, OwnsSlot, Woke
  <2>3. Phases'
    BY <1>1, <1>2, <1>4, <2>1, <2>2, Phased DEF Load, Phase
  <2>4. QED
    BY <1>1, <2>2, <2>3, Moved DEF Inductive
<1>5. QED
  BY <1>3, <1>4 DEF Load

LEMMA UndoStep ==
  ASSUME Inductive, NEW t \in Runners, Undo(t)
  PROVE  Inductive'
<1>1. /\ running = t /\ pc[t] = "undoing" /\ t \in Tasks /\ t \notin Closers
      /\ UNCHANGED <<runLock, closing, base, snapshot, stored, observing>>
  BY Roles DEF Undo, session
<1>2. status = "starting" /\ observing = 0 /\ ~closing
  BY <1>1 DEF Inductive, Phases, Phase, Keeping
<1>3. ASSUME NEW u \in Tasks, pc[u] \in {"starting", "loading", "undoing"} PROVE u = t
  BY <1>1, <1>3, Alone DEF OwnsLifecycle
<1>4. CASE live > 0
  <2>1. /\ pc' = [pc EXCEPT ![t] = "undoing"] /\ "undoing" \in Places /\ pc' = pc
        /\ lifecycle' = lifecycle /\ ready' = ready /\ running' = None /\ running' # t
        /\ status' = status
    BY <1>1, <1>4, Roles DEF Undo, Suspend, Inductive, Places
  <2>2. LifecycleLock' /\ SlotLock' /\ Looping' /\ Moves(t, "undoing", {})
    BY <1>1, <2>1, Inside
  <2>3. Keeping'
    BY <1>1, <1>2, <2>1 DEF Inductive, Phases, Keeping
  <2>4. ASSUME NEW u \in Tasks PROVE Phase(u)'
    BY <1>1, <1>2, <1>3, <2>1, <2>4 DEF Inductive, Phases, Phase
  <2>5. QED
    BY <1>1, <2>1, <2>2, <2>3, <2>4 DEF Inductive, Phases
<1>5. CASE ~(live > 0)
  <2>1. /\ ReleaseLifecycle /\ End(t, "raised") /\ status' = "new" /\ live' = live
    BY <1>5 DEF Undo
  <2>2. /\ Ended(t) \in Places /\ Ended(t) \in {"serving", "done"}
        /\ pc' = [pc EXCEPT ![t] = Ended(t)]
        /\ running' \in {t, None} /\ (running' = t => Ended(t) = "serving")
    BY <1>1, <2>1, Ends
  <2>3. pc'[t] = Ended(t)
    BY <1>1, <2>2 DEF Inductive
  <2>4. LifecycleLock' /\ SlotLock' /\ Looping' /\ Moves(t, Ended(t), Second(lifecycle))
    BY <1>1, <2>1, <2>2, <2>3, ReleasesLifecycle DEF OwnsLifecycle, OwnsSlot, Woke
  <2>5. Keeping'
    BY <1>1, <1>2, <2>1 DEF Inductive, Phases, Keeping
  <2>6. Phase(t)'
    BY <2>2, <2>3 DEF Phase
  <2>7. ASSUME NEW u \in Tasks, u # t PROVE Phase(u)'
    BY <1>1, <1>2, <1>3, <2>1, <2>4, <2>7, Moved DEF Inductive, Phases, Phase
  <2>8. QED
    BY <1>1, <2>4, <2>5, <2>6, <2>7, Moved DEF Inductive, Phases
<1>6. QED
  BY <1>4, <1>5

-----------------------------------------------------------------------------
(* The steps of a Run with _run_lock *)
LEMMA RefuseRunStep ==
  ASSUME Inductive, NEW t \in Tasks, RefuseRun(t)
  PROVE  Inductive'
<1>1. running = t /\ pc[t] = "slot" /\ t \notin Closers /\ ReleaseRunLock /\ End(t, "closed")
  BY Roles DEF RefuseRun
<1>2. /\ Ended(t) \in Places /\ Ended(t) \in {"serving", "done"}
      /\ pc' = [pc EXCEPT ![t] = Ended(t)]
      /\ running' \in {t, None} /\ (running' = t => Ended(t) = "serving")
  BY <1>1, Ends
<1>3. pc'[t] = Ended(t)
  BY <1>2 DEF Inductive
<1>4. LifecycleLock' /\ SlotLock' /\ Looping' /\ Moves(t, Ended(t), Second(runLock))
  BY <1>1, <1>2, <1>3, ReleasesSlot DEF RefuseRun, OwnsLifecycle, OwnsSlot, Woke
<1>5. Phases'
  BY <1>2, <1>3, <1>4, Phased DEF RefuseRun, phase, session, Phase
<1>6. QED
  BY <1>4, <1>5, Moved DEF Inductive

LEMMA BeginRunStep ==
  ASSUME Inductive, NEW t \in Tasks, BeginRun(t)
  PROVE  Inductive'
<1>1. /\ running = t /\ pc[t] = "slot" /\ "kernel" \in Places
      /\ pc' = [pc EXCEPT ![t] = "kernel"] /\ ready' = ready /\ running' = None
      /\ running' # t /\ t \in Runners /\ t \notin Closers
  BY Roles DEF BeginRun, Goto, Suspend, Places
<1>2. pc'[t] = "kernel"
  BY <1>1 DEF Inductive
<1>3. LifecycleLock' /\ SlotLock' /\ Looping' /\ Moves(t, "kernel", {})
  BY <1>1, TakesRunLock DEF BeginRun, locks, OwnsLifecycle, OwnsSlot
<1>4. /\ status \in {"ready", "running"} /\ ~closing
      /\ status' = "running" /\ base' = snapshot
      /\ UNCHANGED <<closing, live, snapshot, stored, observing>>
  BY <1>1 DEF BeginRun, Closed, Inductive, Phases, Phase, Keeping
<1>5. Keeping'
  BY <1>4 DEF Inductive, Phases, Keeping
<1>6. Phase(t)'
  BY <1>1, <1>2, <1>4, <1>5 DEF Phase, Keeping
<1>7. ASSUME NEW u \in Tasks, u # t PROVE Phase(u)'
  BY <1>3, <1>4, <1>7, Moved DEF Inductive, Phases, Phase
<1>8. QED
  BY <1>3, <1>5, <1>6, <1>7, Moved DEF Inductive, Phases

LEMMA DrainSteeringStep ==
  ASSUME Inductive, NEW t \in Tasks, DrainSteering(t)
  PROVE  Inductive'
<1>1. /\ running = t /\ pc[t] = "kernel" /\ "kernel" \in Places
      /\ pc' = [pc EXCEPT ![t] = "kernel"] /\ ready' = ready /\ running' = None
      /\ running' # t
  BY Roles DEF DrainSteering, Suspend, Places, Inductive
<1>2. pc' = pc
  BY DEF DrainSteering
<1>3. LifecycleLock' /\ SlotLock' /\ Looping' /\ Moves(t, "kernel", {})
  BY <1>1, Inside DEF DrainSteering, locks
<1>4. UNCHANGED <<status, closing, live, base, snapshot, stored, observing>>
  BY DEF DrainSteering, phase, session
<1>5. Phases'
  BY <1>2, <1>3, <1>4, Phased DEF Inductive, Phases, Phase
<1>6. QED
  BY <1>3, <1>5, Moved DEF Inductive

LEMMA FinishStep ==
  ASSUME Inductive, NEW t \in Tasks, Finish(t)
  PROVE  Inductive'
<1>1. /\ running = t /\ pc[t] = "kernel" /\ "committing" \in Places
      /\ pc' = [pc EXCEPT ![t] = "committing"] /\ ready' = ready /\ running' = None
      /\ running' # t
  BY Roles DEF Finish, Goto, Suspend, Places
<1>2. pc'[t] = "committing"
  BY <1>1 DEF Inductive
<1>3. LifecycleLock' /\ SlotLock' /\ Looping' /\ Moves(t, "committing", {})
  BY <1>1, Inside DEF Finish, locks, OwnsLifecycle, OwnsSlot
<1>4. UNCHANGED <<status, closing, live, base, snapshot, stored, observing>>
  BY DEF Finish, phase
<1>5. Phase(t)'
  BY <1>1, <1>2, <1>4 DEF Inductive, Phases, Phase
<1>6. Phases'
  BY <1>3, <1>4, <1>5, Phased
<1>7. QED
  BY <1>3, <1>6, Moved DEF Inductive

(* The end of a Run, whatever becomes of its commit: whoever else is there is
   past the part of its Run that looks at the revisions. *)
LEMMA CloseRunStep ==
  ASSUME Inductive, NEW t \in Tasks, running = t, pc[t] \in {"kernel", "committing"},
         NEW how, CloseRun(t, how),
         snapshot' \in Nat, stored' \in Nat, base' = base,
         snapshot <= stored => snapshot' <= stored',
         observing' \in {observing, observing + 1}
  PROVE  LifecycleLock' /\ SlotLock' /\ Looping' /\ Phases' /\ pc' \in [Tasks -> Places]
<1>1. /\ ReleaseRunLock /\ End(t, how)
      /\ status' = (IF closing THEN status ELSE "ready")
      /\ UNCHANGED <<lifecycle, closing, live>>
  BY DEF CloseRun
<1>2. /\ Ended(t) \in Places /\ Ended(t) \in {"serving", "done"}
      /\ pc' = [pc EXCEPT ![t] = Ended(t)]
      /\ running' \in {t, None} /\ (running' = t => Ended(t) = "serving")
  BY <1>1, Ends
<1>3. pc'[t] = Ended(t)
  BY <1>2 DEF Inductive
<1>4. /\ status \notin {"new", "starting"} /\ live = Resources
      /\ t \in Runners /\ t \notin Closers /\ observing \in Nat
  BY Roles DEF Inductive, Phases, Phase, Keeping
<1>5. LifecycleLock' /\ SlotLock' /\ Looping' /\ Moves(t, Ended(t), Second(runLock))
  <2>1. OwnsSlot(pc[t]) /\ ~OwnsLifecycle(t, pc[t]) /\ ~OwnsSlot(Ended(t))
        /\ ~OwnsLifecycle(t, Ended(t)) /\ Ended(t) \notin {"gate", "slot"}
    BY <1>2, <1>4 DEF OwnsSlot, OwnsLifecycle
  <2>2. running' = t => Woke(t)'
    BY <1>2, <1>3 DEF Woke
  <2>3. QED
    BY <1>1, <1>2, <2>1, <2>2, ReleasesSlot
<1>6. ASSUME NEW u \in Tasks, OwnsSlot(pc[u]) PROVE u = t
  BY <1>6, Alone DEF OwnsSlot
<1>7. Keeping'
  <2>1. CASE closing
    BY <1>1, <1>4, <2>1 DEF Inductive, Phases, Keeping
  <2>2. CASE ~closing
    <3>1. status \in {"ready", "running"}
      BY <1>4, <2>2 DEF Inductive, Phases, Keeping
    <3>2. QED
      BY <1>1, <1>4, <2>2, <3>1 DEF Inductive, Phases, Keeping
  <2>3. QED
    BY <2>1, <2>2
<1>8. Phase(t)'
  BY <1>2, <1>3 DEF Phase
<1>9. ASSUME NEW u \in Tasks, u # t PROVE Phase(u)'
  <2>1. pc'[u] = pc[u] /\ pc[u] \notin {"kernel", "committing", "flushing", "releasing"}
    BY <1>5, <1>6, <1>9, Moved DEF OwnsSlot
  <2>2. status \notin {"new", "starting"} /\ status' \notin {"new", "starting"}
    BY <1>1, <1>4
  <2>3. QED
    BY <1>1, <2>1, <2>2 DEF Inductive, Phases, Phase
<1>10. QED
  BY <1>5, <1>7, <1>8, <1>9, Moved DEF Phases

LEMMA KernelRaisesStep ==
  ASSUME Inductive, NEW t \in Tasks, KernelRaises(t)
  PROVE  Inductive'
<1>1. /\ running = t /\ pc[t] = "kernel" /\ CloseRun(t, "raised")
      /\ UNCHANGED <<base, snapshot, stored, observing>>
  BY DEF KernelRaises, session
<1>2. snapshot \in Nat /\ stored \in Nat
  BY DEF Inductive, Phases, Keeping
<1>3. QED
  BY <1>1, <1>2, CloseRunStep DEF Inductive

LEMMA CommitStep ==
  ASSUME Inductive, NEW t \in Tasks, Commit(t)
  PROVE  Inductive'
<1>1. /\ running = t /\ pc[t] = "committing" /\ observing' = observing + 1
      /\ base' = base
  BY DEF Commit
<1>2. snapshot \in Nat /\ stored \in Nat /\ base \in Nat
  BY DEF Inductive, Phases, Keeping
<1>3. Resulting \in Nat /\ Resulting >= base
  BY <1>2 DEF Resulting
<1>4. CASE /\ stored = base /\ stored' = Resulting /\ snapshot' = Resulting
           /\ CloseRun(t, IF advances THEN "completed" ELSE "other")
  BY <1>1, <1>2, <1>3, <1>4, CloseRunStep DEF Inductive
<1>5. CASE /\ stored' \in (IF stored = base THEN {stored, Resulting} ELSE {stored})
           /\ UNCHANGED snapshot
           /\ CloseRun(t, "unsaved")
  <2>1. stored' \in Nat /\ snapshot' \in Nat /\ (snapshot <= stored => snapshot' <= stored')
    BY <1>2, <1>3, <1>5
  <2>2. QED
    BY <1>1, <1>5, <2>1, CloseRunStep DEF Inductive
<1>6. QED
  BY <1>4, <1>5 DEF Commit

LEMMA CommitRaisesStep ==
  ASSUME Inductive, NEW t \in Tasks, CommitRaises(t)
  PROVE  Inductive'
<1>1. /\ running = t /\ pc[t] = "committing" /\ CloseRun(t, "raised")
      /\ stored' \in (IF stored = base THEN {stored, Resulting} ELSE {stored})
      /\ UNCHANGED <<base, snapshot, observing>>
  BY DEF CommitRaises
<1>2. snapshot \in Nat /\ stored \in Nat /\ base \in Nat
  BY DEF Inductive, Phases, Keeping
<1>3. Resulting \in Nat /\ Resulting >= base
  BY <1>2 DEF Resulting
<1>4. stored' \in Nat /\ snapshot' \in Nat /\ (snapshot <= stored => snapshot' <= stored')
  BY <1>1, <1>2, <1>3
<1>5. QED
  BY <1>1, <1>4, CloseRunStep DEF Inductive

-----------------------------------------------------------------------------
(* The steps of shutdown() *)
LEMMA AlreadyClosedStep ==
  ASSUME Inductive, NEW t \in Tasks, AlreadyClosed(t)
  PROVE  Inductive'
<1>1. /\ running = t /\ running' = None /\ running' # t /\ pc[t] = "gate" /\ "done" \in Places
      /\ pc' = [pc EXCEPT ![t] = "done"]
  BY Roles DEF AlreadyClosed, Goto, Places
<1>2. pc'[t] = "done"
  BY <1>1 DEF Inductive
<1>3. LifecycleLock' /\ SlotLock' /\ Looping' /\ Moves(t, "done", Second(lifecycle))
  BY <1>1, ReleasesLifecycle DEF AlreadyClosed, OwnsLifecycle, OwnsSlot
<1>4. Phases'
  BY <1>2, <1>3, Phased DEF AlreadyClosed, phase, session, Phase
<1>5. QED
  BY <1>3, <1>4, Moved DEF Inductive

LEMMA BeginClosingStep ==
  ASSUME Inductive, NEW t \in Tasks, BeginClosing(t)
  PROVE  Inductive'
<1>1. /\ running = t /\ pc[t] = "gate" /\ "queueing" \in Places
      /\ pc' = [pc EXCEPT ![t] = "queueing"] /\ ready' = ready /\ running' = t
      /\ t \in Closers /\ t \notin Runners
  BY Roles DEF BeginClosing, Goto, loop, Places
<1>2. pc'[t] = "queueing"
  BY <1>1 DEF Inductive
<1>3. LifecycleLock' /\ SlotLock' /\ Looping' /\ Moves(t, "queueing", {})
  BY <1>1, <1>2, TakesLifecycle DEF BeginClosing, locks, OwnsLifecycle, OwnsSlot, Woke
<1>4. /\ closing' = TRUE /\ status' = "stopping"
      /\ UNCHANGED <<live, base, snapshot, stored, observing>>
  BY DEF BeginClosing, session
<1>5. ASSUME NEW u \in Tasks PROVE pc[u] \notin {"starting", "loading", "undoing"}
  <2>1. ASSUME pc[u] \in {"starting", "loading", "undoing"} PROVE u = t
    BY <1>1, <2>1, Alone DEF OwnsLifecycle, Going
  <2>2. QED
    BY <1>1, <2>1
<1>6. Keeping'
  BY <1>4 DEF Inductive, Phases, Keeping
<1>7. Phase(t)'
  BY <1>1, <1>2, <1>4 DEF Phase
<1>8. ASSUME NEW u \in Tasks, u # t PROVE Phase(u)'
  BY <1>3, <1>4, <1>5, <1>8, Moved DEF Inductive, Phases, Phase
<1>9. QED
  BY <1>3, <1>6, <1>7, <1>8, Moved DEF Inductive, Phases

LEMMA FlushStep ==
  ASSUME Inductive, NEW t \in Tasks, Flush(t)
  PROVE  Inductive'
<1>1. PICK b \in {"flushing", "releasing"} :
        /\ running = t /\ pc[t] \in {"slot", "flushing"} /\ b \in Places /\ t \in Closers
        /\ pc' = [pc EXCEPT ![t] = b] /\ ready' = ready /\ running' \in {t, None}
        /\ b = "releasing" => observing = 0
        /\ running' = t => b = "releasing"
  <2>1. observing \in Nat
    BY DEF Inductive, Phases, Keeping
  <2>2. QED
    BY <2>1, Roles DEF Flush, Suspend, loop, Places
<1>2. pc'[t] = b
  BY <1>1 DEF Inductive
<1>3. UNCHANGED <<lifecycle, runLock, status, closing, live, base, snapshot, stored, observing>>
  BY DEF Flush, locks, phase, session
<1>4. running' = t => Woke(t)'
  BY <1>1, <1>2 DEF Woke
<1>5. LifecycleLock' /\ SlotLock' /\ Looping' /\ Moves(t, b, {})
  <2>1. OwnsSlot(b) /\ OwnsLifecycle(t, b) /\ OwnsLifecycle(t, pc[t])
    BY <1>1 DEF OwnsSlot, OwnsLifecycle
  <2>2. CASE pc[t] = "slot"
    BY <1>1, <1>3, <1>4, <2>1, <2>2, TakesRunLock
  <2>3. CASE pc[t] = "flushing"
    <3>1. OwnsSlot(pc[t]) /\ b \notin {"gate", "slot"}
      BY <1>1, <2>3 DEF OwnsSlot
    <3>2. QED
      BY <1>1, <1>3, <1>4, <2>1, <2>3, <3>1, Inside
  <2>4. QED
    BY <1>1, <2>2, <2>3
<1>6. Phase(t)'
  BY <1>1, <1>2, <1>3 DEF Inductive, Phases, Phase
<1>7. Phases'
  BY <1>3, <1>5, <1>6, Phased
<1>8. QED
  BY <1>5, <1>7, Moved DEF Inductive

LEMMA ReleaseResourceStep ==
  ASSUME Inductive, NEW t \in Tasks, ReleaseResource(t)
  PROVE  Inductive'
<1>1. /\ running = t /\ pc[t] = "releasing" /\ "releasing" \in Places /\ pc' = pc
      /\ pc' = [pc EXCEPT ![t] = "releasing"] /\ ready' = ready /\ running' = None
      /\ running' # t
  BY Roles DEF ReleaseResource, Suspend, Places, Inductive
<1>2. UNCHANGED <<lifecycle, runLock, status, closing, base, snapshot, stored, observing>>
  BY DEF ReleaseResource, locks, session
<1>3. LifecycleLock' /\ SlotLock' /\ Looping' /\ Moves(t, "releasing", {})
  BY <1>1, <1>2, Inside
<1>4. closing /\ observing = 0
  BY <1>1 DEF Inductive, Phases, Phase
<1>5. ASSUME NEW u \in Tasks, OwnsSlot(pc[u]) PROVE u = t
  BY <1>1, <1>5, Alone DEF OwnsSlot
<1>6. Keeping'
  BY <1>2, <1>4 DEF Inductive, Phases, Keeping
<1>7. ASSUME NEW u \in Tasks PROVE Phase(u)'
  <2>1. pc[u] \notin {"kernel", "committing", "starting", "loading", "undoing"}
    BY <1>1, <1>4, <1>5 DEF OwnsSlot, Inductive, Phases, Phase, Keeping
  <2>2. QED
    BY <1>1, <1>2, <2>1 DEF Inductive, Phases, Phase
<1>8. QED
  BY <1>1, <1>3, <1>6, <1>7 DEF Inductive, Phases

LEMMA CloseStepHolds ==
  ASSUME Inductive, NEW t \in Closers, Close(t)
  PROVE  Inductive'
<1>1. /\ running = t /\ pc[t] = "releasing" /\ "joining" \in Places /\ t \in Tasks
      /\ pc' = [pc EXCEPT ![t] = "joining"] /\ running' \in {t, None}
      /\ running' = t => pc[Worker] = "idle"
      /\ ReleaseRunLock /\ status' = "closed" /\ t # Worker /\ t \notin Runners
      /\ UNCHANGED <<lifecycle, closing, live, base, snapshot, stored, observing>>
  BY Roles DEF Close, Goto, session, Places
<1>2. pc'[t] = "joining" /\ pc'[Worker] = pc[Worker]
  BY <1>1, Roles DEF Inductive
<1>3. LifecycleLock' /\ SlotLock' /\ Looping' /\ Moves(t, "joining", Second(runLock))
  <2>1. OwnsSlot(pc[t]) /\ ~OwnsSlot("joining") /\ OwnsLifecycle(t, "joining")
        /\ OwnsLifecycle(t, pc[t])
    BY <1>1 DEF OwnsSlot, OwnsLifecycle
  <2>2. running' = t => Woke(t)'
    BY <1>1, <1>2 DEF Woke
  <2>3. QED
    BY <1>1, <2>1, <2>2, ReleasesSlot
<1>4. closing
  BY <1>1 DEF Inductive, Phases, Phase
<1>5. Keeping'
  BY <1>1, <1>4 DEF Inductive, Phases, Keeping
<1>6. Phase(t)'
  BY <1>1, <1>2, <1>4 DEF Phase
<1>7. ASSUME NEW u \in Tasks, u # t PROVE Phase(u)'
  <2>1. status # "starting"
    BY <1>4 DEF Inductive, Phases, Keeping
  <2>2. QED
    BY <1>1, <1>3, <1>7, <2>1, Moved DEF Inductive, Phases, Phase
<1>8. QED
  BY <1>1, <1>3, <1>5, <1>6, <1>7, Moved DEF Inductive, Phases

LEMMA LeaveStep ==
  ASSUME Inductive, NEW t \in Closers, Leave(t)
  PROVE  Inductive'
<1>1. /\ running = t /\ running' = None /\ running' # t /\ pc[t] = "joining"
      /\ "done" \in Places /\ t \in Tasks /\ pc' = [pc EXCEPT ![t] = "done"]
  BY Roles DEF Leave, Goto, Places
<1>2. pc'[t] = "done"
  BY <1>1 DEF Inductive
<1>3. LifecycleLock' /\ SlotLock' /\ Looping' /\ Moves(t, "done", Second(lifecycle))
  BY <1>1, ReleasesLifecycle DEF Leave, OwnsLifecycle, OwnsSlot
<1>4. Phases'
  BY <1>1, <1>2, <1>3, Phased DEF Leave, phase, session, Phase
<1>5. QED
  BY <1>1, <1>3, <1>4, Moved DEF Inductive

-----------------------------------------------------------------------------
(* The steps of the worker *)
LEMMA NextFollowUpStep ==
  ASSUME Inductive, NextFollowUp
  PROVE  Inductive'
<1>1. PICK b \in {"serving", "entering"} :
        /\ running = Worker /\ pc[Worker] = "serving" /\ b \in Places /\ Worker \in Tasks
        /\ pc' = [pc EXCEPT ![Worker] = b] /\ ready' = ready /\ running' \in {Worker, None}
  BY Roles DEF NextFollowUp, loop, Places, Inductive
<1>2. pc'[Worker] = b
  BY <1>1 DEF Inductive
<1>3. UNCHANGED <<lifecycle, runLock, status, closing, live, base, snapshot, stored, observing>>
  BY DEF NextFollowUp, locks, phase, session
<1>4. LifecycleLock' /\ SlotLock' /\ Looping' /\ Moves(Worker, b, {})
  BY <1>1, <1>2, <1>3, Inside DEF OwnsLifecycle, OwnsSlot, Woke
<1>5. Phase(Worker)'
  BY <1>1, <1>2 DEF Phase
<1>6. Phases'
  BY <1>1, <1>3, <1>4, <1>5, Phased
<1>7. QED
  BY <1>1, <1>4, <1>6, Moved DEF Inductive

(* What a shutdown awaits at a place, if there is one. *)
LEMMA Awaited ==
  ASSUME NEW place
  PROVE  \/ Awaiting(place) = <<>> /\ \A s \in Closers : pc[s] # place
         \/ \E s \in Closers : pc[s] = place /\ Awaiting(place) = <<s>>
BY DEF Awaiting

LEMMA WorkerEndsStep ==
  ASSUME Inductive, WorkerEnds
  PROVE  Inductive'
<1>1. /\ running = Worker /\ pc[Worker] = "serving" /\ "idle" \in Places /\ Worker \in Tasks
      /\ pc' = [pc EXCEPT ![Worker] = "idle"] /\ running' = None /\ Worker \notin Closers
      /\ ready' = ready \o Awaiting("joining")
      /\ UNCHANGED <<lifecycle, runLock, status, closing, live, base, snapshot, stored,
                     observing>>
  BY Roles DEF WorkerEnds, locks, phase, session, Places
<1>2. pc'[Worker] = "idle"
  BY <1>1 DEF Inductive
<1>3. /\ ready \in Seq(Tasks) /\ Distinct(ready) /\ Worker \notin ToSet(ready)
      /\ ToSet(ready) \subseteq Tasks
  BY <1>1 DEF Inductive, Looping, Scheduled, ToSet
<1>4. PICK woken \in SUBSET {s \in Closers : pc[s] = "joining"} :
        /\ ready' \in Seq(Tasks) /\ Distinct(ready') /\ ToSet(ready') = ToSet(ready) \cup woken
  <2>1. CASE Awaiting("joining") = <<>>
    <3>1. ready' = ready
      BY <1>1, <1>3, <2>1
    <3>2. /\ {} \in SUBSET {s \in Closers : pc[s] = "joining"}
          /\ ready' \in Seq(Tasks) /\ Distinct(ready') /\ ToSet(ready') = ToSet(ready) \cup {}
      BY <1>3, <3>1
    <3>3. QED
      BY <3>2
  <2>2. CASE \E s \in Closers : pc[s] = "joining" /\ Awaiting("joining") = <<s>>
    <3>1. PICK s \in Closers : pc[s] = "joining" /\ Awaiting("joining") = <<s>>
      BY <2>2
    <3>2. s \in Tasks /\ s \notin ToSet(ready)
      BY <1>1, <3>1, Roles DEF Inductive, Looping, Woke, Going
    <3>3. ready' = Append(ready, s)
      BY <1>1, <1>3, <3>1, <3>2, AppendIsConcat
    <3>4. /\ ready' \in Seq(Tasks) /\ Distinct(ready')
          /\ ToSet(ready') = ToSet(ready) \cup {s}
      BY <1>3, <3>2, <3>3, AppendDistinct
    <3>5. {s} \in SUBSET {r \in Closers : pc[r] = "joining"}
      BY <3>1
    <3>6. QED
      BY <3>4, <3>5
  <2>3. QED
    BY <2>1, <2>2, Awaited
<1>5. woken \subseteq Tasks /\ Worker \notin woken
  BY <1>1, <1>4, Roles
<1>6. Scheduled' /\ \A u \in Going' : u \in Going \cup woken /\ u # Worker
  BY <1>1, <1>3, <1>4, <1>5, Roles DEF Scheduled, Going
<1>7. Moves(Worker, "idle", woken)
  BY <1>1, <1>4, <1>5, Roles DEF Moves, Going
<1>8. LifecycleLock'
  BY <1>1, <1>4, <1>7, LifecycleStays DEF OwnsLifecycle, Waits
<1>9. SlotLock'
  BY <1>1, <1>4, <1>7, SlotStays DEF OwnsSlot, Waits
<1>10. Looping'
  <2>1. ASSUME NEW u \in Going' PROVE Woke(u)'
    <3>1. u \in Tasks /\ u # Worker /\ u \in Going \cup woken
      BY <1>6, <2>1 DEF Going
    <3>2. pc'[u] = pc[u] /\ observing' = observing
      BY <1>1, <1>7, <3>1, Moved
    <3>3. pc[u] \notin {"idle", "done"} /\ (pc[u] = "flushing" => observing = 0)
      BY <1>4, <3>1 DEF Inductive, Looping, Woke
    <3>4. QED
      BY <1>2, <3>2, <3>3 DEF Woke
  <2>2. QED
    BY <1>6, <2>1 DEF Looping
<1>11. Phase(Worker)'
  BY <1>2 DEF Phase
<1>12. Phases'
  BY <1>1, <1>7, <1>11, Phased
<1>13. QED
  BY <1>1, <1>7, <1>8, <1>9, <1>10, <1>12, Moved DEF Inductive

-----------------------------------------------------------------------------
(* The steps of the event loop *)

(* Nothing moves: the same tasks are at the same places and go on. *)
LEMMA Still ==
  ASSUME Inductive, pc' = pc, Going' = Going,
         UNCHANGED <<lifecycle, runLock, status, closing, live, base, snapshot, stored,
                     observing>>,
         Scheduled'
  PROVE  Inductive'
<1>1. /\ Waits("gate")' = Waits("gate") /\ Waits("slot")' = Waits("slot")
      /\ Waits("leaving")' = Waits("leaving")
      /\ LifecycleOwners' = LifecycleOwners /\ SlotOwners' = SlotOwners
  BY DEF Waits, LifecycleOwners, SlotOwners, OwnsLifecycle, OwnsSlot
<1>2. LifecycleLock' /\ SlotLock'
  BY <1>1 DEF Inductive, LifecycleLock, SlotLock
<1>3. Looping'
  BY DEF Inductive, Looping, Woke
<1>4. Phases'
  BY DEF Inductive, Phases, Phase, Keeping
<1>5. QED
  BY <1>2, <1>3, <1>4 DEF Inductive

LEMMA ResumeStep ==
  ASSUME Inductive, Resume
  PROVE  Inductive'
<1>1. /\ running = None /\ ready # <<>> /\ running' = Head(ready) /\ ready' = Tail(ready)
      /\ pc' = pc
      /\ UNCHANGED <<lifecycle, runLock, status, closing, live, base, snapshot, stored,
                     observing>>
  BY DEF Resume, locks, phase, session
<1>2. ready \in Seq(Tasks) /\ Distinct(ready)
  BY DEF Inductive, Looping, Scheduled
<1>3. /\ Tail(ready) \in Seq(Tasks) /\ Distinct(Tail(ready))
      /\ ToSet(Tail(ready)) = ToSet(ready) \ {Head(ready)}
      /\ Head(ready) \in ToSet(ready) /\ Head(ready) \in Tasks
  BY <1>1, <1>2, TailDistinct
<1>4. Scheduled'
  BY <1>1, <1>3 DEF Scheduled
<1>5. Going' = Going
  BY <1>1, <1>3, Roles DEF Going
<1>6. QED
  BY <1>1, <1>4, <1>5, Still

LEMMA AnswerStep ==
  ASSUME Inductive, NEW t \in Tasks, Answer(t)
  PROVE  Inductive'
<1> DEFINE b == pc[t]
<1>1. /\ running = None /\ running' = None /\ t \notin ToSet(ready)
      /\ b \in {"starting", "loading", "undoing", "kernel", "committing", "releasing"}
      /\ ready' = Append(ready, t) /\ pc' = pc
      /\ UNCHANGED <<lifecycle, runLock, status, closing, live, base, snapshot, stored,
                     observing>>
  BY DEF Answer, locks, phase, session
<1>2. b \in Places /\ pc' = [pc EXCEPT ![t] = b]
  BY <1>1 DEF Inductive
<1>3. ready \in Seq(Tasks) /\ Distinct(ready)
  BY DEF Inductive, Looping, Scheduled
<1>4. /\ ready' \in Seq(Tasks) /\ Distinct(ready')
      /\ ToSet(ready') = ToSet(ready) \cup {t} /\ ToSet(ready) \subseteq Tasks
  BY <1>1, <1>3, AppendDistinct DEF ToSet
<1>5. Scheduled'
  BY <1>1, <1>4, Roles DEF Scheduled
<1> HIDE DEF b
<1>6. Moves(t, b, {})
  BY <1>1, <1>2, <1>4, Roles DEF Moves, Going
<1>7. LifecycleLock'
  BY <1>1, <1>6, LifecycleStays DEF b
<1>8. SlotLock'
  BY <1>1, <1>6, SlotStays DEF b
<1>9. Looping'
  <2>1. Woke(t)'
    BY <1>1 DEF Woke, b
  <2>2. \A u \in Going \ {t} : pc[u] = "flushing" => observing' = 0
    BY <1>1 DEF Inductive, Looping, Woke
  <2>3. QED
    BY <1>1, <1>5, <1>6, <2>1, <2>2, Wakes
<1>10. Phases'
  BY <1>1 DEF Inductive, Phases, Phase, Keeping
<1>11. QED
  BY <1>1, <1>7, <1>8, <1>9, <1>10 DEF Inductive

LEMMA ObserverDoneStep ==
  ASSUME Inductive, ObserverDone
  PROVE  Inductive'
<1>1. /\ running = None /\ running' = None /\ observing > 0 /\ observing' = observing - 1
      /\ pc' = pc /\ observing \in Nat
      /\ ready' = IF observing = 1 THEN ready \o Awaiting("flushing") ELSE ready
      /\ UNCHANGED <<lifecycle, runLock, status, closing, live, base, snapshot, stored>>
  BY DEF ObserverDone, locks, phase, session, Inductive, Phases, Keeping
<1>2. ready \in Seq(Tasks) /\ Distinct(ready) /\ ToSet(ready) \subseteq Tasks
  BY DEF Inductive, Looping, Scheduled, ToSet
<1>3. \A u \in Going : pc[u] # "flushing"
  BY <1>1 DEF Inductive, Looping, Woke
<1>4. PICK woken \in SUBSET {s \in Closers : pc[s] = "flushing"} :
        /\ ready' \in Seq(Tasks) /\ Distinct(ready') /\ ToSet(ready') = ToSet(ready) \cup woken
        /\ woken # {} => observing' = 0
  <2>1. CASE ready' = ready
    BY <1>2, <2>1
  <2>2. CASE observing = 1 /\ ready' = ready \o Awaiting("flushing")
    <3>1. CASE Awaiting("flushing") = <<>>
      <4>1. ready' = ready
        BY <1>2, <2>2, <3>1
      <4>2. QED
        BY <1>2, <4>1
    <3>2. CASE \E s \in Closers : pc[s] = "flushing" /\ Awaiting("flushing") = <<s>>
      <4>1. PICK s \in Closers : pc[s] = "flushing" /\ Awaiting("flushing") = <<s>>
        BY <3>2
      <4>2. s \in Tasks /\ s \notin ToSet(ready)
        BY <1>3, <4>1, Roles DEF Going
      <4>3. ready' = Append(ready, s)
        BY <1>2, <2>2, <4>1, <4>2, AppendIsConcat
      <4>4. /\ ready' \in Seq(Tasks) /\ Distinct(ready')
            /\ ToSet(ready') = ToSet(ready) \cup {s}
        BY <1>2, <4>2, <4>3, AppendDistinct
      <4>5. {s} \in SUBSET {r \in Closers : pc[r] = "flushing"} /\ observing' = 0
        BY <1>1, <2>2, <4>1
      <4>6. QED
        BY <4>4, <4>5
    <3>3. QED
      BY <3>1, <3>2, Awaited
  <2>3. QED
    BY <1>1, <2>1, <2>2
<1>5. Going' = Going \cup woken
  BY <1>1, <1>4, Roles DEF Going
<1>6. Scheduled'
  <2>1. ToSet(ready') \subseteq Tasks
    BY <1>2, <1>4, Roles
  <2>2. QED
    BY <1>1, <1>4, <2>1, Roles DEF Scheduled
<1> DEFINE b == pc[Worker]
<1>7. Moves(Worker, b, woken) /\ Worker \notin woken /\ Worker \in Tasks
  BY <1>1, <1>4, <1>5, Roles DEF Moves, Inductive
<1>8. /\ Waits("gate")' = Waits("gate") /\ Waits("slot")' = Waits("slot")
      /\ Waits("leaving")' = Waits("leaving")
      /\ LifecycleOwners' = LifecycleOwners /\ SlotOwners' = SlotOwners
  BY <1>1 DEF Waits, LifecycleOwners, SlotOwners, OwnsLifecycle, OwnsSlot
<1>9. /\ Waits("gate") \cap Going' = Waits("gate") \cap Going
      /\ Waits("slot") \cap Going' = Waits("slot") \cap Going
  BY <1>4, <1>5 DEF Waits
<1>10. LifecycleLock'
  BY <1>1, <1>8, <1>9 DEF Inductive, LifecycleLock, Discipline
<1>11. SlotLock'
  BY <1>1, <1>8, <1>9 DEF Inductive, SlotLock, Discipline
<1>12. ASSUME NEW u \in Going' PROVE Woke(u)'
  BY <1>1, <1>3, <1>4, <1>5, <1>12 DEF Inductive, Looping, Woke
<1>13. Phases'
  BY <1>1 DEF Inductive, Phases, Phase, Keeping
<1>14. QED
  BY <1>1, <1>6, <1>10, <1>11, <1>12, <1>13 DEF Inductive, Looping

-----------------------------------------------------------------------------
(* The steps of the application *)
LEMMA CallStep ==
  ASSUME Inductive, NEW t \in Tasks, running = None, pc[t] = "idle", running' = t,
         pc' = [pc EXCEPT ![t] = "entering"],
         UNCHANGED <<ready, lifecycle, runLock, status, closing, live, base, snapshot,
                     stored, observing>>,
         t # Worker
  PROVE  Inductive'
<1>1. pc'[t] = "entering" /\ pc'[Worker] = pc[Worker] /\ t \notin Going
  BY Roles DEF Inductive, Looping, Woke
<1>2. ready \in Seq(Tasks) /\ Distinct(ready) /\ t \notin ToSet(ready)
  BY <1>1 DEF Inductive, Looping, Scheduled, Going
<1>3. Scheduled'
  BY <1>2 DEF Scheduled
<1>4. Moves(t, "entering", {})
  BY Roles DEF Moves, Going, Places
<1>5. LifecycleLock'
  BY <1>4, LifecycleStays DEF OwnsLifecycle
<1>6. SlotLock'
  BY <1>4, SlotStays DEF OwnsSlot
<1>7. Looping'
  <2>1. Woke(t)'
    BY <1>1 DEF Woke
  <2>2. \A u \in Going \ {t} : pc[u] = "flushing" => observing' = 0
    BY DEF Inductive, Looping, Woke
  <2>3. QED
    BY <1>1, <1>3, <1>4, <2>1, <2>2, Wakes
<1>8. Phase(t)'
  BY <1>1 DEF Phase
<1>9. Phases'
  BY <1>4, <1>8, Phased
<1>10. QED
  BY <1>4, <1>5, <1>6, <1>7, <1>9, Moved DEF Inductive

LEMMA FollowUpStep ==
  ASSUME Inductive, NEW f \in FollowUps, FollowUp(f)
  PROVE  Inductive'
<1>1. /\ running = None /\ running' = None
      /\ UNCHANGED <<lifecycle, runLock, status, closing, live, base, snapshot, stored,
                     observing>>
  BY DEF FollowUp, locks, phase, session
<1>2. /\ ready \in Seq(Tasks) /\ Distinct(ready) /\ Worker \in Tasks
      /\ ToSet(ready) \subseteq Tasks
  BY Roles DEF Inductive, Looping, Scheduled, ToSet
<1>3. CASE UNCHANGED <<pc, ready>>
  <2>1. Going' = Going
    BY <1>1, <1>3 DEF Going
  <2>2. Scheduled'
    BY <1>1, <1>2, <1>3, Roles DEF Scheduled
  <2>3. QED
    BY <1>1, <1>3, <2>1, <2>2, Still
<1>4. CASE /\ ~Closed /\ pc[Worker] = "idle"
           /\ pc' = [pc EXCEPT ![Worker] = "serving"]
           /\ ready' = Append(ready, Worker)
  <2>1. pc'[Worker] = "serving" /\ Worker \notin ToSet(ready) /\ ~closing
    BY <1>2, <1>4 DEF Inductive, Looping, Woke, Going, Closed
  <2>2. /\ ready' \in Seq(Tasks) /\ Distinct(ready')
        /\ ToSet(ready') = ToSet(ready) \cup {Worker}
    BY <1>2, <1>4, <2>1, AppendDistinct
  <2>3. Scheduled'
    BY <1>1, <1>2, <2>2, Roles DEF Scheduled
  <2>4. Moves(Worker, "serving", {})
    BY <1>1, <1>4, <2>2 DEF Moves, Going, Places
  <2>5. LifecycleLock'
    BY <1>1, <1>2, <1>4, <2>4, LifecycleStays DEF OwnsLifecycle
  <2>6. SlotLock'
    BY <1>1, <1>2, <1>4, <2>4, SlotStays DEF OwnsSlot
  <2>7. ASSUME NEW u \in Going' PROVE Woke(u)'
    <3>1. CASE u = Worker
      BY <2>1, <3>1 DEF Woke
    <3>2. CASE u # Worker
      <4>1. u \in Going /\ u \in Tasks /\ pc'[u] = pc[u]
        BY <1>2, <2>4, <2>7, <3>2, Moved DEF Moves, Going
      <4>2. pc[u] # "joining"
        BY <2>1, <4>1 DEF Inductive, Phases, Phase
      <4>3. QED
        BY <1>1, <4>1, <4>2 DEF Inductive, Looping, Woke
    <3>3. QED
      BY <3>1, <3>2
  <2>8. Phase(Worker)'
    BY <2>1 DEF Phase
  <2>9. Phases'
    BY <1>1, <1>2, <2>4, <2>8, Phased
  <2>10. QED
    BY <1>2, <2>3, <2>4, <2>5, <2>6, <2>7, <2>9, Moved DEF Inductive, Looping
<1>5. QED
  BY <1>3, <1>4 DEF FollowUp

LEMMA AbandonStep ==
  ASSUME Inductive, NEW t \in Tasks, Abandon(t)
  PROVE  Inductive'
<1>1. /\ running = None /\ running' = None /\ pc[t] \in {"gate", "slot"}
      /\ pc' = [pc EXCEPT ![t] = "leaving"]
      /\ ready' = IF t \in ToSet(ready) THEN ready ELSE Append(ready, t)
      /\ UNCHANGED <<lifecycle, runLock, status, closing, live, base, snapshot, stored,
                     observing>>
  BY DEF Abandon, locks, phase, session
<1>2. /\ ready \in Seq(Tasks) /\ Distinct(ready) /\ ToSet(ready) \subseteq Tasks
      /\ pc'[t] = "leaving"
  BY <1>1 DEF Inductive, Looping, Scheduled, ToSet
<1>3. /\ ready' \in Seq(Tasks) /\ Distinct(ready') /\ ToSet(ready') = ToSet(ready) \cup {t}
  BY <1>1, <1>2, AppendDistinct
<1>4. Scheduled'
  BY <1>1, <1>2, <1>3, Roles DEF Scheduled
<1>5. Moves(t, "leaving", {})
  BY <1>1, <1>3 DEF Moves, Going, Places
<1>6. /\ Waits("gate") \in SUBSET Tasks /\ Waits("gate")' \in SUBSET Tasks
      /\ Waits("slot") \in SUBSET Tasks /\ Waits("slot")' \in SUBSET Tasks
      /\ Waits("leaving") \in SUBSET Tasks /\ Waits("leaving")' \in SUBSET Tasks
      /\ LifecycleOwners \in SUBSET Tasks /\ LifecycleOwners' \in SUBSET Tasks
      /\ SlotOwners \in SUBSET Tasks /\ SlotOwners' \in SUBSET Tasks
      /\ Going \in SUBSET Tasks /\ Going' \in SUBSET Tasks
  BY DEF Waits, LifecycleOwners, SlotOwners, Going
<1>7. /\ t \notin Waits("gate")' /\ t \notin Waits("slot")' /\ t \in Waits("leaving")'
      /\ t \notin LifecycleOwners' /\ t \notin SlotOwners'
  BY <1>2, <1>5, Moved DEF OwnsLifecycle, OwnsSlot
<1>8. \A u \in Tasks \ {t} : u \in Going' <=> u \in Going
  BY <1>5 DEF Moves
<1>9. LifecycleLock'
  <2> DEFINE W == Waits("gate")  O == LifecycleOwners  Q == Waits("leaving")
             W2 == W'  O2 == O'  Q2 == Q'
  <2>1. Discipline(lifecycle, W, O, Q, Going) /\ Same(t, W, O, Q, W2, O2, Q2)
    BY <1>5, Moved DEF Inductive, LifecycleLock
  <2>2. t \notin W2 /\ t \notin O2 /\ t \in Q2
    BY <1>7
  <2>3. \A u \in W \ {t} : u \in Going' <=> u \in Going
    BY <1>6, <1>8
  <2>4. /\ W \in SUBSET Tasks /\ O \in SUBSET Tasks /\ Q \in SUBSET Tasks
        /\ W2 \in SUBSET Tasks /\ O2 \in SUBSET Tasks /\ Q2 \in SUBSET Tasks
    BY <1>6
  <2> HIDE DEF W, O, Q, W2, O2, Q2
  <2>5. Discipline(lifecycle, W2, O2, Q2, Going')
    BY <1>6, <2>1, <2>2, <2>3, <2>4, GivesUp
  <2>6. QED
    BY <1>1, <2>5 DEF LifecycleLock, W, O, Q, W2, O2, Q2
<1>10. SlotLock'
  <2> DEFINE W == Waits("slot")  O == SlotOwners  Q == Waits("leaving")
             W2 == W'  O2 == O'  Q2 == Q'
  <2>1. Discipline(runLock, W, O, Q, Going) /\ Same(t, W, O, Q, W2, O2, Q2)
    BY <1>5, Moved DEF Inductive, SlotLock
  <2>2. t \notin W2 /\ t \notin O2 /\ t \in Q2
    BY <1>7
  <2>3. \A u \in W \ {t} : u \in Going' <=> u \in Going
    BY <1>6, <1>8
  <2>4. /\ W \in SUBSET Tasks /\ O \in SUBSET Tasks /\ Q \in SUBSET Tasks
        /\ W2 \in SUBSET Tasks /\ O2 \in SUBSET Tasks /\ Q2 \in SUBSET Tasks
    BY <1>6
  <2> HIDE DEF W, O, Q, W2, O2, Q2
  <2>5. Discipline(runLock, W2, O2, Q2, Going')
    BY <1>6, <2>1, <2>2, <2>3, <2>4, GivesUp
  <2>6. QED
    BY <1>1, <2>5 DEF SlotLock, W, O, Q, W2, O2, Q2
<1>11. Looping'
  <2>1. Woke(t)'
    BY <1>2 DEF Woke
  <2>2. \A u \in Going \ {t} : pc[u] = "flushing" => observing' = 0
    BY <1>1 DEF Inductive, Looping, Woke
  <2>3. pc[Worker] = "idle" => pc'[Worker] = "idle"
    BY <1>1, <1>5, Moved, Roles
  <2>4. QED
    BY <1>4, <1>5, <2>1, <2>2, <2>3, Wakes
<1>12. Phase(t)'
  BY <1>2 DEF Phase
<1>13. Phases'
  BY <1>1, <1>5, <1>12, Phased
<1>14. QED
  BY <1>5, <1>9, <1>10, <1>11, <1>13, Moved DEF Inductive

-----------------------------------------------------------------------------
(* The steps that ask for a lock, and the step of a cancelled task *)
LEMMA EnterStep ==
  ASSUME Inductive, NEW t \in Tasks, Enter(t)
  PROVE  Inductive'
<1>1. /\ running = t /\ pc[t] = "entering" /\ pc' = [pc EXCEPT ![t] = "gate"] /\ "gate" \in Places
      /\ lifecycle' = Append(lifecycle, t) /\ running' = IF lifecycle = <<>> THEN t ELSE None
      /\ UNCHANGED <<ready, runLock, status, closing, live, base, snapshot, stored,
                     observing>>
  BY DEF Enter, Goto, phase, session, Places
<1>2. pc'[t] = "gate"
  BY <1>1 DEF Inductive
<1>3. Scheduled' /\ Moves(t, "gate", {}) /\ (t \in Going' <=> running' = t) /\ t \in Going
  BY <1>1, LoopKeeps
<1>4. LifecycleLock'
  <2> DEFINE W == Waits("gate")  O == LifecycleOwners  Q == Waits("leaving")
             W2 == W'  O2 == O'  Q2 == Q'
  <2>1. /\ W \in SUBSET Tasks /\ O \in SUBSET Tasks /\ Q \in SUBSET Tasks
        /\ W2 \in SUBSET Tasks /\ O2 \in SUBSET Tasks /\ Q2 \in SUBSET Tasks
        /\ Going \in SUBSET Tasks /\ Going' \in SUBSET Tasks
    BY DEF Waits, LifecycleOwners, Going
  <2>2. Discipline(lifecycle, W, O, Q, Going) /\ Same(t, W, O, Q, W2, O2, Q2)
    BY <1>3, Moved DEF Inductive, LifecycleLock
  <2>3. t \notin W /\ t \notin O /\ t \notin Q /\ t \in W2 /\ t \notin O2
    BY <1>1, <1>2 DEF Waits, LifecycleOwners, OwnsLifecycle
  <2>4. t \in Going' <=> lifecycle = <<>>
    BY <1>1, <1>3, Roles
  <2>5. \A u \in W : u \in Going' <=> u \in Going
    BY <1>3, <2>1, <2>3 DEF Moves
  <2> HIDE DEF W, O, Q, W2, O2, Q2
  <2>6. Discipline(Append(lifecycle, t), W2, O2, Q2, Going')
    BY <2>1, <2>2, <2>3, <2>4, <2>5, Joins
  <2>7. QED
    BY <1>1, <2>6 DEF LifecycleLock, W, O, Q, W2, O2, Q2
<1>5. SlotLock'
  BY <1>1, <1>3, SlotStays DEF OwnsSlot
<1>6. Looping'
  <2>1. Woke(t)'
    BY <1>2 DEF Woke
  <2>2. \A u \in Going \ {t} : pc[u] = "flushing" => observing' = 0
    BY <1>1 DEF Inductive, Looping, Woke
  <2>3. pc[Worker] = "idle" => pc'[Worker] = "idle"
    BY <1>1, <1>3, Moved, Roles
  <2>4. QED
    BY <1>3, <2>1, <2>2, <2>3, Wakes
<1>7. Phase(t)'
  BY <1>1, <1>2 DEF Phase, Inductive, Phases
<1>8. Phases'
  BY <1>1, <1>3, <1>7, Phased
<1>9. QED
  BY <1>3, <1>4, <1>5, <1>6, <1>8, Moved DEF Inductive

LEMMA TakeSlotStep ==
  ASSUME Inductive, NEW t \in Tasks, TakeSlot(t)
  PROVE  Inductive'
<1>1. /\ running = t /\ pc[t] = "queueing" /\ pc' = [pc EXCEPT ![t] = "slot"] /\ "slot" \in Places
      /\ runLock' = Append(runLock, t) /\ running' = IF runLock = <<>> THEN t ELSE None
      /\ UNCHANGED <<ready, lifecycle, status, closing, live, base, snapshot, stored,
                     observing>>
  BY DEF TakeSlot, Goto, phase, session, Places
<1>2. pc'[t] = "slot"
  BY <1>1 DEF Inductive
<1>3. Scheduled' /\ Moves(t, "slot", {}) /\ (t \in Going' <=> running' = t) /\ t \in Going
  BY <1>1, LoopKeeps
<1>4. SlotLock'
  <2> DEFINE W == Waits("slot")  O == SlotOwners  Q == Waits("leaving")
             W2 == W'  O2 == O'  Q2 == Q'
  <2>1. /\ W \in SUBSET Tasks /\ O \in SUBSET Tasks /\ Q \in SUBSET Tasks
        /\ W2 \in SUBSET Tasks /\ O2 \in SUBSET Tasks /\ Q2 \in SUBSET Tasks
        /\ Going \in SUBSET Tasks /\ Going' \in SUBSET Tasks
    BY DEF Waits, SlotOwners, Going
  <2>2. Discipline(runLock, W, O, Q, Going) /\ Same(t, W, O, Q, W2, O2, Q2)
    BY <1>3, Moved DEF Inductive, SlotLock
  <2>3. t \notin W /\ t \notin O /\ t \notin Q /\ t \in W2 /\ t \notin O2
    BY <1>1, <1>2 DEF Waits, SlotOwners, OwnsSlot
  <2>4. t \in Going' <=> runLock = <<>>
    BY <1>1, <1>3, Roles
  <2>5. \A u \in W : u \in Going' <=> u \in Going
    BY <1>3, <2>1, <2>3 DEF Moves
  <2> HIDE DEF W, O, Q, W2, O2, Q2
  <2>6. Discipline(Append(runLock, t), W2, O2, Q2, Going')
    BY <2>1, <2>2, <2>3, <2>4, <2>5, Joins
  <2>7. QED
    BY <1>1, <2>6 DEF SlotLock, W, O, Q, W2, O2, Q2
<1>5. LifecycleLock'
  BY <1>1, <1>3, LifecycleStays DEF OwnsLifecycle
<1>6. Looping'
  <2>1. Woke(t)'
    BY <1>2 DEF Woke
  <2>2. \A u \in Going \ {t} : pc[u] = "flushing" => observing' = 0
    BY <1>1 DEF Inductive, Looping, Woke
  <2>3. pc[Worker] = "idle" => pc'[Worker] = "idle"
    BY <1>1, <1>3, Moved, Roles
  <2>4. QED
    BY <1>3, <2>1, <2>2, <2>3, Wakes
<1>7. Phase(t)'
  BY <1>1, <1>2 DEF Phase, Inductive, Phases
<1>8. Phases'
  BY <1>1, <1>3, <1>7, Phased
<1>9. QED
  BY <1>3, <1>4, <1>5, <1>6, <1>8, Moved DEF Inductive

(* Where the loop is when t has left both lines. *)
LEMMA LeftLoop ==
  ASSUME Inductive, NEW t \in Tasks, running = t, pc[t] = "leaving", LeaveLocks(t)
  PROVE  /\ Scheduled' /\ (t \in Going' => Ended(t) = "serving")
         /\ \E woken \in SUBSET (Second(lifecycle) \cup Second(runLock)) :
              /\ Moves(t, Ended(t), woken) /\ t \notin woken
              /\ woken \cap Waits("gate") =
                   IF lifecycle # <<>> /\ Head(lifecycle) = t
                     THEN Second(lifecycle) \cap Waits("gate") ELSE {}
              /\ woken \cap Waits("slot") =
                   IF runLock # <<>> /\ Head(runLock) = t
                     THEN Second(runLock) \cap Waits("slot") ELSE {}
<1> DEFINE First(lock) == lock # <<>> /\ Head(lock) = t
           next(lock) == IF First(lock) THEN Second(lock) ELSE {}
           passed(lock, r) == IF First(lock) THEN Woken(lock, r) ELSE r
           r1 == passed(runLock, ready)
           r2 == passed(lifecycle, r1)
           woken == next(lifecycle) \cup next(runLock)
<1>1. /\ lifecycle \in Seq(Tasks) /\ Distinct(lifecycle)
      /\ runLock \in Seq(Tasks) /\ Distinct(runLock)
      /\ ready \in Seq(Tasks) /\ Distinct(ready) /\ t \notin ToSet(ready)
  BY DEF Inductive, LifecycleLock, SlotLock, Discipline, Looping, Scheduled
<1>2. ready' = r2 /\ End(t, "raised")
  BY DEF LeaveLocks
<1>3. /\ Ended(t) \in Places /\ Ended(t) \in {"serving", "done"}
      /\ pc' = [pc EXCEPT ![t] = Ended(t)]
      /\ running' \in {t, None} /\ (running' = t => Ended(t) = "serving")
  BY <1>2, Ends
<1>4. /\ r1 \in Seq(Tasks) /\ Distinct(r1) /\ ToSet(r1) = ToSet(ready) \cup next(runLock)
  BY <1>1, WokenSet
<1> HIDE DEF r1
<1>5. /\ r2 \in Seq(Tasks) /\ Distinct(r2) /\ ToSet(r2) = ToSet(r1) \cup next(lifecycle)
  BY <1>1, <1>4, WokenSet
<1> HIDE DEF r2
<1>6. /\ t \notin next(lifecycle) /\ next(lifecycle) \subseteq Tasks
      /\ t \notin next(runLock) /\ next(runLock) \subseteq Tasks
  BY <1>1, TailDistinct DEF Second
<1>7. /\ next(lifecycle) \subseteq Second(lifecycle)
      /\ next(runLock) \subseteq Second(runLock)
  OBVIOUS
<1> HIDE DEF next
<1>8. ToSet(ready') = ToSet(ready) \cup woken /\ t \notin woken /\ woken \subseteq Tasks
  BY <1>2, <1>4, <1>5, <1>6
<1>9. ToSet(ready) \subseteq Tasks
  BY <1>1 DEF ToSet
<1>10. Scheduled'
  BY <1>1, <1>2, <1>3, <1>5, <1>8, <1>9, Roles DEF Scheduled
<1>11. t \in Going' => Ended(t) = "serving"
  BY <1>1, <1>3, <1>8 DEF Going
<1>12. Moves(t, Ended(t), woken)
  <2>1. \A u \in Tasks \ {t} : u \in Going' <=> u \in Going \cup woken
    BY <1>3, <1>8, Roles DEF Going
  <2>2. QED
    BY <1>3, <2>1 DEF Moves
<1>13. /\ next(runLock) \cap Waits("gate") = {}
       /\ next(lifecycle) \cap Waits("slot") = {}
  BY <1>7, Seconds DEF Waits
<1>14. /\ woken \cap Waits("gate") = next(lifecycle) \cap Waits("gate")
       /\ woken \cap Waits("slot") = next(runLock) \cap Waits("slot")
  BY <1>13
<1>15. /\ woken \cap Waits("gate") =
            IF First(lifecycle) THEN Second(lifecycle) \cap Waits("gate") ELSE {}
       /\ woken \cap Waits("slot") =
            IF First(runLock) THEN Second(runLock) \cap Waits("slot") ELSE {}
  BY <1>14 DEF next
<1>16. woken \in SUBSET (Second(lifecycle) \cup Second(runLock))
  BY <1>7
<1>17. QED
  BY <1>8, <1>10, <1>11, <1>12, <1>15, <1>16

LEMMA LeaveLocksStep ==
  ASSUME Inductive, NEW t \in Tasks, LeaveLocks(t)
  PROVE  Inductive'
<1>1. /\ running = t /\ pc[t] = "leaving" /\ End(t, "raised")
      /\ Ended(t) \in Places /\ Ended(t) \in {"serving", "done"}
      /\ pc' = [pc EXCEPT ![t] = Ended(t)]
      /\ lifecycle' = Without(lifecycle, t) /\ runLock' = Without(runLock, t)
      /\ UNCHANGED <<status, closing, live, base, snapshot, stored, observing>>
  BY Ends DEF LeaveLocks, phase, session
<1>2. PICK woken \in SUBSET (Second(lifecycle) \cup Second(runLock)) :
        /\ Moves(t, Ended(t), woken) /\ t \notin woken
        /\ woken \cap Waits("gate") =
             IF lifecycle # <<>> /\ Head(lifecycle) = t
               THEN Second(lifecycle) \cap Waits("gate") ELSE {}
        /\ woken \cap Waits("slot") =
             IF runLock # <<>> /\ Head(runLock) = t
               THEN Second(runLock) \cap Waits("slot") ELSE {}
  BY <1>1, LeftLoop
<1>3. pc'[t] = Ended(t)
  BY <1>1 DEF Inductive
<1>4. LifecycleLock'
  <2> DEFINE W == Waits("gate")  O == LifecycleOwners  Q == Waits("leaving")
             W2 == W'  O2 == O'  Q2 == Q'
  <2>1. /\ W \in SUBSET Tasks /\ O \in SUBSET Tasks /\ Q \in SUBSET Tasks
        /\ W2 \in SUBSET Tasks /\ O2 \in SUBSET Tasks /\ Q2 \in SUBSET Tasks
        /\ Going \in SUBSET Tasks /\ Going' \in SUBSET Tasks
    BY DEF Waits, LifecycleOwners, Going
  <2>2. Discipline(lifecycle, W, O, Q, Going) /\ Same(t, W, O, Q, W2, O2, Q2)
    BY <1>2, Moved DEF Inductive, LifecycleLock
  <2>3. t \notin W /\ t \notin O /\ t \notin W2 /\ t \notin O2
    BY <1>1, <1>3 DEF Waits, LifecycleOwners, OwnsLifecycle, OwnsSlot
  <2>4. \A u \in W : u \in Going' <=>
           \/ u \in Going
           \/ lifecycle # <<>> /\ Head(lifecycle) = t /\ u \in Second(lifecycle)
    <3>1. ASSUME NEW u \in W PROVE u \in Going' <=> u \in Going \cup woken
      BY <1>2, <2>1, <2>3, <3>1 DEF Moves
    <3>2. ASSUME NEW u \in W
          PROVE  u \in woken <=> lifecycle # <<>> /\ Head(lifecycle) = t /\ u \in Second(lifecycle)
      BY <1>2, <3>2
    <3>3. QED
      BY <3>1, <3>2
  <2> HIDE DEF W, O, Q, W2, O2, Q2
  <2>5. Discipline(Without(lifecycle, t), W2, O2, Q2, Going')
    BY <2>1, <2>2, <2>3, <2>4, Leaves
  <2>6. QED
    BY <1>1, <2>5 DEF LifecycleLock, W, O, Q, W2, O2, Q2
<1>5. SlotLock'
  <2> DEFINE W == Waits("slot")  O == SlotOwners  Q == Waits("leaving")
             W2 == W'  O2 == O'  Q2 == Q'
  <2>1. /\ W \in SUBSET Tasks /\ O \in SUBSET Tasks /\ Q \in SUBSET Tasks
        /\ W2 \in SUBSET Tasks /\ O2 \in SUBSET Tasks /\ Q2 \in SUBSET Tasks
        /\ Going \in SUBSET Tasks /\ Going' \in SUBSET Tasks
    BY DEF Waits, SlotOwners, Going
  <2>2. Discipline(runLock, W, O, Q, Going) /\ Same(t, W, O, Q, W2, O2, Q2)
    BY <1>2, Moved DEF Inductive, SlotLock
  <2>3. t \notin W /\ t \notin O /\ t \notin W2 /\ t \notin O2
    BY <1>1, <1>3 DEF Waits, SlotOwners, OwnsLifecycle, OwnsSlot
  <2>4. \A u \in W : u \in Going' <=>
           \/ u \in Going
           \/ runLock # <<>> /\ Head(runLock) = t /\ u \in Second(runLock)
    <3>1. ASSUME NEW u \in W PROVE u \in Going' <=> u \in Going \cup woken
      BY <1>2, <2>1, <2>3, <3>1 DEF Moves
    <3>2. ASSUME NEW u \in W
          PROVE  u \in woken <=> runLock # <<>> /\ Head(runLock) = t /\ u \in Second(runLock)
      BY <1>2, <3>2
    <3>3. QED
      BY <3>1, <3>2
  <2> HIDE DEF W, O, Q, W2, O2, Q2
  <2>5. Discipline(Without(runLock, t), W2, O2, Q2, Going')
    BY <2>1, <2>2, <2>3, <2>4, Leaves
  <2>6. QED
    BY <1>1, <2>5 DEF SlotLock, W, O, Q, W2, O2, Q2
<1>6. Looping'
  <2>1. Scheduled' /\ (t \in Going' => Ended(t) = "serving")
    BY <1>1, LeftLoop
  <2>2. t \in Going' => Woke(t)'
    BY <1>3, <2>1 DEF Woke
  <2>3. \A u \in Going \ {t} : pc[u] = "flushing" => observing' = 0
    BY <1>1 DEF Inductive, Looping, Woke
  <2>4. pc[Worker] = "idle" => pc'[Worker] = "idle"
    BY <1>1, <1>2, Moved, Roles
  <2>5. QED
    BY <1>2, <2>1, <2>2, <2>3, <2>4, Seconds, Wakes
<1>7. Phase(t)'
  BY <1>1, <1>3 DEF Phase
<1>8. Phases'
  BY <1>1, <1>2, <1>7, Phased
<1>9. QED
  BY <1>2, <1>4, <1>5, <1>6, <1>8, Moved DEF Inductive

-----------------------------------------------------------------------------
LEMMA InitHolds == Init => Inductive
<1> SUFFICES ASSUME Init PROVE Inductive
  OBVIOUS
<1>1. /\ ready = <<>> /\ running = None /\ lifecycle = <<>> /\ runLock = <<>>
      /\ \A t \in Tasks : pc[t] = "idle"
      /\ pc \in [Tasks -> Places]
  BY DEF Init, Places
<1>2. \A s : s = <<>> => s \in Seq(Tasks) /\ Distinct(s) /\ ToSet(s) = {}
  BY DEF Distinct, ToSet
<1>3. Going = {}
  BY <1>1, <1>2, Roles DEF Going
<1>4. Waits("gate") = {} /\ Waits("slot") = {} /\ Waits("leaving") = {}
  BY <1>1 DEF Waits
<1>5. LifecycleOwners = {} /\ SlotOwners = {}
  BY <1>1 DEF LifecycleOwners, SlotOwners, OwnsLifecycle, OwnsSlot
<1>6. LifecycleLock
  BY <1>1, <1>2, <1>3, <1>4, <1>5 DEF LifecycleLock, Discipline
<1>7. SlotLock
  BY <1>1, <1>2, <1>3, <1>4, <1>5 DEF SlotLock, Discipline
<1>8. Looping
  BY <1>1, <1>2, <1>3, Roles DEF Looping, Scheduled
<1>9. Keeping
  BY DEF Init, Keeping
<1>10. \A t \in Tasks : Phase(t)
  BY <1>1 DEF Phase
<1>11. QED
  BY <1>1, <1>6, <1>7, <1>8, <1>9, <1>10 DEF Inductive, Phases

LEMMA RunStepHolds ==
  ASSUME Inductive, NEW t \in Runners, RunStep(t)
  PROVE  Inductive'
<1>1. t \in Tasks
  BY Roles
<1>2. QED
  BY <1>1, PassGateStep, RefuseStartStep, BeginStartStep, StartResourceStep, LoadStep,
     UndoStep, RefuseRunStep, BeginRunStep, DrainSteeringStep, FinishStep,
     KernelRaisesStep, CommitStep, CommitRaisesStep DEF RunStep

LEMMA ClosersStepHolds ==
  ASSUME Inductive, NEW t \in Closers, CloseStep(t)
  PROVE  Inductive'
<1>1. t \in Tasks
  BY Roles
<1>2. QED
  BY <1>1, AlreadyClosedStep, BeginClosingStep, FlushStep, ReleaseResourceStep,
     CloseStepHolds, LeaveStep DEF CloseStep

LEMMA ApplicationHolds ==
  ASSUME Inductive, Application
  PROVE  Inductive'
<1>1. CASE \E t \in Callers : CallRun(t)
  <2>1. PICK t \in Callers : CallRun(t)
    BY <1>1
  <2>2. t \in Tasks /\ t # Worker
    BY HarnessAssumption DEF Tasks
  <2>3. QED
    BY <2>1, <2>2, CallStep DEF CallRun, locks, phase, session
<1>2. CASE \E t \in Closers : CallShutdown(t)
  <2>1. PICK t \in Closers : CallShutdown(t)
    BY <1>2
  <2>2. t \in Tasks /\ t # Worker
    BY HarnessAssumption DEF Tasks
  <2>3. QED
    BY <2>1, <2>2, CallStep DEF CallShutdown, locks, phase, session
<1>3. CASE Cancel \/ \E i \in Inputs : Steer(i)
  <2>1. /\ UNCHANGED <<ready, running, pc, lifecycle, runLock, status, closing, live,
                       base, snapshot, stored, observing>>
    BY <1>3 DEF Cancel, Steer, loop, locks, phase, session
  <2>2. Going' = Going /\ Scheduled'
    BY <2>1 DEF Going, Inductive, Looping, Scheduled
  <2>3. QED
    BY <2>1, <2>2, Still
<1>4. CASE \E t \in Impatient : Abandon(t)
  BY <1>4, AbandonStep, HarnessAssumption DEF Tasks
<1>5. CASE \E f \in FollowUps : FollowUp(f)
  BY <1>5, FollowUpStep
<1>6. QED
  BY <1>1, <1>2, <1>3, <1>4, <1>5 DEF Application

LEMMA NextHolds ==
  ASSUME Inductive, [Next]_vars
  PROVE  Inductive'
<1>1. CASE Application
  BY <1>1, ApplicationHolds
<1>2. CASE Resume
  BY <1>2, ResumeStep
<1>3. CASE \E t \in Tasks : Enter(t) \/ TakeSlot(t)
  BY <1>3, EnterStep, TakeSlotStep
<1>4. CASE \E t \in Impatient : LeaveLocks(t)
  BY <1>4, LeaveLocksStep, HarnessAssumption DEF Tasks
<1>5. CASE \E t \in Runners : RunStep(t)
  BY <1>5, RunStepHolds
<1>6. CASE \E t \in Closers : CloseStep(t)
  BY <1>6, ClosersStepHolds
<1>7. CASE NextFollowUp \/ WorkerEnds
  BY <1>7, NextFollowUpStep, WorkerEndsStep
<1>8. CASE ObserverDone
  BY <1>8, ObserverDoneStep
<1>9. CASE \E t \in Tasks : Answer(t)
  BY <1>9, AnswerStep
<1>10. CASE UNCHANGED vars
  <2>1. UNCHANGED <<ready, running, pc, lifecycle, runLock, status, closing, live,
                    base, snapshot, stored, observing>>
    BY <1>10 DEF vars
  <2>2. Going' = Going /\ Scheduled'
    BY <2>1 DEF Going, Inductive, Looping, Scheduled
  <2>3. QED
    BY <2>1, <2>2, Still
<1>11. QED
  BY <1>1, <1>2, <1>3, <1>4, <1>5, <1>6, <1>7, <1>8, <1>9, <1>10 DEF Next, Step

LEMMA InductiveHolds == Spec => []Inductive
BY InitHolds, NextHolds, PTL DEF Spec

(* For any number of callers, shutdowns and follow-ups, whoever is cancelled
   while it waits: one Run is active at a time, from the revision shown when it
   began; no revision is shown that is not recorded; and a released lock always
   wakes somebody who takes it (core.py: _execute, start, shutdown). *)
THEOREM RunsAreSerialHolds == Spec => []RunsAreSerial
<1>1. ASSUME Inductive PROVE RunsAreSerial
  <2>1. HandedOn(lifecycle, "gate")
    <3>1. ASSUME lifecycle # <<>>, pc[Head(lifecycle)] = "gate"
          PROVE  Head(lifecycle) \in {running} \cup ToSet(ready)
      <4>1. lifecycle \in Seq(Tasks) /\ Head(lifecycle) \in Tasks
        BY <1>1, <3>1 DEF Inductive, LifecycleLock, Discipline
      <4>2. Head(lifecycle) \in Going
        BY <1>1, <3>1, <4>1 DEF Inductive, LifecycleLock, Discipline, Waits
      <4>3. QED
        BY <4>2 DEF Going
    <3>2. QED
      BY <3>1 DEF HandedOn
  <2>2. HandedOn(runLock, "slot")
    <3>1. ASSUME runLock # <<>>, pc[Head(runLock)] = "slot"
          PROVE  Head(runLock) \in {running} \cup ToSet(ready)
      <4>1. runLock \in Seq(Tasks) /\ Head(runLock) \in Tasks
        BY <1>1, <3>1 DEF Inductive, SlotLock, Discipline
      <4>2. Head(runLock) \in Going
        BY <1>1, <3>1, <4>1 DEF Inductive, SlotLock, Discipline, Waits
      <4>3. QED
        BY <4>2 DEF Going
    <3>2. QED
      BY <3>1 DEF HandedOn
  <2>3. \A t, u \in Tasks : Active(t) /\ Active(u) => t = u
    BY <1>1, Alone DEF Active, OwnsSlot
  <2>4. (\E t \in Tasks : Active(t)) => base = snapshot
    BY <1>1 DEF Active, Inductive, Phases, Phase
  <2>5. status \in {"ready", "running"} => snapshot <= stored
    BY <1>1 DEF Inductive, Phases, Keeping
  <2>6. QED
    BY <2>1, <2>2, <2>3, <2>4, <2>5 DEF RunsAreSerial
<1>2. QED
  BY <1>1, InductiveHolds, PTL

(* For any number of them, and of resources: a Run executes, and an observer
   is told, only while all resources are started (core.py: start, shutdown). *)
THEOREM ResourcesOutliveTheirUsersHolds == Spec => []ResourcesOutliveTheirUsers
<1>1. Inductive => ResourcesOutliveTheirUsers
  BY DEF Inductive, Phases, Phase, Keeping, Active, ResourcesOutliveTheirUsers
<1>2. QED
  BY <1>1, InductiveHolds, PTL

-----------------------------------------------------------------------------
(* Steering is admitted only while a Run is at the Kernel. *)
Admitting ==
  /\ pc \in [Tasks -> Places]
  /\ steering \in Seq(Inputs)
  /\ fate \in [Inputs -> {"unused", "refused", "queued", "applied", "discarded", "lost"}]
  /\ admitting => \E t \in Tasks : pc[t] = "kernel"
  /\ \A i \in Inputs : fate[i] = "queued" => i \in ToSet(steering) /\ admitting

(* What a drain leaves behind. *)
LEMMA Drained ==
  ASSUME Admitting, NEW how \in {"applied", "discarded", "lost"}, Drain(how)
  PROVE  /\ steering' \in Seq(Inputs)
         /\ fate' \in [Inputs -> {"unused", "refused", "queued", "applied", "discarded",
                                  "lost"}]
         /\ \A i \in Inputs : fate'[i] # "queued"
BY DEF Drain, Admitting

(* The end of a Run leaves nothing queued. *)
LEMMA ClosedRun ==
  ASSUME Admitting, NEW t \in Tasks, running = t, NEW how, CloseRun(t, how)
  PROVE  Admitting'
<1>1. End(t, how) /\ Drain("lost") /\ admitting' = FALSE
  BY DEF CloseRun
<1>2. pc' \in [Tasks -> Places]
  BY <1>1, Ends DEF Admitting
<1>3. QED
  BY <1>1, <1>2, Drained DEF Admitting

(* A step that leaves the controls alone and every Run at the Kernel there. *)
LEMMA Apart ==
  ASSUME Admitting, pc' \in [Tasks -> Places], UNCHANGED <<admitting, steering, fate>>,
         \A t \in Tasks : pc[t] = "kernel" => pc'[t] = "kernel"
  PROVE  Admitting'
BY DEF Admitting

LEMMA ApartFrom ==
  ASSUME Admitting, NEW t \in Tasks, pc[t] # "kernel",
         NEW b \in Places, pc' = [pc EXCEPT ![t] = b], UNCHANGED <<admitting, steering, fate>>
  PROVE  Admitting'
<1>1. pc' \in [Tasks -> Places] /\ \A u \in Tasks : pc[u] = "kernel" => pc'[u] = "kernel"
  BY DEF Admitting
<1>2. QED
  BY <1>1, Apart

LEMMA ApartEnds ==
  ASSUME Admitting, NEW t \in Tasks, running = t, pc[t] # "kernel", NEW how, End(t, how),
         UNCHANGED <<admitting, steering, fate>>
  PROVE  Admitting'
BY Ends, ApartFrom

LEMMA AdmittingRun ==
  ASSUME Admitting, NEW t \in Runners, RunStep(t)
  PROVE  Admitting'
<1>1. t \in Tasks
  BY Roles
<1>2. CASE PassGate(t)
  BY <1>1, <1>2, ApartFrom DEF PassGate, Goto, controls, Places
<1>3. CASE RefuseStart(t)
  BY <1>1, <1>3, ApartEnds DEF RefuseStart, controls
<1>4. CASE BeginStart(t)
  BY <1>1, <1>4, ApartFrom DEF BeginStart, Goto, controls, Places
<1>5. CASE StartResource(t)
  <2>1. PICK b \in {"loading", "starting", "undoing"} : pc' = [pc EXCEPT ![t] = b]
    BY <1>5 DEF StartResource
  <2>2. QED
    BY <1>1, <1>5, <2>1, ApartFrom DEF StartResource, controls, Places
<1>6. CASE Load(t)
  <2>1. PICK b \in {"queueing", "undoing"} : pc' = [pc EXCEPT ![t] = b]
    BY <1>6 DEF Load
  <2>2. QED
    BY <1>1, <1>6, <2>1, ApartFrom DEF Load, controls, Places
<1>7. CASE Undo(t)
  <2>1. running = t /\ pc[t] = "undoing" /\ UNCHANGED <<admitting, steering, fate>>
    BY <1>7 DEF Undo, controls
  <2>2. pc' = pc \/ End(t, "raised")
    BY <1>7 DEF Undo
  <2>3. QED
    BY <1>1, <2>1, <2>2, ApartEnds, Apart DEF Admitting
<1>8. CASE RefuseRun(t)
  BY <1>1, <1>8, ApartEnds DEF RefuseRun, controls
<1>9. CASE BeginRun(t)
  <2>1. /\ pc' = [pc EXCEPT ![t] = "kernel"] /\ "kernel" \in Places /\ admitting' = TRUE
        /\ UNCHANGED <<steering, fate>>
    BY <1>9 DEF BeginRun, Goto, Places
  <2>2. pc' \in [Tasks -> Places] /\ pc'[t] = "kernel"
    BY <1>1, <2>1 DEF Admitting
  <2>3. QED
    BY <1>1, <2>1, <2>2 DEF Admitting
<1>10. CASE DrainSteering(t)
  <2>1. pc' = pc /\ admitting' = admitting /\ Drain("applied")
    BY <1>10 DEF DrainSteering
  <2>2. QED
    BY <2>1, Drained DEF Admitting
<1>11. CASE Finish(t)
  <2>1. /\ pc' = [pc EXCEPT ![t] = "committing"] /\ "committing" \in Places
        /\ admitting' = FALSE /\ Drain("discarded")
    BY <1>11 DEF Finish, Goto, Places
  <2>2. pc' \in [Tasks -> Places]
    BY <1>1, <2>1 DEF Admitting
  <2>3. QED
    BY <2>1, <2>2, Drained DEF Admitting
<1>12. CASE KernelRaises(t)
  BY <1>1, <1>12, ClosedRun DEF KernelRaises
<1>13. CASE Commit(t)
  BY <1>1, <1>13, ClosedRun DEF Commit
<1>14. CASE CommitRaises(t)
  BY <1>1, <1>14, ClosedRun DEF CommitRaises
<1>15. QED
  BY <1>2, <1>3, <1>4, <1>5, <1>6, <1>7, <1>8, <1>9, <1>10, <1>11, <1>12, <1>13, <1>14
     DEF RunStep

LEMMA AdmittingClose ==
  ASSUME Admitting, NEW t \in Closers, CloseStep(t)
  PROVE  Admitting'
<1>1. t \in Tasks
  BY Roles
<1>2. /\ UNCHANGED <<admitting, steering, fate>>
      /\ pc[t] \in {"gate", "slot", "flushing", "releasing", "joining"}
  BY DEF CloseStep, AlreadyClosed, BeginClosing, Flush, ReleaseResource, Close, Leave,
         Goto, controls
<1>3. \/ pc' = pc
      \/ \E b \in {"done", "queueing", "flushing", "releasing", "joining"} :
           pc' = [pc EXCEPT ![t] = b]
  BY DEF CloseStep, AlreadyClosed, BeginClosing, Flush, ReleaseResource, Close, Leave, Goto
<1>4. CASE pc' = pc
  BY <1>2, <1>4, Apart DEF Admitting
<1>5. CASE \E b \in {"done", "queueing", "flushing", "releasing", "joining"} :
             pc' = [pc EXCEPT ![t] = b]
  BY <1>1, <1>2, <1>5, ApartFrom DEF Places
<1>6. QED
  BY <1>3, <1>4, <1>5

LEMMA AdmittingApplication ==
  ASSUME Admitting, Application
  PROVE  Admitting'
<1>1. CASE \E t \in Callers \cup Closers : CallRun(t) \/ CallShutdown(t)
  <2>1. PICK t \in Tasks : CallRun(t) \/ CallShutdown(t)
    BY <1>1 DEF Tasks
  <2>2. /\ pc[t] = "idle" /\ pc' = [pc EXCEPT ![t] = "entering"]
        /\ UNCHANGED <<admitting, steering, fate>>
    BY <2>1 DEF CallRun, CallShutdown, controls
  <2>3. QED
    BY <2>2, ApartFrom DEF Places
<1>2. CASE Cancel
  BY <1>2, Apart DEF Cancel, Admitting
<1>3. CASE \E t \in Impatient : Abandon(t)
  <2>1. PICK t \in Tasks : Abandon(t)
    BY <1>3, HarnessAssumption DEF Tasks
  <2>2. /\ pc[t] # "kernel" /\ pc' = [pc EXCEPT ![t] = "leaving"]
        /\ UNCHANGED <<admitting, steering, fate>>
    BY <2>1 DEF Abandon, controls
  <2>3. QED
    BY <2>2, ApartFrom DEF Places
<1>4. CASE \E i \in Inputs : Steer(i)
  <2>1. PICK i \in Inputs : Steer(i)
    BY <1>4
  <2>2. pc' = pc /\ admitting' = admitting
    BY <2>1 DEF Steer, loop
  <2>3. CASE /\ admitting /\ steering' = Append(steering, i)
             /\ fate' = [fate EXCEPT ![i] = "queued"]
    <3>1. steering \in Seq(Inputs) /\ DOMAIN steering = 1..Len(steering)
      BY DEF Admitting
    <3>2. steering' \in Seq(Inputs) /\ ToSet(steering') = ToSet(steering) \cup {i}
      BY <2>3, <3>1, AppendProperties DEF ToSet
    <3>3. QED
      BY <2>2, <2>3, <3>2 DEF Admitting
  <2>4. CASE fate' = [fate EXCEPT ![i] = "refused"] /\ UNCHANGED steering
    BY <2>2, <2>4 DEF Admitting
  <2>5. QED
    BY <2>1, <2>3, <2>4 DEF Steer
<1>5. CASE \E f \in FollowUps : FollowUp(f)
  <2>1. PICK f \in FollowUps : FollowUp(f)
    BY <1>5
  <2>2. /\ UNCHANGED <<admitting, steering, fate>>
        /\ pc' = pc \/ (pc[Worker] = "idle" /\ pc' = [pc EXCEPT ![Worker] = "serving"])
    BY <2>1 DEF FollowUp, controls
  <2>3. QED
    BY <2>2, Apart, ApartFrom, Roles DEF Admitting, Places
<1>6. QED
  BY <1>1, <1>2, <1>3, <1>4, <1>5 DEF Application

LEMMA AdmittingNext ==
  ASSUME Admitting, [Next]_vars
  PROVE  Admitting'
<1>1. CASE Application
  BY <1>1, AdmittingApplication
<1>2. CASE Resume \/ ObserverDone \/ UNCHANGED vars \/ \E t \in Tasks : Answer(t)
  <2>1. pc' = pc /\ UNCHANGED <<admitting, steering, fate>>
    BY <1>2 DEF Resume, ObserverDone, Answer, controls, vars
  <2>2. QED
    BY <2>1, Apart DEF Admitting
<1>3. CASE \E t \in Tasks : Enter(t) \/ TakeSlot(t)
  <2>1. PICK t \in Tasks : Enter(t) \/ TakeSlot(t)
    BY <1>3
  <2>2. PICK b \in {"gate", "slot"} :
          /\ pc[t] # "kernel" /\ pc' = [pc EXCEPT ![t] = b]
          /\ UNCHANGED <<admitting, steering, fate>>
    BY <2>1 DEF Enter, TakeSlot, Goto, controls
  <2>3. QED
    BY <2>2, ApartFrom DEF Places
<1>4. CASE \E t \in Impatient : LeaveLocks(t)
  <2>1. PICK t \in Tasks : LeaveLocks(t)
    BY <1>4, HarnessAssumption DEF Tasks
  <2>2. QED
    BY <2>1, ApartEnds DEF LeaveLocks, controls
<1>5. CASE \E t \in Runners : RunStep(t)
  BY <1>5, AdmittingRun
<1>6. CASE \E t \in Closers : CloseStep(t)
  BY <1>6, AdmittingClose
<1>7. CASE NextFollowUp \/ WorkerEnds
  <2>1. /\ pc[Worker] = "serving" /\ UNCHANGED <<admitting, steering, fate>>
        /\ \/ pc' = pc
           \/ \E b \in {"entering", "idle"} : pc' = [pc EXCEPT ![Worker] = b]
    BY <1>7 DEF NextFollowUp, WorkerEnds, controls
  <2>2. QED
    BY <2>1, Apart, ApartFrom, Roles DEF Admitting, Places
<1>8. QED
  BY <1>1, <1>2, <1>3, <1>4, <1>5, <1>6, <1>7 DEF Next, Step

(* For any number of Runs, inputs and shutdowns: what is queued belongs to the
   Run at the Kernel (core.py: steer, _execute). *)
THEOREM SteeringBelongsToItsRunHolds == Spec => []SteeringBelongsToItsRun
<1>1. Init => Admitting
  BY DEF Init, Admitting, Places
<1>2. Admitting => SteeringBelongsToItsRun
  BY DEF Admitting, SteeringBelongsToItsRun
<1>3. QED
  BY <1>1, <1>2, AdmittingNext, PTL DEF Spec

-----------------------------------------------------------------------------
(* Follow-ups: what is pending is in the queue or being served, and the queue
   keeps the order in which follow-ups were accepted. *)
Handles == {"unused", "rejected", "pending", "resolved", "discarded", "failed"}
Pending == {f \in FollowUps : handle[f] = "pending"}
Unoccupied == {"idle", "serving"}

Holding ==
  /\ pc \in [Tasks -> Places] /\ handle \in [FollowUps -> Handles]
  /\ queue \in Seq(FollowUps) /\ Distinct(queue)
  /\ serving \in FollowUps \cup {None} /\ serving \notin ToSet(queue)
  /\ serving = None <=> pc[Worker] \in Unoccupied
  /\ \A f \in FollowUps : f \in Pending <=> f \in ToSet(queue) \cup {serving}

Counting == IsFiniteSet(Pending) /\ outstanding = Cardinality(Pending)

Ordering ==
  /\ accepted \in Seq(FollowUps) /\ Distinct(accepted)
  /\ \A i \in 1..Len(accepted) : handle[accepted[i]] # "unused"
  /\ \A i, j \in 1..Len(accepted) : i < j =>
       /\ accepted[i] \in ToSet(queue) => accepted[j] \in ToSet(queue)
       /\ accepted[i] = serving =>
            accepted[j] \in ToSet(queue) \/ handle[accepted[j]] = "discarded"
  /\ \A p, q \in 1..Len(queue) : \A i, j \in 1..Len(accepted) :
       p < q /\ queue[p] = accepted[i] /\ queue[q] = accepted[j] => i < j

Serving == Holding /\ Counting /\ Ordering

(* As many elements as a sequence without repetition is long. *)
LEMMA CardinalityOfDistinct ==
  ASSUME NEW S, NEW s \in Seq(S), Distinct(s)
  PROVE  IsFiniteSet(ToSet(s)) /\ Cardinality(ToSet(s)) = Len(s)
<1>1. Len(s) \in Nat /\ DOMAIN s = 1..Len(s)
  OBVIOUS
<1>2. s \in [1..Len(s) -> ToSet(s)]
  BY <1>1 DEF ToSet
<1>3. \A x \in ToSet(s) : \E i \in 1..Len(s) : s[i] = x
  BY <1>1 DEF ToSet
<1>4. s \in Bijection(1..Len(s), ToSet(s))
  BY <1>1, <1>2, <1>3 DEF Bijection, Injection, Surjection, IsInjective, Distinct
<1>5. ExistsBijection(1..Len(s), ToSet(s))
  BY <1>4 DEF ExistsBijection
<1>6. QED
  BY <1>1, <1>5, FS_NatBijection, FS_CountingElements

(* Steps that leave the follow-ups alone. *)
LEMMA Elsewhere ==
  ASSUME Serving, pc' \in [Tasks -> Places],
         UNCHANGED <<queue, outstanding, serving, handle, accepted>>,
         pc'[Worker] \in Unoccupied <=> pc[Worker] \in Unoccupied
  PROVE  Serving'
<1>1. Pending' = Pending
  BY DEF Pending
<1>2. Holding'
  BY <1>1 DEF Serving, Holding
<1>3. Counting'
  BY <1>1 DEF Serving, Counting
<1>4. Ordering'
  BY DEF Serving, Ordering
<1>5. QED
  BY <1>2, <1>3, <1>4 DEF Serving

LEMMA ElsewhereMoves ==
  ASSUME Serving, NEW t \in Tasks, NEW b \in Places, pc' = [pc EXCEPT ![t] = b],
         UNCHANGED <<queue, outstanding, serving, handle, accepted>>,
         t = Worker => (b \in Unoccupied <=> pc[t] \in Unoccupied)
  PROVE  Serving'
<1>1. pc \in [Tasks -> Places] /\ Worker \in Tasks
  BY Roles DEF Serving, Holding
<1>2. pc' \in [Tasks -> Places] /\ (pc'[Worker] \in Unoccupied <=> pc[Worker] \in Unoccupied)
  BY <1>1
<1>3. QED
  BY <1>2, Elsewhere

(* The worker settles what it served. *)
LEMMA Settles ==
  ASSUME Serving, NEW t \in Tasks, running = t, pc[t] \notin Unoccupied, NEW how, End(t, how)
  PROVE  Serving'
<1>1. CASE t # Worker
  <2>1. /\ pc' = [pc EXCEPT ![t] = "done"] /\ "done" \in Places
        /\ UNCHANGED <<queue, outstanding, serving, handle, accepted>>
    BY <1>1 DEF End, Places
  <2>2. QED
    BY <1>1, <2>1, ElsewhereMoves
<1>2. CASE t = Worker
  <2>1. PICK x \in {"discarded", "failed", "resolved"} :
          /\ handle' = [handle EXCEPT ![serving] = x] /\ outstanding' = outstanding - 1
          /\ serving' = None /\ pc' = [pc EXCEPT ![t] = "serving"]
          /\ UNCHANGED <<queue, accepted>>
    BY <1>2 DEF End
  <2>2. /\ serving \in FollowUps /\ serving \notin ToSet(queue) /\ ToSet(queue) \subseteq FollowUps
        /\ None \notin FollowUps /\ handle[serving] = "pending"
    <3>1. serving \in FollowUps /\ serving \notin ToSet(queue)
      BY <1>2 DEF Serving, Holding
    <3>2. ToSet(queue) \subseteq FollowUps
      BY DEF Serving, Holding, ToSet
    <3>3. handle[serving] = "pending"
      BY <3>1 DEF Serving, Holding, Pending
    <3>4. QED
      BY <3>1, <3>2, <3>3, HarnessAssumption
  <2>3. /\ handle' \in [FollowUps -> Handles]
        /\ \A f \in FollowUps : handle'[f] = IF f = serving THEN x ELSE handle[f]
    BY <2>1, <2>2 DEF Serving, Holding, Handles
  <2>4. Pending' = Pending \ {serving}
    BY <2>3 DEF Pending
  <2>5. Holding'
    <3>1. pc' \in [Tasks -> Places] /\ pc'[Worker] = "serving"
      BY <1>2, <2>1 DEF Serving, Holding, Places
    <3>2. \A f \in FollowUps : f \in Pending' <=> f \in ToSet(queue) \cup {None}
      BY <2>2, <2>4 DEF Serving, Holding
    <3>3. QED
      BY <2>1, <2>2, <2>3, <3>1, <3>2 DEF Serving, Holding, Unoccupied
  <2>6. Counting'
    <3>1. serving \in Pending
      BY <2>2 DEF Pending
    <3>2. QED
      BY <2>1, <2>4, <3>1, FS_RemoveElement DEF Serving, Counting
  <2>7. Ordering'
    <3>1. \A i \in 1..Len(accepted) : accepted[i] \in FollowUps
      BY DEF Serving, Ordering
    <3>2. QED
      BY <2>1, <2>2, <2>3, <3>1 DEF Serving, Ordering
  <2>8. QED
    BY <2>5, <2>6, <2>7 DEF Serving
<1>3. QED
  BY <1>1, <1>2

(* follow_up() *)
LEMMA Accepts ==
  ASSUME Serving, NEW f \in FollowUps, FollowUp(f)
  PROVE  Serving'
<1>1. /\ handle[f] = "unused" /\ serving' = serving /\ Worker \in Tasks
      /\ pc' = pc \/ (pc[Worker] = "idle" /\ pc' = [pc EXCEPT ![Worker] = "serving"])
  BY Roles DEF FollowUp
<1>2. /\ pc' \in [Tasks -> Places]
      /\ pc'[Worker] \in Unoccupied <=> pc[Worker] \in Unoccupied
  BY <1>1 DEF Serving, Holding, Unoccupied, Places
<1>3. /\ queue \in Seq(FollowUps) /\ Distinct(queue)
      /\ accepted \in Seq(FollowUps) /\ Distinct(accepted) /\ None # f
      /\ handle \in [FollowUps -> Handles]
  BY HarnessAssumption DEF Serving, Holding, Ordering
<1>4. f \notin Pending /\ f \notin ToSet(queue) /\ f # serving
  BY <1>1 DEF Serving, Holding, Pending
<1>5. f \notin ToSet(accepted)
  BY <1>1, <1>3 DEF Serving, Ordering, ToSet
<1>6. CASE /\ handle' = [handle EXCEPT ![f] = "pending"]
           /\ accepted' = Append(accepted, f) /\ queue' = Enqueued(f)
           /\ outstanding' = outstanding + 1
  <2>1. /\ queue' = Append(queue, f) /\ queue' \in Seq(FollowUps) /\ Distinct(queue')
        /\ ToSet(queue') = ToSet(queue) \cup {f}
    BY <1>3, <1>4, <1>6, AppendDistinct DEF Enqueued
  <2>2. /\ accepted' \in Seq(FollowUps) /\ Distinct(accepted')
    BY <1>3, <1>5, <1>6, AppendDistinct
  <2>3. /\ handle' \in [FollowUps -> Handles]
        /\ \A g \in FollowUps : handle'[g] = IF g = f THEN "pending" ELSE handle[g]
    BY <1>3, <1>6 DEF Handles
  <2>4. Pending' = Pending \cup {f}
    BY <2>3 DEF Pending
  <2>5. Holding'
    <3>1. \A g \in FollowUps : g \in Pending' <=> g \in ToSet(queue') \cup {serving'}
      BY <1>1, <2>1, <2>4 DEF Serving, Holding
    <3>2. serving' \in FollowUps \cup {None} /\ serving' \notin ToSet(queue')
      BY <1>1, <1>4, <2>1 DEF Serving, Holding
    <3>3. serving' = None <=> pc'[Worker] \in Unoccupied
      BY <1>1, <1>2 DEF Serving, Holding
    <3>4. QED
      BY <1>2, <2>1, <2>3, <3>1, <3>2, <3>3 DEF Holding, Pending
  <2>6. Counting'
    BY <1>4, <1>6, <2>4, FS_AddElement DEF Serving, Counting
  <2>7. Ordering'
    <3> DEFINE n == Len(accepted)  m == Len(queue)
    <3>1. /\ n \in Nat /\ m \in Nat
          /\ Len(accepted') = n + 1 /\ accepted'[n + 1] = f
          /\ \A i \in 1..n : accepted'[i] = accepted[i] /\ accepted[i] \in FollowUps
                               /\ accepted[i] # f
          /\ Len(queue') = m + 1 /\ queue'[m + 1] = f
          /\ \A i \in 1..m : queue'[i] = queue[i] /\ queue[i] \in FollowUps /\ queue[i] # f
      <4>1. /\ n \in Nat /\ m \in Nat
            /\ Len(accepted') = n + 1 /\ accepted'[n + 1] = f
            /\ \A i \in 1..n : accepted'[i] = accepted[i] /\ accepted[i] \in FollowUps
            /\ Len(queue') = m + 1 /\ queue'[m + 1] = f
            /\ \A i \in 1..m : queue'[i] = queue[i] /\ queue[i] \in FollowUps
        BY <1>3, <1>6, <2>1
      <4>2. \A i \in 1..n : accepted[i] # f
        BY <1>3, <1>5 DEF ToSet
      <4>3. \A i \in 1..m : queue[i] # f
        BY <1>3, <1>4 DEF ToSet
      <4>4. QED
        BY <4>1, <4>2, <4>3
    <3> HIDE DEF n, m
    <3>2. \A i \in 1..n + 1 : i \in 1..n \/ i = n + 1
      BY <3>1
    <3>3. \A i \in 1..n : handle[accepted[i]] # "unused"
      BY DEF Serving, Ordering, n
    <3>4. ASSUME NEW i \in 1..n + 1 PROVE handle'[accepted'[i]] # "unused"
      BY <2>3, <3>1, <3>2, <3>3, <3>4
    <3>5. ASSUME NEW i \in 1..n + 1, NEW j \in 1..n + 1, i < j
          PROVE  /\ accepted'[i] \in ToSet(queue') => accepted'[j] \in ToSet(queue')
                 /\ accepted'[i] = serving' =>
                      accepted'[j] \in ToSet(queue') \/ handle'[accepted'[j]] = "discarded"
      <4>1. i \in 1..n /\ accepted'[i] = accepted[i] /\ accepted[i] # f
        BY <3>1, <3>5
      <4>2. CASE j = n + 1
        BY <2>1, <3>1, <4>2
      <4>3. CASE j \in 1..n
        <5>1. accepted'[j] = accepted[j] /\ accepted[j] # f /\ accepted[j] \in FollowUps
          BY <3>1, <4>3
        <5>2. /\ accepted[i] \in ToSet(queue) => accepted[j] \in ToSet(queue)
              /\ accepted[i] = serving =>
                   accepted[j] \in ToSet(queue) \/ handle[accepted[j]] = "discarded"
          BY <3>5, <4>1, <4>3 DEF Serving, Ordering, n
        <5>3. QED
          BY <1>1, <2>1, <2>3, <4>1, <5>1, <5>2
      <4>4. QED
        BY <3>2, <3>5, <4>2, <4>3
    <3>6. ASSUME NEW q1 \in 1..m + 1, NEW q2 \in 1..m + 1, NEW i \in 1..n + 1, NEW j \in 1..n + 1,
                 q1 < q2, queue'[q1] = accepted'[i], queue'[q2] = accepted'[j]
          PROVE  i < j
      <4>1. q1 \in 1..m /\ i \in 1..n /\ queue[q1] = accepted[i]
        BY <3>1, <3>2, <3>6
      <4>2. CASE q2 = m + 1
        BY <3>1, <3>2, <3>6, <4>1, <4>2
      <4>3. CASE q2 \in 1..m
        <5>1. j \in 1..n /\ queue[q2] = accepted[j]
          BY <3>1, <3>2, <3>6, <4>3
        <5>2. QED
          BY <3>6, <4>1, <4>3, <5>1 DEF Serving, Ordering, n, m
      <4>4. QED
        BY <3>1, <3>6, <4>2, <4>3
    <3>7. QED
      BY <2>2, <3>1, <3>4, <3>5, <3>6 DEF Ordering
  <2>8. QED
    BY <2>5, <2>6, <2>7 DEF Serving
<1>7. CASE handle' = [handle EXCEPT ![f] = "rejected"]
           /\ UNCHANGED <<accepted, queue, outstanding, pc, ready>>
  <2>1. /\ handle' \in [FollowUps -> Handles]
        /\ \A g \in FollowUps : handle'[g] = IF g = f THEN "rejected" ELSE handle[g]
    BY <1>3, <1>7 DEF Handles
  <2>2. Pending' = Pending
    BY <1>4, <2>1 DEF Pending
  <2>3. Holding'
    BY <1>1, <1>2, <1>7, <2>1, <2>2 DEF Serving, Holding
  <2>4. Counting'
    BY <1>7, <2>2 DEF Serving, Counting
  <2>5. \A i \in 1..Len(accepted) : accepted[i] \in FollowUps /\ accepted[i] # f
    BY <1>3, <1>5 DEF ToSet
  <2>6. Ordering'
    BY <1>1, <1>7, <2>1, <2>5 DEF Serving, Ordering
  <2>7. QED
    BY <2>3, <2>4, <2>6 DEF Serving
<1>8. QED
  BY <1>6, <1>7 DEF FollowUp

(* The worker takes the first of the queue, to serve or to discard it. *)
LEMMA Pops ==
  ASSUME Serving, NextFollowUp
  PROVE  Serving'
<1> DEFINE f == Head(queue)
<1>1. /\ running = Worker /\ pc[Worker] = "serving" /\ queue # <<>> /\ queue' = Tail(queue)
      /\ accepted' = accepted /\ Worker \in Tasks
  BY Roles DEF NextFollowUp
<1>2. /\ queue \in Seq(FollowUps) /\ Distinct(queue) /\ serving = None
      /\ handle \in [FollowUps -> Handles] /\ pc \in [Tasks -> Places]
      /\ accepted \in Seq(FollowUps) /\ Distinct(accepted)
  BY <1>1 DEF Serving, Holding, Ordering, Unoccupied
<1>3. /\ queue' \in Seq(FollowUps) /\ Distinct(queue')
      /\ ToSet(queue') = ToSet(queue) \ {f} /\ f \in ToSet(queue) /\ f \in FollowUps
  BY <1>1, <1>2, TailDistinct
<1>4. f # None /\ ToSet(queue) \subseteq FollowUps /\ None \notin ToSet(queue)
  BY <1>2, <1>3, HarnessAssumption DEF ToSet
<1>5. /\ Len(queue) \in Nat /\ f = queue[1] /\ Len(queue') = Len(queue) - 1
      /\ \A i \in 1..Len(queue') : queue'[i] = queue[i + 1]
  BY <1>1, <1>2
<1>6. \A i \in 1..Len(accepted) : accepted[i] \in FollowUps
  BY <1>2
<1> HIDE DEF f
<1>7. ASSUME NEW i \in 1..Len(accepted), NEW j \in 1..Len(accepted), i < j,
             accepted[i] \in ToSet(queue)
      PROVE  accepted[j] \in ToSet(queue')
  <2>1. accepted[j] \in ToSet(queue)
    BY <1>7 DEF Serving, Ordering
  <2>2. PICK q1 \in 1..Len(queue) : queue[q1] = accepted[i]
    BY <1>2, <1>7 DEF ToSet
  <2>3. accepted[j] # f
    <3>1. CASE q1 = 1
      BY <1>2, <1>5, <1>7, <2>2, <3>1 DEF Distinct
    <3>2. CASE q1 # 1
      <4>1. 1 \in 1..Len(queue) /\ 1 < q1 /\ ~(j < i)
        BY <1>5, <1>7, <2>2, <3>2
      <4>2. QED
        BY <1>5, <1>7, <2>2, <4>1 DEF Serving, Ordering
    <3>3. QED
      BY <3>1, <3>2
  <2>4. QED
    BY <1>3, <2>1, <2>3
<1>8. ASSUME NEW q1 \in 1..Len(queue'), NEW q2 \in 1..Len(queue'),
             NEW i \in 1..Len(accepted), NEW j \in 1..Len(accepted),
             q1 < q2, queue'[q1] = accepted[i], queue'[q2] = accepted[j]
      PROVE  i < j
  <2>1. q1 + 1 \in 1..Len(queue) /\ q2 + 1 \in 1..Len(queue) /\ q1 + 1 < q2 + 1
    BY <1>5, <1>8
  <2>2. queue[q1 + 1] = accepted[i] /\ queue[q2 + 1] = accepted[j]
    BY <1>5, <1>8
  <2>3. QED
    BY <2>1, <2>2 DEF Serving, Ordering
<1>9. CASE /\ handle' = [handle EXCEPT ![f] = "discarded"]
           /\ outstanding' = outstanding - 1 /\ UNCHANGED <<pc, serving>>
  <2>1. /\ handle' \in [FollowUps -> Handles]
        /\ \A g \in FollowUps : handle'[g] = IF g = f THEN "discarded" ELSE handle[g]
    BY <1>2, <1>3, <1>9 DEF Handles
  <2>2. Pending' = Pending \ {f}
    BY <2>1 DEF Pending
  <2>3. Holding'
    <3>1. \A g \in FollowUps : g \in Pending' <=> g \in ToSet(queue') \cup {serving'}
      BY <1>2, <1>3, <1>4, <1>9, <2>2 DEF Serving, Holding
    <3>2. QED
      BY <1>2, <1>3, <1>4, <1>9, <2>1, <3>1 DEF Serving, Holding
  <2>4. f \in Pending
    BY <1>3 DEF Serving, Holding
  <2>5. Counting'
    BY <1>9, <2>2, <2>4, FS_RemoveElement DEF Serving, Counting
  <2>6. Ordering'
    <3>1. \A i \in 1..Len(accepted) : handle'[accepted[i]] # "unused" /\ accepted[i] # None
      BY <1>6, <2>1, HarnessAssumption DEF Serving, Ordering
    <3>2. \A i, j \in 1..Len(accepted) : i < j =>
            /\ accepted[i] \in ToSet(queue') => accepted[j] \in ToSet(queue')
            /\ accepted[i] = serving' =>
                 accepted[j] \in ToSet(queue') \/ handle'[accepted[j]] = "discarded"
      BY <1>2, <1>3, <1>7, <1>9, <3>1
    <3>3. accepted' \in Seq(FollowUps) /\ Distinct(accepted')
      BY <1>1, <1>2
    <3>4. \A q1, q2 \in 1..Len(queue') : \A i, j \in 1..Len(accepted) :
            q1 < q2 /\ queue'[q1] = accepted[i] /\ queue'[q2] = accepted[j] => i < j
      BY <1>8
    <3>5. \A i \in 1..Len(accepted) : handle'[accepted[i]] # "unused"
      BY <3>1
    <3>6. accepted' = accepted
      BY <1>1
    <3>7. QED
      BY <3>2, <3>3, <3>4, <3>5, <3>6 DEF Ordering
  <2>7. QED
    BY <2>3, <2>5, <2>6 DEF Serving
<1>10. CASE /\ serving' = f /\ pc' = [pc EXCEPT ![Worker] = "entering"]
            /\ UNCHANGED <<handle, outstanding>>
  <2>1. Pending' = Pending
    BY <1>10 DEF Pending
  <2>2. Holding'
    <3>1. \A g \in FollowUps : g \in Pending' <=> g \in ToSet(queue') \cup {serving'}
      BY <1>2, <1>3, <1>4, <1>10, <2>1, HarnessAssumption DEF Serving, Holding
    <3>2. pc' \in [Tasks -> Places] /\ pc'[Worker] = "entering"
      BY <1>1, <1>2, <1>10 DEF Places
    <3>3. QED
      BY <1>2, <1>3, <1>4, <1>10, <3>1, <3>2 DEF Serving, Holding, Unoccupied
  <2>3. Counting'
    BY <1>10, <2>1 DEF Serving, Counting
  <2>4. Ordering'
    <3>1. \A i, j \in 1..Len(accepted) : i < j =>
            /\ accepted[i] \in ToSet(queue') => accepted[j] \in ToSet(queue')
            /\ accepted[i] = serving' =>
                 accepted[j] \in ToSet(queue') \/ handle'[accepted[j]] = "discarded"
      BY <1>3, <1>7, <1>10
    <3>2. QED
      BY <1>1, <1>2, <1>8, <1>10, <3>1 DEF Serving, Ordering
  <2>5. QED
    BY <2>2, <2>3, <2>4 DEF Serving
<1>11. QED
  BY <1>9, <1>10 DEF NextFollowUp, f

(* shutdown() discards the queue. *)
LEMMA Discards ==
  ASSUME Serving, NEW t \in Tasks, BeginClosing(t)
  PROVE  Serving'
<1>1. /\ handle' = [f \in FollowUps |-> IF f \in ToSet(queue) THEN "discarded" ELSE handle[f]]
      /\ outstanding' = outstanding - Len(queue) /\ queue' = <<>>
      /\ UNCHANGED <<serving, accepted>> /\ t # Worker
      /\ pc' = [pc EXCEPT ![t] = "queueing"] /\ "queueing" \in Places
  BY Roles DEF BeginClosing, Discarded, Undiscarded, Goto, Places
<1>2. /\ queue \in Seq(FollowUps) /\ Distinct(queue) /\ pc \in [Tasks -> Places]
      /\ handle \in [FollowUps -> Handles] /\ ToSet(queue) \subseteq FollowUps
      /\ serving \notin ToSet(queue)
  BY DEF Serving, Holding, ToSet
<1>3. /\ handle' \in [FollowUps -> Handles]
      /\ \A f \in FollowUps : handle'[f] = IF f \in ToSet(queue) THEN "discarded" ELSE handle[f]
  BY <1>1, <1>2 DEF Handles
<1>4. Pending' = Pending \ ToSet(queue) /\ ToSet(queue) \subseteq Pending
  BY <1>2, <1>3 DEF Pending, Serving, Holding
<1>5. /\ queue' \in Seq(FollowUps) /\ Distinct(queue') /\ ToSet(queue') = {} /\ Len(queue') = 0
  BY <1>1 DEF Distinct, ToSet
<1>6. pc' \in [Tasks -> Places] /\ pc'[Worker] = pc[Worker]
  BY <1>1, <1>2, Roles
<1>7. Holding'
  <2>1. \A f \in FollowUps : f \in Pending' <=> f \in ToSet(queue') \cup {serving'}
    BY <1>1, <1>2, <1>4, <1>5 DEF Serving, Holding
  <2>2. QED
    BY <1>1, <1>3, <1>5, <1>6, <2>1 DEF Serving, Holding
<1>8. Counting'
  <2>1. Cardinality(ToSet(queue)) = Len(queue)
    BY <1>2, CardinalityOfDistinct
  <2>2. Pending \cap ToSet(queue) = ToSet(queue)
    BY <1>4
  <2>3. IsFiniteSet(Pending) /\ outstanding = Cardinality(Pending)
    BY DEF Serving, Counting
  <2>4. /\ IsFiniteSet(Pending \ ToSet(queue))
        /\ Cardinality(Pending \ ToSet(queue)) =
             Cardinality(Pending) - Cardinality(Pending \cap ToSet(queue))
    BY <2>3, FS_Difference
  <2>5. QED
    BY <1>1, <1>4, <2>1, <2>2, <2>3, <2>4 DEF Counting
<1>9. Ordering'
  <2>1. \A i \in 1..Len(accepted) : accepted[i] \in FollowUps
    BY DEF Serving, Ordering
  <2>2. \A i \in 1..Len(accepted) : handle'[accepted[i]] # "unused"
    BY <1>3, <2>1 DEF Serving, Ordering
  <2>3. \A i, j \in 1..Len(accepted) : i < j /\ accepted[i] = serving =>
          handle'[accepted[j]] = "discarded"
    BY <1>3, <2>1 DEF Serving, Ordering
  <2>4. QED
    BY <1>1, <1>5, <2>2, <2>3 DEF Serving, Ordering
<1>10. QED
  BY <1>7, <1>8, <1>9 DEF Serving

LEMMA ServingRun ==
  ASSUME Serving, NEW t \in Runners, RunStep(t)
  PROVE  Serving'
<1> DEFINE same == UNCHANGED <<queue, outstanding, serving, handle, accepted>>
<1>1. t \in Tasks /\ pc \in [Tasks -> Places]
  BY Roles DEF Serving, Holding
<1>2. CASE RefuseStart(t) \/ RefuseRun(t) \/ KernelRaises(t) \/ Commit(t) \/ CommitRaises(t)
  <2>1. running = t /\ pc[t] \notin Unoccupied
    BY <1>2 DEF RefuseStart, RefuseRun, KernelRaises, Commit, CommitRaises, Unoccupied
  <2>2. \E how : End(t, how)
    BY <1>2 DEF RefuseStart, RefuseRun, KernelRaises, Commit, CommitRaises, CloseRun
  <2>3. QED
    BY <1>1, <2>1, <2>2, Settles
<1>3. CASE PassGate(t) \/ BeginStart(t) \/ BeginRun(t) \/ Finish(t)
  <2>1. PICK b \in {"queueing", "starting", "kernel", "committing"} :
          /\ pc[t] \in {"gate", "slot", "kernel"} /\ pc' = [pc EXCEPT ![t] = b] /\ same
    BY <1>3 DEF PassGate, BeginStart, BeginRun, Finish, Goto, followUps
  <2>2. b \in Places /\ b \notin Unoccupied /\ pc[t] \notin Unoccupied
    BY <2>1 DEF Places, Unoccupied
  <2>3. QED
    BY <1>1, <2>1, <2>2, ElsewhereMoves
<1>4. CASE StartResource(t) \/ Load(t)
  <2>1. PICK b \in {"starting", "loading", "undoing", "queueing"} :
          /\ pc[t] \in {"starting", "loading"} /\ pc' = [pc EXCEPT ![t] = b] /\ same
    BY <1>4 DEF StartResource, Load, followUps
  <2>2. b \in Places /\ b \notin Unoccupied /\ pc[t] \notin Unoccupied
    BY <2>1 DEF Places, Unoccupied
  <2>3. QED
    BY <1>1, <2>1, <2>2, ElsewhereMoves
<1>5. CASE Undo(t)
  <2>1. running = t /\ pc[t] \notin Unoccupied
    BY <1>5 DEF Undo, Unoccupied
  <2>2. CASE live > 0
    BY <1>1, <1>5, <2>2, Elsewhere DEF Undo, followUps
  <2>3. CASE ~(live > 0)
    BY <1>1, <1>5, <2>1, <2>3, Settles DEF Undo
  <2>4. QED
    BY <2>2, <2>3
<1>6. CASE DrainSteering(t)
  BY <1>1, <1>6, Elsewhere DEF DrainSteering, followUps
<1>7. QED
  BY <1>2, <1>3, <1>4, <1>5, <1>6 DEF RunStep

LEMMA ServingNext ==
  ASSUME Serving, [Next]_vars
  PROVE  Serving'
<1> DEFINE same == UNCHANGED <<queue, outstanding, serving, handle, accepted>>
<1>1. pc \in [Tasks -> Places]
  BY DEF Serving, Holding
<1>2. CASE Cancel \/ Resume \/ ObserverDone \/ UNCHANGED vars \/ (\E i \in Inputs : Steer(i))
             \/ \E t \in Tasks : Answer(t)
  <2>1. pc' = pc /\ same
    BY <1>2 DEF Cancel, Resume, ObserverDone, Steer, Answer, followUps, loop, vars
  <2>2. QED
    BY <1>1, <2>1, Elsewhere
<1>3. CASE \E t \in Callers \cup Closers : CallRun(t) \/ CallShutdown(t)
  <2>1. PICK t \in Callers \cup Closers : CallRun(t) \/ CallShutdown(t)
    BY <1>3
  <2>2. t \in Tasks /\ t # Worker /\ pc' = [pc EXCEPT ![t] = "entering"] /\ same
        /\ "entering" \in Places
    BY <2>1, HarnessAssumption DEF CallRun, CallShutdown, followUps, Tasks, Places
  <2>3. QED
    BY <2>2, ElsewhereMoves
<1>4. CASE \E t \in Impatient : Abandon(t)
  <2>1. PICK t \in Tasks : Abandon(t)
    BY <1>4, HarnessAssumption DEF Tasks
  <2>2. /\ pc' = [pc EXCEPT ![t] = "leaving"] /\ same /\ pc[t] \notin Unoccupied
        /\ "leaving" \in Places /\ "leaving" \notin Unoccupied
    BY <2>1 DEF Abandon, followUps, Places, Unoccupied
  <2>3. QED
    BY <2>2, ElsewhereMoves
<1>5. CASE \E f \in FollowUps : FollowUp(f)
  BY <1>5, Accepts
<1>6. CASE \E t \in Tasks : Enter(t) \/ TakeSlot(t)
  <2>1. PICK t \in Tasks : Enter(t) \/ TakeSlot(t)
    BY <1>6
  <2>2. PICK b \in {"gate", "slot"} :
          /\ pc[t] \in {"entering", "queueing"} /\ pc' = [pc EXCEPT ![t] = b] /\ same
    BY <2>1 DEF Enter, TakeSlot, Goto, followUps
  <2>3. b \in Places /\ b \notin Unoccupied /\ pc[t] \notin Unoccupied
    BY <2>2 DEF Places, Unoccupied
  <2>4. QED
    BY <2>2, <2>3, ElsewhereMoves
<1>7. CASE \E t \in Impatient : LeaveLocks(t)
  <2>1. PICK t \in Tasks : LeaveLocks(t)
    BY <1>7, HarnessAssumption DEF Tasks
  <2>2. running = t /\ pc[t] \notin Unoccupied /\ End(t, "raised")
    BY <2>1 DEF LeaveLocks, Unoccupied
  <2>3. QED
    BY <2>2, Settles
<1>8. CASE \E t \in Runners : RunStep(t)
  BY <1>8, ServingRun
<1>9. CASE \E t \in Closers : CloseStep(t)
  <2>1. PICK t \in Closers : CloseStep(t)
    BY <1>9
  <2>2. t \in Tasks /\ t # Worker
    BY Roles
  <2>3. CASE BeginClosing(t)
    BY <2>2, <2>3, Discards
  <2>4. CASE ~BeginClosing(t)
    <3>1. /\ same
          /\ \/ pc' = pc
             \/ \E b \in {"done", "flushing", "releasing", "joining"} :
                  pc' = [pc EXCEPT ![t] = b]
      BY <2>1, <2>4 DEF CloseStep, AlreadyClosed, Flush, ReleaseResource, Close, Leave,
         Goto, followUps
    <3>2. QED
      BY <1>1, <2>2, <3>1, Elsewhere, ElsewhereMoves DEF Places
  <2>5. QED
    BY <2>3, <2>4
<1>10. CASE NextFollowUp
  BY <1>10, Pops
<1>11. CASE WorkerEnds
  <2>1. /\ pc' = [pc EXCEPT ![Worker] = "idle"] /\ same /\ pc[Worker] \in Unoccupied
        /\ "idle" \in Unoccupied /\ "idle" \in Places /\ Worker \in Tasks
    BY <1>11, Roles DEF WorkerEnds, followUps, Unoccupied, Places
  <2>2. QED
    BY <2>1, ElsewhereMoves
<1>12. QED
  BY <1>2, <1>3, <1>4, <1>5, <1>6, <1>7, <1>8, <1>9, <1>10, <1>11
     DEF Next, Step, Application

LEMMA ServingHolds == Spec => []Serving
<1>1. ASSUME Init PROVE Serving
  <2>1. /\ queue = <<>> /\ outstanding = 0 /\ serving = None /\ accepted = <<>>
        /\ \A f \in FollowUps : handle[f] = "unused"
        /\ handle \in [FollowUps -> Handles] /\ pc \in [Tasks -> Places]
        /\ pc[Worker] = "idle"
    BY <1>1, Roles DEF Init, Handles, Places
  <2>2. \A S, s : s = <<>> => s \in Seq(S) /\ Distinct(s) /\ ToSet(s) = {} /\ Len(s) = 0
    BY DEF Distinct, ToSet
  <2>3. Pending = {} /\ None \notin FollowUps
    BY <2>1, HarnessAssumption DEF Pending
  <2>4. Holding
    BY <2>1, <2>2, <2>3 DEF Holding, Unoccupied
  <2>5. Counting
    BY <2>1, <2>3, FS_EmptySet DEF Counting
  <2>6. Ordering
    BY <2>1, <2>2 DEF Ordering
  <2>7. QED
    BY <2>4, <2>5, <2>6 DEF Serving
<1>2. QED
  BY <1>1, ServingNext, PTL DEF Spec

(* For any capacity and any number of follow-ups: the counter that admits them
   counts those not settled (core.py: follow_up, _run_follow_ups). *)
THEOREM OutstandingIsExactHolds == Spec => []OutstandingIsExact
<1>1. Serving => OutstandingIsExact
  BY DEF Serving, Counting, Pending, OutstandingIsExact
<1>2. QED
  BY <1>1, ServingHolds, PTL

(* For any number of follow-ups, callers and shutdowns: they are served in the
   order they were accepted (core.py: _run_follow_ups). *)
THEOREM FollowUpsInOrderHolds == Spec => []FollowUpsInOrder
<1>1. ASSUME Serving,
             NEW i \in 1..Len(accepted), NEW j \in 1..Len(accepted), i < j,
             handle[accepted[j]] \in {"resolved", "failed"} \/ serving = accepted[j],
             handle[accepted[i]] = "pending"
      PROVE  FALSE
  <2>1. /\ accepted[i] \in FollowUps /\ accepted[j] \in FollowUps
        /\ serving \notin ToSet(queue) /\ accepted[i] # accepted[j]
    BY <1>1 DEF Serving, Ordering, Holding, Distinct
  <2>2. accepted[i] \in ToSet(queue) \cup {serving}
    BY <1>1, <2>1 DEF Serving, Holding, Pending
  <2>3. accepted[j] \in ToSet(queue) => handle[accepted[j]] = "pending"
    BY <1>1, <2>1 DEF Serving, Holding, Pending
  <2>4. /\ accepted[i] \in ToSet(queue) => accepted[j] \in ToSet(queue)
        /\ accepted[i] = serving =>
             accepted[j] \in ToSet(queue) \/ handle[accepted[j]] = "discarded"
    BY <1>1 DEF Serving, Ordering
  <2>5. QED
    BY <1>1, <2>1, <2>2, <2>3, <2>4
<1>2. Serving => FollowUpsInOrder
  BY <1>1 DEF FollowUpsInOrder
<1>3. QED
  BY <1>2, ServingHolds, PTL
=============================================================================
