---------------------------- MODULE ServicesProofs ----------------------------
(***************************************************************************)
(* Proofs about the services of a Run that have no proof module of their   *)
(* own, each for its own specification: Toolbox, Evidence, ModelStream,    *)
(* ContextViews.                                                           *)
(* At the end, what is proved of a service alone is carried over to        *)
(* MCServices, where one behaviour exercises one of them.                  *)
(***************************************************************************)
EXTENDS MCServices, JudgeProofs, PlanningProofs

(* Induction in this module is from a smallest number of a set. *)
LEMMA Smallest ==
  ASSUME NEW S \in SUBSET Nat, S # {}
  PROVE  \E i \in S : \A j \in S : i <= j
<1>1. PICK i \in S : \A j \in S : <<j, i>> \notin OpToRel(<, Nat)
  BY NatLessThanWellFounded, WFMin
<1>2. \A j \in S : ~(j < i)
  BY <1>1 DEF OpToRel
<1>3. QED
  BY <1>2

-----------------------------------------------------------------------------
(* Sequences *)
LEMMA Concatenated ==
  ASSUME NEW A, NEW B, NEW s \in Seq(A), NEW t \in Seq(B)
  PROVE  /\ s \o t \in Seq(A \cup B) /\ Len(s \o t) = Len(s) + Len(t)
         /\ \A i \in 1..Len(s) : (s \o t)[i] = s[i]
         /\ \A i \in 1..Len(t) : (s \o t)[Len(s) + i] = t[i]
OBVIOUS

LEMMA Alike ==
  ASSUME NEW A, NEW s \in Seq(A), NEW t \in Seq(A), Len(s) = Len(t),
         \A i \in 1..Len(s) : s[i] = t[i]
  PROVE  s = t
OBVIOUS

(* Flattening: g[i] is what the first i sequences make when they are put one
   behind the other. *)
Flattens(u, g) ==
  /\ g[0] = <<>>
  /\ \A i \in 1..Len(u) : g[i] = g[i - 1] \o u[i]

LEMMA FlattensOnce ==
  ASSUME NEW A, NEW u \in Seq(Seq(A)), NEW g \in [0..Len(u) -> Seq(A)], Flattens(u, g)
  PROVE  FlattenSeq(u) = g[Len(u)] /\ FlattenSeq(u) \in Seq(A)
<1> DEFINE Next_(f) == [i \in 1..Len(u) |-> IF i = 1 THEN u[i] ELSE f[i - 1] \o u[i]]
<1>1. Len(u) \in Nat /\ \A i \in 1..Len(u) : u[i] \in Seq(A)
  OBVIOUS
<1>2. CASE Len(u) = 0
  <2>1. u = <<>>
    BY <1>2
  <2>2. g[0] = <<>>
    BY DEF Flattens
  <2>3. QED
    BY <1>2, <2>1, <2>2 DEF FlattenSeq
<1>3. CASE Len(u) # 0
  <2> DEFINE k == [i \in 1..Len(u) |-> g[i]]
  <2>1. k = Next_(k)
    <3>1. ASSUME NEW i \in 1..Len(u)
          PROVE  k[i] = IF i = 1 THEN u[i] ELSE k[i - 1] \o u[i]
      <4>1. g[i] = g[i - 1] \o u[i]
        BY DEF Flattens
      <4>2. CASE i = 1
        <5>1. g[0] = <<>> /\ i - 1 = 0
          BY <4>2 DEF Flattens
        <5>2. g[i] = <<>> \o u[i]
          BY <4>1, <5>1
        <5>3. <<>> \o u[i] = u[i]
          BY <1>1
        <5>4. QED
          BY <4>2, <5>2, <5>3
      <4>3. CASE i # 1
        <5>1. i - 1 \in 1..Len(u)
          BY <1>1, <4>3
        <5>2. k[i - 1] = g[i - 1]
          BY <5>1
        <5>3. QED
          BY <4>1, <4>3, <5>2
      <4>4. QED
        BY <4>2, <4>3
    <3>2. QED
      BY <3>1
  <2>2. \E f : f = Next_(f)
    BY <2>1
  <2> DEFINE f == CHOOSE f : f = Next_(f)
  <2>3. f = Next_(f)
    BY <2>2
  <2>4. FlattenSeq(u) = f[Len(u)]
    BY <1>3 DEF FlattenSeq
  <2> HIDE DEF f, k
  <2>5. \A i \in 1..Len(u) : f[i] = IF i = 1 THEN u[i] ELSE f[i - 1] \o u[i]
    BY <2>3
  <2>6. ASSUME NEW n \in 1..Len(u), f[n] # g[n], \A j \in 1..Len(u) : f[j] # g[j] => n <= j
        PROVE  FALSE
    <3>1. g[n] = g[n - 1] \o u[n]
      BY DEF Flattens
    <3>2. CASE n = 1
      <4>1. f[n] = u[n] /\ g[n - 1] = <<>>
        BY <2>5, <3>2 DEF Flattens
      <4>2. <<>> \o u[n] = u[n]
        BY <1>1
      <4>3. QED
        BY <2>6, <3>1, <4>1, <4>2
    <3>3. CASE n # 1
      <4>1. n - 1 \in 1..Len(u) /\ ~(n <= n - 1)
        BY <1>1, <3>3
      <4>2. f[n - 1] = g[n - 1]
        BY <2>6, <4>1
      <4>3. QED
        BY <2>5, <2>6, <3>1, <3>3, <4>2
    <3>4. QED
      BY <3>2, <3>3
  <2>7. \A i \in 1..Len(u) : f[i] = g[i]
    <3> DEFINE wrong == {i \in 1..Len(u) : f[i] # g[i]}
    <3>1. wrong # {} => \E n \in wrong : \A j \in wrong : n <= j
      <4>1. wrong \in SUBSET Nat
        BY <1>1
      <4>2. QED
        BY <4>1, Smallest
    <3>2. QED
      BY <2>6, <3>1
  <2>8. Len(u) \in 1..Len(u)
    BY <1>1, <1>3
  <2>9. QED
    BY <2>4, <2>7, <2>8
<1>4. g[Len(u)] \in Seq(A)
  BY <1>1
<1>5. QED
  BY <1>2, <1>3, <1>4

LEMMA FlattensSome ==
  ASSUME NEW A, NEW u \in Seq(Seq(A))
  PROVE  \E g \in [0..Len(u) -> Seq(A)] : Flattens(u, g)
<1> DEFINE Upto(n) == \E g \in [0..n -> Seq(A)] :
             g[0] = <<>> /\ \A i \in 1..n : g[i] = g[i - 1] \o u[i]
           short == {n \in 0..Len(u) : ~Upto(n)}
<1>1. Len(u) \in Nat /\ \A i \in 1..Len(u) : u[i] \in Seq(A)
  OBVIOUS
<1>2. Upto(0)
  <2> DEFINE g == [i \in 0..0 |-> <<>>]
  <2>1. g \in [0..0 -> Seq(A)] /\ g[0] = <<>>
    OBVIOUS
  <2>2. \A i \in 1..0 : g[i] = g[i - 1] \o u[i]
    OBVIOUS
  <2> HIDE DEF g
  <2>3. QED
    BY <2>1, <2>2
<1>3. ASSUME NEW n \in 1..Len(u), Upto(n - 1) PROVE Upto(n)
  <2>1. n \in Nat /\ n >= 1
    BY <1>1
  <2>2. PICK g \in [0..n - 1 -> Seq(A)] :
          g[0] = <<>> /\ \A i \in 1..n - 1 : g[i] = g[i - 1] \o u[i]
    BY <1>3
  <2> DEFINE h == [i \in 0..n |-> IF i = n THEN g[n - 1] \o u[n] ELSE g[i]]
  <2>3. g[n - 1] \o u[n] \in Seq(A)
    BY <1>1, <2>1, <2>2
  <2>4. h \in [0..n -> Seq(A)]
    BY <2>1, <2>2, <2>3
  <2>5. h[0] = <<>>
    BY <2>1, <2>2
  <2>6. ASSUME NEW i \in 1..n PROVE h[i] = h[i - 1] \o u[i]
    <3>1. i - 1 \in 0..n /\ i - 1 # n /\ i \in 0..n
      BY <2>1
    <3>2. h[i - 1] = g[i - 1]
      BY <3>1
    <3>3. CASE i = n
      BY <3>1, <3>2, <3>3
    <3>4. CASE i # n
      <4>1. i \in 1..n - 1
        BY <2>1, <3>4
      <4>2. g[i] = g[i - 1] \o u[i]
        BY <2>2, <4>1
      <4>3. h[i] = g[i]
        BY <3>1, <3>4
      <4>4. QED
        BY <3>2, <4>2, <4>3
    <3>5. QED
      BY <3>3, <3>4
  <2> HIDE DEF h
  <2>7. QED
    BY <2>4, <2>5, <2>6
<1> HIDE DEF Upto
<1>4. short = {}
  <2>1. SUFFICES ASSUME short # {} PROVE FALSE
    OBVIOUS
  <2>2. short \in SUBSET Nat
    BY <1>1
  <2>3. PICK n \in short : \A j \in short : n <= j
    BY <2>1, <2>2, Smallest
  <2>4. n # 0 /\ n \in 0..Len(u)
    BY <1>2, <2>3
  <2>5. n \in 1..Len(u) /\ n - 1 \in 0..Len(u) /\ ~(n <= n - 1)
    BY <1>1, <2>4
  <2>6. Upto(n - 1)
    BY <2>3, <2>5
  <2>7. QED
    BY <1>3, <2>3, <2>5, <2>6
<1>5. Upto(Len(u))
  BY <1>1, <1>4
<1>6. QED
  BY <1>5 DEF Upto, Flattens

LEMMA Together ==
  ASSUME NEW A, NEW x \in Seq(A), NEW y \in Seq(A), NEW z \in Seq(A)
  PROVE  x \o (y \o z) = (x \o y) \o z
OBVIOUS

(* Two sequences of sequences, one behind the other. *)
LEMMA FlattenBoth ==
  ASSUME NEW A, NEW s \in Seq(Seq(A)), NEW t \in Seq(Seq(A))
  PROVE  FlattenSeq(s \o t) = FlattenSeq(s) \o FlattenSeq(t)
<1> DEFINE u == s \o t
<1>0. \A x, y, z \in Seq(A) : x \o (y \o z) = (x \o y) \o z
  BY Together
<1>1. /\ u \in Seq(Seq(A)) /\ Len(s) \in Nat /\ Len(t) \in Nat /\ Len(u) = Len(s) + Len(t)
      /\ \A i \in 1..Len(s) : u[i] = s[i]
      /\ \A i \in 1..Len(t) : u[Len(s) + i] = t[i]
      /\ \A i \in 1..Len(t) : t[i] \in Seq(A)
  OBVIOUS
<1>2. PICK g \in [0..Len(s) -> Seq(A)] : Flattens(s, g)
  BY FlattensSome
<1>3. PICK h \in [0..Len(t) -> Seq(A)] : Flattens(t, h)
  BY FlattensSome
<1> DEFINE k == [i \in 0..Len(u) |-> IF i <= Len(s) THEN g[i] ELSE g[Len(s)] \o h[i - Len(s)]]
<1> HIDE DEF u
<1>4. \A i \in 0..Len(u) : i <= Len(s) => i \in 0..Len(s)
  BY <1>1
<1>5. \A i \in 0..Len(u) : ~(i <= Len(s)) => i - Len(s) \in 1..Len(t)
  BY <1>1
<1>6. Len(s) \in 0..Len(s) /\ Len(t) \in 0..Len(t) /\ Len(s) \in 0..Len(u)
  BY <1>1
<1>7. /\ g[Len(s)] \in Seq(A) /\ \A i \in 0..Len(t) : h[i] \in Seq(A)
      /\ \A i \in 0..Len(t) : g[Len(s)] \o h[i] \in Seq(A)
  <2>1. g[Len(s)] \in Seq(A)
    BY <1>6
  <2>2. ASSUME NEW i \in 0..Len(t) PROVE h[i] \in Seq(A)
    OBVIOUS
  <2>3. QED
    BY <2>1, <2>2
<1>8. k \in [0..Len(u) -> Seq(A)]
  <2>1. \A i \in 0..Len(s) : g[i] \in Seq(A)
    OBVIOUS
  <2>2. \A i \in 1..Len(t) : i \in 0..Len(t)
    BY <1>1
  <2>3. QED
    BY <1>4, <1>5, <1>7, <2>1, <2>2
<1>9. k[0] = <<>>
  BY <1>1, <1>2 DEF Flattens
<1>10. ASSUME NEW i \in 1..Len(u) PROVE k[i] = k[i - 1] \o u[i]
  <2>1. i \in 0..Len(u) /\ i - 1 \in 0..Len(u)
    BY <1>1
  <2>2. CASE i <= Len(s)
    <3>1. i \in 1..Len(s) /\ i - 1 <= Len(s)
      BY <1>1, <2>2
    <3>2. g[i] = g[i - 1] \o s[i]
      BY <1>2, <3>1 DEF Flattens
    <3>3. k[i] = g[i] /\ k[i - 1] = g[i - 1] /\ u[i] = s[i]
      BY <1>1, <2>1, <2>2, <3>1
    <3>4. QED
      BY <3>2, <3>3
  <2>3. CASE i > Len(s)
    <3>1. PICK j \in 1..Len(t) : i = Len(s) + j
      <4>1. i - Len(s) \in 1..Len(t) /\ i = Len(s) + (i - Len(s))
        BY <1>1, <2>3
      <4>2. QED
        BY <4>1
    <3>2. h[j] = h[j - 1] \o t[j] /\ u[i] = t[j]
      BY <1>1, <1>3, <3>1 DEF Flattens
    <3>3. i - Len(s) = j /\ ~(i <= Len(s))
      <4>1. Len(s) \in Nat /\ Len(t) \in Nat
        BY <1>1
      <4>2. QED
        BY <3>1, <4>1
    <3>4. k[i] = g[Len(s)] \o h[j]
      BY <2>1, <3>3
    <3>5. k[i - 1] = g[Len(s)] \o h[j - 1]
      <4>1. CASE j = 1
        <5>1. i - 1 = Len(s) /\ j - 1 = 0
          BY <1>1, <3>1, <4>1
        <5>2. k[i - 1] = g[Len(s)]
          BY <1>1, <1>6, <5>1
        <5>3. h[j - 1] = <<>>
          BY <1>3, <5>1 DEF Flattens
        <5>4. g[Len(s)] \in Seq(A)
          BY <1>6
        <5>5. g[Len(s)] \o <<>> = g[Len(s)]
          BY <5>4
        <5>6. QED
          BY <5>2, <5>3, <5>5
      <4>2. CASE j # 1
        <5>1. ~(i - 1 <= Len(s)) /\ (i - 1) - Len(s) = j - 1
          BY <1>1, <3>1, <4>2
        <5>2. QED
          BY <2>1, <5>1
      <4>3. QED
        BY <4>1, <4>2
    <3> HIDE DEF k
    <3>6. g[Len(s)] \in Seq(A) /\ h[j - 1] \in Seq(A) /\ t[j] \in Seq(A)
      <4>1. j - 1 \in 0..Len(t)
        BY <1>1
      <4>2. QED
        BY <1>1, <1>7, <4>1
    <3>7. g[Len(s)] \o (h[j - 1] \o t[j]) = (g[Len(s)] \o h[j - 1]) \o t[j]
      BY <1>0, <3>6
    <3>8. QED
      BY <3>2, <3>4, <3>5, <3>7, Zenon
  <2>4. i <= Len(s) \/ i > Len(s)
    BY <1>1
  <2> HIDE DEF k
  <2>5. QED
    BY <2>2, <2>3, <2>4
<1>11. k[Len(u)] = g[Len(s)] \o h[Len(t)]
  <2>1. CASE Len(t) = 0
    <3>1. Len(u) = Len(s) /\ h[Len(t)] = <<>>
      BY <1>1, <1>3, <2>1 DEF Flattens
    <3>2. k[Len(u)] = g[Len(s)]
      BY <1>1, <1>6, <3>1
    <3>3. g[Len(s)] \o <<>> = g[Len(s)]
      BY <1>6
    <3>4. QED
      BY <3>1, <3>2, <3>3
  <2>2. CASE Len(t) # 0
    <3>1. Len(u) \in 0..Len(u) /\ ~(Len(u) <= Len(s)) /\ Len(u) - Len(s) = Len(t)
      BY <1>1, <2>2
    <3>2. QED
      BY <3>1
  <2>3. QED
    BY <2>1, <2>2
<1> HIDE DEF k
<1>12. Flattens(u, k)
  BY <1>9, <1>10 DEF Flattens
<1>13. FlattenSeq(u) = k[Len(u)]
  BY <1>1, <1>8, <1>12, FlattensOnce
<1>14. FlattenSeq(s) = g[Len(s)] /\ FlattenSeq(t) = h[Len(t)]
  BY <1>2, <1>3, FlattensOnce
<1>15. QED
  BY <1>11, <1>13, <1>14 DEF u

(* Single elements make the sequence of them; nothing makes nothing. *)
LEMMA FlattenSingles ==
  ASSUME NEW A, NEW v \in Seq(A)
  PROVE  FlattenSeq([i \in 1..Len(v) |-> <<v[i]>>]) = v
<1> DEFINE u == [i \in 1..Len(v) |-> <<v[i]>>]
           g == [i \in 0..Len(v) |-> SubSeq(v, 1, i)]
<1>1. Len(v) \in Nat /\ \A i \in 1..Len(v) : v[i] \in A
  OBVIOUS
<1>2. u \in Seq(Seq(A)) /\ Len(u) = Len(v)
  BY <1>1
<1>3. g \in [0..Len(v) -> Seq(A)]
  BY <1>1
<1>4. g[0] = <<>>
  BY <1>1
<1>5. ASSUME NEW i \in 1..Len(v) PROVE g[i] = g[i - 1] \o u[i]
  <2>1. SubSeq(v, 1, i) = SubSeq(v, 1, i - 1) \o <<v[i]>>
    BY <1>1
  <2>2. QED
    BY <1>1, <2>1
<1>6. g[Len(v)] = v
  BY <1>1
<1> HIDE DEF u, g
<1>7. Flattens(u, g)
  BY <1>2, <1>4, <1>5 DEF Flattens
<1>8. FlattenSeq(u) = g[Len(u)]
  BY <1>2, <1>3, <1>7, FlattensOnce
<1>9. QED
  BY <1>2, <1>6, <1>8 DEF u

LEMMA FlattenNothing ==
  ASSUME NEW n \in Nat
  PROVE  FlattenSeq([i \in 1..n |-> <<>>]) = <<>>
<1> DEFINE u == [i \in 1..n |-> <<>>]
           g == [i \in 0..n |-> <<>>]
<1>1. u \in Seq(Seq({})) /\ Len(u) = n
  OBVIOUS
<1>2. g \in [0..n -> Seq({})] /\ g[0] = <<>> /\ g[n] = <<>>
  OBVIOUS
<1>3. \A i \in 1..n : g[i] = g[i - 1] \o u[i]
  OBVIOUS
<1> HIDE DEF u, g
<1>4. Flattens(u, g)
  BY <1>1, <1>2, <1>3 DEF Flattens
<1>5. QED
  BY <1>1, <1>2, <1>4, FlattensOnce DEF u

-----------------------------------------------------------------------------
(* Toolbox: for any number of services and of starts, however they fail, the
   tools that are offered are those of open connections. *)

(* The variables, as far as the arguments below need their types: each route
   of a service is a client of it that an earlier or this start made. *)
Ranging ==
  /\ starts \in Nat /\ next \in Nat \ {0}
  /\ routes \in [ServiceNames -> (ServiceNames \X Nat) \cup {NoClient}]
  /\ \A s \in ServiceNames : routes[s] # NoClient => routes[s][1] = s /\ routes[s][2] <= starts
  /\ running \in BOOLEAN /\ scarred \in BOOLEAN
  /\ offered \subseteq ServiceNames /\ exposed \subseteq ServiceNames
  /\ entered \subseteq linked
  /\ entered # {} => next <= Len(Services) /\ entered = {<<Services[next], starts>>}

(* What is connected is on the stack that will close it, or was left behind. *)
Owning ==
  /\ linked \subseteq abandoned \cup stack \cup entered \cup exitStack
  /\ life # "connecting" => stack = {} /\ entered = {}
  /\ life \notin {"defining", "others", "up"} => exitStack = {}
  /\ life = "others" => running
  /\ life = "up" => running \/ (exitStack = {} /\ scarred)

(* The services whose turn is still to come have no route of this start, so
   skipping one closes no client that serves. *)
Untouched ==
  life = "connecting" =>
    \A i \in next..Len(Services) : routes[Services[i]] # <<Services[i], starts>>

(* Unless closing has failed, every route leads to an open connection, and what
   is offered has a route. *)
Routing ==
  ~scarred =>
    /\ \A s \in ServiceNames : routes[s] # NoClient => routes[s] \in linked
    /\ life = "others" => \A s \in exposed : routes[s] # NoClient
    /\ life = "up" => \A s \in offered : routes[s] # NoClient

ToolboxInductive == Ranging /\ Owning /\ Untouched /\ Routing

(* Services is a sequence of distinct names, and no client is NoClient. *)
LEMMA DistinctServices ==
  /\ Len(Services) \in Nat
  /\ \A i \in 1..Len(Services) : Services[i] \in ServiceNames
  /\ \A i, j \in 1..Len(Services) : Services[i] = Services[j] => i = j
  /\ \A s \in ServiceNames, n \in Nat : <<s, n>> # NoClient
<1>1. Services \in Seq(ToSet(Services)) /\ NoClient \notin ToSet(Services) \X Nat
  BY ToolboxAssumption
<1>2. Len(Services) \in Nat /\ DOMAIN Services = 1..Len(Services)
  BY <1>1
<1>3. \A i, j \in DOMAIN Services : Services[i] = Services[j] => i = j
  BY ToolboxAssumption DEF IsInjective
<1>4. \A i \in DOMAIN Services : Services[i] \in ToSet(Services)
  BY DEF ToSet
<1>5. QED
  BY <1>1, <1>2, <1>3, <1>4 DEF ServiceNames

(* A route is a client with the number of a start. *)
LEMMA Routes ==
  ASSUME Ranging
  PROVE  \A s \in ServiceNames :
           routes[s] # NoClient => routes[s][2] \in Nat /\ routes[s][2] < starts + 1
<1>1. TAKE s \in ServiceNames
<1>2. HAVE routes[s] # NoClient
<1>3. routes[s] \in ServiceNames \X Nat
  BY <1>2 DEF Ranging
<1>4. routes[s][2] \in Nat
  BY <1>3
<1>5. QED
  BY <1>2, <1>4 DEF Ranging

(* Stopping the services clears the routes, or has failed. *)
LEMMA Stopping ==
  ASSUME Ranging, StopManager \/ StopMcp
  PROVE  /\ scarred' \in BOOLEAN
         /\ \/ UNCHANGED <<routes, linked, exitStack, scarred>> /\ ~running /\ StopMcp
            \/ routes' = NoRoutes
            \/ routes' = routes /\ scarred' = TRUE
         /\ UNCHANGED <<next, entered, stack>>
BY DEF StopMcp, StopManager, CloseFails, manager, Ranging

LEMMA NoRoutesLead ==
  /\ NoRoutes \in [ServiceNames -> (ServiceNames \X Nat) \cup {NoClient}]
  /\ \A s \in ServiceNames : NoRoutes[s] = NoClient
BY DEF NoRoutes

(* The routes stay those of clients that were made. *)
LEMMA RangingStep ==
  ASSUME ToolboxInductive, [ToolboxNext]_toolboxVars
  PROVE  Ranging'
<1> USE ToolboxAssumption, DistinctServices DEF ToolboxInductive
<1>1. CASE BeginStart
  BY <1>1, Routes DEF BeginStart, Ranging, Owning
<1>2. CASE ConnectService
  BY <1>2 DEF ConnectService, Turn, Ranging
<1>3. CASE Register
  BY <1>3 DEF Register, Turn, Ranging
<1>4. CASE SkipService
  BY <1>4 DEF SkipService, Turn, Ranging
<1>5. CASE EscapeStartup
  BY <1>5 DEF EscapeStartup, Turn, Ranging
<1>6. CASE FinishStartup
  BY <1>6 DEF FinishStartup, Ranging
<1>7. CASE Define
  BY <1>7 DEF Define, manager, Ranging
<1>8. CASE DefineFails
  BY <1>8, Stopping, NoRoutesLead DEF DefineFails, StopMcp, Ranging, Owning
<1>9. CASE OthersStart
  BY <1>9 DEF OthersStart, manager, Ranging
<1>10. CASE OthersFail
  BY <1>10, Stopping, NoRoutesLead DEF OthersFail, StopMcp, Ranging, Owning
<1>11. CASE ShutDownTools
  <2>1. /\ UNCHANGED <<starts, next, entered>> /\ entered = {} /\ offered' = {}
    BY <1>11, Stopping DEF ShutDownTools, Owning
  <2>2. /\ exposed' = {} /\ running' = FALSE /\ scarred' \in BOOLEAN
        /\ routes' \in {routes, NoRoutes}
    BY <1>11, Stopping DEF ShutDownTools, StopMcp
  <2>3. /\ routes' \in [ServiceNames -> (ServiceNames \X Nat) \cup {NoClient}]
        /\ \A s \in ServiceNames : routes'[s] # NoClient => routes'[s][1] = s /\ routes'[s][2] <= starts
    BY <2>2, NoRoutesLead DEF Ranging
  <2>4. QED
    BY <2>1, <2>2, <2>3 DEF Ranging
<1>12. CASE ShutDownCancelled
  BY <1>12 DEF ShutDownCancelled, CloseFails, Ranging, Owning
<1>13. CASE UNCHANGED toolboxVars
  BY <1>13 DEF toolboxVars, manager, Ranging
<1>14. QED
  BY <1>1, <1>2, <1>3, <1>4, <1>5, <1>6, <1>7, <1>8, <1>9, <1>10, <1>11, <1>12, <1>13 DEF ToolboxNext

(* Every path out of a start or into a stop closes what it does not leave behind. *)
LEMMA OwningStep ==
  ASSUME ToolboxInductive, [ToolboxNext]_toolboxVars
  PROVE  Owning'
<1> USE ToolboxAssumption, DistinctServices DEF ToolboxInductive
<1>1. CASE BeginStart
  BY <1>1 DEF BeginStart, Ranging, Owning
<1>2. CASE ConnectService
  BY <1>2 DEF ConnectService, Turn, Ranging, Owning
<1>3. CASE Register
  BY <1>3 DEF Register, Turn, Ranging, Owning
<1>4. CASE SkipService
  BY <1>4 DEF SkipService, Turn, Ranging, Owning
<1>5. CASE EscapeStartup
  BY <1>5 DEF EscapeStartup, Turn, Ranging, Owning
<1>6. CASE FinishStartup
  BY <1>6 DEF FinishStartup, Ranging, Owning
<1>7. CASE Define
  BY <1>7 DEF Define, manager, Ranging, Owning
<1>8. CASE DefineFails
  BY <1>8 DEF DefineFails, StopManager, CloseFails, Ranging, Owning
<1>9. CASE OthersStart
  BY <1>9 DEF OthersStart, manager, Ranging, Owning
<1>10. CASE OthersFail
  BY <1>10 DEF OthersFail, StopMcp, StopManager, CloseFails, manager, Ranging, Owning
<1>11. CASE ShutDownTools
  BY <1>11 DEF ShutDownTools, StopMcp, StopManager, CloseFails, manager, Ranging, Owning
<1>12. CASE ShutDownCancelled
  BY <1>12 DEF ShutDownCancelled, CloseFails, Ranging, Owning
<1>13. CASE UNCHANGED toolboxVars
  BY <1>13 DEF toolboxVars, manager, Ranging, Owning
<1>14. QED
  BY <1>1, <1>2, <1>3, <1>4, <1>5, <1>6, <1>7, <1>8, <1>9, <1>10, <1>11, <1>12, <1>13 DEF ToolboxNext

(* A start gives each service one turn. *)
LEMMA UntouchedStep ==
  ASSUME ToolboxInductive, [ToolboxNext]_toolboxVars
  PROVE  Untouched'
<1> USE ToolboxAssumption, DistinctServices DEF ToolboxInductive
<1>1. CASE BeginStart
  <2>1. /\ UNCHANGED routes /\ starts' = starts + 1 /\ starts \in Nat /\ next' = 1
    BY <1>1 DEF BeginStart, Ranging
  <2>2. ASSUME NEW i \in 1..Len(Services) PROVE routes[Services[i]] # <<Services[i], starts + 1>>
    <3>1. <<Services[i], starts + 1>>[2] = starts + 1
      OBVIOUS
    <3>2. Services[i] \in ServiceNames
      OBVIOUS
    <3>4. routes[Services[i]] # NoClient => routes[Services[i]][2] < starts + 1
      BY <3>2, Routes
    <3>5. routes[Services[i]] # NoClient => routes[Services[i]][2] \in Nat
      BY <3>2, Routes
    <3>6. starts + 1 \in Nat
      BY <2>1
    <3>7. SUFFICES ASSUME routes[Services[i]] = <<Services[i], starts + 1>> PROVE FALSE
      OBVIOUS
    <3>8. routes[Services[i]] # NoClient
      BY <3>2, <3>6, <3>7
    <3>9. QED
      BY <3>1, <3>4, <3>6, <3>7, <3>8
  <2>3. QED
    BY <2>1, <2>2 DEF Untouched
<1>2. CASE ConnectService
  BY <1>2 DEF ConnectService, Turn, Ranging, Untouched
<1>3. CASE Register
  BY <1>3 DEF Register, Turn, Ranging, Untouched
<1>4. CASE SkipService
  BY <1>4 DEF SkipService, Turn, Ranging, Untouched
<1>5. CASE EscapeStartup
  BY <1>5 DEF EscapeStartup, Turn, Ranging, Untouched
<1>6. CASE FinishStartup
  BY <1>6 DEF FinishStartup, Ranging, Untouched
<1>7. CASE Define
  BY <1>7 DEF Define, manager, Ranging, Untouched
<1>8. CASE DefineFails
  BY <1>8 DEF DefineFails, StopManager, Ranging, Untouched
<1>9. CASE OthersStart
  BY <1>9 DEF OthersStart, manager, Ranging, Untouched
<1>10. CASE OthersFail
  BY <1>10 DEF OthersFail, StopMcp, StopManager, manager, Ranging, Untouched
<1>11. CASE ShutDownTools
  BY <1>11 DEF ShutDownTools, StopMcp, StopManager, manager, Ranging, Untouched
<1>12. CASE ShutDownCancelled
  BY <1>12 DEF ShutDownCancelled, CloseFails, Ranging, Untouched
<1>13. CASE UNCHANGED toolboxVars
  BY <1>13 DEF toolboxVars, manager, Ranging, Untouched
<1>14. QED
  BY <1>1, <1>2, <1>3, <1>4, <1>5, <1>6, <1>7, <1>8, <1>9, <1>10, <1>11, <1>12, <1>13 DEF ToolboxNext

(* Clients are closed only with their routes, or before they have one. *)
LEMMA RoutingStep ==
  ASSUME ToolboxInductive, [ToolboxNext]_toolboxVars
  PROVE  Routing'
<1> USE ToolboxAssumption, DistinctServices DEF ToolboxInductive
<1>1. CASE BeginStart
  BY <1>1 DEF BeginStart, Ranging, Owning, Untouched, Routing
<1>2. CASE ConnectService
  BY <1>2 DEF ConnectService, Turn, Ranging, Owning, Untouched, Routing
<1>3. CASE Register
  <2>1. /\ entered = {<<Services[next], starts>>} /\ next \in 1..Len(Services)
        /\ UNCHANGED <<linked, scarred>> /\ life' = "connecting"
    BY <1>3 DEF Register, Turn, Ranging
  <2>2. routes' = [routes EXCEPT ![Services[next]] = <<Services[next], starts>>]
    BY <1>3, <2>1 DEF Register
  <2>3. <<Services[next], starts>> \in linked
    BY <2>1 DEF Ranging
  <2>4. QED
    BY <2>1, <2>2, <2>3 DEF Ranging, Routing
<1>4. CASE SkipService
  BY <1>4 DEF SkipService, Turn, Ranging, Owning, Untouched, Routing
<1>5. CASE EscapeStartup
  BY <1>5 DEF EscapeStartup, Turn, Ranging, Owning, Untouched, Routing
<1>6. CASE FinishStartup
  BY <1>6 DEF FinishStartup, Ranging, Owning, Untouched, Routing
<1>7. CASE Define
  BY <1>7 DEF Define, manager, Ranging, Owning, Untouched, Routing
<1>8. CASE DefineFails
  BY <1>8, Stopping, NoRoutesLead DEF DefineFails, Routing
<1>9. CASE OthersStart
  BY <1>9 DEF OthersStart, manager, Ranging, Owning, Untouched, Routing
<1>10. CASE OthersFail
  BY <1>10, Stopping, NoRoutesLead DEF OthersFail, Routing
<1>11. CASE ShutDownTools
  BY <1>11, Stopping, NoRoutesLead DEF ShutDownTools, Routing
<1>12. CASE ShutDownCancelled
  BY <1>12 DEF ShutDownCancelled, CloseFails, Ranging, Owning, Untouched, Routing
<1>13. CASE UNCHANGED toolboxVars
  BY <1>13 DEF toolboxVars, manager, Ranging, Owning, Untouched, Routing
<1>14. QED
  BY <1>1, <1>2, <1>3, <1>4, <1>5, <1>6, <1>7, <1>8, <1>9, <1>10, <1>11, <1>12, <1>13 DEF ToolboxNext

-----------------------------------------------------------------------------
(* For any number of services, starts, failures and cancellations: what the
   composite offers the model is served by an open connection unless closing
   has failed before, every open connection is held by what will close it, and
   none is open when the composite is down, except those that a startup left by
   an exception, or a closing that failed, has abandoned
   (McpServerManager.startup and shutdown, McpToolExecutor, CompositeToolExecutor). *)
THEOREM ToolsMatchConnectionsHolds == ToolboxSpec => []ToolsMatchConnections
<1>1. ToolboxInit => ToolboxInductive
  <2>1. SUFFICES ASSUME ToolboxInit PROVE ToolboxInductive
    OBVIOUS
  <2>2. Ranging
    <3>1. routes = NoRoutes /\ starts = 0 /\ next = 1 /\ entered = {} /\ running = FALSE
          /\ scarred = FALSE /\ offered = {} /\ exposed = {}
      BY <2>1 DEF ToolboxInit
    <3>2. /\ routes \in [ServiceNames -> (ServiceNames \X Nat) \cup {NoClient}]
          /\ \A s \in ServiceNames : routes[s] # NoClient => routes[s][1] = s /\ routes[s][2] <= starts
      BY <3>1, NoRoutesLead
    <3>3. running \in BOOLEAN /\ scarred \in BOOLEAN
      BY <3>1, Zenon
    <3>4. QED
      BY <3>1, <3>2, <3>3 DEF Ranging
  <2>3. Owning /\ Untouched /\ Routing
    BY <2>1, NoRoutesLead DEF ToolboxInit, Owning, Untouched, Routing
  <2>4. QED
    BY <2>2, <2>3 DEF ToolboxInductive
<1>2. ToolboxInductive /\ [ToolboxNext]_toolboxVars => ToolboxInductive'
  BY RangingStep, OwningStep, UntouchedStep, RoutingStep DEF ToolboxInductive
<1>3. ToolboxInductive => ToolsMatchConnections
  BY DEF ToolboxInductive, Ranging, Owning, Routing, ToolsMatchConnections, ToolsAreReachable,
         NothingIsLeftOpen
<1>4. QED
  BY <1>1, <1>2, <1>3, PTL DEF ToolboxSpec

-----------------------------------------------------------------------------
(* Evidence: for any set of files and any number of changes, what a read
   returns is of the revision it is returned with. *)

(* A version of a file that is there has the number of its last change, so it
   does not come back. *)
Versions ==
  /\ disk \in [Names -> [signature : Signatures, changes : Nat]]
  /\ \A p \in Names : Signature(p) \in {Missing, disk[p].changes}

(* What was seen of a file is a version it has or had. *)
Past(p, v) == v = Missing \/ (v \in Nat /\ v <= disk[p].changes)

(* The looks of the read in progress. *)
Looking ==
  /\ DOMAIN look = Names
  /\ \A p \in Names : look[p] = Unseen \/ Past(p, look[p])
  /\ doing = "running" => look = Blank
  /\ doing \in {"running", "second"} => \A p \in Names : Past(p, before.files[p])

(* A file that is as the first look saw it is so since then: the command saw
   that version too, or has not opened it. *)
CommandSees ==
  command =>
    /\ doing \in {"running", "second"} =>
         /\ output.began = before.generation
         /\ DOMAIN output.files = Names
         /\ \A p \in Names :
              Signature(p) = before.files[p] /\ before.files[p] # Missing =>
                output.files[p] \in {Unseen, before.files[p]}
    /\ doing = "second" => \A p \in Names :
         /\ output.files[p] # Unseen
         /\ look[p] = before.files[p] /\ before.files[p] # Missing =>
              output.files[p] = before.files[p]

(* What is cached was served once. *)
CacheHolds ==
  cache # Unseen =>
    /\ cache.output.began = cache.revision.generation
    /\ \A p \in Names : cache.revision.files[p] # Missing =>
         cache.output.files[p] = cache.revision.files[p]

(* The moment at which the first look ended shows every version that the
   second look finds unchanged. *)
ReadSees ==
  ~command =>
    /\ doing # "idle" => Disk \in moments
    /\ doing # "running"
    /\ doing = "second" =>
         \E m \in moments : \A p \in Names : before.files[p] # Missing =>
           /\ Signature(p) = before.files[p] => m[p] = before.files[p]
           /\ look[p] = before.files[p] => m[p] = before.files[p]

EvidenceInductive ==
  /\ Versions /\ Looking /\ command \in BOOLEAN /\ CommandSees /\ CacheHolds /\ ReadSees
  /\ ReadsAreConsistent

(* A version that is gone does not come back. *)
LEMMA VersionsStep ==
  ASSUME Versions, [EvidenceNext]_evidenceVars
  PROVE  /\ Versions'
         /\ \A p \in Names : \A v : Past(p, v) =>
              Past(p, v)' /\ (Signature(p)' = v /\ v # Missing => Signature(p) = v)
<1> USE EvidenceAssumption
<1>1. CASE UNCHANGED disk
  BY <1>1 DEF Versions, Past, Signature
<1>2. ASSUME NEW p \in Names, ChangeFile(p)
      PROVE  /\ Versions'
             /\ \A o \in Names : \A v : Past(o, v) =>
                  Past(o, v)' /\ (Signature(o)' = v /\ v # Missing => Signature(o) = v)
  <2>1. PICK s \in {disk[p].changes + 1, Missing} :
          disk' = [disk EXCEPT ![p] = [signature |-> s, changes |-> @.changes + 1]]
    BY <1>2 DEF ChangeFile
  <2>2. /\ disk[p].changes \in Nat /\ s \in Signatures
        /\ disk'[p] = [signature |-> s, changes |-> disk[p].changes + 1]
        /\ \A o \in Names \ {p} : disk'[o] = disk[o]
    BY <2>1 DEF Versions, Signatures
  <2>3. disk' \in [Names -> [signature : Signatures, changes : Nat]]
    BY <2>1, <2>2 DEF Versions
  <2>4. \A o \in Names : disk'[o].signature \in {Missing, disk'[o].changes}
    BY <2>1, <2>2 DEF Versions, Signature
  <2>5. ASSUME NEW o \in Names, NEW v, Past(o, v)
        PROVE  Past(o, v)' /\ (Signature(o)' = v /\ v # Missing => Signature(o) = v)
    <3>1. CASE o = p
      <4>1. Past(o, v)'
        BY <2>2, <2>5, <3>1 DEF Past
      <4>2. v # Missing => disk'[p].signature # v
        BY <2>1, <2>2, <2>5, <3>1 DEF Past
      <4>3. QED
        BY <3>1, <4>1, <4>2 DEF Signature
    <3>2. CASE o # p
      BY <2>2, <2>5, <3>2 DEF Past, Signature
    <3>3. QED
      BY <3>1, <3>2
  <2>6. QED
    BY <2>3, <2>4, <2>5 DEF Versions, Signature
<1>3. (\E p \in Names : ChangeFile(p)) \/ UNCHANGED disk
  BY DEF EvidenceNext, LookAt, CommandOpens, Invalidate, BeginRead, FirstLook, CommandEnds,
         SecondLook, Unavailable, CloseEvidence, evidenceVars
<1>4. QED
  BY <1>1, <1>2, <1>3

LEMMA Present ==
  ASSUME Versions, NEW p \in Names
  PROVE  Past(p, Signature(p)) /\ Signature(p) # Unseen /\ Disk[p] = Signature(p)
BY EvidenceAssumption DEF Versions, Past, Signature, Signatures, Disk

LEMMA LookingStep ==
  ASSUME Versions, Looking, [EvidenceNext]_evidenceVars
  PROVE  Looking'
<1>1. \A p \in Names : \A v : Past(p, v) => Past(p, v)'
  BY VersionsStep
<1>2. CASE UNCHANGED <<look, before, doing>>
  BY <1>1, <1>2 DEF Looking
<1>3. CASE BeginRead
  BY <1>1, <1>3 DEF BeginRead, Looking
<1>4. ASSUME NEW p \in Names, LookAt(p) PROVE Looking'
  <2>1. look' = [look EXCEPT ![p] = Signature(p)] /\ UNCHANGED <<disk, before, doing>>
          /\ doing # "running"
    BY <1>4 DEF LookAt
  <2>2. Past(p, Signature(p))
    BY Present
  <2>3. DOMAIN look' = Names /\ \A o \in Names : look'[o] = Unseen \/ Past(o, look'[o])
    BY <2>1, <2>2 DEF Looking
  <2>4. QED
    BY <2>1, <2>3 DEF Looking, Past
<1>5. CASE FirstLook
  <2>1. UNCHANGED disk /\ look' = Blank
    BY <1>5 DEF FirstLook, EndRead
  <2>2. CASE doing' = "idle"
    BY <2>1, <2>2 DEF Looking, Blank
  <2>3. CASE before' = Revision
    <3>1. \A p \in Names : before'.files[p] = look[p] /\ Past(p, look[p])
      BY <1>5, <2>3 DEF FirstLook, Seen, Looking, Revision
    <3>2. \A p \in Names : Past(p, before.files[p])'
      BY <2>1, <3>1 DEF Past
    <3>3. QED
      BY <2>1, <3>2 DEF Looking, Blank
  <2>4. QED
    BY <1>5, <2>2, <2>3 DEF FirstLook, EndRead
<1>6. CASE CommandEnds
  BY <1>1, <1>6 DEF CommandEnds, Looking
<1>7. CASE EndRead
  BY <1>7 DEF EndRead, Looking, Blank
<1>8. QED
  BY <1>2, <1>3, <1>4, <1>5, <1>6, <1>7
  DEF EvidenceNext, ChangeFile, Invalidate, CommandOpens, SecondLook, Unavailable, CloseEvidence,
      evidenceVars

(* What the command opens and the second look finds. *)
LEMMA CommandSeesStep ==
  ASSUME Versions, Looking, CommandSees, [EvidenceNext]_evidenceVars
  PROVE  CommandSees'
<1>1. ASSUME NEW p \in Names, NEW v, Past(p, v), v # Missing, Signature(p)' = v
      PROVE  Signature(p) = v
  BY <1>1, VersionsStep
<1>2. CASE UNCHANGED <<look, before, output, doing, command>>
  BY <1>1, <1>2 DEF CommandSees, Looking
<1>3. CASE BeginRead
  BY <1>3 DEF BeginRead, CommandSees
<1>4. ASSUME NEW p \in Names, LookAt(p) PROVE CommandSees'
  <2>1. /\ look' = [look EXCEPT ![p] = Signature(p)]
        /\ UNCHANGED <<disk, before, output, doing, command>>
    BY <1>4 DEF LookAt
  <2>2. \A o \in Names : look'[o] = IF o = p THEN Signature(p) ELSE look[o]
    BY <2>1 DEF Looking
  <2>3. \A o \in Names : Signature(o)' = Signature(o)
    BY <2>1 DEF Signature
  <2>4. ASSUME command, doing = "second", NEW o \in Names,
               look'[o] = before.files[o], before.files[o] # Missing
        PROVE  output.files[o] = before.files[o]
    BY <2>2, <2>4 DEF CommandSees
  <2>5. QED
    BY <2>1, <2>3, <2>4 DEF CommandSees
<1>5. CASE FirstLook
  <2>1. UNCHANGED command /\ (doing' = "idle" \/ (command => doing' = "running"))
    BY <1>5 DEF FirstLook, EndRead
  <2>2. CASE command /\ doing' = "running"
    <3>1. /\ before' = Revision /\ output' = [files |-> Blank, began |-> generation]
      BY <1>5, <2>2 DEF FirstLook, EndRead
    <3>2. output'.began = before'.generation /\ output'.files = Blank
      BY <2>2, <3>1 DEF Revision
    <3>3. QED
      BY <2>1, <2>2, <3>2 DEF CommandSees, Blank
  <2>3. QED
    BY <2>1, <2>2 DEF CommandSees
<1>6. ASSUME NEW p \in Names, CommandOpens(p) PROVE CommandSees'
  <2>1. /\ output' = [output EXCEPT !.files[p] = Signature(p)] /\ doing = "running"
        /\ UNCHANGED <<disk, before, look, doing, command>>
    BY <1>6 DEF CommandOpens
  <2>2. SUFFICES ASSUME command PROVE CommandSees'
    BY <2>1 DEF CommandSees
  <2>3. /\ output'.began = output.began /\ DOMAIN output'.files = Names
        /\ \A o \in Names : output'.files[o] = IF o = p THEN Signature(p) ELSE output.files[o]
    BY <2>1, <2>2 DEF CommandSees
  <2>4. \A o \in Names : Signature(o)' = Signature(o)
    BY <2>1 DEF Signature
  <2>5. QED
    BY <2>1, <2>2, <2>3, <2>4 DEF CommandSees
<1>7. CASE CommandEnds
  <2>1. /\ doing = "running" /\ doing' = "second" /\ \A p \in Names : output.files[p] # Unseen
        /\ UNCHANGED <<disk, look, before, output, command>>
    BY <1>7 DEF CommandEnds
  <2>2. SUFFICES ASSUME command PROVE CommandSees'
    BY <2>1 DEF CommandSees
  <2>3. \A p \in Names : Signature(p)' = Signature(p)
    BY <2>1 DEF Signature
  <2>4. look = Blank
    BY <2>1 DEF Looking
  <2>5. \A p \in Names : look[p] # before.files[p]
    <3>1. \A p \in Names : before.files[p] # Unseen
      BY <2>1, EvidenceAssumption DEF Looking, Past
    <3>2. QED
      BY <2>4, <3>1 DEF Blank
  <2>6. QED
    BY <2>1, <2>2, <2>3, <2>5 DEF CommandSees
<1>8. CASE EndRead /\ UNCHANGED command
  BY <1>8 DEF EndRead, CommandSees
<1>9. QED
  BY <1>2, <1>3, <1>4, <1>5, <1>6, <1>7, <1>8
  DEF EvidenceNext, ChangeFile, Invalidate, SecondLook, Unavailable, CloseEvidence, evidenceVars

(* A command's output that the second look confirms. *)
LEMMA Confirmed ==
  ASSUME CommandSees, command, doing = "second", Unchanged
  PROVE  /\ output.began = generation
         /\ \A p \in Names : look[p] # Missing => output.files[p] = look[p]
<1>1. before.files = look /\ before.generation = generation
  BY DEF Unchanged, Revision
<1>2. QED
  BY <1>1 DEF CommandSees

LEMMA CacheHoldsStep ==
  ASSUME CommandSees, CacheHolds, [EvidenceNext]_evidenceVars
  PROVE  CacheHolds'
<1>1. CASE UNCHANGED cache \/ cache' = Unseen
  BY <1>1 DEF CacheHolds
<1>2. CASE SecondLook /\ command /\ Unchanged
  <2>1. cache' = [revision |-> Revision, output |-> output, now |-> generation]
    BY <1>2 DEF SecondLook
  <2>2. /\ cache'.output = output /\ cache'.revision.files = look
        /\ cache'.revision.generation = generation
    BY <1>2, <2>1 DEF Revision
  <2>3. doing = "second"
    BY <1>2 DEF SecondLook
  <2>4. QED
    BY <1>2, <2>2, <2>3, Confirmed DEF CacheHolds
<1>3. QED
  BY <1>1, <1>2
  DEF EvidenceNext, ChangeFile, Invalidate, BeginRead, LookAt, FirstLook, CommandOpens, CommandEnds,
      SecondLook, Unavailable, CloseEvidence, evidenceVars

(* One moment of a workspace read explains what its second look confirms. *)
LEMMA ReadSeesStep ==
  ASSUME Versions, Looking, ReadSees, command \in BOOLEAN, [EvidenceNext]_evidenceVars
  PROVE  ReadSees'
<1> DEFINE Explains(m) == \A p \in Names : before.files[p] # Missing =>
                            /\ Signature(p) = before.files[p] => m[p] = before.files[p]
                            /\ look[p] = before.files[p] => m[p] = before.files[p]
<1>1. ASSUME NEW p \in Names, NEW v, Past(p, v), v # Missing, Signature(p)' = v
      PROVE  Signature(p) = v
  BY <1>1, VersionsStep
<1>2. CASE UNCHANGED <<disk, look, before, doing, command, moments>>
  BY <1>2 DEF ReadSees, Disk, Signature
<1>3. ASSUME NEW p \in Names, ChangeFile(p) PROVE ReadSees'
  <2>1. UNCHANGED <<look, before, doing, command>>
    BY <1>3 DEF ChangeFile
  <2>2. CASE command
    BY <2>1, <2>2 DEF ReadSees
  <2>3. CASE ~command
    <3>1. doing # "idle" => Disk' \in moments'
      <4>1. disk' = [disk EXCEPT ![p] = disk'[p]] /\ DOMAIN disk = Names
        BY <1>3 DEF ChangeFile, Versions
      <4>2. [Disk EXCEPT ![p] = disk'[p].signature] = Disk'
        BY <4>1 DEF Disk, Signature
      <4>3. QED
        BY <1>3, <2>3, <4>2 DEF ChangeFile
    <3>2. moments \subseteq moments'
      BY <1>3 DEF ChangeFile
    <3>3. ASSUME doing = "second" PROVE \E m \in moments' : Explains(m)'
      <4>1. PICK m \in moments : Explains(m)
        BY <2>3, <3>3 DEF ReadSees
      <4>2. \A o \in Names : Past(o, before.files[o])
        BY <3>3 DEF Looking
      <4>3. Explains(m)'
        BY <1>1, <2>1, <4>1, <4>2
      <4>4. QED
        BY <3>2, <4>3
    <3>4. QED
      BY <2>1, <2>3, <3>1, <3>3 DEF ReadSees
  <2>4. QED
    BY <2>2, <2>3
<1>4. CASE BeginRead
  <2>1. doing' = "first" /\ (~command' => moments' = {Disk}) /\ UNCHANGED disk
    BY <1>4 DEF BeginRead
  <2>2. QED
    BY <2>1 DEF ReadSees, Disk, Signature
<1>5. ASSUME NEW p \in Names, LookAt(p) PROVE ReadSees'
  <2>1. /\ look' = [look EXCEPT ![p] = Signature(p)]
        /\ UNCHANGED <<disk, before, doing, command, moments>>
    BY <1>5 DEF LookAt
  <2>2. \A o \in Names : look'[o] = IF o = p THEN Signature(p) ELSE look[o]
    BY <2>1 DEF Looking
  <2>3. \A o \in Names : Signature(o)' = Signature(o)
    BY <2>1 DEF Signature
  <2>4. Disk' = Disk
    BY <2>3 DEF Disk
  <2>5. ASSUME NEW m, Explains(m) PROVE Explains(m)'
    BY <2>1, <2>2, <2>3, <2>5
  <2>6. QED
    BY <2>1, <2>4, <2>5 DEF ReadSees
<1>6. CASE FirstLook
  <2>1. UNCHANGED <<disk, command, moments>> /\ doing = "first"
    BY <1>6 DEF FirstLook
  <2>2. Disk' = Disk /\ \A p \in Names : Signature(p)' = Signature(p)
    BY <2>1 DEF Disk, Signature
  <2>3. CASE ~command
    <3>1. doing' = "second" /\ look' = Blank /\ before' = Revision
      BY <1>6, <2>3 DEF FirstLook, Cached
    <3>2. Disk \in moments
      BY <2>1, <2>3 DEF ReadSees
    <3>3. \A p \in Names : before'.files[p] # Unseen
      BY <1>6, <3>1 DEF FirstLook, Seen, Revision
    <3>4. Explains(Disk)'
      BY <2>2, <3>1, <3>3 DEF Disk, Blank
    <3>5. QED
      BY <2>1, <2>2, <2>3, <3>1, <3>2, <3>4 DEF ReadSees
  <2>4. CASE command
    BY <2>1, <2>4 DEF ReadSees
  <2>5. QED
    BY <2>3, <2>4
<1>7. CASE command /\ UNCHANGED command
  BY <1>7 DEF ReadSees
<1>8. CASE EndRead /\ UNCHANGED <<command, moments, disk>>
  BY <1>8 DEF EndRead, ReadSees
<1>9. CASE CommandEnds
  BY <1>7, <1>9 DEF CommandEnds, ReadSees
<1>10. QED
  BY <1>2, <1>3, <1>4, <1>5, <1>6, <1>7, <1>8, <1>9
  DEF EvidenceNext, Invalidate, SecondLook, Unavailable, CloseEvidence, CommandOpens, evidenceVars

(* What is served was confirmed by the second look, or by the revision it is
   cached for. *)
LEMMA ReadsAreConsistentStep ==
  ASSUME EvidenceInductive, [EvidenceNext]_evidenceVars
  PROVE  ReadsAreConsistent'
<1> USE DEF EvidenceInductive
<1>1. CASE UNCHANGED <<served, command, moments>>
  BY <1>1 DEF ReadsAreConsistent, CommandOutputIsCurrent, WorkspaceReadIsOneMoment
<1>2. CASE served' = Unseen
  BY <1>2 DEF ReadsAreConsistent, CommandOutputIsCurrent, WorkspaceReadIsOneMoment
<1>3. ASSUME NEW p \in Names, ChangeFile(p) PROVE ReadsAreConsistent'
  <2>1. moments \subseteq moments' /\ UNCHANGED <<served, command>>
    BY <1>3 DEF ChangeFile
  <2>2. QED
    BY <2>1 DEF ReadsAreConsistent, CommandOutputIsCurrent, WorkspaceReadIsOneMoment
<1>4. CASE FirstLook
  <2>1. CASE Cached
    <3>1. /\ served' = [cache EXCEPT !.now = generation] /\ UNCHANGED command
          /\ command /\ cache # Unseen /\ cache.revision = Revision
      BY <1>4, <2>1 DEF FirstLook, Cached
    <3>2. cache.revision.generation = generation
      BY <3>1 DEF Revision
    <3>3. CommandOutputIsCurrent'
      <4>1. \A p \in Names : cache.revision.files[p] # Missing =>
              cache.output.files[p] = cache.revision.files[p]
        BY <3>1 DEF CacheHolds
      <4>2. cache.output.began = generation
        BY <3>1, <3>2 DEF CacheHolds
      <4>3. /\ served'.output = cache.output /\ served'.revision = cache.revision
            /\ served'.now = generation
        BY <3>1
      <4>4. QED
        BY <4>1, <4>2, <4>3 DEF CommandOutputIsCurrent
    <3>4. QED
      BY <3>1, <3>3 DEF ReadsAreConsistent, WorkspaceReadIsOneMoment
  <2>2. QED
    BY <1>1, <1>4, <2>1 DEF FirstLook
<1>5. CASE SecondLook
  <2>1. CASE Unchanged
    <3>1. /\ served' = [revision |-> Revision, output |-> output, now |-> generation]
          /\ doing = "second" /\ UNCHANGED <<command, moments>>
      BY <1>5, <2>1 DEF SecondLook
    <3>2. /\ served'.revision.files = look /\ served'.output = output /\ served'.now = generation
      BY <3>1 DEF Revision
    <3>3. CASE command
      <4>1. CommandOutputIsCurrent'
        BY <2>1, <3>1, <3>2, <3>3, Confirmed DEF CommandOutputIsCurrent
      <4>2. QED
        BY <3>1, <3>3, <4>1 DEF ReadsAreConsistent, WorkspaceReadIsOneMoment
    <3>4. CASE ~command
      <4>1. before.files = look
        BY <2>1 DEF Unchanged, Revision
      <4>2. \E m \in moments : \A p \in Names : look[p] # Missing => m[p] = look[p]
        BY <3>1, <3>4, <4>1 DEF ReadSees
      <4>3. QED
        BY <3>1, <3>2, <3>4, <4>2
        DEF ReadsAreConsistent, WorkspaceReadIsOneMoment, CommandOutputIsCurrent
    <3>5. QED
      BY <3>3, <3>4
  <2>2. CASE ~Unchanged
    BY <1>1, <1>5, <2>2 DEF SecondLook
  <2>3. QED
    BY <2>1, <2>2
<1>6. QED
  BY <1>1, <1>2, <1>3, <1>4, <1>5
  DEF EvidenceNext, Invalidate, BeginRead, LookAt, CommandOpens, CommandEnds, Unavailable,
      CloseEvidence, evidenceVars

(* For any files, however often and whenever they are written, replaced,
   created or deleted: what a workspace read returns stood so at one moment of
   the read, and a command's output, cached or not, is served only for the very
   versions its command saw and the generation it began in, as far as the files
   exist (WorkspaceEvidenceSource.read, CommandEvidenceSource.read). *)
THEOREM ReadsAreConsistentHolds == EvidenceSpec => []ReadsAreConsistent
<1>1. EvidenceInit => EvidenceInductive
  <2>1. SUFFICES ASSUME EvidenceInit PROVE EvidenceInductive
    OBVIOUS
  <2>2. Versions
    BY <2>1, EvidenceAssumption DEF EvidenceInit, Versions, Signature, Signatures
  <2>3. QED
    BY <2>1, <2>2
    DEF EvidenceInit, EvidenceInductive, Looking, CommandSees, CacheHolds, ReadSees, Blank,
        ReadsAreConsistent, CommandOutputIsCurrent, WorkspaceReadIsOneMoment
<1>2. EvidenceInductive /\ [EvidenceNext]_evidenceVars => EvidenceInductive'
  <2>1. SUFFICES ASSUME EvidenceInductive, [EvidenceNext]_evidenceVars PROVE EvidenceInductive'
    OBVIOUS
  <2>2. command' \in BOOLEAN
    BY <2>1
    DEF EvidenceInductive, EvidenceNext, ChangeFile, Invalidate, BeginRead, LookAt, FirstLook,
        CommandOpens, CommandEnds, SecondLook, Unavailable, CloseEvidence, evidenceVars
  <2>3. QED
    BY <2>1, <2>2, VersionsStep, LookingStep, CommandSeesStep, CacheHoldsStep, ReadSeesStep,
       ReadsAreConsistentStep
    DEF EvidenceInductive
<1>3. EvidenceInductive => ReadsAreConsistent
  BY DEF EvidenceInductive
<1>4. QED
  BY <1>1, <1>2, <1>3, PTL DEF EvidenceSpec

-----------------------------------------------------------------------------
(* ModelStream: however the pieces of an answer come, and whenever a request is
   cancelled. *)

(* The provider's stream is open exactly while the port stands where its finally
   clause, or the instant before it, will see it. *)
Opening ==
  /\ phase \in {"new", "translated", "opening"} => conn = "none" /\ said = <<>>
  /\ phase = "opened" => conn = "open" /\ said = <<>>
  /\ phase \in {"reading", "yielded", "closing"} => conn = "open"
  /\ StreamsAreClosed

(* For every vendor, any pieces and any instant of cancellation: when a request
   is over the close of its provider stream was called, but for one that opened in the very
   instant of the cancellation and that nobody has read (OpenAIModelPort.stream,
   AnthropicModelPort.stream and their finally clauses). *)
THEOREM StreamsAreClosedHolds == StreamSpec => []StreamsAreClosed
<1>1. StreamInit => Opening
  BY DEF StreamInit, Opening, StreamsAreClosed
<1>2. Opening /\ [StreamNext]_streamVars => Opening'
  <2> SUFFICES ASSUME Opening, [StreamNext]_streamVars PROVE Opening'
    OBVIOUS
  <2> USE DEF Opening, StreamsAreClosed
  <2>1. CASE Start \/ Shutdown
    BY <2>1 DEF Start, Shutdown
  <2>2. CASE Translate
    BY <2>2 DEF Translate
  <2>3. CASE Connect \/ Opened \/ OpeningFails
    BY <2>3 DEF Connect, Opened, OpeningFails
  <2>4. CASE ResumeOpened
    BY <2>4 DEF ResumeOpened
  <2>5. CASE Receive
    BY <2>5 DEF Receive
  <2>6. CASE ReadingFails \/ Continue \/ Drained
    BY <2>6 DEF ReadingFails, Continue, Drained
  <2>7. CASE CancelStream
    BY <2>7 DEF CancelStream
  <2>8. CASE CloseStream
    BY <2>8 DEF CloseStream
  <2>9. CASE Halt
    BY <2>9 DEF Halt
  <2>10. CASE UNCHANGED streamVars
    BY <2>10 DEF streamVars
  <2>11. QED
    BY <2>1, <2>2, <2>3, <2>4, <2>5, <2>6, <2>7, <2>8, <2>9, <2>10 DEF StreamNext
<1>3. Opening => StreamsAreClosed
  BY DEF Opening
<1>4. QED
  BY <1>1, <1>2, <1>3, PTL DEF StreamSpec

(* The calls in the making, and what is known of one when its message is over. *)
Call == [index : Nat, id : Nat, names : Seq(Nat), parts : Seq(Nat)]

Gatherings ==
  [text : Seq(Nat), calls : Seq(Call), usage : BOOLEAN, finish : BOOLEAN, stop : BOOLEAN]

Distinct(made) == \A j, k \in 1..Len(made) : made[j].index = made[k].index => j = k

(* The piece belongs to call i. *)
Meant(p, i) == p.kind = "call" /\ Home(p) = i

(* What was gathered of a call is what was said of it. *)
Tells(q, call) ==
  /\ Lists(call.names, Counted(q, call.index, "name"))
  /\ Lists(call.parts, Counted(q, call.index, "part"))
  /\ LatestId(q, call.index) = IF call.id = 0 THEN {} ELSE {call.id}

TellsAll(q, made) ==
  /\ Distinct(made) /\ \A k \in 1..Len(made) : Tells(q, made[k])
  /\ \A i \in Nat : ~Holds(made, i) => \A n \in 1..Len(q) : ~Meant(q[n], i)

(* What was gathered is what was said, as long as the answer may be completed. *)
Gathering ==
  /\ got \in Gatherings /\ said \in Seq(Pieces)
  /\ phase \in {"new", "translated", "opening", "opened"} => got = Empty /\ said = <<>>
  /\ phase \notin {"closing", "over"} => reply = "none"
  /\ reply = "completed" => phase = "over"
  /\ phase # "over" /\ reply \in {"none", "ended"} =>
       /\ Lists(got.text, Positions(said, "text"))
       /\ got.usage <=> Positions(said, "usage") # {}
       /\ got.finish <=> Positions(said, "finish") # {}
       /\ got.stop <=> Positions(said, "stop") # {}
       /\ TellsAll(said, got.calls)
  /\ AnswersAreWhole

(* One piece more. *)
Followed(q, p, r) ==
  /\ r \in Seq(Pieces) /\ Len(r) = Len(q) + 1
  /\ \A n \in 1..Len(q) : r[n] = q[n]
  /\ r[Len(q) + 1] = p

(* A piece gives a call something if it belongs to it. *)
LEMMA HomeGives ==
  ASSUME NEW p \in Pieces
  PROVE  /\ p.kind = "call" => Home(p) \in Nat
         /\ \A i \in Nat : \A what : Gives(p, i, what) <=> Meant(p, i) /\ what \in p.gives
<1>1. p.place \in Nat /\ p.kind \in {"text", "usage", "finish", "stop", "call"}
  BY StreamAssumption DEF Pieces
<1>2. p.index \in Indexes \cup {NoIndex} /\ Indexes \subseteq Nat /\ NoIndex \notin Nat
  BY StreamAssumption DEF Pieces
<1>3. Home(p) \in Nat
  BY <1>1, <1>2 DEF Home
<1>4. \A i \in Nat : Home(p) = i <=> p.index = i \/ (p.index = NoIndex /\ p.place = i)
  BY <1>1, <1>2 DEF Home
<1>5. QED
  BY <1>3, <1>4 DEF Gives, Meant

(* The places of a following of pieces. *)
LEMMA Following ==
  ASSUME NEW q \in Seq(Pieces), NEW p \in Pieces, NEW r, Followed(q, p, r)
  PROVE  /\ Len(r) = Len(q) + 1 /\ Len(q) \in Nat /\ Len(r) \in Nat
         /\ r[Len(r)] = p /\ Len(r) \in 1..Len(r)
         /\ \A n \in 1..Len(r) : n \in 1..Len(q) \/ n = Len(r)
         /\ \A n \in 1..Len(q) : n \in 1..Len(r) /\ n \in Nat /\ n < Len(r) /\ r[n] = q[n]
<1>1. Len(r) = Len(q) + 1 /\ Len(q) \in Nat /\ (\A n \in 1..Len(q) : r[n] = q[n]) /\ r[Len(q) + 1] = p
  BY DEF Followed
<1>2. QED
  BY <1>1

(* A piece more is one of its own kind more. *)
LEMMA PositionsGrow ==
  ASSUME NEW q \in Seq(Pieces), NEW p \in Pieces, NEW r, Followed(q, p, r)
  PROVE  /\ \A kind : \A n \in Positions(q, kind) : n \in Nat /\ n < Len(r)
         /\ Positions(r, p.kind) = Positions(q, p.kind) \cup {Len(r)}
         /\ \A kind : kind # p.kind => Positions(r, kind) = Positions(q, kind)
BY Following DEF Positions

(* What counts for a call after one piece more: with Anthropic an id starts it
   anew. *)
LEMMA CountedGrows ==
  ASSUME NEW q \in Seq(Pieces), NEW p \in Pieces, NEW r, Followed(q, p, r), NEW i, NEW what
  PROVE  /\ \A n \in Counted(q, i, what) : n \in Nat /\ n < Len(r)
         /\ Counted(r, i, what)
              = (IF port = "anthropic" /\ Gives(p, i, "id") THEN {} ELSE Counted(q, i, what))
                  \cup (IF Gives(p, i, what) THEN {Len(r)} ELSE {})
         /\ LatestId(r, i) = IF Gives(p, i, "id") THEN {Len(r)} ELSE LatestId(q, i)
<1>1. /\ Len(r) = Len(q) + 1 /\ Len(q) \in Nat /\ Len(r) \in Nat
      /\ r[Len(r)] = p /\ Len(r) \in 1..Len(r)
      /\ \A n \in 1..Len(r) : n \in 1..Len(q) \/ n = Len(r)
      /\ \A n \in 1..Len(q) : n \in 1..Len(r) /\ n \in Nat /\ n < Len(r) /\ r[n] = q[n]
  BY Following
<1>2. IsLast(r, Len(r), i)
  BY <1>1 DEF IsLast
<1>3. ASSUME NEW n \in 1..Len(q)
      PROVE  IsLast(r, n, i) <=> IsLast(q, n, i) /\ ~Gives(p, i, "id")
  <2>1. \A m \in n + 1..Len(r) : m \in n + 1..Len(q) \/ m = Len(r)
    BY <1>1
  <2>2. /\ Len(r) \in n + 1..Len(r)
        /\ \A m \in n + 1..Len(q) : m \in n + 1..Len(r) /\ m \in 1..Len(q)
    BY <1>1
  <2>3. QED
    BY <1>1, <2>1, <2>2 DEF IsLast
<1>4. QED
  BY <1>1, <1>2, <1>3 DEF Counted, LatestId

LEMMA ListsMore ==
  ASSUME NEW list \in Seq(Nat), NEW numbers, Lists(list, numbers),
         NEW n \in Nat, \A m \in numbers : m < n
  PROVE  Append(list, n) \in Seq(Nat) /\ Lists(Append(list, n), numbers \cup {n})
<1> DEFINE more == Append(list, n)
<1>1. /\ more \in Seq(Nat) /\ Len(more) = Len(list) + 1 /\ Len(list) \in Nat
      /\ \A i \in 1..Len(list) : more[i] = list[i]
      /\ more[Len(list) + 1] = n
      /\ DOMAIN more = 1..Len(more) /\ DOMAIN list = 1..Len(list)
  OBVIOUS
<1> HIDE DEF more
<1>2. \A i \in 1..Len(more) : i \in 1..Len(list) \/ i = Len(list) + 1
  BY <1>1
<1>3. \A i \in 1..Len(list) : i \in 1..Len(more) /\ i # Len(list) + 1
  BY <1>1
<1>4. Len(list) + 1 \in 1..Len(more)
  BY <1>1
<1>5. ToSet(list) = numbers /\ \A i \in 1..Len(list) : list[i] < n
  BY <1>1 DEF Lists, ToSet
<1>6. ToSet(more) = numbers \cup {n}
  BY <1>1, <1>2, <1>3, <1>4, <1>5 DEF ToSet
<1>7. ASSUME NEW a \in 1..Len(more), NEW b \in 1..Len(more), a < b PROVE more[a] < more[b]
  <2>1. a \in 1..Len(list)
    BY <1>1, <1>2, <1>7
  <2>2. CASE b \in 1..Len(list)
    BY <1>1, <1>7, <2>1, <2>2 DEF Lists
  <2>3. CASE b = Len(list) + 1
    BY <1>1, <1>5, <2>1, <2>3
  <2>4. QED
    BY <1>2, <2>2, <2>3
<1>8. QED
  BY <1>1, <1>6, <1>7 DEF more, Lists

(* A list grows if the piece brings what it lists. *)
LEMMA ListsGrow ==
  ASSUME NEW list \in Seq(Nat), NEW numbers, Lists(list, numbers),
         NEW n \in Nat, \A m \in numbers : m < n, NEW brings \in BOOLEAN
  PROVE  LET more == IF brings THEN Append(list, n) ELSE list
         IN /\ more \in Seq(Nat)
            /\ Lists(more, numbers \cup (IF brings THEN {n} ELSE {}))
<1>1. CASE brings
  BY <1>1, ListsMore
<1>2. CASE ~brings
  <2>1. numbers \cup {} = numbers
    OBVIOUS
  <2>2. QED
    BY <1>2, <2>1
<1>3. QED
  BY <1>1, <1>2

Known(made, i) == IF Holds(made, i) THEN made ELSE Append(made, NewCall(i))

(* A call that nothing belongs to has nothing. *)
LEMMA NewCallTells ==
  ASSUME NEW q \in Seq(Pieces), NEW i \in Nat, \A n \in 1..Len(q) : ~Meant(q[n], i)
  PROVE  NewCall(i) \in Call /\ NewCall(i).index = i /\ Tells(q, NewCall(i))
<1>1. /\ NewCall(i) \in Call /\ NewCall(i).index = i /\ NewCall(i).id = 0
      /\ NewCall(i).names = <<>> /\ NewCall(i).parts = <<>>
  BY DEF NewCall, Call
<1>2. \A n \in 1..Len(q) : \A what : ~Gives(q[n], i, what)
  <2>1. TAKE n \in 1..Len(q)
  <2>2. q[n] \in Pieces
    OBVIOUS
  <2>3. QED
    BY <2>2, HomeGives
<1>3. Counted(q, i, "name") = {} /\ Counted(q, i, "part") = {} /\ LatestId(q, i) = {}
  BY <1>2 DEF Counted, LatestId
<1>4. Lists(<<>>, {})
  BY DEF Lists, ToSet
<1>5. QED
  BY <1>1, <1>3, <1>4 DEF Tells

(* Where the call of an index stands: it is known, or it is new and nothing
   belongs to it yet. *)
LEMMA KnownTells ==
  ASSUME NEW q \in Seq(Pieces), NEW made \in Seq(Call), TellsAll(q, made), NEW i \in Nat
  PROVE  /\ Known(made, i) \in Seq(Call) /\ TellsAll(q, Known(made, i))
         /\ \E k \in 1..Len(Known(made, i)) : Known(made, i)[k].index = i
<1>1. CASE Holds(made, i)
  <2>1. Known(made, i) = made
    BY <1>1 DEF Known
  <2>2. QED
    BY <1>1, <2>1 DEF Holds
<1>2. CASE ~Holds(made, i)
  <2> DEFINE known == Append(made, NewCall(i))
  <2>1. Known(made, i) = known
    BY <1>2 DEF Known
  <2>2. NewCall(i) \in Call /\ NewCall(i).index = i /\ Tells(q, NewCall(i))
    BY <1>2, NewCallTells DEF TellsAll
  <2>3. /\ known \in Seq(Call) /\ Len(known) = Len(made) + 1 /\ Len(made) \in Nat
        /\ \A j \in 1..Len(made) : known[j] = made[j]
        /\ known[Len(made) + 1] = NewCall(i)
    BY <2>2
  <2> HIDE DEF known
  <2>4. /\ \A j \in 1..Len(known) : j \in 1..Len(made) \/ j = Len(made) + 1
        /\ \A j \in 1..Len(made) : j \in 1..Len(known) /\ j # Len(made) + 1
        /\ Len(made) + 1 \in 1..Len(known)
    BY <2>3
  <2>5. \A j \in 1..Len(made) : made[j].index # i
    BY <1>2 DEF Holds
  <2>6. Distinct(known)
    BY <2>2, <2>3, <2>4, <2>5 DEF Distinct, TellsAll
  <2>7. \A j \in 1..Len(known) : Tells(q, known[j])
    BY <2>2, <2>3, <2>4 DEF TellsAll
  <2>8. \A o \in Nat : ~Holds(known, o) => ~Holds(made, o)
    BY <2>3, <2>4 DEF Holds
  <2>9. TellsAll(q, known)
    BY <2>6, <2>7, <2>8 DEF TellsAll
  <2>10. QED
    BY <2>1, <2>2, <2>3, <2>4, <2>9
<1>3. QED
  BY <1>1, <1>2

(* A piece of a call is kept with its call: a later id takes the place of the
   earlier, names and arguments go on, and with Anthropic an id starts anew. *)
LEMMA PieceTells ==
  ASSUME NEW q \in Seq(Pieces), NEW p \in Pieces, p.kind = "call", NEW r, Followed(q, p, r),
         NEW call \in Call, call.index = Home(p), Tells(q, call)
  PROVE  LET grown == WithPiece(call, p, Len(r))
         IN grown \in Call /\ grown.index = Home(p) /\ Tells(r, grown)
<1> DEFINE i == Home(p)
           n == Len(r)
           anew == port = "anthropic" /\ "id" \in p.gives
           old == IF anew THEN NewCall(i) ELSE call
           names == IF "name" \in p.gives THEN Append(old.names, n) ELSE old.names
           parts == IF "part" \in p.gives THEN Append(old.parts, n) ELSE old.parts
           grown == WithPiece(call, p, n)
<1>1. i \in Nat /\ (\A what : Gives(p, i, what) <=> what \in p.gives)
  BY HomeGives DEF Meant
<1>2. n \in Nat /\ n # 0
  BY Following
<1>3. /\ \A what : \A m \in Counted(q, i, what) : m < n
      /\ \A what : Counted(r, i, what) = (IF anew THEN {} ELSE Counted(q, i, what))
                     \cup (IF what \in p.gives THEN {n} ELSE {})
      /\ LatestId(r, i) = IF "id" \in p.gives THEN {n} ELSE LatestId(q, i)
  BY <1>1, CountedGrows
<1>4. call.id \in Nat /\ call.names \in Seq(Nat) /\ call.parts \in Seq(Nat)
  BY DEF Call
<1>5. /\ Lists(call.names, Counted(q, i, "name")) /\ Lists(call.parts, Counted(q, i, "part"))
      /\ LatestId(q, i) = IF call.id = 0 THEN {} ELSE {call.id}
  BY DEF Tells
<1>6. NewCall(i).names = <<>> /\ NewCall(i).parts = <<>>
  BY DEF NewCall
<1>7. grown = [index |-> i, id |-> IF "id" \in p.gives THEN n ELSE call.id,
               names |-> names, parts |-> parts]
  BY DEF WithPiece, NewCall
<1> DEFINE Before(what) == IF anew THEN {} ELSE Counted(q, i, what)
<1>8. /\ old.names \in Seq(Nat) /\ old.parts \in Seq(Nat)
      /\ Lists(old.names, Before("name")) /\ Lists(old.parts, Before("part"))
  <2>1. CASE anew
    <3>1. Lists(<<>>, {}) /\ <<>> \in Seq(Nat)
      BY DEF Lists, ToSet
    <3>2. QED
      BY <1>6, <2>1, <3>1
  <2>2. CASE ~anew
    BY <1>4, <1>5, <2>2
  <2>3. QED
    BY <2>1, <2>2
<1>9. \A what : \A m \in Before(what) : m < n
  BY <1>3
<1>10. \A what : Counted(r, i, what) = Before(what) \cup (IF what \in p.gives THEN {n} ELSE {})
  BY <1>3
<1> HIDE DEF old, Before, anew, i, n, grown
<1>11. names \in Seq(Nat) /\ Lists(names, Counted(r, i, "name"))
  <2>1. ("name" \in p.gives) \in BOOLEAN
    OBVIOUS
  <2>2. /\ names \in Seq(Nat)
        /\ Lists(names, Before("name") \cup (IF "name" \in p.gives THEN {n} ELSE {}))
    BY <1>2, <1>8, <1>9, <2>1, ListsGrow
  <2>3. QED
    BY <1>10, <2>2
<1>12. parts \in Seq(Nat) /\ Lists(parts, Counted(r, i, "part"))
  <2>1. ("part" \in p.gives) \in BOOLEAN
    OBVIOUS
  <2>2. /\ parts \in Seq(Nat)
        /\ Lists(parts, Before("part") \cup (IF "part" \in p.gives THEN {n} ELSE {}))
    BY <1>2, <1>8, <1>9, <2>1, ListsGrow
  <2>3. QED
    BY <1>10, <2>2
<1> HIDE DEF names, parts
<1>13. /\ grown \in Call /\ grown.index = i /\ grown.names = names /\ grown.parts = parts
       /\ grown.id = IF "id" \in p.gives THEN n ELSE call.id
  BY <1>1, <1>2, <1>4, <1>7, <1>11, <1>12 DEF Call
<1>14. LatestId(r, i) = IF grown.id = 0 THEN {} ELSE {grown.id}
  BY <1>2, <1>3, <1>5, <1>13
<1>15. Tells(r, grown)
  BY <1>11, <1>12, <1>13, <1>14 DEF Tells
<1>16. QED
  BY <1>13, <1>15 DEF grown, i, n

(* What is said of other calls leaves a call alone. *)
LEMMA OthersTell ==
  ASSUME NEW q \in Seq(Pieces), NEW p \in Pieces, NEW r, Followed(q, p, r),
         NEW call \in Call, ~Meant(p, call.index), Tells(q, call)
  PROVE  Tells(r, call)
<1>1. call.index \in Nat
  BY DEF Call
<1>2. \A what : ~Gives(p, call.index, what)
  BY <1>1, HomeGives
<1>3. ASSUME NEW what PROVE Counted(r, call.index, what) = Counted(q, call.index, what)
  <2>1. Counted(r, call.index, what)
          = (IF port = "anthropic" /\ Gives(p, call.index, "id") THEN {}
             ELSE Counted(q, call.index, what))
              \cup (IF Gives(p, call.index, what) THEN {Len(r)} ELSE {})
    BY CountedGrows
  <2>2. QED
    BY <1>2, <2>1
<1>4. LatestId(r, call.index) = LatestId(q, call.index)
  BY <1>2, CountedGrows
<1>5. QED
  BY <1>3, <1>4 DEF Tells

(* So the calls tell what was said after one piece of one of them. *)
LEMMA PartTells ==
  ASSUME NEW q \in Seq(Pieces), NEW p \in Pieces, p.kind = "call", NEW r, Followed(q, p, r),
         NEW made \in Seq(Call), TellsAll(q, made)
  PROVE  LET more == WithPart(made, p, Len(r))
         IN more \in Seq(Call) /\ TellsAll(r, more)
<1> DEFINE i == Home(p)
           n == Len(r)
           known == Known(made, i)
<1>1. i \in Nat
  BY HomeGives
<1>2. known \in Seq(Call) /\ TellsAll(q, known)
  BY <1>1, KnownTells
<1>3. PICK k \in 1..Len(known) : known[k].index = i
  BY <1>1, KnownTells
<1>4. \A j \in 1..Len(known) : known[j].index = i => j = k
  BY <1>2, <1>3 DEF TellsAll, Distinct
<1>5. k = CHOOSE j \in 1..Len(known) : known[j].index = i
  BY <1>3, <1>4
<1> DEFINE grown == WithPiece(known[k], p, n)
           more == WithPart(made, p, n)
<1>6. more = [known EXCEPT ![k] = grown]
  BY <1>5 DEF WithPart, Known
<1>7. known[k] \in Call /\ Tells(q, known[k])
  BY <1>2, <1>3 DEF TellsAll
<1> HIDE DEF known, more
<1>8. grown \in Call /\ grown.index = i /\ Tells(r, grown)
  BY <1>3, <1>7, PieceTells
<1> HIDE DEF grown
<1>9. /\ more \in Seq(Call) /\ Len(more) = Len(known) /\ more[k] = grown
      /\ \A j \in 1..Len(known) : j # k => more[j] = known[j]
  BY <1>2, <1>3, <1>6, <1>8
<1>10. \A j \in 1..Len(known) : more[j].index = known[j].index
  BY <1>3, <1>8, <1>9
<1>11. Distinct(more)
  BY <1>2, <1>9, <1>10 DEF TellsAll, Distinct
<1>12. ASSUME NEW j \in 1..Len(more), j # k PROVE Tells(r, more[j])
  <2>1. more[j] = known[j] /\ Tells(q, known[j]) /\ known[j] \in Call
    BY <1>2, <1>9, <1>12 DEF TellsAll
  <2>2. ~Meant(p, known[j].index)
    BY <1>4, <1>9, <1>12 DEF Meant
  <2>3. QED
    BY <2>1, <2>2, OthersTell
<1>13. ASSUME NEW o \in Nat, ~Holds(more, o), NEW m \in 1..Len(r) PROVE ~Meant(r[m], o)
  <2>1. ~Holds(known, o) /\ o # i
    BY <1>3, <1>9, <1>10, <1>13 DEF Holds
  <2>2. CASE m \in 1..Len(q)
    <3>1. r[m] = q[m] /\ ~Meant(q[m], o)
      BY <1>2, <2>1, <2>2, Following DEF TellsAll
    <3>2. QED
      BY <3>1
  <2>3. CASE m = Len(r)
    <3>1. r[m] = p
      BY <2>3, Following
    <3>2. QED
      BY <2>1, <3>1 DEF Meant
  <2>4. QED
    BY <2>2, <2>3, Following
<1>14. TellsAll(r, more)
  BY <1>8, <1>9, <1>11, <1>12, <1>13 DEF TellsAll
<1>15. QED
  BY <1>9, <1>14 DEF more

(* The calls in the order of their indexes: with one call more, that one is put
   before the first with a larger index. *)
Sorting(made, n, s) ==
  /\ s \in [1..n -> ToSet(made)] /\ \A j \in 1..n : \E k \in 1..n : s[k] = made[j]
  /\ \A k \in 1..n : \E j \in 1..n : s[k] = made[j]
  /\ \A k \in 2..n : s[k - 1].index < s[k].index

LEMMA Inserted ==
  ASSUME NEW made \in Seq(Call), Distinct(made), NEW m \in 1..Len(made),
         NEW s, Sorting(made, m - 1, s)
  PROVE  \E t : Sorting(made, m, t)
<1> Len(made) \in Nat /\ m \in Nat /\ m - 1 \in Nat
  OBVIOUS
<1> USE StreamAssumption
<1> DEFINE x == made[m]
           L == {k \in 1..m : k = m \/ s[k].index > x.index}
<1>1. /\ \A j \in 1..Len(made) : made[j] \in ToSet(made)
      /\ \A j \in 1..Len(made) : made[j].index \in Nat
  <2>1. DOMAIN made = 1..Len(made) /\ \A j \in 1..Len(made) : made[j] \in Call
    OBVIOUS
  <2>2. QED
    BY <2>1 DEF Call, ToSet
<1>2. x \in ToSet(made) /\ x.index \in Nat
  BY <1>1
<1>3. ASSUME NEW k \in 1..m - 1
      PROVE  s[k] \in ToSet(made) /\ s[k].index \in Nat /\ s[k].index # x.index
  <2>1. PICK j \in 1..m - 1 : s[k] = made[j]
    BY DEF Sorting
  <2>2. j \in 1..Len(made) /\ j # m
    BY <2>1
  <2>3. QED
    BY <1>1, <2>1, <2>2 DEF Distinct
<1>4. m \in L
  OBVIOUS
<1>5. L \subseteq Nat
  OBVIOUS
<1> HIDE DEF L, x
<1>6. PICK p \in L : \A k \in L : p <= k
  BY <1>4, <1>5, Smallest
<1>7. /\ p \in 1..m /\ p \in Nat
      /\ p # m => s[p].index > x.index
      /\ \A k \in 1..m : k < p => ~(s[k].index > x.index)
  BY <1>6 DEF L
<1> DEFINE t == [k \in 1..m |-> IF k < p THEN s[k] ELSE IF k = p THEN x ELSE s[k - 1]]
<1>8. /\ \A k \in 1..m : k < p => k \in 1..m - 1 /\ t[k] = s[k]
      /\ t[p] = x
      /\ \A k \in 1..m : k > p => k - 1 \in 1..m - 1 /\ t[k] = s[k - 1]
      /\ \A k \in 1..m : k < p \/ k = p \/ k > p
  BY <1>7
<1>9. t \in [1..m -> ToSet(made)]
  BY <1>2, <1>3, <1>7, <1>8
<1> HIDE DEF t
<1>10. \A j \in 1..m : j \in 1..m - 1 \/ j = m
  OBVIOUS
<1>11. ASSUME NEW k \in 1..m PROVE \E j \in 1..m : t[k] = made[j]
  <2>1. CASE k = p
    BY <1>8, <2>1 DEF x
  <2>2. CASE k < p
    <3>1. PICK j \in 1..m - 1 : s[k] = made[j]
      BY <1>8, <2>2 DEF Sorting
    <3>2. QED
      BY <1>8, <2>2, <3>1
  <2>3. CASE k > p
    <3>1. PICK j \in 1..m - 1 : s[k - 1] = made[j]
      BY <1>8, <2>3 DEF Sorting
    <3>2. QED
      BY <1>8, <2>3, <3>1
  <2>4. QED
    BY <1>8, <2>1, <2>2, <2>3
<1>12. ASSUME NEW j \in 1..m PROVE \E k \in 1..m : t[k] = made[j]
  <2>1. CASE j = m
    BY <1>7, <1>8, <2>1 DEF x
  <2>2. CASE j \in 1..m - 1
    <3>1. PICK k \in 1..m - 1 : s[k] = made[j]
      BY <2>2 DEF Sorting
    <3>2. CASE k < p
      <4>1. k \in 1..m
        BY <3>1
      <4>2. QED
        BY <1>8, <3>1, <3>2, <4>1
    <3>3. CASE ~(k < p)
      <4>1. k + 1 \in 1..m /\ k + 1 > p /\ (k + 1) - 1 = k
        BY <1>7, <3>1, <3>3
      <4>2. QED
        BY <1>8, <3>1, <4>1
    <3>4. QED
      BY <3>2, <3>3
  <2>3. QED
    BY <1>10, <2>1, <2>2
<1>13. ASSUME NEW k \in 2..m PROVE t[k - 1].index < t[k].index
  <2>0. k \in 1..m /\ k - 1 \in 1..m /\ k - 1 \in 1..m - 1
    OBVIOUS
  <2>1. CASE k < p
    <3>1. k - 1 < p /\ k \in 2..m - 1
      BY <1>7, <2>1
    <3>2. t[k - 1] = s[k - 1] /\ t[k] = s[k]
      BY <1>8, <2>0, <2>1, <3>1
    <3>3. QED
      BY <3>1, <3>2 DEF Sorting
  <2>2. CASE k = p
    <3>1. k - 1 < p /\ ~(s[k - 1].index > x.index)
      BY <1>7, <2>0, <2>2
    <3>2. t[k - 1] = s[k - 1] /\ t[k] = x
      BY <1>8, <2>0, <2>2, <3>1
    <3>3. s[k - 1].index \in Nat /\ s[k - 1].index # x.index
      BY <1>3, <2>0
    <3>4. QED
      BY <1>2, <3>1, <3>2, <3>3
  <2>3. CASE k = p + 1
    <3>1. k > p /\ k - 1 = p /\ p # m
      BY <1>7, <2>3
    <3>2. t[k - 1] = x /\ t[k] = s[p] /\ p \in 1..m - 1
      BY <1>7, <1>8, <2>0, <3>1
    <3>3. QED
      BY <1>2, <1>3, <1>7, <3>1, <3>2
  <2>4. CASE k > p + 1
    <3>1. k > p /\ k - 1 > p /\ k - 1 \in 2..m - 1
      BY <1>7, <2>4
    <3>2. t[k - 1] = s[(k - 1) - 1] /\ t[k] = s[k - 1]
      BY <1>8, <2>0, <3>1
    <3>3. QED
      BY <3>1, <3>2 DEF Sorting
  <2>5. k < p \/ k = p \/ k = p + 1 \/ k > p + 1
    BY <1>7
  <2>6. QED
    BY <2>1, <2>2, <2>3, <2>4, <2>5
<1>14. QED
  BY <1>9, <1>11, <1>12, <1>13 DEF Sorting

LEMMA Sorts ==
  ASSUME NEW made \in Seq(Call), Distinct(made)
  PROVE  \E s : Sorting(made, Len(made), s)
<1> DEFINE Unsorted == {n \in 0..Len(made) : ~\E s : Sorting(made, n, s)}
<1>1. SUFFICES Unsorted = {}
  <2>1. Len(made) \in 0..Len(made)
    OBVIOUS
  <2>2. QED
    BY <2>1
<1>2. SUFFICES ASSUME Unsorted # {} PROVE FALSE
  OBVIOUS
<1>3. Unsorted \in SUBSET Nat
  OBVIOUS
<1>4. PICK m \in Unsorted : \A n \in Unsorted : m <= n
  BY <1>2, <1>3, Smallest
<1>5. m # 0
  <2>1. Sorting(made, 0, [k \in 1..0 |-> made[k]])
    BY DEF Sorting
  <2>2. QED
    BY <2>1
<1>6. m \in 1..Len(made) /\ m - 1 \in 0..Len(made) /\ m - 1 \notin Unsorted
  BY <1>4, <1>5
<1>7. PICK s : Sorting(made, m - 1, s)
  BY <1>6
<1>8. \E t : Sorting(made, m, t)
  BY <1>6, <1>7, Inserted
<1>9. QED
  BY <1>4, <1>8

LEMMA ByIndexSorts ==
  ASSUME NEW made \in Seq(Call), Distinct(made)
  PROVE  /\ ByIndex(made) \in Seq(Call) /\ Len(ByIndex(made)) = Len(made)
         /\ ToSet(ByIndex(made)) = ToSet(made)
         /\ \A k \in 2..Len(made) : ByIndex(made)[k - 1].index < ByIndex(made)[k].index
<1>1. PICK s : Sorting(made, Len(made), s)
  BY Sorts
<1>2. s \in [1..Len(made) -> ToSet(made)] /\ DOMAIN s = 1..Len(s) /\ Len(s) = Len(made)
      /\ DOMAIN made = 1..Len(made) /\ Len(made) \in Nat
  BY <1>1 DEF Sorting
<1>3. ToSet(s) = ToSet(made)
  BY <1>1, <1>2 DEF Sorting, ToSet
<1>4. \E t \in [1..Len(made) -> ToSet(made)] :
        /\ ToSet(t) = ToSet(made)
        /\ \A k \in 2..Len(made) : t[k - 1].index < t[k].index
  BY <1>1, <1>2, <1>3 DEF Sorting
<1> DEFINE sorted == ByIndex(made)
<1>5. /\ sorted \in [1..Len(made) -> ToSet(made)] /\ ToSet(sorted) = ToSet(made)
      /\ \A k \in 2..Len(made) : sorted[k - 1].index < sorted[k].index
  BY <1>4 DEF ByIndex
<1> HIDE DEF sorted
<1>6. ToSet(made) \subseteq Call
  BY DEF ToSet
<1>7. sorted \in Seq(Call) /\ Len(sorted) = Len(made)
  BY <1>2, <1>5, <1>6
<1>8. QED
  BY <1>5, <1>7 DEF sorted

(* What the calls tell does not depend on other pieces. *)
LEMMA TellsSame ==
  ASSUME NEW q \in Seq(Pieces), NEW p \in Pieces, p.kind # "call", NEW r, Followed(q, p, r),
         NEW made \in Seq(Call), TellsAll(q, made)
  PROVE  TellsAll(r, made)
<1>1. \A k \in 1..Len(made) : Tells(r, made[k])
  <2>1. TAKE k \in 1..Len(made)
  <2>2. made[k] \in Call /\ Tells(q, made[k]) /\ ~Meant(p, made[k].index)
    BY DEF TellsAll, Meant
  <2>3. QED
    BY <2>2, OthersTell
<1>2. ASSUME NEW i \in Nat, ~Holds(made, i), NEW n \in 1..Len(r) PROVE ~Meant(r[n], i)
  <2>1. CASE n \in 1..Len(q)
    <3>1. r[n] = q[n] /\ ~Meant(q[n], i)
      BY <1>2, <2>1, Following DEF TellsAll
    <3>2. QED
      BY <3>1
  <2>2. CASE n = Len(r)
    <3>1. r[n] = p
      BY <2>2, Following
    <3>2. QED
      BY <3>1 DEF Meant
  <2>3. QED
    BY <2>1, <2>2, Following
<1>3. QED
  BY <1>1, <1>2 DEF TellsAll

(* A piece that is received is gathered, but for a part of a block that has not
   begun, which ends the answer. *)
LEMMA ReceiveGathers == Gathering /\ Receive => Gathering'
<1> SUFFICES ASSUME Gathering, Receive PROVE Gathering'
  OBVIOUS
<1>1. PICK p \in Pieces :
        /\ said' = Append(said, p)
        /\ IF Stray(p)
             THEN phase' = "closing" /\ reply' = "protocol_error" /\ UNCHANGED got
             ELSE /\ got' = Gathered(p, Len(said'))
                  /\ phase' = IF p.kind = "text" THEN "yielded" ELSE "reading"
                  /\ UNCHANGED reply
  BY DEF Receive
<1>2. phase = "reading" /\ reply = "none" /\ port' = port
  BY DEF Receive, Gathering
<1>3. /\ said \in Seq(Pieces) /\ got \in Gatherings /\ Followed(said, p, said')
      /\ Len(said') \in Nat /\ said' \in Seq(Pieces)
  BY <1>1 DEF Gathering, Followed
<1>4. /\ \A kind : \A n \in Positions(said, kind) : n \in Nat /\ n < Len(said')
      /\ Positions(said', p.kind) = Positions(said, p.kind) \cup {Len(said')}
      /\ \A kind : kind # p.kind => Positions(said', kind) = Positions(said, kind)
  BY <1>3, PositionsGrow
<1>5. /\ Lists(got.text, Positions(said, "text"))
      /\ got.usage <=> Positions(said, "usage") # {}
      /\ got.finish <=> Positions(said, "finish") # {}
      /\ got.stop <=> Positions(said, "stop") # {}
      /\ TellsAll(said, got.calls)
  BY <1>2 DEF Gathering
<1>6. CASE Stray(p)
  BY <1>1, <1>3, <1>6 DEF Gathering, AnswersAreWhole
<1>7. CASE ~Stray(p)
  <2>1. /\ got' = Gathered(p, Len(said')) /\ phase' \in {"yielded", "reading"}
        /\ reply' = "none"
    BY <1>1, <1>2, <1>7
  <2> DEFINE Gathers(g) ==
               /\ g \in Gatherings
               /\ Lists(g.text, Positions(said', "text"))
               /\ g.usage <=> Positions(said', "usage") # {}
               /\ g.finish <=> Positions(said', "finish") # {}
               /\ g.stop <=> Positions(said', "stop") # {}
               /\ TellsAll(said', g.calls)
  <2>2. SUFFICES Gathers(got')
    <3> SUFFICES ASSUME Gathers(got') PROVE Gathering'
      OBVIOUS
    <3>1. ASSUME NEW i, NEW what PROVE Counted(said, i, what)' = Counted(said', i, what)
      BY <1>2 DEF Counted
    <3>2. ASSUME NEW call, Tells(said', call) PROVE Tells(said, call)'
      BY <3>1, <3>2 DEF Tells
    <3>3. TellsAll(said, got.calls)'
      BY <3>2 DEF TellsAll
    <3>4. reply' # "completed"
      BY <2>1
    <3>5. AnswersAreWhole'
      BY <3>4 DEF AnswersAreWhole
    <3>6. QED
      BY <1>2, <1>3, <2>1, <3>3, <3>4, <3>5 DEF Gathering
  <2>3. /\ got.text \in Seq(Nat) /\ got.calls \in Seq(Call)
        /\ got.usage \in BOOLEAN /\ got.finish \in BOOLEAN /\ got.stop \in BOOLEAN
    BY <1>3 DEF Gatherings
  <2>4. CASE p.kind = "call"
    <3> DEFINE more == WithPart(got.calls, p, Len(said'))
    <3>1. got' = [got EXCEPT !.calls = more]
      BY <2>1, <2>4 DEF Gathered
    <3>2. more \in Seq(Call) /\ TellsAll(said', more)
      BY <1>3, <1>5, <2>3, <2>4, PartTells
    <3>3. \A kind \in {"text", "usage", "finish", "stop"} :
            Positions(said', kind) = Positions(said, kind)
      BY <1>4, <2>4
    <3> HIDE DEF more
    <3>4. /\ got'.text = got.text /\ got'.usage = got.usage /\ got'.finish = got.finish
          /\ got'.stop = got.stop /\ got'.calls = more /\ got' \in Gatherings
      BY <1>3, <3>1, <3>2 DEF Gatherings
    <3>5. QED
      BY <1>5, <3>2, <3>3, <3>4
  <2>5. CASE p.kind \in {"text", "usage", "finish", "stop"}
    <3>1. p.kind # "call"
      BY <2>5
    <3>2. TellsAll(said', got.calls)
      BY <1>3, <1>5, <2>3, <3>1, TellsSame
    <3>3. \A kind \in {"text", "usage", "finish", "stop"} :
            Positions(said', kind)
              = IF kind = p.kind THEN Positions(said, kind) \cup {Len(said')}
                ELSE Positions(said, kind)
      BY <1>4
    <3>4. /\ Append(got.text, Len(said')) \in Seq(Nat)
          /\ Lists(Append(got.text, Len(said')), Positions(said, "text") \cup {Len(said')})
      BY <1>3, <1>4, <1>5, <2>3, ListsMore
    <3>5. CASE p.kind = "text"
      <4>1. got' = [got EXCEPT !.text = Append(got.text, Len(said'))]
        BY <2>1, <3>5 DEF Gathered
      <4>2. /\ got'.text = Append(got.text, Len(said')) /\ got'.usage = got.usage
            /\ got'.finish = got.finish /\ got'.stop = got.stop /\ got'.calls = got.calls
            /\ got' \in Gatherings
        BY <1>3, <3>4, <4>1 DEF Gatherings
      <4>3. QED
        BY <1>5, <3>2, <3>3, <3>4, <3>5, <4>2
    <3>6. CASE p.kind = "usage"
      <4>1. got' = [got EXCEPT !.usage = TRUE]
        BY <2>1, <3>6 DEF Gathered
      <4>2. /\ got'.text = got.text /\ got'.usage = TRUE
            /\ got'.finish = got.finish /\ got'.stop = got.stop /\ got'.calls = got.calls
            /\ got' \in Gatherings
        BY <1>3, <4>1 DEF Gatherings
      <4>3. QED
        BY <1>5, <3>2, <3>3, <3>6, <4>2
    <3>7. CASE p.kind = "finish"
      <4>1. got' = [got EXCEPT !.finish = TRUE]
        BY <2>1, <3>7 DEF Gathered
      <4>2. /\ got'.text = got.text /\ got'.usage = got.usage
            /\ got'.finish = TRUE /\ got'.stop = got.stop /\ got'.calls = got.calls
            /\ got' \in Gatherings
        BY <1>3, <4>1 DEF Gatherings
      <4>3. QED
        BY <1>5, <3>2, <3>3, <3>7, <4>2
    <3>8. CASE p.kind = "stop"
      <4>1. got' = [got EXCEPT !.stop = TRUE]
        BY <2>1, <3>8 DEF Gathered
      <4>2. /\ got'.text = got.text /\ got'.usage = got.usage
            /\ got'.finish = got.finish /\ got'.stop = TRUE /\ got'.calls = got.calls
            /\ got' \in Gatherings
        BY <1>3, <4>1 DEF Gatherings
      <4>3. QED
        BY <1>5, <3>2, <3>3, <3>8, <4>2
    <3>9. QED
      BY <2>5, <3>5, <3>6, <3>7, <3>8
  <2>6. QED
    BY <2>4, <2>5 DEF Pieces
<1>8. QED
  BY <1>6, <1>7

(* What was said and gathered stays so when nothing is said. *)
LEMMA NothingSaid ==
  ASSUME UNCHANGED <<port, got, said>>
  PROVE  /\ TellsAll(said, got.calls) => TellsAll(said, got.calls)'
         /\ AnswersAreWhole /\ UNCHANGED <<reply, answer>> => AnswersAreWhole'
<1>1. ASSUME NEW i, NEW what PROVE Counted(said, i, what)' = Counted(said, i, what)
  BY DEF Counted
<1>2. ASSUME NEW call, Tells(said, call) PROVE Tells(said, call)'
  BY <1>1, <1>2 DEF Tells
<1>3. ASSUME TellsAll(said, got.calls) PROVE TellsAll(said, got.calls)'
  BY <1>2, <1>3 DEF TellsAll
<1>4. ASSUME AnswersAreWhole, UNCHANGED <<reply, answer>> PROVE AnswersAreWhole'
  BY <1>1, <1>4 DEF AnswersAreWhole
<1>5. QED
  BY <1>3, <1>4

(* The answer is what was gathered, its calls in the order of their indexes. *)
LEMMA CloseCompletes == Gathering /\ CloseStream => Gathering'
<1> SUFFICES ASSUME Gathering, CloseStream PROVE Gathering'
  OBVIOUS
<1>1. phase = "closing" /\ phase' = "over" /\ port' = port /\ got' = got /\ said' = said
  BY DEF CloseStream
<1>2. CASE reply' # "completed"
  BY <1>1, <1>2 DEF Gathering, AnswersAreWhole
<1>3. CASE reply' = "completed"
  <2>1. /\ reply = "ended" /\ Whole(got)
        /\ \A k \in 1..Len(got.calls) : Completable(got.calls[k])
        /\ answer' = [text |-> got.text, calls |-> ByIndex(got.calls), usage |-> got.usage]
    BY <1>1, <1>3 DEF CloseStream, Gathering
  <2>2. /\ Lists(got.text, Positions(said, "text"))
        /\ got.usage <=> Positions(said, "usage") # {}
        /\ got.finish <=> Positions(said, "finish") # {}
        /\ got.stop <=> Positions(said, "stop") # {}
        /\ TellsAll(said, got.calls)
    BY <1>1, <2>1 DEF Gathering
  <2>3. got.calls \in Seq(Call)
    BY DEF Gathering, Gatherings
  <2> DEFINE sorted == ByIndex(got.calls)
  <2>4. /\ sorted \in Seq(Call) /\ Len(sorted) = Len(got.calls) /\ ToSet(sorted) = ToSet(got.calls)
        /\ \A k \in 2..Len(got.calls) : sorted[k - 1].index < sorted[k].index
    BY <2>2, <2>3, ByIndexSorts DEF TellsAll
  <2>5. answer'.text = got.text /\ answer'.calls = sorted /\ answer'.usage = got.usage
    BY <2>1
  <2> HIDE DEF sorted
  <2>6. /\ DOMAIN sorted = 1..Len(sorted) /\ DOMAIN got.calls = 1..Len(got.calls)
        /\ Len(sorted) \in Nat
    BY <2>3, <2>4
  <2>7. \A k \in 1..Len(sorted) : \E j \in 1..Len(got.calls) : sorted[k] = got.calls[j]
    BY <2>4, <2>6 DEF ToSet
  <2>8. ASSUME NEW k \in 1..Len(sorted)
        PROVE  /\ LatestId(said, sorted[k].index) = {sorted[k].id} /\ sorted[k].names # <<>>
               /\ Lists(sorted[k].names, Counted(said, sorted[k].index, "name"))
               /\ Lists(sorted[k].parts, Counted(said, sorted[k].index, "part"))
    <3>1. Completable(sorted[k]) /\ Tells(said, sorted[k])
      BY <2>1, <2>2, <2>7 DEF TellsAll
    <3>2. QED
      BY <3>1 DEF Completable, Tells
  <2>9. ASSUME NEW n \in Positions(said, "call")
        PROVE  \E k \in 1..Len(sorted) : sorted[k].index = Home(said[n])
    <3>1. n \in 1..Len(said) /\ said[n].kind = "call" /\ said[n] \in Pieces
      BY DEF Positions, Gathering
    <3>2. Home(said[n]) \in Nat /\ Meant(said[n], Home(said[n]))
      BY <3>1, HomeGives DEF Meant
    <3>3. Holds(got.calls, Home(said[n]))
      BY <2>2, <3>1, <3>2 DEF TellsAll
    <3>4. PICK j \in 1..Len(got.calls) : got.calls[j].index = Home(said[n])
      BY <3>3 DEF Holds
    <3>5. got.calls[j] \in ToSet(sorted)
      BY <2>4, <2>6 DEF ToSet
    <3>6. QED
      BY <2>6, <3>4, <3>5 DEF ToSet
  <2>10. \A k \in 1..Len(sorted) : k > 1 => sorted[k - 1].index < sorted[k].index
    BY <2>4, <2>6
  <2>11. /\ Positions(said, "finish") # {}
         /\ port = "anthropic" => Positions(said, "stop") # {}
    BY <2>1, <2>2 DEF Whole
  <2>12. AnswersAreWhole'
    <3>1. \A n \in Positions(said, "call") :
            \E k \in 1..Len(answer'.calls) :
              answer'.calls[k].index
                = IF said[n].index = NoIndex THEN said[n].place ELSE said[n].index
      BY <2>5, <2>9 DEF Home
    <3>2. \A k \in 1..Len(answer'.calls) :
            LET call == answer'.calls[k]
            IN /\ LatestId(said, call.index) = {call.id}
               /\ call.names # <<>>
               /\ Lists(call.names, Counted(said, call.index, "name"))
               /\ Lists(call.parts, Counted(said, call.index, "part"))
               /\ k > 1 => answer'.calls[k - 1].index < call.index
      BY <2>5, <2>8, <2>10
    <3>3. /\ Lists(answer'.text, Positions(said', "text"))
          /\ answer'.usage <=> Positions(said', "usage") # {}
          /\ Positions(said', "finish") # {}
          /\ port' = "anthropic" => Positions(said', "stop") # {}
      BY <1>1, <2>2, <2>5, <2>11
    <3>4. QED
      BY <1>1, <3>1, <3>2, <3>3 DEF AnswersAreWhole, Counted
  <2>13. QED
    BY <1>1, <1>3, <2>12 DEF Gathering
<1>4. QED
  BY <1>2, <1>3

(* Before anything is said nothing is gathered. *)
LEMMA EmptyGathers ==
  /\ Empty \in Gatherings /\ <<>> \in Seq(Pieces)
  /\ Lists(Empty.text, Positions(<<>>, "text"))
  /\ Empty.usage <=> Positions(<<>>, "usage") # {}
  /\ Empty.finish <=> Positions(<<>>, "finish") # {}
  /\ Empty.stop <=> Positions(<<>>, "stop") # {}
  /\ TellsAll(<<>>, Empty.calls)
  /\ Len(Empty.calls) = 0
<1>1. \A kind : Positions(<<>>, kind) = {}
  BY DEF Positions
<1>2. /\ Empty.text = <<>> /\ Empty.calls = <<>> /\ Empty.usage = FALSE
      /\ Empty.finish = FALSE /\ Empty.stop = FALSE
  BY DEF Empty
<1>3. Empty \in Gatherings
  BY DEF Empty, Gatherings
<1>4. Lists(<<>>, {}) /\ Len(<<>>) = 0
  BY DEF Lists, ToSet
<1>5. TellsAll(<<>>, <<>>)
  BY <1>1 DEF TellsAll, Distinct
<1>6. /\ Empty.usage <=> Positions(<<>>, "usage") # {}
      /\ Empty.finish <=> Positions(<<>>, "finish") # {}
      /\ Empty.stop <=> Positions(<<>>, "stop") # {}
  BY <1>1, <1>2
<1>7. Lists(Empty.text, Positions(<<>>, "text")) /\ TellsAll(<<>>, Empty.calls)
  BY <1>1, <1>2, <1>4, <1>5
<1>8. Len(Empty.calls) = 0 /\ <<>> \in Seq(Pieces)
  BY <1>2
<1>9. QED
  BY <1>3, <1>6, <1>7, <1>8

(* For every vendor, any number of pieces in any order, with an index or without,
   and whatever fails or is cancelled: a completion is what the provider said
   until it said it was done, its calls told apart by the index of a piece or,
   where it gives none, by its place in its chunk (OpenAIModelPort.stream, AnthropicModelPort.stream). *)
THEOREM AnswersAreWholeHolds == StreamSpec => []AnswersAreWhole
<1>1. StreamInit => Gathering
  BY EmptyGathers DEF StreamInit, Gathering, AnswersAreWhole
<1>2. Gathering /\ [StreamNext]_streamVars => Gathering'
  <2> SUFFICES ASSUME Gathering, [StreamNext]_streamVars PROVE Gathering'
    OBVIOUS
  <2>1. CASE Start \/ Shutdown \/ Halt \/ UNCHANGED streamVars
    <3>1. /\ UNCHANGED <<port, phase, got, reply, answer, said>>
      BY <2>1 DEF Start, Shutdown, Halt, streamVars
    <3>2. QED
      BY <3>1, NothingSaid DEF Gathering
  <2>2. CASE Translate \/ Connect \/ Opened \/ OpeningFails \/ ResumeOpened
    <3>1. /\ UNCHANGED <<port, got, said>> /\ got = Empty /\ said = <<>>
          /\ reply' \notin {"ended", "completed"}
          /\ phase' \notin {"closing", "over"} => reply' = "none"
      BY <2>2 DEF Translate, Connect, Opened, OpeningFails, ResumeOpened, Gathering
    <3>2. QED
      BY <3>1, NothingSaid, EmptyGathers DEF Gathering, AnswersAreWhole
  <2>3. CASE Receive
    BY <2>3, ReceiveGathers
  <2>4. CASE ReadingFails \/ Continue \/ Drained \/ CancelStream
    <3>1. /\ UNCHANGED <<port, got, said>>
          /\ phase' \in {"closing", "over", "reading"}
          /\ reply' # "completed" /\ (phase' = "reading" => reply' = "none")
          /\ phase' # "over" /\ reply' \in {"none", "ended"} => phase # "over" /\ reply = "none"
      BY <2>4 DEF ReadingFails, Continue, Drained, CancelStream, Gathering
    <3>2. QED
      BY <3>1, NothingSaid DEF Gathering, AnswersAreWhole
  <2>5. CASE CloseStream
    BY <2>5, CloseCompletes
  <2>6. QED
    BY <2>1, <2>2, <2>3, <2>4, <2>5 DEF StreamNext
<1>3. Gathering => AnswersAreWhole
  BY DEF Gathering
<1>4. QED
  BY <1>1, <1>2, <1>3, PTL DEF StreamSpec

(* The messages of a context, and those that Anthropic is sent. *)
Said == [role : {"user", "system", "assistant", "result"}, calls : Nat]
Made == [role : {"user", "assistant"}, text : BOOLEAN, results : Nat, calls : Nat]

(* Each call of a context has its result behind it, and each result a call
   before it. *)
CallsHaveResults(c) ==
  \A k \in 1..Len(c), i \in Nat :
    i \in 1..c[k].calls => k + i \in 1..Len(c) /\ c[k + i].role = "result"
ResultsHaveCalls(c) ==
  \A k \in 1..Len(c) :
    c[k].role = "result" => \E j \in 1..Len(c) : j < k /\ k - j <= c[j].calls
Paired(c) == CallsHaveResults(c) /\ ResultsHaveCalls(c)

LEMMA PairedBoth ==
  ASSUME NEW c \in Seq(Said), NEW e \in Seq(Said), Paired(c), Paired(e)
  PROVE  Paired(c \o e)
<1> DEFINE u == c \o e
<1>1. /\ Len(c) \in Nat /\ Len(e) \in Nat /\ u \in Seq(Said) /\ Len(u) = Len(c) + Len(e)
      /\ \A i \in 1..Len(c) : u[i] = c[i]
      /\ \A i \in 1..Len(e) : u[Len(c) + i] = e[i]
  OBVIOUS
<1> HIDE DEF u
<1>2. ASSUME NEW k \in 1..Len(u)
      PROVE  k \in 1..Len(c) \/ \E i \in 1..Len(e) : k = Len(c) + i
  <2>1. CASE k <= Len(c)
    BY <1>1, <2>1
  <2>2. CASE k > Len(c)
    <3>1. k - Len(c) \in 1..Len(e) /\ k = Len(c) + (k - Len(c))
      BY <1>1, <2>2
    <3>2. QED
      BY <3>1
  <2>3. k <= Len(c) \/ k > Len(c)
    BY <1>1
  <2>4. QED
    BY <2>1, <2>2, <2>3
<1>3. CallsHaveResults(u)
  <2>1. SUFFICES ASSUME NEW k \in 1..Len(u), NEW i \in Nat, i \in 1..u[k].calls
                 PROVE  k + i \in 1..Len(u) /\ u[k + i].role = "result"
    BY DEF CallsHaveResults
  <2>2. CASE k \in 1..Len(c)
    <3>1. k + i \in 1..Len(c) /\ c[k + i].role = "result"
      BY <1>1, <2>1, <2>2 DEF Paired, CallsHaveResults
    <3>2. k + i \in 1..Len(u)
      BY <1>1, <3>1
    <3>3. QED
      BY <1>1, <3>1, <3>2
  <2>3. ASSUME NEW j \in 1..Len(e), k = Len(c) + j
        PROVE  k + i \in 1..Len(u) /\ u[k + i].role = "result"
    <3>1. u[k] = e[j]
      BY <1>1, <2>3
    <3>2. j + i \in 1..Len(e) /\ e[j + i].role = "result"
      BY <2>1, <3>1 DEF Paired, CallsHaveResults
    <3>3. k + i = Len(c) + (j + i)
      BY <1>1, <2>3
    <3>4. k + i \in 1..Len(u)
      BY <1>1, <3>2, <3>3
    <3>5. QED
      BY <1>1, <3>2, <3>3, <3>4
  <2>4. QED
    BY <1>2, <2>2, <2>3
<1>4. ResultsHaveCalls(u)
  <2>1. SUFFICES ASSUME NEW k \in 1..Len(u), u[k].role = "result"
                 PROVE  \E j \in 1..Len(u) : j < k /\ k - j <= u[j].calls
    BY DEF ResultsHaveCalls
  <2>2. CASE k \in 1..Len(c)
    <3>1. PICK j \in 1..Len(c) : j < k /\ k - j <= c[j].calls
      BY <1>1, <2>1, <2>2 DEF Paired, ResultsHaveCalls
    <3>2. j \in 1..Len(u) /\ u[j] = c[j]
      BY <1>1
    <3>3. QED
      BY <3>1, <3>2
  <2>3. ASSUME NEW i \in 1..Len(e), k = Len(c) + i
        PROVE  \E j \in 1..Len(u) : j < k /\ k - j <= u[j].calls
    <3>1. u[k] = e[i]
      BY <1>1, <2>3
    <3>2. PICK j \in 1..Len(e) : j < i /\ i - j <= e[j].calls
      BY <2>1, <3>1 DEF Paired, ResultsHaveCalls
    <3>3. Len(c) + j \in 1..Len(u) /\ u[Len(c) + j] = e[j]
      BY <1>1
    <3>4. Len(c) + j < k /\ k - (Len(c) + j) = i - j
      BY <1>1, <2>3, <3>2
    <3>5. QED
      BY <3>2, <3>3, <3>4
  <2>4. QED
    BY <1>2, <2>2, <2>3
<1>5. QED
  BY <1>3, <1>4 DEF u, Paired

(* One exchange: a message without calls, or a message and its results. *)
Result == [role |-> "result", calls |-> 0]
Plain(e) == \E role \in {"user", "system"} : e = <<[role |-> role, calls |-> 0]>>
Exchanged(e, n) ==
  /\ e \in Seq(Said) /\ Len(e) = n + 1
  /\ e[1] = [role |-> "assistant", calls |-> n]
  /\ \A i \in 1..n : e[1 + i] = Result

LEMMA EachSegment ==
  ASSUME NEW e \in Segments
  PROVE  e \in Seq(Said) /\ (Plain(e) \/ \E n \in Nat : Exchanged(e, n))
<1>1. ASSUME NEW role \in {"user", "system"}, e = <<[role |-> role, calls |-> 0]>>
      PROVE  e \in Seq(Said) /\ Plain(e)
  <2>1. [role |-> role, calls |-> 0] \in Said
    BY DEF Said
  <2>2. <<[role |-> role, calls |-> 0]>> \in Seq(Said)
    BY <2>1
  <2>3. QED
    BY <1>1, <2>2 DEF Plain
<1>2. ASSUME NEW n \in Nat,
             e = <<[role |-> "assistant", calls |-> n]>> \o
                   [i \in 1..n |-> [role |-> "result", calls |-> 0]]
      PROVE  e \in Seq(Said) /\ Exchanged(e, n)
  <2> DEFINE a == [role |-> "assistant", calls |-> n]
             s == <<a>>
             t == [i \in 1..n |-> Result]
  <2>1. a \in Said /\ Result \in Said
    BY DEF Said, Result
  <2>2. s \in Seq(Said) /\ Len(s) = 1 /\ s[1] = a
    BY <2>1
  <2>3. t \in Seq(Said) /\ Len(t) = n /\ \A i \in 1..n : t[i] = Result
    BY <2>1
  <2>4. e = s \o t
    BY <1>2 DEF Result
  <2> HIDE DEF s, t
  <2>5. /\ e \in Seq(Said) /\ Len(e) = n + 1 /\ e[1] = s[1]
        /\ \A i \in 1..n : e[1 + i] = t[i]
    <3>1. s \in Seq(Said) /\ t \in Seq(Said)
      BY <2>2, <2>3
    <3>2. /\ Len(s \o t) = Len(s) + Len(t)
          /\ \A i \in 1..Len(s) : (s \o t)[i] = s[i]
          /\ \A i \in 1..Len(t) : (s \o t)[Len(s) + i] = t[i]
      BY ONLY <3>1
    <3>3. s \o t \in Seq(Said)
      BY <2>2, <2>3
    <3>4. QED
      BY <2>2, <2>3, <2>4, <3>2, <3>3
  <2>6. QED
    BY <2>2, <2>3, <2>5 DEF Exchanged
<1>3. QED
  <2>1. CASE \E role \in {"user", "system"} : e = <<[role |-> role, calls |-> 0]>>
    BY <1>1, <2>1
  <2>2. CASE e \in {<<[role |-> "assistant", calls |-> n]>> \o
                     [i \in 1..n |-> [role |-> "result", calls |-> 0]] : n \in 0..MaxAnswers}
    <3>1. PICK n \in 0..MaxAnswers : e = <<[role |-> "assistant", calls |-> n]>> \o
                                         [i \in 1..n |-> [role |-> "result", calls |-> 0]]
      BY <2>2
    <3>2. n \in Nat
      BY StreamAssumption
    <3>3. QED
      BY <1>2, <3>1, <3>2
  <2>3. QED
    BY <2>1, <2>2 DEF Segments

LEMMA SegmentIsPaired ==
  ASSUME NEW e \in Segments
  PROVE  Paired(e)
<1>1. CASE Plain(e)
  <2>1. PICK role \in {"user", "system"} : e = <<[role |-> role, calls |-> 0]>>
    BY <1>1 DEF Plain
  <2>2. Len(e) = 1 /\ e[1].role # "result" /\ e[1].calls = 0
    BY <2>1
  <2>3. \A k \in 1..Len(e) : k = 1
    BY <2>2
  <2>4. \A i \in Nat : i \notin 1..0
    OBVIOUS
  <2>5. QED
    BY <2>2, <2>3, <2>4 DEF Paired, CallsHaveResults, ResultsHaveCalls
<1>2. ASSUME NEW n \in Nat, Exchanged(e, n) PROVE Paired(e)
  <2>1. /\ Len(e) = n + 1 /\ e[1].calls = n /\ e[1].role # "result"
        /\ \A i \in 1..n : e[1 + i].role = "result" /\ e[1 + i].calls = 0
    BY <1>2 DEF Exchanged, Result
  <2>2. ASSUME NEW k \in 1..Len(e), k # 1
        PROVE  e[k].role = "result" /\ e[k].calls = 0 /\ k - 1 <= n
    <3>1. k - 1 \in 1..n /\ 1 + (k - 1) = k
      BY <2>1, <2>2
    <3>2. e[1 + (k - 1)].role = "result" /\ e[1 + (k - 1)].calls = 0
      BY <2>1, <3>1
    <3>3. QED
      BY <3>1, <3>2
  <2>3. \A i \in Nat : i \notin 1..0
    OBVIOUS
  <2>4. CallsHaveResults(e)
    <3>1. SUFFICES ASSUME NEW k \in 1..Len(e), NEW i \in Nat, i \in 1..e[k].calls
                   PROVE  k + i \in 1..Len(e) /\ e[k + i].role = "result"
      BY DEF CallsHaveResults
    <3>2. k = 1 /\ i \in 1..n
      BY <2>1, <2>2, <2>3, <3>1
    <3>3. k + i \in 1..Len(e) /\ k + i # 1
      BY <2>1, <3>2
    <3>4. QED
      BY <2>2, <3>3
  <2>5. ResultsHaveCalls(e)
    <3>1. SUFFICES ASSUME NEW k \in 1..Len(e), e[k].role = "result"
                   PROVE  \E j \in 1..Len(e) : j < k /\ k - j <= e[j].calls
      BY DEF ResultsHaveCalls
    <3>2. k # 1 /\ k - 1 <= e[1].calls
      BY <2>1, <2>2, <3>1
    <3>3. 1 \in 1..Len(e) /\ 1 < k
      BY <2>1, <3>2
    <3>4. QED
      BY <3>2, <3>3
  <2>6. QED
    BY <2>4, <2>5 DEF Paired
<1>3. QED
  BY <1>1, <1>2, EachSegment

(* h follows the messages e of a context: each makes of what was made before it
   what _request_messages does. *)
Follows(e, h) == \A i \in 1..Len(e) : h[i] = Translated(h[i - 1], e[i])

Yields(c, r) ==
  \E g \in [0..Len(c) -> Seq(Made)] : g[0] = <<>> /\ Follows(c, g) /\ g[Len(c)] = r

LEMMA YieldsTheRequest ==
  ASSUME NEW c \in Seq(Said), NEW r, Yields(c, r)
  PROVE  RequestMessages(c) = r
<1> DEFINE Next_(f) == [k \in 0..Len(c) |-> IF k = 0 THEN <<>> ELSE Translated(f[k - 1], c[k])]
<1>1. Len(c) \in Nat
  OBVIOUS
<1>2. PICK g \in [0..Len(c) -> Seq(Made)] : g[0] = <<>> /\ Follows(c, g) /\ g[Len(c)] = r
  BY DEF Yields
<1>3. g = Next_(g)
  <2>1. ASSUME NEW k \in 0..Len(c)
        PROVE  g[k] = IF k = 0 THEN <<>> ELSE Translated(g[k - 1], c[k])
    <3>1. CASE k = 0
      BY <1>2, <3>1
    <3>2. CASE k # 0
      <4>1. k \in 1..Len(c)
        BY <1>1, <3>2
      <4>2. QED
        BY <1>2, <3>2, <4>1 DEF Follows
    <3>3. QED
      BY <3>1, <3>2
  <2>2. QED
    BY <2>1
<1>4. \E f : f = Next_(f)
  BY <1>3
<1> DEFINE f == CHOOSE f : f = Next_(f)
<1>5. f = Next_(f)
  BY <1>4
<1>6. RequestMessages(c) = f[Len(c)]
  BY DEF RequestMessages
<1> HIDE DEF f
<1>7. \A k \in 0..Len(c) : f[k] = IF k = 0 THEN <<>> ELSE Translated(f[k - 1], c[k])
  BY <1>5
<1>8. ASSUME NEW n \in 0..Len(c), f[n] # g[n], \A j \in 0..Len(c) : f[j] # g[j] => n <= j
      PROVE  FALSE
  <2>1. n # 0
    BY <1>1, <1>2, <1>7, <1>8
  <2>2. n - 1 \in 0..Len(c) /\ ~(n <= n - 1) /\ n \in 1..Len(c)
    BY <1>1, <2>1
  <2>3. f[n - 1] = g[n - 1]
    BY <1>8, <2>2
  <2>4. g[n] = Translated(g[n - 1], c[n])
    BY <1>2, <2>2 DEF Follows
  <2>5. QED
    BY <1>7, <1>8, <2>1, <2>3, <2>4
<1>9. f[Len(c)] = g[Len(c)]
  <2> DEFINE wrong == {k \in 0..Len(c) : f[k] # g[k]}
  <2>1. wrong # {} => \E n \in wrong : \A j \in wrong : n <= j
    <3>1. wrong \in SUBSET Nat
      BY <1>1
    <3>2. QED
      BY <3>1, Smallest
  <2>2. wrong = {}
    BY <1>8, <2>1
  <2>3. Len(c) \in 0..Len(c)
    BY <1>1
  <2>4. QED
    BY <2>2, <2>3
<1>10. QED
  BY <1>2, <1>6, <1>9

(* One part of a context behind the other. *)
LEMMA YieldsBoth ==
  ASSUME NEW c \in Seq(Said), NEW r, Yields(c, r),
         NEW e \in Seq(Said), NEW h \in [0..Len(e) -> Seq(Made)], h[0] = r, Follows(e, h)
  PROVE  Yields(c \o e, h[Len(e)])
<1> DEFINE u == c \o e
<1>1. /\ Len(c) \in Nat /\ Len(e) \in Nat /\ u \in Seq(Said) /\ Len(u) = Len(c) + Len(e)
      /\ \A i \in 1..Len(c) : u[i] = c[i]
      /\ \A i \in 1..Len(e) : u[Len(c) + i] = e[i]
  OBVIOUS
<1>2. PICK g \in [0..Len(c) -> Seq(Made)] : g[0] = <<>> /\ Follows(c, g) /\ g[Len(c)] = r
  BY DEF Yields
<1> HIDE DEF u
<1> DEFINE k == [i \in 0..Len(u) |-> IF i <= Len(c) THEN g[i] ELSE h[i - Len(c)]]
<1>3. /\ \A i \in 0..Len(u) : i <= Len(c) => i \in 0..Len(c)
      /\ \A i \in 0..Len(u) : ~(i <= Len(c)) => i - Len(c) \in 0..Len(e)
  BY <1>1
<1>4. k \in [0..Len(u) -> Seq(Made)]
  <2>1. /\ \A i \in 0..Len(c) : g[i] \in Seq(Made)
        /\ \A i \in 0..Len(e) : h[i] \in Seq(Made)
    OBVIOUS
  <2>2. QED
    BY <1>3, <2>1
<1>5. k[0] = <<>>
  BY <1>1, <1>2
<1>6. \A j \in 0..Len(e) : k[Len(c) + j] = h[j]
  <2>1. SUFFICES ASSUME NEW j \in 0..Len(e) PROVE k[Len(c) + j] = h[j]
    OBVIOUS
  <2>2. Len(c) + j \in 0..Len(u) /\ (Len(c) + j) - Len(c) = j
    BY <1>1
  <2>3. CASE j = 0
    <3>1. Len(c) + j <= Len(c) /\ Len(c) + j = Len(c)
      BY <1>1, <2>3
    <3>2. k[Len(c) + j] = g[Len(c)]
      BY <2>2, <3>1
    <3>3. QED
      BY <1>2, <2>3, <3>2
  <2>4. CASE j # 0
    <3>1. ~(Len(c) + j <= Len(c))
      BY <1>1, <2>4
    <3>2. QED
      BY <2>2, <3>1
  <2>5. QED
    BY <2>3, <2>4
<1>7. ASSUME NEW i \in 1..Len(u) PROVE k[i] = Translated(k[i - 1], u[i])
  <2>1. CASE i <= Len(c)
    <3>1. /\ i \in 1..Len(c) /\ i - 1 <= Len(c)
          /\ i \in 0..Len(u) /\ i - 1 \in 0..Len(u)
      BY <1>1, <2>1
    <3>2. g[i] = Translated(g[i - 1], c[i])
      BY <1>2, <3>1 DEF Follows
    <3>3. k[i] = g[i] /\ k[i - 1] = g[i - 1] /\ u[i] = c[i]
      BY <1>1, <2>1, <3>1
    <3> HIDE DEF k
    <3>4. QED
      BY <3>2, <3>3
  <2>2. CASE i > Len(c)
    <3>1. PICK j \in 1..Len(e) : i = Len(c) + j
      <4>1. i - Len(c) \in 1..Len(e) /\ i = Len(c) + (i - Len(c))
        BY <1>1, <2>2
      <4>2. QED
        BY <4>1
    <3>2. j \in 0..Len(e) /\ j - 1 \in 0..Len(e) /\ i - 1 = Len(c) + (j - 1)
      BY <1>1, <3>1
    <3> HIDE DEF k
    <3>3. k[i] = h[j] /\ k[i - 1] = h[j - 1]
      BY <1>6, <3>1, <3>2
    <3>4. h[j] = Translated(h[j - 1], e[j]) /\ u[i] = e[j]
      BY <1>1, <3>1 DEF Follows
    <3>5. QED
      BY <3>3, <3>4
  <2> HIDE DEF k
  <2>3. i <= Len(c) \/ i > Len(c)
    BY <1>1
  <2>4. QED
    BY <2>1, <2>2, <2>3
<1>8. k[Len(u)] = h[Len(e)]
  <2>1. Len(e) \in 0..Len(e) /\ Len(u) = Len(c) + Len(e)
    BY <1>1
  <2> HIDE DEF k
  <2>2. QED
    BY <1>6, <2>1
<1> HIDE DEF k
<1>9. Yields(u, h[Len(e)])
  BY <1>4, <1>5, <1>7, <1>8 DEF Yields, Follows
<1>10. QED
  BY <1>9 DEF u

(* Each message that Anthropic is sent has its results in the next one. *)
Answered(r) ==
  \A k \in 1..Len(r) :
    /\ k < Len(r) => r[k].calls = r[k + 1].results
    /\ k = Len(r) => r[k].calls = 0
    /\ r[k].results > 0 => k > 1

LEMMA AppendOne ==
  ASSUME NEW A, NEW r \in Seq(A), NEW e \in A
  PROVE  /\ Append(r, e) \in Seq(A) /\ Len(Append(r, e)) = Len(r) + 1 /\ Len(r) \in Nat
         /\ \A k \in 1..Len(r) : Append(r, e)[k] = r[k]
         /\ Append(r, e)[Len(r) + 1] = e /\ Last(Append(r, e)) = e
<1>1. /\ Append(r, e) \in Seq(A) /\ Len(Append(r, e)) = Len(r) + 1 /\ Len(r) \in Nat
      /\ \A k \in 1..Len(r) : Append(r, e)[k] = r[k]
      /\ Append(r, e)[Len(r) + 1] = e
  OBVIOUS
<1>2. Last(Append(r, e)) = e
  BY <1>1 DEF Last
<1>3. QED
  BY <1>1, <1>2

LEMMA ReplaceLast ==
  ASSUME NEW A, NEW r \in Seq(A), NEW e \in A, NEW x
  PROVE  [Append(r, e) EXCEPT ![Len(r) + 1] = x] = Append(r, x)
<1> DEFINE n == Len(r) + 1
           s == Append(r, e)
           t == Append(r, x)
           u == [s EXCEPT ![n] = x]
<1>1. /\ t \in Seq(A \cup {x}) /\ Len(t) = n /\ t[n] = x
      /\ \A k \in 1..Len(r) : t[k] = r[k]
  OBVIOUS
<1>2. s \in Seq(A) /\ Len(s) = n /\ n \in Nat
  BY AppendOne
<1>3. \A k \in 1..n : k # n => k \in 1..Len(r)
  BY AppendOne
<1>4. \A k \in 1..n : k # n => s[k] = r[k]
  BY AppendOne, <1>3
<1> HIDE DEF t, s, n
<1>5. s \in [1..n -> A]
  BY <1>2
<1>6. /\ u \in [1..n -> A \cup {x}]
      /\ \A k \in 1..n : u[k] = IF k = n THEN x ELSE s[k]
  BY <1>5
<1> HIDE DEF u
<1>7. u \in Seq(A \cup {x}) /\ Len(u) = n
  BY <1>2, <1>6
<1>8. \A k \in 1..n : u[k] = t[k]
  BY <1>1, <1>3, <1>4, <1>6
<1>9. u = t
  BY <1>1, <1>7, <1>8, Alike
<1>10. QED
  BY <1>9 DEF u, s, t, n

LEMMA AnsweredPlain ==
  ASSUME NEW r \in Seq(Made), Answered(r), NEW e \in Made, e.calls = 0, e.results = 0
  PROVE  Answered(Append(r, e))
<1> DEFINE u == Append(r, e)
<1>1. /\ Len(u) = Len(r) + 1 /\ Len(r) \in Nat
      /\ \A k \in 1..Len(r) : u[k] = r[k]
      /\ u[Len(r) + 1] = e
  BY AppendOne
<1> HIDE DEF u
<1>2. ASSUME NEW k \in 1..Len(u)
      PROVE  /\ k < Len(u) => u[k].calls = u[k + 1].results
             /\ k = Len(u) => u[k].calls = 0
             /\ u[k].results > 0 => k > 1
  <2>1. CASE k = Len(r) + 1
    BY <1>1, <2>1
  <2>2. CASE k = Len(r)
    BY <1>1, <2>2 DEF Answered
  <2>3. CASE k < Len(r)
    <3>1. k \in 1..Len(r) /\ k + 1 \in 1..Len(r) /\ k # Len(u)
      BY <1>1, <2>3
    <3>2. r[k].calls = r[k + 1].results /\ (r[k].results > 0 => k > 1)
      BY <2>3, <3>1 DEF Answered
    <3>3. QED
      BY <1>1, <3>1, <3>2
  <2>4. QED
    BY <1>1, <2>1, <2>2, <2>3
<1>3. QED
  BY <1>2 DEF u, Answered

LEMMA AnsweredExchange ==
  ASSUME NEW r \in Seq(Made), Answered(r), NEW a \in Made, NEW b \in Made,
         a.results = 0, a.calls = b.results, b.calls = 0
  PROVE  Answered(Append(Append(r, a), b))
<1> DEFINE s == Append(r, a)
           u == Append(s, b)
<1>1. /\ s \in Seq(Made) /\ Len(s) = Len(r) + 1 /\ Len(r) \in Nat
      /\ \A k \in 1..Len(r) : s[k] = r[k]
      /\ s[Len(r) + 1] = a
  BY AppendOne
<1> HIDE DEF s
<1>2. /\ Len(u) = Len(s) + 1
      /\ \A k \in 1..Len(s) : u[k] = s[k]
      /\ u[Len(s) + 1] = b
  BY <1>1, AppendOne
<1> HIDE DEF u
<1>3. /\ Len(u) = Len(r) + 2 /\ u[Len(r) + 1] = a /\ u[Len(r) + 2] = b
      /\ \A k \in 1..Len(r) : u[k] = r[k]
  <2>1. Len(r) + 1 \in 1..Len(s) /\ Len(s) + 1 = Len(r) + 2
    BY <1>1
  <2>2. \A k \in 1..Len(r) : k \in 1..Len(s)
    BY <1>1
  <2>3. QED
    BY <1>1, <1>2, <2>1, <2>2
<1>4. ASSUME NEW k \in 1..Len(u)
      PROVE  /\ k < Len(u) => u[k].calls = u[k + 1].results
             /\ k = Len(u) => u[k].calls = 0
             /\ u[k].results > 0 => k > 1
  <2>1. CASE k = Len(r) + 2
    BY <1>1, <1>3, <2>1
  <2>2. CASE k = Len(r) + 1
    <3>1. k + 1 = Len(r) + 2 /\ k # Len(u)
      BY <1>1, <1>3, <2>2
    <3>2. u[k] = a /\ u[k + 1] = b
      BY <1>3, <2>2, <3>1
    <3>3. QED
      BY <3>1, <3>2
  <2>3. CASE k = Len(r)
    <3>1. k \in 1..Len(r) /\ k + 1 = Len(r) + 1 /\ k # Len(u)
      BY <1>1, <1>3, <2>3
    <3>2. u[k] = r[k] /\ u[k + 1] = a
      BY <1>3, <3>1
    <3>3. r[k].calls = 0 /\ (r[k].results > 0 => k > 1)
      BY <2>3, <3>1 DEF Answered
    <3>4. QED
      BY <3>1, <3>2, <3>3
  <2>4. CASE k < Len(r)
    <3>1. k \in 1..Len(r) /\ k + 1 \in 1..Len(r) /\ k # Len(u)
      BY <1>1, <1>3, <2>4
    <3>2. r[k].calls = r[k + 1].results /\ (r[k].results > 0 => k > 1)
      BY <2>4, <3>1 DEF Answered
    <3>3. QED
      BY <1>3, <3>1, <3>2
  <2>5. QED
    BY <1>1, <1>3, <2>1, <2>2, <2>3, <2>4
<1>5. QED
  BY <1>4 DEF u, s, Answered

(* What a user or a system message makes. *)
LEMMA PlainIsAnswered ==
  ASSUME NEW c \in Seq(Said), NEW r \in Seq(Made), Yields(c, r), Answered(r),
         NEW e \in Seq(Said), Plain(e)
  PROVE  \E q \in Seq(Made) : Yields(c \o e, q) /\ Answered(q)
<1>1. PICK role \in {"user", "system"} : e = <<[role |-> role, calls |-> 0]>>
  BY DEF Plain
<1> DEFINE m == [role |-> role, calls |-> 0]
           user == [role |-> "user", text |-> TRUE, results |-> 0, calls |-> 0]
           q == IF role = "system" THEN r ELSE Append(r, user)
           h == [i \in 0..1 |-> IF i = 0 THEN r ELSE q]
<1>2. Len(e) = 1 /\ e[1] = m
  BY <1>1
<1>3. Translated(r, m) = q
  <2>1. m.role = role /\ m.calls = 0
    OBVIOUS
  <2>2. CASE role = "system"
    BY <2>1, <2>2 DEF Translated
  <2>3. CASE role = "user"
    BY <2>1, <2>3 DEF Translated
  <2>4. QED
    BY <2>2, <2>3
<1>4. q \in Seq(Made) /\ Answered(q)
  <2>1. user \in Made /\ user.calls = 0 /\ user.results = 0
    BY DEF Made
  <2> HIDE DEF user
  <2>2. Append(r, user) \in Seq(Made) /\ Answered(Append(r, user))
    BY <2>1, AnsweredPlain
  <2>3. QED
    BY <2>2
<1> HIDE DEF m, q
<1>5. /\ h \in [0..Len(e) -> Seq(Made)] /\ h[0] = r /\ h[Len(e)] = q
      /\ \A i \in 1..Len(e) : h[i] = Translated(h[i - 1], e[i])
  BY <1>2, <1>3, <1>4
<1> HIDE DEF h
<1>6. Follows(e, h)
  BY <1>5 DEF Follows
<1>7. Yields(c \o e, h[Len(e)])
  BY <1>5, <1>6, YieldsBoth
<1>8. QED
  BY <1>4, <1>5, <1>7

(* A message of n calls, and the message with its first j results. *)
Asking(n) == [role |-> "assistant", text |-> TRUE, results |-> 0, calls |-> n]
Answering(j) == [role |-> "user", text |-> FALSE, results |-> j, calls |-> 0]

(* The first result after a message of calls is a message of its own, the next
   ones are added to it. *)
LEMMA TranslatedExchange ==
  ASSUME NEW r \in Seq(Made), NEW n \in Nat
  PROVE  /\ Translated(r, [role |-> "assistant", calls |-> n]) = Append(r, Asking(n))
         /\ Translated(Append(r, Asking(n)), Result)
              = Append(Append(r, Asking(n)), Answering(1))
         /\ \A j \in Nat : Translated(Append(r, Answering(j)), Result) = Append(r, Answering(j + 1))
<1>1. /\ \A i \in Nat : Asking(i) \in Made /\ Answering(i) \in Made
      /\ Asking(n).role = "assistant"
      /\ \A j \in Nat : /\ Answering(j).role = "user" /\ Answering(j).text = FALSE
                        /\ Answering(j).results = j /\ Answering(j).calls = 0
  BY DEF Asking, Answering, Made
<1>2. Translated(r, [role |-> "assistant", calls |-> n]) = Append(r, Asking(n))
  BY DEF Translated, Asking
<1>3. Translated(Append(r, Asking(n)), Result) = Append(Append(r, Asking(n)), Answering(1))
  <2>1. Last(Append(r, Asking(n))) = Asking(n)
    BY <1>1, AppendOne
  <2>2. ~CanAppend(Append(r, Asking(n)))
    BY <1>1, <2>1 DEF CanAppend
  <2>3. PICK s : s = Append(r, Asking(n))
    OBVIOUS
  <2>4. ~CanAppend(s) /\ Result.role = "result"
    BY <2>2, <2>3 DEF Result
  <2>5. Translated(s, Result) = Append(s, Answering(1))
    BY <2>4 DEF Translated, Answering
  <2>6. QED
    BY <2>3, <2>5
<1>4. ASSUME NEW j \in Nat
      PROVE  Translated(Append(r, Answering(j)), Result) = Append(r, Answering(j + 1))
  <2>1. PICK y : y = Answering(j)
    OBVIOUS
  <2>2. /\ y \in Made /\ y.role = "user" /\ y.text = FALSE /\ y.results = j /\ y.calls = 0
    BY <1>1, <2>1
  <2>3. PICK s : s = Append(r, y)
    OBVIOUS
  <2>4. /\ s \in Seq(Made) /\ Len(s) = Len(r) + 1 /\ Len(r) \in Nat
        /\ Last(s) = y /\ s[Len(r) + 1] = y
    BY <2>2, <2>3, AppendOne
  <2>5. CanAppend(s)
    BY <2>2, <2>4 DEF CanAppend
  <2>6. Result.role = "result"
    BY DEF Result
  <2>7. Translated(s, Result) = [s EXCEPT ![Len(s)].results = @ + 1]
    BY <2>5, <2>6 DEF Translated
  <2>8. [s EXCEPT ![Len(r) + 1].results = @ + 1]
          = [s EXCEPT ![Len(r) + 1] = [y EXCEPT !.results = j + 1]]
    BY <2>2, <2>4
  <2>9. [y EXCEPT !.results = j + 1] = Answering(j + 1)
    <3>1. PICK z : z = [y EXCEPT !.results = j + 1]
      OBVIOUS
    <3>2. z \in Made /\ z.role = "user" /\ z.text = FALSE /\ z.results = j + 1 /\ z.calls = 0
      BY <2>2, <3>1 DEF Made
    <3>3. PICK w : w = Answering(j + 1)
      OBVIOUS
    <3>4. w \in Made /\ w.role = "user" /\ w.text = FALSE /\ w.results = j + 1 /\ w.calls = 0
      BY <1>1, <3>3
    <3>5. z = w
      BY <3>2, <3>4 DEF Made
    <3>6. QED
      BY <3>1, <3>3, <3>5
  <2>10. PICK w : w = Answering(j + 1)
    OBVIOUS
  <2>11. [s EXCEPT ![Len(r) + 1] = w] = Append(r, w)
    BY <2>2, <2>3, ReplaceLast
  <2>12. QED
    BY <2>1, <2>3, <2>4, <2>7, <2>8, <2>9, <2>10, <2>11
<1>5. QED
  BY <1>2, <1>3, <1>4

LEMMA ExchangeIsAnswered ==
  ASSUME NEW c \in Seq(Said), NEW r \in Seq(Made), Yields(c, r), Answered(r),
         NEW e \in Seq(Said), NEW n \in Nat, Exchanged(e, n)
  PROVE  \E q \in Seq(Made) : Yields(c \o e, q) /\ Answered(q)
<1> DEFINE s == Append(r, Asking(n))
           h == [i \in 0..n + 1 |-> IF i = 0 THEN r
                                    ELSE IF i = 1 THEN s ELSE Append(s, Answering(i - 1))]
<1>1. /\ Len(e) = n + 1 /\ e[1] = [role |-> "assistant", calls |-> n]
      /\ \A i \in 1..n : e[1 + i] = Result
  BY DEF Exchanged
<1>2. \A i \in Nat : Asking(i) \in Made /\ Answering(i) \in Made
  BY DEF Asking, Answering, Made
<1>3. s \in Seq(Made) /\ \A i \in Nat : Append(s, Answering(i)) \in Seq(Made)
  <2>1. s \in Seq(Made)
    BY <1>2
  <2> HIDE DEF s
  <2>2. \A i \in Nat : Append(s, Answering(i)) \in Seq(Made)
    BY <1>2, <2>1
  <2>3. QED
    BY <2>1, <2>2
<1>4. /\ Translated(r, e[1]) = s
      /\ Translated(s, Result) = Append(s, Answering(1))
  BY <1>1, TranslatedExchange
<1> HIDE DEF s
<1>5. \A j \in Nat : Translated(Append(s, Answering(j)), Result) = Append(s, Answering(j + 1))
  BY <1>3, TranslatedExchange
<1>6. h \in [0..Len(e) -> Seq(Made)] /\ h[0] = r
  <2>1. \A i \in 0..n + 1 : i # 0 => i - 1 \in Nat
    OBVIOUS
  <2>2. 0 \in 0..n + 1
    OBVIOUS
  <2>3. QED
    BY <1>1, <1>3, <2>1, <2>2
<1>7. ASSUME NEW i \in 1..Len(e) PROVE h[i] = Translated(h[i - 1], e[i])
  <2>1. i \in 0..n + 1 /\ i - 1 \in 0..n + 1 /\ i # 0 /\ i \in Nat
    BY <1>1
  <2>2. CASE i = 1
    <3>1. h[i] = s /\ h[i - 1] = r
      BY <2>1, <2>2
    <3> HIDE DEF h
    <3>2. QED
      BY <1>4, <2>2, <3>1
  <2>3. CASE i = 2
    <3>1. h[i] = Append(s, Answering(1)) /\ h[i - 1] = s
      BY <2>1, <2>3
    <3>2. 1 \in 1..n /\ 1 + 1 = i
      BY <1>1, <2>3
    <3>3. e[i] = Result
      BY <1>1, <3>2
    <3> HIDE DEF h
    <3>4. QED
      BY <1>4, <3>1, <3>3
  <2>4. CASE i > 2
    <3>1. i - 1 \in 1..n /\ 1 + (i - 1) = i
      BY <1>1, <2>4
    <3>2. e[i] = Result
      BY <1>1, <3>1
    <3>3. i - 1 # 0 /\ i - 1 # 1 /\ i # 1 /\ (i - 1) - 1 = i - 2 /\ i - 2 \in Nat
            /\ (i - 2) + 1 = i - 1
      BY <2>4
    <3>4. h[i] = Append(s, Answering(i - 1)) /\ h[i - 1] = Append(s, Answering(i - 2))
      BY <2>1, <3>3
    <3> HIDE DEF h
    <3>5. Translated(Append(s, Answering(i - 2)), Result) = Append(s, Answering((i - 2) + 1))
      BY <1>5, <3>3
    <3>6. QED
      BY <3>2, <3>3, <3>4, <3>5
  <2>5. i = 1 \/ i = 2 \/ i > 2
    BY <2>1
  <2> HIDE DEF h
  <2>6. QED
    BY <2>2, <2>3, <2>4, <2>5
<1>8. h[Len(e)] = IF n = 0 THEN s ELSE Append(s, Answering(n))
  <2>1. n + 1 \in 0..n + 1 /\ n + 1 # 0 /\ (n + 1 = 1 <=> n = 0) /\ (n + 1) - 1 = n
    OBVIOUS
  <2>2. QED
    BY <1>1, <2>1
<1> HIDE DEF h
<1>9. Follows(e, h)
  BY <1>7 DEF Follows
<1>10. Yields(c \o e, h[Len(e)])
  BY <1>6, <1>9, YieldsBoth
<1>11. h[Len(e)] \in Seq(Made) /\ Answered(h[Len(e)])
  <2>1. Asking(n).calls = n /\ Asking(n).results = 0
          /\ Answering(n).calls = 0 /\ Answering(n).results = n
    BY DEF Asking, Answering
  <2>2. CASE n = 0
    <3>1. Answered(s)
      BY <1>2, <2>1, <2>2, AnsweredPlain DEF s
    <3>2. QED
      BY <1>3, <1>8, <2>2, <3>1
  <2>3. CASE n # 0
    <3>1. Answered(Append(Append(r, Asking(n)), Answering(n)))
      BY <1>2, <2>1, AnsweredExchange
    <3>2. Answered(Append(s, Answering(n)))
      BY <3>1 DEF s
    <3>3. QED
      BY <1>3, <1>8, <2>3, <3>2
  <2>4. QED
    BY <2>2, <2>3
<1>12. QED
  BY <1>10, <1>11

(* A context of whole exchanges, however many. *)
Answerable(c) == Paired(c) /\ \E r \in Seq(Made) : Yields(c, r) /\ Answered(r)

LEMMA AnswerableBoth ==
  ASSUME NEW c \in Seq(Said), Answerable(c), NEW e \in Segments
  PROVE  Answerable(c \o e)
<1>1. e \in Seq(Said) /\ Paired(e) /\ (Plain(e) \/ \E n \in Nat : Exchanged(e, n))
  BY EachSegment, SegmentIsPaired
<1>2. Paired(c \o e)
  BY <1>1, PairedBoth DEF Answerable
<1>3. PICK r \in Seq(Made) : Yields(c, r) /\ Answered(r)
  BY DEF Answerable
<1>4. \E q \in Seq(Made) : Yields(c \o e, q) /\ Answered(q)
  <2>1. CASE Plain(e)
    BY <1>1, <1>3, <2>1, PlainIsAnswered
  <2>2. ASSUME NEW n \in Nat, Exchanged(e, n)
        PROVE  \E q \in Seq(Made) : Yields(c \o e, q) /\ Answered(q)
    BY <1>1, <1>3, <2>2, ExchangeIsAnswered
  <2>3. QED
    BY <1>1, <2>1, <2>2
<1>5. QED
  BY <1>2, <1>4 DEF Answerable

LEMMA NothingIsAnswerable == Answerable(<<>>)
<1>1. Len(<<>>) = 0 /\ <<>> \in Seq(Made) /\ \A k \in 1..0 : FALSE
  OBVIOUS
<1>2. Paired(<<>>) /\ Answered(<<>>)
  BY <1>1 DEF Paired, CallsHaveResults, ResultsHaveCalls, Answered
<1> DEFINE g == [i \in 0..0 |-> <<>>]
<1>3. g \in [0..0 -> Seq(Made)] /\ g[0] = <<>>
  OBVIOUS
<1> HIDE DEF g
<1>4. Follows(<<>>, g)
  BY <1>1 DEF Follows
<1>5. Yields(<<>>, <<>>)
  BY <1>1, <1>3, <1>4 DEF Yields
<1>6. QED
  BY <1>1, <1>2, <1>5 DEF Answerable

LEMMA ContextsAreAnswerable ==
  ASSUME NEW c \in Contexts
  PROVE  c \in Seq(Said) /\ Answerable(c)
<1>1. PICK s \in SeqOf(Segments, MaxSegments) : c = FlattenSeq(s)
  BY DEF Contexts
<1>2. PICK m \in 0..MaxSegments : s \in [1..m -> Segments]
  BY DEF SeqOf
<1>3. m \in Nat /\ Len(s) = m /\ s \in Seq(Seq(Said)) /\ \A i \in 1..m : s[i] \in Segments
  <2>1. m \in Nat /\ \A i \in 1..m : s[i] \in Segments
    BY <1>2, StreamAssumption
  <2>2. \A i \in 1..m : s[i] \in Seq(Said)
    BY <2>1, EachSegment
  <2>3. s \in [1..m -> Seq(Said)]
    BY <1>2, <2>2
  <2>4. QED
    BY <2>1, <2>3
<1>4. PICK g \in [0..m -> Seq(Said)] : Flattens(s, g)
  BY <1>3, FlattensSome
<1>5. g[0] = <<>> /\ \A i \in 1..m : g[i] = g[i - 1] \o s[i]
  BY <1>3, <1>4 DEF Flattens
<1>6. c = g[m]
  BY <1>1, <1>3, <1>4, FlattensOnce
<1>7. ASSUME NEW n \in 1..m, Answerable(g[n - 1]) PROVE Answerable(g[n])
  <2>1. n - 1 \in 0..m
    BY <1>3
  <2>2. g[n - 1] \in Seq(Said) /\ s[n] \in Segments
    BY <1>3, <1>4, <2>1
  <2>3. Answerable(g[n - 1] \o s[n])
    BY <1>7, <2>2, AnswerableBoth
  <2>4. g[n] = g[n - 1] \o s[n]
    BY <1>5
  <2>5. QED
    BY <2>3, <2>4
<1> DEFINE wrong == {n \in 0..m : ~Answerable(g[n])}
<1>8. wrong = {}
  <2>1. SUFFICES ASSUME wrong # {} PROVE FALSE
    OBVIOUS
  <2>2. wrong \in SUBSET Nat
    BY <1>3
  <2>3. PICK n \in wrong : \A j \in wrong : n <= j
    BY <2>1, <2>2, Smallest
  <2>4. n # 0
    BY <1>5, <2>3, NothingIsAnswerable
  <2>5. n \in 1..m /\ n - 1 \in 0..m /\ ~(n <= n - 1)
    BY <1>3, <2>3, <2>4
  <2>6. Answerable(g[n - 1])
    BY <2>3, <2>5
  <2>7. QED
    BY <1>7, <2>3, <2>5, <2>6
<1>9. m \in 0..m
  BY <1>3
<1>10. QED
  BY <1>4, <1>6, <1>8, <1>9

(* For any number of exchanges and of calls of a message: Anthropic gets all the
   results of a message in the next one and OpenAI each in a message of its own,
   and no result stands anywhere else (_request_messages and _can_append_tool_result
   of anthropic_port.py, _message_to_openai). *)
THEOREM ResultsFollowTheirCallsHolds == StreamSpec => []ResultsFollowTheirCalls
<1>1. StreamInit => ResultsFollowTheirCalls
  BY DEF StreamInit, ResultsFollowTheirCalls
<1>2. ResultsFollowTheirCalls /\ [StreamNext]_streamVars => ResultsFollowTheirCalls'
  <2>1. SUFFICES ASSUME ResultsFollowTheirCalls, [StreamNext]_streamVars, phase' = "translated"
                 PROVE  ResultsFollowTheirCalls'
    BY DEF ResultsFollowTheirCalls
  <2>2. CASE Translate
    <3>1. context' \in Seq(Said) /\ Answerable(context')
      BY <2>2, ContextsAreAnswerable DEF Translate
    <3>2. PICK c : c = context'
      OBVIOUS
    <3>3. PICK q : q = request'
      OBVIOUS
    <3>4. c \in Seq(Said) /\ Answerable(c) /\ Len(c) \in Nat
      BY <3>1, <3>2
    <3>5. CASE port = "anthropic"
      <4>1. q = RequestMessages(c)
        BY <2>2, <3>2, <3>3, <3>5 DEF Translate
      <4>2. PICK r \in Seq(Made) : Yields(c, r) /\ Answered(r)
        BY <3>4 DEF Answerable
      <4>3. q = r
        BY <3>4, <4>1, <4>2, YieldsTheRequest
      <4>4. ASSUME NEW k \in 1..Len(q)
            PROVE  /\ q[k].calls = IF k + 1 \in 1..Len(q) THEN q[k + 1].results ELSE 0
                   /\ q[k].results > 0 => k > 1
        <5>1. Len(q) \in Nat
          BY <4>2, <4>3
        <5>2. /\ k < Len(q) => q[k].calls = q[k + 1].results
              /\ k = Len(q) => q[k].calls = 0
              /\ q[k].results > 0 => k > 1
          BY <4>2, <4>3 DEF Answered
        <5>3. CASE k < Len(q)
          <6>1. k + 1 \in 1..Len(q)
            BY <5>1, <5>3
          <6>2. QED
            BY <5>2, <5>3, <6>1
        <5>4. CASE k = Len(q)
          <6>1. k + 1 \notin 1..Len(q)
            BY <5>1, <5>4
          <6>2. QED
            BY <5>2, <5>4, <6>1
        <5>5. QED
          BY <5>1, <5>3, <5>4
      <4>5. port' = "anthropic" /\ request' = q
        BY <2>2, <3>3, <3>5 DEF Translate
      <4>6. QED
        BY <4>4, <4>5 DEF ResultsFollowTheirCalls
    <3>6. CASE port # "anthropic"
      <4>1. q = [k \in DOMAIN c |-> MessageToOpenAI(c[k])] /\ DOMAIN c = 1..Len(c)
        BY <2>2, <3>2, <3>3, <3>4, <3>6 DEF Translate
      <4>2. Len(q) = Len(c) /\ \A k \in 1..Len(c) : q[k] = MessageToOpenAI(c[k])
        BY <3>4, <4>1
      <4>3. ASSUME NEW k \in 1..Len(c)
            PROVE  /\ q[k].calls = c[k].calls
                   /\ q[k].results = IF c[k].role = "result" THEN 1 ELSE 0
        <5>1. q[k] = MessageToOpenAI(c[k])
          BY <4>2
        <5>2. \A m : /\ MessageToOpenAI(m).calls = m.calls
                     /\ MessageToOpenAI(m).results = IF m.role = "result" THEN 1 ELSE 0
          BY DEF MessageToOpenAI
        <5>3. QED
          BY <5>1, <5>2
      <4>4. ASSUME NEW k \in 1..Len(q), NEW i \in 1..q[k].calls
            PROVE  k + i \in 1..Len(q) /\ q[k + i].results = 1
        <5>1. k \in 1..Len(c) /\ i \in 1..c[k].calls /\ i \in Nat
          BY <3>4, <4>2, <4>3
        <5>2. k + i \in 1..Len(c) /\ c[k + i].role = "result"
          BY <3>4, <5>1 DEF Answerable, Paired, CallsHaveResults
        <5>3. QED
          BY <4>2, <4>3, <5>2
      <4>5. ASSUME NEW k \in 1..Len(q), q[k].results > 0
            PROVE  \E i \in 1..k - 1 : k - i <= q[i].calls
        <5>1. k \in 1..Len(c) /\ c[k].role = "result"
          BY <4>2, <4>3, <4>5
        <5>2. PICK j \in 1..Len(c) : j < k /\ k - j <= c[j].calls
          BY <3>4, <5>1 DEF Answerable, Paired, ResultsHaveCalls
        <5>3. j \in 1..k - 1 /\ q[j].calls = c[j].calls
          BY <3>4, <4>3, <5>2
        <5>4. QED
          BY <5>2, <5>3
      <4>6. port' # "anthropic" /\ request' = q
        BY <2>2, <3>3, <3>6 DEF Translate
      <4>7. QED
        BY <4>4, <4>5, <4>6 DEF ResultsFollowTheirCalls
    <3>7. QED
      BY <3>5, <3>6
  <2>3. CASE UNCHANGED <<phase, port, request>>
    BY <2>1, <2>3 DEF ResultsFollowTheirCalls
  <2>4. StreamNext /\ phase' = "translated" => Translate \/ UNCHANGED <<phase, port, request>>
    BY DEF StreamNext, Start, Shutdown, Connect, Opened, OpeningFails, ResumeOpened, Receive,
           ReadingFails, Continue, Drained, CancelStream, CloseStream, Halt
  <2>5. UNCHANGED streamVars => UNCHANGED <<phase, port, request>>
    BY DEF streamVars
  <2>6. QED
    BY <2>1, <2>2, <2>3, <2>4, <2>5
<1>3. QED
  BY <1>1, <1>2, PTL DEF StreamSpec

-----------------------------------------------------------------------------
(* ContextViews: for any skills, however their files are edited and whoever
   restarts the pipeline. *)

Messages == [kind : MessageKinds, id : Nat, names : SUBSET Skills]
Instructed == [kind : {"feedback", "steering"}, number : Nat]

(* What stands around the instructions of a skill in a view. *)
Conversing ==
  /\ conversation \in Seq(Messages) /\ pending \in Seq(Messages) /\ due \in Seq(Instructed)
  /\ given \in Nat /\ turn \in Nat
  /\ step \in {"idle", "turn", "skills", "compacting", "built"}
  /\ step = "idle" => turn = 0
  /\ step \in {"skills", "compacting", "built"} => turn > 0

(* The skill that the task of the Run selects, with the content in the cache. *)
Choice ==
  IF Named = {} THEN {}
  ELSE {[kind |-> "skill", skill |-> Selected, text |-> loaded[Selected]]}

(* The first view of the Run was built. *)
Begun == step = "built" \/ (step = "turn" /\ turn > 0) \/ (step # "idle" /\ turn > 1)

(* What was told of a skill is what the cache holds of it; a view shows the
   choice of the Run, which the first view made. *)
Choosing ==
  /\ DOMAIN loaded = Skills /\ DOMAIN told = Skills
  /\ \A s \in Skills : told[s] # <<>> => told[s] = loaded[s]
  /\ Begun => chosen = {e.skill : e \in Choice}
  /\ step = "built" =>
       ShownSkills(view) = Choice /\ (Named # {} => told[Selected] = loaded[Selected])

Sequence(s) == \E A : s \in Seq(A)

LEMMA Elements ==
  ASSUME NEW s, NEW t, Sequence(s), Sequence(t)
  PROVE  Sequence(s \o t) /\ ToSet(s \o t) = ToSet(s) \cup ToSet(t)
<1> DEFINE u == s \o t
<1>1. PICK A, B : s \in Seq(A) /\ t \in Seq(B)
  BY DEF Sequence
<1>2. /\ u \in Seq(A \cup B) /\ Len(u) = Len(s) + Len(t) /\ Len(s) \in Nat /\ Len(t) \in Nat
      /\ \A i \in 1..Len(s) : u[i] = s[i]
      /\ \A i \in 1..Len(t) : u[Len(s) + i] = t[i]
  BY <1>1, Concatenated
<1>3. /\ DOMAIN u = 1..Len(u) /\ DOMAIN s = 1..Len(s) /\ DOMAIN t = 1..Len(t)
  BY <1>1, <1>2
<1> HIDE DEF u
<1>4. ASSUME NEW i \in 1..Len(u) PROVE u[i] \in ToSet(s) \/ u[i] \in ToSet(t)
  <2>1. CASE i <= Len(s)
    <3>1. i \in DOMAIN s /\ u[i] = s[i]
      BY <1>2, <1>3, <2>1
    <3>2. QED
      BY <3>1 DEF ToSet
  <2>2. CASE i > Len(s)
    <3>1. i - Len(s) \in 1..Len(t) /\ Len(s) + (i - Len(s)) = i
      BY <1>2, <2>2
    <3>2. u[i] = t[i - Len(s)]
      BY <1>2, <3>1
    <3>3. QED
      BY <1>3, <3>1, <3>2 DEF ToSet
  <2>3. i <= Len(s) \/ i > Len(s)
    BY <1>2
  <2>4. QED
    BY <2>1, <2>2, <2>3
<1>5. \A i \in 1..Len(s) : i \in 1..Len(u)
  BY <1>2
<1>6. \A i \in 1..Len(t) : Len(s) + i \in 1..Len(u)
  BY <1>2
<1>7. ToSet(s) \subseteq ToSet(u)
  BY <1>2, <1>3, <1>5 DEF ToSet
<1>8. ToSet(t) \subseteq ToSet(u)
  BY <1>2, <1>3, <1>6 DEF ToSet
<1>9. ToSet(u) = ToSet(s) \cup ToSet(t)
  BY <1>3, <1>4, <1>7, <1>8 DEF ToSet
<1>10. QED
  BY <1>2, <1>9 DEF u, Sequence

(* A part of a view, and the skills it shows. *)
Listed(s, skills) == Sequence(s) /\ ShownSkills(s) = skills

(* The skills a view shows are those of its parts. *)
LEMMA ListedBoth ==
  ASSUME NEW s, NEW t, NEW x, NEW y, Listed(s, x), Listed(t, y)
  PROVE  Listed(s \o t, x \cup y)
<1>1. Sequence(s \o t) /\ ToSet(s \o t) = ToSet(s) \cup ToSet(t)
  BY Elements DEF Listed
<1>2. ShownSkills(s \o t) = ShownSkills(s) \cup ShownSkills(t)
  BY <1>1 DEF ShownSkills
<1>3. QED
  BY <1>1, <1>2 DEF Listed

(* Messages, instructions and the like are no skills. *)
LEMMA ListedNone ==
  ASSUME NEW A, \A e \in A : e.kind # "skill", NEW s \in Seq(A)
  PROVE  Listed(s, {})
BY DEF Listed, Sequence, ShownSkills, ToSet

LEMMA ListedOne ==
  ASSUME NEW e
  PROVE  /\ e.kind = "skill" => Listed(<<e>>, {e})
         /\ e.kind # "skill" => Listed(<<e>>, {})
         /\ Listed(<<>>, {})
<1>1. <<e>> \in Seq({e}) /\ ToSet(<<e>>) = {e} /\ <<>> \in Seq({e}) /\ ToSet(<<>>) = {}
  BY DEF ToSet
<1>2. QED
  BY <1>1 DEF Listed, Sequence, ShownSkills

LEMMA SelectedIsASkill == Named # {} => Selected \in Skills /\ catalog[Selected] # {}
<1>1. SUFFICES ASSUME Named # {} PROVE Selected \in Skills /\ catalog[Selected] # {}
  OBVIOUS
<1>2. Named \in SUBSET Nat
  BY DEF Named
<1>3. \E i \in Named : \A j \in Named : i <= j
  BY <1>1, <1>2, Smallest
<1>4. PICK i \in Named : Selected = SkillOrder[i]
  BY <1>3 DEF Selected
<1>5. SkillOrder \in Seq(Skills)
  BY ContextAssumption DEF Skills
<1>6. QED
  BY <1>4, <1>5 DEF Named

(* The task of a Run is its last user message: what else is written does not
   change it. *)
LEMMA SameTask ==
  ASSUME conversation \in Seq(Messages), pending \in Seq(Messages), UNCHANGED conversation,
         NEW more \in Seq(Messages), pending' = pending \o more,
         \A i \in 1..Len(more) : more[i].kind # "user"
  PROVE  Task' = Task
<1> DEFINE old == conversation \o pending
           new == conversation' \o pending'
           Users(messages) == {i \in 1..Len(messages) : messages[i].kind = "user"}
<1>1. /\ old \in Seq(Messages) /\ Len(old) \in Nat /\ Len(more) \in Nat
      /\ new = old \o more
  <2>1. old \in Seq(Messages)
    OBVIOUS
  <2>2. conversation \o (pending \o more) = (conversation \o pending) \o more
    BY Together
  <2>3. new = conversation \o (pending \o more)
    OBVIOUS
  <2>4. new = old \o more
    BY <2>2, <2>3
  <2> HIDE DEF old, new
  <2>5. QED
    BY <2>1, <2>4
<1> HIDE DEF old, new
<1>2. /\ Len(new) = Len(old) + Len(more)
      /\ \A i \in 1..Len(old) : new[i] = old[i]
      /\ \A i \in 1..Len(more) : new[Len(old) + i] = more[i]
  BY <1>1, Concatenated
<1>3. ASSUME NEW i \in 1..Len(new), new[i].kind = "user" PROVE i \in 1..Len(old)
  <2>1. CASE i > Len(old)
    <3>1. i - Len(old) \in 1..Len(more) /\ Len(old) + (i - Len(old)) = i
      BY <1>1, <1>2, <2>1
    <3>2. new[i] = more[i - Len(old)]
      BY <1>2, <3>1
    <3>3. QED
      BY <1>3, <3>1, <3>2
  <2>2. QED
    BY <1>1, <2>1
<1>4. \A i \in 1..Len(old) : i \in 1..Len(new)
  BY <1>1, <1>2
<1>5. Users(new) = Users(old)
  BY <1>2, <1>3, <1>4
<1> DEFINE last == CHOOSE i \in Users(old) : \A j \in Users(old) : j <= i
<1>6. Users(old) # {} => last \in 1..Len(old)
  <2>1. SUFFICES ASSUME Users(old) # {} PROVE last \in 1..Len(old)
    OBVIOUS
  <2>2. \E i \in Users(old) : \A j \in Users(old) : j <= i
    <3> DEFINE S == {Len(old) - i : i \in Users(old)}
    <3>1. S \in SUBSET Nat /\ S # {}
      BY <1>1, <2>1
    <3>2. PICK n \in S : \A m \in S : n <= m
      BY <3>1, Smallest
    <3>3. PICK i \in Users(old) : n = Len(old) - i
      BY <3>2
    <3>4. \A j \in Users(old) : Len(old) - i <= Len(old) - j
      BY <3>2, <3>3
    <3>5. \A j \in Users(old) : j <= i
      BY <1>1, <3>4
    <3>6. QED
      BY <3>5
  <2>3. last \in Users(old)
    BY <2>2
  <2>4. QED
    BY <2>3
<1>7. Task = IF Users(old) = {} THEN {} ELSE old[last].names
  BY DEF Task, old
<1>8. Task' = IF Users(new) = {} THEN {}
              ELSE new[CHOOSE i \in Users(new) : \A j \in Users(new) : j <= i].names
  BY DEF Task, new
<1>9. Users(old) # {} => new[last] = old[last]
  BY <1>2, <1>6
<1> HIDE DEF Users, last
<1>10. CASE Users(old) = {}
  BY <1>5, <1>7, <1>8, <1>10
<1>11. CASE Users(old) # {}
  BY <1>5, <1>7, <1>8, <1>9, <1>11 DEF last
<1>12. QED
  BY <1>10, <1>11

(* So does its choice of a skill stay. *)
LEMMA SameChoice ==
  ASSUME UNCHANGED <<catalog, loaded>>, Task' = Task
  PROVE  Named' = Named /\ Selected' = Selected /\ Choice' = Choice
<1>1. Named' = Named
  BY DEF Named
<1>2. Selected' = Selected
  BY <1>1 DEF Selected
<1>3. QED
  BY <1>1, <1>2 DEF Choice

LEMMA ConversingStep ==
  ASSUME Conversing, [ContextNext]_contextVars
  PROVE  Conversing'
<1> USE DEF Conversing
<1>1. /\ Len(conversation) \in Nat /\ Len(pending) \in Nat
      /\ \A kind \in MessageKinds, i \in Nat, names \in SUBSET Skills :
           Written(kind, i, names) \in Messages
  BY DEF Written, Messages
<1>2. Exchange \in Seq(Messages) /\ \A i \in 1..Len(Exchange) : Exchange[i].kind # "user"
  BY <1>1 DEF Exchange, MessageKinds, Written
<1>3. \A kind \in {"feedback", "steering"}, n \in Nat : Instructions(kind, n) \in Seq(Instructed)
  BY DEF Instructions, Instructed
<1>4. CASE Over /\ conversation' \in Seq(Messages)
  BY <1>4 DEF Over
<1>5. CASE StartContext \/ ShutdownContext \/ EditFile
  BY <1>5 DEF StartContext, ShutdownContext, EditFile, runVars
<1>6. CASE BeginRun
  <2>1. pending' \in Seq(Messages)
    <3>1. \A names \in SUBSET Skills : Written("user", 1, names) \in Messages
      BY <1>1 DEF MessageKinds
    <3>2. \A e \in Messages : <<e>> \in Seq(Messages)
      OBVIOUS
    <3>3. \/ \E names \in SUBSET Skills : pending' = <<Written("user", 1, names)>>
          \/ pending' = <<>>
      BY <1>6 DEF BeginRun
    <3>4. ASSUME NEW names \in SUBSET Skills, pending' = <<Written("user", 1, names)>>
          PROVE  pending' \in Seq(Messages)
      <4>1. PICK e : e = Written("user", 1, names)
        OBVIOUS
      <4>2. e \in Messages
        BY <3>1, <4>1
      <4>3. QED
        BY <3>4, <4>1, <4>2
    <3>5. CASE pending' = <<>>
      BY <3>5
    <3>6. QED
      BY <3>3, <3>4, <3>5
  <2>2. QED
    BY <1>6, <2>1 DEF BeginRun
<1>7. CASE BeginView
  <2>1. PICK n \in 0..MaxInputs : due' = due \o Instructions("steering", n) /\ given' = given + n
    BY <1>7 DEF BeginView
  <2>2. n \in Nat
    BY ContextAssumption
  <2>3. due' \in Seq(Instructed) /\ given' \in Nat
    BY <1>3, <2>1, <2>2
  <2>4. QED
    BY <1>7, <2>3 DEF BeginView
<1>8. CASE ReadPart
  BY <1>4, <1>8 DEF ReadPart
<1>9. CASE BuildIdentical \/ BuildCompacted
  <2>1. step \in {"skills", "compacting"} /\ \E base : Deliver(base)
    BY <1>9 DEF BuildIdentical, BuildCompacted, Ready
  <2>2. UNCHANGED <<conversation, turn, pending, given>> /\ step' = "built" /\ due' = <<>>
    BY <2>1 DEF Deliver
  <2>3. QED
    BY <2>1, <2>2
<1>10. CASE BeginCompaction
  BY <1>10 DEF BeginCompaction, Ready
<1>11. CASE AnswerWithTools
  <2>1. pending' \in Seq(Messages)
    BY <1>2, <1>11 DEF AnswerWithTools
  <2>2. due' \in Seq(Instructed) /\ given' \in Nat
    <3>1. Instructions("feedback", 1) \in Seq(Instructed)
      BY <1>3
    <3>2. \/ due' = <<>> /\ UNCHANGED given
          \/ due' = Instructions("feedback", 1) /\ given' = given + 1
      BY <1>11 DEF AnswerWithTools
    <3>3. CASE due' = <<>>
      BY <3>2, <3>3
    <3>4. CASE due' # <<>>
      BY <3>1, <3>2, <3>4
    <3>5. QED
      BY <3>3, <3>4
  <2>3. QED
    BY <1>11, <2>1, <2>2 DEF AnswerWithTools
<1>12. CASE AnswerRejected
  <2>1. due' \in Seq(Instructed) /\ given' \in Nat
    BY <1>3, <1>12 DEF AnswerRejected
  <2>2. QED
    BY <1>12, <2>1 DEF AnswerRejected
<1>13. CASE AnswerCommitted
  <2>1. conversation' \in Seq(Messages)
    <3>1. \A e \in Seq(Messages) : conversation \o pending \o e \in Seq(Messages)
      OBVIOUS
    <3>2. Written("assistant", 1, {}) \in Messages
      BY <1>1 DEF MessageKinds
    <3>3. <<Written("assistant", 1, {})>> \in Seq(Messages)
      BY <3>2
    <3>4. PICK e \in {Exchange, <<Written("assistant", 1, {})>>} :
            conversation' = conversation \o pending \o e
      BY <1>13 DEF AnswerCommitted
    <3>5. QED
      BY <1>2, <3>1, <3>3, <3>4
  <2>2. QED
    BY <1>4, <1>13, <2>1 DEF AnswerCommitted
<1>14. CASE RunFails
  BY <1>4, <1>14 DEF RunFails
<1>15. CASE UNCHANGED contextVars
  BY <1>15 DEF contextVars, runVars
<1>16. QED
  BY <1>5, <1>6, <1>7, <1>8, <1>9, <1>10, <1>11, <1>12, <1>13, <1>14, <1>15 DEF ContextNext

LEMMA Halves ==
  ASSUME NEW A, NEW c \in Seq(A), NEW n \in 0..Len(c)
  PROVE  SubSeq(c, 1, n) \o SubSeq(c, n + 1, Len(c)) = c
<1> DEFINE s == SubSeq(c, 1, n)
           t == SubSeq(c, n + 1, Len(c))
<1>1. Len(c) \in Nat /\ n \in Nat /\ n <= Len(c)
  OBVIOUS
<1>2. s \in Seq(A) /\ Len(s) = n /\ \A i \in 1..n : s[i] = c[i]
  BY <1>1
<1>3. t \in Seq(A) /\ Len(t) = Len(c) - n /\ \A i \in 1..Len(c) - n : t[i] = c[n + i]
  <2>1. CASE n = Len(c)
    BY <1>1, <2>1
  <2>2. CASE n < Len(c)
    BY <1>1, <2>2
  <2>3. QED
    BY <1>1, <2>1, <2>2
<1> HIDE DEF s, t
<1>4. s \o t \in Seq(A) /\ Len(s \o t) = Len(c)
  BY <1>1, <1>2, <1>3
<1>5. ASSUME NEW i \in 1..Len(c) PROVE (s \o t)[i] = c[i]
  <2>1. CASE i <= n
    BY <1>1, <1>2, <1>3, <2>1
  <2>2. CASE i > n
    <3>1. i - n \in 1..Len(c) - n /\ n + (i - n) = i
      BY <1>1, <2>2
    <3>2. (s \o t)[i] = t[i - n]
      BY <1>1, <1>2, <1>3, <2>2
    <3>3. QED
      BY <1>3, <3>1, <3>2
  <2>3. i <= n \/ i > n
    BY <1>1
  <2>4. QED
    BY <2>1, <2>2, <2>3
<1>6. s \o t = c
  BY <1>4, <1>5, Alike
<1>7. QED
  BY <1>6 DEF s, t

(* The leading system messages, and what a summary stands for. *)
LEMMA SystemSplit ==
  ASSUME Conversing
  PROVE  /\ SubSeq(conversation, 1, SystemEnd) \in Seq(Messages) /\ History \in Seq(Messages)
         /\ SubSeq(conversation, 1, SystemEnd) \o History = conversation
         /\ History # <<>> =>
              \E i \in 1..Len(conversation) : conversation[i].kind # "system"
<1> DEFINE other == {i \in 1..Len(conversation) : conversation[i].kind # "system"}
<1>1. Len(conversation) \in Nat /\ conversation \in Seq(Messages)
  BY DEF Conversing
<1>2. SystemEnd \in 0..Len(conversation) /\ (other = {} => SystemEnd = Len(conversation))
  <2>1. CASE other = {}
    BY <1>1, <2>1 DEF SystemEnd
  <2>2. CASE other # {}
    <3>1. other \in SUBSET Nat
      BY <1>1
    <3>2. (CHOOSE i \in other : \A j \in other : i <= j) \in other
      BY <2>2, <3>1, Smallest
    <3>3. SystemEnd = (CHOOSE i \in other : \A j \in other : i <= j) - 1
      BY <2>2 DEF SystemEnd
    <3>4. PICK i \in other : SystemEnd = i - 1
      BY <3>2, <3>3
    <3>5. SystemEnd \in 0..Len(conversation)
      BY <1>1, <3>4
    <3> HIDE DEF other
    <3>6. QED
      BY <2>2, <3>5
  <2> HIDE DEF other
  <2>3. QED
    BY <2>1, <2>2
<1>3. SubSeq(conversation, 1, SystemEnd) \in Seq(Messages) /\ History \in Seq(Messages)
  BY <1>1, <1>2 DEF History
<1>4. SubSeq(conversation, 1, SystemEnd) \o History = conversation
  BY <1>1, <1>2, Halves DEF History
<1>5. other = {} => History = <<>>
  BY <1>1, <1>2 DEF History
<1>6. QED
  BY <1>3, <1>4, <1>5

(* Of all that is put together to a view only the choice of the Run is a skill. *)
LEMMA DeliverShows ==
  ASSUME Conversing, NEW base, base = Identical \/ base = Compacted, Deliver(base)
  PROVE  ShownSkills(view') = Choice
<1> DEFINE Content == [kind |-> "skill", skill |-> Selected, text |-> loaded[Selected]]
           Summary == [kind |-> "summary", of |-> History]
           Track == [kind |-> "trajectory"]
           Plan == [kind |-> "plan", version |-> plan_version]
           system == SubSeq(conversation, 1, SystemEnd)
<1>1. /\ Listed(conversation, {}) /\ Listed(pending, {}) /\ Listed(system, {})
      /\ Listed(due, {})
  <2>1. \A e \in Messages \cup Instructed : e.kind # "skill"
    BY DEF Messages, Instructed, MessageKinds
  <2>2. system \in Seq(Messages)
    BY SystemSplit
  <2>3. QED
    BY <2>1, <2>2, ListedNone DEF Conversing
<1>2. Listed(Transient, Choice)
  <2> DEFINE Index == IF \E s \in Skills : catalog[s] # {} THEN <<[kind |-> "index"]>> ELSE <<>>
             Skill == IF Named = {} THEN <<>> ELSE <<Content>>
  <2>1. [kind |-> "index"].kind # "skill" /\ Content.kind = "skill"
    OBVIOUS
  <2>2. Listed(Index, {})
    BY <2>1, ListedOne
  <2>3. Listed(Skill, Choice)
    <3>1. CASE Named = {}
      <4>1. Choice = {} /\ Skill = <<>>
        BY <3>1 DEF Choice
      <4>2. QED
        BY <4>1, ListedOne
    <3>2. CASE Named # {}
      <4>1. Choice = {Content} /\ Skill = <<Content>>
        BY <3>2 DEF Choice
      <4>2. Listed(<<Content>>, {Content})
        BY <2>1, ListedOne
      <4>3. QED
        BY <4>1, <4>2
    <3>3. QED
      BY <3>1, <3>2
  <2>4. Transient = (Index \o Skill) \o due
    BY DEF Transient, SkillInstructions
  <2> HIDE DEF Index, Skill
  <2>5. Listed((Index \o Skill) \o due, ({} \cup Choice) \cup {})
    BY <1>1, <2>2, <2>3, ListedBoth
  <2>6. ({} \cup Choice) \cup {} = Choice
    OBVIOUS
  <2>7. QED
    BY <2>4, <2>5, <2>6
<1>3. Summary.kind # "skill" /\ Track.kind # "skill" /\ Plan.kind # "skill"
  OBVIOUS
<1>4. Listed(<<Summary>>, {}) /\ Listed(<<Track>>, {}) /\ Listed(<<Plan>>, {}) /\ Listed(<<>>, {})
  BY <1>3, ListedOne
<1>5. base = ((system \o <<Summary>>) \o pending) \o Transient
        \/ base = (conversation \o pending) \o Transient
  BY DEF Identical, Compacted
<1>6. view' = (base \o <<Track>>) \o <<>> \/ view' = (base \o <<Track>>) \o <<Plan>>
  BY DEF Deliver
<1> HIDE DEF Content, Summary, Track, Plan, system
<1>7. ({} \cup {}) \cup Choice = Choice /\ (({} \cup {}) \cup {}) \cup Choice = Choice
        /\ (Choice \cup {}) \cup {} = Choice
  OBVIOUS
<1>8. Listed(base, Choice)
  <2>1. Listed((conversation \o pending) \o Transient, ({} \cup {}) \cup Choice)
    BY <1>1, <1>2, ListedBoth
  <2>2. Listed(((system \o <<Summary>>) \o pending) \o Transient,
               (({} \cup {}) \cup {}) \cup Choice)
    BY <1>1, <1>2, <1>4, ListedBoth
  <2>3. QED
    BY <1>5, <1>7, <2>1, <2>2
<1>9. /\ Listed((base \o <<Track>>) \o <<>>, (Choice \cup {}) \cup {})
      /\ Listed((base \o <<Track>>) \o <<Plan>>, (Choice \cup {}) \cup {})
  BY <1>4, <1>8, ListedBoth
<1>10. Listed(view', Choice)
  BY <1>6, <1>7, <1>9
<1>11. QED
  BY <1>10 DEF Listed

LEMMA ChosenSkill ==
  {e.skill : e \in Choice} = IF Named = {} THEN {} ELSE {Selected}
<1>1. CASE Named = {}
  BY <1>1 DEF Choice
<1>2. CASE Named # {}
  <2>1. PICK c : c = [kind |-> "skill", skill |-> Selected, text |-> loaded[Selected]]
    OBVIOUS
  <2>2. Choice = {c} /\ c.skill = Selected
    BY <1>2, <2>1 DEF Choice
  <2>3. QED
    BY <1>2, <2>2
<1>3. QED
  BY <1>1, <1>2

LEMMA ChoosingStep ==
  ASSUME Conversing, Choosing, [ContextNext]_contextVars
  PROVE  Choosing'
<1>1. ASSUME UNCHANGED <<loaded, told>>, ~Begun' PROVE Choosing'
  BY <1>1 DEF Choosing, Begun
<1>2. ASSUME UNCHANGED <<loaded, told, catalog, chosen>>, Task' = Task, Begun' => Begun,
             step' # "built"
      PROVE  Choosing'
  BY <1>2, SameChoice DEF Choosing
<1>3. CASE StartContext \/ ShutdownContext \/ EditFile
  <2>1. CASE StartContext \/ ShutdownContext
    BY <1>1, <2>1 DEF StartContext, ShutdownContext, runVars, Begun, Conversing
  <2>2. CASE EditFile
    <3>1. UNCHANGED <<loaded, catalog, runVars>>
      BY <2>2 DEF EditFile
    <3>2. Task' = Task
      BY <3>1 DEF Task, runVars
    <3>3. Named' = Named /\ Selected' = Selected /\ Choice' = Choice
      BY <3>1, <3>2, SameChoice
    <3>4. QED
      BY <3>1, <3>3 DEF Choosing, Begun, runVars, ShownSkills
  <2>3. QED
    BY <1>3, <2>1, <2>2
<1>4. CASE BeginRun
  <2>1. UNCHANGED <<loaded, told>> /\ turn' = 0 /\ step' = "turn"
    BY <1>4 DEF BeginRun, skillVars, Conversing
  <2>2. QED
    BY <1>1, <2>1 DEF Begun
<1>5. CASE BeginView
  <2>1. /\ UNCHANGED <<loaded, told, catalog, chosen, conversation, pending>>
        /\ step = "turn" /\ step' = "skills" /\ turn' = turn + 1
    BY <1>5 DEF BeginView, skillVars
  <2>2. Task' = Task
    BY <2>1 DEF Task
  <2>3. Begun' => Begun
    BY <2>1 DEF Begun, Conversing
  <2>4. QED
    BY <1>2, <2>1, <2>2, <2>3
<1>6. CASE ReadPart
  <2>1. /\ step = "skills" /\ Unread /\ UNCHANGED <<catalog, conversation, told>>
        /\ loaded' = loaded \/ \E content : loaded' = [loaded EXCEPT ![Selected] = content]
    BY <1>6 DEF ReadPart
  <2>2. Selected \in Skills /\ loaded[Selected] = <<>>
    BY <2>1, SelectedIsASkill DEF Unread
  <2>3. CASE Over
    <3>1. ~Begun'
      BY <2>3 DEF Over, Begun
    <3>2. \A s \in Skills : told[s] # <<>> => loaded'[s] = loaded[s]
      BY <2>1, <2>2 DEF Choosing
    <3>3. DOMAIN loaded' = Skills
      BY <2>1 DEF Choosing
    <3>4. QED
      BY <2>1, <3>1, <3>2, <3>3 DEF Choosing, Begun
  <2>4. CASE UNCHANGED <<step, turn, pending, chosen>>
    <3>1. Task' = Task
      BY <2>1, <2>4 DEF Task
    <3>2. Named' = Named /\ Selected' = Selected
      <4>1. Named' = Named
        BY <2>1, <3>1 DEF Named
      <4>2. QED
        BY <4>1 DEF Selected
    <3>3. \A s \in Skills : told[s] # <<>> => loaded'[s] = loaded[s]
      BY <2>1, <2>2 DEF Choosing
    <3>4. DOMAIN loaded' = Skills
      BY <2>1 DEF Choosing
    <3>5. {e.skill : e \in Choice}' = {e.skill : e \in Choice}
      <4>1. ({e.skill : e \in Choice} = IF Named = {} THEN {} ELSE {Selected})'
        BY ChosenSkill, PTL
      <4>2. QED
        BY <3>2, <4>1, ChosenSkill
    <3>6. QED
      BY <2>1, <2>4, <3>3, <3>4, <3>5 DEF Choosing, Begun
  <2>5. QED
    BY <1>6, <2>3, <2>4 DEF ReadPart
<1>7. CASE BeginCompaction
  <2>1. /\ UNCHANGED <<loaded, told, catalog, chosen, conversation, pending, turn>>
        /\ step = "skills" /\ step' = "compacting"
    BY <1>7 DEF BeginCompaction, skillVars, Ready
  <2>2. Task' = Task
    BY <2>1 DEF Task
  <2>3. QED
    BY <1>2, <2>1, <2>2 DEF Begun
<1>8. ASSUME NEW base, base = Identical \/ base = Compacted, Deliver(base),
             step \in {"skills", "compacting"}
      PROVE  Choosing'
  <2>1. /\ UNCHANGED <<loaded, catalog, conversation, pending, turn>> /\ step' = "built"
        /\ chosen' = IF turn = 1 THEN {e.skill : e \in ShownSkills(view')} ELSE chosen
    BY <1>8 DEF Deliver, skillVars
  <2>2. ShownSkills(view') = Choice
    BY <1>8, DeliverShows
  <2>3. Task' = Task
    BY <2>1 DEF Task
  <2>4. Named' = Named /\ Selected' = Selected /\ Choice' = Choice
    BY <2>1, <2>3, SameChoice
  <2>5. chosen' = {e.skill : e \in Choice}
    BY <1>8, <2>1, <2>2 DEF Choosing, Begun, Conversing
  <2> DEFINE Texts_(s) == {e.text : e \in {t \in Choice : t.skill = s}}
  <2>6. told' = [s \in Skills |-> IF told[s] = <<>> /\ Texts_(s) # {}
                                    THEN CHOOSE text \in Texts_(s) : TRUE ELSE told[s]]
    BY <1>8, <2>2 DEF Deliver
  <2>7. ASSUME NEW s \in Skills, Texts_(s) # {}
        PROVE  Texts_(s) = {loaded[s]} /\ Named # {} /\ s = Selected
    BY <2>7 DEF Choice
  <2>8. Named # {} => Texts_(Selected) # {}
    <3>1. SUFFICES ASSUME Named # {} PROVE Texts_(Selected) # {}
      OBVIOUS
    <3>2. PICK c : c = [kind |-> "skill", skill |-> Selected, text |-> loaded[Selected]]
      OBVIOUS
    <3>3. c \in Choice /\ c.skill = Selected
      BY <3>1, <3>2 DEF Choice
    <3>4. c.text \in Texts_(Selected)
      BY <3>3
    <3>5. QED
      BY <3>4
  <2> HIDE DEF Texts_
  <2>9. ASSUME NEW s \in Skills
        PROVE  /\ told'[s] # <<>> => told'[s] = loaded[s]
               /\ Texts_(s) # {} => told'[s] = loaded[s]
    <3>1. CASE told[s] = <<>> /\ Texts_(s) # {}
      <4>1. told'[s] = CHOOSE text \in {loaded[s]} : TRUE
        BY <2>6, <2>7, <3>1
      <4>2. QED
        BY <4>1
    <3>2. CASE ~(told[s] = <<>> /\ Texts_(s) # {})
      <4>1. told'[s] = told[s]
        BY <2>6, <3>2
      <4>2. QED
        BY <3>2, <4>1 DEF Choosing
    <3>3. QED
      BY <3>1, <3>2
  <2>10. DOMAIN told' = Skills
    BY <2>6
  <2>11. Named # {} => told'[Selected] = loaded[Selected]
    BY <2>8, <2>9, SelectedIsASkill
  <2>12. QED
    BY <2>1, <2>2, <2>4, <2>5, <2>9, <2>10, <2>11 DEF Choosing
<1>9. CASE AnswerWithTools
  <2>1. /\ UNCHANGED <<loaded, told, catalog, chosen, conversation, turn>>
        /\ pending' = pending \o Exchange /\ step = "built" /\ step' = "turn"
    BY <1>9 DEF AnswerWithTools, skillVars
  <2>2. Exchange \in Seq(Messages) /\ \A i \in 1..Len(Exchange) : Exchange[i].kind # "user"
    BY DEF Exchange, Written, Messages, MessageKinds, Conversing
  <2>3. Task' = Task
    BY <2>1, <2>2, SameTask DEF Conversing
  <2>4. QED
    BY <1>2, <2>1, <2>3 DEF Begun
<1>10. CASE AnswerRejected
  <2>1. /\ UNCHANGED <<loaded, told, catalog, chosen, conversation, pending, turn>>
        /\ step = "built" /\ step' = "turn"
    BY <1>10 DEF AnswerRejected, skillVars
  <2>2. Task' = Task
    BY <2>1 DEF Task
  <2>3. QED
    BY <1>2, <2>1, <2>2 DEF Begun
<1>11. CASE AnswerCommitted \/ RunFails
  BY <1>1, <1>11 DEF AnswerCommitted, RunFails, Over, skillVars, Begun
<1>12. CASE UNCHANGED contextVars
  <2>1. UNCHANGED <<loaded, told, catalog, chosen, conversation, pending, turn, step, view>>
    BY <1>12 DEF contextVars, skillVars, runVars
  <2>2. Task' = Task
    BY <2>1 DEF Task
  <2>3. Named' = Named /\ Selected' = Selected /\ Choice' = Choice
    BY <2>1, <2>2, SameChoice
  <2>4. QED
    BY <2>1, <2>3 DEF Choosing, Begun, ShownSkills
<1>13. BuildIdentical \/ BuildCompacted => Choosing'
  BY <1>8 DEF BuildIdentical, BuildCompacted, Ready
<1>14. QED
  BY <1>3, <1>4, <1>5, <1>6, <1>7, <1>9, <1>10, <1>11, <1>12, <1>13 DEF ContextNext

LEMMA ConversationBegins == ContextInit => Conversing
<1>1. SUFFICES ASSUME ContextInit PROVE Conversing
  OBVIOUS
<1>2. [kind |-> "system", id |-> 1, names |-> {}] \in Messages
  BY DEF Messages, MessageKinds
<1>3. conversation \in Seq(Messages)
  <2>1. <<[kind |-> "system", id |-> 1, names |-> {}]>> \in Seq(Messages)
    BY <1>2
  <2>2. conversation = <<>> \/ conversation = <<[kind |-> "system", id |-> 1, names |-> {}]>>
    BY <1>1 DEF ContextInit
  <2>3. CASE conversation = <<>>
    BY <2>3
  <2>4. QED
    BY <2>1, <2>2, <2>3
<1>4. QED
  BY <1>1, <1>3 DEF ContextInit, Conversing

ContextInductive == Conversing /\ Choosing

(* For any skills, files and edits, however long the Runs are: all views of a
   Run show the one skill of its first view, or none, and what is shown of a
   skill is what was first shown of it, also after files changed, Runs failed
   and the pipeline was restarted (SkillsContextPipeline, SkillCatalog). *)
THEOREM SkillsAreStableHolds == ContextSpec => []SkillsAreStable
<1>1. ContextInit => ContextInductive
  <2>1. SUFFICES ASSUME ContextInit PROVE ContextInductive
    OBVIOUS
  <2>2. Choosing
    BY <2>1 DEF ContextInit, Choosing, Begun
  <2>3. QED
    BY <2>1, <2>2, ConversationBegins DEF ContextInductive
<1>2. ContextInductive /\ [ContextNext]_contextVars => ContextInductive'
  BY ConversingStep, ChoosingStep DEF ContextInductive
<1>3. ContextInductive => SkillsAreStable
  <2>1. SUFFICES ASSUME ContextInductive, step = "built"
                 PROVE  /\ {e.skill : e \in ShownSkills(view)} = chosen
                        /\ \A e \in ShownSkills(view) : e.text = told[e.skill]
    BY DEF SkillsAreStable
  <2>2. ShownSkills(view) = Choice /\ chosen = {e.skill : e \in Choice}
    BY <2>1 DEF ContextInductive, Choosing, Begun
  <2>3. ASSUME NEW e \in Choice PROVE e.text = told[e.skill]
    BY <2>1, <2>3 DEF ContextInductive, Choosing, Choice
  <2>4. QED
    BY <2>2, <2>3
<1>4. QED
  BY <1>1, <1>2, <1>3, PTL DEF ContextSpec

(* A part of a view, the messages it tells and the instructions in it. *)
Noted(e) == IF e.kind \in {"feedback", "steering"} THEN <<e>> ELSE <<>>

Says(v, words, notes) ==
  /\ Sequence(v)
  /\ \A i \in 1..Len(v) : Spoken(v[i]) \in Seq(Messages) /\ Noted(v[i]) \in Seq(Instructed)
  /\ Retold(v) = words /\ Heard(v) = notes

(* A view tells what its parts tell, one after the other. *)
LEMMA SaysBoth ==
  ASSUME NEW s, NEW t, NEW w, NEW x, NEW y, NEW z, Says(s, w, x), Says(t, y, z)
  PROVE  Says(s \o t, w \o y, x \o z)
<1> DEFINE u == s \o t
           Words(v) == [i \in 1..Len(v) |-> Spoken(v[i])]
           Notes(v) == [i \in 1..Len(v) |-> Noted(v[i])]
<1>1. PICK A, B : s \in Seq(A) /\ t \in Seq(B)
  BY DEF Says, Sequence
<1>2. /\ u \in Seq(A \cup B) /\ Len(u) = Len(s) + Len(t) /\ Len(s) \in Nat /\ Len(t) \in Nat
      /\ \A i \in 1..Len(s) : u[i] = s[i]
      /\ \A i \in 1..Len(t) : u[Len(s) + i] = t[i]
  BY <1>1, Concatenated
<1> HIDE DEF u
<1>3. ASSUME NEW i \in 1..Len(u)
      PROVE  \/ i \in 1..Len(s) /\ u[i] = s[i] /\ i <= Len(s)
             \/ i - Len(s) \in 1..Len(t) /\ u[i] = t[i - Len(s)] /\ i > Len(s)
  <2>1. CASE i <= Len(s)
    BY <1>2, <2>1
  <2>2. CASE i > Len(s)
    <3>1. i - Len(s) \in 1..Len(t) /\ Len(s) + (i - Len(s)) = i
      BY <1>2, <2>2
    <3>2. u[i] = t[i - Len(s)]
      BY <1>2, <3>1
    <3>3. QED
      BY <2>2, <3>1, <3>2
  <2>3. i <= Len(s) \/ i > Len(s)
    BY <1>2
  <2>4. QED
    BY <2>1, <2>2, <2>3
<1>4. \A i \in 1..Len(u) : Spoken(u[i]) \in Seq(Messages) /\ Noted(u[i]) \in Seq(Instructed)
  BY <1>3 DEF Says, Sequence
<1>5. /\ Words(s) \in Seq(Seq(Messages)) /\ Words(t) \in Seq(Seq(Messages))
      /\ Words(u) \in Seq(Seq(Messages)) /\ Words(u) = Words(s) \o Words(t)
  <2>1. /\ Words(s) \in Seq(Seq(Messages)) /\ Words(t) \in Seq(Seq(Messages))
        /\ Len(Words(s)) = Len(s) /\ Len(Words(t)) = Len(t)
    BY <1>2 DEF Says, Sequence
  <2>2. Words(u) \in Seq(Seq(Messages)) /\ Len(Words(u)) = Len(u)
    BY <1>2, <1>4
  <2>3. \A i \in 1..Len(u) : Words(u)[i] = (Words(s) \o Words(t))[i]
    BY <1>2, <1>3, <2>1
  <2>4. Len(Words(s) \o Words(t)) = Len(u) /\ Words(s) \o Words(t) \in Seq(Seq(Messages))
    BY <1>2, <2>1
  <2> HIDE DEF Words
  <2>5. Words(u) = Words(s) \o Words(t)
    BY <2>2, <2>3, <2>4, Alike
  <2>6. QED
    BY <2>1, <2>2, <2>5
<1>6. /\ Notes(s) \in Seq(Seq(Instructed)) /\ Notes(t) \in Seq(Seq(Instructed))
      /\ Notes(u) \in Seq(Seq(Instructed)) /\ Notes(u) = Notes(s) \o Notes(t)
  <2>1. /\ Notes(s) \in Seq(Seq(Instructed)) /\ Notes(t) \in Seq(Seq(Instructed))
        /\ Len(Notes(s)) = Len(s) /\ Len(Notes(t)) = Len(t)
    BY <1>2 DEF Says, Sequence
  <2>2. Notes(u) \in Seq(Seq(Instructed)) /\ Len(Notes(u)) = Len(u)
    BY <1>2, <1>4
  <2>3. \A i \in 1..Len(u) : Notes(u)[i] = (Notes(s) \o Notes(t))[i]
    BY <1>2, <1>3, <2>1
  <2>4. Len(Notes(s) \o Notes(t)) = Len(u) /\ Notes(s) \o Notes(t) \in Seq(Seq(Instructed))
    BY <1>2, <2>1
  <2> HIDE DEF Notes
  <2>5. Notes(u) = Notes(s) \o Notes(t)
    BY <2>2, <2>3, <2>4, Alike
  <2>6. QED
    BY <2>1, <2>2, <2>5
<1>7. /\ Retold(s) = FlattenSeq(Words(s)) /\ Retold(t) = FlattenSeq(Words(t))
      /\ Retold(u) = FlattenSeq(Words(u))
  BY DEF Retold
<1>8. /\ Heard(s) = FlattenSeq(Notes(s)) /\ Heard(t) = FlattenSeq(Notes(t))
      /\ Heard(u) = FlattenSeq(Notes(u))
  BY DEF Heard, Noted
<1> HIDE DEF Words, Notes
<1>9. FlattenSeq(Words(u)) = FlattenSeq(Words(s)) \o FlattenSeq(Words(t))
  BY <1>5, FlattenBoth
<1>10. FlattenSeq(Notes(u)) = FlattenSeq(Notes(s)) \o FlattenSeq(Notes(t))
  BY <1>6, FlattenBoth
<1>11. Retold(u) = w \o y /\ Heard(u) = x \o z
  BY <1>7, <1>8, <1>9, <1>10 DEF Says, Sequence
<1>12. Says(u, w \o y, x \o z)
  BY <1>2, <1>4, <1>11 DEF Says, Sequence
<1>13. QED
  BY <1>12 DEF u

(* Messages tell themselves, and instructions are instructions. *)
LEMMA SaysMessages ==
  ASSUME NEW v \in Seq(Messages)
  PROVE  Says(v, v, <<>>)
<1>1. \A e \in Messages : e.kind \in MessageKinds
  BY DEF Messages
<1>2. \A e \in Messages : Spoken(e) = <<e>> /\ Noted(e) = <<>>
  BY <1>1 DEF Spoken, Noted, MessageKinds
<1>3. Len(v) \in Nat /\ \A i \in 1..Len(v) : v[i] \in Messages
  OBVIOUS
<1>4. \A i \in 1..Len(v) : Spoken(v[i]) = <<v[i]>> /\ Noted(v[i]) = <<>>
  BY <1>2, <1>3
<1>5. [i \in 1..Len(v) |-> Spoken(v[i])] = [i \in 1..Len(v) |-> <<v[i]>>]
  BY <1>4
<1>6. [i \in 1..Len(v) |-> Noted(v[i])] = [i \in 1..Len(v) |-> <<>>]
  BY <1>4
<1>7. Retold(v) = v
  BY <1>5, FlattenSingles DEF Retold
<1>8. Heard(v) = <<>>
  BY <1>3, <1>6, FlattenNothing DEF Heard, Noted
<1>9. \A i \in 1..Len(v) : <<v[i]>> \in Seq(Messages) /\ <<>> \in Seq(Instructed)
  BY <1>3
<1>10. QED
  BY <1>4, <1>7, <1>8, <1>9 DEF Says, Sequence

LEMMA SaysInstructions ==
  ASSUME NEW v \in Seq(Instructed)
  PROVE  Says(v, <<>>, v)
<1>1. \A e \in Instructed : e.kind \in {"feedback", "steering"}
  BY DEF Instructed
<1>2. \A e \in Instructed : Spoken(e) = <<>> /\ Noted(e) = <<e>>
  BY <1>1 DEF Spoken, Noted, MessageKinds
<1>3. Len(v) \in Nat /\ \A i \in 1..Len(v) : v[i] \in Instructed
  OBVIOUS
<1>4. \A i \in 1..Len(v) : Spoken(v[i]) = <<>> /\ Noted(v[i]) = <<v[i]>>
  BY <1>2, <1>3
<1>5. [i \in 1..Len(v) |-> Spoken(v[i])] = [i \in 1..Len(v) |-> <<>>]
  BY <1>4
<1>6. [i \in 1..Len(v) |-> Noted(v[i])] = [i \in 1..Len(v) |-> <<v[i]>>]
  BY <1>4
<1>7. Retold(v) = <<>>
  BY <1>3, <1>5, FlattenNothing DEF Retold
<1>8. Heard(v) = v
  BY <1>6, FlattenSingles DEF Heard, Noted
<1>9. \A i \in 1..Len(v) : <<>> \in Seq(Messages) /\ <<v[i]>> \in Seq(Instructed)
  BY <1>3
<1>10. QED
  BY <1>4, <1>7, <1>8, <1>9 DEF Says, Sequence

LEMMA FlattenOne ==
  ASSUME NEW A, NEW s \in Seq(A)
  PROVE  FlattenSeq([i \in 1..1 |-> s]) = s
<1> DEFINE u == [i \in 1..1 |-> s]
           g == [i \in 0..1 |-> IF i = 0 THEN <<>> ELSE s]
<1>1. u \in Seq(Seq(A)) /\ Len(u) = 1
  OBVIOUS
<1>2. g \in [0..1 -> Seq(A)] /\ g[0] = <<>> /\ g[1] = s
  OBVIOUS
<1>3. \A i \in 1..1 : g[i] = g[i - 1] \o u[i]
  OBVIOUS
<1> HIDE DEF u, g
<1>4. Flattens(u, g)
  BY <1>1, <1>2, <1>3 DEF Flattens
<1>5. QED
  BY <1>1, <1>2, <1>4, FlattensOnce DEF u

(* One more element: a summary tells what it stands for, the others nothing. *)
LEMMA SaysOne ==
  ASSUME NEW e, e.kind \notin {"feedback", "steering"}, Spoken(e) \in Seq(Messages)
  PROVE  Says(<<e>>, Spoken(e), <<>>)
<1>1. Len(<<e>>) = 1 /\ <<e>> \in Seq({e}) /\ \A i \in 1..1 : <<e>>[i] = e
  OBVIOUS
<1>2. Noted(e) = <<>> /\ <<>> \in Seq(Instructed)
  BY DEF Noted
<1>3. [i \in 1..1 |-> Spoken(<<e>>[i])] = [i \in 1..1 |-> Spoken(e)]
  BY <1>1
<1>4. [i \in 1..1 |-> Noted(<<e>>[i])] = [i \in 1..1 |-> <<>>]
  BY <1>1, <1>2
<1>5. Retold(<<e>>) = Spoken(e)
  BY <1>1, <1>3, FlattenOne DEF Retold
<1>6. Heard(<<e>>) = <<>>
  <2>1. Heard(<<e>>) = FlattenSeq([i \in 1..1 |-> Noted(<<e>>[i])])
    BY <1>1 DEF Heard, Noted
  <2>2. FlattenSeq([i \in 1..1 |-> <<>>]) = <<>>
    BY FlattenNothing
  <2>3. QED
    BY <1>4, <2>1, <2>2
<1>7. \A i \in 1..Len(<<e>>) :
        Spoken(<<e>>[i]) \in Seq(Messages) /\ Noted(<<e>>[i]) \in Seq(Instructed)
  BY <1>1, <1>2
<1>8. QED
  BY <1>1, <1>5, <1>6, <1>7 DEF Says, Sequence

LEMMA SaysNothing ==
  /\ Says(<<>>, <<>>, <<>>)
  /\ \A e : e.kind \in {"index", "skill", "trajectory", "plan"} => Says(<<e>>, <<>>, <<>>)
<1>1. <<>> \in Seq(Messages)
  OBVIOUS
<1>2. ASSUME NEW e, e.kind \in {"index", "skill", "trajectory", "plan"}
      PROVE  Says(<<e>>, <<>>, <<>>)
  <2>1. Spoken(e) = <<>> /\ e.kind \notin {"feedback", "steering"}
    BY <1>2 DEF Spoken, MessageKinds
  <2>2. QED
    BY <1>1, <2>1, SaysOne
<1>3. QED
  BY <1>1, <1>2, SaysMessages

(* The instructions of a skill are no messages. *)
LEMMA TransientSays ==
  ASSUME Conversing
  PROVE  Says(Transient, <<>>, due)
<1> DEFINE Content == [kind |-> "skill", skill |-> Selected, text |-> loaded[Selected]]
           Index == IF \E s \in Skills : catalog[s] # {} THEN <<[kind |-> "index"]>> ELSE <<>>
           Skill == IF Named = {} THEN <<>> ELSE <<Content>>
<1>1. Says(Index, <<>>, <<>>)
  <2>1. [kind |-> "index"].kind = "index"
    OBVIOUS
  <2>2. Says(<<[kind |-> "index"]>>, <<>>, <<>>) /\ Says(<<>>, <<>>, <<>>)
    BY <2>1, SaysNothing
  <2>3. QED
    BY <2>2
<1>2. Says(Skill, <<>>, <<>>)
  <2>1. Content.kind = "skill"
    OBVIOUS
  <2> HIDE DEF Content
  <2>2. Says(<<Content>>, <<>>, <<>>) /\ Says(<<>>, <<>>, <<>>)
    BY <2>1, SaysNothing
  <2>3. QED
    BY <2>2
<1>3. Says(due, <<>>, due)
  BY SaysInstructions DEF Conversing
<1>4. Transient = (Index \o Skill) \o due
  BY DEF Transient, SkillInstructions
<1> HIDE DEF Index, Skill
<1>5. Says((Index \o Skill) \o due, (<<>> \o <<>>) \o <<>>, (<<>> \o <<>>) \o due)
  BY <1>1, <1>2, <1>3, SaysBoth
<1>6. (<<>> \o <<>>) \o <<>> = <<>> /\ (<<>> \o <<>>) \o due = due
  BY DEF Conversing
<1>7. QED
  BY <1>4, <1>5, <1>6

(* A view that is built tells everything. *)
LEMMA DeliverTells ==
  ASSUME Conversing, NEW base, base = Identical \/ base = Compacted, Deliver(base)
  PROVE  Says(view', conversation \o pending, due)
<1> DEFINE Summary == [kind |-> "summary", of |-> History]
           Track == [kind |-> "trajectory"]
           Plan == [kind |-> "plan", version |-> plan_version]
           system == SubSeq(conversation, 1, SystemEnd)
<1>1. /\ conversation \in Seq(Messages) /\ pending \in Seq(Messages) /\ due \in Seq(Instructed)
      /\ system \in Seq(Messages) /\ History \in Seq(Messages)
      /\ system \o History = conversation
  BY SystemSplit DEF Conversing
<1>2. Says(Transient, <<>>, due)
  BY TransientSays
<1>3. Says(<<Summary>>, History, <<>>)
  <2>1. Summary.kind = "summary" /\ Summary.of = History
    OBVIOUS
  <2> HIDE DEF Summary
  <2>2. Spoken(Summary) = History /\ Summary.kind \notin {"feedback", "steering"}
    BY <2>1 DEF Spoken, MessageKinds
  <2>3. QED
    BY <1>1, <2>2, SaysOne
<1>4. Says(<<Track>>, <<>>, <<>>) /\ Says(<<Plan>>, <<>>, <<>>) /\ Says(<<>>, <<>>, <<>>)
  <2>1. Track.kind = "trajectory" /\ Plan.kind = "plan"
    OBVIOUS
  <2> HIDE DEF Track, Plan
  <2>2. QED
    BY <2>1, SaysNothing
<1>5. base = ((system \o <<Summary>>) \o pending) \o Transient
        \/ base = (conversation \o pending) \o Transient
  BY DEF Identical, Compacted
<1>6. view' = (base \o <<Track>>) \o <<>> \/ view' = (base \o <<Track>>) \o <<Plan>>
  BY DEF Deliver
<1>7. Says(system, system, <<>>) /\ Says(conversation, conversation, <<>>)
        /\ Says(pending, pending, <<>>)
  BY <1>1, SaysMessages
<1> HIDE DEF Summary, Track, Plan, system
<1>8. Says(base, conversation \o pending, due)
  <2>1. Says((conversation \o pending) \o Transient,
             (conversation \o pending) \o <<>>, (<<>> \o <<>>) \o due)
    BY <1>2, <1>7, SaysBoth
  <2>2. Says(((system \o <<Summary>>) \o pending) \o Transient,
             ((system \o History) \o pending) \o <<>>, ((<<>> \o <<>>) \o <<>>) \o due)
    BY <1>2, <1>3, <1>7, SaysBoth
  <2>3. /\ (conversation \o pending) \o <<>> = conversation \o pending
        /\ (<<>> \o <<>>) \o due = due /\ ((<<>> \o <<>>) \o <<>>) \o due = due
    BY <1>1
  <2>4. QED
    BY <1>1, <1>5, <2>1, <2>2, <2>3
<1>9. /\ ((conversation \o pending) \o <<>>) \o <<>> = conversation \o pending
      /\ (due \o <<>>) \o <<>> = due
  BY <1>1
<1>10. /\ Says((base \o <<Track>>) \o <<>>,
               ((conversation \o pending) \o <<>>) \o <<>>, (due \o <<>>) \o <<>>)
       /\ Says((base \o <<Track>>) \o <<Plan>>,
               ((conversation \o pending) \o <<>>) \o <<>>, (due \o <<>>) \o <<>>)
  BY <1>4, <1>8, SaysBoth
<1>11. QED
  BY <1>6, <1>9, <1>10

LEMMA LastOne ==
  ASSUME NEW s, NEW e, Sequence(s)
  PROVE  Last(s \o <<e>>) = e
<1>1. PICK A : s \in Seq(A)
  BY DEF Sequence
<1>2. Len(s) \in Nat /\ Len(s \o <<e>>) = Len(s) + 1
  BY <1>1
<1>3. (s \o <<e>>)[Len(s) + 1] = e
  BY <1>1, <1>2
<1>4. QED
  BY <1>2, <1>3 DEF Last

(* Its last word is the newest plan, and there is a message to answer. *)
LEMMA DeliverEnds ==
  ASSUME Conversing, \A i \in 1..Len(pending) : pending[i].kind # "system",
         NEW base, base = Identical \/ base = Compacted, Deliver(base)
  PROVE  /\ plan_version # 0 => Last(view') = [kind |-> "plan", version |-> plan_version]
         /\ \/ \E e \in ToSet(view') : e.kind \in MessageKinds \ {"system"}
            \/ pending = <<>> /\ (History = <<>> \/ \E e \in ToSet(view') : e.kind = "summary")
<1> DEFINE Summary == [kind |-> "summary", of |-> History]
           Track == [kind |-> "trajectory"]
           Plan == [kind |-> "plan", version |-> plan_version]
           system == SubSeq(conversation, 1, SystemEnd)
<1>1. /\ Sequence(conversation) /\ Sequence(pending) /\ Sequence(system) /\ Sequence(Transient)
      /\ Sequence(<<Track>>) /\ Sequence(<<Plan>>) /\ Sequence(<<Summary>>) /\ Sequence(<<>>)
  <2>1. Sequence(conversation) /\ Sequence(pending) /\ Sequence(system)
    BY SystemSplit DEF Sequence, Conversing
  <2>2. Sequence(Transient)
    BY TransientSays DEF Sequence, Says
  <2>3. \A e : <<e>> \in Seq({e}) /\ <<>> \in Seq({e})
    OBVIOUS
  <2>4. \A e : Sequence(<<e>>) /\ Sequence(<<>>)
    BY <2>3 DEF Sequence
  <2> HIDE DEF Track, Plan, Summary
  <2>5. QED
    BY <2>1, <2>2, <2>4
<1>2. \/ base = ((system \o <<Summary>>) \o pending) \o Transient
      \/ base = (conversation \o pending) \o Transient
  BY DEF Identical, Compacted
<1>3. view' = (base \o <<Track>>) \o IF plan_version = 0 THEN <<>> ELSE <<Plan>>
  BY DEF Deliver
<1>4. Summary.kind = "summary" /\ Summary \in ToSet(<<Summary>>)
  BY DEF ToSet
<1> HIDE DEF Summary, Track, Plan, system
<1>5. /\ Sequence(base)
      /\ ToSet(pending) \subseteq ToSet(base)
      /\ Summary \in ToSet(base) \/ ToSet(conversation) \subseteq ToSet(base)
  <2>1. /\ Sequence(conversation \o pending)
        /\ ToSet(conversation \o pending) = ToSet(conversation) \cup ToSet(pending)
    BY <1>1, Elements
  <2>2. /\ Sequence((conversation \o pending) \o Transient)
        /\ ToSet((conversation \o pending) \o Transient)
             = ToSet(conversation \o pending) \cup ToSet(Transient)
    BY <1>1, <2>1, Elements
  <2>3. /\ Sequence(system \o <<Summary>>)
        /\ ToSet(system \o <<Summary>>) = ToSet(system) \cup ToSet(<<Summary>>)
    BY <1>1, Elements
  <2>4. /\ Sequence((system \o <<Summary>>) \o pending)
        /\ ToSet((system \o <<Summary>>) \o pending)
             = ToSet(system \o <<Summary>>) \cup ToSet(pending)
    BY <1>1, <2>3, Elements
  <2>5. /\ Sequence(((system \o <<Summary>>) \o pending) \o Transient)
        /\ ToSet(((system \o <<Summary>>) \o pending) \o Transient)
             = ToSet((system \o <<Summary>>) \o pending) \cup ToSet(Transient)
    BY <1>1, <2>4, Elements
  <2>6. CASE base = (conversation \o pending) \o Transient
    BY <2>1, <2>2, <2>6
  <2>7. CASE base = ((system \o <<Summary>>) \o pending) \o Transient
    BY <1>4, <2>3, <2>4, <2>5, <2>7
  <2>8. QED
    BY <1>2, <2>6, <2>7
<1>6. Sequence(base \o <<Track>>) /\ ToSet(base) \subseteq ToSet(base \o <<Track>>)
  BY <1>1, <1>5, Elements
<1>7. ToSet(base) \subseteq ToSet(view')
  <2>1. /\ ToSet(base \o <<Track>>) \subseteq ToSet((base \o <<Track>>) \o <<>>)
        /\ ToSet(base \o <<Track>>) \subseteq ToSet((base \o <<Track>>) \o <<Plan>>)
    BY <1>1, <1>6, Elements
  <2>2. QED
    BY <1>3, <1>6, <2>1
<1>8. plan_version # 0 => Last(view') = Plan
  BY <1>3, <1>6, LastOne
<1>9. CASE pending # <<>>
  <2>1. pending \in Seq(Messages) /\ Len(pending) \in Nat /\ 1 \in 1..Len(pending)
    BY <1>9 DEF Conversing
  <2>2. pending[1] \in Messages /\ pending[1] \in ToSet(pending)
    BY <2>1 DEF ToSet
  <2>3. pending[1].kind \in MessageKinds /\ pending[1].kind # "system"
    BY <2>1, <2>2 DEF Messages
  <2>4. QED
    BY <1>5, <1>7, <1>8, <2>2, <2>3 DEF Plan
<1>10. CASE pending = <<>> /\ History # <<>>
  <2>1. PICK i \in 1..Len(conversation) : conversation[i].kind # "system"
    BY <1>10, SystemSplit
  <2>2. conversation[i] \in Messages /\ conversation[i] \in ToSet(conversation)
    BY <2>1 DEF ToSet, Conversing
  <2>3. conversation[i].kind \in MessageKinds \ {"system"}
    BY <2>1, <2>2 DEF Messages
  <2>4. QED
    BY <1>4, <1>5, <1>7, <1>8, <1>10, <2>2, <2>3 DEF Plan
<1>11. CASE pending = <<>> /\ History = <<>>
  BY <1>8, <1>11 DEF Plan
<1>12. QED
  BY <1>9, <1>10, <1>11

(* The instructions of the Run are numbered as they were shown and are due; a
   view that is built told everything. *)
Numbering ==
  /\ heard \in Seq(Instructed) /\ \A i \in 1..Len(heard) : heard[i].number = i
  /\ \A i \in 1..Len(due) : due[i].number = Len(heard) + i
  /\ given = Len(heard) + Len(due)

Relaying ==
  /\ \A i \in 1..Len(pending) : pending[i].kind # "system"
  /\ step = "built" => due = <<>>
  /\ ViewsTellTheRun

LEMMA InstructionsAreNumbered ==
  ASSUME given \in Nat, NEW n \in Nat, NEW kind \in {"feedback", "steering"}
  PROVE  /\ Instructions(kind, n) \in Seq(Instructed) /\ Len(Instructions(kind, n)) = n
         /\ \A i \in 1..n : Instructions(kind, n)[i].number = given + i
<1>1. \A i \in 1..n : [kind |-> kind, number |-> given + i] \in Instructed
  BY DEF Instructed
<1>2. Instructions(kind, n) \in Seq(Instructed) /\ Len(Instructions(kind, n)) = n
  BY <1>1 DEF Instructions
<1>3. ASSUME NEW i \in 1..n PROVE Instructions(kind, n)[i].number = given + i
  BY DEF Instructions
<1>4. QED
  BY <1>2, <1>3

(* More instructions are numbered from the last given. *)
LEMMA NumbersGoOn ==
  ASSUME NEW h \in Nat, NEW s \in Seq(Instructed), NEW t \in Seq(Instructed),
         \A i \in 1..Len(s) : s[i].number = h + i,
         \A i \in 1..Len(t) : t[i].number = h + Len(s) + i
  PROVE  /\ s \o t \in Seq(Instructed) /\ Len(s \o t) = Len(s) + Len(t)
         /\ \A i \in 1..Len(s \o t) : (s \o t)[i].number = h + i
<1>1. /\ Len(s) \in Nat /\ Len(t) \in Nat /\ Len(s \o t) = Len(s) + Len(t)
      /\ \A i \in 1..Len(s) : (s \o t)[i] = s[i]
      /\ \A i \in 1..Len(t) : (s \o t)[Len(s) + i] = t[i]
  BY Concatenated
<1>2. ASSUME NEW i \in 1..Len(s \o t) PROVE (s \o t)[i].number = h + i
  <2>1. CASE i <= Len(s)
    BY <1>1, <2>1
  <2>2. CASE i > Len(s)
    <3>1. PICK j \in 1..Len(t) : i = Len(s) + j
      <4>1. i - Len(s) \in 1..Len(t) /\ i = Len(s) + (i - Len(s))
        BY <1>1, <2>2
      <4>2. QED
        BY <4>1
    <3>2. (s \o t)[i] = t[j]
      BY <1>1, <3>1
    <3>3. t[j].number = h + Len(s) + j /\ h + Len(s) + j = h + i
      BY <1>1, <3>1
    <3>4. QED
      BY <3>2, <3>3
  <2>3. i <= Len(s) \/ i > Len(s)
    BY <1>1
  <2>4. QED
    BY <2>1, <2>2, <2>3
<1>3. s \o t \in Seq(Instructed)
  OBVIOUS
<1>4. QED
  BY <1>1, <1>2, <1>3

LEMMA NumberingStep ==
  ASSUME Conversing, Numbering, step = "built" => due = <<>>, [ContextNext]_contextVars
  PROVE  Numbering'
<1>1. /\ heard \in Seq(Instructed) /\ due \in Seq(Instructed) /\ given \in Nat
      /\ Len(heard) \in Nat /\ Len(due) \in Nat
  BY DEF Conversing, Numbering
<1>2. CASE Over
  BY <1>2 DEF Over, Numbering
<1>3. CASE UNCHANGED <<heard, due, given>>
  BY <1>3 DEF Numbering
<1>4. CASE BeginView
  <2>1. PICK n \in 0..MaxInputs : due' = due \o Instructions("steering", n) /\ given' = given + n
    BY <1>4 DEF BeginView
  <2>2. n \in Nat /\ UNCHANGED heard
    BY <1>4, ContextAssumption DEF BeginView
  <2> DEFINE t == Instructions("steering", n)
  <2>3. /\ t \in Seq(Instructed) /\ Len(t) = n
        /\ \A i \in 1..n : t[i].number = given + i
    BY <1>1, <2>2, InstructionsAreNumbered
  <2> HIDE DEF t
  <2>4. given = Len(heard) + Len(due) /\ \A i \in 1..Len(due) : due[i].number = Len(heard) + i
    BY DEF Numbering
  <2>5. \A i \in 1..Len(t) : t[i].number = Len(heard) + Len(due) + i
    BY <2>3, <2>4
  <2>6. /\ due \o t \in Seq(Instructed) /\ Len(due \o t) = Len(due) + Len(t)
        /\ \A i \in 1..Len(due \o t) : (due \o t)[i].number = Len(heard) + i
    BY <1>1, <2>3, <2>4, <2>5, NumbersGoOn
  <2>7. PICK all : all = due \o t
    OBVIOUS
  <2>8. due' = all /\ Len(all) = Len(due) + n
    BY <2>1, <2>3, <2>6, <2>7 DEF t
  <2>9. \A i \in 1..Len(all) : all[i].number = Len(heard) + i
    BY <2>6, <2>7
  <2>10. given' = Len(heard) + Len(all)
    BY <1>1, <2>1, <2>2, <2>4, <2>8
  <2>11. QED
    BY <1>1, <2>2, <2>8, <2>9, <2>10 DEF Numbering
<1>5. ASSUME BuildIdentical \/ BuildCompacted PROVE Numbering'
  <2>1. PICK base : (base = Identical \/ base = Compacted) /\ Deliver(base)
    BY <1>5 DEF BuildIdentical, BuildCompacted
  <2>2. heard' = heard \o Heard(view') /\ due' = <<>> /\ given' = given
    BY <2>1 DEF Deliver
  <2>3. Heard(view') = due
    BY <2>1, DeliverTells DEF Says, Sequence
  <2>4. heard' = heard \o due
    BY <2>2, <2>3
  <2>5. /\ \A i \in 1..Len(heard) : heard[i].number = 0 + i
        /\ \A i \in 1..Len(due) : due[i].number = 0 + Len(heard) + i
    BY <1>1 DEF Numbering
  <2>6. /\ heard \o due \in Seq(Instructed) /\ Len(heard \o due) = Len(heard) + Len(due)
        /\ \A i \in 1..Len(heard \o due) : (heard \o due)[i].number = 0 + i
    BY <1>1, <2>5, NumbersGoOn
  <2>7. heard' \in Seq(Instructed) /\ Len(heard') = Len(heard) + Len(due)
    BY <2>4, <2>6
  <2>8. \A i \in 1..Len(heard') : heard'[i].number = i
    BY <1>1, <2>4, <2>6, <2>7
  <2>9. given' = Len(heard') + Len(due') /\ Len(due') = 0
    BY <1>1, <2>2, <2>7 DEF Numbering
  <2>10. heard' \in Seq(Instructed) /\ \A i \in 1..Len(due') : due'[i].number = Len(heard') + i
    BY <2>7, <2>9
  <2>11. QED
    BY <2>8, <2>9, <2>10 DEF Numbering
<1>6. ASSUME AnswerWithTools \/ AnswerRejected PROVE Numbering'
  <2>1. due = <<>> /\ UNCHANGED heard
    BY <1>6 DEF AnswerWithTools, AnswerRejected
  <2>2. \/ due' = <<>> /\ UNCHANGED given
        \/ due' = Instructions("feedback", 1) /\ given' = given + 1
    BY <1>6 DEF AnswerWithTools, AnswerRejected
  <2>3. CASE due' = <<>> /\ UNCHANGED given
    BY <2>1, <2>3 DEF Numbering
  <2>4. CASE due' = Instructions("feedback", 1) /\ given' = given + 1
    <3> DEFINE t == Instructions("feedback", 1)
    <3>1. t \in Seq(Instructed) /\ Len(t) = 1 /\ \A i \in 1..1 : t[i].number = given + i
      BY <1>1, InstructionsAreNumbered
    <3> HIDE DEF t
    <3>2. due' = t
      BY <2>4 DEF t
    <3>3. given = Len(heard) /\ given' = given + 1
      BY <1>1, <2>1, <2>4 DEF Numbering
    <3>4. \A i \in 1..Len(due') : due'[i].number = Len(heard') + i
      BY <2>1, <3>1, <3>2, <3>3
    <3>5. given' = Len(heard') + Len(due')
      BY <2>1, <3>1, <3>2, <3>3
    <3>6. QED
      BY <2>1, <3>4, <3>5 DEF Numbering
  <2>5. QED
    BY <2>2, <2>3, <2>4
<1>7. StartContext \/ ShutdownContext \/ EditFile \/ BeginRun \/ BeginCompaction
        => UNCHANGED <<heard, due, given>>
  BY DEF StartContext, ShutdownContext, EditFile, BeginRun, BeginCompaction, runVars
<1>8. ReadPart => Over \/ UNCHANGED <<heard, due, given>>
  BY DEF ReadPart
<1>9. AnswerCommitted \/ RunFails => Over
  BY DEF AnswerCommitted, RunFails
<1>10. UNCHANGED contextVars => UNCHANGED <<heard, due, given>>
  BY DEF contextVars, runVars
<1>11. QED
  BY <1>2, <1>3, <1>4, <1>5, <1>6, <1>7, <1>8, <1>9, <1>10 DEF ContextNext

LEMMA RelayingStep ==
  ASSUME Conversing, Numbering, Relaying, Numbering', [ContextNext]_contextVars
  PROVE  Relaying'
<1> DEFINE NoSystem(messages) == \A i \in 1..Len(messages) : messages[i].kind # "system"
<1>1. NoSystem(pending) /\ NoSystem(<<>>) /\ pending \in Seq(Messages)
  BY DEF Relaying, Conversing
<1>2. ASSUME NoSystem(pending'), step' # "built" PROVE Relaying'
  BY <1>2 DEF Relaying, ViewsTellTheRun
<1>3. CASE Over
  <2>1. pending' = <<>> /\ step' # "built"
    BY <1>3 DEF Over
  <2>2. QED
    BY <1>1, <1>2, <2>1
<1>4. CASE UNCHANGED runVars
  <2>1. UNCHANGED <<conversation, pending, step, due, given, plan_version, view, heard>>
    BY <1>4 DEF runVars
  <2>2. History' = History
    BY <2>1 DEF History, SystemEnd
  <2>3. ViewsTellTheRun'
    BY <2>1, <2>2 DEF Relaying, ViewsTellTheRun
  <2>4. QED
    BY <2>1, <2>3 DEF Relaying
<1>5. CASE BeginRun
  <2>1. /\ step' = "turn"
        /\ \/ \E names \in SUBSET Skills : pending' = <<Written("user", 1, names)>>
           \/ pending' = <<>>
    BY <1>5 DEF BeginRun
  <2>2. \A names : NoSystem(<<Written("user", 1, names)>>)
    BY DEF Written
  <2>3. NoSystem(pending')
    BY <1>1, <2>1, <2>2
  <2>4. QED
    BY <1>2, <2>1, <2>3
<1>6. CASE BeginView \/ BeginCompaction \/ AnswerRejected
  <2>1. UNCHANGED pending /\ step' # "built"
    BY <1>6 DEF BeginView, BeginCompaction, AnswerRejected
  <2>2. QED
    BY <1>1, <1>2, <2>1
<1>7. CASE ReadPart
  <2>1. step = "skills" /\ (Over \/ UNCHANGED <<step, pending>>)
    BY <1>7 DEF ReadPart
  <2>2. CASE Over
    BY <1>3, <2>2
  <2>3. CASE UNCHANGED <<step, pending>>
    BY <1>1, <1>2, <2>1, <2>3
  <2>4. QED
    BY <2>1, <2>2, <2>3
<1>8. CASE AnswerWithTools
  <2>1. pending' = pending \o Exchange /\ step' # "built"
    BY <1>8 DEF AnswerWithTools
  <2>2. /\ Exchange \in Seq(Messages) /\ NoSystem(Exchange)
    <3>1. Exchange = <<Written("calls", 1, {}), Written("results", 2, {})>>
      BY DEF Exchange
    <3>2. Written("calls", 1, {}) \in Messages /\ Written("results", 2, {}) \in Messages
      BY DEF Written, Messages, MessageKinds, Conversing
    <3>3. Written("calls", 1, {}).kind # "system" /\ Written("results", 2, {}).kind # "system"
      BY DEF Written
    <3>4. QED
      BY <3>1, <3>2, <3>3
  <2>3. PICK all : all = pending \o Exchange
    OBVIOUS
  <2>4. ToSet(all) = ToSet(pending) \cup ToSet(Exchange) /\ Sequence(all)
    BY <1>1, <2>2, <2>3, Elements DEF Sequence
  <2>5. \A e \in ToSet(pending) \cup ToSet(Exchange) : e.kind # "system"
    BY <1>1, <2>2 DEF ToSet
  <2>6. NoSystem(all)
    BY <2>4, <2>5 DEF ToSet, Sequence
  <2>7. QED
    BY <1>2, <2>1, <2>3, <2>6
<1>9. ASSUME BuildIdentical \/ BuildCompacted PROVE Relaying'
  <2>1. PICK base : (base = Identical \/ base = Compacted) /\ Deliver(base)
    BY <1>9 DEF BuildIdentical, BuildCompacted
  <2>2. UNCHANGED <<conversation, pending, plan_version>> /\ due' = <<>> /\ step' = "built"
    BY <2>1 DEF Deliver
  <2>3. History' = History
    BY <2>2 DEF History, SystemEnd
  <2>4. Retold(view') = conversation \o pending
    BY <2>1, DeliverTells DEF Says, Sequence
  <2>5. /\ plan_version # 0 => Last(view') = [kind |-> "plan", version |-> plan_version]
        /\ \/ \E e \in ToSet(view') : e.kind \in MessageKinds \ {"system"}
           \/ pending = <<>> /\ (History = <<>> \/ \E e \in ToSet(view') : e.kind = "summary")
    BY <1>1, <2>1, DeliverEnds
  <2>6. [i \in 1..Len(heard') |-> heard'[i].number] = [i \in 1..given' |-> i]
    <3>1. heard' \in Seq(Instructed) /\ given' = Len(heard') + Len(due') /\ Len(due') = 0
      BY <2>2 DEF Numbering
    <3>2. given' = Len(heard')
      BY <3>1
    <3>3. \A i \in 1..Len(heard') : heard'[i].number = i
      BY DEF Numbering
    <3>4. QED
      BY <3>2, <3>3
  <2>7. Retold(view)' = Retold(view')
    BY DEF Retold
  <2>8. ViewsTellTheRun'
    BY <2>2, <2>3, <2>4, <2>5, <2>6, <2>7 DEF ViewsTellTheRun
  <2>9. QED
    BY <1>1, <2>2, <2>8 DEF Relaying
<1>10. StartContext \/ ShutdownContext \/ EditFile \/ UNCHANGED contextVars => UNCHANGED runVars
  BY DEF StartContext, ShutdownContext, EditFile, contextVars
<1>11. AnswerCommitted \/ RunFails => Over
  BY DEF AnswerCommitted, RunFails
<1>12. QED
  BY <1>3, <1>4, <1>5, <1>6, <1>7, <1>8, <1>9, <1>10, <1>11 DEF ContextNext

(* For any skills and steering, any limit of the compaction and however often a
   Run answers with tools or is rejected: each view tells all of the
   Conversation and of the Run in order and once, every instruction was shown in
   one view, the newest plan is last, and there is something to answer
   (_build_context and the pipelines it asks). *)
THEOREM ViewsTellTheRunHolds == ContextSpec => []ViewsTellTheRun
<1>1. ContextInit => Conversing /\ Numbering /\ Relaying
  <2>1. SUFFICES ASSUME ContextInit PROVE Conversing /\ Numbering /\ Relaying
    OBVIOUS
  <2>2. Conversing
    BY <2>1, ConversationBegins
  <2>3. heard = <<>> /\ due = <<>> /\ pending = <<>> /\ given = 0 /\ step = "idle"
    BY <2>1 DEF ContextInit
  <2>4. Numbering
    BY <2>3 DEF Numbering
  <2>5. Relaying
    BY <2>3 DEF Relaying, ViewsTellTheRun
  <2>6. QED
    BY <2>2, <2>4, <2>5
<1>2. Conversing /\ Numbering /\ Relaying /\ [ContextNext]_contextVars
        => (Conversing /\ Numbering /\ Relaying)'
  <2>1. SUFFICES ASSUME Conversing, Numbering, Relaying, [ContextNext]_contextVars
                 PROVE  Conversing' /\ Numbering' /\ Relaying'
    OBVIOUS
  <2>2. Conversing'
    BY <2>1, ConversingStep
  <2>3. Numbering'
    BY <2>1, NumberingStep DEF Relaying
  <2>4. QED
    BY <2>1, <2>2, <2>3, RelayingStep
<1>3. Relaying => ViewsTellTheRun
  BY DEF Relaying
<1>4. QED
  BY <1>1, <1>2, <1>3, PTL DEF ContextSpec

-----------------------------------------------------------------------------
(* The services side by side: a step of one leaves the others as they are. *)
LEMMA OneServiceSteps ==
  ASSUME [MCNext]_allVars
  PROVE  /\ [JudgeNext]_judgeVars /\ [PlanningNext]_planningVars
         /\ [StreamNext]_streamVars /\ [EvidenceNext]_evidenceVars
         /\ [ToolboxNext]_toolboxVars /\ [ContextNext]_contextVars
BY DEF MCNext, JudgeStep, PlanningStep, StreamStep, EvidenceStep, ToolboxStep, ContextStep, allVars

(* Whichever service a behaviour exercises, it is a behaviour of each service's
   own specification, so what is proved of one alone holds of all. *)
THEOREM ServicesAreTheirOwn ==
  MCSpec => /\ JudgeSpec /\ PlanningSpec /\ StreamSpec /\ EvidenceSpec
            /\ ToolboxSpec /\ ContextSpec
<1>1. MCInit => /\ JudgeInit /\ PlanningInit /\ StreamInit /\ EvidenceInit
                /\ ToolboxInit /\ ContextInit
  BY DEF MCInit
<1>2. [MCNext]_allVars =>
        /\ [JudgeNext]_judgeVars /\ [PlanningNext]_planningVars
        /\ [StreamNext]_streamVars /\ [EvidenceNext]_evidenceVars
        /\ [ToolboxNext]_toolboxVars /\ [ContextNext]_contextVars
  BY OneServiceSteps
<1>3. QED
  BY <1>1, <1>2, PTL
  DEF MCSpec, JudgeSpec, PlanningSpec, StreamSpec, EvidenceSpec, ToolboxSpec, ContextSpec

(* The judge's account and the planner's, for every limit and whatever a model
   writes: the overshoot is at most one request, and what usage(), attempts()
   and the planning_usage record tell is what happened, or that it is not known
   (ModelJudge._evaluate_locked, ModelTaskPlanner.plan). *)
THEOREM SpendingIsKnownHolds == MCSpec => []SpendingIsKnown
BY ServicesAreTheirOwn, SpendingIsAccountedHolds, PlannerSpendingIsKnownHolds, PTL
DEF SpendingIsKnown
=============================================================================
