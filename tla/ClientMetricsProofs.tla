------------------------ MODULE ClientMetricsProofs ------------------------
(***************************************************************************)
(* Proofs about ClientMetrics for any tasks, any number of message types   *)
(* and any bounds.                                                         *)
(***************************************************************************)
EXTENDS ClientMetrics, FiniteSetTheorems, WellFoundedInduction, TLAPS

(***************************************************************************)
(* Lemmas about the counters and the walk over them.                       *)
(***************************************************************************)

\* The counters have names of their own.
LEMMA CounterNames ==
  /\ Sent \in Counters /\ Received \in Counters
  /\ \A s \in Types \cup {All}, k \in Kinds : <<s, k>> \in Counters
  /\ \A s \in Types \cup {All}, k \in Kinds : <<s, k>> # Sent /\ <<s, k>> # Received
  /\ Sent # Received
  /\ \A y \in Types : y # All
BY MetricsAssumption DEF Counters, Sent, Received, Types, All, Kinds

\* The walk stays among the counters ...
LEMMA WalkStays ==
  ASSUME NEW i \in 1 .. NumCounters
  PROVE  CounterAt(i) \in Counters
<1>1. CASE i <= 2
  <2>1. i = 1 \/ i = 2
    BY <1>1
  <2> QED
    BY <2>1 DEF CounterAt, Counters
<1>2. CASE ~ (i <= 2) /\ i <= 5
  <2>1. i - 3 + 1 \in {1, 2, 3}
    BY <1>2
  <2>2. Triple(All, i - 3) \in {<<All, "total">>, <<All, "success">>, <<All, "errors">>}
    BY <2>1 DEF Triple
  <2> QED
    BY <1>2, <2>2 DEF CounterAt, Counters, Kinds
<1>3. CASE ~ (i <= 5)
  <2>1. NumTypes \in Nat /\ NumCounters = 5 + 3 * NumTypes
    BY MetricsAssumption DEF NumCounters
  <2>2. (i - 6) \div 3 \in Types
    BY <1>3, <2>1, Z3 DEF Types
  <2>3. (i % 3) + 1 \in {1, 2, 3}
    BY Z3
  <2>4. \A s : Triple(s, i % 3) \in {<<s, "total">>, <<s, "success">>, <<s, "errors">>}
    BY <2>3 DEF Triple
  <2>5. CounterAt(i) = Triple((i - 6) \div 3, i % 3)
    BY <1>3 DEF CounterAt
  <2> QED
    BY <2>2, <2>4, <2>5 DEF Counters, Kinds
<1> QED
  BY <1>1, <1>2, <1>3

\* ... and visits every one of them.
LEMMA WalkVisitsAll ==
  ASSUME NEW c \in Counters
  PROVE  \E i \in 1 .. NumCounters : CounterAt(i) = c
<1> NumTypes \in Nat /\ NumCounters = 5 + 3 * NumTypes
  BY MetricsAssumption DEF NumCounters
<1>1. CASE c = Sent
  BY <1>1 DEF CounterAt
<1>2. CASE c = Received
  BY <1>2 DEF CounterAt
<1>3. CASE c \in (Types \cup {All}) \X Kinds
  <2>1. PICK s \in Types \cup {All}, k \in Kinds : c = <<s, k>>
    BY <1>3
  <2>2. PICK j \in 0 .. 2 : Triple(s, j) = c
    <3>1. /\ Triple(s, 0) = <<s, "total">> /\ Triple(s, 1) = <<s, "success">>
          /\ Triple(s, 2) = <<s, "errors">>
      BY DEF Triple
    <3> QED
      BY <2>1, <3>1 DEF Kinds
  <2>3. CASE s = All
    <3>1. 3 + j \in 1 .. NumCounters /\ ~ (3 + j <= 2) /\ 3 + j <= 5 /\ 3 + j - 3 = j
      OBVIOUS
    <3>2. CounterAt(3 + j) = Triple(All, j)
      BY <3>1 DEF CounterAt
    <3> QED
      BY <2>2, <2>3, <3>1, <3>2
  <2>4. CASE s \in Types
    <3>1. s \in Nat /\ s <= NumTypes - 1
      BY <2>4 DEF Types
    <3> DEFINE i == 6 + 3 * s + j
    <3>2. i \in 1 .. NumCounters /\ ~ (i <= 2) /\ ~ (i <= 5)
      BY <3>1
    <3>3. (i - 6) \div 3 = s /\ i % 3 = j
      BY <3>1, Z3
    <3>4. CounterAt(i) = Triple(s, j)
      BY <3>2, <3>3 DEF CounterAt
    <3> QED
      BY <2>2, <3>2, <3>4
  <2> QED
    BY <2>3, <2>4
<1> QED
  BY <1>1, <1>2, <1>3 DEF Counters

\* An increment changes one counter.
LEMMA AddToOne ==
  ASSUME counter \in [Counters -> Nat], NEW c \in Counters, NEW n \in Nat, Add(c, n)
  PROVE  /\ counter' \in [Counters -> Nat]
         /\ counter'[c] = counter[c] + n
         /\ \A d \in Counters : d # c => counter'[d] = counter[d]
BY DEF Add

LEMMA IncrementOne ==
  ASSUME counter \in [Counters -> Nat], NEW c \in Counters, Increment(c)
  PROVE  /\ counter' \in [Counters -> Nat]
         /\ counter'[c] = counter[c] + 1
         /\ \A d \in Counters : d # c => counter'[d] = counter[d]
BY AddToOne DEF Increment

\* Where counting bytes takes a task ...
CountsBytes(t, from, to) ==
  /\ Move(t, from, to)
  /\ \/ from = "open" /\ to = "sent"
     \/ from = "sent" /\ to \in {"short", "answered"}

\* ... and what it leaves alone.
LEMMA BytesAreApart ==
  ASSUME TypeOK, NEW t \in Tasks, CountSent(t) \/ CountReceived(t)
  PROVE  /\ \E from, to \in Places : CountsBytes(t, from, to)
         /\ counter' \in [Counters -> Nat]
         /\ \A d \in Counters : d # Sent /\ d # Received => counter'[d] = counter[d]
         /\ \A d \in Counters : counter'[d] >= counter[d]
         /\ UNCHANGED <<type, ok, opened, reader, snap, dumps, eraser, resets>>
<1>1. PICK c \in {Sent, Received}, n \in Nat : Add(c, n)
  BY MetricsAssumption DEF CountSent, CountReceived, kMinRequestSize, kMaxPduSize
<1>2. /\ counter' \in [Counters -> Nat] /\ c \in Counters
      /\ counter'[c] = counter[c] + n
      /\ \A d \in Counters : d # c => counter'[d] = counter[d]
  BY <1>1, CounterNames, AddToOne DEF TypeOK
<1>3. \A d \in Counters : counter[d] \in Nat
  BY DEF TypeOK
<1>4. \E from, to \in Places : CountsBytes(t, from, to)
  BY DEF CountSent, CountReceived, CountsBytes, Places
<1>5. UNCHANGED <<type, ok, opened, reader, snap, dumps, eraser, resets>>
  BY DEF CountSent, CountReceived, dumpVars, resetVars
<1> QED
  BY <1>2, <1>3, <1>4, <1>5

----------------------------------------------------------------------------
(***************************************************************************)
(* Lemmas about the sum over the message types.  They are by induction on  *)
(* the number of types, from the least number that would be an exception.  *)
(***************************************************************************)

One(b) == IF b THEN 1 ELSE 0

LEMMA LeastNumber ==
  ASSUME NEW S, S \subseteq Nat, S # {}
  PROVE  \E x \in S : \A y \in S : x <= y
<1> DEFINE R == {ss \in Nat \X Nat : ss[1] < ss[2]}
<1>1. IsWellFoundedOn(R, Nat)
  BY NatLessThanWellFounded DEF OpToRel
<1>2. ASSUME NEW x \in Nat, NEW y \in Nat, y < x
      PROVE  <<y, x>> \in R
  BY <1>2
<1> HIDE DEF R
<1>3. PICK x \in S : \A y \in S : ~ (<<y, x>> \in R)
  BY <1>1, WFMin
<1>4. x \in Nat /\ \A y \in S : y \in Nat /\ ~ (y < x)
  BY <1>2, <1>3
<1> QED
  BY <1>4

LEMMA Induct ==
  ASSUME NEW S, 0 \in S, \A n \in Nat : n \in S => n + 1 \in S
  PROVE  Nat \subseteq S
<1> SUFFICES ASSUME ~ (Nat \subseteq S) PROVE FALSE
  OBVIOUS
<1>1. PICK n \in Nat \ S : \A m \in Nat \ S : n <= m
  BY LeastNumber
<1> QED
  BY <1>1

\* Sums of any number of terms exist.
LEMMA SumsExist ==
  ASSUME NEW N \in Nat, NEW f \in [0 .. N - 1 -> Nat]
  PROVE  \E s \in [0 .. N -> Nat] :
           s = [n \in 0 .. N |-> IF n = 0 THEN 0 ELSE s[n - 1] + f[n - 1]]
<1> DEFINE Sums(m) == \E s \in [0 .. m -> Nat] :
                        s = [n \in 0 .. m |-> IF n = 0 THEN 0 ELSE s[n - 1] + f[n - 1]]
           S == {m \in Nat : m <= N => Sums(m)}
<1>1. 0 \in S
  <2>1. [n \in 0 .. 0 |-> 0] =
          [n \in 0 .. 0 |-> IF n = 0 THEN 0 ELSE [k \in 0 .. 0 |-> 0][n - 1] + f[n - 1]]
    OBVIOUS
  <2>2. [n \in 0 .. 0 |-> 0] \in [0 .. 0 -> Nat]
    OBVIOUS
  <2> QED
    BY <2>1, <2>2
<1>2. ASSUME NEW m \in Nat, m \in S
      PROVE  m + 1 \in S
  <2> HIDE DEF Sums
  <2> SUFFICES ASSUME m + 1 <= N PROVE Sums(m + 1)
    OBVIOUS
  <2> USE DEF Sums
  <2>1. PICK s \in [0 .. m -> Nat] :
               s = [n \in 0 .. m |-> IF n = 0 THEN 0 ELSE s[n - 1] + f[n - 1]]
    BY <1>2
  <2> DEFINE r == [n \in 0 .. m + 1 |-> IF n = m + 1 THEN s[m] + f[m] ELSE s[n]]
  <2>2. f[m] \in Nat /\ s[m] \in Nat
    OBVIOUS
  <2>3. r \in [0 .. m + 1 -> Nat]
    BY <2>2
  <2>4. ASSUME NEW n \in 0 .. m + 1
        PROVE  r[n] = IF n = 0 THEN 0 ELSE r[n - 1] + f[n - 1]
    <3>1. CASE n = m + 1
      <4>1. n - 1 = m /\ n # 0 /\ m \in 0 .. m + 1 /\ m # m + 1
        BY <3>1
      <4>2. r[m] = s[m] /\ r[n] = s[m] + f[m]
        BY <3>1, <4>1
      <4> QED
        BY <4>1, <4>2
    <3>2. CASE n # m + 1
      <4>1. n \in 0 .. m /\ r[n] = s[n]
        BY <3>2
      <4>2. s[n] = IF n = 0 THEN 0 ELSE s[n - 1] + f[n - 1]
        BY <2>1, <4>1
      <4>3. n # 0 => r[n - 1] = s[n - 1]
        BY <4>1
      <4> QED
        BY <4>1, <4>2, <4>3
    <3> QED
      BY <3>1, <3>2
  <2>5. r = [n \in 0 .. m + 1 |-> IF n = 0 THEN 0 ELSE r[n - 1] + f[n - 1]]
    BY <2>4
  <2> QED
    BY <2>3, <2>5
<1> HIDE DEF S, Sums
<1>3. N \in S
  BY <1>1, <1>2, Induct
<1>4. Sums(N)
  BY <1>3 DEF S
<1> QED
  BY <1>4 DEF Sums

IsSumOf(s, f, N) ==
  s \in [0 .. N -> Nat] /\ s[0] = 0 /\ \A n \in 0 .. N - 1 : s[n + 1] = s[n] + f[n]

LEMMA SumsAreSums ==
  ASSUME NEW N \in Nat, NEW f \in [0 .. N - 1 -> Nat], NEW s
  PROVE  s = [n \in 0 .. N |-> IF n = 0 THEN 0 ELSE s[n - 1] + f[n - 1]]
           => IsSumOf(s, f, N)
<1>0. SUFFICES ASSUME s = [n \in 0 .. N |-> IF n = 0 THEN 0 ELSE s[n - 1] + f[n - 1]]
               PROVE  IsSumOf(s, f, N)
  OBVIOUS
<1>1. \A k \in 0 .. N : s[k] = IF k = 0 THEN 0 ELSE s[k - 1] + f[k - 1]
  BY <1>0
<1>2. s[0] = 0
  BY <1>1
<1>3. ASSUME NEW n \in 0 .. N - 1
      PROVE  s[n + 1] = s[n] + f[n] /\ f[n] \in Nat
  <2>1. n + 1 \in 0 .. N /\ n + 1 # 0 /\ n + 1 - 1 = n
    OBVIOUS
  <2>2. s[n + 1] = s[n + 1 - 1] + f[n + 1 - 1]
    BY <1>1, <2>1
  <2> QED
    BY <2>1, <2>2
<1> DEFINE S == {n \in Nat : n <= N => s[n] \in Nat}
<1>4. 0 \in S
  BY <1>2
<1>5. ASSUME NEW n \in Nat, n \in S
      PROVE  n + 1 \in S
  <2> SUFFICES ASSUME n + 1 <= N PROVE s[n + 1] \in Nat
    OBVIOUS
  <2>1. n \in 0 .. N - 1 /\ s[n] \in Nat
    BY <1>5
  <2> QED
    BY <1>3, <2>1
<1> HIDE DEF S
<1>6. Nat \subseteq S
  BY <1>4, <1>5, Induct
<1>7. \A n \in 0 .. N : s[n] \in Nat
  BY <1>6 DEF S
<1>8. s \in [0 .. N -> Nat]
  BY <1>0, <1>7
<1> QED
  BY <1>2, <1>3, <1>8 DEF IsSumOf

\* Two sums whose terms differ by one at most at one place.
OneMoreAt(g, f, N, y) == \A n \in 0 .. N - 1 : g[n] = f[n] + One(n = y)
OneMore(r, s, N, y) == r[N] = s[N] + One(y < N)

LEMMA SumsCompare ==
  ASSUME NEW N \in Nat, NEW f \in [0 .. N - 1 -> Nat], NEW g \in [0 .. N - 1 -> Nat],
         NEW s, IsSumOf(s, f, N), NEW r, IsSumOf(r, g, N), NEW y \in Nat,
         OneMoreAt(g, f, N, y)
  PROVE  OneMore(r, s, N, y)
<1> DEFINE S == {n \in Nat : n <= N => r[n] = s[n] + One(y < n)}
<1>1. 0 \in S
  BY DEF IsSumOf, One
<1>2. ASSUME NEW n \in Nat, n \in S
      PROVE  n + 1 \in S
  <2> SUFFICES ASSUME n + 1 <= N PROVE r[n + 1] = s[n + 1] + One(y < n + 1)
    OBVIOUS
  <2>1. n \in 0 .. N - 1 /\ n \in 0 .. N /\ r[n] = s[n] + One(y < n)
    BY <1>2
  <2>2. s[n + 1] = s[n] + f[n] /\ r[n + 1] = r[n] + g[n] /\ s[n] \in Nat
    BY <2>1 DEF IsSumOf
  <2>3. g[n] = f[n] + One(n = y) /\ f[n] \in Nat
    BY <2>1 DEF OneMoreAt
  <2> HIDE DEF S
  <2>4. One(y < n + 1) = One(y < n) + One(n = y)
    BY DEF One
  <2>5. One(y < n) \in Nat /\ One(n = y) \in Nat
    BY DEF One
  <2>6. r[n + 1] = s[n] + One(y < n) + (f[n] + One(n = y))
    BY <2>1, <2>2, <2>3
  <2>7. \A i, j, k, m \in Nat : i + j + (k + m) = i + k + (j + m)
    OBVIOUS
  <2> QED
    BY <2>2, <2>3, <2>4, <2>5, <2>6, <2>7
<1> HIDE DEF S
<1>3. N \in S
  BY <1>1, <1>2, Induct
<1> QED
  BY <1>3 DEF S, OneMore

LEMMA SumOfNothing ==
  ASSUME NEW N \in Nat, NEW f \in [0 .. N - 1 -> Nat], NEW s, IsSumOf(s, f, N),
         \A n \in 0 .. N - 1 : f[n] = 0
  PROVE  s[N] = 0
<1> DEFINE S == {n \in Nat : n <= N => s[n] = 0}
<1>1. 0 \in S
  BY DEF IsSumOf
<1>2. ASSUME NEW n \in Nat, n \in S
      PROVE  n + 1 \in S
  <2> SUFFICES ASSUME n + 1 <= N PROVE s[n + 1] = 0
    OBVIOUS
  <2>1. n \in 0 .. N - 1 /\ s[n] = 0 /\ f[n] = 0
    BY <1>2
  <2>2. s[n + 1] = s[n] + f[n]
    BY <2>1 DEF IsSumOf
  <2> QED
    BY <2>1, <2>2
<1> HIDE DEF S
<1>3. N \in S
  BY <1>1, <1>2, Induct
<1> QED
  BY <1>3 DEF S

\* What SumOver computes.
LEMMA SumIs ==
  ASSUME NEW c \in [Counters -> Nat], NEW kind \in Kinds
  PROVE  \E f \in [Types -> Nat], s \in [0 .. NumTypes -> Nat] :
           /\ IsSumOf(s, f, NumTypes)
           /\ \A n \in Types : f[n] = c[<<n, kind>>]
           /\ SumOver(c, kind) = s[NumTypes]
<1> DEFINE IsSum(s) == s = [n \in 0 .. NumTypes |->
                               IF n = 0 THEN 0 ELSE s[n - 1] + c[<<n - 1, kind>>]]
           f == [n \in Types |-> c[<<n, kind>>]]
           sum == CHOOSE s : IsSum(s)
<1> NumTypes \in Nat /\ Types = 0 .. NumTypes - 1
  BY MetricsAssumption DEF Types
<1>1. f \in [0 .. NumTypes - 1 -> Nat]
  BY CounterNames
<1>2. PICK r \in [0 .. NumTypes -> Nat] :
             r = [n \in 0 .. NumTypes |-> IF n = 0 THEN 0 ELSE r[n - 1] + f[n - 1]]
  BY <1>1, SumsExist
<1>3. ASSUME NEW n \in 0 .. NumTypes, n # 0
      PROVE  f[n - 1] = c[<<n - 1, kind>>] /\ f[n - 1] \in Nat
  BY <1>1, <1>3
<1>4. IsSum(r)
  BY <1>2, <1>3
<1>5. IsSum(sum)
  BY <1>4
<1>6. SumOver(c, kind) = sum[NumTypes]
  BY DEF SumOver
<1>7. \A n \in Types : f[n] = c[<<n, kind>>]
  OBVIOUS
<1> HIDE DEF sum, f
<1>8. sum = [n \in 0 .. NumTypes |-> IF n = 0 THEN 0 ELSE sum[n - 1] + f[n - 1]]
  BY <1>3, <1>5
<1>9. IsSumOf(sum, f, NumTypes)
  BY <1>1, <1>8, SumsAreSums
<1> QED
  BY <1>1, <1>6, <1>7, <1>9 DEF IsSumOf

\* An increment of the counter of one type is one more in the sum, and what changes
\* none of them leaves it.
LEMMA SumCompare ==
  ASSUME NEW c \in [Counters -> Nat], NEW d \in [Counters -> Nat], NEW kind \in Kinds,
         NEW y \in Nat, \A n \in Types : d[<<n, kind>>] = c[<<n, kind>>] + One(n = y)
  PROVE  SumOver(c, kind) \in Nat /\ SumOver(d, kind) = SumOver(c, kind) + One(y < NumTypes)
<1> NumTypes \in Nat /\ Types = 0 .. NumTypes - 1
  BY MetricsAssumption DEF Types
<1>1. PICK f \in [Types -> Nat], s \in [0 .. NumTypes -> Nat] :
        /\ IsSumOf(s, f, NumTypes)
        /\ \A n \in Types : f[n] = c[<<n, kind>>]
        /\ SumOver(c, kind) = s[NumTypes]
  BY SumIs
<1>2. PICK g \in [Types -> Nat], r \in [0 .. NumTypes -> Nat] :
        /\ IsSumOf(r, g, NumTypes)
        /\ \A n \in Types : g[n] = d[<<n, kind>>]
        /\ SumOver(d, kind) = r[NumTypes]
  BY SumIs
<1>3. OneMoreAt(g, f, NumTypes, y)
  BY <1>1, <1>2 DEF OneMoreAt
<1>4. OneMore(r, s, NumTypes, y)
  <2>1. f \in [0 .. NumTypes - 1 -> Nat] /\ g \in [0 .. NumTypes - 1 -> Nat]
    OBVIOUS
  <2>2. IsSumOf(s, f, NumTypes) /\ IsSumOf(r, g, NumTypes)
    BY <1>1, <1>2
  <2>3. NumTypes \in Nat
    OBVIOUS
  <2> QED
    BY <1>3, <2>1, <2>2, <2>3, SumsCompare, Zenon
<1>5. s[NumTypes] \in Nat
  BY <1>1 DEF IsSumOf
<1> QED
  BY <1>1, <1>2, <1>4, <1>5 DEF OneMore

LEMMA SumIsNatural ==
  ASSUME NEW c \in [Counters -> Nat], NEW kind \in Kinds
  PROVE  SumOver(c, kind) \in Nat
<1>1. PICK f \in [Types -> Nat], s \in [0 .. NumTypes -> Nat] : SumOver(c, kind) = s[NumTypes]
  BY SumIs
<1> QED
  BY <1>1, MetricsAssumption

LEMMA SumUnchanged ==
  ASSUME NEW c \in [Counters -> Nat], NEW d \in [Counters -> Nat], NEW kind \in Kinds,
         \A n \in Types : d[<<n, kind>>] = c[<<n, kind>>]
  PROVE  SumOver(d, kind) = SumOver(c, kind)
<1>1. NumTypes \in Nat /\ \A n \in Types : n # NumTypes
  BY MetricsAssumption DEF Types
<1>2. \A n \in Types : d[<<n, kind>>] = c[<<n, kind>>] + One(n = NumTypes)
  BY <1>1, CounterNames DEF One
<1>3. /\ SumOver(c, kind) \in Nat
      /\ SumOver(d, kind) = SumOver(c, kind) + One(NumTypes < NumTypes)
  BY <1>1, <1>2, SumCompare
<1> QED
  BY <1>1, <1>3 DEF One

LEMMA SumOfZero ==
  ASSUME NEW c \in [Counters -> Nat], NEW kind \in Kinds, \A n \in Types : c[<<n, kind>>] = 0
  PROVE  SumOver(c, kind) = 0
<1> NumTypes \in Nat /\ Types = 0 .. NumTypes - 1
  BY MetricsAssumption DEF Types
<1>1. PICK f \in [Types -> Nat], s \in [0 .. NumTypes -> Nat] :
        /\ IsSumOf(s, f, NumTypes)
        /\ \A n \in Types : f[n] = c[<<n, kind>>]
        /\ SumOver(c, kind) = s[NumTypes]
  BY SumIs
<1> QED
  BY <1>1, SumOfNothing

----------------------------------------------------------------------------
(***************************************************************************)
(* Lemmas about who is where.                                              *)
(***************************************************************************)

LEMMA CountTasks ==
  ASSUME NEW S, S \subseteq Tasks
  PROVE  IsFiniteSet(S) /\ Cardinality(S) \in Nat
BY MetricsAssumption, FS_Subset, FS_CardinalityType

\* How many tasks are at some places after one of them moved.
LEMMA MoveCounts ==
  ASSUME pc \in [Tasks -> Places], NEW t \in Tasks, NEW from, NEW to,
         Move(t, from, to), NEW places
  PROVE  /\ Cardinality(At(places)) \in Nat
         /\ Cardinality(At(places)') =
              Cardinality(At(places)) + One(to \in places) - One(from \in places)
<1> DEFINE S == At(places)
           T == At(places)'
<1>1. S \subseteq Tasks /\ IsFiniteSet(S) /\ Cardinality(S) \in Nat
  BY CountTasks DEF At
<1>2. \A u \in Tasks : pc'[u] = IF u = t THEN to ELSE pc[u]
  BY DEF Move
<1>3. pc[t] = from
  BY DEF Move
<1>4. T = {u \in Tasks : pc'[u] \in places}
  BY DEF At
<1>5. CASE to \in places /\ from \in places
  <2>1. T = S
    BY <1>2, <1>3, <1>4, <1>5 DEF At
  <2> QED
    BY <1>1, <1>5, <2>1 DEF One
<1>6. CASE to \in places /\ from \notin places
  <2>1. T = S \cup {t} /\ t \notin S
    BY <1>2, <1>3, <1>4, <1>6 DEF At
  <2>2. Cardinality(T) = Cardinality(S) + 1
    BY <1>1, <2>1, FS_AddElement
  <2> QED
    BY <1>1, <1>6, <2>2 DEF One
<1>7. CASE to \notin places /\ from \in places
  <2>1. T = S \ {t} /\ t \in S
    BY <1>2, <1>3, <1>4, <1>7 DEF At
  <2>2. Cardinality(T) = Cardinality(S) - 1
    BY <1>1, <2>1, FS_RemoveElement
  <2> QED
    BY <1>1, <1>7, <2>2 DEF One
<1>8. CASE to \notin places /\ from \notin places
  <2>1. T = S
    BY <1>2, <1>3, <1>4, <1>8 DEF At
  <2> QED
    BY <1>1, <1>8, <2>1 DEF One
<1> QED
  BY <1>5, <1>6, <1>7, <1>8

\* The same for the tasks whose request is of one message type.
LEMMA MoveCountsOf ==
  ASSUME pc \in [Tasks -> Places], NEW t \in Tasks, NEW from, NEW to,
         Move(t, from, to), UNCHANGED type, NEW places, NEW y
  PROVE  /\ Cardinality(AtOf(places, y)) \in Nat
         /\ Cardinality(AtOf(places, y)') =
              Cardinality(AtOf(places, y))
                + IF type[t] = y THEN One(to \in places) - One(from \in places) ELSE 0
<1> DEFINE S == AtOf(places, y)
           T == AtOf(places, y)'
<1>1. S \subseteq Tasks /\ IsFiniteSet(S) /\ Cardinality(S) \in Nat
  BY CountTasks DEF AtOf, At
<1>2. \A u \in Tasks : pc'[u] = IF u = t THEN to ELSE pc[u]
  BY DEF Move
<1>3. pc[t] = from
  BY DEF Move
<1>4. T = {u \in Tasks : pc'[u] \in places /\ type[u] = y}
  BY DEF AtOf, At
<1>5. S = {u \in Tasks : pc[u] \in places /\ type[u] = y}
  BY DEF AtOf, At
<1>6. CASE type[t] # y \/ (to \in places /\ from \in places)
                       \/ (to \notin places /\ from \notin places)
  <2>1. T = S
    BY <1>2, <1>3, <1>4, <1>5, <1>6
  <2> QED
    BY <1>1, <1>6, <2>1 DEF One
<1>7. CASE type[t] = y /\ to \in places /\ from \notin places
  <2>1. T = S \cup {t} /\ t \notin S
    BY <1>2, <1>3, <1>4, <1>5, <1>7
  <2>2. Cardinality(T) = Cardinality(S) + 1
    BY <1>1, <2>1, FS_AddElement
  <2> QED
    BY <1>1, <1>7, <2>2 DEF One
<1>8. CASE type[t] = y /\ to \notin places /\ from \in places
  <2>1. T = S \ {t} /\ t \in S
    BY <1>2, <1>3, <1>4, <1>5, <1>8
  <2>2. Cardinality(T) = Cardinality(S) - 1
    BY <1>1, <2>1, FS_RemoveElement
  <2> QED
    BY <1>1, <1>8, <2>2 DEF One
<1> QED
  BY <1>6, <1>7, <1>8

----------------------------------------------------------------------------
(***************************************************************************)
(* Types.                                                                  *)
(***************************************************************************)

LEMMA InitType == Init => TypeOK
BY MetricsAssumption DEF Init, TypeOK, Places, NumCounters

LEMMA NextType == TypeOK /\ [Next]_vars => TypeOK'
<1> SUFFICES ASSUME TypeOK, [Next]_vars PROVE TypeOK'
  OBVIOUS
<1> USE DEF TypeOK
<1> NumCounters \in Nat /\ NumCounters >= 5
  BY MetricsAssumption DEF NumCounters
<1>1. CASE UNCHANGED vars
  BY <1>1 DEF vars, taskVars, dumpVars, resetVars
<1>2. ASSUME NEW t \in Tasks, Request(t) PROVE TypeOK'
  <2>1. /\ pc' \in [Tasks -> Places] /\ type' \in [Tasks -> Types]
        /\ ok' \in [Tasks -> BOOLEAN] /\ opened' \in 0 .. MaxRequests
        /\ UNCHANGED <<reader, snap, dumps, eraser, resets>>
    <3>1. CASE \E y \in Types : Open(t, y)
      BY <3>1, MetricsAssumption DEF Open, Move, Places, dumpVars, resetVars
    <3>2. CASE OpenType(t) \/ CloseType(t)
      BY <3>2 DEF OpenType, CloseType, Move, Places, dumpVars, resetVars
    <3>4. CASE CountSent(t) \/ CountReceived(t)
      BY <3>4, BytesAreApart DEF CountsBytes, Move
    <3>3. CASE CloseSuccess(t) \/ CloseError(t)
      BY <3>3 DEF CloseSuccess, CloseError, Move, Places, dumpVars, resetVars
    <3> QED
      BY <1>2, <3>1, <3>2, <3>3, <3>4 DEF Request
  <2>2. CountSent(t) \/ CountReceived(t) \/ \E c \in Counters : Increment(c)
    BY <1>2, CounterNames
    DEF Request, Open, OpenType, CloseSuccess, CloseError, CloseType, Kinds
  <2>3. counter' \in [Counters -> Nat]
    BY <2>2, IncrementOne, BytesAreApart
  <2> QED
    BY <2>1, <2>3
<1>3. CASE DumpStep
  <2>1. reader + 1 \in 1 .. NumCounters
    BY <1>3 DEF DumpStep, Dumping
  <2>2. snap' \in [Counters -> Nat]
    BY <1>3, <2>1, WalkStays DEF DumpStep
  <2>3. reader' \in 0 .. NumCounters - 1 /\ dumps' \in 0 .. MaxDumps
    BY <1>3, <2>1, MetricsAssumption DEF DumpStep, Dumping, EndOfWalk
  <2> QED
    BY <1>3, <2>2, <2>3 DEF DumpStep, taskVars, resetVars
<1>4. CASE ResetStep
  <2>1. counter' \in [Counters -> Nat]
    BY <1>4 DEF ResetStep
  <2>2. eraser' \in 0 .. NumCounters - 1 /\ resets' \in 0 .. MaxResets
    BY <1>4, MetricsAssumption DEF ResetStep, Resetting, EndOfWalk
  <2> QED
    BY <1>4, <2>1, <2>2 DEF ResetStep, taskVars, dumpVars
<1>5. CASE Done
  BY <1>5 DEF Done, vars, taskVars, dumpVars, resetVars
<1> QED
  BY <1>1, <1>2, <1>3, <1>4, <1>5 DEF Next

(***************************************************************************)
(* No counter is ever lost or negative, and neither a dump nor a reset     *)
(* runs past the last message type.                                        *)
(***************************************************************************)
THEOREM TypeCorrect == Spec => []TypeOK
BY InitType, NextType, PTL DEF Spec

----------------------------------------------------------------------------
(***************************************************************************)
(* Requests are counted exactly once.                                      *)
(***************************************************************************)

InScope == {"opening", "open", "sent", "short", "answered"}
InTypeScope == {"open", "sent", "short", "answered", "closing"}

\* Every step of a request moves its task and adds to one counter.
LEMMA RequestKeepsAll ==
  ASSUME TypeOK, NEW t \in Tasks, Request(t), AllConserved
  PROVE  AllConserved'
<1> DEFINE total == counter[<<All, "total">>]
           success == counter[<<All, "success">>]
           errors == counter[<<All, "errors">>]
           n == Cardinality(At(InScope))
<1>1. total \in Nat /\ success \in Nat /\ errors \in Nat /\ total = success + errors + n
  BY CounterNames DEF TypeOK, Kinds, AllConserved, InScope
<1>2. SUFFICES total' = success' + errors' + n'
  BY DEF AllConserved, InScope
<1>3. <<All, "total">> \in Counters /\ <<All, "success">> \in Counters
      /\ <<All, "errors">> \in Counters
  BY CounterNames DEF Kinds
<1>4. ASSUME NEW from, NEW to, Move(t, from, to)
      PROVE  n \in Nat /\ n' = n + One(to \in InScope) - One(from \in InScope)
  BY <1>4, MoveCounts DEF TypeOK
<1>5. ASSUME NEW c \in Counters, Increment(c)
      PROVE  /\ counter'[c] = counter[c] + 1
             /\ \A d \in Counters : d # c => counter'[d] = counter[d]
  BY <1>5, IncrementOne DEF TypeOK
<1>6. CASE \E y \in Types : Open(t, y)
  <2>1. Move(t, "idle", "opening") /\ Increment(<<All, "total">>)
    BY <1>6 DEF Open
  <2>2. total' = total + 1 /\ success' = success /\ errors' = errors
    BY <2>1, <1>3, <1>5
  <2>3. n \in Nat /\ n' = n + 1
    BY <2>1, <1>4 DEF One, InScope
  <2> QED
    BY <2>2, <2>3, <1>1
<1>7. CASE OpenType(t)
  <2>1. Move(t, "opening", "open") /\ Increment(<<type[t], "total">>)
    BY <1>7 DEF OpenType
  <2>2. <<type[t], "total">> \in Counters /\ type[t] # All
    BY CounterNames DEF TypeOK, Kinds
  <2>3. total' = total /\ success' = success /\ errors' = errors
    BY <2>1, <2>2, <1>3, <1>5
  <2>4. n \in Nat /\ n' = n
    BY <2>1, <1>4 DEF One, InScope
  <2> QED
    BY <2>3, <2>4, <1>1
<1>8. CASE CountSent(t) \/ CountReceived(t)
  <2>1. PICK from \in Places, to \in Places : CountsBytes(t, from, to)
    BY <1>8, BytesAreApart
  <2>2. total' = total /\ success' = success /\ errors' = errors
    BY <1>3, <1>8, BytesAreApart, CounterNames DEF Kinds
  <2>3. n \in Nat /\ n' = n
    BY <2>1, <1>4 DEF One, InScope, CountsBytes
  <2> QED
    BY <2>2, <2>3, <1>1
<1>9. CASE CloseSuccess(t)
  <2>1. Move(t, "answered", "closing") /\ Increment(<<All, "success">>)
    BY <1>9 DEF CloseSuccess
  <2>2. total' = total /\ success' = success + 1 /\ errors' = errors
    BY <2>1, <1>3, <1>5
  <2>3. n \in Nat /\ n' = n - 1
    BY <2>1, <1>4 DEF One, InScope
  <2> QED
    BY <2>2, <2>3, <1>1
<1>10. CASE CloseError(t)
  <2>1. PICK from \in {"open", "sent", "short", "answered"} : Move(t, from, "closing")
    BY <1>10 DEF CloseError
  <2>2. Increment(<<All, "errors">>)
    BY <1>10 DEF CloseError
  <2>3. total' = total /\ success' = success /\ errors' = errors + 1
    BY <2>2, <1>3, <1>5
  <2>4. n \in Nat /\ n' = n - 1
    BY <2>1, <1>4 DEF One, InScope
  <2> QED
    BY <2>3, <2>4, <1>1
<1>11. CASE CloseType(t)
  <2>1. /\ Move(t, "closing", "idle")
        /\ Increment(<<type[t], IF ok[t] THEN "success" ELSE "errors">>)
    BY <1>11 DEF CloseType
  <2>2. /\ <<type[t], IF ok[t] THEN "success" ELSE "errors">> \in Counters
        /\ type[t] # All
    BY CounterNames DEF TypeOK, Kinds
  <2>3. total' = total /\ success' = success /\ errors' = errors
    BY <2>1, <2>2, <1>3, <1>5
  <2>4. n \in Nat /\ n' = n
    BY <2>1, <1>4 DEF One, InScope
  <2> QED
    BY <2>3, <2>4, <1>1
<1> QED
  BY <1>6, <1>7, <1>8, <1>9, <1>10, <1>11 DEF Request

LEMMA RequestKeepsTypes ==
  ASSUME TypeOK, NEW t \in Tasks, Request(t), TypesConserved
  PROVE  TypesConserved'
<1> SUFFICES ASSUME NEW y \in Types
             PROVE  (counter[<<y, "total">>] =
                       counter[<<y, "success">>] + counter[<<y, "errors">>]
                         + Cardinality(AtOf(InTypeScope, y)))'
  BY DEF TypesConserved, InTypeScope
<1> DEFINE total == counter[<<y, "total">>]
           success == counter[<<y, "success">>]
           errors == counter[<<y, "errors">>]
           n == Cardinality(AtOf(InTypeScope, y))
<1>1. total \in Nat /\ success \in Nat /\ errors \in Nat /\ total = success + errors + n
  BY CounterNames DEF TypeOK, Kinds, TypesConserved, InTypeScope
<1>2. SUFFICES total' = success' + errors' + n'
  OBVIOUS
<1>3. <<y, "total">> \in Counters /\ <<y, "success">> \in Counters
      /\ <<y, "errors">> \in Counters
  BY CounterNames DEF Kinds
<1>4. ASSUME NEW from, NEW to, Move(t, from, to), UNCHANGED type
      PROVE  /\ n \in Nat
             /\ n' = n + IF type[t] = y THEN One(to \in InTypeScope) - One(from \in InTypeScope)
                         ELSE 0
  BY <1>4, MoveCountsOf DEF TypeOK
<1>5. ASSUME NEW c \in Counters, Increment(c)
      PROVE  /\ counter'[c] = counter[c] + 1
             /\ \A d \in Counters : d # c => counter'[d] = counter[d]
  BY <1>5, IncrementOne DEF TypeOK
<1>6. ASSUME NEW c \in Counters, Increment(c), c[1] # y
      PROVE  total' = total /\ success' = success /\ errors' = errors
  BY <1>6, <1>3, <1>5
<1>7. y # All /\ Sent[1] # y /\ Received[1] # y
  BY CounterNames DEF Sent, Received
<1>8. CASE \E z \in Types : Open(t, z)
  <2>1. Move(t, "idle", "opening") /\ Increment(<<All, "total">>)
        /\ \A u \in Tasks : u # t => type'[u] = type[u]
    BY <1>8 DEF Open, TypeOK
  <2>2. total' = total /\ success' = success /\ errors' = errors
    BY <2>1, <1>6, <1>7, CounterNames DEF Kinds
  <2>3. \A u \in Tasks : pc'[u] = IF u = t THEN "opening" ELSE pc[u]
    BY <2>1 DEF Move, TypeOK
  <2>4. pc[t] = "idle"
    BY <2>1 DEF Move
  <2>5. AtOf(InTypeScope, y)' = AtOf(InTypeScope, y)
    BY <2>1, <2>3, <2>4 DEF AtOf, At, InTypeScope
  <2> QED
    BY <2>2, <2>5, <1>1
<1>9. CASE OpenType(t)
  <2>1. Move(t, "opening", "open") /\ Increment(<<type[t], "total">>) /\ UNCHANGED type
    BY <1>9 DEF OpenType
  <2>2. <<type[t], "total">> \in Counters
    BY CounterNames DEF TypeOK, Kinds
  <2>3. n \in Nat /\ n' = n + IF type[t] = y THEN 1 ELSE 0
    BY <2>1, <1>4 DEF One, InTypeScope
  <2>4. CASE type[t] = y
    <3>1. total' = total + 1 /\ success' = success /\ errors' = errors
      BY <2>1, <2>4, <1>3, <1>5
    <3> QED
      BY <2>3, <2>4, <3>1, <1>1
  <2>5. CASE type[t] # y
    <3>1. total' = total /\ success' = success /\ errors' = errors
      BY <2>1, <2>2, <2>5, <1>6
    <3> QED
      BY <2>3, <2>5, <3>1, <1>1
  <2> QED
    BY <2>4, <2>5
<1>10. CASE CountSent(t) \/ CountReceived(t)
  <2>1. PICK from \in Places, to \in Places : CountsBytes(t, from, to)
    BY <1>10, BytesAreApart
  <2>2. total' = total /\ success' = success /\ errors' = errors /\ UNCHANGED type
    BY <1>3, <1>10, BytesAreApart, CounterNames DEF Kinds
  <2>3. n \in Nat /\ n' = n
    BY <2>1, <2>2, <1>4 DEF One, InTypeScope, CountsBytes
  <2> QED
    BY <2>2, <2>3, <1>1
<1>11. CASE CloseSuccess(t) \/ CloseError(t)
  <2>1. PICK from \in {"open", "sent", "short", "answered"} : Move(t, from, "closing")
    BY <1>11 DEF CloseSuccess, CloseError
  <2>2. /\ Increment(<<All, "success">>) \/ Increment(<<All, "errors">>)
        /\ UNCHANGED type
    BY <1>11 DEF CloseSuccess, CloseError
  <2>3. total' = total /\ success' = success /\ errors' = errors
    BY <2>2, <1>6, <1>7, CounterNames DEF Kinds
  <2>4. n \in Nat /\ n' = n
    BY <2>1, <2>2, <1>4 DEF One, InTypeScope
  <2> QED
    BY <2>3, <2>4, <1>1
<1>12. CASE CloseType(t)
  <2> DEFINE c == <<type[t], IF ok[t] THEN "success" ELSE "errors">>
  <2>1. Move(t, "closing", "idle") /\ Increment(c) /\ UNCHANGED type
    BY <1>12 DEF CloseType
  <2>2. c \in Counters
    BY CounterNames DEF TypeOK, Kinds
  <2>3. n \in Nat /\ n' = n - IF type[t] = y THEN 1 ELSE 0
    BY <2>1, <1>4 DEF One, InTypeScope
  <2>4. CASE type[t] = y
    <3>1. total' = total /\ success' + errors' = success + errors + 1
      <4>1. CASE ok[t]
        <5>1. c = <<y, "success">>
          BY <2>4, <4>1
        <5> QED
          BY <5>1, <2>1, <1>1, <1>3, <1>5
      <4>2. CASE ~ ok[t]
        <5>1. c = <<y, "errors">>
          BY <2>4, <4>2
        <5> QED
          BY <5>1, <2>1, <1>1, <1>3, <1>5
      <4> QED
        BY <4>1, <4>2
    <3>2. success' \in Nat /\ errors' \in Nat
      BY <2>1, <2>2, <1>3, IncrementOne DEF TypeOK
    <3> QED
      BY <2>3, <2>4, <3>1, <3>2, <1>1
  <2>5. CASE type[t] # y
    <3>1. total' = total /\ success' = success /\ errors' = errors
      BY <2>1, <2>2, <2>5, <1>6
    <3> QED
      BY <2>3, <2>5, <3>1, <1>1
  <2> QED
    BY <2>4, <2>5
<1> QED
  BY <1>8, <1>9, <1>10, <1>11, <1>12 DEF Request

\* InOrder for the four counters and the tasks that can still add to them.
Ordered(total, success, sent, received, opening, waiting, answered) ==
  /\ 5 * (success + (waiting + answered)) <= sent
  /\ 3 * (success + answered) <= received
  /\ sent + 253 * opening <= 253 * total
  /\ 5 * (received + 253 * waiting) <= 253 * sent

LEMMA OrderIs ==
  ASSUME TypeOK
  PROVE  InOrder <=> Ordered(counter[<<All, "total">>], counter[<<All, "success">>],
                             counter[Sent], counter[Received],
                             Cardinality(At({"opening", "open"})), Cardinality(At({"sent"})),
                             Cardinality(At({"answered"})))
<1>1. At({"sent", "answered"}) = At({"sent"}) \cup At({"answered"})
      /\ At({"sent"}) \cap At({"answered"}) = {}
  BY DEF At
<1>2. At({"sent"}) \subseteq Tasks /\ At({"answered"}) \subseteq Tasks
  BY DEF At
<1>3. Cardinality(At({"sent", "answered"}))
        = Cardinality(At({"sent"})) + Cardinality(At({"answered"}))
  <2>1. /\ IsFiniteSet(At({"sent"})) /\ Cardinality(At({"sent"})) \in Nat
        /\ IsFiniteSet(At({"answered"})) /\ Cardinality(At({"answered"})) \in Nat
    BY <1>2, CountTasks
  <2>2. Cardinality(At({"sent"}) \cup At({"answered"}))
          = Cardinality(At({"sent"})) + Cardinality(At({"answered"}))
              - Cardinality(At({"sent"}) \cap At({"answered"}))
    BY <2>1, FS_Union
  <2>3. Cardinality(At({"sent"}) \cap At({"answered"})) = 0
    BY <1>1, FS_EmptySet
  <2>4. Cardinality(At({"sent", "answered"})) = Cardinality(At({"sent"}) \cup At({"answered"}))
    BY <1>1
  <2> QED
    BY <2>1, <2>2, <2>3, <2>4
<1> QED
  BY <1>3 DEF InOrder, Ordered, kMinRequestSize, kMinResponseSize, kMaxPduSize

LEMMA RequestKeepsOrder ==
  ASSUME TypeOK, NEW t \in Tasks, Request(t), InOrder
  PROVE  InOrder'
<1> DEFINE total == counter[<<All, "total">>]
           success == counter[<<All, "success">>]
           sent == counter[Sent]
           received == counter[Received]
           opened_ == Cardinality(At({"opening", "open"}))
           sent_ == Cardinality(At({"sent"}))
           answered_ == Cardinality(At({"answered"}))
<1>1. /\ total \in Nat /\ success \in Nat /\ sent \in Nat /\ received \in Nat
      /\ Ordered(total, success, sent, received, opened_, sent_, answered_)
  BY CounterNames, OrderIs DEF TypeOK, Kinds
<1>2. SUFFICES Ordered(total', success', sent', received', opened_', sent_', answered_')
  <2>1. TypeOK'
    BY NextType DEF Next
  <2>2. (TypeOK => (InOrder <=> Ordered(total, success, sent, received, opened_, sent_, answered_)))'
    <3>1. TypeOK => (InOrder <=> Ordered(total, success, sent, received, opened_, sent_, answered_))
      BY OrderIs
    <3> QED
      BY <3>1, OrderIs, PTL
  <2> QED
    BY <2>1, <2>2
<1>3. /\ <<All, "total">> \in Counters /\ <<All, "success">> \in Counters
      /\ <<All, "errors">> \in Counters /\ Sent \in Counters /\ Received \in Counters
      /\ Sent # Received
      /\ <<All, "total">> # Sent /\ <<All, "total">> # Received
      /\ <<All, "success">> # Sent /\ <<All, "success">> # Received
      /\ <<All, "errors">> # Sent /\ <<All, "errors">> # Received
  BY CounterNames DEF Kinds
<1>4. ASSUME NEW from, NEW to, Move(t, from, to)
      PROVE  /\ opened_ \in Nat /\ sent_ \in Nat /\ answered_ \in Nat
             /\ opened_' = opened_ + One(to \in {"opening", "open"})
                                   - One(from \in {"opening", "open"})
             /\ sent_' = sent_ + One(to \in {"sent"}) - One(from \in {"sent"})
             /\ answered_' = answered_ + One(to \in {"answered"}) - One(from \in {"answered"})
  BY <1>4, MoveCounts DEF TypeOK
<1>5. ASSUME NEW c \in Counters, Increment(c)
      PROVE  /\ counter'[c] = counter[c] + 1
             /\ \A d \in Counters : d # c => counter'[d] = counter[d]
  BY <1>5, IncrementOne DEF TypeOK
<1>6. CASE \E y \in Types : Open(t, y)
  <2>1. Move(t, "idle", "opening") /\ Increment(<<All, "total">>)
    BY <1>6 DEF Open
  <2>2. total' = total + 1 /\ success' = success /\ sent' = sent /\ received' = received
    BY <2>1, <1>3, <1>5
  <2>3. /\ opened_ \in Nat /\ opened_' = opened_ + 1 /\ sent_ \in Nat
        /\ sent_' = sent_ /\ answered_ \in Nat /\ answered_' = answered_
    BY <2>1, <1>4 DEF One
  <2> QED
    BY <2>2, <2>3, <1>1 DEF Ordered
<1>7. CASE OpenType(t)
  <2>1. Move(t, "opening", "open") /\ Increment(<<type[t], "total">>)
    BY <1>7 DEF OpenType
  <2>2. /\ <<type[t], "total">> \in Counters /\ type[t] # All
        /\ <<type[t], "total">> # Sent /\ <<type[t], "total">> # Received
    BY CounterNames DEF TypeOK, Kinds
  <2>3. total' = total /\ success' = success /\ sent' = sent /\ received' = received
    BY <2>1, <2>2, <1>3, <1>5
  <2>4. opened_' = opened_ /\ sent_' = sent_ /\ answered_' = answered_
    BY <2>1, <1>4 DEF One
  <2> QED
    BY <2>3, <2>4, <1>1 DEF Ordered
<1>8. CASE CountSent(t)
  <2>1. PICK n \in 5 .. 253 : Move(t, "open", "sent") /\ Add(Sent, n)
    BY <1>8, MetricsAssumption DEF CountSent, kMinRequestSize, kMaxPduSize
  <2>2. total' = total /\ success' = success /\ sent' = sent + n /\ received' = received
    BY <2>1, <1>3, AddToOne DEF TypeOK
  <2>3. /\ opened_ \in Nat /\ opened_' = opened_ - 1
        /\ sent_ \in Nat /\ sent_' = sent_ + 1
        /\ answered_ \in Nat /\ answered_' = answered_
    BY <2>1, <1>4 DEF One
  <2> QED
    BY <2>1, <2>2, <2>3, <1>1 DEF Ordered
<1>9. CASE CountReceived(t)
  <2>1. PICK n \in 0 .. 253 :
          /\ Move(t, "sent", IF n < 3 THEN "short" ELSE "answered")
          /\ Add(Received, n)
    BY <1>9, MetricsAssumption DEF CountReceived, kMinResponseSize, kMaxPduSize
  <2>2. total' = total /\ success' = success /\ sent' = sent /\ received' = received + n
    BY <2>1, <1>3, AddToOne DEF TypeOK
  <2>3. /\ opened_ \in Nat /\ opened_' = opened_ /\ sent_ \in Nat /\ sent_' = sent_ - 1
        /\ answered_ \in Nat /\ answered_' = answered_ + IF n < 3 THEN 0 ELSE 1
    <3>1. CASE n < 3
      BY <2>1, <3>1, <1>4 DEF One
    <3>2. CASE ~ (n < 3)
      BY <2>1, <3>2, <1>4 DEF One
    <3> QED
      BY <3>1, <3>2
  <2> QED
    BY <2>1, <2>2, <2>3, <1>1 DEF Ordered
<1>10. CASE CloseSuccess(t)
  <2>1. Move(t, "answered", "closing") /\ Increment(<<All, "success">>)
    BY <1>10 DEF CloseSuccess
  <2>2. total' = total /\ success' = success + 1 /\ sent' = sent /\ received' = received
    BY <2>1, <1>3, <1>5
  <2>3. /\ opened_ \in Nat /\ opened_' = opened_ /\ sent_ \in Nat /\ sent_' = sent_
        /\ answered_ \in Nat /\ answered_' = answered_ - 1
    BY <2>1, <1>4 DEF One
  <2> QED
    BY <2>2, <2>3, <1>1 DEF Ordered
<1>11. CASE CloseError(t)
  <2>1. PICK from \in {"open", "sent", "short", "answered"} : Move(t, from, "closing")
    BY <1>11 DEF CloseError
  <2>2. Increment(<<All, "errors">>)
    BY <1>11 DEF CloseError
  <2>3. total' = total /\ success' = success /\ sent' = sent /\ received' = received
    BY <2>2, <1>3, <1>5
  <2>4. /\ opened_ \in Nat /\ opened_' \in Int /\ opened_' <= opened_
        /\ sent_ \in Nat /\ sent_' \in Int /\ sent_' <= sent_
        /\ answered_ \in Nat /\ answered_' \in Int /\ answered_' <= answered_
    BY <2>1, <1>4 DEF One
  <2> QED
    BY <2>3, <2>4, <1>1 DEF Ordered
<1>12. CASE CloseType(t)
  <2> DEFINE c == <<type[t], IF ok[t] THEN "success" ELSE "errors">>
  <2>1. Move(t, "closing", "idle") /\ Increment(c)
    BY <1>12 DEF CloseType
  <2>2. c \in Counters /\ type[t] # All /\ c # Sent /\ c # Received
    BY CounterNames DEF TypeOK, Kinds
  <2>3. total' = total /\ success' = success /\ sent' = sent /\ received' = received
    BY <2>1, <2>2, <1>3, <1>5
  <2>4. opened_' = opened_ /\ sent_' = sent_ /\ answered_' = answered_
    BY <2>1, <1>4 DEF One
  <2> QED
    BY <2>3, <2>4, <1>1 DEF Ordered
<1> QED
  BY <1>6, <1>7, <1>8, <1>9, <1>10, <1>11, <1>12 DEF Request

----------------------------------------------------------------------------
(***************************************************************************)
(* The types add up to the total.                                          *)
(***************************************************************************)

LEMMA IncrementInSum ==
  ASSUME counter \in [Counters -> Nat], NEW c \in Counters, Increment(c), NEW kind \in Kinds
  PROVE  /\ SumOver(counter, kind) \in Nat
         /\ SumOver(counter', kind) =
              SumOver(counter, kind) + One(\E y \in Types : c = <<y, kind>>)
<1>1. /\ counter' \in [Counters -> Nat]
      /\ counter'[c] = counter[c] + 1
      /\ \A d \in Counters : d # c => counter'[d] = counter[d]
  BY IncrementOne
<1>2. \A y \in Types : <<y, kind>> \in Counters /\ y \in Nat /\ y < NumTypes
  BY MetricsAssumption, CounterNames DEF Types
<1>3. CASE \E y \in Types : c = <<y, kind>>
  <2>1. PICK y \in Types : c = <<y, kind>>
    BY <1>3
  <2>2. \A n \in Types : counter'[<<n, kind>>] = counter[<<n, kind>>] + One(n = y)
    <3>1. TAKE n \in Types
    <3>2. n # y => <<n, kind>> # c
      BY <2>1
    <3> QED
      BY <1>1, <1>2, <2>1, <3>2 DEF One
  <2>3. /\ SumOver(counter, kind) \in Nat
        /\ SumOver(counter', kind) = SumOver(counter, kind) + One(y < NumTypes)
    <3>1. y \in Nat /\ counter' \in [Counters -> Nat]
      BY <1>1, <1>2
    <3> QED
      BY <2>2, <3>1, SumCompare
  <2> QED
    BY <1>2, <1>3, <2>3 DEF One
<1>4. CASE ~ \E y \in Types : c = <<y, kind>>
  <2>1. NumTypes \in Nat /\ \A n \in Types : n # NumTypes
    BY MetricsAssumption DEF Types
  <2>2. \A n \in Types : counter'[<<n, kind>>] = counter[<<n, kind>>] + One(n = NumTypes)
    <3>1. TAKE n \in Types
    <3>2. <<n, kind>> # c
      BY <1>4
    <3> QED
      BY <1>1, <1>2, <2>1, <3>2 DEF One
  <2>3. /\ SumOver(counter, kind) \in Nat
        /\ SumOver(counter', kind) = SumOver(counter, kind) + One(NumTypes < NumTypes)
    BY <1>1, <2>1, <2>2, SumCompare
  <2> QED
    BY <1>4, <2>1, <2>3 DEF One
<1> QED
  BY <1>3, <1>4

\* How many tasks are closing as a success, or as an error, after one moved.
LEMMA ClosingCounts ==
  ASSUME pc \in [Tasks -> Places], NEW t \in Tasks, NEW from, NEW to,
         Move(t, from, to), \A u \in Tasks : u # t => ok'[u] = ok[u], NEW b
  PROVE  /\ Cardinality(Closing(b)) \in Nat
         /\ Cardinality(Closing(b)') =
              Cardinality(Closing(b)) + One(to = "closing" /\ ok'[t] = b)
                - One(from = "closing" /\ ok[t] = b)
<1> DEFINE S == Closing(b)
           T == Closing(b)'
           In == to = "closing" /\ ok'[t] = b
           Out == from = "closing" /\ ok[t] = b
<1>1. S \subseteq Tasks /\ IsFiniteSet(S) /\ Cardinality(S) \in Nat
  BY CountTasks DEF Closing, At
<1>2. \A u \in Tasks : pc'[u] = IF u = t THEN to ELSE pc[u]
  BY DEF Move
<1>3. pc[t] = from
  BY DEF Move
<1>4. T = {u \in Tasks : pc'[u] = "closing" /\ ok'[u] = b}
  BY DEF Closing, At
<1>5. S = {u \in Tasks : pc[u] = "closing" /\ ok[u] = b}
  BY DEF Closing, At
<1>6. (t \in T <=> In) /\ (t \in S <=> Out)
  BY <1>2, <1>3, <1>4, <1>5
<1>7. \A u \in Tasks : u # t => (u \in T <=> u \in S)
  BY <1>2, <1>4, <1>5
<1>8. T \subseteq Tasks
  BY <1>4
<1> HIDE DEF S, T, In, Out
<1>9. CASE In <=> Out
  <2>1. T = S
    BY <1>1, <1>6, <1>7, <1>8, <1>9
  <2> QED
    BY <1>1, <1>9, <2>1 DEF One, S, T, In, Out
<1>10. CASE In /\ ~ Out
  <2>1. T = S \cup {t} /\ t \notin S
    BY <1>1, <1>6, <1>7, <1>8, <1>10
  <2>2. Cardinality(T) = Cardinality(S) + 1
    BY <1>1, <2>1, FS_AddElement
  <2> QED
    BY <1>1, <1>10, <2>2 DEF One, S, T, In, Out
<1>11. CASE ~ In /\ Out
  <2>1. T = S \ {t} /\ t \in S
    BY <1>1, <1>6, <1>7, <1>8, <1>11
  <2>2. Cardinality(T) = Cardinality(S) - 1
    BY <1>1, <2>1, FS_RemoveElement
  <2> QED
    BY <1>1, <1>11, <2>2 DEF One, S, T, In, Out
<1> QED
  BY <1>9, <1>10, <1>11

LEMMA RequestKeepsMarks ==
  ASSUME TypeOK, NEW t \in Tasks, Request(t), MarkedAtEnd
  PROVE  MarkedAtEnd'
<1>1. CASE \E y \in Types : Open(t, y)
  BY <1>1 DEF TypeOK, MarkedAtEnd, Open, Move
<1>2. CASE OpenType(t) \/ CountSent(t) \/ CountReceived(t) \/ CloseType(t)
  BY <1>2 DEF TypeOK, MarkedAtEnd, OpenType, CountSent, CountReceived, CloseType, Move, Places
<1>3. CASE CloseSuccess(t) \/ CloseError(t)
  BY <1>3 DEF TypeOK, MarkedAtEnd, CloseSuccess, CloseError, Move
<1> QED
  BY <1>1, <1>2, <1>3 DEF Request

LEMMA RequestKeepsSums ==
  ASSUME TypeOK, NEW t \in Tasks, Request(t), MarkedAtEnd, AddUp
  PROVE  AddUp'
<1> DEFINE total == counter[<<All, "total">>]
           success == counter[<<All, "success">>]
           errors == counter[<<All, "errors">>]
           totals == SumOver(counter, "total")
           successes == SumOver(counter, "success")
           errors_ == SumOver(counter, "errors")
           opening == Cardinality(At({"opening"}))
           good == Cardinality(Closing(TRUE))
           bad == Cardinality(Closing(FALSE))
           ClosingMoved(from, to) ==
             /\ to # "closing" /\ from # "closing" => good' = good /\ bad' = bad
             /\ to = "closing" /\ from # "closing" /\ ok'[t] = TRUE
                  => good' = good + 1 /\ bad' = bad
             /\ to = "closing" /\ from # "closing" /\ ok'[t] = FALSE
                  => good' = good /\ bad' = bad + 1
             /\ to # "closing" /\ from = "closing" /\ ok[t] = TRUE
                  => good' = good - 1 /\ bad' = bad
             /\ to # "closing" /\ from = "closing" /\ ok[t] = FALSE
                  => good' = good /\ bad' = bad - 1
           OthersKeep == \A u \in Tasks : u # t => ok'[u] = ok[u]
<1>1. /\ total \in Nat /\ success \in Nat /\ errors \in Nat
      /\ totals \in Nat /\ successes \in Nat /\ errors_ \in Nat
      /\ opening \in Nat /\ good \in Nat /\ bad \in Nat
      /\ totals + opening = total /\ successes + good = success /\ errors_ + bad = errors
  <2>1. total \in Nat /\ success \in Nat /\ errors \in Nat
    BY CounterNames DEF TypeOK, Kinds
  <2>2. totals \in Nat /\ successes \in Nat /\ errors_ \in Nat
    BY SumIsNatural DEF TypeOK, Kinds
  <2>3. At({"opening"}) \subseteq Tasks /\ \A b : Closing(b) \subseteq Tasks
    BY DEF At, Closing
  <2>4. opening \in Nat /\ good \in Nat /\ bad \in Nat
    BY <2>3, CountTasks
  <2>5. totals + opening = total /\ successes + good = success /\ errors_ + bad = errors
    BY DEF AddUp
  <2> QED
    BY <2>1, <2>2, <2>4, <2>5
<1>2. SUFFICES /\ totals' + opening' = total'
               /\ successes' + good' = success'
               /\ errors_' + bad' = errors'
  BY DEF AddUp
<1>3. /\ <<All, "total">> \in Counters /\ <<All, "success">> \in Counters
      /\ <<All, "errors">> \in Counters
  BY CounterNames DEF Kinds
<1>4. ASSUME NEW from, NEW to, Move(t, from, to)
      PROVE  opening' = opening + One(to = "opening") - One(from = "opening")
  <2>1. /\ opening \in Nat
        /\ opening' = opening + One(to \in {"opening"}) - One(from \in {"opening"})
    BY <1>4, MoveCounts DEF TypeOK
  <2> QED
    BY <2>1 DEF One
<1>5. ASSUME NEW from, NEW to, Move(t, from, to), OthersKeep
      PROVE  ClosingMoved(from, to)
  <2>1. /\ good' = good + One(to = "closing" /\ ok'[t] = TRUE)
                        - One(from = "closing" /\ ok[t] = TRUE)
        /\ bad' = bad + One(to = "closing" /\ ok'[t] = FALSE)
                      - One(from = "closing" /\ ok[t] = FALSE)
    BY <1>5, ClosingCounts DEF TypeOK
  <2> HIDE DEF good, bad
  <2> QED
    BY <1>1, <2>1 DEF One
<1>6. ASSUME NEW c \in Counters, Increment(c)
      PROVE  /\ counter'[c] = counter[c] + 1
             /\ \A d \in Counters : d # c => counter'[d] = counter[d]
             /\ totals' = totals + One(\E y \in Types : c = <<y, "total">>)
             /\ successes' = successes + One(\E y \in Types : c = <<y, "success">>)
             /\ errors_' = errors_ + One(\E y \in Types : c = <<y, "errors">>)
  BY <1>6, IncrementOne, IncrementInSum DEF TypeOK, Kinds
<1>7. \A y \in Types : y # All
  BY CounterNames
<1> HIDE DEF totals, successes, errors_, opening, good, bad, OthersKeep, ClosingMoved
<1>8. CASE \E y \in Types : Open(t, y)
  <2>1. /\ Move(t, "idle", "opening") /\ Increment(<<All, "total">>)
        /\ OthersKeep
    BY <1>8 DEF Open, TypeOK, OthersKeep
  <2>2. /\ total' = total + 1 /\ success' = success /\ errors' = errors
        /\ totals' = totals /\ successes' = successes /\ errors_' = errors_
    BY <2>1, <1>1, <1>3, <1>6, <1>7 DEF One
  <2>3. opening' = opening + 1
    BY <2>1, <1>1, <1>4 DEF One
  <2>4. good' = good /\ bad' = bad
    <3>1. ClosingMoved("idle", "opening")
      BY <2>1, <1>5
    <3> QED
      BY <3>1 DEF ClosingMoved
  <2> QED
    BY <1>1, <2>2, <2>3, <2>4
<1>9. CASE OpenType(t)
  <2>1. /\ Move(t, "opening", "open") /\ Increment(<<type[t], "total">>)
        /\ OthersKeep
    BY <1>9 DEF OpenType, OthersKeep
  <2>2. type[t] \in Types /\ <<type[t], "total">> \in Counters
    BY CounterNames DEF TypeOK, Kinds
  <2>3. /\ total' = total /\ success' = success /\ errors' = errors
        /\ totals' = totals + 1 /\ successes' = successes /\ errors_' = errors_
    BY <2>1, <2>2, <1>1, <1>3, <1>6, <1>7 DEF One
  <2>4. opening' = opening - 1
    BY <2>1, <1>1, <1>4 DEF One
  <2>5. good' = good /\ bad' = bad
    <3>1. ClosingMoved("opening", "open")
      BY <2>1, <1>5
    <3> QED
      BY <3>1 DEF ClosingMoved
  <2> QED
    BY <1>1, <2>3, <2>4, <2>5
<1>10. CASE CountSent(t) \/ CountReceived(t)
  <2>1. PICK from \in Places, to \in Places : CountsBytes(t, from, to)
    BY <1>10, BytesAreApart
  <2>2. OthersKeep
    BY <1>10, BytesAreApart DEF OthersKeep
  <2>3. /\ counter \in [Counters -> Nat] /\ counter' \in [Counters -> Nat]
        /\ \A s \in Types \cup {All}, k \in Kinds : counter'[<<s, k>>] = counter[<<s, k>>]
    BY <1>10, BytesAreApart, CounterNames DEF TypeOK
  <2>4. /\ total' = total /\ success' = success /\ errors' = errors
        /\ totals' = totals /\ successes' = successes /\ errors_' = errors_
    BY <2>3, SumUnchanged DEF Kinds, totals, successes, errors_
  <2>5. opening' = opening
    BY <2>1, <1>1, <1>4 DEF One, CountsBytes
  <2>6. good' = good /\ bad' = bad
    <3>1. ClosingMoved(from, to) /\ from # "closing" /\ to # "closing"
      BY <2>1, <2>2, <1>5 DEF CountsBytes
    <3> QED
      BY <3>1 DEF ClosingMoved
  <2> QED
    BY <1>1, <2>4, <2>5, <2>6
<1>11. CASE CloseSuccess(t)
  <2>1. /\ Move(t, "answered", "closing") /\ Increment(<<All, "success">>)
        /\ OthersKeep
        /\ ok'[t] = TRUE
    BY <1>11 DEF CloseSuccess, TypeOK, OthersKeep
  <2>2. /\ total' = total /\ success' = success + 1 /\ errors' = errors
        /\ totals' = totals /\ successes' = successes /\ errors_' = errors_
    BY <2>1, <1>1, <1>3, <1>6, <1>7 DEF One
  <2>3. opening' = opening
    BY <2>1, <1>1, <1>4 DEF One
  <2>4. good' = good + 1 /\ bad' = bad
    <3>1. ClosingMoved("answered", "closing")
      BY <2>1, <1>5
    <3> QED
      BY <2>1, <3>1 DEF ClosingMoved
  <2> QED
    BY <1>1, <2>2, <2>3, <2>4
<1>12. CASE CloseError(t)
  <2>1. PICK from \in {"open", "sent", "short", "answered"} : Move(t, from, "closing")
    BY <1>12 DEF CloseError
  <2>2. Increment(<<All, "errors">>) /\ ok' = ok /\ OthersKeep /\ ~ ok[t]
    BY <1>12, <2>1 DEF CloseError, MarkedAtEnd, Move, OthersKeep
  <2>3. /\ total' = total /\ success' = success /\ errors' = errors + 1
        /\ totals' = totals /\ successes' = successes /\ errors_' = errors_
    BY <2>2, <1>1, <1>3, <1>6, <1>7 DEF One
  <2>4. opening' = opening
    BY <2>1, <1>1, <1>4 DEF One
  <2>5. ok[t] = FALSE
    BY <2>2 DEF TypeOK
  <2>6. good' = good /\ bad' = bad + 1
    <3>1. ok'[t] = FALSE /\ from # "closing"
      BY <2>2, <2>5
    <3>2. ClosingMoved(from, "closing")
      BY <2>1, <2>2, <1>5
    <3> QED
      BY <3>1, <3>2 DEF ClosingMoved
  <2> QED
    BY <1>1, <2>3, <2>4, <2>6
<1>13. CASE CloseType(t) /\ ok[t]
  <2>1. Move(t, "closing", "idle") /\ Increment(<<type[t], "success">>) /\ OthersKeep
    BY <1>13 DEF CloseType, OthersKeep
  <2>2. type[t] \in Types /\ <<type[t], "success">> \in Counters /\ ok[t] = TRUE
    BY <1>13, CounterNames DEF TypeOK, Kinds
  <2>3. /\ total' = total /\ success' = success /\ errors' = errors
        /\ totals' = totals /\ successes' = successes + 1 /\ errors_' = errors_
    BY <2>1, <2>2, <1>1, <1>3, <1>6, <1>7 DEF One
  <2>4. opening' = opening
    BY <2>1, <1>1, <1>4 DEF One
  <2>5. good' = good - 1 /\ bad' = bad
    <3>1. ClosingMoved("closing", "idle")
      BY <2>1, <1>5
    <3> QED
      BY <2>2, <3>1 DEF ClosingMoved
  <2> QED
    BY <1>1, <2>3, <2>4, <2>5
<1>14. CASE CloseType(t) /\ ~ ok[t]
  <2>1. Move(t, "closing", "idle") /\ Increment(<<type[t], "errors">>) /\ OthersKeep
    BY <1>14 DEF CloseType, OthersKeep
  <2>2. type[t] \in Types /\ <<type[t], "errors">> \in Counters /\ ok[t] = FALSE
    BY <1>14, CounterNames DEF TypeOK, Kinds
  <2>3. /\ total' = total /\ success' = success /\ errors' = errors
        /\ totals' = totals /\ successes' = successes /\ errors_' = errors_ + 1
    BY <2>1, <2>2, <1>1, <1>3, <1>6, <1>7 DEF One
  <2>4. opening' = opening
    BY <2>1, <1>1, <1>4 DEF One
  <2>5. good' = good /\ bad' = bad - 1
    <3>1. ClosingMoved("closing", "idle")
      BY <2>1, <1>5
    <3> QED
      BY <2>2, <3>1 DEF ClosingMoved
  <2> QED
    BY <1>1, <2>3, <2>4, <2>5
<1> QED
  BY <1>8, <1>9, <1>10, <1>11, <1>12, <1>13, <1>14 DEF Request

----------------------------------------------------------------------------
(***************************************************************************)
(* Dumps and resets.                                                       *)
(***************************************************************************)

Balanced == AllConserved /\ TypesConserved /\ InOrder /\ MarkedAtEnd /\ AddUp

ZeroAtRest ==
  /\ counter \in [Counters -> Nat]
  /\ \A c \in Counters : counter[c] = 0
  /\ \A t \in Tasks : pc[t] = "idle"

\* With no request under way, counters that are all zero balance.
LEMMA ZeroIsBalanced ==
  ASSUME ZeroAtRest
  PROVE  Balanced
<1> USE DEF ZeroAtRest
<1>1. ASSUME NEW places, "idle" \notin places
      PROVE  Cardinality(At(places)) = 0 /\ \A y : Cardinality(AtOf(places, y)) = 0
  <2>1. At(places) = {} /\ \A y : AtOf(places, y) = {}
    BY <1>1 DEF At, AtOf
  <2> QED
    BY <2>1, FS_EmptySet
<1>2. AllConserved
  <2>1. Cardinality(At({"opening", "open", "sent", "short", "answered"})) = 0
    BY <1>1
  <2> QED
    BY <2>1, CounterNames DEF AllConserved, Kinds
<1>3. TypesConserved
  <2> SUFFICES ASSUME NEW y \in Types
               PROVE  counter[<<y, "total">>] =
                        counter[<<y, "success">>] + counter[<<y, "errors">>]
                          + Cardinality(AtOf({"open", "sent", "short", "answered", "closing"}, y))
    BY DEF TypesConserved
  <2>1. Cardinality(AtOf({"open", "sent", "short", "answered", "closing"}, y)) = 0
    BY <1>1
  <2>2. /\ counter[<<y, "total">>] = 0 /\ counter[<<y, "success">>] = 0
        /\ counter[<<y, "errors">>] = 0
    BY CounterNames DEF Kinds
  <2> QED
    BY <2>1, <2>2
<1>4. InOrder
  <2>1. /\ Cardinality(At({"answered"})) = 0 /\ Cardinality(At({"sent", "answered"})) = 0
        /\ Cardinality(At({"sent"})) = 0 /\ Cardinality(At({"opening", "open"})) = 0
    BY <1>1
  <2>2. /\ counter[<<All, "total">>] = 0 /\ counter[<<All, "success">>] = 0
        /\ counter[Sent] = 0 /\ counter[Received] = 0
    BY CounterNames DEF Kinds
  <2> QED
    BY <2>1, <2>2 DEF InOrder, kMinRequestSize, kMinResponseSize, kMaxPduSize
<1>5. MarkedAtEnd
  BY DEF MarkedAtEnd
<1>6. AddUp
  <2>1. Cardinality(At({"opening"})) = 0
    BY <1>1
  <2>2. \A b : Closing(b) = {}
    BY DEF Closing, At
  <2>3. Cardinality(Closing(TRUE)) = 0 /\ Cardinality(Closing(FALSE)) = 0
    BY <2>2, FS_EmptySet
  <2>4. ASSUME NEW kind \in Kinds
        PROVE  counter[<<All, kind>>] = 0 /\ SumOver(counter, kind) = 0
    <3>1. \A n \in Types : counter[<<n, kind>>] = 0
      BY CounterNames
    <3> QED
      BY <3>1, CounterNames, SumOfZero
  <2>5. /\ counter[<<All, "total">>] = 0 /\ counter[<<All, "success">>] = 0
        /\ counter[<<All, "errors">>] = 0
        /\ SumOver(counter, "total") = 0 /\ SumOver(counter, "success") = 0
        /\ SumOver(counter, "errors") = 0
    BY <2>4 DEF Kinds
  <2>6. 0 + 0 = 0
    OBVIOUS
  <2> QED
    BY <2>1, <2>3, <2>5, <2>6, Zenon DEF AddUp
<1> QED
  BY <1>2, <1>3, <1>4, <1>5, <1>6 DEF Balanced

\* The strengthened invariant.
MetricsInv ==
  /\ TypeOK
  /\ ResetAlone
  /\ ResetsApart /\ ~ Resetting => Balanced

LEMMA ResetKeeps ==
  ASSUME MetricsInv, ResetsApart, ResetStep
  PROVE  ResetAlone' /\ (~ Resetting' => Balanced')
<1>1. \A t \in Tasks : pc'[t] = "idle"
  <2>1. CASE Resetting
    BY <2>1 DEF MetricsInv, ResetAlone, ResetStep, taskVars
  <2>2. CASE ~ Resetting
    <3>1. At(Places \ {"idle"}) = {}
      BY <2>2 DEF ResetStep
    <3>2. \A t \in Tasks : pc[t] \in Places
      BY DEF MetricsInv, TypeOK
    <3> QED
      BY <3>1, <3>2 DEF At, ResetStep, taskVars
  <2> QED
    BY <2>1, <2>2
<1>2. eraser \in 0 .. NumCounters - 1 /\ NumCounters \in Nat
  BY MetricsAssumption DEF MetricsInv, TypeOK, NumCounters
<1>3. \A i \in 1 .. eraser : counter[CounterAt(i)] = 0
  BY <1>2 DEF MetricsInv, ResetAlone, Resetting
<1>4. counter' = [counter EXCEPT ![CounterAt(eraser + 1)] = 0]
  BY DEF ResetStep
<1>5. ASSUME NEW i \in 1 .. eraser + 1
      PROVE  counter'[CounterAt(i)] = 0
  <2>1. i \in 1 .. NumCounters
    BY <1>2
  <2>2. CounterAt(i) \in Counters /\ counter \in [Counters -> Nat]
    BY <2>1, WalkStays DEF MetricsInv, TypeOK
  <2>3. i = eraser + 1 \/ i \in 1 .. eraser
    BY <1>2
  <2> QED
    BY <1>3, <1>4, <2>2, <2>3
<1>6. CASE eraser + 1 = NumCounters
  <2>1. ~ Resetting'
    BY <1>6 DEF Resetting, ResetStep, EndOfWalk
  <2>2. \A c \in Counters : counter'[c] = 0
    <3>1. TAKE c \in Counters
    <3>2. PICK i \in 1 .. NumCounters : CounterAt(i) = c
      BY WalkVisitsAll
    <3> QED
      BY <1>5, <1>6, <3>2
  <2>3. Balanced'
    <3>1. ZeroAtRest => Balanced
      BY ZeroIsBalanced
    <3>2. (ZeroAtRest => Balanced)'
      BY <3>1, ZeroIsBalanced, PTL
    <3>3. ZeroAtRest'
      BY <1>1, <1>4, <2>2 DEF ZeroAtRest, MetricsInv, TypeOK
    <3> QED
      BY <3>2, <3>3
  <2> QED
    BY <2>1, <2>3 DEF ResetAlone
<1>7. CASE eraser + 1 # NumCounters
  <2>1. eraser' = eraser + 1 /\ Resetting'
    BY <1>2, <1>7 DEF Resetting, ResetStep, EndOfWalk
  <2> QED
    BY <2>1, <1>1, <1>5 DEF ResetAlone
<1> QED
  BY <1>6, <1>7

LEMMA NextMetrics == MetricsInv /\ [Next]_vars => MetricsInv'
<1> SUFFICES ASSUME MetricsInv, [Next]_vars PROVE MetricsInv'
  OBVIOUS
<1>1. TypeOK'
  BY NextType DEF MetricsInv
<1>2. SUFFICES ASSUME ResetsApart
               PROVE  ResetAlone' /\ (~ Resetting' => Balanced')
  BY <1>1 DEF MetricsInv, ResetAlone
<1>3. ASSUME UNCHANGED <<pc, type, ok, counter, eraser>>
      PROVE  ResetAlone' /\ (~ Resetting' => Balanced')
  <2>1. AddUp => AddUp'
    BY <1>3 DEF AddUp, At, Closing
  <2> QED
    BY <1>2, <1>3, <2>1
    DEF MetricsInv, ResetAlone, Resetting, Balanced, AllConserved, TypesConserved, InOrder,
        MarkedAtEnd, At, AtOf
<1>4. CASE UNCHANGED vars
  BY <1>3, <1>4 DEF vars, taskVars, resetVars
<1>5. ASSUME NEW t \in Tasks, Request(t)
      PROVE  ResetAlone' /\ (~ Resetting' => Balanced')
  <2>1. eraser' = eraser
    BY <1>5 DEF Request, Open, OpenType, CountSent, CountReceived, CloseSuccess,
                CloseError, CloseType, resetVars
  <2>2. ~ Resetting
    <3>1. SUFFICES ASSUME Resetting PROVE FALSE
      OBVIOUS
    <3>2. pc[t] = "idle"
      BY <1>2, <3>1 DEF MetricsInv, ResetAlone
    <3> QED
      BY <1>2, <1>5, <3>1, <3>2
      DEF Request, Open, OpenType, CountSent, CountReceived, CloseSuccess, CloseError,
          CloseType, Move
  <2>3. Balanced /\ TypeOK
    BY <1>2, <2>2 DEF MetricsInv
  <2>4. Balanced'
    BY <1>5, <2>3, RequestKeepsAll, RequestKeepsTypes, RequestKeepsOrder,
       RequestKeepsMarks, RequestKeepsSums
    DEF Balanced
  <2> QED
    BY <2>1, <2>2, <2>4 DEF ResetAlone, Resetting
<1>6. CASE DumpStep
  BY <1>3, <1>6 DEF DumpStep, taskVars, resetVars
<1>7. CASE ResetStep
  BY <1>2, <1>7, ResetKeeps
<1>8. CASE Done
  BY <1>3, <1>8 DEF Done, vars, taskVars, resetVars
<1> QED
  BY <1>4, <1>5, <1>6, <1>7, <1>8 DEF Next

LEMMA InitMetrics == Init => MetricsInv
<1> SUFFICES ASSUME Init PROVE MetricsInv
  OBVIOUS
<1>1. Balanced
  BY ZeroIsBalanced DEF Init, ZeroAtRest
<1> QED
  BY <1>1, InitType DEF Init, MetricsInv, ResetAlone, Resetting

LEMMA MetricsInvHolds == Spec => []MetricsInv
BY InitMetrics, NextMetrics, PTL DEF Spec

(***************************************************************************)
(* Every request is counted exactly once, as a success or as an error, for *)
(* all requests together and for its message type, whatever the tasks      *)
(* interleave and however often the statistics are reset between requests. *)
(***************************************************************************)
THEOREM EveryRequestCountedOnce == Spec => []Conserved
<1>1. MetricsInv => Conserved
  BY DEF MetricsInv, Balanced, Conserved
<1> QED
  BY <1>1, MetricsInvHolds, PTL

(***************************************************************************)
(* What the message types have counted adds up to what all requests have,  *)
(* but for the requests between two increments, for any number of types.   *)
(***************************************************************************)
THEOREM TypesMakeTheTotal == Spec => []TypesAddUp
<1>1. MetricsInv => TypesAddUp
  BY DEF MetricsInv, Balanced, TypesAddUp
<1> QED
  BY <1>1, MetricsInvHolds, PTL

(***************************************************************************)
(* The bytes counted agree with the requests counted, whatever the sizes   *)
(* of the PDUs: no success without the bytes of a request and a response,  *)
(* none sent that was not begun, none received that was not sent.          *)
(***************************************************************************)
THEOREM BytesInOrder == Spec => []BytesMatchRequests
<1>1. MetricsInv => BytesMatchRequests
  <2> DEFINE total == counter[<<All, "total">>]
             success == counter[<<All, "success">>]
             sent == counter[Sent]
             received == counter[Received]
  <2> SUFFICES ASSUME MetricsInv, ResetsApart, ~ Resetting
               PROVE  /\ 5 * success <= sent
                      /\ 3 * success <= received
                      /\ sent <= 253 * total
                      /\ 5 * received <= 253 * sent
    BY DEF BytesMatchRequests, kMinRequestSize, kMinResponseSize, kMaxPduSize
  <2>1. TypeOK /\ InOrder
    BY DEF MetricsInv, Balanced
  <2>2. total \in Nat /\ success \in Nat /\ sent \in Nat /\ received \in Nat
    BY <2>1, CounterNames DEF TypeOK, Kinds
  <2>3. PICK opening \in Nat, waiting \in Nat, answered \in Nat :
          Ordered(total, success, sent, received, opening, waiting, answered)
    <3>1. \A places : Cardinality(At(places)) \in Nat
      BY CountTasks DEF At
    <3> QED
      BY <2>1, <3>1, OrderIs
  <2> QED
    BY <2>2, <2>3 DEF Ordered
<1> QED
  BY <1>1, MetricsInvHolds, PTL

----------------------------------------------------------------------------
(***************************************************************************)
(* What a dump shows.                                                      *)
(***************************************************************************)

Scopes == Types \cup {All}

\* Where the walk reads the total of a scope; its outcomes come next.
PlaceOf(s) == IF s = All THEN 3 ELSE 6 + 3 * s

LEMMA WalkPlace ==
  ASSUME NEW s \in Scopes, NEW i \in 1 .. NumCounters
  PROVE  /\ PlaceOf(s) \in 3 .. NumCounters - 2
         /\ CounterAt(i) = <<s, "total">> <=> i = PlaceOf(s)
         /\ CounterAt(i) = <<s, "success">> <=> i = PlaceOf(s) + 1
         /\ CounterAt(i) = <<s, "errors">> <=> i = PlaceOf(s) + 2
<1>1. /\ NumTypes \in Nat /\ NumCounters = 5 + 3 * NumTypes
      /\ s \in Nat /\ s <= NumTypes
  BY MetricsAssumption DEF NumCounters, Scopes, Types, All
<1>2. PlaceOf(s) \in 3 .. NumCounters - 2
  BY <1>1 DEF PlaceOf, All
<1>3. \A z : /\ Triple(z, 0) = <<z, "total">> /\ Triple(z, 1) = <<z, "success">>
             /\ Triple(z, 2) = <<z, "errors">>
  BY DEF Triple
<1>4. CASE i <= 2
  <2>1. CounterAt(i) = Sent \/ CounterAt(i) = Received
    BY <1>4 DEF CounterAt
  <2>2. \A k \in Kinds : CounterAt(i) # <<s, k>>
    BY <2>1, CounterNames DEF Scopes
  <2> QED
    BY <1>2, <1>4, <2>2 DEF Kinds
<1>5. CASE ~ (i <= 2) /\ i <= 5
  <2>1. CounterAt(i) = Triple(All, i - 3) /\ i \in {3, 4, 5}
    BY <1>5 DEF CounterAt
  <2>2. CounterAt(i) = IF i = 3 THEN <<All, "total">> ELSE IF i = 4 THEN <<All, "success">>
                       ELSE <<All, "errors">>
    BY <1>3, <2>1
  <2>3. CASE s = All
    BY <1>2, <2>1, <2>2, <2>3 DEF PlaceOf
  <2>4. CASE s # All
    <3>1. PlaceOf(s) >= 6
      BY <1>1, <2>4 DEF PlaceOf
    <3>2. \A k \in Kinds : CounterAt(i) # <<s, k>>
      BY <2>2, <2>4
    <3> QED
      BY <1>2, <2>1, <3>1, <3>2 DEF Kinds
  <2> QED
    BY <2>3, <2>4
<1>6. CASE ~ (i <= 5)
  <2>1. PICK y \in Nat, j \in {0, 1, 2} : i = 6 + 3 * y + j
    <3>1. (i - 6) \div 3 \in Nat /\ (i - 6) % 3 \in {0, 1, 2}
      BY <1>6, Z3
    <3>2. i = 6 + 3 * ((i - 6) \div 3) + ((i - 6) % 3)
      BY <1>6, Z3
    <3> QED
      BY <3>1, <3>2
  <2>2. (i - 6) \div 3 = y /\ i % 3 = j
    BY <2>1, Z3
  <2>3. CounterAt(i) = Triple(y, j)
    BY <1>6, <2>2 DEF CounterAt
  <2>4. y < NumTypes
    BY <1>1, <2>1
  <2>5. CounterAt(i) = IF j = 0 THEN <<y, "total">> ELSE IF j = 1 THEN <<y, "success">>
                       ELSE <<y, "errors">>
    BY <1>3, <2>1, <2>3
  <2>6. CASE s = y
    <3>1. PlaceOf(s) = 6 + 3 * y
      BY <2>4, <2>6, <1>1 DEF PlaceOf, All
    <3> QED
      BY <1>2, <2>1, <2>5, <2>6, <3>1
  <2>7. CASE s # y
    <3>1. \A k \in Kinds : CounterAt(i) # <<s, k>>
      BY <2>5, <2>7
    <3>2. i # PlaceOf(s) /\ i # PlaceOf(s) + 1 /\ i # PlaceOf(s) + 2
      BY <1>1, <1>6, <2>1, <2>7 DEF PlaceOf
    <3> QED
      BY <1>2, <3>1, <3>2 DEF Kinds
  <2> QED
    BY <2>6, <2>7
<1> QED
  BY <1>4, <1>5, <1>6

\* Counters that balance are apart by the requests under way, at most one a task.
LEMMA InFlight ==
  ASSUME TypeOK, Balanced, NEW s \in Scopes
  PROVE  /\ Cardinality(Tasks) \in Nat
         /\ counter[<<s, "total">>] <=
              counter[<<s, "success">>] + counter[<<s, "errors">>] + Cardinality(Tasks)
<1> DEFINE N == Cardinality(Tasks)
<1>1. /\ counter[<<s, "total">>] \in Nat /\ counter[<<s, "success">>] \in Nat
      /\ counter[<<s, "errors">>] \in Nat
  BY CounterNames DEF TypeOK, Kinds, Scopes
<1>2. N \in Nat /\ \A S : S \subseteq Tasks => Cardinality(S) \in Nat /\ Cardinality(S) <= N
  BY MetricsAssumption, FS_Subset, FS_CardinalityType
<1> HIDE DEF N
<1>3. CASE s = All
  <2>1. At(InScope) \subseteq Tasks
    BY DEF At
  <2>2. counter[<<s, "total">>] =
          counter[<<s, "success">>] + counter[<<s, "errors">>] + Cardinality(At(InScope))
    BY <1>3 DEF Balanced, AllConserved, InScope
  <2>3. Cardinality(At(InScope)) \in Nat /\ Cardinality(At(InScope)) <= N
    BY <1>2, <2>1
  <2> QED
    BY <1>1, <1>2, <2>2, <2>3 DEF N
<1>4. CASE s \in Types
  <2>1. AtOf(InTypeScope, s) \subseteq Tasks
    BY DEF At, AtOf
  <2>2. counter[<<s, "total">>] =
          counter[<<s, "success">>] + counter[<<s, "errors">>]
            + Cardinality(AtOf(InTypeScope, s))
    BY <1>4 DEF Balanced, TypesConserved, InTypeScope
  <2>3. Cardinality(AtOf(InTypeScope, s)) \in Nat /\ Cardinality(AtOf(InTypeScope, s)) <= N
    BY <1>2, <2>1
  <2> QED
    BY <1>1, <1>2, <2>2, <2>3 DEF N
<1> QED
  BY <1>3, <1>4 DEF Scopes

\* BacklogBounded holds of a dump that is over.  While it runs, the outcomes it
\* has not read yet are those of the counters, which only grow.
Seen(s) ==
  snap[<<s, "total">>] <=
    (IF reader = PlaceOf(s) THEN counter[<<s, "success">>] ELSE snap[<<s, "success">>])
      + (IF reader \in {PlaceOf(s), PlaceOf(s) + 1}
           THEN counter[<<s, "errors">>] ELSE snap[<<s, "errors">>])
      + Cardinality(Tasks)

DumpInv ==
  ResetsApart =>
    /\ Dumping => ~ Resetting
    /\ \A s \in Scopes : Seen(s)

LEMMA DumpKeeps ==
  ASSUME MetricsInv, DumpInv, ResetsApart, DumpStep
  PROVE  DumpInv'
<1>1. ~ Resetting
  BY DEF DumpStep, DumpInv
<1>2. TypeOK /\ Balanced
  BY <1>1 DEF MetricsInv
<1>3. /\ counter' = counter /\ eraser' = eraser
      /\ snap' = [snap EXCEPT ![CounterAt(reader + 1)] = counter[CounterAt(reader + 1)]]
      /\ reader' = IF reader + 1 = NumCounters THEN 0 ELSE reader + 1
  BY DEF DumpStep, resetVars, EndOfWalk
<1>4. reader \in 0 .. NumCounters - 1 /\ NumCounters \in Nat
  BY <1>2, MetricsAssumption DEF TypeOK, NumCounters
<1>5. reader + 1 \in 1 .. NumCounters
  BY <1>4
<1> SUFFICES ASSUME NEW s \in Scopes
             PROVE  Seen(s)'
  BY <1>1, <1>3 DEF DumpInv, Resetting
<1> DEFINE total == <<s, "total">>
           success == <<s, "success">>
           errors == <<s, "errors">>
           c == CounterAt(reader + 1)
<1>6. total \in Counters /\ success \in Counters /\ errors \in Counters
  BY CounterNames DEF Kinds, Scopes
<1>7. total # success /\ total # errors /\ success # errors
  OBVIOUS
<1>8. PICK p \in 3 .. NumCounters - 2 :
        /\ p = PlaceOf(s)
        /\ c = total <=> reader + 1 = p
        /\ c = success <=> reader + 1 = p + 1
        /\ c = errors <=> reader + 1 = p + 2
  BY <1>5, WalkPlace
<1>9. PICK n \in Nat : n = Cardinality(Tasks) /\ counter[total] <= counter[success] + counter[errors] + n
  BY <1>2, InFlight
<1>10. snap[total] <= (IF reader = p THEN counter[success] ELSE snap[success])
                        + (IF reader \in {p, p + 1} THEN counter[errors] ELSE snap[errors]) + n
  BY <1>8, <1>9 DEF DumpInv, Seen
<1>11. /\ snap' \in [Counters -> Nat]
       /\ \A d \in Counters : snap'[d] = IF d = c THEN counter[d] ELSE snap[d]
  BY <1>2, <1>3, <1>5, WalkStays DEF TypeOK
<1>12. /\ counter[total] \in Nat /\ counter[success] \in Nat /\ counter[errors] \in Nat
       /\ snap[total] \in Nat /\ snap[success] \in Nat /\ snap[errors] \in Nat
  BY <1>2, <1>6 DEF TypeOK
<1>13. /\ snap'[total] = IF total = c THEN counter[total] ELSE snap[total]
       /\ snap'[success] = IF success = c THEN counter[success] ELSE snap[success]
       /\ snap'[errors] = IF errors = c THEN counter[errors] ELSE snap[errors]
  BY <1>6, <1>11
<1> SUFFICES snap'[total] <= (IF reader' = p THEN counter[success] ELSE snap'[success])
                + (IF reader' \in {p, p + 1} THEN counter[errors] ELSE snap'[errors]) + n
  BY <1>3, <1>8, <1>9 DEF Seen
<1> HIDE DEF total, success, errors, c
<1>14. CASE reader + 1 = p
  <2>1. /\ snap'[total] = counter[total] /\ reader' = p
    BY <1>3, <1>4, <1>8, <1>13, <1>14
  <2> QED
    BY <1>9, <2>1
<1>15. CASE reader + 1 = p + 1
  <2>1. /\ snap'[total] = snap[total] /\ snap'[success] = counter[success] /\ reader' = p + 1
        /\ reader = p
    BY <1>3, <1>4, <1>7, <1>8, <1>13, <1>15
  <2> QED
    BY <1>10, <2>1
<1>16. CASE reader + 1 = p + 2
  <2>1. /\ snap'[total] = snap[total] /\ snap'[success] = snap[success]
        /\ snap'[errors] = counter[errors] /\ reader' \in {0, p + 2} /\ reader = p + 1
    BY <1>3, <1>4, <1>7, <1>8, <1>13, <1>16
  <2> QED
    BY <1>10, <2>1
<1>17. CASE reader + 1 \notin {p, p + 1, p + 2}
  <2>1. /\ snap'[total] = snap[total] /\ snap'[success] = snap[success]
        /\ snap'[errors] = snap[errors]
    BY <1>4, <1>8, <1>13, <1>17
  <2>2. reader \notin {p, p + 1} /\ reader' \notin {p, p + 1}
    BY <1>3, <1>4, <1>8, <1>17
  <2> QED
    BY <1>10, <2>1, <2>2
<1> QED
  BY <1>14, <1>15, <1>16, <1>17

LEMMA NextDump ==
  ASSUME MetricsInv, DumpInv, [Next]_vars
  PROVE  DumpInv'
<1> SUFFICES ASSUME ResetsApart PROVE DumpInv'
  BY DEF DumpInv
<1>1. ASSUME UNCHANGED <<reader, snap, counter, eraser>>
      PROVE  DumpInv'
  BY <1>1 DEF DumpInv, Seen, Dumping, Resetting
<1>2. CASE UNCHANGED vars
  BY <1>1, <1>2 DEF vars, dumpVars, resetVars
<1>3. CASE Done
  BY <1>1, <1>3 DEF Done, vars, dumpVars, resetVars
<1>4. CASE DumpStep
  BY <1>4, DumpKeeps
<1>5. CASE ResetStep
  <2>1. ~ Dumping
    BY <1>5 DEF ResetStep, DumpInv
  <2>2. reader' = reader /\ snap' = snap
    BY <1>5 DEF ResetStep, dumpVars
  <2>3. ~ Dumping'
    BY <2>1, <2>2 DEF Dumping
  <2>4. reader \in Nat
    BY MetricsAssumption DEF MetricsInv, TypeOK, NumCounters
  <2>5. ASSUME NEW s \in Scopes
        PROVE  Seen(s)'
    <3>1. PlaceOf(s) \in Nat /\ PlaceOf(s) >= 3
      BY MetricsAssumption DEF PlaceOf, Scopes, Types
    <3>2. reader # PlaceOf(s) /\ reader # PlaceOf(s) + 1
      BY <2>1, <2>4, <3>1 DEF Dumping
    <3> QED
      BY <2>2, <3>2 DEF DumpInv, Seen
  <2> QED
    BY <2>3, <2>5 DEF DumpInv
<1>6. ASSUME NEW t \in Tasks, Request(t)
      PROVE  DumpInv'
  <2>1. reader' = reader /\ snap' = snap /\ eraser' = eraser
    BY <1>6 DEF Request, Open, OpenType, CountSent, CountReceived, CloseSuccess,
                CloseError, CloseType, dumpVars, resetVars
  <2>2. TypeOK
    BY DEF MetricsInv
  <2>3. CountSent(t) \/ CountReceived(t) \/ \E c \in Counters : Increment(c)
    BY <1>6, <2>2, CounterNames
    DEF Request, Open, OpenType, CloseSuccess, CloseError, CloseType, TypeOK, Kinds
  <2>4. \A d \in Counters : counter[d] \in Nat /\ counter'[d] \in Nat /\ counter'[d] >= counter[d]
    <3>1. CASE CountSent(t) \/ CountReceived(t)
      BY <2>2, <3>1, BytesAreApart DEF TypeOK
    <3>2. CASE \E c \in Counters : Increment(c)
      BY <2>2, <3>2, IncrementOne DEF TypeOK
    <3> QED
      BY <2>3, <3>1, <3>2
  <2>5. ASSUME NEW s \in Scopes
        PROVE  Seen(s)'
    <3>1. /\ <<s, "total">> \in Counters /\ <<s, "success">> \in Counters
          /\ <<s, "errors">> \in Counters
      BY CounterNames DEF Kinds, Scopes
    <3>2. /\ snap[<<s, "total">>] \in Nat /\ snap[<<s, "success">>] \in Nat
          /\ snap[<<s, "errors">>] \in Nat
      BY <2>2, <3>1 DEF TypeOK
    <3>3. Cardinality(Tasks) \in Nat
      BY MetricsAssumption, FS_CardinalityType
    <3>4. Seen(s)
      BY DEF DumpInv
    <3> QED
      BY <2>1, <2>4, <3>1, <3>2, <3>3, <3>4 DEF Seen
  <2> QED
    BY <2>1, <2>5 DEF DumpInv, Dumping, Resetting
<1> QED
  BY <1>2, <1>3, <1>4, <1>5, <1>6 DEF Next

LEMMA InitDump == Init => DumpInv
<1> SUFFICES ASSUME Init, NEW s \in Scopes PROVE Seen(s)
  BY DEF Init, DumpInv, Dumping
<1>1. /\ <<s, "total">> \in Counters /\ <<s, "success">> \in Counters
      /\ <<s, "errors">> \in Counters
  BY CounterNames DEF Kinds, Scopes
<1>2. Cardinality(Tasks) \in Nat
  BY MetricsAssumption, FS_CardinalityType
<1> QED
  BY <1>1, <1>2 DEF Init, Seen

(***************************************************************************)
(* A dump reads counter by counter while requests run, and still never     *)
(* shows more requests as open than there are tasks: it reads every total  *)
(* before the outcomes.                                                    *)
(***************************************************************************)
THEOREM DumpsAreConsistent == Spec => []BacklogBounded
<1>1. MetricsInv /\ DumpInv => BacklogBounded
  <2> SUFFICES ASSUME DumpInv, ResetsApart, ~ Dumping, MetricsInv, NEW s \in Scopes
               PROVE  snap[<<s, "total">>] <= Backlog(s)
    BY DEF BacklogBounded, Scopes
  <2>1. reader = 0
    BY MetricsAssumption DEF Dumping, MetricsInv, TypeOK, NumCounters
  <2>2. PlaceOf(s) \in Nat /\ PlaceOf(s) >= 3
    BY MetricsAssumption DEF PlaceOf, Scopes, Types
  <2> QED
    BY <2>1, <2>2 DEF DumpInv, Seen, Backlog
<1>2. MetricsInv /\ DumpInv /\ [Next]_vars => DumpInv'
  BY NextDump
<1> QED
  BY <1>1, <1>2, InitDump, MetricsInvHolds, PTL DEF Spec
=============================================================================
