---- MODULE StoreCallsProofs ----
(***************************************************************************)
(* Proofs about StoreCalls: no scrape slot is lost or used twice, the      *)
(* promises of KeyedMutex are a queue per store, and calls to a store are  *)
(* spaced.                                                                 *)
(***************************************************************************)
EXTENDS StoreCalls, FiniteSetTheorems, SequenceTheorems, TLAPS

----
(* Numbers and sequences *)

LEMMA LeastNumber ==
  ASSUME NEW S, S \subseteq Nat, S # {}
  PROVE  \E x \in S : \A y \in S : x <= y
  <1>1. PICK x \in S : \A y \in S : ~(<<y, x>> \in OpToRel(<, Nat))
    BY NatLessThanWellFounded, WFMin, Zenon
  <1>2. \A y \in S : ~(y < x)
    BY <1>1, Zenon DEF OpToRel
  <1> QED
    BY <1>2

\* As many elements as places, when none comes twice.
LEMMA DistinctElements ==
  ASSUME NEW S, NEW q \in Seq(S),
         \A m, n \in 1..Len(q) : q[m] = q[n] => m = n
  PROVE  /\ IsFiniteSet({q[n] : n \in 1..Len(q)})
         /\ Cardinality({q[n] : n \in 1..Len(q)}) = Len(q)
  <1> DEFINE T == {q[n] : n \in 1..Len(q)}
  <1>1. Len(q) \in Nat /\ DOMAIN q = 1..Len(q) /\ q \in [1..Len(q) -> S]
    BY LenProperties
  <1>2. q \in Bijection(1..Len(q), T)
    <2>1. q \in [1..Len(q) -> T]
      BY <1>1
    <2> QED
      BY <2>1 DEF Bijection, Injection, Surjection, IsInjective
  <1>3. IsFiniteSet(1..Len(q)) /\ Cardinality(1..Len(q)) = Len(q)
    <2>1. Len(q) \in Int /\ 1 \in Int /\ Len(q) >= 0
      BY <1>1
    <2> HIDE DEF T
    <2>2. /\ IsFiniteSet(1..Len(q))
          /\ Cardinality(1..Len(q)) = IF 1 > Len(q) THEN 0 ELSE Len(q) - 1 + 1
      BY <2>1, FS_Interval
    <2> QED
      BY <2>1, <2>2
  <1>4. ExistsBijection(1..Len(q), T)
    BY <1>2 DEF ExistsBijection
  <1> QED
    BY <1>3, <1>4, FS_Bijection

----
(* The queue that the promises of a store make *)

Turn == [key : Stores \cup {None}, promise : Nat \cup {None},
         previous : Nat \cup {None}, inside : BOOLEAN]

CallsOn(table, k) == {c \in Loops : table[c].key = k}

PendingIn(table) == {table[c].promise : c \in {x \in Loops : table[x].key # None}}

\* q holds the calls on store k, each behind the one whose promise it awaits;
\* the first awaits nothing any more and the last is the tail.
IsQueue(q, k, tail, table) ==
    /\ q \in Seq(Loops)
    /\ \A m, n \in 1..Len(q) : q[m] = q[n] => m = n
    /\ CallsOn(table, k) = {q[n] : n \in 1..Len(q)}
    /\ \A n \in 2..Len(q) : table[q[n]].previous = table[q[n - 1]].promise
    /\ q = <<>> => tail = None
    /\ q # <<>> => /\ tail = table[q[Len(q)]].promise
                   /\ table[q[1]].previous \notin PendingIn(table)

Queues(tail, table) == \A k \in Stores : \E q \in Seq(Loops) : IsQueue(q, k, tail[k], table)

\* A call has a promise of its own, a caller without one awaits nothing, and
\* whoever is inside awaits nothing any more.
TurnsFit(table) ==
    /\ \A c \in Loops : table[c].key # None => table[c].promise # None
    /\ \A c \in Loops : table[c].key = None => table[c] = perStore!NoTurn
    /\ \A c, d \in Loops : table[c].promise = table[d].promise /\ table[c].promise # None => c = d
    /\ \A c \in Loops : table[c].inside => table[c].previous \notin PendingIn(table)

\* QueueOf of KeyedMutex, of any table of turns.
QueueIn(table, k) ==
    LET calls == CallsOn(table, k)
        chains == {q \in [1..Cardinality(calls) -> calls] :
                      \A n \in 2..Cardinality(calls) : table[q[n]].previous = table[q[n - 1]].promise}
    IN IF chains = {} THEN <<>> ELSE CHOOSE q \in chains : TRUE

LEMMA SameCardinality ==
  ASSUME NEW S
  PROVE  /\ perStore!Cardinality(S) = Cardinality(S)
         /\ perStore!IsFiniteSet(S) <=> IsFiniteSet(S)
  BY DEF perStore!Cardinality, Cardinality, perStore!IsFiniteSet, IsFiniteSet

LEMMA NoneIsNoNumber == None \notin Nat /\ None \notin Stores /\ IsFiniteSet(Loops) /\ IsFiniteSet(Stores)
  BY GuardAssumption, SlotsAssumption, SameCardinality DEF perStore!MutexAssumption

\* There is one way to order the calls of a store by what they await.
LEMMA OneChain ==
  ASSUME NEW table \in [Loops -> Turn], TurnsFit(table), NEW k \in Stores, NEW tail, NEW q,
         IsQueue(q, k, tail, table),
         NEW r \in [1..Len(q) -> CallsOn(table, k)],
         \A n \in 2..Len(q) : table[r[n]].previous = table[r[n - 1]].promise
  PROVE  r = q
  <1> DEFINE L == Len(q)
  <1>0. L \in Nat
    BY LenProperties DEF IsQueue
  <1>1. /\ q \in [1..L -> Loops] /\ DOMAIN q = 1..L
        /\ CallsOn(table, k) = {q[n] : n \in 1..L}
        /\ \A n \in 1..L : q[n] \in Loops /\ r[n] \in Loops /\ r[n] \in CallsOn(table, k)
    BY LenProperties DEF IsQueue, CallsOn
  <1>2. \A n \in 1..L : \E m \in 1..L : r[n] = q[m]
    BY <1>1
  <1> HIDE DEF L
  <1>3. \A c \in CallsOn(table, k) : table[c].promise \in PendingIn(table) /\ table[c].promise # None
    BY NoneIsNoNumber DEF CallsOn, PendingIn, TurnsFit
  <1>4. ASSUME NEW n \in 2..L, NEW m \in 1..L, r[n] = q[m]
        PROVE  m - 1 \in 1..L /\ n - 1 \in 1..L /\ r[n - 1] = q[m - 1]
    <2>1. n - 1 \in 1..L
      BY <1>0
    <2>2. table[q[m]].previous = table[r[n - 1]].promise
      BY <1>4 DEF L
    <2>3. r[n - 1] \in CallsOn(table, k) /\ r[n - 1] \in Loops
      BY <2>1, <1>1
    <2>4. table[q[m]].previous \in PendingIn(table) /\ table[q[m]].previous # None
      BY <2>2, <2>3, <1>3
    <2>5. m # 1
      <3>1. q # <<>> => table[q[1]].previous \notin PendingIn(table)
        BY DEF IsQueue
      <3>2. q # <<>>
        BY <1>0 DEF L
      <3> QED
        BY <2>4, <3>1, <3>2
    <2>6. m \in 2..L /\ m - 1 \in 1..L
      BY <2>5, <1>0
    <2>7. table[q[m]].previous = table[q[m - 1]].promise
      BY <2>6 DEF IsQueue, L
    <2>8. q[m - 1] \in Loops
      BY <2>6, <1>1
    <2> QED
      BY <2>1, <2>2, <2>3, <2>4, <2>6, <2>7, <2>8 DEF TurnsFit
  <1>5. ASSUME NEW n \in 1..L, NEW m \in 1..L, r[n] = q[m], m < n
        PROVE  FALSE
    <2> DEFINE Bad == {i \in 1..L : \E j \in 1..L : r[i] = q[j] /\ j < i}
    <2>1. PICK i \in Bad : \A x \in Bad : i <= x
      <3>1. Bad \subseteq Nat /\ n \in Bad
        BY <1>5, <1>0
      <3> HIDE DEF Bad
      <3> QED
        BY <3>1, LeastNumber
    <2>2. PICK j \in 1..L : r[i] = q[j] /\ j < i
      BY <2>1
    <2>3. i \in 2..L
      BY <2>2, <1>0
    <2>4. i - 1 \in 1..L /\ j - 1 \in 1..L /\ r[i - 1] = q[j - 1]
      BY <2>2, <2>3, <1>4
    <2>5. i - 1 \in Bad
      BY <2>2, <2>4, <1>0
    <2>6. i <= i - 1
      BY <2>1, <2>5
    <2> QED
      BY <2>3, <2>6, <1>0
  <1>6. ASSUME NEW n \in 1..L, r[n] # q[n]
        PROVE  FALSE
    <2> DEFINE Bad == {i \in Nat : L - i \in 1..L /\ r[L - i] # q[L - i]}
    <2>1. PICK i \in Bad : \A x \in Bad : i <= x
      <3>1. Bad \subseteq Nat /\ L - n \in Bad
        <4>1. L - (L - n) = n /\ L - n \in Nat
          BY <1>0
        <4> QED
          BY <4>1, <1>6
      <3>2. Bad # {}
        BY <3>1
      <3> HIDE DEF Bad
      <3> QED
        BY <3>1, <3>2, LeastNumber
    <2>2. i # 0
      <3>1. ASSUME i = 0 PROVE FALSE
        <4>1. L \in 1..L /\ r[L] # q[L]
          BY <3>1, <2>1, <1>0
        <4>2. PICK m \in 1..L : r[L] = q[m]
          BY <4>1, <1>2
        <4>3. m = L
          BY <4>1, <4>2, <1>5, <1>0
        <4> QED
          BY <4>1, <4>2, <4>3
      <3> QED
        BY <3>1
    <2>3. i - 1 \in Nat /\ L - (i - 1) \in 2..L /\ L - (i - 1) - 1 = L - i
      BY <2>1, <2>2, <1>0
    <2>4. r[L - (i - 1)] = q[L - (i - 1)]
      <3>1. i - 1 \notin Bad
        BY <2>1, <2>3
      <3>2. L - (i - 1) \in 1..L
        BY <2>3, <1>0
      <3> QED
        BY <3>1, <3>2, <2>3
    <2>5. r[L - i] = q[L - i]
      <3> DEFINE n1 == L - (i - 1)
      <3>1. n1 \in 2..L /\ n1 \in 1..L /\ r[n1] = q[n1] /\ n1 - 1 = L - i
        BY <2>3, <2>4, <1>0
      <3> HIDE DEF n1
      <3> QED
        BY <3>1, <1>4
    <2> QED
      BY <2>1, <2>5
  <1> QED
    BY <1>1, <1>6 DEF L

\* So the queue of a store is the only chain of its calls.
LEMMA QueueFound ==
  ASSUME NEW table \in [Loops -> Turn], TurnsFit(table), NEW k \in Stores, NEW tail, NEW q,
         IsQueue(q, k, tail, table)
  PROVE  QueueIn(table, k) = q
  <1> DEFINE calls == CallsOn(table, k)
  <1> DEFINE chains == {r \in [1..Cardinality(calls) -> calls] :
                           \A n \in 2..Cardinality(calls) : table[r[n]].previous = table[r[n - 1]].promise}
  <1>1. Cardinality(calls) = Len(q)
    BY DistinctElements DEF IsQueue
  <1>2. q \in [1..Len(q) -> calls]
    BY LenProperties DEF IsQueue
  <1>3. q \in chains
    BY <1>1, <1>2 DEF IsQueue
  <1>4. \A r \in chains : r = q
    BY <1>1, OneChain
  <1>5. (CHOOSE r \in chains : TRUE) = q
    BY <1>3, <1>4
  <1>6. QueueIn(table, k) = IF chains = {} THEN <<>> ELSE CHOOSE r \in chains : TRUE
    BY DEF QueueIn
  <1> HIDE DEF chains
  <1> QED
    BY <1>3, <1>5, <1>6

LEMMA ImageBound ==
  ASSUME NEW S, IsFiniteSet(S), NEW f, NEW R, f \in Surjection(S, R)
  PROVE  IsFiniteSet(R) /\ Cardinality(R) \in Nat /\ Cardinality(R) <= Cardinality(S)
  <1>1. IsFiniteSet(R) /\ Cardinality(R) <= Cardinality(S)
    BY FS_Surjection
  <1> QED
    BY <1>1, FS_CardinalityType

\* There is always a number that nothing refers to.
LEMMA FreshNumber ==
  ASSUME tails \in [Stores -> Nat \cup {None}], turn \in [Loops -> Turn]
  PROVE  /\ perStore!Fresh \in Nat
         /\ \A k \in Stores : tails[k] # perStore!Fresh
         /\ \A c \in Loops : turn[c].promise # perStore!Fresh /\ turn[c].previous # perStore!Fresh
  <1> DEFINE promises == [c \in Loops |-> turn[c].promise]
             previouses == [c \in Loops |-> turn[c].previous]
             A == {tails[k] : k \in Stores}
             B == {promises[c] : c \in Loops}
             C == {previouses[c] : c \in Loops}
             N == 2 * Cardinality(Loops) + Cardinality(Stores)
  <1>1. Cardinality(Loops) \in Nat /\ Cardinality(Stores) \in Nat
    BY NoneIsNoNumber, FS_CardinalityType
  <1>2. promises \in [Loops -> Nat \cup {None}] /\ previouses \in [Loops -> Nat \cup {None}]
    BY DEF Turn
  <1>3. /\ \A k \in Stores : tails[k] \in A
        /\ \A c \in Loops : turn[c].promise \in B /\ turn[c].previous \in C
    OBVIOUS
  <1> HIDE DEF promises, previouses
  <1>4. IsFiniteSet(A) /\ Cardinality(A) \in Nat /\ Cardinality(A) <= Cardinality(Stores)
    <2>1. tails \in Surjection(Stores, A)
      BY <1>2 DEF Surjection
    <2> HIDE DEF A
    <2> QED
      BY <2>1, NoneIsNoNumber, ImageBound
  <1>5. IsFiniteSet(B) /\ Cardinality(B) \in Nat /\ Cardinality(B) <= Cardinality(Loops)
    <2>1. promises \in Surjection(Loops, B)
      BY <1>2 DEF Surjection
    <2> HIDE DEF B
    <2> QED
      BY <2>1, NoneIsNoNumber, ImageBound
  <1>6. IsFiniteSet(C) /\ Cardinality(C) \in Nat /\ Cardinality(C) <= Cardinality(Loops)
    <2>1. previouses \in Surjection(Loops, C)
      BY <1>2 DEF Surjection
    <2> HIDE DEF C
    <2> QED
      BY <2>1, NoneIsNoNumber, ImageBound
  <1>7. N \in Nat
    BY <1>1
  <1> HIDE DEF A, B, C
  <1>8. IsFiniteSet(A \cup B) /\ Cardinality(A \cup B) \in Nat /\ Cardinality(A \cup B) <= Cardinality(A) + Cardinality(B)
    <2>1. /\ IsFiniteSet(A \cup B)
          /\ Cardinality(A \cup B) = Cardinality(A) + Cardinality(B) - Cardinality(A \cap B)
      BY <1>4, <1>5, FS_Union
    <2>2. Cardinality(A \cup B) \in Nat /\ Cardinality(A \cap B) \in Nat
      BY <2>1, <1>4, FS_CardinalityType, FS_Intersection
    <2> QED
      BY <2>1, <2>2, <1>4, <1>5
  <1>9. /\ IsFiniteSet(A \cup B \cup C) /\ Cardinality(A \cup B \cup C) \in Nat
        /\ Cardinality(A \cup B \cup C) <= Cardinality(A \cup B) + Cardinality(C)
    <2>1. /\ IsFiniteSet((A \cup B) \cup C)
          /\ Cardinality((A \cup B) \cup C) = Cardinality(A \cup B) + Cardinality(C) - Cardinality((A \cup B) \cap C)
      BY <1>8, <1>6, FS_Union
    <2>2. Cardinality((A \cup B) \cup C) \in Nat /\ Cardinality((A \cup B) \cap C) \in Nat
      BY <2>1, <1>8, FS_CardinalityType, FS_Intersection
    <2> QED
      BY <2>1, <2>2, <1>8, <1>6
  <1>10. Cardinality(0..N) = N + 1
    <2>1. 0 \in Int /\ N \in Int /\ ~(0 > N)
      BY <1>7
    <2> HIDE DEF N
    <2>2. Cardinality(0..N) = IF 0 > N THEN 0 ELSE N - 0 + 1
      BY <2>1, FS_Interval
    <2> QED
      BY <2>1, <2>2
  <1>11. ~(0..N \subseteq A \cup B \cup C)
    <2>1. SUFFICES ASSUME 0..N \in SUBSET (A \cup B \cup C) PROVE FALSE
      OBVIOUS
    <2>2. Cardinality(0..N) <= Cardinality(A \cup B \cup C)
      BY <2>1, <1>9, FS_Subset
    <2>3. Cardinality(A \cup B \cup C) <= N
      BY <1>1, <1>4, <1>5, <1>6, <1>8, <1>9
    <2> HIDE DEF N
    <2> QED
      BY <2>2, <2>3, <1>7, <1>9, <1>10
  <1>12. \E n \in 0..N : /\ \A k \in Stores : tails[k] # n
                         /\ \A c \in Loops : turn[c].promise # n /\ turn[c].previous # n
    BY <1>3, <1>11
  <1>13. perStore!Fresh = CHOOSE n \in 0..N : /\ \A k \in Stores : tails[k] # n
                                              /\ \A c \in Loops : turn[c].promise # n /\ turn[c].previous # n
    BY SameCardinality DEF perStore!Fresh
  <1>14. 0..N \subseteq Nat
    BY <1>7
  <1> HIDE DEF N
  <1> QED
    BY <1>12, <1>13, <1>14

\* Who awaits nothing is the first in the queue of the store.
LEMMA FirstInQueue ==
  ASSUME NEW table \in [Loops -> Turn], TurnsFit(table), NEW k \in Stores, NEW tail, NEW q,
         IsQueue(q, k, tail, table),
         NEW c \in Loops, table[c].key = k, table[c].previous \notin PendingIn(table)
  PROVE  q # <<>> /\ q[1] = c
  <1>1. Len(q) \in Nat /\ q \in [1..Len(q) -> Loops]
    BY LenProperties DEF IsQueue
  <1>2. PICK n \in 1..Len(q) : q[n] = c
    BY DEF IsQueue, CallsOn
  <1>3. ASSUME n # 1 PROVE FALSE
    <2>1. n \in 2..Len(q) /\ n - 1 \in 1..Len(q)
      BY <1>1, <1>3
    <2>2. table[c].previous = table[q[n - 1]].promise
      BY <1>2, <2>1 DEF IsQueue
    <2>3. q[n - 1] \in Loops /\ table[q[n - 1]].key # None
      <3>1. q[n - 1] \in CallsOn(table, k)
        BY <2>1 DEF IsQueue
      <3> QED
        BY <3>1, NoneIsNoNumber DEF CallsOn
    <2> QED
      BY <2>2, <2>3 DEF PendingIn
  <1>4. q # <<>>
    <2>1. Len(q) # 0
      BY <1>1, <1>2
    <2> QED
      BY <2>1
  <1> QED
    BY <1>2, <1>3, <1>4

\* A call that enters changes no order.
LEMMA SameQueue ==
  ASSUME NEW table, NEW new,
         \A x \in Loops : /\ new[x].key = table[x].key
                          /\ new[x].promise = table[x].promise
                          /\ new[x].previous = table[x].previous
  PROVE  /\ PendingIn(new) = PendingIn(table)
         /\ \A k \in Stores : \A q, tail : IsQueue(q, k, tail, table) => IsQueue(q, k, tail, new)
  <1>1. PendingIn(new) = PendingIn(table)
    BY DEF PendingIn
  <1>2. ASSUME NEW k \in Stores, NEW q, NEW tail, IsQueue(q, k, tail, table)
        PROVE  IsQueue(q, k, tail, new)
    <2>1. CallsOn(new, k) = CallsOn(table, k)
      BY DEF CallsOn
    <2>2. Len(q) \in Nat /\ \A n \in 1..Len(q) : q[n] \in Loops
      BY <1>2, LenProperties DEF IsQueue
    <2>3. \A n \in 2..Len(q) : n \in 1..Len(q) /\ n - 1 \in 1..Len(q)
      BY <2>2
    <2>4. \A n \in 2..Len(q) : new[q[n]].previous = new[q[n - 1]].promise
      BY <1>2, <2>2, <2>3 DEF IsQueue
    <2>5. q # <<>> => 1 \in 1..Len(q) /\ Len(q) \in 1..Len(q)
      <3>1. q # <<>> => Len(q) # 0
        BY <1>2, EmptySeq DEF IsQueue
      <3> QED
        BY <2>2, <3>1
    <2> QED
      BY <1>1, <1>2, <2>1, <2>2, <2>4, <2>5 DEF IsQueue
  <1> QED
    BY <1>1, <1>2

\* Call c joins store k behind the promise tail and leaves a new one.
Joins(table, new, c, k, tail, fresh) ==
    /\ table[c].key = None
    /\ \A x \in Loops : table[x].promise # fresh /\ table[x].previous # fresh
    /\ tail # fresh
    /\ \A x \in Loops : x # c => new[x] = table[x]
    /\ new[c].key = k /\ new[c].promise = fresh /\ new[c].previous = tail /\ new[c].inside = FALSE

LEMMA JoinQueue ==
  ASSUME NEW table \in [Loops -> Turn], TurnsFit(table),
         NEW c \in Loops, NEW k \in Stores, NEW tail, NEW fresh \in Nat, NEW new,
         Joins(table, new, c, k, tail, fresh)
  PROVE  /\ TurnsFit(new)
         /\ \A q : IsQueue(q, k, tail, table) => IsQueue(Append(q, c), k, fresh, new)
         /\ \A j \in Stores \ {k} : \A q, other : IsQueue(q, j, other, table) => IsQueue(q, j, other, new)
  <1>0. /\ table[c].key = None
        /\ \A x \in Loops : table[x].promise # fresh /\ table[x].previous # fresh
        /\ tail # fresh
        /\ \A x \in Loops : x # c => new[x] = table[x]
        /\ new[c].key = k /\ new[c].promise = fresh /\ new[c].previous = tail /\ new[c].inside = FALSE
    BY DEF Joins
  <1> USE <1>0
  <1>1. PendingIn(new) = PendingIn(table) \cup {fresh}
    BY NoneIsNoNumber DEF PendingIn
  <1>2. TurnsFit(new)
    <2>1. \A x \in Loops : new[x].key # None => new[x].promise # None
      BY NoneIsNoNumber DEF TurnsFit
    <2>2. \A x \in Loops : new[x].key = None => new[x] = perStore!NoTurn
      BY NoneIsNoNumber DEF TurnsFit
    <2>3. \A x, y \in Loops : new[x].promise = new[y].promise /\ new[x].promise # None => x = y
      BY DEF TurnsFit
    <2>4. \A x \in Loops : new[x].inside => new[x].previous \notin PendingIn(new)
      <3> SUFFICES ASSUME NEW x \in Loops, new[x].inside PROVE new[x].previous \notin PendingIn(new)
        OBVIOUS
      <3>1. x # c
        OBVIOUS
      <3> QED
        BY <3>1, <1>1 DEF TurnsFit
    <2> QED
      BY <2>1, <2>2, <2>3, <2>4 DEF TurnsFit
  <1>3. /\ new[c].key = k /\ new[c].promise = fresh /\ new[c].previous = tail
        /\ k # None /\ tail # fresh
        /\ tail = None => tail \notin PendingIn(new)
    BY <1>1, NoneIsNoNumber DEF PendingIn, TurnsFit
  <1>4. ASSUME NEW j \in Stores \ {k}, NEW q, NEW other, IsQueue(q, j, other, table)
        PROVE  IsQueue(q, j, other, new)
    <2>1. CallsOn(new, j) = CallsOn(table, j)
      BY <1>3, NoneIsNoNumber DEF CallsOn
    <2>2. Len(q) \in Nat /\ \A n \in 1..Len(q) : q[n] \in Loops /\ q[n] # c
      BY <1>4, LenProperties, NoneIsNoNumber DEF IsQueue, CallsOn
    <2>3. \A n \in 2..Len(q) : n \in 1..Len(q) /\ n - 1 \in 1..Len(q)
      BY <2>2
    <2>4. \A n \in 2..Len(q) : new[q[n]].previous = new[q[n - 1]].promise
      BY <1>4, <2>2, <2>3 DEF IsQueue
    <2>5. q # <<>> => 1 \in 1..Len(q) /\ Len(q) \in 1..Len(q)
      <3>1. q # <<>> => Len(q) # 0
        BY <1>4, EmptySeq DEF IsQueue
      <3> QED
        BY <2>2, <3>1
    <2>6. q # <<>> => new[q[1]].previous \notin PendingIn(new)
      BY <1>1, <1>4, <2>2, <2>5 DEF IsQueue
    <2> QED
      BY <1>4, <2>1, <2>2, <2>4, <2>5, <2>6 DEF IsQueue
  <1>5. ASSUME NEW q, IsQueue(q, k, tail, table)
        PROVE  IsQueue(Append(q, c), k, fresh, new)
    <2> DEFINE a == Append(q, c)
    <2>1. /\ a \in Seq(Loops) /\ Len(a) = Len(q) + 1 /\ a # <<>> /\ a[Len(q) + 1] = c
          /\ \A n \in 1..Len(q) : a[n] = q[n]
      BY <1>5, AppendProperties DEF IsQueue
    <2>2. Len(q) \in Nat /\ \A n \in 1..Len(q) : q[n] \in Loops /\ q[n] # c
      BY <1>5, LenProperties, NoneIsNoNumber DEF IsQueue, CallsOn
    <2> HIDE DEF a
    <2>3. CallsOn(new, k) = CallsOn(table, k) \cup {c}
      BY <1>3, NoneIsNoNumber DEF CallsOn
    <2>4. \A n \in 1..Len(a) : n \in 1..Len(q) \/ n = Len(q) + 1
      BY <2>1, <2>2
    <2>5. \A m, n \in 1..Len(a) : a[m] = a[n] => m = n
      BY <1>5, <2>1, <2>2, <2>4 DEF IsQueue
    <2>6. CallsOn(new, k) = {a[n] : n \in 1..Len(a)}
      <3>1. CallsOn(table, k) = {q[n] : n \in 1..Len(q)}
        BY <1>5 DEF IsQueue
      <3>2. Len(q) + 1 \in 1..Len(a) /\ \A n \in 1..Len(q) : n \in 1..Len(a)
        BY <2>1, <2>2
      <3>3. \A x \in CallsOn(new, k) : \E n \in 1..Len(a) : a[n] = x
        BY <2>1, <2>3, <3>1, <3>2
      <3>4. \A n \in 1..Len(a) : a[n] \in CallsOn(new, k)
        BY <2>1, <2>3, <2>4, <3>1
      <3> QED
        BY <3>3, <3>4
    <2>7. q # <<>> => 1 \in 1..Len(q) /\ Len(q) \in 1..Len(q)
      <3>1. q # <<>> => Len(q) # 0
        BY <1>5, EmptySeq DEF IsQueue
      <3> QED
        BY <2>2, <3>1
    <2>8. ASSUME NEW n \in 2..Len(a)
          PROVE  new[a[n]].previous = new[a[n - 1]].promise
      <3>1. CASE n \in 1..Len(q)
        <4>1. n \in 2..Len(q) /\ n - 1 \in 1..Len(q)
          BY <3>1, <2>2
        <4>2. table[q[n]].previous = table[q[n - 1]].promise
          BY <4>1, <1>5 DEF IsQueue
        <4> QED
          BY <3>1, <4>1, <4>2, <2>1, <2>2
      <3>2. CASE n = Len(q) + 1
        <4>1. Len(q) \in 1..Len(q) /\ n - 1 = Len(q) /\ Len(q) # 0
          BY <3>2, <2>1, <2>2
        <4>2. q # <<>>
          BY <4>1
        <4>3. tail = table[q[Len(q)]].promise
          BY <4>2, <1>5 DEF IsQueue
        <4> QED
          BY <3>2, <4>1, <4>3, <2>1, <2>2, <1>3
      <3> QED
        BY <2>4, <2>1, <3>1, <3>2, <2>2
    <2>9. new[a[1]].previous \notin PendingIn(new)
      <3>1. CASE q = <<>>
        <4>1. Len(q) = 0 /\ tail = None
          BY <3>1, <1>5 DEF IsQueue
        <4> QED
          BY <4>1, <2>1, <1>3
      <3>2. CASE q # <<>>
        <4>1. table[q[1]].previous \notin PendingIn(table) /\ q[1] \in Loops /\ q[1] # c /\ a[1] = q[1]
          BY <3>2, <2>1, <2>2, <2>7, <1>5 DEF IsQueue
        <4> QED
          BY <4>1, <1>1
      <3> QED
        BY <3>1, <3>2
    <2>10. new[a[Len(a)]].promise = fresh
      BY <2>1, <1>3
    <2> QED
      BY <2>1, <2>5, <2>6, <2>8, <2>9, <2>10 DEF IsQueue, a
  <1> QED
    BY <1>2, <1>4, <1>5

\* The first call leaves, and the one behind it awaits nothing any more.
LEMMA LeaveQueue ==
  ASSUME NEW table \in [Loops -> Turn], TurnsFit(table),
         NEW c \in Loops, NEW k \in Stores, table[c].key = k, table[c].inside, NEW tail,
         NEW new, \A x \in Loops : x # c => new[x] = table[x],
         new[c] = perStore!NoTurn
  PROVE  /\ TurnsFit(new)
         /\ \A q : IsQueue(q, k, tail, table)
              => IsQueue(Tail(q), k, IF tail = table[c].promise THEN None ELSE tail, new)
         /\ \A j \in Stores \ {k} : \A q, other : IsQueue(q, j, other, table) => IsQueue(q, j, other, new)
  <1>1. /\ table[c].key # None /\ table[c].promise # None /\ new[c].key = None
        /\ table[c].previous \notin PendingIn(table)
    BY NoneIsNoNumber DEF TurnsFit, perStore!NoTurn
  <1>2. PendingIn(new) = PendingIn(table) \ {table[c].promise}
    BY <1>1 DEF PendingIn, TurnsFit
  <1>3. TurnsFit(new)
    <2>1. \A x \in Loops : new[x].key # None => new[x].promise # None
      BY <1>1 DEF TurnsFit
    <2>2. \A x \in Loops : new[x].key = None => new[x] = perStore!NoTurn
      BY DEF TurnsFit
    <2>3. \A x, y \in Loops : new[x].promise = new[y].promise /\ new[x].promise # None => x = y
      BY DEF TurnsFit, perStore!NoTurn
    <2>4. \A x \in Loops : new[x].inside => new[x].previous \notin PendingIn(new)
      <3> SUFFICES ASSUME NEW x \in Loops, new[x].inside PROVE new[x].previous \notin PendingIn(new)
        OBVIOUS
      <3>1. x # c
        BY DEF perStore!NoTurn
      <3> QED
        BY <3>1, <1>2 DEF TurnsFit
    <2> QED
      BY <2>1, <2>2, <2>3, <2>4 DEF TurnsFit
  <1>4. ASSUME NEW j \in Stores \ {k}, NEW q, NEW other, IsQueue(q, j, other, table)
        PROVE  IsQueue(q, j, other, new)
    <2>1. CallsOn(new, j) = CallsOn(table, j)
      BY <1>1, NoneIsNoNumber DEF CallsOn
    <2>2. Len(q) \in Nat /\ \A n \in 1..Len(q) : q[n] \in Loops /\ q[n] # c
      BY <1>4, LenProperties, NoneIsNoNumber DEF IsQueue, CallsOn
    <2>3. \A n \in 2..Len(q) : n \in 1..Len(q) /\ n - 1 \in 1..Len(q)
      BY <2>2
    <2>4. \A n \in 2..Len(q) : new[q[n]].previous = new[q[n - 1]].promise
      BY <1>4, <2>2, <2>3 DEF IsQueue
    <2>5. q # <<>> => 1 \in 1..Len(q) /\ Len(q) \in 1..Len(q)
      <3>1. q # <<>> => Len(q) # 0
        BY <1>4, EmptySeq DEF IsQueue
      <3> QED
        BY <2>2, <3>1
    <2>6. q # <<>> => new[q[1]].previous \notin PendingIn(new)
      BY <1>2, <1>4, <2>2, <2>5 DEF IsQueue
    <2> QED
      BY <1>4, <2>1, <2>2, <2>4, <2>5, <2>6 DEF IsQueue
  <1>5. ASSUME NEW q, IsQueue(q, k, tail, table)
        PROVE  IsQueue(Tail(q), k, IF tail = table[c].promise THEN None ELSE tail, new)
    <2> DEFINE t == Tail(q)
    <2>1. q # <<>> /\ q[1] = c
      BY <1>1, <1>5, FirstInQueue
    <2>2. /\ t \in Seq(Loops) /\ Len(t) = Len(q) - 1 /\ Len(q) \in Nat
          /\ \A n \in 1..Len(t) : t[n] = q[n + 1]
      BY <1>5, <2>1, HeadTailProperties, LenProperties DEF IsQueue
    <2>3. Len(q) \in Nat \ {0} /\ \A n \in 1..Len(q) : q[n] \in Loops
      BY <1>5, <2>1, LenProperties, EmptySeq DEF IsQueue
    <2> HIDE DEF t
    <2>4. Len(t) \in Nat /\ 1 \in 1..Len(q) /\ \A n \in 1..Len(t) : n + 1 \in 2..Len(q) /\ n + 1 \in 1..Len(q)
      BY <2>2, <2>3
    <2>5. \A m, n \in 1..Len(q) : q[m] = q[n] => m = n
      BY <1>5 DEF IsQueue
    <2>6. \A n \in 1..Len(t) : t[n] \in Loops /\ t[n] # c /\ new[t[n]] = table[q[n + 1]] /\ t[n] = q[n + 1]
      <3> SUFFICES ASSUME NEW n \in 1..Len(t)
                   PROVE  t[n] \in Loops /\ t[n] # c /\ new[t[n]] = table[q[n + 1]] /\ t[n] = q[n + 1]
        OBVIOUS
      <3>1. t[n] = q[n + 1] /\ n + 1 \in 1..Len(q) /\ n + 1 # 1
        BY <2>2, <2>4
      <3>2. t[n] \in Loops /\ t[n] # c
        BY <3>1, <2>1, <2>3, <2>4, <2>5
      <3> QED
        BY <3>1, <3>2
    <2>7. \A m, n \in 1..Len(t) : t[m] = t[n] => m = n
      <3> SUFFICES ASSUME NEW m \in 1..Len(t), NEW n \in 1..Len(t), t[m] = t[n] PROVE m = n
        OBVIOUS
      <3>1. q[m + 1] = q[n + 1] /\ m + 1 \in 1..Len(q) /\ n + 1 \in 1..Len(q)
        BY <2>2, <2>4
      <3>2. m + 1 = n + 1
        BY <2>5, <3>1
      <3> QED
        BY <3>2, <2>4
    <2>8. CallsOn(new, k) = {t[n] : n \in 1..Len(t)}
      <3>1. CallsOn(new, k) = CallsOn(table, k) \ {c}
        BY <1>1 DEF CallsOn
      <3>2. CallsOn(table, k) = {q[n] : n \in 1..Len(q)}
        BY <1>5 DEF IsQueue
      <3>3. ASSUME NEW x \in CallsOn(new, k)
            PROVE  \E n \in 1..Len(t) : t[n] = x
        <4>1. PICK m \in 1..Len(q) : q[m] = x
          BY <3>1, <3>2, <3>3
        <4>2. m # 1
          BY <4>1, <3>1, <3>3, <2>1
        <4>3. m - 1 \in 1..Len(t) /\ (m - 1) + 1 = m
          BY <4>2, <2>2, <2>3
        <4>4. t[m - 1] = q[(m - 1) + 1]
          BY <4>3, <2>6
        <4> QED
          BY <4>1, <4>3, <4>4
      <3>4. \A n \in 1..Len(t) : t[n] \in CallsOn(new, k)
        BY <3>1, <3>2, <2>4, <2>6
      <3> QED
        BY <3>3, <3>4
    <2>9. ASSUME NEW n \in 2..Len(t)
          PROVE  new[t[n]].previous = new[t[n - 1]].promise
      <3>1. n \in 1..Len(t) /\ n - 1 \in 1..Len(t) /\ (n - 1) + 1 = n /\ (n + 1) - 1 = n
        BY <2>4
      <3>2. n + 1 \in 2..Len(q)
        BY <3>1, <2>4
      <3>3. table[q[n + 1]].previous = table[q[n]].promise
        BY <1>5, <3>1, <3>2 DEF IsQueue
      <3>4. new[t[n]] = table[q[n + 1]] /\ new[t[n - 1]] = table[q[n]]
        BY <3>1, <2>6
      <3> QED
        BY <3>3, <3>4
    <2>10. t = <<>> => tail = table[c].promise
      <3> SUFFICES ASSUME t = <<>> PROVE tail = table[c].promise
        OBVIOUS
      <3>1. Len(t) = 0
        OBVIOUS
      <3>2. Len(q) = 1
        BY <3>1, <2>2
      <3> QED
        BY <1>5, <3>2, <2>1 DEF IsQueue
    <2>11. ASSUME t # <<>>
           PROVE  /\ tail = new[t[Len(t)]].promise
                  /\ tail # table[c].promise
                  /\ new[t[1]].previous \notin PendingIn(new)
      <3>1. Len(t) # 0
        BY <2>2, <2>11, EmptySeq
      <3>2. Len(t) \in 1..Len(t) /\ 1 \in 1..Len(t) /\ Len(t) + 1 = Len(q) /\ 2 \in 2..Len(q) /\ 2 - 1 = 1 /\ 1 + 1 = 2
        BY <3>1, <2>2, <2>4
      <3>3. tail = table[q[Len(q)]].promise /\ new[t[Len(t)]] = table[q[Len(q)]]
            /\ t[Len(t)] \in Loops /\ t[Len(t)] # c /\ t[Len(t)] = q[Len(q)]
        BY <1>5, <2>1, <3>2, <2>6 DEF IsQueue
      <3>4. tail # table[c].promise
        BY <3>3, <1>1 DEF TurnsFit
      <3>5. table[q[2]].previous = table[q[1]].promise
        BY <1>5, <3>2 DEF IsQueue
      <3>6. new[t[1]] = table[q[2]]
        BY <3>2, <2>6
      <3> QED
        BY <3>3, <3>4, <3>5, <3>6, <2>1, <1>2
    <2> QED
      BY <2>2, <2>7, <2>8, <2>9, <2>10, <2>11 DEF IsQueue, t
  <1> QED
    BY <1>3, <1>4, <1>5

----
(* The scrape slots *)

SlotInd == SlotType /\ SlotsConserved

LEMMA InsertedElement ==
  ASSUME NEW S, NEW s \in Seq(S), NEW i \in 1..(Len(s) + 1), NEW e \in S
  PROVE  /\ InsertAt(s, i, e) \in Seq(S)
         /\ Len(InsertAt(s, i, e)) = Len(s) + 1
         /\ \A n \in 1..(Len(s) + 1) : /\ n < i => InsertAt(s, i, e)[n] = s[n]
                                       /\ n = i => InsertAt(s, i, e)[n] = e
                                       /\ n > i => InsertAt(s, i, e)[n] = s[n - 1]
  <1> DEFINE L == Len(s)
             a == SubSeq(s, 1, i - 1)
             b == SubSeq(s, i, L)
  <1>1. L \in Nat /\ i \in Nat /\ 1 <= i /\ i <= L + 1
    BY LenProperties
  <1>2. \A n \in 1..L : s[n] \in S
    BY ElementOfSeq
  <1>3. /\ a \in Seq(S) /\ Len(a) = i - 1
        /\ \A n \in 1..(i - 1) : a[n] = s[n]
    <2>1. (i - 1) \in Int /\ 1 \in Int /\ \A n \in 1..(i - 1) : s[n] \in S
      BY <1>1, <1>2
    <2>2. /\ SubSeq(s, 1, i - 1) \in Seq(S)
          /\ Len(SubSeq(s, 1, i - 1)) = IF 1 <= i - 1 THEN (i - 1) - 1 + 1 ELSE 0
          /\ \A n \in 1..((i - 1) - 1 + 1) : SubSeq(s, 1, i - 1)[n] = s[1 + n - 1]
      BY <2>1, SubSeqProperties
    <2>3. (i - 1) - 1 + 1 = i - 1 /\ \A n \in 1..(i - 1) : 1 + n - 1 = n
      BY <1>1
    <2> QED
      BY <2>2, <2>3, <1>1
  <1>4. /\ b \in Seq(S) /\ Len(b) = L - i + 1
        /\ \A n \in 1..(L - i + 1) : b[n] = s[i + n - 1]
    <2>1. L \in Int /\ i \in Int /\ \A n \in i..L : s[n] \in S
      BY <1>1, <1>2
    <2>2. /\ SubSeq(s, i, L) \in Seq(S)
          /\ Len(SubSeq(s, i, L)) = IF i <= L THEN L - i + 1 ELSE 0
          /\ \A n \in 1..(L - i + 1) : SubSeq(s, i, L)[n] = s[i + n - 1]
      <3> HIDE DEF L
      <3> QED
        BY <2>1, SubSeqProperties
    <2> QED
      BY <2>2, <1>1
  <1> DEFINE m == a \o <<e>>
  <1>5. <<e>> \in Seq(S) /\ Len(<<e>>) = 1 /\ <<e>>[1] = e
    OBVIOUS
  <1> HIDE DEF a, b, L
  <1>6. /\ m \in Seq(S) /\ Len(m) = i
        /\ \A n \in 1..i : m[n] = IF n < i THEN a[n] ELSE e
    <2>1. /\ a \o <<e>> \in Seq(S) /\ Len(a \o <<e>>) = Len(a) + Len(<<e>>)
          /\ \A n \in 1..(Len(a) + Len(<<e>>)) :
               (a \o <<e>>)[n] = IF n <= Len(a) THEN a[n] ELSE <<e>>[n - Len(a)]
      BY <1>3, <1>5, ConcatProperties
    <2>2. Len(a) + Len(<<e>>) = i /\ i - (i - 1) = 1 /\ \A n \in 1..i : n <= i - 1 <=> n < i
      BY <1>1, <1>3, <1>5
    <2>3. ASSUME NEW n \in 1..i
          PROVE  m[n] = IF n < i THEN a[n] ELSE e
      <3>1. n \in 1..(Len(a) + Len(<<e>>)) /\ Len(a) = i - 1 /\ (n <= i - 1 <=> n < i)
        BY <1>3, <2>2
      <3>2. m[n] = IF n <= Len(a) THEN a[n] ELSE <<e>>[n - Len(a)]
        BY <2>1, <3>1
      <3>3. CASE n < i
        BY <3>1, <3>2, <3>3
      <3>4. CASE ~(n < i)
        <4>1. n = i /\ n - Len(a) = 1
          BY <1>1, <3>1, <3>4
        <4> HIDE DEF m
        <4> QED
          BY <3>1, <3>2, <3>4, <4>1, <1>5
      <3> QED
        BY <3>3, <3>4
    <2> QED
      BY <2>1, <2>2, <2>3
  <1> HIDE DEF m
  <1>7. /\ m \o b \in Seq(S) /\ Len(m \o b) = L + 1
        /\ \A n \in 1..(L + 1) : (m \o b)[n] = IF n <= i THEN m[n] ELSE b[n - i]
    <2>1. /\ m \o b \in Seq(S) /\ Len(m \o b) = Len(m) + Len(b)
          /\ \A n \in 1..(Len(m) + Len(b)) :
               (m \o b)[n] = IF n <= Len(m) THEN m[n] ELSE b[n - Len(m)]
      BY <1>4, <1>6, ConcatProperties
    <2>2. Len(m) + Len(b) = L + 1
      BY <1>1, <1>4, <1>6
    <2> QED
      BY <2>1, <2>2, <1>6
  <1>8. InsertAt(s, i, e) = m \o b
    BY DEF InsertAt, m, a, b, L
  <1>9. ASSUME NEW n \in 1..(L + 1)
        PROVE  /\ n < i => (m \o b)[n] = s[n]
               /\ n = i => (m \o b)[n] = e
               /\ n > i => (m \o b)[n] = s[n - 1]
    <2>1. CASE n < i
      <3>1. n \in 1..(i - 1) /\ n \in 1..i /\ n <= i
        BY <2>1, <1>1
      <3> QED
        BY <2>1, <3>1, <1>3, <1>6, <1>7
    <2>2. CASE n = i
      <3>1. i \in 1..i /\ ~(i < i) /\ i <= i
        BY <1>1
      <3> QED
        BY <2>2, <3>1, <1>6, <1>7
    <2>3. CASE n > i
      <3>1. n - i \in 1..(L - i + 1) /\ i + (n - i) - 1 = n - 1 /\ ~(n <= i) /\ ~(n < i) /\ n # i
        BY <2>3, <1>1
      <3>2. b[n - i] = s[i + (n - i) - 1]
        BY <3>1, <1>4
      <3> QED
        BY <3>1, <3>2, <1>7
    <2> QED
      BY <2>1, <2>2, <2>3, Zenon
  <1> QED
    BY <1>7, <1>8, <1>9 DEF L

LEMMA AcquireSlots ==
  ASSUME SlotInd, NEW w \in Loops, NEW priority \in Priorities, NEW expansion \in BOOLEAN,
         Acquire(w, priority, expansion)
  PROVE  SlotInd'
  <1>1. /\ job \in [Loops -> [pc : {"none", "parked", "working"}, priority : Priorities \cup {0}]]
        /\ waiting \in Seq(Loops) /\ running \in 0..SlotLimit /\ SlotLimit \in Nat
        /\ job[w].pc = "none" /\ w \notin Working /\ w \notin Parked
        /\ IsFiniteSet(Loops)
    BY SlotsAssumption DEF SlotInd, SlotType, Acquire, Working, Parked
  <1>2. IsFiniteSet(Working)
    BY <1>1, FS_Subset DEF Working
  <1>3. CASE running < SlotLimit
    <2>1. running' = running + 1 /\ waiting' = waiting /\ job' = [job EXCEPT ![w] = AtWork]
      BY <1>3 DEF Acquire
    <2>2. Working' = Working \cup {w} /\ Parked' = Parked
      BY <1>1, <2>1 DEF Working, Parked, AtWork
    <2>3. Cardinality(Working') = Cardinality(Working) + 1
      BY <1>1, <1>2, <2>2, FS_AddElement
    <2>4. Parked = {}
      BY <1>1, <1>3 DEF SlotInd, SlotsConserved
    <2>5. SlotType'
      <3>1. AtWork \in [pc : {"none", "parked", "working"}, priority : Priorities \cup {0}]
        BY DEF AtWork
      <3>2. running + 1 \in 0..SlotLimit
        BY <1>1, <1>3
      <3> QED
        BY <1>1, <2>1, <3>1, <3>2 DEF SlotType
    <2>6. running' <= SlotLimit /\ running' = Cardinality(Working')
      BY <1>1, <1>3, <2>1, <2>3 DEF SlotInd, SlotsConserved
    <2> QED
      BY <2>1, <2>2, <2>4, <2>5, <2>6 DEF SlotInd, SlotsConserved
  <1>4. CASE ~(running < SlotLimit)
    <2>1. /\ running' = running /\ waiting' = Inserted(w, priority)
          /\ job' = [job EXCEPT ![w] = [pc |-> "parked", priority |-> priority]]
      BY <1>4 DEF Acquire
    <2>2. Working' = Working /\ Parked' = Parked \cup {w}
      BY <1>1, <2>1 DEF Working, Parked
    <2> DEFINE L == Len(waiting)
               before == {n \in DOMAIN waiting : job[waiting[n]].priority <= priority}
               i == Cardinality(before) + 1
               new == InsertAt(waiting, i, w)
    <2>3. L \in Nat /\ DOMAIN waiting = 1..L
      BY <1>1, LenProperties
    <2>4. i \in 1..(L + 1)
      <3>1. before \in SUBSET (1..L)
        BY <2>3
      <3>2. IsFiniteSet(1..L) /\ Cardinality(1..L) = L
        <4>1. L \in Int /\ 1 \in Int /\ L >= 0
          BY <2>3
        <4> HIDE DEF L
        <4>2. IsFiniteSet(1..L) /\ Cardinality(1..L) = IF 1 > L THEN 0 ELSE L - 1 + 1
          BY <4>1, FS_Interval
        <4> QED
          BY <4>1, <4>2
      <3> HIDE DEF before, L
      <3>3. IsFiniteSet(before) /\ Cardinality(before) <= L
        BY <3>1, <3>2, FS_Subset
      <3>4. Cardinality(before) \in Nat
        BY <3>3, FS_CardinalityType
      <3> QED
        BY <3>3, <3>4, <2>3
    <2>5. waiting' = new
      BY <2>1 DEF Inserted
    <2> HIDE DEF i
    <2>6. /\ new \in Seq(Loops) /\ Len(new) = L + 1
          /\ \A n \in 1..(L + 1) : /\ n < i => new[n] = waiting[n]
                                   /\ n = i => new[n] = w
                                   /\ n > i => new[n] = waiting[n - 1]
      <3>1. waiting \in Seq(Loops) /\ i \in 1..(Len(waiting) + 1) /\ w \in Loops
        BY <1>1, <2>4
      <3> QED
        BY <3>1, InsertedElement
    <2>7. DOMAIN new = 1..(L + 1)
      BY <2>6, LenProperties
    <2> HIDE DEF new
    <2>8. /\ Parked = {waiting[n] : n \in 1..L}
          /\ \A m, n \in 1..L : waiting[m] = waiting[n] => m = n
      BY <2>3 DEF SlotInd, SlotsConserved
    <2>9. \A n \in 1..L : waiting[n] # w
      BY <1>1, <2>8
    <2> HIDE DEF L
    <2>10. \A n \in 1..(L + 1) : \/ n < i /\ n \in 1..L
                                 \/ n = i
                                 \/ n > i /\ n - 1 \in 1..L /\ n # i /\ ~(n < i)
      BY <2>3, <2>4
    <2>11. Parked' = {new[n] : n \in DOMAIN new}
      <3>1. \A n \in 1..(L + 1) : new[n] \in Parked \cup {w}
        BY <2>6, <2>8, <2>10
      <3>2. ASSUME NEW x \in Parked \cup {w} PROVE \E n \in 1..(L + 1) : new[n] = x
        <4>1. CASE x = w
          <5>1. ~(i < i)
            BY <2>3, <2>4
          <5> QED
            BY <4>1, <5>1, <2>4, <2>6
        <4>2. CASE x \in Parked
          <5>1. PICK n \in 1..L : waiting[n] = x
            BY <4>2, <2>8
          <5>2. CASE n < i
            <6>1. n \in 1..(L + 1)
              BY <2>3
            <6> QED
              BY <5>1, <5>2, <6>1, <2>6
          <5>3. CASE ~(n < i)
            <6>1. n + 1 \in 1..(L + 1) /\ n + 1 > i /\ (n + 1) - 1 = n
              BY <5>3, <2>3, <2>4
            <6>2. new[n + 1] = waiting[(n + 1) - 1]
              BY <6>1, <2>6
            <6> QED
              BY <5>1, <6>1, <6>2
          <5> QED
            BY <5>2, <5>3
        <4> QED
          BY <3>2, <4>1, <4>2
      <3> QED
        BY <3>1, <3>2, <2>2, <2>7
    <2>12. ASSUME NEW m \in DOMAIN new, NEW n \in DOMAIN new, new[m] = new[n]
           PROVE  m = n
      <3>1. m \in 1..(L + 1) /\ n \in 1..(L + 1)
        BY <2>7
      <3>2. /\ m < i => new[m] = waiting[m]
            /\ m = i => new[m] = w
            /\ m > i => new[m] = waiting[m - 1]
            /\ n < i => new[n] = waiting[n]
            /\ n = i => new[n] = w
            /\ n > i => new[n] = waiting[n - 1]
        BY <3>1, <2>6
      <3>3. CASE m = i \/ n = i
        BY <3>1, <3>2, <3>3, <2>9, <2>10, <2>12, <2>4
      <3>4. CASE m < i /\ n < i
        BY <3>1, <3>2, <3>4, <2>8, <2>10, <2>12, <2>4
      <3>5. CASE m < i /\ n > i
        <4>1. m \in 1..L /\ n - 1 \in 1..L /\ waiting[m] = waiting[n - 1] /\ m # n - 1
          BY <3>1, <3>2, <3>5, <2>10, <2>12, <2>3, <2>4
        <4> QED
          BY <4>1, <2>8
      <3>6. CASE n < i /\ m > i
        <4>1. n \in 1..L /\ m - 1 \in 1..L /\ waiting[n] = waiting[m - 1] /\ n # m - 1
          BY <3>1, <3>2, <3>6, <2>10, <2>12, <2>3, <2>4
        <4> QED
          BY <4>1, <2>8
      <3>7. CASE m > i /\ n > i
        <4>1. m - 1 \in 1..L /\ n - 1 \in 1..L /\ waiting[m - 1] = waiting[n - 1]
          BY <3>1, <3>2, <3>7, <2>10, <2>12, <2>3, <2>4
        <4>2. m - 1 = n - 1
          BY <4>1, <2>8
        <4> QED
          BY <4>2, <3>1, <2>3
      <3> QED
        BY <3>1, <3>3, <3>4, <3>5, <3>6, <3>7, <2>3, <2>4
    <2>13. SlotType'
      <3>1. [pc |-> "parked", priority |-> priority] \in [pc : {"none", "parked", "working"}, priority : Priorities \cup {0}]
        OBVIOUS
      <3> QED
        BY <1>1, <2>1, <2>5, <2>6, <3>1 DEF SlotType
    <2>14. running' = SlotLimit
      BY <1>1, <1>4, <2>1
    <2>15. running' = Cardinality(Working')
      BY <2>1, <2>2 DEF SlotInd, SlotsConserved
    <2> QED
      BY <1>1, <2>5, <2>11, <2>12, <2>13, <2>14, <2>15 DEF SlotInd, SlotsConserved
  <1> QED
    BY <1>3, <1>4

LEMMA ReleaseSlots ==
  ASSUME SlotInd, NEW w \in Loops, Release(w)
  PROVE  SlotInd'
  <1>1. /\ job \in [Loops -> [pc : {"none", "parked", "working"}, priority : Priorities \cup {0}]]
        /\ waiting \in Seq(Loops) /\ running \in 0..SlotLimit /\ SlotLimit \in Nat
        /\ job[w].pc = "working" /\ w \in Working /\ w \notin Parked
        /\ IsFiniteSet(Loops)
    BY SlotsAssumption DEF SlotInd, SlotType, Release, Working, Parked
  <1>2. IsFiniteSet(Working) /\ Cardinality(Working) \in Nat
    BY <1>1, FS_Subset, FS_CardinalityType DEF Working
  <1>3. Cardinality(Working \ {w}) = Cardinality(Working) - 1 /\ IsFiniteSet(Working \ {w})
        /\ Cardinality(Working \ {w}) \in Nat
    BY <1>1, <1>2, FS_RemoveElement, FS_CardinalityType
  <1>4. NoJob \in [pc : {"none", "parked", "working"}, priority : Priorities \cup {0}]
        /\ AtWork \in [pc : {"none", "parked", "working"}, priority : Priorities \cup {0}]
    BY DEF NoJob, AtWork
  <1>5. CASE waiting = <<>>
    <2>1. running' = running - 1 /\ waiting' = waiting
          /\ job' = [x \in Loops |-> IF x = w THEN NoJob ELSE job[x]]
      BY <1>5 DEF Release
    <2>2. Working' = Working \ {w} /\ Parked' = Parked
      BY <1>1, <2>1 DEF Working, Parked, NoJob
    <2>3. Parked = {}
      BY <1>5 DEF SlotInd, SlotsConserved
    <2>4. SlotType' /\ running' <= SlotLimit
      BY <1>1, <1>2, <1>3, <1>4, <2>1 DEF SlotType, SlotInd, SlotsConserved
    <2> QED
      BY <1>1, <1>3, <1>5, <2>1, <2>2, <2>3, <2>4 DEF SlotInd, SlotsConserved
  <1>6. CASE waiting # <<>>
    <2> DEFINE h == Head(waiting)
               L == Len(waiting)
               new == Tail(waiting)
    <2>1. /\ running' = running /\ waiting' = new
          /\ job' = [x \in Loops |-> IF x = w THEN NoJob ELSE IF x = h THEN AtWork ELSE job[x]]
      BY <1>6 DEF Release
    <2>2. /\ L \in Nat \ {0} /\ DOMAIN waiting = 1..L /\ h \in Loops /\ h = waiting[1]
          /\ new \in Seq(Loops) /\ Len(new) = L - 1
          /\ \A n \in 1..(L - 1) : new[n] = waiting[n + 1]
      BY <1>1, <1>6, LenProperties, EmptySeq, HeadTailProperties
    <2>3. DOMAIN new = 1..(L - 1)
      BY <2>2, LenProperties
    <2> HIDE DEF h, new
    <2>4. /\ Parked = {waiting[n] : n \in 1..L} /\ running = SlotLimit
          /\ \A m, n \in 1..L : waiting[m] = waiting[n] => m = n
          /\ running = Cardinality(Working)
      <3>1. 1 \in 1..L
        BY <2>2
      <3> QED
        BY <2>2, <3>1 DEF SlotInd, SlotsConserved
    <2> HIDE DEF L
    <2>5. 1 \in 1..L /\ \A n \in 1..(L - 1) : n + 1 \in 1..L /\ n + 1 # 1
      BY <2>2
    <2>6. h \in Parked /\ h # w /\ h \notin Working
      <3>1. h \in Parked
        BY <2>2, <2>4, <2>5
      <3> QED
        BY <3>1, <1>1 DEF Working, Parked
    <2>7. Working' = (Working \ {w}) \cup {h} /\ Parked' = Parked \ {h}
      BY <1>1, <2>1, <2>2, <2>6 DEF Working, Parked, NoJob, AtWork
    <2>8. Cardinality(Working') = running
      <3>1. Cardinality((Working \ {w}) \cup {h}) = Cardinality(Working \ {w}) + 1
        BY <1>3, <2>6, FS_AddElement
      <3> QED
        BY <3>1, <1>2, <1>3, <2>4, <2>7
    <2>9. Parked' = {new[n] : n \in DOMAIN new}
      <3>1. \A n \in 1..(L - 1) : new[n] \in Parked \ {h}
        BY <2>2, <2>4, <2>5
      <3>2. ASSUME NEW x \in Parked \ {h} PROVE \E n \in 1..(L - 1) : new[n] = x
        <4>1. PICK m \in 1..L : waiting[m] = x
          BY <2>4
        <4>2. m # 1
          BY <4>1, <2>2
        <4>3. m - 1 \in 1..(L - 1) /\ (m - 1) + 1 = m
          BY <4>2, <2>2
        <4>4. new[m - 1] = waiting[(m - 1) + 1]
          BY <4>3, <2>2
        <4> QED
          BY <4>1, <4>3, <4>4
      <3> QED
        BY <3>1, <3>2, <2>3, <2>7
    <2>10. ASSUME NEW m \in DOMAIN new, NEW n \in DOMAIN new, new[m] = new[n]
           PROVE  m = n
      <3>1. m \in 1..(L - 1) /\ n \in 1..(L - 1) /\ waiting[m + 1] = waiting[n + 1]
        BY <2>2, <2>3, <2>10
      <3>2. m + 1 = n + 1
        BY <3>1, <2>4, <2>5
      <3> QED
        BY <3>1, <3>2, <2>2
    <2>11. SlotType'
      BY <1>1, <1>4, <2>1, <2>2 DEF SlotType
    <2> QED
      BY <1>1, <2>1, <2>4, <2>8, <2>9, <2>10, <2>11 DEF SlotInd, SlotsConserved
  <1> QED
    BY <1>5, <1>6

----
(* The steps of KeyedMutex and what they are to FifoLocks *)

MutexInd == perStore!MutexType /\ TurnsFit(turn) /\ Queues(tails, turn)

\* The queue that FifoLocks speaks of.
LEMMA QueuesNamed ==
  /\ \A k \in Stores : perStore!QueueOf(k) = QueueIn(turn, k)
  /\ \A k \in Stores : perStore!QueueOf(k)' = QueueIn(turn', k)
  <1>1. ASSUME NEW k \in Stores PROVE perStore!QueueOf(k) = QueueIn(turn, k)
    BY DEF perStore!QueueOf, QueueIn, CallsOn, perStore!Cardinality, Cardinality
  <1>2. ASSUME NEW k \in Stores PROVE perStore!QueueOf(k)' = QueueIn(turn', k)
    BY DEF perStore!QueueOf, QueueIn, CallsOn, perStore!Cardinality, Cardinality
  <1> QED
    BY <1>1, <1>2

LEMMA MutexInitInd == perStore!MutexInit => MutexInd /\ perStore!Locks!LocksInit
  <1> SUFFICES ASSUME perStore!MutexInit
               PROVE  MutexInd /\ perStore!Locks!LocksInit
    OBVIOUS
  <1>1. tails = [k \in Stores |-> None] /\ turn = [c \in Loops |-> perStore!NoTurn]
    BY DEF perStore!MutexInit
  <1>2. \A c \in Loops : /\ turn[c] = perStore!NoTurn /\ turn[c].key = None /\ turn[c].promise = None
                         /\ turn[c].inside = FALSE
    BY <1>1 DEF perStore!NoTurn
  <1>3. perStore!MutexType /\ turn \in [Loops -> Turn]
    BY <1>1 DEF perStore!MutexType, perStore!NoTurn, Turn
  <1>4. TurnsFit(turn)
    BY <1>2 DEF TurnsFit
  <1>5. ASSUME NEW k \in Stores PROVE IsQueue(<<>>, k, tails[k], turn)
    <2>1. CallsOn(turn, k) = {} /\ tails[k] = None
      BY <1>1, <1>2, NoneIsNoNumber DEF CallsOn
    <2>2. <<>> \in Seq(Loops) /\ Len(<<>>) = 0
      OBVIOUS
    <2>3. 1..0 = {} /\ 2..0 = {}
      OBVIOUS
    <2> QED
      BY <2>1, <2>2, <2>3 DEF IsQueue
  <1>6. Queues(tails, turn)
    BY <1>5, EmptySeq DEF Queues
  <1>7. \A k \in Stores : perStore!QueueOf(k) = <<>>
    BY <1>3, <1>4, <1>5, QueueFound, QueuesNamed
  <1>8. {c \in Loops : turn[c].inside} = {}
    BY <1>2
  <1> QED
    BY <1>3, <1>4, <1>6, <1>7, <1>8 DEF MutexInd, perStore!Locks!LocksInit

LEMMA JoinInd ==
  ASSUME MutexInd, NEW c \in Loops, NEW k \in Stores, perStore!Join(c, k)
  PROVE  MutexInd' /\ perStore!Locks!Arrive(c, k)
  <1>1. /\ turn \in [Loops -> Turn] /\ tails \in [Stores -> Nat \cup {None}]
        /\ TurnsFit(turn) /\ Queues(tails, turn)
    BY DEF MutexInd, perStore!MutexType, Turn
  <1>2. PICK fresh \in Nat : /\ fresh = perStore!Fresh
                             /\ \A x \in Stores : tails[x] # fresh
                             /\ \A x \in Loops : turn[x].promise # fresh /\ turn[x].previous # fresh
    BY <1>1, FreshNumber
  <1>3. /\ turn[c].key = None
        /\ tails' = [tails EXCEPT ![k] = fresh]
        /\ turn' = [turn EXCEPT ![c] = [key |-> k, promise |-> fresh, previous |-> tails[k], inside |-> FALSE]]
    BY <1>2 DEF perStore!Join, perStore!InCall
  <1>4. PICK new : new = turn'
    OBVIOUS
  <1>5. /\ \A x \in Loops : x # c => new[x] = turn[x]
        /\ new[c] = [key |-> k, promise |-> fresh, previous |-> tails[k], inside |-> FALSE]
    BY <1>1, <1>3, <1>4
  <1>6. perStore!MutexType' /\ new \in [Loops -> Turn]
    <2>1. tails' \in [Stores -> Nat \cup {None}]
      BY <1>1, <1>3
    <2>2. [key |-> k, promise |-> fresh, previous |-> tails[k], inside |-> FALSE] \in Turn
      BY <1>1 DEF Turn
    <2>3. turn' \in [Loops -> Turn]
      BY <1>1, <1>3, <2>2
    <2> QED
      BY <1>4, <2>1, <2>3 DEF perStore!MutexType, Turn
  <1>7. /\ TurnsFit(new)
        /\ \A q : IsQueue(q, k, tails[k], turn) => IsQueue(Append(q, c), k, fresh, new)
        /\ \A j \in Stores \ {k} : \A q, other : IsQueue(q, j, other, turn) => IsQueue(q, j, other, new)
    <2>1. Joins(turn, new, c, k, tails[k], fresh)
      BY <1>2, <1>3, <1>5 DEF Joins
    <2> QED
      BY <1>1, <2>1, JoinQueue
  <1>8. tails'[k] = fresh /\ \A j \in Stores \ {k} : tails'[j] = tails[j]
    BY <1>1, <1>3
  <1>9. PICK r \in Seq(Loops) : IsQueue(r, k, tails[k], turn)
    BY <1>1 DEF Queues
  <1>10. Queues(tails', new)
    <2>1. Append(r, c) \in Seq(Loops) /\ IsQueue(Append(r, c), k, tails'[k], new)
      BY <1>7, <1>8, <1>9, AppendProperties
    <2>2. \A j \in Stores \ {k} : \E q \in Seq(Loops) : IsQueue(q, j, tails'[j], new)
      BY <1>1, <1>7, <1>8 DEF Queues
    <2> QED
      BY <2>1, <2>2 DEF Queues
  <1>11. MutexInd'
    BY <1>4, <1>6, <1>7, <1>10 DEF MutexInd
  <1>12. perStore!QueueOf(k) = r /\ perStore!QueueOf(k)' = Append(r, c)
    BY <1>1, <1>4, <1>6, <1>7, <1>9, QueueFound, QueuesNamed
  <1>13. \A j \in Stores \ {k} : perStore!QueueOf(j)' = perStore!QueueOf(j)
    <2> SUFFICES ASSUME NEW j \in Stores \ {k} PROVE perStore!QueueOf(j)' = perStore!QueueOf(j)
      OBVIOUS
    <2>1. PICK q \in Seq(Loops) : IsQueue(q, j, tails[j], turn)
      BY <1>1 DEF Queues
    <2>2. QueueIn(turn, j) = q
      BY <2>1, <1>1, QueueFound
    <2>3. QueueIn(new, j) = q
      BY <2>1, <1>6, <1>7, QueueFound
    <2> QED
      BY <2>2, <2>3, <1>4, QueuesNamed
  <1>14. {x \in Loops : turn[x].inside}' = {x \in Loops : turn[x].inside}
    <2>1. turn[c].inside = FALSE /\ turn'[c].inside = FALSE
      BY <1>1, <1>3, <1>4, <1>5 DEF TurnsFit, perStore!NoTurn
    <2> QED
      BY <2>1, <1>4, <1>5
  <1>15. ~perStore!Locks!Queued(c)
    <2> SUFFICES ASSUME NEW j \in Stores, NEW n \in DOMAIN perStore!QueueOf(j), perStore!QueueOf(j)[n] = c
                 PROVE  FALSE
      BY DEF perStore!Locks!Queued
    <2>1. PICK q \in Seq(Loops) : IsQueue(q, j, tails[j], turn)
      BY <1>1 DEF Queues
    <2>2. perStore!QueueOf(j) = q
      BY <2>1, <1>1, QueueFound, QueuesNamed
    <2>3. n \in 1..Len(q) /\ q[n] = c
      BY <2>2, LenProperties
    <2>4. c \in CallsOn(turn, j)
      BY <2>1, <2>3 DEF IsQueue
    <2> QED
      BY <2>4, <1>3, NoneIsNoNumber DEF CallsOn
  <1> QED
    BY <1>11, <1>12, <1>13, <1>14, <1>15 DEF perStore!Locks!Arrive

LEMMA EnterInd ==
  ASSUME MutexInd, NEW c \in Loops, perStore!Enter(c)
  PROVE  MutexInd' /\ \E k \in Stores : turn[c].key = k /\ perStore!Locks!Begin(c, k)
  <1>1. /\ turn \in [Loops -> Turn] /\ tails \in [Stores -> Nat \cup {None}]
        /\ TurnsFit(turn) /\ Queues(tails, turn)
    BY DEF MutexInd, perStore!MutexType, Turn
  <1>2. /\ turn[c].key # None /\ ~turn[c].inside /\ turn[c].previous \notin PendingIn(turn)
        /\ turn' = [turn EXCEPT ![c].inside = TRUE] /\ tails' = tails
    BY DEF perStore!Enter, perStore!InCall, perStore!Pending, PendingIn
  <1>3. PICK new : new = turn'
    OBVIOUS
  <1>4. /\ new \in [Loops -> Turn]
        /\ \A x \in Loops : new[x].key = turn[x].key /\ new[x].promise = turn[x].promise
                            /\ new[x].previous = turn[x].previous
        /\ \A x \in Loops : x # c => new[x] = turn[x]
        /\ new[c].inside = TRUE
    BY <1>1, <1>2, <1>3 DEF Turn
  <1>5. /\ PendingIn(new) = PendingIn(turn)
        /\ \A k \in Stores : \A q, tail : IsQueue(q, k, tail, turn) => IsQueue(q, k, tail, new)
    BY <1>4, SameQueue
  <1>6. TurnsFit(new)
    <2>1. \A x \in Loops : new[x].key # None => new[x].promise # None
      BY <1>1, <1>4 DEF TurnsFit
    <2>2. \A x \in Loops : new[x].key = None => new[x] = perStore!NoTurn
      BY <1>1, <1>2, <1>4 DEF TurnsFit
    <2>3. \A x, y \in Loops : new[x].promise = new[y].promise /\ new[x].promise # None => x = y
      BY <1>1, <1>4 DEF TurnsFit
    <2>4. \A x \in Loops : new[x].inside => new[x].previous \notin PendingIn(new)
      <3> SUFFICES ASSUME NEW x \in Loops, new[x].inside PROVE turn[x].previous \notin PendingIn(turn)
        BY <1>4, <1>5
      <3> QED
        BY <1>1, <1>2, <1>4 DEF TurnsFit
    <2> QED
      BY <2>1, <2>2, <2>3, <2>4 DEF TurnsFit
  <1>7. Queues(tails', new)
    BY <1>1, <1>2, <1>5 DEF Queues
  <1>8. perStore!MutexType'
    BY <1>1, <1>2, <1>3, <1>4 DEF perStore!MutexType, Turn
  <1>9. MutexInd'
    BY <1>3, <1>6, <1>7, <1>8 DEF MutexInd
  <1>10. PICK k \in Stores : k = turn[c].key
    BY <1>1, <1>2 DEF Turn
  <1>11. \A j \in Stores : perStore!QueueOf(j)' = perStore!QueueOf(j)
    <2> SUFFICES ASSUME NEW j \in Stores PROVE perStore!QueueOf(j)' = perStore!QueueOf(j)
      OBVIOUS
    <2>1. PICK q \in Seq(Loops) : IsQueue(q, j, tails[j], turn)
      BY <1>1 DEF Queues
    <2>2. QueueIn(turn, j) = q
      BY <2>1, <1>1, QueueFound
    <2>3. QueueIn(new, j) = q
      BY <2>1, <1>4, <1>5, <1>6, QueueFound
    <2> QED
      BY <2>2, <2>3, <1>3, QueuesNamed
  <1>12. PICK q \in Seq(Loops) : IsQueue(q, k, tails[k], turn)
    BY <1>1 DEF Queues
  <1>13. perStore!QueueOf(k) = q
    BY <1>1, <1>12, QueueFound, QueuesNamed
  <1>14. q # <<>> /\ Head(q) = c
    BY <1>1, <1>2, <1>10, <1>12, FirstInQueue
  <1>15. {x \in Loops : turn[x].inside}' = {x \in Loops : turn[x].inside} \cup {c}
    BY <1>3, <1>4
  <1>16. perStore!Locks!Begin(c, k)
    BY <1>2, <1>11, <1>13, <1>14, <1>15 DEF perStore!Locks!Begin
  <1> QED
    BY <1>9, <1>10, <1>16

LEMMA LeaveInd ==
  ASSUME MutexInd, NEW c \in Loops, perStore!Leave(c)
  PROVE  MutexInd' /\ \E k \in Stores : turn[c].key = k /\ perStore!Locks!Depart(c, k)
  <1>1. /\ turn \in [Loops -> Turn] /\ tails \in [Stores -> Nat \cup {None}]
        /\ TurnsFit(turn) /\ Queues(tails, turn)
    BY DEF MutexInd, perStore!MutexType, Turn
  <1>2. /\ turn[c].inside
        /\ tails' = IF tails[turn[c].key] = turn[c].promise THEN [tails EXCEPT ![turn[c].key] = None] ELSE tails
        /\ turn' = [turn EXCEPT ![c] = perStore!NoTurn]
    BY DEF perStore!Leave
  <1>3. PICK k \in Stores : k = turn[c].key
    <2>1. turn[c].key # None
      <3>1. perStore!NoTurn.inside = FALSE
        BY DEF perStore!NoTurn
      <3> QED
        BY <1>1, <1>2, <3>1 DEF TurnsFit
    <2> QED
      BY <1>1, <2>1 DEF Turn
  <1>4. PICK new : new = turn'
    OBVIOUS
  <1>5. /\ \A x \in Loops : x # c => new[x] = turn[x]
        /\ new[c] = perStore!NoTurn
    BY <1>1, <1>2, <1>4
  <1>6. /\ tails' \in [Stores -> Nat \cup {None}]
        /\ tails'[k] = IF tails[k] = turn[c].promise THEN None ELSE tails[k]
        /\ \A j \in Stores \ {k} : tails'[j] = tails[j]
    BY <1>1, <1>2, <1>3
  <1>7. perStore!MutexType' /\ new \in [Loops -> Turn]
    <2>1. perStore!NoTurn \in Turn
      BY DEF perStore!NoTurn, Turn
    <2>2. turn' \in [Loops -> Turn]
      BY <1>1, <1>2, <2>1
    <2> QED
      BY <1>4, <1>6, <2>2 DEF perStore!MutexType, Turn
  <1>8. /\ TurnsFit(new)
        /\ \A q : IsQueue(q, k, tails[k], turn) => IsQueue(Tail(q), k, tails'[k], new)
        /\ \A j \in Stores \ {k} : \A q, other : IsQueue(q, j, other, turn) => IsQueue(q, j, other, new)
    <2>1. turn[c].key = k
      BY <1>3
    <2>2. /\ TurnsFit(new)
          /\ \A q : IsQueue(q, k, tails[k], turn)
               => IsQueue(Tail(q), k, IF tails[k] = turn[c].promise THEN None ELSE tails[k], new)
          /\ \A j \in Stores \ {k} : \A q, other : IsQueue(q, j, other, turn) => IsQueue(q, j, other, new)
      BY <1>1, <1>2, <1>5, <2>1, LeaveQueue
    <2> QED
      BY <2>2, <1>6
  <1>9. PICK r \in Seq(Loops) : IsQueue(r, k, tails[k], turn)
    BY <1>1 DEF Queues
  <1>10. r # <<>> /\ Head(r) = c
    <2>1. turn[c].key = k /\ turn[c].previous \notin PendingIn(turn)
      BY <1>1, <1>2, <1>3 DEF TurnsFit
    <2> QED
      BY <1>1, <1>9, <2>1, FirstInQueue
  <1>11. Queues(tails', new)
    <2>1. Tail(r) \in Seq(Loops) /\ IsQueue(Tail(r), k, tails'[k], new)
      BY <1>8, <1>9, <1>10, HeadTailProperties
    <2>2. \A j \in Stores \ {k} : \E q \in Seq(Loops) : IsQueue(q, j, tails'[j], new)
      BY <1>1, <1>6, <1>8 DEF Queues
    <2> QED
      BY <2>1, <2>2 DEF Queues
  <1>12. MutexInd'
    BY <1>4, <1>7, <1>8, <1>11 DEF MutexInd
  <1>13. perStore!QueueOf(k) = r /\ perStore!QueueOf(k)' = Tail(r)
    BY <1>1, <1>4, <1>7, <1>8, <1>9, QueueFound, QueuesNamed
  <1>14. \A j \in Stores \ {k} : perStore!QueueOf(j)' = perStore!QueueOf(j)
    <2> SUFFICES ASSUME NEW j \in Stores \ {k} PROVE perStore!QueueOf(j)' = perStore!QueueOf(j)
      OBVIOUS
    <2>1. PICK q \in Seq(Loops) : IsQueue(q, j, tails[j], turn)
      BY <1>1 DEF Queues
    <2>2. QueueIn(turn, j) = q
      BY <2>1, <1>1, QueueFound
    <2>3. QueueIn(new, j) = q
      BY <2>1, <1>7, <1>8, QueueFound
    <2> QED
      BY <2>2, <2>3, <1>4, QueuesNamed
  <1>15. {x \in Loops : turn[x].inside}' = {x \in Loops : turn[x].inside} \ {c}
    <2>1. new[c].inside = FALSE
      BY <1>5 DEF perStore!NoTurn
    <2> QED
      BY <2>1, <1>4, <1>5
  <1>16. perStore!Locks!Depart(c, k)
    BY <1>2, <1>10, <1>13, <1>14, <1>15 DEF perStore!Locks!Depart
  <1> QED
    BY <1>3, <1>12, <1>16

\* One call at a time is inside a store.
LEMMA OneInside ==
  ASSUME MutexInd, NEW c \in Loops, NEW d \in Loops,
         turn[c].inside, turn[d].inside, turn[c].key = turn[d].key
  PROVE  c = d
  <1>1. turn \in [Loops -> Turn] /\ TurnsFit(turn) /\ Queues(tails, turn)
    BY DEF MutexInd, perStore!MutexType, Turn
  <1>2. /\ turn[c].previous \notin PendingIn(turn)
        /\ turn[d].previous \notin PendingIn(turn)
    BY <1>1 DEF TurnsFit
  <1>3. PICK k \in Stores : k = turn[c].key
    <2>1. turn[c].key # None
      <3>1. perStore!NoTurn.inside = FALSE
        BY DEF perStore!NoTurn
      <3> QED
        BY <1>1, <3>1 DEF TurnsFit
    <2> QED
      BY <1>1, <2>1 DEF Turn
  <1>4. PICK q \in Seq(Loops) : IsQueue(q, k, tails[k], turn)
    BY <1>1 DEF Queues
  <1>5. q[1] = c
    BY <1>1, <1>2, <1>3, <1>4, FirstInQueue
  <1>6. turn[d].key = k
    BY <1>3
  <1>7. q[1] = d
    BY <1>1, <1>2, <1>4, <1>6, FirstInQueue
  <1> QED
    BY <1>5, <1>7

----
(* The inductive invariant *)

\* Only a job at work searches, and a search is where its call in the queue is.
CallsFit ==
    /\ \A w \in Loops : job[w].pc # "working" => search[w].pc = "none"
    /\ \A w \in Loops : turn[w].inside <=> search[w].pc \in {"pacing", "calling", "backoff"}
    /\ \A w \in Loops : turn[w].key = None <=> search[w].pc = "none"

\* The timer of a paced call fires no sooner than its store is due.
Paced == \A w \in Loops, s \in Stores :
            search[w].pc = "pacing" /\ turn[w].key = s => gap[s] <= sleep[w]

IInv == TypeOK /\ SlotsConserved /\ TurnsFit(turn) /\ Queues(tails, turn) /\ CallsFit /\ Paced

SearchRecord == [pc : {"none", "queued", "pacing", "calling", "backoff"},
                 strict : BOOLEAN, attempt : 0..2, left : 0..MaxSearches]

LEMMA Invariants == IInv => SlotInd /\ MutexInd
  BY DEF IInv, SlotInd, MutexInd, TypeOK

LEMMA Bounds ==
  /\ Threshold \in Nat \ {0} /\ Cooldown \in Nat \ {0}
  /\ MinInterval \in Nat /\ RetryDelay \in Nat /\ MaxSearches \in Nat
  BY GuardAssumption

LEMMA InitIInv == Init => IInv /\ perStore!Locks!LocksInit
  <1> SUFFICES ASSUME Init
               PROVE  IInv /\ perStore!Locks!LocksInit
    OBVIOUS
  <1>1. MutexInd /\ perStore!Locks!LocksInit
    BY MutexInitInd DEF Init
  <1>2. /\ running = 0 /\ waiting = <<>> /\ job = [w \in Loops |-> NoJob]
        /\ search = [w \in Loops |-> NoSearch] /\ turn = [w \in Loops |-> perStore!NoTurn]
    BY DEF Init, SlotInit, perStore!MutexInit
  <1>3. NoSearch \in SearchRecord
    BY Bounds DEF NoSearch, SearchRecord
  <1>4. SlotType
    <2>1. NoJob \in [pc : {"none", "parked", "working"}, priority : Priorities \cup {0}]
      BY DEF NoJob
    <2>2. 0 \in 0..SlotLimit
      BY SlotsAssumption
    <2> QED
      BY <1>2, <2>1, <2>2, EmptySeq DEF SlotType
  <1>5. SlotsConserved
    <2>1. Working = {} /\ Parked = {}
      BY <1>2 DEF Working, Parked, NoJob
    <2>2. DOMAIN waiting = {}
      BY <1>2
    <2>3. Cardinality(Working) = 0 /\ 0 <= SlotLimit
      BY <2>1, FS_EmptySet, SlotsAssumption
    <2> QED
      BY <1>2, <2>1, <2>2, <2>3 DEF SlotsConserved
  <1>6. TypeOK
    <2>1. search \in [Loops -> SearchRecord] /\ sleep \in [Loops -> Nat]
      BY <1>2, <1>3 DEF Init
    <2>2. gap \in [Stores -> 0..MinInterval] /\ failures \in [Stores -> Nat]
          /\ pause \in [Stores -> (0..Cooldown) \cup {None}]
      BY Bounds DEF Init
    <2> QED
      BY <1>1, <1>4, <2>1, <2>2 DEF TypeOK, SearchRecord, MutexInd
  <1>7. CallsFit /\ Paced
    BY <1>2 DEF CallsFit, Paced, NoSearch, perStore!NoTurn
  <1> QED
    BY <1>1, <1>5, <1>6, <1>7 DEF IInv, MutexInd

\* The circuit breaker keeps its types, whatever it is asked or told.
BreakerType == failures \in [Stores -> Nat] /\ pause \in [Stores -> (0..Cooldown) \cup {None}]

LEMMA BreakerKeepsType ==
  ASSUME BreakerType, NEW s \in Stores,
         AskBreaker(s) \/ RecordFailure(s) \/ RecordSuccess(s) \/ UNCHANGED <<failures, pause>>
  PROVE  BreakerType'
  <1>1. CASE AskBreaker(s)
    BY <1>1 DEF AskBreaker, BreakerType
  <1>2. CASE RecordFailure(s)
    <2>1. failures[s] + 1 \in Nat /\ Cooldown \in 0..Cooldown
      BY Bounds DEF BreakerType
    <2> QED
      BY <1>2, <2>1 DEF RecordFailure, BreakerType
  <1>3. CASE RecordSuccess(s)
    BY <1>3 DEF RecordSuccess, BreakerType
  <1>4. CASE UNCHANGED <<failures, pause>>
    BY <1>4 DEF BreakerType
  <1> QED
    BY <1>1, <1>2, <1>3, <1>4

\* What a step leaves to be shown of the searches and the timers.
CallsInd ==
    /\ search \in [Loops -> SearchRecord] /\ sleep \in [Loops -> Nat]
    /\ gap \in [Stores -> 0..MinInterval]
    /\ BreakerType /\ CallsFit /\ Paced

LEMMA InvariantParts == IInv <=> SlotInd /\ MutexInd /\ CallsInd
  BY DEF IInv, SlotInd, MutexInd, CallsInd, TypeOK, SearchRecord, BreakerType

LEMMA InvariantPartsNext == IInv' <=> SlotInd' /\ MutexInd' /\ CallsInd'
  BY DEF IInv, SlotInd, MutexInd, CallsInd, TypeOK, SearchRecord, BreakerType

LEMMA SlotsAside == ASSUME SlotInd, UNCHANGED slotVars PROVE SlotInd'
  BY DEF SlotInd, SlotType, SlotsConserved, Working, Parked, slotVars

LEMMA MutexAside == ASSUME MutexInd, UNCHANGED <<tails, turn>> PROVE MutexInd'
  BY DEF MutexInd, perStore!MutexType

LEMMA IdleSearch ==
  ASSUME NEW n \in 0..MaxSearches
  PROVE  [NoSearch EXCEPT !.left = n] \in SearchRecord /\ [NoSearch EXCEPT !.left = n].pc = "none"
  <1>1. NoSearch \in SearchRecord /\ NoSearch.pc = "none"
    BY Bounds DEF NoSearch, SearchRecord
  <1> QED
    BY <1>1 DEF SearchRecord

LEMMA TakeJobInd ==
  ASSUME IInv, NEW w \in Loops, NEW priority \in Priorities, NEW expansion \in BOOLEAN,
         TakeJob(w, priority, expansion)
  PROVE  IInv'
  <1>1. SlotInd /\ MutexInd /\ CallsInd
    BY InvariantParts
  <1>2. SlotInd' /\ MutexInd'
    BY <1>1, AcquireSlots, MutexAside DEF TakeJob
  <1>3. job[w].pc = "none" /\ \A x \in Loops : x # w => job'[x].pc = job[x].pc
    BY <1>1 DEF TakeJob, Acquire, SlotInd, SlotType
  <1>4. search[w].pc = "none" /\ search' = [search EXCEPT ![w] = [NoSearch EXCEPT !.left = MaxSearches]]
        /\ UNCHANGED <<tails, turn, sleep, gap, failures, pause>>
    BY <1>1, <1>3 DEF TakeJob, CallsInd, CallsFit
  <1> DEFINE new == [NoSearch EXCEPT !.left = MaxSearches]
  <1>5. new \in SearchRecord /\ new.pc = "none" /\ search' = [search EXCEPT ![w] = new]
    <2>1. MaxSearches \in 0..MaxSearches
      BY Bounds
    <2> QED
      BY <1>4, <2>1, IdleSearch
  <1> HIDE DEF new
  <1>6. search' \in [Loops -> SearchRecord]
    BY <1>1, <1>5 DEF CallsInd
  <1>7. \A x \in Loops : search'[x].pc = search[x].pc
    BY <1>1, <1>4, <1>5 DEF CallsInd
  <1>8. CallsFit' /\ Paced'
    BY <1>1, <1>3, <1>4, <1>7 DEF CallsInd, CallsFit, Paced
  <1> QED
    BY <1>1, <1>2, <1>4, <1>6, <1>8, InvariantPartsNext DEF CallsInd, BreakerType

LEMMA EndJobInd ==
  ASSUME IInv, NEW w \in Loops, EndJob(w)
  PROVE  IInv'
  <1>1. SlotInd /\ MutexInd /\ CallsInd
    BY InvariantParts
  <1>2. SlotInd' /\ MutexInd'
    BY <1>1, ReleaseSlots, MutexAside DEF EndJob
  <1>3. search[w].pc = "none" /\ search' = [search EXCEPT ![w] = NoSearch]
        /\ UNCHANGED <<tails, turn, sleep, gap, failures, pause>>
    BY DEF EndJob
  <1>4. NoSearch \in SearchRecord /\ NoSearch.pc = "none"
    BY Bounds DEF NoSearch, SearchRecord
  <1>5. search' \in [Loops -> SearchRecord] /\ \A x \in Loops : search'[x].pc = search[x].pc
    BY <1>1, <1>3, <1>4 DEF CallsInd
  <1>6. \A x \in Loops : job'[x].pc # "working" => job[x].pc # "working" \/ x = w
    BY <1>1 DEF EndJob, Release, SlotInd, SlotType, NoJob, AtWork
  <1>7. CallsFit' /\ Paced'
    BY <1>1, <1>3, <1>5, <1>6 DEF CallsInd, CallsFit, Paced
  <1> QED
    BY <1>1, <1>2, <1>3, <1>5, <1>7, InvariantPartsNext DEF CallsInd, BreakerType

LEMMA IsPausedInd ==
  ASSUME IInv, NEW w \in Loops, NEW s \in Stores, IsPaused(w, s)
  PROVE  IInv'
  <1>1. SlotInd /\ MutexInd /\ CallsInd
    BY InvariantParts
  <1>2. SlotInd' /\ MutexInd'
    BY <1>1, SlotsAside, MutexAside DEF IsPaused, slotVars
  <1>3. BreakerType'
    BY <1>1, BreakerKeepsType DEF IsPaused, CallsInd
  <1>4. CallsInd'
    BY <1>1, <1>3 DEF IsPaused, CallsInd, CallsFit, Paced, slotVars
  <1> QED
    BY <1>2, <1>4, InvariantPartsNext

LEMMA SearchInd ==
  ASSUME IInv, NEW w \in Loops, NEW s \in Stores, NEW strict \in BOOLEAN, Search(w, s, strict)
  PROVE  IInv' /\ perStore!Locks!Arrive(w, s)
  <1>1. SlotInd /\ MutexInd /\ CallsInd
    BY InvariantParts
  <1>2. SlotInd' /\ MutexInd' /\ perStore!Locks!Arrive(w, s)
    BY <1>1, SlotsAside, JoinInd DEF Search, slotVars
  <1>3. BreakerType'
    BY <1>1, BreakerKeepsType DEF Search, CallsInd
  <1>4. /\ turn \in [Loops -> Turn] /\ turn[w].key = None /\ job[w].pc = "working"
        /\ \A x \in Loops : x # w => turn'[x] = turn[x]
        /\ turn'[w].key = s /\ turn'[w].inside = FALSE
    <2>1. turn \in [Loops -> Turn]
      BY <1>1 DEF MutexInd, perStore!MutexType, Turn
    <2> QED
      BY <2>1 DEF Search, Between, perStore!Join, perStore!InCall
  <1> DEFINE new == [pc |-> "queued", strict |-> strict, attempt |-> 1, left |-> search[w].left - 1]
  <1>5. new \in SearchRecord /\ new.pc = "queued"
    <2>1. search[w].left \in 0..MaxSearches /\ search[w].left > 0
      BY <1>1 DEF CallsInd, SearchRecord, Search
    <2>2. search[w].left - 1 \in 0..MaxSearches
      BY <2>1, Bounds
    <2> QED
      BY <2>2 DEF SearchRecord
  <1>6. search' = [search EXCEPT ![w] = new] /\ UNCHANGED <<slotVars, sleep, gap>>
    BY <1>1 DEF Search, CallsInd
  <1> HIDE DEF new
  <1>7. search' \in [Loops -> SearchRecord] /\ search'[w].pc = "queued"
        /\ \A x \in Loops : x # w => search'[x] = search[x]
    BY <1>1, <1>5, <1>6 DEF CallsInd
  <1>8. CallsFit'
    BY <1>1, <1>4, <1>6, <1>7, NoneIsNoNumber DEF CallsInd, CallsFit, slotVars
  <1>9. Paced'
    BY <1>1, <1>4, <1>6, <1>7 DEF CallsInd, Paced
  <1> QED
    BY <1>1, <1>2, <1>3, <1>6, <1>7, <1>8, <1>9, InvariantPartsNext DEF CallsInd

LEMMA EnterQueueInd ==
  ASSUME IInv, NEW w \in Loops, EnterQueue(w)
  PROVE  IInv' /\ \E k \in Stores : perStore!Locks!Begin(w, k)
  <1>1. SlotInd /\ MutexInd /\ CallsInd
    BY InvariantParts
  <1>2. SlotInd' /\ MutexInd' /\ \E k \in Stores : turn[w].key = k /\ perStore!Locks!Begin(w, k)
    BY <1>1, SlotsAside, EnterInd DEF EnterQueue, slotVars
  <1>3. PICK k \in Stores : k = turn[w].key
    BY <1>2
  <1>4. /\ \A x \in Loops : turn'[x].key = turn[x].key
        /\ \A x \in Loops : x # w => turn'[x].inside = turn[x].inside
        /\ turn'[w].inside = TRUE
    <2>1. turn \in [Loops -> Turn]
      BY <1>1 DEF MutexInd, perStore!MutexType, Turn
    <2>2. turn' = [turn EXCEPT ![w].inside = TRUE]
      BY DEF EnterQueue, perStore!Enter
    <2> QED
      BY <2>1, <2>2 DEF Turn
  <1>5. /\ search' = [search EXCEPT ![w].pc = "pacing"] /\ sleep' = [sleep EXCEPT ![w] = gap[k]]
        /\ UNCHANGED <<slotVars, gap, failures, pause>>
    BY <1>3 DEF EnterQueue, Pace, Store
  <1>6. search' \in [Loops -> SearchRecord] /\ search'[w].pc = "pacing"
        /\ \A x \in Loops : x # w => search'[x] = search[x]
    BY <1>1, <1>5 DEF CallsInd, SearchRecord
  <1>7. sleep' \in [Loops -> Nat] /\ sleep'[w] = gap[k] /\ gap[k] \in Nat
        /\ \A x \in Loops : x # w => sleep'[x] = sleep[x]
    <2>1. gap[k] \in Nat
      BY <1>1, Bounds DEF CallsInd
    <2> QED
      BY <1>1, <1>5, <2>1 DEF CallsInd
  <1>8. CallsFit'
    <2>1. search[w].pc = "queued" /\ job' = job
      BY <1>5 DEF EnterQueue, slotVars
    <2> QED
      BY <1>1, <1>4, <1>6, <2>1 DEF CallsInd, CallsFit
  <1>9. Paced'
    BY <1>1, <1>3, <1>4, <1>5, <1>6, <1>7 DEF CallsInd, Paced
  <1> QED
    BY <1>1, <1>2, <1>5, <1>6, <1>7, <1>8, <1>9, InvariantPartsNext DEF CallsInd, BreakerType

LEMMA StartCallInd ==
  ASSUME IInv, NEW w \in Loops, StartCall(w)
  PROVE  IInv' /\ UNCHANGED <<tails, turn>> /\ gap[Store(w)] = 0
  <1>1. SlotInd /\ MutexInd /\ CallsInd
    BY InvariantParts
  <1>2. SlotInd' /\ MutexInd'
    BY <1>1, SlotsAside, MutexAside DEF StartCall, slotVars
  <1>3. /\ search[w].pc = "pacing" /\ sleep[w] = 0 /\ turn[w].inside
        /\ UNCHANGED <<slotVars, tails, turn, sleep, failures, pause>>
    BY <1>1 DEF StartCall, CallsInd, CallsFit
  <1>4. PICK k \in Stores : k = turn[w].key
    <2>1. turn[w].key \in Stores \cup {None} /\ turn[w].key # None
      BY <1>1, <1>3 DEF MutexInd, perStore!MutexType, CallsInd, CallsFit
    <2> QED
      BY <2>1
  <1>5. /\ search' = [search EXCEPT ![w].pc = "calling"] /\ gap' = [gap EXCEPT ![k] = MinInterval]
        /\ gap[k] \in Nat /\ gap[k] <= sleep[w]
    BY <1>1, <1>3, <1>4, Bounds DEF StartCall, Store, CallsInd, Paced
  <1>6. search' \in [Loops -> SearchRecord] /\ search'[w].pc = "calling"
        /\ \A x \in Loops : x # w => search'[x] = search[x]
    BY <1>1, <1>5 DEF CallsInd, SearchRecord
  <1>7. gap' \in [Stores -> 0..MinInterval] /\ \A s \in Stores : s # k => gap'[s] = gap[s]
    BY <1>1, <1>5, Bounds DEF CallsInd
  <1>8. CallsFit'
    BY <1>1, <1>3, <1>6 DEF CallsInd, CallsFit, slotVars
  <1>9. \A x \in Loops : search[x].pc = "pacing" /\ turn[x].key = k => x = w
    <2> SUFFICES ASSUME NEW x \in Loops, search[x].pc = "pacing", turn[x].key = k PROVE x = w
      OBVIOUS
    <2>1. turn[x].inside /\ turn[x].key = turn[w].key
      BY <1>1, <1>4 DEF CallsInd, CallsFit
    <2> QED
      BY <1>1, <1>3, <2>1, OneInside
  <1>10. Paced'
    BY <1>1, <1>3, <1>6, <1>7, <1>9 DEF CallsInd, Paced
  <1> QED
    BY <1>1, <1>2, <1>3, <1>4, <1>5, <1>6, <1>7, <1>8, <1>10, InvariantPartsNext DEF CallsInd, BreakerType, Store

\* A call is over, however it ended.
LEMMA CallOverInd ==
  ASSUME IInv, NEW w \in Loops, search[w].pc = "calling", Leave(w), UNCHANGED <<slotVars, sleep, gap>>, BreakerType'
  PROVE  IInv' /\ \E k \in Stores : perStore!Locks!Depart(w, k)
  <1>1. SlotInd /\ MutexInd /\ CallsInd
    BY InvariantParts
  <1>2. SlotInd' /\ MutexInd' /\ \E k \in Stores : turn[w].key = k /\ perStore!Locks!Depart(w, k)
    BY <1>1, SlotsAside, LeaveInd DEF Leave, slotVars
  <1>3. /\ \A x \in Loops : x # w => turn'[x] = turn[x]
        /\ turn'[w].inside = FALSE /\ turn'[w].key = None
    <2>1. turn \in [Loops -> Turn] /\ turn' = [turn EXCEPT ![w] = perStore!NoTurn]
      BY <1>1 DEF MutexInd, perStore!MutexType, Turn, Leave, perStore!Leave
    <2> QED
      BY <2>1 DEF perStore!NoTurn
  <1> DEFINE new == [NoSearch EXCEPT !.left = search[w].left]
  <1>4. new \in SearchRecord /\ new.pc = "none"
    <2>1. search[w].left \in 0..MaxSearches
      BY <1>1 DEF CallsInd, SearchRecord
    <2> QED
      BY <2>1, IdleSearch
  <1>5. search' = [search EXCEPT ![w] = new]
    BY DEF Leave
  <1> HIDE DEF new
  <1>6. search' \in [Loops -> SearchRecord] /\ search'[w].pc = "none"
        /\ \A x \in Loops : x # w => search'[x] = search[x]
    BY <1>1, <1>4, <1>5 DEF CallsInd
  <1>7. CallsFit' /\ Paced'
    BY <1>1, <1>3, <1>6 DEF CallsInd, CallsFit, Paced, slotVars
  <1> QED
    BY <1>1, <1>2, <1>6, <1>7, InvariantPartsNext DEF CallsInd

\* The first error and the retry after it stay inside the store.
LEMMA RetryInd ==
  ASSUME IInv, NEW w \in Loops, ThrewFirst(w) \/ Retry(w)
  PROVE  IInv' /\ UNCHANGED <<tails, turn>>
  <1>1. SlotInd /\ MutexInd /\ CallsInd
    BY InvariantParts
  <1>2. UNCHANGED <<slotVars, tails, turn, gap, failures, pause>>
    BY DEF ThrewFirst, Retry
  <1>3. SlotInd' /\ MutexInd'
    BY <1>1, <1>2, SlotsAside, MutexAside
  <1>4. turn[w].inside
    BY <1>1 DEF ThrewFirst, Retry, CallsInd, CallsFit
  <1>5. PICK k \in Stores : k = turn[w].key
    <2>1. turn[w].key \in Stores \cup {None} /\ turn[w].key # None
      BY <1>1 DEF MutexInd, perStore!MutexType, CallsInd, CallsFit, ThrewFirst, Retry
    <2> QED
      BY <2>1
  <1>6. CASE ThrewFirst(w)
    <2>1. /\ search' \in [Loops -> SearchRecord] /\ search'[w].pc = "backoff"
          /\ \A x \in Loops : x # w => search'[x] = search[x]
      BY <1>1, <1>6 DEF ThrewFirst, CallsInd, SearchRecord
    <2>2. sleep' \in [Loops -> Nat] /\ \A x \in Loops : x # w => sleep'[x] = sleep[x]
      BY <1>1, <1>6, Bounds DEF ThrewFirst, CallsInd
    <2>3. CallsFit' /\ Paced'
      BY <1>1, <1>2, <1>4, <1>6, <2>1, <2>2 DEF CallsInd, CallsFit, Paced, slotVars, ThrewFirst
    <2> QED
      BY <1>1, <1>2, <1>3, <2>1, <2>2, <2>3, InvariantPartsNext DEF CallsInd, BreakerType
  <1>7. CASE Retry(w)
    <2>1. /\ search' \in [Loops -> SearchRecord] /\ search'[w].pc = "pacing"
          /\ \A x \in Loops : x # w => search'[x] = search[x]
      <3> DEFINE mid == [search EXCEPT ![w].pc = "pacing"]
      <3>1. search \in [Loops -> SearchRecord]
        BY <1>1 DEF CallsInd
      <3>2. /\ mid \in [Loops -> SearchRecord] /\ mid[w].pc = "pacing"
            /\ \A x \in Loops : x # w => mid[x] = search[x]
        BY <3>1 DEF SearchRecord
      <3>3. search' = [mid EXCEPT ![w].attempt = 2]
        BY <1>7 DEF Retry
      <3> HIDE DEF mid
      <3> QED
        BY <3>2, <3>3 DEF SearchRecord
    <2>2. /\ sleep' \in [Loops -> Nat] /\ sleep'[w] = gap[k] /\ gap[k] \in Nat
          /\ \A x \in Loops : x # w => sleep'[x] = sleep[x]
      <3>1. gap[k] \in Nat /\ sleep' = [sleep EXCEPT ![w] = gap[k]]
        BY <1>1, <1>5, <1>7, Bounds DEF CallsInd, Retry, Store
      <3> QED
        BY <1>1, <3>1 DEF CallsInd
    <2>3. CallsFit'
      BY <1>1, <1>2, <1>4, <1>7, <2>1 DEF CallsInd, CallsFit, slotVars, Retry
    <2>4. Paced'
      BY <1>1, <1>2, <1>5, <2>1, <2>2 DEF CallsInd, Paced
    <2> QED
      BY <1>1, <1>2, <1>3, <2>1, <2>2, <2>3, <2>4, InvariantPartsNext DEF CallsInd, BreakerType
  <1> QED
    BY <1>2, <1>6, <1>7

LEMMA TickInd ==
  ASSUME IInv, Tick
  PROVE  IInv' /\ UNCHANGED <<tails, turn>>
  <1>1. SlotInd /\ MutexInd /\ CallsInd
    BY InvariantParts
  <1>2. SlotInd' /\ MutexInd' /\ UNCHANGED <<slotVars, tails, turn, search, failures>>
    BY <1>1, SlotsAside, MutexAside DEF Tick
  <1>3. \A n \in Nat : Later(n) = (IF n = 0 THEN 0 ELSE n - 1) /\ Later(n) \in Nat /\ Later(n) <= n
    BY NoneIsNoNumber DEF Later
  <1>4. sleep' \in [Loops -> Nat] /\ \A w \in Loops : sleep'[w] = Later(sleep[w])
    BY <1>1, <1>3 DEF Tick, CallsInd
  <1>5. gap' \in [Stores -> 0..MinInterval] /\ \A s \in Stores : gap'[s] = Later(gap[s])
    <2>1. \A s \in Stores : gap[s] \in Nat /\ gap[s] <= MinInterval
      BY <1>1, Bounds DEF CallsInd
    <2>2. \A s \in Stores : Later(gap[s]) \in 0..MinInterval
      BY <1>3, <2>1, Bounds
    <2> QED
      BY <2>2 DEF Tick
  <1>6. BreakerType'
    <2>1. \A s \in Stores : Later(pause[s]) \in (0..Cooldown) \cup {None}
      BY <1>1, <1>3, Bounds, NoneIsNoNumber DEF CallsInd, BreakerType, Later
    <2> QED
      BY <1>1, <1>2, <2>1 DEF Tick, CallsInd, BreakerType
  <1>7. CallsFit'
    BY <1>1, <1>2 DEF CallsInd, CallsFit, slotVars
  <1>8. Paced'
    <2> SUFFICES ASSUME NEW w \in Loops, NEW s \in Stores, search[w].pc = "pacing", turn[w].key = s
                 PROVE  Later(gap[s]) <= Later(sleep[w])
      BY <1>2, <1>4, <1>5 DEF Paced
    <2>1. gap[s] <= sleep[w] /\ gap[s] \in Nat /\ sleep[w] \in Nat
      BY <1>1, Bounds DEF CallsInd, Paced
    <2> QED
      BY <2>1, <1>3
  <1> QED
    BY <1>1, <1>2, <1>4, <1>5, <1>6, <1>7, <1>8, InvariantPartsNext DEF CallsInd

LEMMA NextInd ==
  ASSUME IInv, [Next]_vars
  PROVE  /\ IInv'
         /\ \/ UNCHANGED <<tails, turn>>
            \/ \E c \in Loops, k \in Stores :
                 perStore!Locks!Arrive(c, k) \/ perStore!Locks!Begin(c, k) \/ perStore!Locks!Depart(c, k)
  <1>1. ASSUME NEW w \in Loops, NEW priority \in Priorities, NEW expansion \in BOOLEAN,
               TakeJob(w, priority, expansion)
        PROVE  IInv' /\ UNCHANGED <<tails, turn>>
    BY <1>1, TakeJobInd DEF TakeJob
  <1>2. ASSUME NEW w \in Loops, EndJob(w)
        PROVE  IInv' /\ UNCHANGED <<tails, turn>>
    BY <1>2, EndJobInd DEF EndJob
  <1>3. ASSUME NEW w \in Loops, EnterQueue(w)
        PROVE  IInv' /\ \E k \in Stores : perStore!Locks!Begin(w, k)
    BY <1>3, EnterQueueInd
  <1>4. ASSUME NEW w \in Loops, StartCall(w) \/ ThrewFirst(w) \/ Retry(w)
        PROVE  IInv' /\ UNCHANGED <<tails, turn>>
    BY <1>4, StartCallInd, RetryInd
  <1>5. ASSUME NEW w \in Loops, Listings(w) \/ NoListings(w) \/ ThrewAgain(w)
        PROVE  IInv' /\ \E k \in Stores : perStore!Locks!Depart(w, k)
    <2>1. /\ search[w].pc = "calling" /\ Leave(w) /\ UNCHANGED <<slotVars, sleep, gap>>
          /\ RecordFailure(Store(w)) \/ RecordSuccess(Store(w)) \/ UNCHANGED <<failures, pause>>
      BY <1>5 DEF Listings, NoListings, ThrewAgain
    <2>2. CallsInd /\ MutexInd
      BY InvariantParts
    <2>3. PICK k \in Stores : k = Store(w)
      <3>1. turn[w].key \in Stores \cup {None} /\ turn[w].key # None
        BY <2>1, <2>2 DEF MutexInd, perStore!MutexType, CallsInd, CallsFit
      <3> QED
        BY <3>1 DEF Store
    <2>4. BreakerType'
      <3>1. RecordFailure(k) \/ RecordSuccess(k) \/ UNCHANGED <<failures, pause>>
        BY <2>1, <2>3 DEF RecordFailure, RecordSuccess
      <3> QED
        BY <2>2, <3>1, BreakerKeepsType DEF CallsInd
    <2> QED
      BY <2>1, <2>4, CallOverInd
  <1>6. ASSUME NEW w \in Loops, NEW s \in Stores, IsPaused(w, s)
        PROVE  IInv' /\ UNCHANGED <<tails, turn>>
    BY <1>6, IsPausedInd DEF IsPaused
  <1>7. ASSUME NEW w \in Loops, NEW s \in Stores, NEW strict \in BOOLEAN, Search(w, s, strict)
        PROVE  IInv' /\ perStore!Locks!Arrive(w, s)
    BY <1>7, SearchInd
  <1>8. CASE Tick
    BY <1>8, TickInd
  <1>9. CASE UNCHANGED vars
    <2>1. SlotInd /\ MutexInd /\ CallsInd /\ UNCHANGED <<tails, turn>>
      BY <1>9, InvariantParts DEF vars
    <2>2. SlotInd' /\ MutexInd'
      BY <1>9, <2>1, SlotsAside, MutexAside DEF vars
    <2>3. CallsInd'
      BY <1>9, <2>1 DEF CallsInd, BreakerType, CallsFit, Paced, vars, slotVars, guardVars
    <2> QED
      BY <2>1, <2>2, <2>3, InvariantPartsNext
  <1> QED
    BY <1>1, <1>2, <1>3, <1>4, <1>5, <1>6, <1>7, <1>8, <1>9 DEF Next, CallStep

\* The invariant holds of every behaviour of the guard.
THEOREM SpecIInv == Spec => []IInv
  <1>1. Init => IInv
    BY InitIInv
  <1>2. IInv /\ [Next]_vars => IInv'
    BY NextInd
  <1> QED
    BY <1>1, <1>2, PTL DEF Spec

\* Type correctness of the slots, the promises, the searches, their timers and
\* the circuit breaker, for any number of worker loops and stores.
THEOREM TypeCorrect == Spec => []TypeOK
  BY SpecIInv, PTL DEF IInv

\* "Caps how many scrape jobs run at once": no end of a job, no arrival and no
\* skipped expansion loses a slot, uses one twice or leaves one idle while a
\* job is parked, for any number of loops and slots.
THEOREM SlotsNeverLost == Spec => []SlotsConserved
  BY SpecIInv, PTL DEF IInv

\* "Runs async work one at a time per key, in arrival order": the promises
\* that callers leave behind, awaited, resolved and forgotten one by one, are
\* a queue per store of which only the first call works.
THEOREM PromisesAreAQueue == Spec => StoreQueue
  <1>1. Init => perStore!Locks!LocksInit
    BY InitIInv
  <1>2. IInv /\ [Next]_vars => [perStore!Locks!LocksNext]_(perStore!Locks!lockVars)
    <2> SUFFICES ASSUME IInv, [Next]_vars
                 PROVE  [perStore!Locks!LocksNext]_(perStore!Locks!lockVars)
      OBVIOUS
    <2>1. CASE UNCHANGED <<tails, turn>>
      <3>1. \A k \in Stores : perStore!QueueOf(k)' = perStore!QueueOf(k)
        BY <2>1, QueuesNamed
      <3>2. {c \in Loops : turn[c].inside}' = {c \in Loops : turn[c].inside}
        BY <2>1
      <3> QED
        BY <3>1, <3>2 DEF perStore!Locks!lockVars
    <2>2. CASE \E c \in Loops, k \in Stores :
                 perStore!Locks!Arrive(c, k) \/ perStore!Locks!Begin(c, k) \/ perStore!Locks!Depart(c, k)
      BY <2>2 DEF perStore!Locks!LocksNext
    <2> QED
      BY <2>1, <2>2, NextInd
  <1> QED
    BY <1>1, <1>2, SpecIInv, PTL DEF Spec, StoreQueue, perStore!OneAtATimeInOrder, perStore!Locks!LocksSpec

\* A call starts in one place.
LEMMA OnlyStartCallStarts ==
  ASSUME IInv, [Next]_vars, NEW w \in Loops, Starts(w)
  PROVE  StartCall(w)
  <1>1. /\ search \in [Loops -> SearchRecord]
        /\ search[w].pc # "calling" /\ search'[w].pc = "calling"
    BY InvariantParts DEF CallsInd, Starts
  <1>2. ~UNCHANGED search
    BY <1>1
  <1>3. ASSUME NEW x \in Loops, NEW new, search' = [search EXCEPT ![x] = new], new.pc # "calling"
        PROVE  FALSE
    BY <1>1, <1>3
  <1>4. ASSUME NEW x \in Loops, NEW priority, NEW expansion, TakeJob(x, priority, expansion)
        PROVE  FALSE
    <2>1. [NoSearch EXCEPT !.left = MaxSearches].pc # "calling"
      BY DEF NoSearch
    <2> QED
      BY <1>3, <1>4, <2>1 DEF TakeJob
  <1>5. ASSUME NEW x \in Loops, EndJob(x)
        PROVE  FALSE
    <2>1. NoSearch.pc # "calling"
      BY DEF NoSearch
    <2> QED
      BY <1>3, <1>5, <2>1 DEF EndJob
  <1>6. ASSUME NEW x \in Loops, NEW s, NEW strict, Search(x, s, strict)
        PROVE  FALSE
    BY <1>1, <1>6 DEF Search
  <1>7. ASSUME NEW x \in Loops, EnterQueue(x)
        PROVE  FALSE
    BY <1>1, <1>7 DEF EnterQueue, Pace, SearchRecord
  <1>8. ASSUME NEW x \in Loops, Listings(x) \/ NoListings(x) \/ ThrewAgain(x)
        PROVE  FALSE
    <2>1. [NoSearch EXCEPT !.left = search[x].left].pc # "calling"
      BY DEF NoSearch
    <2>2. search' = [search EXCEPT ![x] = [NoSearch EXCEPT !.left = search[x].left]]
      BY <1>8 DEF Listings, NoListings, ThrewAgain, Leave
    <2> QED
      BY <1>3, <2>1, <2>2
  <1>9. ASSUME NEW x \in Loops, ThrewFirst(x) \/ Retry(x)
        PROVE  FALSE
    BY <1>1, <1>9 DEF ThrewFirst, Retry, SearchRecord
  <1>10. ASSUME NEW x \in Loops, StartCall(x)
         PROVE  x = w
    BY <1>1, <1>10 DEF StartCall, SearchRecord
  <1> QED
    BY <1>2, <1>4, <1>5, <1>6, <1>7, <1>8, <1>9, <1>10
       DEF Next, CallStep, IsPaused, Tick, vars, guardVars

\* "Calls to one store are spaced at least minIntervalMs apart": whatever
\* other calls, retries and sleeps come between the reading of lastCallAt and
\* its writing, no call of any job starts before its store is due.
THEOREM CallsAreSpaced == Spec => CallsSpaced
  <1>1. IInv /\ [Next]_vars => [\A w \in Loops : Starts(w) => gap[Store(w)] = 0]_vars
    <2> SUFFICES ASSUME IInv, [Next]_vars, NEW w \in Loops, Starts(w)
                 PROVE  gap[Store(w)] = 0
      OBVIOUS
    <2> QED
      BY OnlyStartCallStarts, StartCallInd
  <1> QED
    BY <1>1, SpecIInv, PTL DEF Spec, CallsSpaced
====
