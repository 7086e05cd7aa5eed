-------------------------- MODULE WatchLedgerProofs --------------------------
(***************************************************************************)
(* Theorems about WatchLedger for every set of names.                      *)
(***************************************************************************)
EXTENDS WatchLedger, SequenceTheorems, TLAPS

Requests == [kind : {"create", "delete"}, id : Nat]

TypeInv ==
  /\ next \in Nat
  /\ DOMAIN shown \subseteq Name
  /\ \A n \in DOMAIN shown : shown[n] \in Nat /\ shown[n] < next
  /\ requests \in Seq(Requests)
  /\ \A k \in 1..Len(requests) : requests[k].id < next
  /\ objects \subseteq Nat
  /\ \A id \in objects : id < next

\* The watch that a creation on its way is for is shown, or will be deleted
\* after it has been created.
CreationsInv ==
  \A k \in 1..Len(requests) :
    requests[k].kind = "create" /\ requests[k].id \notin ShownIds =>
      \E j \in 1..Len(requests) : k < j /\ requests[j] = Delete(requests[k].id)

IInv == TypeInv /\ CreationsInv /\ NoLeak /\ NoCollision

-----------------------------------------------------------------------------
LEMMA InitIInv == Init => IInv
  BY DEF Init, IInv, TypeInv, CreationsInv, NoLeak, NoCollision, ShownIds

LEMMA RequestFields ==
  ASSUME NEW id
  PROVE  /\ Create(id).kind = "create" /\ Create(id).id = id
         /\ Delete(id).kind = "delete" /\ Delete(id).id = id
  BY DEF Create, Delete

LEMMA ConcatAt ==
  ASSUME NEW S, NEW s \in Seq(S), NEW t \in Seq(S), NEW a, NEW b, Len(s) = a, Len(t) = b
  PROVE  /\ s \o t \in Seq(S) /\ Len(s \o t) = a + b
         /\ \A k \in 1..(a + b) : (s \o t)[k] = IF k <= a THEN s[k] ELSE t[k - a]
  BY ConcatProperties, Zenon

\* What Show appends to the requests.
LEMMA ShowRequests ==
  ASSUME TypeInv, NEW fresh \in Seq(Name), NEW gone \in Seq(Name), Show(fresh, gone)
  PROVE  LET f == Len(fresh)  g == Len(gone)  n == Len(requests)
         IN  /\ requests' \in Seq(Requests)
             /\ Len(requests') = n + f + g
             /\ \A k \in 1..n : requests'[k] = requests[k]
             /\ \A k \in (n + 1)..(n + f) : requests'[k] = Create(next + (k - n) - 1)
             /\ \A k \in (n + f + 1)..(n + f + g) : requests'[k] = Delete(shown[gone[k - (n + f)]])
<1> DEFINE f == Len(fresh)
           g == Len(gone)
           n == Len(requests)
           creates == [k \in 1..f |-> Create(next + k - 1)]
           deletes == [k \in 1..g |-> Delete(shown[gone[k]])]
           both    == requests \o creates
<1>1. f \in Nat /\ g \in Nat /\ n \in Nat /\ next \in Nat /\ requests \in Seq(Requests)
  BY DEF TypeInv
<1>2. requests' = both \o deletes
  BY DEF Show
<1>3. creates \in Seq(Requests) /\ Len(creates) = f
  <2>1. \A k \in 1..f : Create(next + k - 1) \in Requests
    BY <1>1 DEF Create, Requests
  <2>2. QED BY <1>1, <2>1
<1>4. deletes \in Seq(Requests) /\ Len(deletes) = g
  <2>1. \A k \in 1..g : gone[k] \in DOMAIN shown
    BY DEF Show, ToSet
  <2>2. \A k \in 1..g : Delete(shown[gone[k]]) \in Requests
    BY <2>1 DEF Delete, Requests, TypeInv
  <2>3. QED BY <1>1, <2>2
<1>5. \A k \in 1..f : creates[k] = Create(next + k - 1)
  OBVIOUS
<1>6. \A k \in 1..g : deletes[k] = Delete(shown[gone[k]])
  OBVIOUS
<1>7. Len(requests) = n
  OBVIOUS
<1> HIDE DEF creates, deletes, both, f, g, n
<1>8. /\ both \in Seq(Requests) /\ Len(both) = n + f
      /\ \A k \in 1..(n + f) : both[k] = IF k <= n THEN requests[k] ELSE creates[k - n]
  <2> DEFINE base == requests
  <2>1. base \in Seq(Requests) /\ Len(base) = n
    BY <1>1, <1>7
  <2> HIDE DEF base
  <2>2. /\ base \o creates \in Seq(Requests) /\ Len(base \o creates) = n + f
        /\ \A k \in 1..(n + f) : (base \o creates)[k] = IF k <= n THEN base[k] ELSE creates[k - n]
    <3>1. creates \in Seq(Requests)
      BY <1>3
    <3>2. Len(creates) = f
      BY <1>3
    <3>3. base \in Seq(Requests)
      BY <2>1
    <3>4. Len(base) = n
      BY <2>1
    <3>5. base \o creates \in Seq(Requests)
      BY <3>1, <3>3, ConcatProperties
    <3>6. Len(base \o creates) = n + f
      BY <3>1, <3>2, <3>3, <3>4, ConcatProperties
    <3>7. \A k \in 1..(n + f) : (base \o creates)[k] = IF k <= n THEN base[k] ELSE creates[k - n]
      BY <3>1, <3>2, <3>3, <3>4, ConcatProperties
    <3>8. QED BY <3>5, <3>6, <3>7
  <2>3. QED BY <2>2 DEF both, base
<1>9. /\ both \o deletes \in Seq(Requests) /\ Len(both \o deletes) = (n + f) + g
      /\ \A k \in 1..((n + f) + g) :
           (both \o deletes)[k] = IF k <= n + f THEN both[k] ELSE deletes[k - (n + f)]
  BY <1>4, <1>8, ConcatAt
<1>10. ASSUME NEW k \in 1..n PROVE requests'[k] = requests[k]
  <2>1. k \in 1..(n + f) /\ k \in 1..((n + f) + g) /\ k <= n /\ k <= n + f
    BY <1>1
  <2>2. QED BY <1>2, <1>8, <1>9, <2>1
<1>11. ASSUME NEW k \in (n + 1)..(n + f) PROVE requests'[k] = Create(next + (k - n) - 1)
  <2>1. /\ k \in 1..(n + f) /\ k \in 1..((n + f) + g)
        /\ ~(k <= n) /\ k <= n + f /\ k - n \in 1..f
    BY <1>1
  <2>2. requests'[k] = creates[k - n]
    BY <1>2, <1>8, <1>9, <2>1
  <2>3. QED BY <1>5, <2>1, <2>2
<1>12. ASSUME NEW k \in (n + f + 1)..(n + f + g)
       PROVE  requests'[k] = Delete(shown[gone[k - (n + f)]])
  <2>1. k \in 1..((n + f) + g) /\ ~(k <= n + f) /\ k - (n + f) \in 1..g
    BY <1>1
  <2>2. QED BY <1>2, <1>6, <1>9, <2>1
<1>13. requests' \in Seq(Requests) /\ Len(requests') = n + f + g
  BY <1>1, <1>2, <1>9
<1>14. QED
  BY <1>10, <1>11, <1>12, <1>13 DEF f, g, n

\* After Show, a watch is shown unless it was given up or never was.
LEMMA ShownAfterShow ==
  ASSUME TypeInv, NEW fresh \in Seq(Name), NEW gone \in Seq(Name), Show(fresh, gone)
  PROVE  /\ DOMAIN shown' = (DOMAIN shown \ ToSet(gone)) \cup ToSet(fresh)
         /\ \A n \in DOMAIN shown' :
              \/ n \in DOMAIN shown /\ n \notin ToSet(gone) /\ shown'[n] = shown[n]
              \/ \E k \in 1..Len(fresh) : n = fresh[k] /\ shown'[n] = next + k - 1
         /\ \A id \in ShownIds : \/ id \in ShownIds'
                                \/ \E k \in 1..Len(gone) : id = shown[gone[k]]
         /\ \A k \in 1..Len(fresh) : next + k - 1 \in ShownIds'
<1>1. DOMAIN shown' = (DOMAIN shown \ ToSet(gone)) \cup ToSet(fresh)
  BY DEF Show
<1>2. /\ \A n \in DOMAIN shown \ ToSet(gone) : shown'[n] = shown[n]
      /\ \A k \in 1..Len(fresh) : shown'[fresh[k]] = next + k - 1
      /\ \A n \in ToSet(fresh) : \E k \in 1..Len(fresh) : n = fresh[k]
      /\ \A n \in ToSet(gone) : \E k \in 1..Len(gone) : n = gone[k]
      /\ \A k \in 1..Len(fresh) : fresh[k] \in ToSet(fresh)
  BY DEF Show, ToSet
<1>3. \A n \in DOMAIN shown' :
        \/ n \in DOMAIN shown /\ n \notin ToSet(gone) /\ shown'[n] = shown[n]
        \/ \E k \in 1..Len(fresh) : n = fresh[k] /\ shown'[n] = next + k - 1
  BY <1>1, <1>2
<1>4. ASSUME NEW n \in DOMAIN shown
      PROVE  \/ shown[n] \in ShownIds'
             \/ \E k \in 1..Len(gone) : shown[n] = shown[gone[k]]
  BY <1>1, <1>2 DEF ShownIds
<1>5. \A k \in 1..Len(fresh) : next + k - 1 \in ShownIds'
  BY <1>1, <1>2 DEF ShownIds
<1>6. QED BY <1>1, <1>3, <1>4, <1>5 DEF ShownIds

\* A request after Show is an earlier one, a creation under a new identifier, or
\* the deletion of a watch that was shown.
LEMMA AfterShow ==
  ASSUME TypeInv, NEW fresh \in Seq(Name), NEW gone \in Seq(Name), Show(fresh, gone),
         NEW k \in 1..Len(requests')
  PROVE  LET f == Len(fresh)  n == Len(requests)
         IN  \/ k \in 1..n /\ requests'[k] = requests[k]
             \/ /\ k \in (n + 1)..(n + f)
                /\ requests'[k].kind = "create" /\ requests'[k].id = next + (k - n) - 1
             \/ /\ n < k /\ requests'[k].kind = "delete" /\ requests'[k].id \in ShownIds
<1> DEFINE f == Len(fresh)
           g == Len(gone)
           n == Len(requests)
<1>1. f \in Nat /\ g \in Nat /\ n \in Nat
  BY DEF TypeInv
<1>2. Len(requests') = n + f + g
  BY ShowRequests
<1>3. \A i \in 1..g : gone[i] \in DOMAIN shown
  BY DEF Show, ToSet
<1> HIDE DEF f, g, n
<1>4. k \in Nat /\ 1 <= k /\ k <= n + f + g
  BY <1>1, <1>2
<1>5. CASE k <= n
  <2>1. k \in 1..n
    BY <1>1, <1>4, <1>5
  <2>2. QED BY <2>1, ShowRequests DEF n, f
<1>6. CASE n < k /\ k <= n + f
  <2>1. k \in (n + 1)..(n + f)
    BY <1>1, <1>4, <1>6
  <2>2. requests'[k] = Create(next + (k - n) - 1)
    BY <2>1, ShowRequests DEF n, f
  <2>3. QED BY <2>1, <2>2, RequestFields DEF n, f
<1>7. CASE n + f < k
  <2>1. k \in (n + f + 1)..(n + f + g) /\ k - (n + f) \in 1..g /\ n < k
    BY <1>1, <1>4, <1>7
  <2>2. requests'[k] = Delete(shown[gone[k - (n + f)]])
    BY <2>1, ShowRequests DEF n, f, g
  <2>3. shown[gone[k - (n + f)]] \in ShownIds
    BY <1>3, <2>1 DEF ShownIds
  <2>4. QED BY <2>1, <2>2, <2>3, RequestFields DEF n, f
<1>8. QED BY <1>1, <1>4, <1>5, <1>6, <1>7

\* The deletion of a watch that Show gives up is behind everything requested before.
LEMMA GivenUp ==
  ASSUME TypeInv, NEW fresh \in Seq(Name), NEW gone \in Seq(Name), Show(fresh, gone),
         NEW id \in ShownIds, id \notin ShownIds'
  PROVE  \E j \in 1..Len(requests') : Len(requests) < j /\ requests'[j] = Delete(id)
<1> DEFINE f == Len(fresh)
           g == Len(gone)
           n == Len(requests)
<1>1. f \in Nat /\ g \in Nat /\ n \in Nat
  BY DEF TypeInv
<1>2. Len(requests') = n + f + g
  BY ShowRequests
<1>3. PICK i \in 1..g : id = shown[gone[i]]
  BY ShownAfterShow
<1> HIDE DEF f, g, n
<1> DEFINE j == n + f + i
<1>4. j \in (n + f + 1)..(n + f + g) /\ j - (n + f) = i /\ n < j
  BY <1>1
<1>5. j \in 1..Len(requests')
  BY <1>1, <1>2, <1>4
<1> HIDE DEF j
<1>6. requests'[j] = Delete(shown[gone[j - (n + f)]])
  BY <1>4, ShowRequests DEF n, f, g
<1>7. QED BY <1>3, <1>4, <1>5, <1>6 DEF n

LEMMA ShowTypeInv ==
  ASSUME TypeInv, NEW fresh \in Seq(Name), NEW gone \in Seq(Name), Show(fresh, gone)
  PROVE  TypeInv'
<1> DEFINE f == Len(fresh)
           n == Len(requests)
<1>1. /\ f \in Nat /\ n \in Nat /\ next \in Nat
      /\ next' = next + f /\ objects' = objects
  BY DEF Show, TypeInv
<1>2. requests' \in Seq(Requests)
  BY ShowRequests
<1>3. DOMAIN shown' \subseteq Name
  <2>1. DOMAIN shown' = (DOMAIN shown \ ToSet(gone)) \cup ToSet(fresh)
    BY ShownAfterShow
  <2>2. ToSet(fresh) \subseteq Name
    BY DEF ToSet
  <2>3. QED BY <2>1, <2>2 DEF TypeInv
<1> HIDE DEF f, n
<1>4. ASSUME NEW m \in DOMAIN shown' PROVE shown'[m] \in Nat /\ shown'[m] < next'
  <2>1. \/ m \in DOMAIN shown /\ shown'[m] = shown[m]
        \/ \E k \in 1..f : shown'[m] = next + k - 1
    BY ShownAfterShow DEF f
  <2>2. CASE m \in DOMAIN shown /\ shown'[m] = shown[m]
    <3>1. shown[m] \in Nat /\ shown[m] < next
      BY <2>2 DEF TypeInv
    <3>2. QED BY <1>1, <2>2, <3>1
  <2>3. ASSUME NEW k \in 1..f, shown'[m] = next + k - 1
        PROVE  shown'[m] \in Nat /\ shown'[m] < next'
    BY <1>1, <2>3
  <2>4. QED BY <2>1, <2>2, <2>3
<1>5. ASSUME NEW k \in 1..Len(requests') PROVE requests'[k].id < next'
  <2>1. CASE k \in 1..n /\ requests'[k] = requests[k]
    <3>1. requests[k] \in Requests /\ requests[k].id < next
      BY <2>1 DEF TypeInv, n
    <3>2. requests[k].id \in Nat
      BY <3>1 DEF Requests
    <3>3. QED BY <1>1, <2>1, <3>1, <3>2
  <2>2. CASE k \in (n + 1)..(n + f) /\ requests'[k].id = next + (k - n) - 1
    BY <1>1, <2>2
  <2>3. CASE requests'[k].id \in ShownIds
    <3>1. requests'[k].id \in Nat /\ requests'[k].id < next
      BY <2>3 DEF ShownIds, TypeInv
    <3>2. QED BY <1>1, <3>1
  <2>4. QED BY <2>1, <2>2, <2>3, AfterShow DEF f, n
<1>6. objects' \subseteq Nat /\ \A id \in objects' : id < next'
  <2>1. objects \subseteq Nat /\ \A id \in objects : id < next
    BY DEF TypeInv
  <2>2. QED BY <1>1, <2>1
<1>7. next' \in Nat
  BY <1>1
<1>8. QED BY <1>2, <1>3, <1>4, <1>5, <1>6, <1>7 DEF TypeInv

LEMMA ShowIInv ==
  ASSUME IInv, NEW fresh \in Seq(Name), NEW gone \in Seq(Name), Show(fresh, gone)
  PROVE  IInv'
<1> DEFINE f == Len(fresh)
           n == Len(requests)
<1>1. TypeInv /\ CreationsInv /\ NoLeak /\ NoCollision
  BY DEF IInv
<1>2. f \in Nat /\ n \in Nat /\ next \in Nat /\ next' = next + f /\ objects' = objects
  BY <1>1 DEF Show, TypeInv
<1>3. TypeInv'
  BY <1>1, ShowTypeInv
<1>4. /\ requests \in Seq(Requests) /\ requests' \in Seq(Requests)
      /\ DOMAIN requests = 1..n /\ DOMAIN requests' = 1..Len(requests')
  BY <1>1, <1>3 DEF TypeInv
<1>5. \A k \in 1..n : k \in 1..Len(requests') /\ requests'[k] = requests[k]
  <2> DEFINE g == Len(gone)
  <2>1. Len(requests') = n + f + g /\ \A k \in 1..n : requests'[k] = requests[k]
    BY <1>1, ShowRequests
  <2>2. g \in Nat
    OBVIOUS
  <2> HIDE DEF f, g, n
  <2>3. \A k \in 1..n : k \in 1..(n + f + g)
    BY <1>2, <2>2
  <2>4. QED BY <2>1, <2>3
<1>6. \A k \in 1..n : requests[k].id \in Nat /\ requests[k].id < next
  <2>1. \A k \in 1..n : requests[k] \in Requests /\ requests[k].id < next
    BY <1>1, <1>4 DEF TypeInv
  <2>2. QED BY <2>1 DEF Requests
<1>7. ASSUME NEW k \in 1..Len(requests'), requests'[k].kind = "create"
      PROVE  \/ k \in 1..n /\ requests'[k] = requests[k]
             \/ k \in (n + 1)..(n + f) /\ requests'[k].id = next + (k - n) - 1
  BY <1>1, <1>7, AfterShow
<1>8. \A k \in (n + 1)..(n + f) : next + (k - n) - 1 \in ShownIds'
  <2>1. \A i \in 1..f : next + i - 1 \in ShownIds'
    BY <1>1, ShownAfterShow
  <2> HIDE DEF f, n
  <2>2. \A k \in (n + 1)..(n + f) : k - n \in 1..f
    BY <1>2
  <2>3. QED BY <2>1, <2>2
<1>9. \A id \in ShownIds : id \notin ShownIds' =>
        \E j \in 1..Len(requests') : n < j /\ requests'[j] = Delete(id)
  BY <1>1, GivenUp
<1> HIDE DEF f, n
<1>10. CreationsInv'
  <2>1. ASSUME NEW k \in 1..Len(requests'), requests'[k].kind = "create",
               requests'[k].id \notin ShownIds'
        PROVE  \E j \in 1..Len(requests') : k < j /\ requests'[j] = Delete(requests'[k].id)
    <3>1. k \in 1..n /\ requests'[k] = requests[k]
      BY <1>7, <1>8, <2>1
    <3>2. CASE requests[k].id \in ShownIds
      <4>1. PICK j \in 1..Len(requests') : n < j /\ requests'[j] = Delete(requests[k].id)
        BY <1>9, <2>1, <3>1, <3>2
      <4>2. k < j
        BY <1>2, <3>1, <4>1
      <4>3. QED BY <3>1, <4>1, <4>2
    <3>3. CASE requests[k].id \notin ShownIds
      <4>1. PICK j \in 1..n : k < j /\ requests[j] = Delete(requests[k].id)
        BY <1>1, <2>1, <3>1, <3>3 DEF CreationsInv, n
      <4>2. QED BY <1>5, <3>1, <4>1
    <3>4. QED BY <3>2, <3>3
  <2>2. QED BY <2>1 DEF CreationsInv
<1>11. NoLeak'
  <2>1. ASSUME NEW id \in objects', id \notin ShownIds'
        PROVE  \E k \in 1..Len(requests') : requests'[k] = Delete(id)
    <3>1. CASE id \in ShownIds
      BY <1>9, <2>1, <3>1
    <3>2. CASE id \notin ShownIds
      <4>1. PICK k \in 1..n : requests[k] = Delete(id)
        BY <1>1, <1>2, <1>4, <2>1, <3>2 DEF NoLeak
      <4>2. QED BY <1>5, <4>1
    <3>3. QED BY <3>1, <3>2
  <2>2. QED BY <1>4, <2>1 DEF NoLeak
<1>12. NoCollision'
  <2>1. ASSUME NEW k \in 1..Len(requests'), requests'[k].kind = "create"
        PROVE  requests'[k].id \notin objects'
    <3>1. CASE k \in 1..n /\ requests'[k] = requests[k]
      BY <1>1, <1>2, <1>4, <2>1, <3>1 DEF NoCollision
    <3>2. CASE k \in (n + 1)..(n + f) /\ requests'[k].id = next + (k - n) - 1
      <4>1. \A id \in objects : id \in Nat /\ id < next
        BY <1>1 DEF TypeInv
      <4>2. ~(next + (k - n) - 1 < next)
        BY <1>2, <3>2
      <4>3. QED BY <1>2, <3>2, <4>1, <4>2
    <3>3. QED BY <1>7, <2>1, <3>1, <3>2
  <2>2. ASSUME NEW k \in 1..Len(requests'), requests'[k].kind = "create",
               NEW j \in 1..Len(requests'), requests'[j] = requests'[k]
        PROVE  j = k
    <3>1. CASE k \in 1..n /\ requests'[k] = requests[k] /\ j \in 1..n /\ requests'[j] = requests[j]
      BY <1>1, <1>4, <2>2, <3>1 DEF NoCollision
    <3>2. CASE /\ k \in (n + 1)..(n + f) /\ requests'[k].id = next + (k - n) - 1
               /\ j \in (n + 1)..(n + f) /\ requests'[j].id = next + (j - n) - 1
      <4>1. next + (k - n) - 1 = next + (j - n) - 1
        BY <2>2, <3>2
      <4>2. n \in Nat /\ next \in Nat /\ k \in Int /\ j \in Int
        BY <1>1, <1>2, <3>2 DEF TypeInv
      <4>3. QED BY ONLY <4>1, <4>2
    <3>3. ASSUME NEW a \in 1..n, NEW b \in (n + 1)..(n + f), requests'[a] = requests[a],
                 requests'[b].id = next + (b - n) - 1
          PROVE  requests'[a] # requests'[b]
      <4>1. requests[a].id < next /\ requests[a].id \in Nat
        BY <1>6
      <4>2. ~(next + (b - n) - 1 < next)
        BY <1>2, <3>3
      <4>3. QED BY <3>3, <4>1, <4>2
    <3>4. /\ \/ k \in 1..n /\ requests'[k] = requests[k]
             \/ k \in (n + 1)..(n + f) /\ requests'[k].id = next + (k - n) - 1
          /\ \/ j \in 1..n /\ requests'[j] = requests[j]
             \/ j \in (n + 1)..(n + f) /\ requests'[j].id = next + (j - n) - 1
      BY <1>7, <2>2
    <3>5. QED BY <2>2, <3>1, <3>2, <3>3, <3>4
  <2>3. QED BY <1>4, <2>1, <2>2 DEF NoCollision
<1>13. QED BY <1>3, <1>10, <1>11, <1>12 DEF IInv
-----------------------------------------------------------------------------
LEMMA ExecuteIInv ==
  ASSUME IInv, Execute
  PROVE  IInv'
<1> DEFINE n == Len(requests)
           r == Head(requests)
<1>1. TypeInv /\ CreationsInv /\ NoLeak /\ NoCollision
  BY DEF IInv
<1>2. /\ requests \in Seq(Requests) /\ requests # <<>> /\ requests' = Tail(requests)
      /\ shown' = shown /\ next' = next
  BY <1>1 DEF Execute, TypeInv
<1>3. n \in Nat /\ n >= 1 /\ r = requests[1] /\ 1 \in 1..n /\ DOMAIN requests = 1..n
  BY <1>2
<1>4. /\ requests' \in Seq(Requests) /\ Len(requests') = n - 1
      /\ DOMAIN requests' = 1..(n - 1)
      /\ \A k \in 1..(n - 1) : requests'[k] = requests[k + 1]
  BY <1>2, <1>3
<1>5. ShownIds' = ShownIds
  BY <1>2 DEF ShownIds
<1>6. \/ objects' = objects \cup {r.id} /\ r.kind = "create"
      \/ objects' = objects /\ r.kind = "create"
      \/ objects' = objects \ {r.id} /\ r.kind = "delete"
  BY DEF Execute
<1>7. \A k \in 1..n : requests[k] \in Requests /\ requests[k].id < next
  BY <1>1, <1>2, <1>3 DEF TypeInv
<1>8. r.id \in Nat /\ r.id < next
  <2>1. r \in Requests /\ r.id < next
    BY <1>3, <1>7
  <2>2. QED BY <2>1 DEF Requests
<1> HIDE DEF n, r
<1>9. \A k \in 1..(n - 1) : k + 1 \in 1..n
  BY <1>3
<1>10. \A j \in 1..n : j = 1 \/ (j - 1 \in 1..(n - 1) /\ (j - 1) + 1 = j)
  BY <1>3
<1>11. TypeInv'
  <2>1. \A k \in 1..(n - 1) : requests'[k].id < next'
    BY <1>2, <1>4, <1>7, <1>9
  <2>2. objects' \subseteq Nat /\ \A id \in objects' : id < next'
    <3>1. objects \subseteq Nat /\ \A id \in objects : id < next
      BY <1>1 DEF TypeInv
    <3>2. QED BY <1>2, <1>6, <1>8, <3>1
  <2>3. /\ next' \in Nat /\ DOMAIN shown' \subseteq Name
        /\ \A m \in DOMAIN shown' : shown'[m] \in Nat /\ shown'[m] < next'
    BY <1>1, <1>2 DEF TypeInv
  <2>4. QED BY <1>4, <2>1, <2>2, <2>3 DEF TypeInv
\* A request behind the first one moves up by one place.
<1>12. ASSUME NEW j \in 1..n, j > 1
       PROVE  j - 1 \in 1..(n - 1) /\ requests'[j - 1] = requests[j]
  <2>1. j - 1 \in 1..(n - 1) /\ (j - 1) + 1 = j
    BY <1>3, <1>12
  <2>2. QED BY <1>4, <2>1
<1>13. CreationsInv'
  <2>1. ASSUME NEW k \in 1..(n - 1), requests'[k].kind = "create", requests'[k].id \notin ShownIds
        PROVE  \E j \in 1..(n - 1) : k < j /\ requests'[j] = Delete(requests'[k].id)
    <3>1. requests'[k] = requests[k + 1] /\ k + 1 \in 1..n
      BY <1>4, <1>9
    <3>2. PICK j \in 1..n : k + 1 < j /\ requests[j] = Delete(requests[k + 1].id)
      BY <1>1, <2>1, <3>1 DEF CreationsInv, n
    <3>3. j > 1 /\ k < j - 1
      BY <1>3, <3>2
    <3>4. QED BY <1>12, <3>1, <3>2, <3>3
  <2>2. QED BY <1>4, <1>5, <2>1 DEF CreationsInv
<1>14. NoLeak'
  <2>1. ASSUME NEW id \in objects', id \notin ShownIds
        PROVE  \E k \in 1..(n - 1) : requests'[k] = Delete(id)
    <3>1. CASE id \in objects /\ ~(id = r.id /\ r.kind = "delete")
      <4>1. PICK k \in 1..n : requests[k] = Delete(id)
        BY <1>1, <1>3, <2>1, <3>1 DEF NoLeak
      <4>2. k # 1
        BY <1>3, <3>1, <4>1, RequestFields
      <4>3. k > 1
        BY <1>3, <4>2
      <4>4. QED BY <1>12, <4>1, <4>3
    <3>2. CASE id = r.id /\ r.kind = "create"
      <4>1. PICK j \in 1..n : 1 < j /\ requests[j] = Delete(r.id)
        BY <1>1, <1>3, <2>1, <3>2 DEF CreationsInv, n
      <4>2. j > 1
        BY <1>3, <4>1
      <4>3. QED BY <1>12, <3>2, <4>1, <4>2
    <3>3. QED BY <1>6, <2>1, <3>1, <3>2
  <2>2. QED BY <1>4, <1>5, <2>1 DEF NoLeak
<1>15. NoCollision'
  <2>1. \A k \in 1..n : requests[k].kind = "create" =>
          /\ requests[k].id \notin objects
          /\ \A j \in 1..n : requests[j] = requests[k] => j = k
    BY <1>1, <1>3 DEF NoCollision
  <2>2. ASSUME NEW k \in 1..(n - 1), requests'[k].kind = "create"
        PROVE  requests'[k].id \notin objects'
    <3>1. requests'[k] = requests[k + 1] /\ k + 1 \in 1..n /\ k + 1 # 1
      BY <1>4, <1>9
    <3>2. requests[k + 1].id \notin objects
      BY <2>1, <2>2, <3>1
    <3>3. ASSUME r.kind = "create", r.id = requests[k + 1].id PROVE FALSE
      <4>1. r \in Requests /\ requests[k + 1] \in Requests
        BY <1>3, <1>7, <3>1
      <4>2. r = requests[k + 1]
        BY <2>2, <3>1, <3>3, <4>1 DEF Requests
      <4>3. QED BY <1>3, <2>1, <2>2, <3>1, <4>2
    <3>4. QED BY <1>6, <3>1, <3>2, <3>3
  <2>3. ASSUME NEW k \in 1..(n - 1), requests'[k].kind = "create",
               NEW j \in 1..(n - 1), requests'[j] = requests'[k]
        PROVE  j = k
    <3>1. /\ requests'[k] = requests[k + 1] /\ k + 1 \in 1..n
          /\ requests'[j] = requests[j + 1] /\ j + 1 \in 1..n
      BY <1>4, <1>9
    <3>2. j + 1 = k + 1
      BY <2>1, <2>3, <3>1
    <3>3. QED BY <1>3, <3>2
  <2>4. QED BY <1>4, <2>2, <2>3 DEF NoCollision
<1>16. QED BY <1>11, <1>13, <1>14, <1>15 DEF IInv

LEMMA StepIInv ==
  ASSUME IInv, [Next]_ledgerVars
  PROVE  IInv'
<1>1. ASSUME NEW fresh \in SeqOf(Name, Cardinality(Name)), NEW gone \in SeqOf(Name, Cardinality(Name)),
             Show(fresh, gone)
      PROVE  IInv'
  <2>1. fresh \in Seq(Name) /\ gone \in Seq(Name)
    BY DEF SeqOf
  <2>2. QED BY <1>1, <2>1, ShowIInv
<1>2. CASE Execute
  BY <1>2, ExecuteIInv
<1>3. CASE UNCHANGED ledgerVars
  <2>1. ShownIds' = ShownIds
    BY <1>3 DEF ledgerVars, ShownIds
  <2>2. QED
    BY <1>3, <2>1 DEF ledgerVars, IInv, TypeInv, CreationsInv, NoLeak, NoCollision
<1>4. QED BY <1>1, <1>2, <1>3 DEF Next

LEMMA InvariantHolds == Spec => []IInv
<1>1. Init => IInv
  BY InitIInv
<1>2. IInv /\ [Next]_ledgerVars => IInv'
  BY StepIInv
<1>3. QED BY <1>1, <1>2, PTL DEF Spec

\* Whatever names come and go, and however late and with whatever failures gdb
\* carries out the requests, a variable object that the front end does not show has
\* its deletion on the way (OnRetrievedLocals, debug_presenter.cc:166-217).
THEOREM NoLeakHolds == Spec => []NoLeak
<1>1. IInv => NoLeak
  BY DEF IInv
<1>2. QED BY <1>1, InvariantHolds, PTL

\* No identifier is created twice (GenerateNewVariableIdentifier,
\* debug_presenter.cc:162-164): gdb cannot refuse a creation for its name.
THEOREM NoCollisionHolds == Spec => []NoCollision
<1>1. IInv => NoCollision
  BY DEF IInv
<1>2. QED BY <1>1, InvariantHolds, PTL
=============================================================================
