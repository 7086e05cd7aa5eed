-------------------------- MODULE AppThreadProofs --------------------------
(***************************************************************************)
(* Why PostTaskHelper may do without the lock, for any number of threads,  *)
(* any tasks and any CanPost that respects the order of the identifiers.   *)
(***************************************************************************)
EXTENDS AppThread, TLAPS

Places == [at : {"idle", "scan", "lock", "read", "post"}, slot : Nat, outlives : BOOLEAN, loop : BOOLEAN]

TypeInv ==
  /\ threads \in [IDs -> BOOLEAN]
  /\ message_loop \in [IDs -> BOOLEAN]
  /\ outbox \in [IDs -> Seq(Posts)]
  /\ post \in [IDs -> Places]
  /\ joining \in IDs \cup {Nobody}

\* The threads are a prefix of the identifiers, all but the last with a loop.
Nested ==
  /\ \A i \in IDs : message_loop[i] => threads[i]
  /\ \A i, j \in IDs : i < j /\ threads[j] => message_loop[i]
  /\ threads[UI] => message_loop[UI]

\* Who posts has a loop, and posts only where it may.
Posting ==
  /\ \A t \in IDs : outbox[t] # <<>> => message_loop[t]
  /\ \A t \in IDs : post[t].at # "idle" => outbox[t] # <<>>
  /\ \A t \in IDs : Allowed(t, outbox[t])

\* A thread that ends is the last one, and the UI thread only waits for it.
Ending ==
  joining # Nobody =>
    /\ joining # UI /\ outbox[UI] = <<>>
    /\ \A i \in IDs : i > joining => ~threads[i]

\* The search ends at the thread itself, and only the UI thread takes the lock.
PlacesInOrder ==
  \A t \in IDs :
    /\ post[t].at = "scan" => post[t].slot <= t
    /\ post[t].at \in {"read", "post"} /\ post[t].outlives => Target(t) <= t
    /\ post[t].at \in {"read", "post"} /\ ~post[t].outlives => t = UI
    /\ post[t].at = "lock" => t = UI

\* A loop that was read is still there.
LoopsRead == \A t \in IDs : post[t].at = "post" /\ post[t].loop => message_loop[Target(t)]

Inv == TypeInv /\ Nested /\ Posting /\ Ending /\ PlacesInOrder /\ LoopsRead

---------------------------------------------------------------------------
LEMMA Identifiers ==
  /\ ThreadCount \in Nat /\ ThreadCount > 0
  /\ IDs \subseteq Nat /\ UI \in IDs /\ Nobody \notin IDs /\ UI = 0
  /\ \A i \in IDs : i >= 0 /\ i < ThreadCount
  BY ThreadCountAssumption DEF IDs, UI, Nobody

LEMMA InitInv == ThreadInit => Inv
  <1> SUFFICES ASSUME ThreadInit PROVE Inv
    OBVIOUS
  <1>1. Idle \in Places /\ Idle.at = "idle" /\ ~Idle.loop
    BY DEF Idle, At, Places
  <1>2. TypeInv
    BY <1>1 DEF ThreadInit, TypeInv
  <1>3. Nested /\ Posting /\ Ending
    BY <1>1, Identifiers DEF ThreadInit, Nested, Posting, Ending, Allowed
  <1>4. PlacesInOrder /\ LoopsRead
    BY <1>1 DEF ThreadInit, PlacesInOrder, LoopsRead
  <1>5. QED BY <1>2, <1>3, <1>4 DEF Inv

LEMMA StartMainInv == ASSUME Inv, StartMain PROVE Inv'
  <1> USE Identifiers DEF Inv, TypeInv, StartMain, Free
  <1>1. TypeInv'
    OBVIOUS
  <1>2. Nested'
    BY DEF Nested, Ending
  <1>3. Posting'
    BY DEF Nested, Posting, Allowed, Ending
  <1>4. Ending'
    BY DEF Nested, Ending
  <1>5. PlacesInOrder'
    BY DEF PlacesInOrder, Target
  <1>6. LoopsRead'
    BY DEF LoopsRead, Target, Nested, Posting, Ending, PlacesInOrder
  <1>7. QED BY <1>1, <1>2, <1>3, <1>4, <1>5, <1>6

LEMMA InitializeInv == ASSUME Inv, NEW id \in IDs, Initialize(id) PROVE Inv'
  <1> USE Identifiers DEF Inv, TypeInv, Initialize, Free
  <1>1. TypeInv'
    OBVIOUS
  <1>2. Nested'
    BY DEF Nested, Ending
  <1>3. Posting'
    BY DEF Nested, Posting, Allowed, Ending
  <1>4. Ending'
    BY DEF Nested, Ending
  <1>5. PlacesInOrder'
    BY DEF PlacesInOrder, Target
  <1>6. LoopsRead'
    BY DEF LoopsRead, Target, Nested, Posting, Ending, PlacesInOrder
  <1>7. QED BY <1>1, <1>2, <1>3, <1>4, <1>5, <1>6

LEMMA StartWithOptionsInv == ASSUME Inv, NEW id \in IDs, StartWithOptions(id) PROVE Inv'
  <1> USE Identifiers DEF Inv, TypeInv, StartWithOptions, Free
  <1>1. TypeInv'
    OBVIOUS
  <1>2. Nested'
    BY DEF Nested, Ending
  <1>3. Posting'
    BY DEF Nested, Posting, Allowed, Ending
  <1>4. Ending'
    BY DEF Nested, Ending
  <1>5. PlacesInOrder'
    BY DEF PlacesInOrder, Target
  <1>6. LoopsRead'
    BY DEF LoopsRead, Target, Nested, Posting, Ending, PlacesInOrder
  <1>7. QED BY <1>1, <1>2, <1>3, <1>4, <1>5, <1>6

LEMMA StopInv == ASSUME Inv, NEW id \in IDs, Stop(id) PROVE Inv'
  <1> USE Identifiers DEF Inv, TypeInv, Stop, NextToStop, Free
  <1>1. TypeInv'
    OBVIOUS
  <1>2. Nested'
    BY DEF Nested, Ending
  <1>3. Posting'
    BY DEF Nested, Posting, Allowed, Ending
  <1>4. Ending'
    BY DEF Nested, Ending
  <1>5. PlacesInOrder'
    BY DEF PlacesInOrder, Target
  <1>6. LoopsRead'
    BY DEF LoopsRead, Target, Nested, Posting, Ending, PlacesInOrder
  <1>7. QED BY <1>1, <1>2, <1>3, <1>4, <1>5, <1>6

LEMMA QuitInv == ASSUME Inv, NEW id \in IDs, Quit(id) PROVE Inv'
  <1> USE Identifiers DEF Inv, TypeInv, Quit, Free
  <1>1. TypeInv'
    OBVIOUS
  <1>2. Nested'
    BY DEF Nested, Ending
  <1>3. Posting'
    BY DEF Nested, Posting, Allowed, Ending
  <1>4. Ending'
    BY DEF Nested, Ending
  <1>5. PlacesInOrder'
    BY DEF PlacesInOrder, Target
  <1>6. LoopsRead'
    BY DEF LoopsRead, Target, Nested, Posting, Ending, PlacesInOrder
  <1>7. QED BY <1>1, <1>2, <1>3, <1>4, <1>5, <1>6

LEMMA JoinedInv == ASSUME Inv, NEW id \in IDs, Joined(id) PROVE Inv'
  <1> USE Identifiers DEF Inv, TypeInv, Joined, Free
  <1>1. TypeInv'
    OBVIOUS
  <1>2. Nested'
    BY DEF Nested, Ending
  <1>3. Posting'
    BY DEF Nested, Posting, Allowed, Ending
  <1>4. Ending'
    BY DEF Nested, Ending
  <1>5. PlacesInOrder'
    BY DEF PlacesInOrder, Target
  <1>6. LoopsRead'
    BY DEF LoopsRead, Target, Nested, Posting, Ending, PlacesInOrder
  <1>7. QED BY <1>1, <1>2, <1>3, <1>4, <1>5, <1>6

LEMMA EndMainInv == ASSUME Inv, EndMain PROVE Inv'
  <1> USE Identifiers DEF Inv, TypeInv, EndMain, NextToStop, Free
  <1>1. TypeInv'
    OBVIOUS
  <1>2. Nested'
    BY DEF Nested, Ending
  <1>3. Posting'
    BY DEF Nested, Posting, Allowed, Ending
  <1>4. Ending'
    BY DEF Nested, Ending
  <1>5. PlacesInOrder'
    BY DEF PlacesInOrder, Target
  <1>6. LoopsRead'
    BY DEF LoopsRead, Target, Nested, Posting, Ending, PlacesInOrder
  <1>7. QED BY <1>1, <1>2, <1>3, <1>4, <1>5, <1>6

LEMMA RunTaskInv == ASSUME Inv, NEW t \in IDs, NEW posts \in Seq(Posts), NEW replies \in Seq(Tasks), RunTask(t, posts, replies) PROVE Inv'
  <1> USE Identifiers DEF Inv, TypeInv, RunTask
  <1>1. TypeInv'
    BY DEF Places
  <1>2. Nested'
    BY DEF Nested
  <1>3. Posting'
    BY DEF Nested, Posting, Allowed
  <1>4. Ending'
    BY DEF Ending, Posting
  <1>5. PlacesInOrder'
    BY DEF PlacesInOrder, Target, Posting, Allowed
  <1>6. LoopsRead'
    BY DEF LoopsRead, Target, Nested, Posting, PlacesInOrder
  <1>7. QED BY <1>1, <1>2, <1>3, <1>4, <1>5, <1>6

LEMMA RunMessageInv == ASSUME Inv, NEW t \in IDs, NEW posts \in Seq(Posts), RunMessage(t, posts) PROVE Inv'
  <1> USE Identifiers DEF Inv, TypeInv, RunMessage, Free
  <1>1. TypeInv'
    BY DEF Places
  <1>2. Nested'
    BY DEF Nested
  <1>3. Posting'
    BY DEF Nested, Posting, Allowed
  <1>4. Ending'
    BY DEF Ending, Posting
  <1>5. PlacesInOrder'
    BY DEF PlacesInOrder, Target, Posting, Allowed
  <1>6. LoopsRead'
    BY DEF LoopsRead, Target, Nested, Posting, PlacesInOrder
  <1>7. QED BY <1>1, <1>2, <1>3, <1>4, <1>5, <1>6

LEMMA BeginPostInv == ASSUME Inv, NEW t \in IDs, BeginPost(t) PROVE Inv'
  <1> USE Identifiers DEF Inv, TypeInv, BeginPost, Moves, At, Idle
  <1>1. TypeInv'
    BY DEF Places
  <1>2. Nested'
    BY DEF Nested
  <1>3. Posting'
    BY DEF Nested, Posting, Allowed
  <1>4. Ending'
    BY DEF Ending, Posting
  <1>5. PlacesInOrder'
    BY DEF PlacesInOrder, Target, Posting, Allowed
  <1>6. LoopsRead'
    BY DEF LoopsRead, Target, Nested, Posting, PlacesInOrder
  <1>7. QED BY <1>1, <1>2, <1>3, <1>4, <1>5, <1>6

LEMMA AcquireInv == ASSUME Inv, NEW t \in IDs, Acquire(t) PROVE Inv'
  <1> USE Identifiers DEF Inv, TypeInv, Acquire, Moves, At
  <1>1. TypeInv'
    BY DEF Places
  <1>2. Nested'
    BY DEF Nested
  <1>3. Posting'
    BY DEF Nested, Posting, Allowed
  <1>4. Ending'
    BY DEF Ending, Posting
  <1>5. PlacesInOrder'
    BY DEF PlacesInOrder, Target, Posting, Allowed
  <1>6. LoopsRead'
    BY DEF LoopsRead, Target, Nested, Posting, PlacesInOrder
  <1>7. QED BY <1>1, <1>2, <1>3, <1>4, <1>5, <1>6

LEMMA ReadLoopInv == ASSUME Inv, NEW t \in IDs, ReadLoop(t) PROVE Inv'
  <1> USE Identifiers DEF Inv, TypeInv, ReadLoop, Moves, At
  <1>1. TypeInv'
    BY DEF Places
  <1>2. Nested'
    BY DEF Nested
  <1>3. Posting'
    BY DEF Nested, Posting, Allowed
  <1>4. Ending'
    BY DEF Ending, Posting
  <1>5. PlacesInOrder'
    BY DEF PlacesInOrder, Target, Posting, Allowed
  <1>6. LoopsRead'
    BY DEF LoopsRead, Target, Nested, Posting, PlacesInOrder
  <1>7. QED BY <1>1, <1>2, <1>3, <1>4, <1>5, <1>6

\* A place in the search, or the place after it, for every thread that searches.
LEMMA Targets ==
  ASSUME Inv, NEW t \in IDs, post[t].at # "idle"
  PROVE  Target(t) \in IDs /\ message_loop[t] /\ threads[t] /\ (t < Target(t) => t = UI)
  <1>1. outbox[t] # <<>> /\ outbox[t] \in Seq(Posts) /\ Allowed(t, outbox[t])
    BY DEF Inv, TypeInv, Posting
  <1>2. Head(outbox[t]) \in Posts /\ Head(outbox[t]) = outbox[t][1] /\ 1 \in DOMAIN outbox[t]
    BY <1>1
  <1>3. Target(t) \in IDs /\ <<t, Target(t)>> \in CanPost
    BY <1>1, <1>2 DEF Target, Posts, Allowed
  <1>4. message_loop[t] /\ threads[t]
    BY <1>1 DEF Inv, Posting, Nested
  <1>5. t < Target(t) => t = UI
    <2>1. \A p \in CanPost : p[2] <= p[1] \/ p[1] = UI
      BY CanPostAssumption
    <2>2. Target(t) <= t \/ t = UI
      BY <2>1, <1>3
    <2>3. t \in Nat /\ Target(t) \in Nat
      BY <1>3, Identifiers
    <2>4. Target(t) <= t => ~(t < Target(t))
      BY <2>3
    <2>5. QED BY <2>2, <2>4
  <1>6. QED BY <1>3, <1>4, <1>5

LEMMA ScanInv == ASSUME Inv, NEW t \in IDs, Scan(t) PROVE Inv'
  <1> DEFINE i == post[t].slot
             found == At(IF Outlives(t) THEN "read" ELSE "lock", 0, Outlives(t), FALSE)
             next == At("scan", i + 1, FALSE, FALSE)
  <1>1. post[t].at = "scan" /\ post[t] \in Places /\ i \in Nat /\ i <= t
    BY DEF Scan, Inv, TypeInv, PlacesInOrder, Places
  <1>2. Target(t) \in IDs /\ message_loop[t] /\ threads[t] /\ (t < Target(t) => t = UI)
    BY <1>1, Targets
  <1>3. IsMe(t, i) <=> i = t
    BY <1>2 DEF IsMe
  <1>4. i # t => i + 1 \in IDs /\ i + 1 <= t
    BY <1>1, ThreadCountAssumption DEF IDs
  <1>5. /\ post' = [post EXCEPT ![t] = IF i = t THEN found ELSE next]
        /\ UNCHANGED <<threads, message_loop, queue, outbox, lock, joining>>
    BY <1>3, <1>4 DEF Scan, Moves
  <1>6. Outlives(t) \in BOOLEAN /\ (Outlives(t) => Target(t) <= t) /\ (~Outlives(t) => t = UI)
    <2>1. t \in Nat /\ Target(t) \in Nat
      BY <1>2, Identifiers
    <2>2. t >= Target(t) <=> Target(t) <= t
      BY <2>1
    <2>3. ~(t >= Target(t)) => t < Target(t)
      BY <2>1
    <2>4. QED BY <1>2, <2>2, <2>3 DEF Outlives
  <1>7. /\ found \in Places /\ found.at \in {"read", "lock"} /\ ~found.loop
        /\ found.at = "read" => found.outlives /\ Target(t) <= t
        /\ found.at = "lock" => t = UI
    BY <1>6 DEF At, Places
  <1>8. /\ next \in Places /\ next.at = "scan" /\ next.slot = i + 1
    BY <1>1 DEF At, Places
  <1> HIDE DEF found, next, i
  <1> USE DEF Inv, TypeInv
  <1>9. TypeInv'
    BY <1>5, <1>7, <1>8
  <1>10. Nested' /\ Ending'
    BY <1>5 DEF Nested, Ending
  <1>11. Posting'
    <2>1. outbox[t] # <<>>
      BY <1>1 DEF Posting
    <2>2. \A u \in IDs : post'[u].at # "idle" => outbox[u] # <<>>
      BY <1>5, <2>1 DEF Posting
    <2>3. QED BY <1>5, <2>2 DEF Posting, Allowed
  <1>12. PlacesInOrder' /\ LoopsRead'
    <2>1. SUFFICES ASSUME NEW u \in IDs
                   PROVE  /\ post'[u].at = "scan" => post'[u].slot <= u
                          /\ post'[u].at \in {"read", "post"} /\ post'[u].outlives => Target(u) <= u
                          /\ post'[u].at \in {"read", "post"} /\ ~post'[u].outlives => u = UI
                          /\ post'[u].at = "lock" => u = UI
                          /\ post'[u].at = "post" /\ post'[u].loop => message_loop[Target(u)]
      BY <1>5 DEF PlacesInOrder, LoopsRead, Target
    <2>2. CASE u # t
      BY <2>2, <1>5 DEF PlacesInOrder, LoopsRead
    <2>3. CASE u = t /\ i = t
      BY <2>3, <1>5, <1>7
    <2>4. CASE u = t /\ i # t
      BY <2>4, <1>4, <1>5, <1>8
    <2>5. QED BY <2>2, <2>3, <2>4
  <1>13. QED BY <1>9, <1>10, <1>11, <1>12

LEMMA DeliverInv == ASSUME Inv, NEW t \in IDs, Deliver(t) PROVE Inv'
  <1> USE Identifiers DEF Inv, TypeInv, Deliver, Moves
  <1>1. TypeInv'
    <2>1. Idle \in Places
      BY DEF Idle, At, Places
    <2>2. outbox[t] \in Seq(Posts) /\ outbox[t] # <<>>
      BY DEF Posting
    <2>3. Tail(outbox[t]) \in Seq(Posts)
      BY <2>2
    <2>4. QED BY <2>1, <2>3
  <1> USE DEF At, Idle
  <1>2. Nested'
    BY DEF Nested
  <1>3. Posting'
    BY DEF Nested, Posting, Allowed
  <1>4. Ending'
    BY DEF Ending, Posting
  <1>5. PlacesInOrder'
    BY DEF PlacesInOrder, Target, Posting, Allowed
  <1>6. LoopsRead'
    BY DEF LoopsRead, Target, Nested, Posting, PlacesInOrder
  <1>7. QED BY <1>1, <1>2, <1>3, <1>4, <1>5, <1>6

---------------------------------------------------------------------------
LEMMA NextInv == Inv /\ [ThreadNext]_threadVars => Inv'
  <1> SUFFICES ASSUME Inv, [ThreadNext]_threadVars PROVE Inv'
    OBVIOUS
  <1>1. CASE StartMain
    BY <1>1, StartMainInv
  <1>2. CASE EndMain
    BY <1>2, EndMainInv
  <1>3. CASE \E id \in IDs : Initialize(id) \/ StartWithOptions(id) \/ Stop(id) \/ Quit(id) \/ Joined(id)
    BY <1>3, InitializeInv, StartWithOptionsInv, StopInv, QuitInv, JoinedInv
  <1>4. CASE \E t \in IDs : \E posts \in Seq(Posts) :
               RunMessage(t, posts) \/ \E replies \in Seq(Tasks) : RunTask(t, posts, replies)
    BY <1>4, RunMessageInv, RunTaskInv
  <1>5. CASE \E t \in IDs : PostTaskHelper(t)
    BY <1>5, BeginPostInv, ScanInv, AcquireInv, ReadLoopInv, DeliverInv DEF PostTaskHelper
  <1>6. CASE UNCHANGED threadVars
    BY <1>6 DEF threadVars, Inv, TypeInv, Nested, Posting, Ending, PlacesInOrder, LoopsRead, Target, Allowed
  <1>7. QED BY <1>1, <1>2, <1>3, <1>4, <1>5, <1>6 DEF ThreadNext

LEMMA InvImplies == Inv => NoDanglingUse
  <1> SUFFICES ASSUME Inv, NEW t \in IDs
               PROVE  /\ post[t].at = "scan" => threads[post[t].slot]
                      /\ post[t].at = "read" /\ post[t].outlives => threads[Target(t)] /\ message_loop[Target(t)]
                      /\ post[t].at = "post" /\ post[t].loop => threads[Target(t)] /\ message_loop[Target(t)]
    BY DEF NoDanglingUse
  <1> USE Identifiers DEF Inv, TypeInv
  <1>1. post[t].at # "idle" => threads[t] /\ message_loop[t] /\ Target(t) \in IDs
    BY Targets
  <1>2. post[t].at = "scan" => threads[post[t].slot]
    BY <1>1 DEF PlacesInOrder, Nested, Places, IDs
  <1>3. post[t].at = "read" /\ post[t].outlives => message_loop[Target(t)]
    <2>1. SUFFICES ASSUME post[t].at = "read", post[t].outlives PROVE message_loop[Target(t)]
      OBVIOUS
    <2>2. Target(t) <= t /\ Target(t) \in IDs /\ threads[t] /\ message_loop[t]
      BY <1>1, <2>1 DEF PlacesInOrder
    <2>3. Target(t) < t \/ Target(t) = t
      BY <2>2
    <2>4. QED BY <2>2, <2>3 DEF Nested
  <1>4. post[t].at = "post" /\ post[t].loop => message_loop[Target(t)]
    BY DEF LoopsRead
  <1>5. QED BY <1>1, <1>2, <1>3, <1>4 DEF Nested

\* However many threads there are and whatever they post to whom, as long as
\* it is to themselves, to older threads or from the UI thread: an entry of the
\* array read without the lock is that of a thread that cannot go meanwhile,
\* and no task is handed to a loop that has gone (app_thread.cc 139-176).
THEOREM NoDanglingUseAlways == ThreadSpec => []NoDanglingUse
  <1>1. ThreadSpec => []Inv
    BY InitInv, NextInv, PTL DEF ThreadSpec
  <1>2. QED BY <1>1, InvImplies, PTL
=============================================================================
