----------------------------- MODULE AppThread -----------------------------
(***************************************************************************)
(* AppThread (app_thread.cc): named threads with message loops, a global   *)
(* array of them, and posting to one of them by name.  The identifiers are *)
(* in the order in which the threads start and in the reverse of the order *)
(* in which they end, so that a thread may post to one that outlives it    *)
(* without taking the array's lock, and find out who it is without it.     *)
(*                                                                         *)
(* base::Thread and base::MessageLoop are outside src/: Start returns when *)
(* the loop is there; Stop posts a Quit, which runs when the queue is      *)
(* empty, and waits; the ending thread takes its loop down by itself,      *)
(* without the array's lock.                                               *)
(***************************************************************************)
EXTENDS Naturals, Sequences

CONSTANTS
  ThreadCount,   \* ID_COUNT
  Tasks,         \* closures
  CanPost        \* which thread's tasks post to which thread

IDs == 0 .. ThreadCount - 1
UI == 0
Nobody == ThreadCount

ASSUME ThreadCountAssumption == ThreadCount \in Nat \ {0}

\* Threads post to themselves and to threads that outlive them; only the UI
\* thread, which starts and stops the others, posts the other way.
ASSUME CanPostAssumption ==
  CanPost \subseteq IDs \X IDs /\ \A p \in CanPost : p[2] <= p[1] \/ p[1] = UI

VARIABLES
  threads,       \* AppThreadGlobals::threads: is there an AppThread?
  message_loop,  \* is the thread's loop there?
  queue,         \* the tasks of each loop; the first is run next
  outbox,        \* what the task that runs has still to post
  post,          \* where each thread is in PostTaskHelper
  lock,          \* who holds AppThreadGlobals::lock
  joining        \* the thread whose end the UI thread waits for

threadVars == <<threads, message_loop, queue, outbox, post, lock, joining>>

Posts == [to : IDs, task : Tasks]
At(place, slot, outlives, loop) == [at |-> place, slot |-> slot, outlives |-> outlives, loop |-> loop]
Idle == At("idle", 0, FALSE, FALSE)
Free(t) == message_loop[t] /\ outbox[t] = <<>> /\ joining # t /\ (t = UI => joining = Nobody)

ThreadInit ==
  /\ threads = [t \in IDs |-> FALSE]
  /\ message_loop = [t \in IDs |-> FALSE]
  /\ queue = [t \in IDs |-> <<>>]
  /\ outbox = [t \in IDs |-> <<>>]
  /\ post = [t \in IDs |-> Idle]
  /\ lock = Nobody
  /\ joining = Nobody

---------------------------------------------------------------------------
(***************************************************************************)
(* Start and end of threads: all of it done by the UI thread, except that  *)
(* a loop quits by itself.                                                 *)
(***************************************************************************)
\* MainMessageLoopStart: the loop exists before its AppThread.
StartMain ==
  /\ ~threads[UI] /\ lock = Nobody
  /\ threads' = [threads EXCEPT ![UI] = TRUE]
  /\ message_loop' = [message_loop EXCEPT ![UI] = TRUE]
  /\ UNCHANGED <<queue, outbox, post, lock, joining>>

Initialize(id) ==
  /\ id # UI /\ Free(UI)
  /\ \A i \in IDs : (i < id <=> threads[i]) /\ (i < id => message_loop[i])
  /\ lock = Nobody
  /\ threads' = [threads EXCEPT ![id] = TRUE]
  /\ UNCHANGED <<message_loop, queue, outbox, post, lock, joining>>

StartWithOptions(id) ==
  /\ id # UI /\ Free(UI)
  /\ threads[id] /\ ~message_loop[id]
  /\ message_loop' = [message_loop EXCEPT ![id] = TRUE]
  /\ UNCHANGED <<threads, queue, outbox, post, lock, joining>>

\* Mutation: threads are stopped in the order of their identifiers.
LowestFirst(id) == threads[id] /\ \A i \in IDs \ {UI} : i < id => ~threads[i]
NextToStop(id) == threads[id] /\ \A i \in IDs : i > id => ~threads[i]

Stop(id) ==             \* ~AppThread: Stop() posts Quit
  /\ id # UI /\ Free(UI)
  /\ NextToStop(id) /\ message_loop[id]
  /\ joining' = id
  /\ UNCHANGED <<threads, message_loop, queue, outbox, post, lock>>

Quit(id) ==             \* the loop has run all its tasks
  /\ joining = id /\ message_loop[id]
  /\ queue[id] = <<>> /\ outbox[id] = <<>>
  /\ message_loop' = [message_loop EXCEPT ![id] = FALSE]
  /\ UNCHANGED <<threads, queue, outbox, post, lock, joining>>

Joined(id) ==           \* the rest of ~AppThread
  /\ joining = id /\ ~message_loop[id] /\ lock = Nobody
  /\ threads' = [threads EXCEPT ![id] = FALSE]
  /\ joining' = Nobody
  /\ UNCHANGED <<message_loop, queue, outbox, post, lock>>

\* ~MainLoop: the UI thread's AppThread, then its loop with the tasks left.
EndMain ==
  /\ Free(UI) /\ NextToStop(UI) /\ lock = Nobody
  /\ threads' = [threads EXCEPT ![UI] = FALSE]
  /\ message_loop' = [message_loop EXCEPT ![UI] = FALSE]
  /\ queue' = [queue EXCEPT ![UI] = <<>>]
  /\ UNCHANGED <<outbox, post, lock, joining>>

---------------------------------------------------------------------------
(***************************************************************************)
(* A loop runs a task, or handles a window message or the completion of an *)
(* operation.  The reply of a PostTaskAndReply goes to the loop that asked,*)
(* the UI thread's, without PostTaskHelper.                                *)
(***************************************************************************)
Allowed(t, posts) == \A k \in DOMAIN posts : <<t, posts[k].to>> \in CanPost

RunTask(t, posts, replies) ==
  /\ message_loop[t] /\ outbox[t] = <<>> /\ (t = UI => joining = Nobody)
  /\ queue[t] # <<>>
  /\ Allowed(t, posts) /\ (t = UI => replies = <<>>)
  /\ queue' = [queue EXCEPT ![t] = Tail(@), ![UI] = IF t = UI THEN @ ELSE @ \o replies]
  /\ outbox' = [outbox EXCEPT ![t] = posts]
  /\ UNCHANGED <<threads, message_loop, post, lock, joining>>

RunMessage(t, posts) ==
  /\ Free(t)
  /\ Allowed(t, posts)
  /\ outbox' = [outbox EXCEPT ![t] = posts]
  /\ UNCHANGED <<threads, message_loop, queue, post, lock, joining>>

---------------------------------------------------------------------------
(***************************************************************************)
(* PostTaskHelper, for the first post in the outbox.                       *)
(***************************************************************************)
Target(t) == Head(outbox[t]).to
Moves(t, place) == post' = [post EXCEPT ![t] = place]

BeginPost(t) ==
  /\ outbox[t] # <<>> /\ post[t] = Idle
  /\ Moves(t, At("scan", 0, FALSE, FALSE))
  /\ UNCHANGED <<threads, message_loop, queue, outbox, lock, joining>>

\* GetCurrentThreadIdentifier reads one entry of the array, without the lock.
IsMe(t, i) == i = t /\ threads[i] /\ message_loop[i]
Outlives(t) == t >= Target(t)
Scan(t) ==
  /\ post[t].at = "scan"
  /\ LET i == post[t].slot
     IN Moves(t, CASE IsMe(t, i) -> At(IF Outlives(t) THEN "read" ELSE "lock", 0, Outlives(t), FALSE)
                   [] ~IsMe(t, i) /\ i + 1 \in IDs -> At("scan", i + 1, FALSE, FALSE)
                   [] OTHER -> At("lock", 0, FALSE, FALSE))
  /\ UNCHANGED <<threads, message_loop, queue, outbox, lock, joining>>

Acquire(t) ==
  /\ post[t].at = "lock" /\ lock = Nobody
  /\ lock' = t
  /\ Moves(t, At("read", 0, FALSE, FALSE))
  /\ UNCHANGED <<threads, message_loop, queue, outbox, joining>>

ReadLoop(t) ==
  /\ post[t].at = "read"
  /\ Moves(t, At("post", 0, post[t].outlives, threads[Target(t)] /\ message_loop[Target(t)]))
  /\ UNCHANGED <<threads, message_loop, queue, outbox, lock, joining>>

Deliver(t) ==           \* to the loop just read, or to nobody
  /\ post[t].at = "post"
  /\ queue' = IF post[t].loop THEN [queue EXCEPT ![Target(t)] = Append(@, Head(outbox[t]).task)] ELSE queue
  /\ outbox' = [outbox EXCEPT ![t] = Tail(@)]
  /\ lock' = IF post[t].outlives THEN lock ELSE Nobody
  /\ Moves(t, Idle)
  /\ UNCHANGED <<threads, message_loop, joining>>

PostTaskHelper(t) == BeginPost(t) \/ Scan(t) \/ Acquire(t) \/ ReadLoop(t) \/ Deliver(t)

ThreadNext ==
  \/ StartMain \/ EndMain
  \/ \E id \in IDs : Initialize(id) \/ StartWithOptions(id) \/ Stop(id) \/ Quit(id) \/ Joined(id)
  \/ \E t \in IDs :
       \/ \E posts \in Seq(Posts) :
            RunMessage(t, posts) \/ \E replies \in Seq(Tasks) : RunTask(t, posts, replies)
       \/ PostTaskHelper(t)

ThreadSpec == ThreadInit /\ [][ThreadNext]_threadVars

---------------------------------------------------------------------------
(***************************************************************************)
(* What the missing lock must not do (app_thread.cc 146-166 and 288-308).  *)
(***************************************************************************)
\* An entry read without the lock is that of a thread which cannot start or end
\* meanwhile, and a task is never handed to a loop that has gone since its
\* pointer was read, with the lock or without it.
NoDanglingUse ==
  \A t \in IDs :
    /\ post[t].at = "scan" => threads[post[t].slot]
    /\ post[t].at = "read" /\ post[t].outlives => threads[Target(t)] /\ message_loop[Target(t)]
    /\ post[t].at = "post" /\ post[t].loop => threads[Target(t)] /\ message_loop[Target(t)]
=============================================================================
