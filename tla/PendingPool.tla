----------------------------- MODULE PendingPool -----------------------------
(***************************************************************************)
(* The pending queue of one pool thread at the grain of its memory writes: *)
(* a BSD tail queue, a mutex only the thread itself takes, and a condition *)
(* variable that is signalled without it (post_to_session, post_to_disk,   *)
(* thread_function of both pools), from the start of the process on.       *)
(*                                                                         *)
(* A link is named by where it is stored: an item for its "next" field,    *)
(* HEAD for the queue's own "first".  Two threads that are at one field of *)
(* the queue or of an item at the same time have collided: what follows is *)
(* undefined, and the model ends there.                                    *)
(***************************************************************************)
EXTENDS Naturals, Sequences

CONSTANTS
  Producers,          \* threads that post: reactor, session and disk threads
  Posts,              \* bound: tasks that are posted in one behaviour
  Items,              \* bound: memory for queue items
  NULL,
  HEAD,
  WritesAfterDelete   \* disk_thread_pool.cpp:58; a session thread does not

ASSUME MemoryAssumption ==
  /\ NULL \notin Items /\ HEAD \notin Items
  /\ Posts \in Nat
  /\ NULL \notin Nat
  /\ WritesAfterDelete \in BOOLEAN

VARIABLES
  manager,    \* the global pointer to the manager, as main sets it
  first,      \* tqh_first: item or NULL
  last,       \* tqh_last: the link the next item is to be hung on
  item,       \* the memory of items
  live,       \* items that are allocated
  at,         \* producer -> what it does next
  mine,       \* producer -> the item it is putting in, or NULL
  worker,     \* what the pool thread does next
  temp_item,  \* the item the pool thread has in hand, or NULL
  fsm_task,   \* the task it has copied, or NULL
  posted,     \* number of tasks posted so far; they are named by it
  done,       \* tasks that have been run
  queued,     \* history: items in the queue, in the order of their posts
  raced,      \* history: two threads were at the same field at once
  missed      \* history: a signal fell between a test and its wait

queueVars  == <<first, last, item, live, queued, raced>>
workerVars == <<worker, temp_item, fsm_task, done>>
postVars   == <<at, mine, posted>>
vars == <<manager, queueVars, workerVars, postVars, missed>>

Tasks == 1 .. Posts
Links == Items \cup {HEAD}
Item  == [deal_task : Tasks \cup {NULL}, next : Items \cup {NULL}, prev : Links]

TypeOK ==
  /\ manager \in {"null", "created", "dereferenced"}
  /\ first \in Items \cup {NULL} /\ last \in Links
  /\ item \in [Items -> Item]
  /\ live \subseteq Items
  /\ at \in [Producers -> {"idle", "link", "tail", "signal"}]
  /\ mine \in [Producers -> Items \cup {NULL}]
  /\ worker \in {"off", "test", "sleep", "waiting", "first", "unlink",
                 "bypass", "delete", "wipe", "run"}
  /\ temp_item \in Items \cup {NULL} /\ fsm_task \in Tasks \cup {NULL}
  /\ posted \in 0 .. Posts /\ done \subseteq Tasks
  /\ queued \in Seq(Items)
  /\ raced \in BOOLEAN /\ missed \in BOOLEAN

Init ==
  /\ manager = "null"
  /\ first = NULL /\ last = HEAD
  /\ item = [i \in Items |-> [deal_task |-> NULL, next |-> NULL, prev |-> HEAD]]
  /\ live = {}
  /\ at = [p \in Producers |-> "idle"]
  /\ mine = [p \in Producers |-> NULL]
  /\ worker = "off" /\ temp_item = NULL /\ fsm_task = NULL
  /\ posted = 0 /\ done = {}
  /\ queued = <<>> /\ raced = FALSE /\ missed = FALSE

-----------------------------------------------------------------------------
(* Who is between the first and the last access of a queue operation.  An  *)
(* insert reads and writes "last" and the link it finds there; a removal   *)
(* is at the first item, and at the two ends if that is the only one.  The *)
(* test of an empty queue reads one word, old or new.                      *)

Inserting(p) == at[p] \in {"link", "tail"}
Removing     == worker \in {"unlink", "bypass"}

-----------------------------------------------------------------------------
(* main starts the reactor before it creates the managers: a post that     *)
(* comes first goes through a null pointer.                                *)

NewManager ==
  /\ manager = "null"
  /\ manager' = "created"
  /\ UNCHANGED <<queueVars, workerVars, postVars, missed>>

\* Mutant: the thread waits before it looks.
StartThread_waits ==
  /\ manager = "created" /\ worker = "off"
  /\ worker' = "sleep"
  /\ UNCHANGED <<manager, queueVars, temp_item, fsm_task, done, postVars, missed>>

StartThread ==
  /\ manager = "created" /\ worker = "off"
  /\ worker' = "test"
  /\ UNCHANGED <<manager, queueVars, temp_item, fsm_task, done, postVars, missed>>

EarlyPost(p) ==
  /\ manager = "null" /\ at[p] = "idle" /\ posted < Posts
  /\ manager' = "dereferenced"
  /\ UNCHANGED <<queueVars, workerVars, postVars, missed>>

-----------------------------------------------------------------------------
(* Posting: a new item for the task, then TAILQ_INSERT_TAIL, which is      *)
(*   elm->next = NULL; elm->prev = head->last; *head->last = elm;          *)
(*   head->last = &elm->next                                               *)
(* and then the signal.  No lock is taken.                                 *)

Post(p) ==
  /\ manager = "created" /\ at[p] = "idle"
  /\ posted < Posts /\ posted' = posted + 1
  /\ \E i \in Items \ live :
       /\ item' = [item EXCEPT ![i] = [deal_task |-> posted', next |-> NULL, prev |-> last]]
       /\ live' = live \cup {i}
       /\ mine' = [mine EXCEPT ![p] = i]
  /\ at' = [at EXCEPT ![p] = "link"]
  /\ raced' = (\/ Removing /\ last \in {temp_item, HEAD}
               \/ \E q \in Producers : Inserting(q))
  /\ UNCHANGED <<manager, first, last, queued, workerVars, missed>>

\* Mutant: stores where the link is, and not what it is to show.
SetLink_itself(link, i) ==
  IF link = HEAD THEN first' = link /\ item' = item
                 ELSE item' = [item EXCEPT ![link].next = i] /\ first' = first

\* Store an item, or NULL, in a link.
SetLink(link, i) ==
  IF link = HEAD THEN first' = i /\ item' = item
                 ELSE item' = [item EXCEPT ![link].next = i] /\ first' = first

HangOn(p) ==
  /\ at[p] = "link"
  /\ SetLink(last, mine[p])
  /\ at' = [at EXCEPT ![p] = "tail"]
  /\ UNCHANGED <<manager, last, live, queued, raced, workerVars, mine, posted, missed>>

\* Mutant: nobody is signalled.
MoveLast_silent(p) ==
  /\ at[p] = "tail"
  /\ last' = mine[p]
  /\ queued' = Append(queued, mine[p])
  /\ at' = [at EXCEPT ![p] = "idle"]
  /\ mine' = [mine EXCEPT ![p] = NULL]
  /\ UNCHANGED <<manager, first, item, live, raced, workerVars, posted, missed>>

MoveLast(p) ==
  /\ at[p] = "tail"
  /\ last' = mine[p]
  /\ queued' = Append(queued, mine[p])
  /\ at' = [at EXCEPT ![p] = "signal"]
  /\ mine' = [mine EXCEPT ![p] = NULL]
  /\ UNCHANGED <<manager, first, item, live, raced, workerVars, posted, missed>>

\* A signal nobody waits for has no effect.
Signal(p) ==
  /\ at[p] = "signal"
  /\ at' = [at EXCEPT ![p] = "idle"]
  /\ worker' = IF worker = "waiting" THEN "test" ELSE worker
  /\ missed' = (missed \/ worker = "sleep")
  /\ UNCHANGED <<manager, queueVars, temp_item, fsm_task, done, mine, posted>>

-----------------------------------------------------------------------------
(* The pool thread.                                                        *)

Test ==
  /\ worker = "test"
  /\ worker' = IF first = NULL THEN "sleep" ELSE "first"
  /\ UNCHANGED <<manager, queueVars, temp_item, fsm_task, done, postVars, missed>>

Sleep ==
  /\ worker = "sleep"
  /\ worker' = "waiting"
  /\ UNCHANGED <<manager, queueVars, temp_item, fsm_task, done, postVars, missed>>

\* pthread_cond_wait may return without a signal.
WakeUnasked ==
  /\ worker = "waiting"
  /\ worker' = "test"
  /\ UNCHANGED <<manager, queueVars, temp_item, fsm_task, done, postVars, missed>>

\* Mutant: the item is wiped before its task is copied.
TakeFirst_wiped ==
  /\ worker = "first"
  /\ temp_item' = first
  /\ item' = [item EXCEPT ![first].deal_task = NULL]
  /\ fsm_task' = item'[first].deal_task
  /\ worker' = "unlink"
  /\ raced' = \E p \in Producers :
                Inserting(p) /\ first \in {mine[p], item[mine[p]].prev}
  /\ UNCHANGED <<manager, first, last, live, queued, done, postVars, missed>>

TakeFirst ==
  /\ worker = "first"
  /\ temp_item' = first
  /\ fsm_task' = item[first].deal_task
  /\ worker' = "unlink"
  /\ raced' = \E p \in Producers :
                Inserting(p) /\ first \in {mine[p], item[mine[p]].prev}
  /\ UNCHANGED <<manager, first, last, item, live, queued, done, postVars, missed>>

\* Mutant: the end of the queue stays at the item that was taken.
Unlink_forgets ==
  LET elm == item[temp_item] IN
  /\ worker = "unlink"
  /\ IF elm.next # NULL
     THEN item' = [item EXCEPT ![elm.next].prev = elm.prev] /\ last' = last
     ELSE UNCHANGED <<item, last>>
  /\ worker' = "bypass"
  /\ UNCHANGED <<manager, first, live, queued, raced, temp_item, fsm_task, done,
                 postVars, missed>>

\* TAILQ_REMOVE: the item behind, or the queue's end, gets the link in front,
Unlink ==
  LET elm == item[temp_item] IN
  /\ worker = "unlink"
  /\ IF elm.next # NULL
     THEN item' = [item EXCEPT ![elm.next].prev = elm.prev] /\ last' = last
     ELSE last' = elm.prev /\ item' = item
  /\ worker' = "bypass"
  /\ UNCHANGED <<manager, first, live, queued, raced, temp_item, fsm_task, done,
                 postVars, missed>>

\* and the link in front gets the item behind.
Bypass ==
  LET elm == item[temp_item] IN
  /\ worker = "bypass"
  /\ SetLink(elm.prev, elm.next)
  /\ worker' = "delete"
  /\ queued' = Tail(queued)
  /\ UNCHANGED <<manager, last, live, raced, temp_item, fsm_task, done, postVars, missed>>

Delete ==
  /\ worker = "delete"
  /\ live' = live \ {temp_item}
  /\ worker' = IF WritesAfterDelete THEN "wipe" ELSE "run"
  /\ UNCHANGED <<manager, first, last, item, queued, raced, temp_item, fsm_task,
                 done, postVars, missed>>

\* temp_item -> deal_task = NULL, in memory that may be another item by now.
Wipe ==
  /\ worker = "wipe"
  /\ item' = [item EXCEPT ![temp_item].deal_task = NULL]
  /\ raced' = (temp_item \in live)
  /\ worker' = "run"
  /\ UNCHANGED <<manager, first, last, live, queued, temp_item, fsm_task, done,
                 postVars, missed>>

\* Mutant: the thread waits after every task.
Run_waits ==
  /\ worker = "run"
  /\ done' = done \cup ({fsm_task} \ {NULL})
  /\ fsm_task' = NULL /\ temp_item' = NULL
  /\ worker' = "sleep"
  /\ UNCHANGED <<manager, queueVars, postVars, missed>>

\* roll_state_machine, the whole handler: see SessionFsm and DiskFsm.
Run ==
  /\ worker = "run"
  /\ done' = done \cup ({fsm_task} \ {NULL})
  /\ fsm_task' = NULL /\ temp_item' = NULL
  /\ worker' = "test"
  /\ UNCHANGED <<manager, queueVars, postVars, missed>>

-----------------------------------------------------------------------------

\* What a producer does once it has begun to post.
PostOn(p) == HangOn(p) \/ MoveLast(p) \/ Signal(p)

\* What the pool thread does of its own.
WorkOn ==
  Test \/ Sleep \/ TakeFirst \/ Unlink \/ Bypass \/ Delete \/ Wipe \/ Run

Next ==
  /\ ~raced
  /\ \/ NewManager \/ StartThread
     \/ \E p \in Producers : EarlyPost(p) \/ Post(p) \/ PostOn(p)
     \/ WorkOn \/ WakeUnasked

Spec == Init /\ [][Next]_vars

\* Every thread goes on; a post, an early post and an unasked wake-up are not
\* promised.
Fairness ==
  /\ WF_vars(~raced /\ (NewManager \/ StartThread))
  /\ WF_vars(~raced /\ WorkOn)
  /\ \A p \in Producers : WF_vars(~raced /\ PostOn(p))

FairSpec == Spec /\ Fairness

-----------------------------------------------------------------------------
(* Properties.                                                             *)

\* The item that hangs on the queue already and is not its end yet.
Hung ==
  IF \E p \in Producers : at[p] = "tail"
  THEN mine[CHOOSE p \in Producers : at[p] = "tail"] ELSE NULL

\* The link an item of the queue hangs on; while the first item is taken out
\* the second one hangs on the head already.
LinkBefore(n) ==
  IF n = 1 \/ (n = 2 /\ worker = "bypass") THEN HEAD ELSE queued[n - 1]

\* Until two threads collide the two pointers of every item, the ends of the
\* queue and the memory in use agree with the order of the posts, before,
\* between and after the single writes of an insert or a removal
\* (TAILQ_INSERT_TAIL and TAILQ_REMOVE, which no lock protects).
ListIsWhole ==
  ~raced =>
    /\ first = IF queued = <<>> THEN Hung ELSE queued[1]
    /\ last = LinkBefore(Len(queued) + 1)
    /\ \A k \in 1 .. Len(queued) :
         /\ queued[k] \in live
         /\ item[queued[k]].prev = LinkBefore(k)
         /\ item[queued[k]].next = IF k < Len(queued) THEN queued[k + 1] ELSE Hung
    /\ \A j, k \in 1 .. Len(queued) : queued[j] = queued[k] => j = k

\* Until two threads collide the pool is the queue the rest of the model takes
\* it for, through all the writes and waits (post_to_session, post_to_disk and
\* both thread functions).
Fifo ==
  INSTANCE TaskFifo WITH
    queue   <- [k \in DOMAIN queued |-> item[queued[k]].deal_task],
    running <- IF worker \in {"delete", "wipe", "run"} THEN fsm_task ELSE NULL,
    NoTask  <- NULL

FifoUntilRace == Fifo!FifoSpec

\* The thread sleeps beside a task only after a signal fell between its test
\* and its wait: in every other case a producer is still about to signal
\* (pthread_cond_signal without the mutex).
SleepsOnlyUnsignalled ==
  ~missed /\ worker \in {"sleep", "waiting"} /\ first # NULL
    => \E p \in Producers : at[p] \in {"tail", "signal"}

\* A task that was posted is run, but for the two things that can go wrong: a
\* collision in the queue and a missed signal.  So is one that was posted
\* before the thread started.
PostedTasksRun ==
  \A task \in Tasks : (task <= posted) ~> (task \in done \/ raced \/ missed)

\* After a missed signal the queue is stuck only until the next post: a signal
\* the thread does wait for makes it run everything there is.
NextSignalDrains ==
  \A p \in Producers :
    (at[p] = "signal" /\ worker = "waiting") ~> (first = NULL \/ raced)
=============================================================================
