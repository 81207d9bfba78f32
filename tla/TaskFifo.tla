------------------------------- MODULE TaskFifo -------------------------------
(***************************************************************************)
(* What the handlers of HyperTransfer expect of the queue in front of a    *)
(* pool thread: tasks are run one at a time, each once, in the order they  *)
(* were posted.  TaskPools takes its queues to be like this; PendingPool   *)
(* shows when the code's are.                                              *)
(***************************************************************************)
EXTENDS Sequences

CONSTANTS Tasks, NoTask

VARIABLES
  queue,     \* tasks posted and not taken
  running,   \* the task the thread is at, or NoTask
  raced      \* the promise is void: threads have collided in the queue

fifoVars == <<queue, running>>

FifoInit == queue = <<>> /\ running = NoTask

Put(task) == queue' = Append(queue, task) /\ running' = running

Take ==
  /\ running = NoTask /\ queue # <<>>
  /\ running' = Head(queue)
  /\ queue' = Tail(queue)

Finish == running # NoTask /\ running' = NoTask /\ queue' = queue

FifoNext == Take \/ Finish \/ \E task \in Tasks : Put(task)

FifoSpec == FifoInit /\ [][FifoNext \/ raced']_fifoVars
=============================================================================
