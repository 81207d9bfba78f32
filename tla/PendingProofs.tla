---------------------------- MODULE PendingProofs ----------------------------
(***************************************************************************)
(* The pending queue of a pool thread, proved for any number of producers, *)
(* posts and items: until two threads collide the list is whole and the    *)
(* queue is a FIFO; and the thread sleeps beside a task only after a       *)
(* signal has been missed.                                                 *)
(***************************************************************************)
EXTENDS PendingPool, SequenceTheorems, TLAPS

\* One insert at a time.
Alone == \A p, q \in Producers : Inserting(p) /\ Inserting(q) => p = q

\* What a producer puts in is its own item with a task, and looks back to the
\* end of the queue; a removal beside it is at the other end.
InHand ==
  \A p \in Producers : Inserting(p) =>
    /\ mine[p] \in live
    /\ item[mine[p]].deal_task \in Tasks
    /\ item[mine[p]].next = NULL
    /\ item[mine[p]].prev = last
    /\ \A k \in 1 .. Len(queued) : queued[k] # mine[p]
    /\ Removing => Len(queued) >= 2
    /\ worker = "delete" => mine[p] # temp_item

\* What the pool thread has in hand.
Taken ==
  /\ Removing =>
       /\ queued # <<>> /\ temp_item = queued[1]
       /\ fsm_task = item[temp_item].deal_task
  /\ worker = "delete" =>
       /\ temp_item \in live
       /\ \A k \in 1 .. Len(queued) : queued[k] # temp_item
  /\ worker \in {"delete", "wipe", "run"} => fsm_task \in Tasks

Tasked == \A k \in 1 .. Len(queued) : item[queued[k]].deal_task \in Tasks

\* Every pointer that is followed is one.
Held ==
  /\ \A p \in Producers : Inserting(p) => mine[p] \in Items
  /\ worker = "first" => first \in Items
  /\ worker \in {"unlink", "bypass", "delete", "wipe"} => temp_item \in Items

IInv ==
  /\ TypeOK
  /\ Held
  /\ ~raced => Alone /\ InHand /\ Taken /\ Tasked
  /\ ListIsWhole

-----------------------------------------------------------------------------

\* What is left of a queue without its first element.
LEMMA TailIs ==
  ASSUME NEW S, NEW q \in Seq(S), q # <<>>
  PROVE  /\ Tail(q) \in Seq(S) /\ Len(Tail(q)) = Len(q) - 1
         /\ \A k \in 1 .. Len(q) - 1 : Tail(q)[k] = q[k + 1]
         /\ Tail(q) = <<>> <=> Len(q) = 1
  <1>1. Tail(q) \in Seq(S) /\ Len(Tail(q)) = Len(q) - 1
    OBVIOUS
  <1>2. \A k \in 1 .. Len(q) - 1 : Tail(q)[k] = q[k + 1]
    OBVIOUS
  <1>3. Tail(q) = <<>> => Len(Tail(q)) = 0
    BY EmptySeq, Zenon
  <1>4. Tail(q) # <<>> => Len(Tail(q)) # 0
    BY <1>1, EmptySeq, Zenon
  <1> QED
    BY <1>1, <1>2, <1>3, <1>4

\* A queue that is neither empty nor longer has one element.
LEMMA OneLong ==
  ASSUME NEW S, NEW q \in Seq(S), q # <<>>, ~(Len(q) >= 2)
  PROVE  Len(q) = 1
  <1> DEFINE n == Len(q)
  <1>1. n \in Nat \ {0}
    BY EmptySeq
  <1>2. ~(n >= 2)
    OBVIOUS
  <1> HIDE DEF n
  <1>3. n = 1
    BY <1>1, <1>2
  <1> QED
    BY <1>3 DEF n

-----------------------------------------------------------------------------
(* The item that hangs on the queue, for any state of the producers.       *)

HungIn(a, m) ==
  IF \E p \in Producers : a[p] = "tail"
  THEN m[CHOOSE p \in Producers : a[p] = "tail"] ELSE NULL

\* Nobody is at the last write: nothing hangs there.
LEMMA NoneHung ==
  ASSUME NEW a, NEW m, \A p \in Producers : a[p] # "tail"
  PROVE  HungIn(a, m) = NULL
  BY DEF HungIn

\* One producer is at the last write: its item hangs there.
LEMMA OneHung ==
  ASSUME NEW a, NEW m, NEW p \in Producers, a[p] = "tail",
         \A q \in Producers : a[q] = "tail" => q = p
  PROVE  HungIn(a, m) = m[p]
  BY Zenon DEF HungIn

\* Nothing hangs there, or the item of a producer at its last write.
LEMMA WhoHangs ==
  ASSUME NEW a, NEW m
  PROVE  HungIn(a, m) = NULL \/ \E p \in Producers : a[p] = "tail" /\ HungIn(a, m) = m[p]
  BY Zenon DEF HungIn

\* Hung is that item of this state.
LEMMA HungNow == Hung = HungIn(at, mine)
  BY Zenon DEF Hung, HungIn

-----------------------------------------------------------------------------

LEMMA InitIInv == Init => IInv
  <1> SUFFICES ASSUME Init PROVE IInv
    OBVIOUS
  <1>1. TypeOK
    <2>1. queued \in Seq(Items)
      BY DEF Init
    <2>2. item \in [Items -> Item]
      BY MemoryAssumption DEF Init, Item, Links
    <2>3. posted \in 0 .. Posts
      BY MemoryAssumption DEF Init, MemoryAssumption
    <2> QED
      BY <2>1, <2>2, <2>3 DEF Init, TypeOK, Links
  <1>2. Hung = NULL
    BY HungNow, NoneHung DEF Init
  <1> QED
    BY <1>1, <1>2
    DEF Init, IInv, Held, Inserting, Removing, Alone, InHand, Taken, Tasked,
        ListIsWhole, LinkBefore

-----------------------------------------------------------------------------
(* Hung after a step.                                                      *)

LEMMA HungNext == Hung' = HungIn(at', mine')
  BY Zenon DEF Hung, HungIn

\* Where nobody comes to or leaves the last write, the same item hangs there.
LEMMA SameHung ==
  ASSUME NEW a, NEW m, NEW b, NEW n,
         \A p \in Producers : a[p] = "tail" <=> b[p] = "tail",
         \A p \in Producers : a[p] = "tail" => m[p] = n[p],
         \A p, q \in Producers : a[p] = "tail" /\ a[q] = "tail" => p = q
  PROVE  HungIn(a, m) = HungIn(b, n)
  <1>1. CASE \A p \in Producers : a[p] # "tail"
    BY <1>1, NoneHung
  <1>2. CASE \E p \in Producers : a[p] = "tail"
    <2>1. PICK p \in Producers : a[p] = "tail"
      BY <1>2
    <2>2. HungIn(a, m) = m[p]
      BY <2>1, OneHung
    <2>3. HungIn(b, n) = n[p]
      BY <2>1, OneHung
    <2> QED
      BY <2>1, <2>2, <2>3
  <1> QED
    BY <1>1, <1>2

-----------------------------------------------------------------------------
(* One lemma per action: the invariant goes on, collision or not.          *)

\* Steps that touch neither the queue nor an item, and change the thread's
\* position only where it has nothing in hand.
LEMMA QuietStep ==
  ASSUME IInv, ~raced, TypeOK',
         UNCHANGED <<queueVars, mine, temp_item, fsm_task>>,
         \A p \in Producers : Inserting(p)' <=> Inserting(p),
         \A p \in Producers : at'[p] = "tail" <=> at[p] = "tail",
         worker' = worker
           \/ /\ worker \in {"off", "test", "sleep", "waiting"}
              /\ worker' \in {"test", "sleep", "waiting", "first"}
              /\ worker' = "first" => first # NULL
  PROVE  IInv'
  <1> USE DEF queueVars
  <1>1. Alone /\ InHand /\ Taken /\ Tasked /\ ListIsWhole
    BY DEF IInv
  <1>2. Hung' = Hung
    BY <1>1, HungNow, HungNext, SameHung DEF Alone, Inserting
  <1>3. Held'
    BY DEF Held, IInv, TypeOK
  <1>4. Alone' /\ InHand' /\ Taken' /\ Tasked'
    BY <1>1 DEF Alone, InHand, Taken, Tasked, Removing
  <1>5. ListIsWhole'
    BY <1>1, <1>2 DEF ListIsWhole, LinkBefore
  <1> QED
    BY <1>3, <1>4, <1>5 DEF IInv

\* Nobody has anything in hand when a manager or a thread starts.
LEMMA StartStep ==
  ASSUME IInv, ~raced, NewManager \/ StartThread
                         \/ \E p \in Producers : EarlyPost(p)
  PROVE  IInv'
  <1>1. TypeOK'
    BY DEF IInv, TypeOK, NewManager, StartThread, EarlyPost, queueVars, workerVars, postVars
  <1> QED
    BY <1>1, QuietStep
    DEF NewManager, StartThread, EarlyPost, queueVars, workerVars, postVars, Inserting

LEMMA SignalStep ==
  ASSUME IInv, ~raced, NEW p \in Producers, Signal(p)
  PROVE  IInv'
  <1>1. TypeOK'
    BY DEF IInv, TypeOK, Signal, queueVars
  <1>2. \A q \in Producers : at'[q] = IF q = p THEN "idle" ELSE at[q]
    BY DEF Signal, IInv, TypeOK
  <1> QED
    BY <1>1, <1>2, QuietStep DEF Signal, queueVars, Inserting

LEMMA WaitStep ==
  ASSUME IInv, ~raced, Test \/ Sleep \/ WakeUnasked
  PROVE  IInv'
  <1>1. TypeOK'
    BY DEF IInv, TypeOK, Test, Sleep, WakeUnasked, queueVars, postVars
  <1> QED
    BY <1>1, QuietStep DEF Test, Sleep, WakeUnasked, queueVars, postVars, Inserting

LEMMA RunStep ==
  ASSUME IInv, ~raced, Run
  PROVE  IInv'
  <1> USE DEF Run, queueVars, postVars
  <1>0. Alone /\ InHand /\ Taken /\ Tasked /\ ListIsWhole
    BY DEF IInv
  <1>1. TypeOK'
    BY DEF IInv, TypeOK
  <1>2. Hung' = Hung
    BY HungNow, HungNext
  <1>3. Held'
    BY DEF Held, IInv, Inserting
  <1>4. Alone' /\ InHand' /\ Taken' /\ Tasked'
    BY <1>0 DEF Alone, InHand, Taken, Tasked, Removing, Inserting
  <1>5. ListIsWhole'
    BY <1>0, <1>2 DEF ListIsWhole, LinkBefore
  <1> QED
    BY <1>1, <1>3, <1>4, <1>5 DEF IInv

\* Without a collision the first item is at the head of the queue, and a
\* producer beside it is at the other end.
LEMMA TakeFirstStep ==
  ASSUME IInv, ~raced, TakeFirst
  PROVE  IInv'
  <1> USE DEF TakeFirst, postVars
  <1>0. Alone /\ InHand /\ Taken /\ Tasked /\ ListIsWhole
    BY DEF IInv
  <1>1. first \in Items
    BY DEF IInv, Held
  <1>2. TypeOK'
    BY <1>1 DEF IInv, TypeOK, Item
  <1>3. Held'
    BY <1>1 DEF Held, IInv, Inserting
  <1>4. SUFFICES ASSUME ~raced'
                 PROVE  Alone' /\ InHand' /\ Taken' /\ Tasked' /\ ListIsWhole'
    BY <1>2, <1>3 DEF IInv, ListIsWhole
  <1>5. queued \in Seq(Items)
    BY DEF IInv, TypeOK
  <1>6. queued # <<>> /\ first = queued[1]
    <2>1. SUFFICES ASSUME queued = <<>> PROVE FALSE
      BY <1>0 DEF ListIsWhole
    <2>2. first = Hung
      BY <1>0, <2>1 DEF ListIsWhole
    <2>3. PICK p \in Producers : at[p] = "tail" /\ first = mine[p]
      BY <2>2, <1>1, HungNow, WhoHangs, MemoryAssumption DEF MemoryAssumption
    <2> QED
      BY <2>3, <1>4 DEF Inserting
  <1>7. ASSUME NEW p \in Producers, Inserting(p)
        PROVE  Len(queued) >= 2
    <2>1. first # last
      BY <1>0, <1>4, <1>7 DEF InHand
    <2> QED
      BY <1>0, <1>5, <1>6, <2>1 DEF ListIsWhole, LinkBefore
  <1>8. Hung' = Hung
    BY HungNow, HungNext
  <1>9. InHand'
    BY <1>0, <1>7 DEF InHand, Removing, Inserting
  <1>10. Taken'
    BY <1>6 DEF Taken, Removing
  <1>11. Alone' /\ Tasked'
    BY <1>0 DEF Alone, Tasked, Inserting
  <1>12. ListIsWhole'
    BY <1>0, <1>8 DEF ListIsWhole, LinkBefore
  <1> QED
    BY <1>9, <1>10, <1>11, <1>12

LEMMA UnlinkStep ==
  ASSUME IInv, ~raced, Unlink
  PROVE  IInv'
  <1> USE DEF Unlink, postVars
  <1>0. Alone /\ InHand /\ Taken /\ Tasked /\ ListIsWhole
    BY DEF IInv
  <1>1. /\ queued \in Seq(Items) /\ queued # <<>> /\ Len(queued) \in Nat
        /\ temp_item = queued[1] /\ temp_item \in Items
        /\ item \in [Items -> Item] /\ Len(queued) >= 1
    BY <1>0 DEF IInv, TypeOK, Held, Taken, Removing
  <1>2. item[temp_item].next = IF Len(queued) > 1 THEN queued[2] ELSE Hung
    BY <1>0, <1>1 DEF ListIsWhole
  <1>3. item[temp_item].prev = HEAD
    BY <1>0, <1>1 DEF ListIsWhole, LinkBefore
  <1>4. CASE Len(queued) > 1
    <2>1. queued[2] \in Items /\ queued[2] # NULL
      BY <1>1, <1>4, MemoryAssumption DEF MemoryAssumption
    <2>2. /\ item' = [item EXCEPT ![queued[2]].prev = HEAD]
          /\ last' = last
      BY <1>2, <1>3, <1>4, <2>1
    <2>3. \A i \in Items :
            /\ item'[i].deal_task = item[i].deal_task
            /\ item'[i].next = item[i].next
            /\ item'[i].prev = IF i = queued[2] THEN HEAD ELSE item[i].prev
      BY <2>1, <2>2, <1>1 DEF Item
    <2>4. item' \in [Items -> Item]
      BY <2>1, <2>2, <1>1 DEF Item, Links
    <2>5. TypeOK'
      BY <2>2, <2>4 DEF IInv, TypeOK
    <2>6. Hung' = Hung
      BY HungNow, HungNext
    <2>7. Held'
      BY <1>1 DEF Held, IInv, Inserting
    <2>8. live \subseteq Items
      BY DEF IInv, TypeOK
    <2>9. InHand'
      <3>1. SUFFICES ASSUME NEW p \in Producers, Inserting(p)
                     PROVE  /\ mine[p] \in live /\ item'[mine[p]].deal_task \in Tasks
                            /\ item'[mine[p]].next = NULL /\ item'[mine[p]].prev = last
                            /\ \A k \in 1 .. Len(queued) : queued[k] # mine[p]
        BY <1>4, <2>2 DEF InHand, Inserting, Removing
      <3>2. mine[p] \in Items /\ mine[p] # queued[2]
        BY <1>0, <1>1, <1>4, <2>8, <3>1 DEF InHand
      <3> QED
        BY <1>0, <2>3, <3>1, <3>2 DEF InHand
    <2>10. Alone' /\ Taken' /\ Tasked'
      BY <1>0, <1>1, <2>3 DEF Alone, Taken, Tasked, Removing, Inserting
    <2>11. ListIsWhole'
      <3>1. \A k \in 1 .. Len(queued) : queued[k] = queued[2] => k = 2
        BY <1>0, <1>1, <1>4 DEF ListIsWhole
      <3>2. \A k \in 1 .. Len(queued) :
              item'[queued[k]].prev = LinkBefore(k)'
        BY <3>1, <1>0, <1>1, <2>3 DEF ListIsWhole, LinkBefore
      <3> QED
        BY <3>2, <1>0, <1>1, <1>4, <2>2, <2>3, <2>6 DEF ListIsWhole, LinkBefore
    <2> QED
      BY <2>5, <2>7, <2>9, <2>10, <2>11 DEF IInv
  <1>5. CASE ~(Len(queued) > 1)
    <2>1. \A p \in Producers : ~Inserting(p)
      BY <1>0, <1>1, <1>5 DEF InHand, Removing
    <2>2. Hung = NULL
      BY <2>1, HungNow, NoneHung DEF Inserting
    <2>3. item' = item /\ last' = HEAD
      BY <1>2, <1>3, <1>5, <2>2
    <2>4. TypeOK'
      BY <2>3 DEF IInv, TypeOK, Links
    <2>5. Hung' = Hung
      BY HungNow, HungNext
    <2>6. Held'
      BY <1>1 DEF Held, IInv, Inserting
    <2>7. Alone' /\ InHand' /\ Taken' /\ Tasked'
      BY <1>0, <2>1, <2>3 DEF Alone, InHand, Taken, Tasked, Removing, Inserting
    <2>8. ListIsWhole'
      BY <1>0, <1>1, <1>5, <2>2, <2>3, <2>5 DEF ListIsWhole, LinkBefore
    <2> QED
      BY <2>4, <2>6, <2>7, <2>8 DEF IInv
  <1> QED
    BY <1>4, <1>5

LEMMA BypassStep ==
  ASSUME IInv, ~raced, Bypass
  PROVE  IInv'
  <1> USE DEF Bypass, postVars
  <1>0. Alone /\ InHand /\ Taken /\ Tasked /\ ListIsWhole
    BY DEF IInv
  <1>1. /\ queued \in Seq(Items) /\ queued # <<>> /\ Len(queued) \in Nat
        /\ temp_item = queued[1] /\ temp_item \in Items
        /\ item \in [Items -> Item] /\ Len(queued) >= 1
        /\ fsm_task = item[temp_item].deal_task
    BY <1>0 DEF IInv, TypeOK, Held, Taken, Removing
  <1>2. item[temp_item].next = IF Len(queued) > 1 THEN queued[2] ELSE Hung
    BY <1>0, <1>1 DEF ListIsWhole
  <1>3. item[temp_item].prev = HEAD
    BY <1>0, <1>1 DEF ListIsWhole, LinkBefore
  <1>4. /\ item' = item /\ last' = last
        /\ first' = IF Len(queued) > 1 THEN queued[2] ELSE Hung
    BY <1>2, <1>3 DEF SetLink
  <1>5. Hung' = Hung
    BY HungNow, HungNext
  <1>6. Hung \in Items \cup {NULL}
    BY HungNow, WhoHangs DEF IInv, TypeOK
  <1>7. /\ queued' \in Seq(Items) /\ Len(queued') = Len(queued) - 1
        /\ \A k \in 1 .. Len(queued') : queued'[k] = queued[k + 1]
    BY <1>1
  <1>8. TypeOK'
    BY <1>1, <1>4, <1>6, <1>7 DEF IInv, TypeOK
  <1>9. Held'
    BY <1>1, <1>4 DEF Held, IInv, Inserting
  <1>10. \A k \in 1 .. Len(queued') : queued'[k] # temp_item
    BY <1>0, <1>1, <1>7 DEF ListIsWhole
  <1>11. Taken'
    BY <1>0, <1>1, <1>4, <1>10 DEF Taken, Removing, Tasked, ListIsWhole
  <1>12. InHand'
    BY <1>0, <1>1, <1>4, <1>7 DEF InHand, Removing, Inserting
  <1>13. Alone' /\ Tasked'
    BY <1>0, <1>1, <1>4, <1>7 DEF Alone, Tasked, Inserting
  <1>14. ListIsWhole'
    <2>1. queued' = <<>> <=> Len(queued) = 1
      BY <1>1, TailIs
    <2>2. first' = IF queued' = <<>> THEN Hung' ELSE queued'[1]
      BY <1>1, <1>4, <1>5, <1>7, <2>1
    <2>5. last = LinkBefore(Len(queued) + 1) /\ worker = "bypass"
      BY <1>0 DEF ListIsWhole
    <2>6. last' = LinkBefore(Len(queued) + 1)'
      <3>1. CASE Len(queued) = 1
        BY <1>1, <1>4, <1>7, <2>5, <3>1 DEF LinkBefore
      <3>2. CASE Len(queued) > 1
        <4>1. last = queued[Len(queued)]
          BY <1>1, <2>5, <3>2 DEF LinkBefore
        <4>2. LinkBefore(Len(queued) + 1)' = queued'[Len(queued')]
          BY <1>1, <1>7, <3>2 DEF LinkBefore
        <4> QED
          BY <1>1, <1>4, <1>7, <3>2, <4>1, <4>2
      <3> QED
        BY <1>0, <1>1, <3>1, <3>2, TailIs, SMTT(60)
    <2>3. ASSUME NEW k \in 1 .. Len(queued')
          PROVE  /\ queued'[k] \in live'
                 /\ item'[queued'[k]].prev = LinkBefore(k)'
                 /\ item'[queued'[k]].next = IF k < Len(queued') THEN queued'[k + 1] ELSE Hung'
      BY <1>0, <1>1, <1>4, <1>5, <1>7 DEF ListIsWhole, LinkBefore
    <2>4. \A j, k \in 1 .. Len(queued') : queued'[j] = queued'[k] => j = k
      BY <1>0, <1>1, <1>7 DEF ListIsWhole
    <2> QED
      BY <2>2, <2>6, <2>3, <2>4 DEF ListIsWhole
  <1> QED
    BY <1>8, <1>9, <1>11, <1>12, <1>13, <1>14 DEF IInv

LEMMA DeleteStep ==
  ASSUME IInv, ~raced, Delete
  PROVE  IInv'
  <1> USE DEF Delete, postVars
  <1>0. Alone /\ InHand /\ Taken /\ Tasked /\ ListIsWhole
    BY DEF IInv
  <1>1. TypeOK'
    BY MemoryAssumption DEF IInv, TypeOK, MemoryAssumption
  <1>2. Hung' = Hung
    BY HungNow, HungNext
  <1>3. Held'
    BY DEF Held, IInv, Inserting
  <1>4. Alone' /\ InHand' /\ Taken' /\ Tasked'
    BY <1>0 DEF Alone, InHand, Taken, Tasked, Removing, Inserting
  <1>5. ListIsWhole'
    BY <1>0, <1>2 DEF ListIsWhole, LinkBefore, Taken
  <1> QED
    BY <1>1, <1>3, <1>4, <1>5 DEF IInv

\* The late write hits freed memory, or it is a collision.
LEMMA WipeStep ==
  ASSUME IInv, ~raced, Wipe
  PROVE  IInv'
  <1> USE DEF Wipe, postVars
  <1>0. Alone /\ InHand /\ Taken /\ Tasked /\ ListIsWhole
    BY DEF IInv
  <1>1. temp_item \in Items /\ item \in [Items -> Item] /\ live \subseteq Items
    BY DEF IInv, TypeOK, Held
  <1>2. \A i \in Items : i # temp_item => item'[i] = item[i]
    BY <1>1
  <1>3. item' \in [Items -> Item]
    BY <1>1 DEF Item
  <1>4. TypeOK'
    BY <1>3 DEF IInv, TypeOK
  <1>5. Held'
    BY DEF Held, IInv, Inserting
  <1>6. SUFFICES ASSUME ~raced'
                 PROVE  Alone' /\ InHand' /\ Taken' /\ Tasked' /\ ListIsWhole'
    BY <1>4, <1>5 DEF IInv, ListIsWhole
  <1>7. \A i \in live : item'[i] = item[i]
    BY <1>1, <1>2, <1>6
  <1>8. Hung' = Hung
    BY HungNow, HungNext
  <1>9. ASSUME NEW p \in Producers, Inserting(p)
        PROVE  mine[p] \in live /\ item'[mine[p]] = item[mine[p]]
    BY <1>0, <1>7, <1>9 DEF InHand
  <1>10. InHand'
    BY <1>0, <1>9 DEF InHand, Removing, Inserting
  <1>12. Tasked'
    BY <1>0, <1>7 DEF Tasked, ListIsWhole
  <1>13. Alone' /\ Taken'
    BY <1>0 DEF Alone, Taken, Removing, Inserting
  <1>11. ListIsWhole'
    BY <1>0, <1>7, <1>8 DEF ListIsWhole, LinkBefore
  <1> QED
    BY <1>10, <1>11, <1>12, <1>13

\* A new item is nobody else's; a removal that goes on beside the insert is at
\* the other end.
LEMMA PostStep ==
  ASSUME IInv, ~raced, NEW p \in Producers, Post(p)
  PROVE  IInv'
  <1> USE DEF Post, workerVars
  <1>0. Alone /\ InHand /\ Taken /\ Tasked /\ ListIsWhole
    BY DEF IInv
  <1>1. /\ item \in [Items -> Item] /\ live \subseteq Items /\ last \in Links
        /\ queued \in Seq(Items) /\ posted' \in Tasks /\ posted' \in 0 .. Posts
        /\ at \in [Producers -> {"idle", "link", "tail", "signal"}]
        /\ mine \in [Producers -> Items \cup {NULL}]
    BY MemoryAssumption DEF IInv, TypeOK, Tasks, MemoryAssumption
  <1>2. PICK i \in Items \ live :
          /\ item' = [item EXCEPT ![i] = [deal_task |-> posted', next |-> NULL, prev |-> last]]
          /\ live' = live \cup {i}
          /\ mine' = [mine EXCEPT ![p] = i]
    OBVIOUS
  <1>3. /\ \A j \in Items : j # i => item'[j] = item[j]
        /\ item'[i] = [deal_task |-> posted', next |-> NULL, prev |-> last]
        /\ item' \in [Items -> Item]
    BY <1>1, <1>2 DEF Item
  <1>4. /\ \A q \in Producers : at'[q] = IF q = p THEN "link" ELSE at[q]
        /\ \A q \in Producers : mine'[q] = IF q = p THEN i ELSE mine[q]
    BY <1>1, <1>2
  <1>5. TypeOK'
    <2>1. at' \in [Producers -> {"idle", "link", "tail", "signal"}]
      BY <1>1
    <2>2. mine' \in [Producers -> Items \cup {NULL}]
      BY <1>1, <1>2
    <2>3. raced' \in BOOLEAN
      OBVIOUS
    <2> QED
      BY <1>1, <1>2, <1>3, <2>1, <2>2, <2>3 DEF IInv, TypeOK
  <1>6. Held'
    BY <1>4 DEF Held, IInv, Inserting
  <1>7. SUFFICES ASSUME ~raced'
                 PROVE  Alone' /\ InHand' /\ Taken' /\ Tasked' /\ ListIsWhole'
    BY <1>5, <1>6 DEF IInv, ListIsWhole
  <1>8. \A q \in Producers : ~Inserting(q)
    BY <1>7
  <1>9. \A q \in Producers : Inserting(q)' <=> q = p
    BY <1>4, <1>8 DEF Inserting
  <1>10. Alone'
    BY <1>9 DEF Alone
  <1>11. \A k \in 1 .. Len(queued) : queued[k] # i /\ queued[k] \in Items
    BY <1>0, <1>1 DEF ListIsWhole
  <1>12. Removing => Len(queued) >= 2
    <2>1. SUFFICES ASSUME Removing, ~(Len(queued) >= 2) PROVE FALSE
      OBVIOUS
    <2>2. queued # <<>> /\ temp_item = queued[1]
      BY <1>0, <2>1 DEF Taken
    <2>3. Len(queued) = 1
      BY <1>1, <2>1, <2>2, OneLong
    <2>4. last = LinkBefore(2)
      BY <1>0, <2>3 DEF ListIsWhole
    <2>5. last \in {temp_item, HEAD}
      BY <2>2, <2>4 DEF LinkBefore
    <2> QED
      BY <1>7, <2>1, <2>5
  <1>13. worker = "delete" => i # temp_item
    BY <1>0 DEF Taken
  <1>14. InHand'
    <2>1. mine'[p] = i
      BY <1>4
    <2>2. posted' \in Tasks
      BY <1>1
    <2> QED
      BY <1>2, <1>3, <1>9, <1>11, <1>12, <1>13, <2>1, <2>2 DEF InHand, Removing, Tasks
  <1>15. temp_item # i \/ ~(Removing \/ worker = "delete")
    BY <1>0, <1>11, <1>12, <1>13, <1>1 DEF Taken
  <1>16. Taken'
    <2>1. Removing => /\ queued # <<>> /\ temp_item = queued[1] /\ temp_item \in Items
                      /\ fsm_task = item[temp_item].deal_task
      BY <1>0 DEF Taken, Removing, IInv, Held
    <2>2. Removing => item'[temp_item] = item[temp_item]
      BY <1>3, <1>15, <2>1
    <2> QED
      BY <1>0, <1>2, <2>1, <2>2 DEF Taken, Removing, Tasks
  <1>17. Tasked'
    BY <1>0, <1>3, <1>11 DEF Tasked, Tasks
  <1>18. Hung' = Hung
    <2>1. (\A q \in Producers : at[q] # "tail") /\ (\A q \in Producers : at'[q] # "tail")
      BY <1>4, <1>8 DEF Inserting
    <2> QED
      BY <2>1, NoneHung, HungNow, HungNext
  <1>19. ListIsWhole'
    BY <1>0, <1>2, <1>3, <1>11, <1>18 DEF ListIsWhole, LinkBefore
  <1> QED
    BY <1>10, <1>14, <1>16, <1>17, <1>19

\* The link at the end of the queue is the head's or the last item's.
LEMMA HangOnStep ==
  ASSUME IInv, ~raced, NEW p \in Producers, HangOn(p)
  PROVE  IInv'
  <1> USE DEF HangOn, workerVars
  <1>0. Alone /\ InHand /\ Taken /\ Tasked /\ ListIsWhole
    BY DEF IInv
  <1>1. /\ item \in [Items -> Item] /\ last \in Links /\ queued \in Seq(Items)
        /\ Len(queued) \in Nat /\ live \subseteq Items
        /\ at \in [Producers -> {"idle", "link", "tail", "signal"}]
    BY DEF IInv, TypeOK
  <1>2. /\ mine[p] \in live /\ item[mine[p]].prev = last /\ item[mine[p]].next = NULL
        /\ \A k \in 1 .. Len(queued) : queued[k] # mine[p]
        /\ Removing => Len(queued) >= 2
    BY <1>0 DEF InHand, Inserting
  <1>3. \A q \in Producers : at'[q] = IF q = p THEN "tail" ELSE at[q]
    BY <1>1
  <1>4. \A q \in Producers : Inserting(q)' <=> Inserting(q)
    BY <1>3 DEF Inserting
  <1>5. \A q \in Producers : Inserting(q) <=> q = p
    BY <1>0 DEF Alone, Inserting
  <1>6. Hung = NULL
    BY <1>5, HungNow, NoneHung DEF Inserting
  <1>7. Hung' = mine[p]
    <2>1. at'[p] = "tail" /\ \A q \in Producers : at'[q] = "tail" => q = p
      BY <1>3, <1>5 DEF Inserting
    <2>2. HungIn(at', mine') = mine'[p]
      BY <2>1, Zenon DEF HungIn
    <2> QED
      BY <2>2, HungNext
  <1>8. last = IF queued = <<>> THEN HEAD ELSE queued[Len(queued)]
    <2>1. last = LinkBefore(Len(queued) + 1)
      BY <1>0 DEF ListIsWhole
    <2>2. CASE queued = <<>>
      <3>1. Len(queued) = 0
        BY <2>2, EmptySeq, Zenon
      <3> QED
        BY <2>1, <2>2, <3>1 DEF LinkBefore
    <2>3. CASE queued # <<>>
      <3>1. Len(queued) # 0
        BY <1>1, <2>3, EmptySeq
      <3>2. Len(queued) + 1 # 1 /\ ~(Len(queued) + 1 = 2 /\ worker = "bypass")
        BY <1>1, <1>2, <3>1 DEF Removing
      <3>3. (Len(queued) + 1) - 1 = Len(queued)
        BY <1>1
      <3> QED
        BY <2>1, <2>3, <3>2, <3>3, Zenon DEF LinkBefore
    <2> QED
      BY <2>2, <2>3
  <1>9. CASE queued = <<>>
    <2>1. first' = mine[p] /\ item' = item
      BY <1>8, <1>9 DEF SetLink
    <2>2. Len(queued) = 0
      BY <1>9, EmptySeq, Zenon
    <2>3. TypeOK'
      BY <1>1, <1>2, <2>1 DEF IInv, TypeOK
    <2>4. Held'
      BY <1>1, <1>2, <1>4, <2>1 DEF Held, IInv
    <2>5. Alone' /\ Taken' /\ Tasked'
      BY <1>0, <1>4, <2>1 DEF Alone, Taken, Tasked, Removing
    <2>6. InHand'
      BY <1>0, <1>4, <2>1 DEF InHand, Removing
    <2>7. ListIsWhole'
      BY <1>0, <1>7, <1>9, <2>1, <2>2 DEF ListIsWhole, LinkBefore
    <2> QED
      BY <2>3, <2>4, <2>5, <2>6, <2>7 DEF IInv
  <1>10. CASE queued # <<>>
    <2> DEFINE end == queued[Len(queued)]
    <2>0. Len(queued) # 0 /\ end \in Items /\ end # HEAD
      BY <1>1, <1>10, EmptySeq, MemoryAssumption DEF MemoryAssumption
    <2>1. first' = first /\ item' = [item EXCEPT ![end].next = mine[p]]
      BY <1>8, <1>10, <2>0 DEF SetLink
    <2>2. \A i \in Items :
            /\ item'[i].deal_task = item[i].deal_task
            /\ item'[i].prev = item[i].prev
            /\ item'[i].next = IF i = end THEN mine[p] ELSE item[i].next
      BY <1>1, <2>0, <2>1 DEF Item
    <2>3. item' \in [Items -> Item]
      BY <1>1, <1>2, <2>0, <2>1 DEF Item
    <2>4. TypeOK'
      BY <1>1, <2>1, <2>3 DEF IInv, TypeOK
    <2>5. Held'
      BY <1>4, <2>1 DEF Held, IInv
    <2>6. \A k \in 1 .. Len(queued) : queued[k] \in Items /\ (queued[k] = end => k = Len(queued))
      BY <1>0, <1>1, <2>0 DEF ListIsWhole
    <2>7. mine[p] # end /\ mine[p] \in Items
      BY <1>1, <1>2, <2>0
    <2> HIDE DEF end
    <2>8. Alone' /\ Tasked'
      BY <1>0, <1>4, <2>2, <2>6 DEF Alone, Tasked
    <2>9. Taken'
      BY <1>0, <2>2, <2>6 DEF Taken, Removing, IInv, Held
    <2>10. InHand'
      BY <1>0, <1>2, <1>4, <1>5, <2>2, <2>7 DEF InHand, Removing
    <2>11. ListIsWhole'
      <3>1. \A k \in 1 .. Len(queued) :
              item'[queued[k]].next = IF k < Len(queued) THEN queued[k + 1] ELSE Hung'
        <4>1. SUFFICES ASSUME NEW k \in 1 .. Len(queued)
                       PROVE  item'[queued[k]].next =
                                IF k < Len(queued) THEN queued[k + 1] ELSE Hung'
          OBVIOUS
        <4>2. CASE k = Len(queued)
          BY <1>7, <2>2, <2>6, <4>2 DEF end
        <4>3. CASE k < Len(queued)
          BY <1>0, <2>2, <2>6, <4>3 DEF ListIsWhole
        <4> QED
          BY <1>1, <4>2, <4>3
      <3> QED
        BY <1>0, <1>10, <2>1, <2>2, <2>6, <3>1 DEF ListIsWhole, LinkBefore
    <2> QED
      BY <2>4, <2>5, <2>8, <2>9, <2>10, <2>11 DEF IInv
  <1> QED
    BY <1>9, <1>10

LEMMA MoveLastStep ==
  ASSUME IInv, ~raced, NEW p \in Producers, MoveLast(p)
  PROVE  IInv'
  <1> USE DEF MoveLast, workerVars
  <1>0. Alone /\ InHand /\ Taken /\ Tasked /\ ListIsWhole
    BY DEF IInv
  <1>1. /\ item \in [Items -> Item] /\ queued \in Seq(Items)
        /\ Len(queued) \in Nat /\ live \subseteq Items
        /\ at \in [Producers -> {"idle", "link", "tail", "signal"}]
        /\ mine \in [Producers -> Items \cup {NULL}]
    BY DEF IInv, TypeOK
  <1>2. /\ mine[p] \in live /\ mine[p] \in Items
        /\ item[mine[p]].prev = last /\ item[mine[p]].next = NULL
        /\ item[mine[p]].deal_task \in Tasks
        /\ \A k \in 1 .. Len(queued) : queued[k] # mine[p]
        /\ Removing => Len(queued) >= 2
        /\ worker = "delete" => mine[p] # temp_item
    BY <1>0, <1>1 DEF InHand, Inserting
  <1>3. \A q \in Producers : at'[q] = IF q = p THEN "signal" ELSE at[q]
    BY <1>1
  <1>4. \A q \in Producers : Inserting(q) <=> q = p
    BY <1>0 DEF Alone, Inserting
  <1>5. \A q \in Producers : ~Inserting(q)'
    BY <1>3, <1>4 DEF Inserting
  <1>6. Hung = mine[p]
    <2>1. at[p] = "tail" /\ \A q \in Producers : at[q] = "tail" => q = p
      BY <1>4 DEF Inserting
    <2> QED
      BY <2>1, HungNow, Zenon DEF HungIn
  <1>7. Hung' = NULL
    <2>1. \A q \in Producers : at'[q] # "tail"
      BY <1>5 DEF Inserting
    <2> QED
      BY <2>1, HungNext, Zenon DEF HungIn
  <1>8. /\ queued' \in Seq(Items) /\ Len(queued') = Len(queued) + 1
        /\ \A k \in 1 .. Len(queued) : queued'[k] = queued[k]
        /\ queued'[Len(queued) + 1] = mine[p]
        /\ queued' # <<>>
    BY <1>1, <1>2
  <1>9. TypeOK'
    <2>1. mine' \in [Producers -> Items \cup {NULL}]
      BY <1>1
    <2>2. at' \in [Producers -> {"idle", "link", "tail", "signal"}]
      BY <1>1
    <2> QED
      BY <1>2, <1>8, <2>1, <2>2 DEF IInv, TypeOK, Links
  <1>10. Held'
    BY <1>5 DEF Held, IInv
  <1>11. Alone' /\ InHand'
    BY <1>5 DEF Alone, InHand
  <1>12. Tasked'
    BY <1>0, <1>1, <1>2, <1>8 DEF Tasked
  <1>13. Taken'
    <2>1. Removing => queued' # <<>> /\ queued'[1] = queued[1]
      BY <1>2, <1>8, <1>1
    <2>2. worker = "delete" => \A k \in 1 .. Len(queued') : queued'[k] # temp_item
      BY <1>0, <1>1, <1>2, <1>8 DEF Taken
    <2> QED
      BY <1>0, <2>1, <2>2 DEF Taken, Removing
  <1>14. ListIsWhole'
    <2>1. first' = queued'[1]
      <3>1. CASE queued = <<>>
        <4>1. Len(queued) = 0
          BY <3>1, EmptySeq, Zenon
        <4> QED
          BY <1>0, <1>6, <1>8, <3>1, <4>1 DEF ListIsWhole
      <3>2. CASE queued # <<>>
        <4>1. 1 \in 1 .. Len(queued)
          BY <1>1, <3>2, EmptySeq
        <4> QED
          BY <1>0, <1>8, <3>2, <4>1 DEF ListIsWhole
      <3> QED
        BY <3>1, <3>2
    <2>0. PICK n \in Nat : n = Len(queued)
      BY <1>1
    <2>2. last' = LinkBefore(n + 2)'
      <3>1. n + 2 # 1 /\ (n + 2) - 1 = n + 1
        BY <2>0
      <3>2. ~(n + 2 = 2 /\ worker = "bypass")
        BY <1>2, <2>0 DEF Removing
      <3> QED
        BY <1>8, <2>0, <3>1, <3>2 DEF LinkBefore
    <2>3. \A k \in 1 .. n : LinkBefore(k)' = LinkBefore(k)
      BY <1>1, <1>8, <2>0 DEF LinkBefore
    <2>4. LinkBefore(n + 1)' = last
      <3>1. last = LinkBefore(n + 1)
        BY <1>0, <2>0 DEF ListIsWhole
      <3>2. CASE n = 0
        BY <3>1, <3>2 DEF LinkBefore
      <3>3. CASE n # 0
        BY <1>8, <2>0, <3>1, <3>3 DEF LinkBefore
      <3> QED
        BY <3>2, <3>3
    <2>5. ASSUME NEW k \in 1 .. n + 1
          PROVE  /\ queued'[k] \in live
                 /\ item[queued'[k]].prev = LinkBefore(k)'
                 /\ item[queued'[k]].next = IF k < n + 1 THEN queued'[k + 1] ELSE NULL
      <3>1. CASE k = n + 1
        <4>1. queued'[k] = mine[p] /\ ~(k < n + 1)
          BY <1>8, <2>0, <3>1
        <4> QED
          BY <1>2, <2>4, <3>1, <4>1
      <3>2. CASE k \in 1 .. n
        <4>1. /\ queued'[k] = queued[k] /\ queued[k] \in live
              /\ item[queued[k]].prev = LinkBefore(k)
              /\ item[queued[k]].next = IF k < n THEN queued[k + 1] ELSE mine[p]
          BY <1>0, <1>6, <1>8, <2>0, <3>2 DEF ListIsWhole
        <4>2. queued'[k + 1] = IF k < n THEN queued[k + 1] ELSE mine[p]
          BY <1>8, <2>0, <3>2
        <4> QED
          BY <2>3, <3>2, <4>1, <4>2
      <3>3. k = n + 1 \/ k \in 1 .. n
        BY <2>0
      <3> QED
        BY <3>1, <3>2, <3>3, Zenon
    <2>6. \A j, k \in 1 .. Len(queued') : queued'[j] = queued'[k] => j = k
      BY <1>0, <1>1, <1>2, <1>8 DEF ListIsWhole
    <2> QED
      <3>1. Len(queued') = n + 1 /\ (n + 1) + 1 = n + 2
        BY <1>8, <2>0
      <3>2. first' = IF queued' = <<>> THEN Hung' ELSE queued'[1]
        BY <1>8, <2>1
      <3>3. last' = LinkBefore(Len(queued) + 1)'
        BY <2>2, <3>1
      <3> QED
        BY <1>7, <2>5, <2>6, <3>1, <3>2, <3>3 DEF ListIsWhole
  <1> QED
    BY <1>9, <1>10, <1>11, <1>12, <1>13, <1>14 DEF IInv

-----------------------------------------------------------------------------

LEMMA NextIInv == IInv /\ [Next]_vars => IInv'
  <1> SUFFICES ASSUME IInv, [Next]_vars PROVE IInv'
    OBVIOUS
  <1>1. CASE UNCHANGED vars
    <2>1. Hung' = Hung
      BY <1>1, HungNow, HungNext DEF vars, postVars
    <2> QED
      BY <1>1, <2>1
      DEF vars, queueVars, workerVars, postVars, IInv, TypeOK, Held, Alone, InHand,
          Taken, Tasked, ListIsWhole, LinkBefore, Inserting, Removing
  <1>2. CASE Next
    BY <1>2, StartStep, SignalStep, WaitStep, RunStep, TakeFirstStep, UnlinkStep,
       BypassStep, DeleteStep, WipeStep, PostStep, HangOnStep, MoveLastStep
    DEF Next, PostOn, WorkOn
  <1> QED
    BY <1>1, <1>2

\* The inductive invariant holds in every behaviour.
THEOREM Invariance == Spec => []IInv
  BY InitIInv, NextIInv, PTL DEF Spec

\* Every variable of a queue and its threads keeps its type: the pointers lead
\* to items that exist or nowhere, before and after a collision.
THEOREM TypesHold == Spec => []TypeOK
  <1>1. IInv => TypeOK
    BY DEF IInv
  <1> QED
    BY <1>1, Invariance, PTL

\* Every variable keeps its type, and until two threads collide the pointers
\* of the tail queue agree with the order of the posts.
THEOREM ListStaysWhole == Spec => [](TypeOK /\ ListIsWhole)
  <1>1. IInv => TypeOK /\ ListIsWhole
    BY DEF IInv
  <1> QED
    BY <1>1, Invariance, PTL

-----------------------------------------------------------------------------
(* Sleeping.                                                               *)

\* The first pointer leaves NULL, the thread falls asleep and a producer is
\* done with its post only in ways that keep the property.
LEMMA NextSleeps == IInv /\ SleepsOnlyUnsignalled /\ [Next]_vars => SleepsOnlyUnsignalled'
  <1> SUFFICES ASSUME IInv, SleepsOnlyUnsignalled, [Next]_vars,
                      ~missed', worker' \in {"sleep", "waiting"}, first' # NULL
               PROVE  \E p \in Producers : at'[p] \in {"tail", "signal"}
    BY DEF SleepsOnlyUnsignalled
  <1>0. at \in [Producers -> {"idle", "link", "tail", "signal"}] /\ first \in Items \cup {NULL}
    BY DEF IInv, TypeOK
  <1>1. CASE UNCHANGED vars
    BY <1>1 DEF vars, queueVars, workerVars, postVars, SleepsOnlyUnsignalled
  <1>2. ASSUME NEW p \in Producers, Post(p)
        PROVE  \E q \in Producers : at'[q] \in {"tail", "signal"}
    <2>1. PICK q \in Producers : at[q] \in {"tail", "signal"}
      BY <1>2 DEF Post, workerVars, SleepsOnlyUnsignalled
    <2>2. at'[q] = at[q]
      BY <1>0, <1>2, <2>1 DEF Post
    <2> QED
      BY <2>1, <2>2
  <1>3. ASSUME NEW p \in Producers, HangOn(p) \/ MoveLast(p)
        PROVE  at'[p] \in {"tail", "signal"}
    BY <1>0, <1>3 DEF HangOn, MoveLast
  <1>4. ASSUME NEW p \in Producers, Signal(p)
        PROVE  FALSE
    BY <1>4 DEF Signal
  <1>5. ASSUME NEW p \in Producers, EarlyPost(p)
        PROVE  \E q \in Producers : at'[q] \in {"tail", "signal"}
    BY <1>5 DEF EarlyPost, queueVars, workerVars, postVars, SleepsOnlyUnsignalled
  <1>6. CASE NewManager \/ StartThread
    BY <1>6 DEF NewManager, StartThread, queueVars, workerVars, postVars, SleepsOnlyUnsignalled
  <1>7. CASE WorkOn \/ WakeUnasked
    BY <1>7 DEF WorkOn, Test, Sleep, WakeUnasked, TakeFirst, Unlink, Bypass, Delete,
                Wipe, Run, queueVars, postVars, SleepsOnlyUnsignalled
  <1> QED
    BY <1>1, <1>2, <1>3, <1>4, <1>5, <1>6, <1>7 DEF Next, PostOn

\* The thread sleeps beside a task only after a signal fell between its test of
\* the queue and its wait.
THEOREM SleepIsExplained == Spec => []SleepsOnlyUnsignalled
  <1>1. Init => SleepsOnlyUnsignalled
    BY DEF Init, SleepsOnlyUnsignalled
  <1> QED
    BY <1>1, Invariance, NextSleeps, PTL DEF Spec

-----------------------------------------------------------------------------
(* The refinement of TaskFifo.                                             *)

\* The tasks of the items of a queue.
TasksOf(q, items) == [k \in DOMAIN q |-> items[q[k]].deal_task]

\* They are a sequence.
LEMMA TasksOfIs ==
  ASSUME NEW S, NEW q \in Seq(S), NEW items,
         \A k \in 1 .. Len(q) : items[q[k]].deal_task \in Tasks
  PROVE  /\ TasksOf(q, items) \in Seq(Tasks)
         /\ Len(TasksOf(q, items)) = Len(q)
         /\ \A k \in 1 .. Len(q) : TasksOf(q, items)[k] = items[q[k]].deal_task
  <1>1. Len(q) \in Nat /\ DOMAIN q = 1 .. Len(q)
    OBVIOUS
  <1>2. TasksOf(q, items) \in [1 .. Len(q) -> Tasks]
    BY <1>1 DEF TasksOf
  <1>3. TasksOf(q, items) \in Seq(Tasks)
    BY <1>1, <1>2
  <1> QED
    BY <1>1, <1>2, <1>3 DEF TasksOf

\* An item at the end of the queue is a task at the end.
LEMMA TasksOfAppend ==
  ASSUME NEW S, NEW q \in Seq(S), NEW x \in S, NEW items,
         \A k \in 1 .. Len(q) : items[q[k]].deal_task \in Tasks,
         items[x].deal_task \in Tasks
  PROVE  TasksOf(Append(q, x), items) = Append(TasksOf(q, items), items[x].deal_task)
  <1> DEFINE r == Append(q, x)
  <1> DEFINE s == TasksOf(q, items)
  <1>1. /\ r \in Seq(S) /\ Len(r) = Len(q) + 1 /\ Len(q) \in Nat
        /\ \A k \in 1 .. Len(q) : r[k] = q[k]
        /\ r[Len(q) + 1] = x
    OBVIOUS
  <1>2. /\ s \in Seq(Tasks) /\ Len(s) = Len(q)
        /\ \A k \in 1 .. Len(q) : s[k] = items[q[k]].deal_task
    BY TasksOfIs
  <1> HIDE DEF r, s
  <1>3. /\ TasksOf(r, items) \in Seq(Tasks) /\ Len(TasksOf(r, items)) = Len(r)
        /\ \A k \in 1 .. Len(r) : TasksOf(r, items)[k] = items[r[k]].deal_task
    <2>1. \A k \in 1 .. Len(r) : items[r[k]].deal_task \in Tasks
      BY <1>1
    <2> QED
      BY <1>1, <2>1, TasksOfIs
  <1>4. /\ Append(s, items[x].deal_task) \in Seq(Tasks)
        /\ Len(Append(s, items[x].deal_task)) = Len(s) + 1
        /\ \A k \in 1 .. Len(s) : Append(s, items[x].deal_task)[k] = s[k]
        /\ Append(s, items[x].deal_task)[Len(s) + 1] = items[x].deal_task
    BY <1>2
  <1>5. \A k \in 1 .. Len(r) : TasksOf(r, items)[k] = Append(s, items[x].deal_task)[k]
    BY <1>1, <1>2, <1>3, <1>4
  <1>6. TasksOf(r, items) = Append(s, items[x].deal_task)
    BY <1>1, <1>2, <1>3, <1>4, <1>5, SeqEqual
  <1> QED
    BY <1>6 DEF r, s

\* Without its first item the queue has all tasks but the first.
LEMMA TasksOfTail ==
  ASSUME NEW S, NEW q \in Seq(S), q # <<>>, NEW items,
         \A k \in 1 .. Len(q) : items[q[k]].deal_task \in Tasks
  PROVE  /\ TasksOf(q, items) # <<>>
         /\ Head(TasksOf(q, items)) = items[q[1]].deal_task
         /\ TasksOf(Tail(q), items) = Tail(TasksOf(q, items))
  <1> DEFINE r == Tail(q)
  <1> DEFINE s == TasksOf(q, items)
  <1>1. /\ r \in Seq(S) /\ Len(r) = Len(q) - 1 /\ Len(q) \in Nat \ {0}
        /\ \A k \in 1 .. Len(q) - 1 : r[k] = q[k + 1]
    BY EmptySeq, TailIs
  <1>2. /\ s \in Seq(Tasks) /\ Len(s) = Len(q)
        /\ \A k \in 1 .. Len(q) : s[k] = items[q[k]].deal_task
    BY TasksOfIs
  <1> HIDE DEF r, s
  <1>3. s # <<>> /\ Head(s) = items[q[1]].deal_task
    <2>1. s # <<>>
      BY <1>1, <1>2, EmptySeq
    <2> QED
      BY <1>1, <1>2, <2>1
  <1>4. /\ TasksOf(r, items) \in Seq(Tasks) /\ Len(TasksOf(r, items)) = Len(r)
        /\ \A k \in 1 .. Len(r) : TasksOf(r, items)[k] = items[r[k]].deal_task
    <2>1. \A k \in 1 .. Len(r) : items[r[k]].deal_task \in Tasks
      BY <1>1
    <2> QED
      BY <1>1, <2>1, TasksOfIs
  <1>5. /\ Tail(s) \in Seq(Tasks) /\ Len(Tail(s)) = Len(s) - 1
        /\ \A k \in 1 .. Len(s) - 1 : Tail(s)[k] = s[k + 1]
    BY <1>2, <1>3, TailIs
  <1>6. ASSUME NEW k \in 1 .. Len(r)
        PROVE  TasksOf(r, items)[k] = Tail(s)[k]
    <2>1. k \in 1 .. Len(q) - 1 /\ k + 1 \in 1 .. Len(q)
      BY <1>1
    <2>2. TasksOf(r, items)[k] = items[q[k + 1]].deal_task
      BY <1>1, <1>4, <2>1
    <2>3. Tail(s)[k] = s[k + 1]
      BY <1>2, <1>5, <2>1
    <2> QED
      BY <1>2, <2>1, <2>2, <2>3
  <1>7. TasksOf(r, items) = Tail(s)
    BY <1>1, <1>2, <1>4, <1>5, <1>6, SeqEqual
  <1> QED
    BY <1>3, <1>7 DEF r, s

\* The state of TaskFifo.
FifoQueue   == TasksOf(queued, item)
FifoRunning == IF worker \in {"delete", "wipe", "run"} THEN fsm_task ELSE NULL

\* As long as no field of a queued item but its pointers changes, and the queue
\* does not, the tasks stay.
LEMMA TasksStay ==
  ASSUME NEW S, NEW q \in Seq(S), NEW f, NEW g,
         \A k \in 1 .. Len(q) : g[q[k]].deal_task = f[q[k]].deal_task
  PROVE  TasksOf(q, f) = TasksOf(q, g)
  <1>1. DOMAIN q = 1 .. Len(q)
    OBVIOUS
  <1> QED
    BY <1>1 DEF TasksOf

\* A step of the queue is a step of TaskFifo, or changes nothing of it.
LEMMA StepRefines ==
  ASSUME IInv, IInv', Next, ~raced'
  PROVE  \/ FifoQueue' = FifoQueue /\ FifoRunning' = FifoRunning
         \/ \E task \in Tasks : FifoQueue' = Append(FifoQueue, task) /\ FifoRunning' = FifoRunning
         \/ /\ FifoRunning = NULL /\ FifoQueue # <<>>
            /\ FifoRunning' = Head(FifoQueue) /\ FifoQueue' = Tail(FifoQueue)
         \/ FifoRunning # NULL /\ FifoRunning' = NULL /\ FifoQueue' = FifoQueue
  <1>0. ~raced /\ Alone /\ InHand /\ Taken /\ Tasked /\ ListIsWhole
    BY DEF IInv, Next
  <1>1. /\ queued \in Seq(Items) /\ item \in [Items -> Item] /\ live \subseteq Items
        /\ \A k \in 1 .. Len(queued) : queued[k] \in live /\ queued[k] \in Items
    BY <1>0 DEF IInv, TypeOK, ListIsWhole
  <1>2. ASSUME queued' = queued,
               \A k \in 1 .. Len(queued) : item'[queued[k]].deal_task = item[queued[k]].deal_task
        PROVE  FifoQueue' = FifoQueue
    BY <1>1, <1>2, TasksStay DEF FifoQueue
  <1>3. CASE NewManager \/ StartThread \/ (\E p \in Producers : EarlyPost(p) \/ Signal(p))
             \/ Test \/ Sleep \/ WakeUnasked
    <2>1. queued' = queued /\ item' = item /\ FifoRunning' = FifoRunning
      BY <1>3 DEF NewManager, StartThread, EarlyPost, Signal, Test, Sleep, WakeUnasked,
                  queueVars, workerVars, postVars, FifoRunning
    <2> QED
      BY <1>2, <2>1
  <1>4. ASSUME NEW p \in Producers, Post(p)
        PROVE  FifoQueue' = FifoQueue /\ FifoRunning' = FifoRunning
    <2>1. PICK i \in Items \ live :
            item' = [item EXCEPT ![i] = [deal_task |-> posted', next |-> NULL, prev |-> last]]
      BY <1>4 DEF Post
    <2>2. queued' = queued /\ FifoRunning' = FifoRunning
      BY <1>4 DEF Post, workerVars, FifoRunning
    <2>3. \A k \in 1 .. Len(queued) : item'[queued[k]].deal_task = item[queued[k]].deal_task
      BY <1>1, <2>1
    <2> QED
      BY <1>2, <2>2, <2>3
  <1>5. ASSUME NEW p \in Producers, HangOn(p)
        PROVE  FifoQueue' = FifoQueue /\ FifoRunning' = FifoRunning
    <2>1. queued' = queued /\ FifoRunning' = FifoRunning
      BY <1>5 DEF HangOn, workerVars, FifoRunning
    <2>2. \A k \in 1 .. Len(queued) : item'[queued[k]].deal_task = item[queued[k]].deal_task
      BY <1>1, <1>5 DEF HangOn, SetLink, Item
    <2> QED
      BY <1>2, <2>1, <2>2
  <1>6. ASSUME NEW p \in Producers, MoveLast(p)
        PROVE  \E task \in Tasks : /\ FifoQueue' = Append(FifoQueue, task)
                                  /\ FifoRunning' = FifoRunning
    <2>1. mine[p] \in Items /\ item[mine[p]].deal_task \in Tasks
      BY <1>0, <1>1, <1>6 DEF MoveLast, InHand, Inserting
    <2>2. queued' = Append(queued, mine[p]) /\ item' = item /\ FifoRunning' = FifoRunning
      BY <1>6 DEF MoveLast, workerVars, FifoRunning
    <2>3. FifoQueue' = Append(FifoQueue, item[mine[p]].deal_task)
      BY <1>0, <1>1, <2>1, <2>2, TasksOfAppend DEF FifoQueue, Tasked
    <2> QED
      BY <2>1, <2>2, <2>3
  <1>7. CASE TakeFirst
    BY <1>2, <1>7 DEF TakeFirst, FifoRunning
  <1>8. CASE Unlink
    <2>1. queued' = queued /\ FifoRunning' = FifoRunning
      BY <1>8 DEF Unlink, FifoRunning
    <2>2. \A k \in 1 .. Len(queued) : item'[queued[k]].deal_task = item[queued[k]].deal_task
      BY <1>1, <1>8 DEF Unlink, Item
    <2> QED
      BY <1>2, <2>1, <2>2
  <1>9. CASE Bypass
    <2>1. /\ queued # <<>> /\ temp_item = queued[1] /\ fsm_task = item[queued[1]].deal_task
          /\ queued' = Tail(queued) /\ worker = "bypass" /\ worker' = "delete"
          /\ fsm_task' = fsm_task
      BY <1>0, <1>9 DEF Bypass, Taken, Removing
    <2>2. \A k \in 1 .. Len(queued) : item[queued[k]].deal_task \in Tasks
      BY <1>0 DEF Tasked
    <2>3. \A i \in Items : item'[i].deal_task = item[i].deal_task
      BY <1>1, <1>9 DEF Bypass, SetLink, Item
    <2>4. /\ FifoQueue # <<>> /\ Head(FifoQueue) = item[queued[1]].deal_task
          /\ TasksOf(Tail(queued), item) = Tail(FifoQueue)
      BY <1>1, <2>1, <2>2, TasksOfTail DEF FifoQueue
    <2>5. Tail(queued) \in Seq(Items)
      BY <1>1, <2>1
    <2>6. TasksOf(Tail(queued), item) = TasksOf(Tail(queued), item')
      <3>1. \A k \in 1 .. Len(Tail(queued)) :
              item'[Tail(queued)[k]].deal_task = item[Tail(queued)[k]].deal_task
        BY <2>3, <2>5
      <3> QED
        BY <2>5, <3>1, TasksStay
    <2>7. FifoQueue' = Tail(FifoQueue)
      BY <2>1, <2>4, <2>6 DEF FifoQueue
    <2>8. FifoRunning = NULL /\ FifoRunning' = Head(FifoQueue)
      BY <2>1, <2>4 DEF FifoRunning
    <2> QED
      BY <2>4, <2>7, <2>8
  <1>10. CASE Delete
    <2>1. worker' \in {"wipe", "run"} /\ worker = "delete"
      BY <1>10 DEF Delete
    <2> QED
      BY <1>2, <1>10, <2>1 DEF Delete, FifoRunning
  <1>11. CASE Wipe
    <2>1. queued' = queued /\ FifoRunning' = FifoRunning
      BY <1>11 DEF Wipe, FifoRunning
    <2>2. \A k \in 1 .. Len(queued) : item'[queued[k]].deal_task = item[queued[k]].deal_task
      BY <1>1, <1>11 DEF Wipe
    <2> QED
      BY <1>2, <2>1, <2>2
  <1>12. CASE Run
    <2>1. queued' = queued /\ item' = item
      BY <1>12 DEF Run, queueVars
    <2>2. FifoRunning = fsm_task /\ fsm_task \in Tasks /\ FifoRunning' = NULL
      BY <1>0, <1>12 DEF Run, FifoRunning, Taken
    <2>3. FifoRunning # NULL
      BY <2>2, MemoryAssumption DEF Tasks, MemoryAssumption
    <2> QED
      BY <1>2, <2>1, <2>2, <2>3
  <1> QED
    BY <1>3, <1>4, <1>5, <1>6, <1>7, <1>8, <1>9, <1>10, <1>11, <1>12, Zenon
    DEF Next, PostOn, WorkOn

\* Until two threads collide the queue of a pool thread, with all its writes and
\* waits, is a FIFO of which the thread runs one task at a time.
THEOREM QueueIsFifo == Spec => FifoUntilRace
  <1>1. Init => Fifo!FifoInit
    BY DEF Init, Fifo!FifoInit
  <1>2. IInv /\ IInv' /\ [Next]_vars => [Fifo!FifoNext \/ raced']_(Fifo!fifoVars)
    <2>1. CASE UNCHANGED vars
      BY <2>1 DEF vars, queueVars, workerVars, Fifo!fifoVars
    <2>2. CASE Next
      BY <2>2, StepRefines
      DEF Fifo!FifoNext, Fifo!Put, Fifo!Take, Fifo!Finish, Fifo!fifoVars, FifoQueue,
          FifoRunning, TasksOf
    <2> QED
      BY <2>1, <2>2
  <1> QED
    BY <1>1, <1>2, Invariance, PTL DEF Spec, FifoUntilRace, Fifo!FifoSpec
=============================================================================
