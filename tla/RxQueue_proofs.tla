-------------------------- MODULE RxQueue_proofs --------------------------
(***************************************************************************)
(* Proofs about RxQueue for every set of seeds, every number of requests   *)
(* and with or without allocation failures.                                *)
(***************************************************************************)
EXTENDS RxQueue, TLAPS

\* The agents' places agree with m_state: an idle queue has an idle thread,
\* the thread ends only after the shutdown, which only the destructor begins.
PlacesAgree ==
    /\ state = "IDLE" => bgPc \in {"check", "lock", "wait", "woken"}
    /\ bgPc = "exit" => state = "SHUTDOWN"
    /\ state = "SHUTDOWN" <=> loopPc \in {"notifyShutdown", "join", "gone"}
    /\ loopPc = "enqueue" => arg \in Seeds

\* What the storage holds at each place of the thread.
StorageAgrees ==
    /\ state = "IDLE" /\ storage.allocated =>
          storage.ready /\ storage.seed = seed /\ storage.memory = seed
    /\ bgPc = "fill" => storage.allocated /\ storage.seed = item
    /\ bgPc = "relock" /\ storage.allocated =>
          storage.ready /\ storage.seed = item /\ storage.memory = item

IInv == TypeOK /\ NewestKept /\ PlacesAgree /\ StorageAgrees

LEMMA AppendLast ==
    ASSUME NEW S, NEW q \in Seq(S), NEW e \in S
    PROVE  /\ Append(q, e) \in Seq(S)
           /\ Append(q, e) # << >>
           /\ Append(q, e)[Len(Append(q, e))] = e
  OBVIOUS

LEMMA LastInSet ==
    ASSUME NEW S, NEW q \in Seq(S), q # << >>
    PROVE  q[Len(q)] \in S
  OBVIOUS

THEOREM InitInv == Init => IInv
<1> SUFFICES ASSUME Init PROVE IInv
  OBVIOUS
<1>1. storage \in StorageType
  BY DEF Init, StorageType
<1>2. queue \in Seq(Seeds) /\ requests \in 0..MaxRequests
  BY MaxRequestsAssumption DEF Init
<1>3. TypeOK
  BY <1>1, <1>2 DEF Init, TypeOK
<1>4. NewestKept
  BY DEF Init, NewestKept
<1>5. PlacesAgree /\ StorageAgrees
  BY DEF Init, PlacesAgree, StorageAgrees
<1> QED BY <1>3, <1>4, <1>5 DEF IInv

\* Every step of either agent preserves the invariant.
THEOREM StepInv == IInv /\ [Next]_vars => IInv'
<1> SUFFICES ASSUME IInv, [Next]_vars PROVE IInv'
  OBVIOUS
<1> USE NoSeedAssumption, MaxRequestsAssumption, AllocAssumption
<1> USE DEF IInv, TypeOK, StorageType
<1>1. CASE InitCheck
  BY <1>1 DEF InitCheck, queueVars, NewestKept, PlacesAgree, StorageAgrees
<1>2. CASE Enqueue
  <2>1. arg \in Seeds /\ state # "SHUTDOWN"
    BY <1>2 DEF Enqueue, PlacesAgree
  <2>2. CASE state = "PENDING" /\ seed = arg
    BY <1>2, <2>2 DEF Enqueue, NewestKept, PlacesAgree, StorageAgrees
  <2>3. CASE ~(state = "PENDING" /\ seed = arg)
    <3>1. /\ queue' \in Seq(Seeds) /\ queue' # << >> /\ queue'[Len(queue')] = arg
          /\ seed' = arg /\ state' = "PENDING" /\ loopPc' = "notify"
      BY <1>2, <2>1, <2>3, AppendLast DEF Enqueue
    <3>2. UNCHANGED <<storage, async, bgPc, item, arg, awaiting, requests>> /\ created' = TRUE
      BY <1>2 DEF Enqueue
    <3>3. NewestKept'
      BY <3>1, <3>2 DEF NewestKept
    <3>4. TypeOK'
      BY <2>1, <3>1, <3>2
    <3>5. PlacesAgree' /\ StorageAgrees'
      BY <2>1, <3>1, <3>2 DEF PlacesAgree, StorageAgrees
    <3> QED BY <3>3, <3>4, <3>5
  <2> QED BY <2>2, <2>3
<1>3. CASE Notify
  BY <1>3 DEF Notify, NotifyOne, queueVars, NewestKept, PlacesAgree, StorageAgrees
<1>4. CASE OnReady
  <2>1. awaiting' \in Seeds \cup {NoSeed} /\ async' \in BOOLEAN
    BY <1>4 DEF OnReady
  <2>2. UNCHANGED <<queueVars, storage, bgPc, item, loopPc, arg, requests>>
    BY <1>4 DEF OnReady
  <2>3. TypeOK'
    BY <2>1, <2>2 DEF queueVars
  <2>4. NewestKept' /\ PlacesAgree' /\ StorageAgrees'
    BY <2>2 DEF queueVars, NewestKept, PlacesAgree, StorageAgrees
  <2> QED BY <2>3, <2>4
<1>5. CASE Destroy
  BY <1>5 DEF Destroy, NewestKept, PlacesAgree, StorageAgrees
<1>6. CASE NotifyShutdown
  BY <1>6 DEF NotifyShutdown, NotifyOne, queueVars, NewestKept, PlacesAgree, StorageAgrees
<1>7. CASE Join
  BY <1>7 DEF Join, NewestKept, PlacesAgree, StorageAgrees
<1>8. CASE Check
  BY <1>8 DEF Check, queueVars, loopVars, NewestKept, PlacesAgree, StorageAgrees
<1>9. CASE TakeBack
  <2>1. CASE state = "PENDING"
    <3>1. queue # << >>
      BY <1>9, <2>1 DEF TakeBack, NewestKept
    <3>2. item' = seed /\ item' \in Seeds
      BY <1>9, <2>1, <3>1, LastInSet DEF TakeBack, NewestKept
    <3>3. /\ bgPc' = "setSeed" /\ queue' = << >>
          /\ UNCHANGED <<state, seed, created, storage, async, loopVars>>
      BY <1>9, <2>1 DEF TakeBack
    <3>4. queue' \in Seq(Seeds)
      BY <3>3
    <3> QED
      BY <2>1, <3>2, <3>3, <3>4
         DEF loopVars, NewestKept, PlacesAgree, StorageAgrees
  <2>2. CASE state # "PENDING"
    BY <1>9, <2>2 DEF TakeBack, loopVars, NewestKept, PlacesAgree, StorageAgrees
  <2> QED BY <2>1, <2>2
<1>10. CASE SpuriousWakeup
  BY <1>10 DEF SpuriousWakeup, queueVars, loopVars, NewestKept, PlacesAgree, StorageAgrees
<1>11. CASE SetSeed
  <2>1. bgPc = "setSeed" /\ UNCHANGED <<queueVars, async, item, loopVars>>
    BY <1>11 DEF SetSeed
  <2>2. /\ storage' \in StorageType
        /\ \/ bgPc' = "fill" /\ storage'.allocated /\ storage'.seed = item
           \/ bgPc' = "relock" /\ ~storage'.allocated
    <3>1. CASE bgPc' = "fill"
      <4>1. storage' = [ready |-> FALSE, seed |-> item, allocated |-> TRUE, memory |-> NoSeed]
        BY <1>11, <3>1 DEF SetSeed
      <4> QED BY <3>1, <4>1
    <3>2. CASE bgPc' # "fill"
      <4>1. /\ ~storage.allocated
            /\ storage' = [storage EXCEPT !.ready = FALSE, !.seed = item]
            /\ bgPc' = "relock"
        BY <1>11, <3>2 DEF SetSeed
      <4> QED BY <4>1
    <3> QED BY <3>1, <3>2
  <2>3. TypeOK'
    BY <2>1, <2>2 DEF queueVars, loopVars
  <2>4. NewestKept' /\ PlacesAgree'
    BY <2>1, <2>2 DEF queueVars, loopVars, NewestKept, PlacesAgree
  <2>5. StorageAgrees'
    BY <2>1, <2>2 DEF queueVars, PlacesAgree, StorageAgrees
  <2> QED BY <2>3, <2>4, <2>5
<1>12. CASE FillDataset
  <2>1. bgPc = "fill" /\ bgPc' = "relock" /\ UNCHANGED <<queueVars, async, item, loopVars>>
    BY <1>12 DEF FillDataset
  <2>2. /\ storage' \in StorageType
        /\ storage'.ready /\ storage'.seed = item /\ storage'.memory = item
    BY <1>12 DEF FillDataset, StorageAgrees
  <2>3. TypeOK'
    BY <2>1, <2>2 DEF queueVars, loopVars
  <2>4. NewestKept' /\ PlacesAgree'
    BY <2>1, <2>2 DEF queueVars, loopVars, NewestKept, PlacesAgree
  <2>5. StorageAgrees'
    BY <2>1, <2>2 DEF queueVars, PlacesAgree, StorageAgrees
  <2> QED BY <2>3, <2>4, <2>5
<1>13. CASE Publish
  <2>1. /\ bgPc = "relock" /\ bgPc' = "check"
        /\ UNCHANGED <<queue, created, storage, item, loopVars>>
    BY <1>13 DEF Publish
  <2>2. CASE state = "SHUTDOWN" \/ queue # << >>
    <3>1. UNCHANGED <<seed, state, async>>
      BY <1>13, <2>2 DEF Publish
    <3>2. TypeOK'
      BY <2>1, <3>1 DEF loopVars
    <3>3. NewestKept' /\ PlacesAgree' /\ StorageAgrees'
      BY <2>1, <2>2, <3>1 DEF loopVars, NewestKept, PlacesAgree, StorageAgrees
    <3> QED BY <3>2, <3>3
  <2>3. CASE state # "SHUTDOWN" /\ queue = << >>
    <3>1. seed' = item /\ state' = "IDLE" /\ async' = TRUE
      BY <1>13, <2>3 DEF Publish
    <3>2. TypeOK'
      BY <2>1, <3>1 DEF loopVars
    <3>3. NewestKept' /\ PlacesAgree'
      BY <2>1, <2>3, <3>1 DEF loopVars, NewestKept, PlacesAgree
    <3>4. StorageAgrees'
      BY <2>1, <3>1 DEF StorageAgrees
    <3> QED BY <3>2, <3>3, <3>4
  <2> QED BY <2>2, <2>3
<1>14. CASE UNCHANGED vars
  BY <1>14 DEF vars, NewestKept, PlacesAgree, StorageAgrees
<1> QED
  BY <1>1, <1>2, <1>3, <1>4, <1>5, <1>6, <1>7, <1>8, <1>9, <1>10, <1>11, <1>12, <1>13, <1>14
     DEF Next, EventLoop, Background, Done

THEOREM InvHolds == Spec => []IInv
  BY InitInv, StepInv, PTL DEF Spec

\* The variables of the queue always have their types.
THEOREM TypeCorrect == Spec => []TypeOK
<1>1. IInv => TypeOK
  BY DEF IInv
<1> QED BY <1>1, InvHolds, PTL

\* A mining thread that gets a dataset gets one that is completely filled for
\* the seed of its job, although the filling itself takes no lock.
THEOREM DatasetSafe == Spec => []DatasetIsBuilt
<1>1. IInv => DatasetIsBuilt
  BY DEF IInv, StorageAgrees, DatasetIsBuilt, Dataset, IsReady
<1> QED BY <1>1, InvHolds, PTL

\* When the miner is told that a seed is ready, its threads get the dataset.
THEOREM ReadyUsable == Spec => []ReadyMeansUsable
<1>1. IInv => ReadyMeansUsable
  BY DEF IInv, StorageAgrees, ReadyMeansUsable, Dataset, IsReady
<1> QED BY <1>1, InvHolds, PTL

\* The newest request is never dropped.
THEOREM NothingLost == Spec => []NewestKept
<1>1. IInv => NewestKept
  BY DEF IInv
<1> QED BY <1>1, InvHolds, PTL

---------------------------------------------------------------------------
(* Refinement: every step is a step of the dataset service, or none *)

LEMMA InitRefines == Init => Service!Init
  BY DEF Init, Service!Init, Memory

LEMMA StepRefines == IInv /\ [Next]_vars => [Service!Next]_Service!vars
<1> SUFFICES ASSUME IInv, [Next]_vars PROVE [Service!Next]_Service!vars
  OBVIOUS
<1> USE NoSeedAssumption DEF Service!vars, Memory
<1>0. storage.allocated \in BOOLEAN /\ state \in {"IDLE", "PENDING", "SHUTDOWN"}
  BY DEF IInv, TypeOK, StorageType
<1>1. CASE Enqueue
  <2>1. arg \in Seeds /\ state # "SHUTDOWN"
    BY <1>1 DEF Enqueue, IInv, PlacesAgree
  <2>2. CASE state = "PENDING" /\ seed = arg
    BY <1>1, <2>2 DEF Enqueue
  <2>3. CASE ~(state = "PENDING" /\ seed = arg)
    <3>1. seed' = arg /\ state' = "PENDING" /\ UNCHANGED storage
      BY <1>1, <2>3 DEF Enqueue
    <3>2. Service!Request
      BY <1>0, <2>1, <3>1 DEF Service!Request, Service!Ask, Service!Forget
    <3> QED BY <3>2 DEF Service!Next
  <2> QED BY <2>2, <2>3
<1>2. CASE Destroy
  <2>1. Service!Close
    BY <1>0, <1>2 DEF Destroy, Service!Close, Service!Forget
  <2> QED BY <2>1 DEF Service!Next
<1>3. CASE SetSeed
  \* the thread is busy, so the queue is not idle and nothing is served
  <2>1. state # "IDLE" /\ UNCHANGED <<state, seed>>
    BY <1>3 DEF SetSeed, queueVars, IInv, PlacesAgree
  <2>2. CASE storage'.allocated = storage.allocated
    BY <2>1, <2>2
  <2>3. CASE storage'.allocated # storage.allocated
    <3>1. storage'.allocated /\ ~storage.allocated
      <4>1. storage \in StorageType /\ item \in Seeds \cup {NoSeed}
        BY DEF IInv, TypeOK
      <4>2. CASE storage' = [storage EXCEPT !.ready = FALSE, !.seed = item]
        BY <2>3, <4>1, <4>2 DEF StorageType
      <4>3. CASE storage' = [ready |-> FALSE, seed |-> item, allocated |-> TRUE, memory |-> NoSeed]
        BY <1>0, <2>3, <4>3
      <4> QED
        BY <1>3, <4>2, <4>3 DEF SetSeed
    <3>2. Service!Allocate
      BY <2>1, <3>1 DEF Service!Allocate, Service!Obtain
    <3> QED BY <3>2 DEF Service!Next
  <2> QED BY <2>2, <2>3
<1>4. CASE FillDataset
  BY <1>4 DEF FillDataset, queueVars, IInv, TypeOK, StorageType
<1>5. CASE Publish
  <2>1. CASE state = "SHUTDOWN" \/ queue # << >>
    BY <1>5, <2>1 DEF Publish
  <2>2. CASE state # "SHUTDOWN" /\ queue = << >>
    <3>1. state = "PENDING" /\ item = seed
      BY <1>5, <2>2 DEF Publish, IInv, TypeOK, NewestKept, PlacesAgree
    <3>2. seed' = seed /\ state' = "IDLE" /\ UNCHANGED storage
      BY <1>5, <2>2, <3>1 DEF Publish
    <3>3. CASE storage.allocated /\ seed # NoSeed
      <4>1. Service!Serve
        BY <1>0, <3>1, <3>2, <3>3 DEF Service!Serve, Service!Build
      <4> QED BY <4>1 DEF Service!Next
    <3>4. CASE ~storage.allocated /\ seed # NoSeed
      <4>1. Service!Refuse
        BY <3>1, <3>2, <3>4 DEF Service!Refuse, Service!Fail
      <4> QED BY <4>1 DEF Service!Next
    <3>5. CASE seed = NoSeed
      BY <3>1, <3>2, <3>5
    <3> QED BY <1>0, <3>3, <3>4, <3>5
  <2> QED BY <2>1, <2>2
<1>6. CASE Join
  BY <1>6 DEF Join
<1>7. CASE UNCHANGED <<state, seed, storage>>
  BY <1>7
<1>8. CASE InitCheck \/ Notify \/ OnReady \/ NotifyShutdown \/ Check \/ TakeBack \/ SpuriousWakeup
  <2>1. UNCHANGED <<state, seed, storage>>
    BY <1>8 DEF InitCheck, Notify, OnReady, NotifyShutdown, Check, TakeBack, SpuriousWakeup, queueVars
  <2> QED BY <2>1, <1>7
<1>9. CASE UNCHANGED vars
  BY <1>9, <1>7 DEF vars
<1> QED
  BY <1>1, <1>2, <1>3, <1>4, <1>5, <1>6, <1>8, <1>9 DEF Next, EventLoop, Background, Done

\* The queue, with its thread, locks and wakeups, takes only steps that the
\* dataset service allows: nothing but the seed asked for last is served.
THEOREM QueueImplementsService == Spec => ServiceSpec
  BY InitRefines, StepRefines, InvHolds, PTL DEF Spec, ServiceSpec, Service!Spec
===========================================================================
