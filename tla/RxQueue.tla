------------------------------ MODULE RxQueue ------------------------------
(***************************************************************************)
(* xmrig::RxQueue: the queue of RandomX seeds between the event loop (the  *)
(* Miner, through xmrig::Rx) and the one background thread that rebuilds   *)
(* the dataset.  Three agents share it:                                    *)
(*   - the event loop: Rx::init (isReady, then enqueue, two critical       *)
(*     sections), the async callback onReady, the destructor;              *)
(*   - the background thread: backgroundInit, one action per stretch of    *)
(*     code between two accesses to shared state;                          *)
(*   - the mining threads, which only read: dataset().                     *)
(* A critical section of m_mutex is one action; a notify, which the code   *)
(* sends after it unlocked, is an action of its own.                       *)
(***************************************************************************)
EXTENDS Naturals, Sequences

CONSTANTS
    Seeds,          \* seeds (with their algorithm) the pool may ask for
    NoSeed,         \* the value of a default-constructed RxSeed
    MaxRequests,    \* bound: calls of Rx::init in a behaviour
    AllocMayFail    \* may the allocation of the RandomX cache fail?

ASSUME NoSeedAssumption == NoSeed \notin Seeds
ASSUME MaxRequestsAssumption == MaxRequests \in Nat
ASSUME AllocAssumption == AllocMayFail \in BOOLEAN

VARIABLES
    state,          \* m_state
    seed,           \* m_seed
    queue,          \* m_queue, the seeds of its items
    created,        \* m_storage # nullptr
    storage,        \* what m_storage holds: see StorageType
    async,          \* a callback of m_async is due (sends coalesce)
    bgPc,           \* where the background thread is
    item,           \* the background thread's local "item"
    loopPc,         \* where the event loop is
    arg,            \* the seed of the Rx::init call being executed
    awaiting,       \* Miner: the seed of the job that waits for onDatasetReady
    requests        \* how many times Rx::init was called

queueVars == <<state, seed, queue, created>>
loopVars  == <<loopPc, arg, awaiting, requests>>
vars == <<state, seed, queue, created, storage, async, bgPc, item, loopPc, arg, awaiting, requests>>

\* RxBasicStorage: m_ready, m_seed, whether the cache is allocated, and the
\* seed the memory was filled for (NoSeed while it is being filled).
StorageType == [ready: BOOLEAN, seed: Seeds \cup {NoSeed},
                allocated: BOOLEAN, memory: Seeds \cup {NoSeed}]

TypeOK ==
    /\ state \in {"IDLE", "PENDING", "SHUTDOWN"}
    /\ seed \in Seeds \cup {NoSeed}
    /\ queue \in Seq(Seeds)
    /\ created \in BOOLEAN
    /\ storage \in StorageType
    /\ async \in BOOLEAN
    /\ bgPc \in {"check", "lock", "wait", "woken", "setSeed", "fill", "relock", "exit"}
    /\ item \in Seeds \cup {NoSeed}
    /\ loopPc \in {"loop", "enqueue", "notify", "notifyShutdown", "join", "gone"}
    /\ arg \in Seeds \cup {NoSeed}
    /\ awaiting \in Seeds \cup {NoSeed}
    /\ requests \in 0..MaxRequests

Init ==
    /\ state = "IDLE"
    /\ seed = NoSeed
    /\ queue = << >>
    /\ created = FALSE
    /\ storage = [ready |-> FALSE, seed |-> NoSeed, allocated |-> FALSE, memory |-> NoSeed]
    /\ async = FALSE
    /\ bgPc = "check"
    /\ item = NoSeed
    /\ loopPc = "loop"
    /\ arg = NoSeed
    /\ awaiting = NoSeed
    /\ requests = 0

----------------------------------------------------------------------------
(* Readers *)

\* isReadyUnsafe
IsReady(s) == created /\ storage.allocated /\ state = "IDLE" /\ seed = s

\* dataset(): does a mining thread that asks for seed s get a dataset?
Dataset(s) == IsReady(s) /\ storage.ready /\ storage.seed = s

----------------------------------------------------------------------------
(* The event loop *)

\* Rx::init, up to its test of isReady.  A job whose dataset is ready waits
\* for nothing; any other goes on to enqueue.
InitCheck ==
    /\ loopPc = "loop"
    /\ requests < MaxRequests
    /\ requests' = requests + 1
    /\ \E s \in Seeds :
          \/ /\ IsReady(s)
             /\ awaiting' = NoSeed
             /\ UNCHANGED <<loopPc, arg>>
          \/ /\ ~IsReady(s)
             /\ loopPc' = "enqueue"
             /\ arg' = s
             /\ awaiting' = s
    /\ UNCHANGED <<queueVars, storage, async, bgPc, item>>

\* Mistake: only the first call marks the queue as pending.
EnqueuePendingOnce ==
    /\ loopPc = "enqueue"
    /\ created' = TRUE
    /\ queue' = Append(queue, arg)
    /\ seed' = arg
    /\ state' = IF created THEN state ELSE "PENDING"
    /\ loopPc' = "notify"
    /\ UNCHANGED <<storage, async, bgPc, item, arg, awaiting, requests>>

\* enqueue, its critical section.  A seed that is pending already is not
\* queued again.
Enqueue ==
    /\ loopPc = "enqueue"
    /\ created' = TRUE
    /\ \/ /\ state = "PENDING" /\ seed = arg
          /\ loopPc' = "loop"
          /\ UNCHANGED <<queue, seed, state>>
       \/ /\ ~(state = "PENDING" /\ seed = arg)
          /\ queue' = Append(queue, arg)
          /\ seed' = arg
          /\ state' = "PENDING"
          /\ loopPc' = "notify"
    /\ UNCHANGED <<storage, async, bgPc, item, arg, awaiting, requests>>

\* m_cv.notify_one(): only a thread that is already waiting is woken.
NotifyOne == bgPc' = IF bgPc = "wait" THEN "woken" ELSE bgPc

\* the notify at the end of enqueue
Notify ==
    /\ loopPc = "notify"
    /\ NotifyOne
    /\ loopPc' = "loop"
    /\ UNCHANGED <<queueVars, storage, async, item, arg, awaiting, requests>>

\* onReady, and Miner::onDatasetReady which it calls: the callback counts only
\* when nothing was requested since, and serves the job if its seed is ready.
OnReady ==
    /\ loopPc = "loop"
    /\ async
    /\ async' = FALSE
    /\ awaiting' = IF state = "IDLE" /\ IsReady(awaiting) THEN NoSeed ELSE awaiting
    /\ UNCHANGED <<queueVars, storage, bgPc, item, loopPc, arg, requests>>

\* ~RxQueue, its critical section
Destroy ==
    /\ loopPc = "loop"
    /\ state' = "SHUTDOWN"
    /\ loopPc' = "notifyShutdown"
    /\ UNCHANGED <<seed, queue, created, storage, async, bgPc, item, arg, awaiting, requests>>

\* Mistake: the destructor joins without waking the thread.
NotifyShutdownForgotten ==
    /\ loopPc = "notifyShutdown"
    /\ loopPc' = "join"
    /\ UNCHANGED <<queueVars, storage, async, bgPc, item, arg, awaiting, requests>>

\* the notify in ~RxQueue
NotifyShutdown ==
    /\ loopPc = "notifyShutdown"
    /\ NotifyOne
    /\ loopPc' = "join"
    /\ UNCHANGED <<queueVars, storage, async, item, arg, awaiting, requests>>

\* m_thread.join(); delete m_storage
Join ==
    /\ loopPc = "join"
    /\ bgPc = "exit"
    /\ created' = FALSE
    /\ loopPc' = "gone"
    /\ UNCHANGED <<state, seed, queue, storage, async, bgPc, item, arg, awaiting, requests>>

----------------------------------------------------------------------------
(* The background thread *)

\* the loop condition, read without the lock
Check ==
    /\ bgPc = "check"
    /\ bgPc' = IF state # "SHUTDOWN" THEN "lock" ELSE "exit"
    /\ UNCHANGED <<queueVars, storage, async, item, loopVars>>

\* With the lock held, for the first time or after the wait: an idle queue is
\* waited for, a pending one gives its newest item and forgets the others.
TakeBack ==
    /\ bgPc \in {"lock", "woken"}
    /\ \/ /\ state = "IDLE"
          /\ bgPc' = "wait"
          /\ UNCHANGED <<item, queue>>
       \/ /\ state = "SHUTDOWN"
          /\ bgPc' = "check"
          /\ UNCHANGED <<item, queue>>
       \/ /\ state = "PENDING"
          /\ bgPc' = "setSeed"
          /\ item' = queue[Len(queue)]
          /\ queue' = << >>
    /\ UNCHANGED <<state, seed, created, storage, async, loopVars>>

\* the wait ends without a notify
SpuriousWakeup ==
    /\ bgPc = "wait"
    /\ bgPc' = "woken"
    /\ UNCHANGED <<queueVars, storage, async, item, loopVars>>

\* Mistake: a dataset that exists is taken for ready, whatever its seed.
SetSeedOnly ==
    /\ bgPc = "setSeed"
    /\ storage' = [storage EXCEPT !.ready = TRUE, !.seed = item, !.allocated = TRUE]
    /\ bgPc' = "relock"
    /\ UNCHANGED <<queueVars, async, item, loopVars>>

\* m_storage->init, without the lock: setSeed, then the allocation of the
\* cache the first time, which may fail and leaves everything else undone.
\* The RxAlgo::apply of setSeed rewrites a global that nothing in this module
\* reads: MinerThreads has it, among the threads that hash with it.
SetSeed ==
    /\ bgPc = "setSeed"
    /\ \/ /\ storage' = [ready |-> FALSE, seed |-> item, allocated |-> TRUE, memory |-> NoSeed]
          /\ bgPc' = "fill"
       \/ /\ AllocMayFail /\ ~storage.allocated
          /\ storage' = [storage EXCEPT !.ready = FALSE, !.seed = item]
          /\ bgPc' = "relock"
    /\ UNCHANGED <<queueVars, async, item, loopVars>>

\* initDataset: the memory is filled for the storage's seed
FillDataset ==
    /\ bgPc = "fill"
    /\ storage' = [storage EXCEPT !.ready = TRUE, !.memory = storage.seed]
    /\ bgPc' = "relock"
    /\ UNCHANGED <<queueVars, async, item, loopVars>>

\* Mistake: the result is published although newer work is queued.
PublishAlways ==
    /\ bgPc = "relock"
    /\ bgPc' = "check"
    /\ \/ /\ state = "SHUTDOWN"
          /\ UNCHANGED <<seed, state, async>>
       \/ /\ state # "SHUTDOWN"
          /\ seed' = item
          /\ state' = "IDLE"
          /\ async' = TRUE
    /\ UNCHANGED <<queue, created, storage, item, loopVars>>

\* the second critical section: publish, unless there is newer work
Publish ==
    /\ bgPc = "relock"
    /\ bgPc' = "check"
    /\ \/ /\ state = "SHUTDOWN" \/ queue # << >>
          /\ UNCHANGED <<seed, state, async>>
       \/ /\ state # "SHUTDOWN" /\ queue = << >>
          /\ seed' = item
          /\ state' = "IDLE"
          /\ async' = TRUE
    /\ UNCHANGED <<queue, created, storage, item, loopVars>>

----------------------------------------------------------------------------

Background == Check \/ TakeBack \/ SetSeed \/ FillDataset \/ Publish

\* What the event loop does once it has started a call or a callback is due.
EventLoop == Enqueue \/ Notify \/ OnReady \/ NotifyShutdown \/ Join

\* After the destructor nothing is left to do.
Done == loopPc = "gone" /\ UNCHANGED vars

Next == InitCheck \/ Destroy \/ EventLoop \/ Background \/ SpuriousWakeup \/ Done

\* The scheduler runs the background thread, and the event loop finishes the
\* call it is in and serves a callback that is due (Join is blocked until the
\* thread ended).  Requests, the shutdown and spurious wakeups need not happen.
Spec == Init /\ [][Next]_vars /\ WF_vars(Background) /\ WF_vars(EventLoop)

----------------------------------------------------------------------------
(* Properties *)

\* A mining thread that gets a dataset gets memory that is completely filled
\* for the seed of its job: the background thread writes that memory without
\* any lock, and only m_state keeps the readers away.
DatasetIsBuilt == \A s \in Seeds : Dataset(s) => storage.memory = s

\* The miner starts its threads when isReady says so; then the threads must
\* be able to get the dataset, or they spin in allocateRandomX_VM.
ReadyMeansUsable == \A s \in Seeds : IsReady(s) => Dataset(s)

\* The newest request is never dropped: while the queue is pending, the seed
\* asked for last is in the queue's back or in the hands of the thread, and
\* an idle queue holds nothing.
NewestKept ==
    /\ queue # << >> => queue[Len(queue)] = seed
    /\ state = "IDLE" => queue = << >>
    /\ state = "PENDING" /\ queue = << >> =>
          bgPc \in {"setSeed", "fill", "relock"} /\ item = seed

\* The thread gave up the dataset that the job waits for: no memory.
MemoryFailed == state = "IDLE" /\ loopPc = "loop" /\ awaiting # NoSeed /\ ~storage.allocated

\* A job that was told "not ready" gets its callback: sends that coalesce, a
\* request that repeats a pending seed, or a dataset finished between isReady
\* and enqueue leave no job waiting for ever (unless the memory cannot be had).
JobIsServed == (awaiting # NoSeed) ~> (awaiting = NoSeed \/ MemoryFailed \/ state = "SHUTDOWN")

\* The destructor returns, whatever the background thread was doing.
ShutdownEnds == (state = "SHUTDOWN") ~> (loopPc = "gone")

\* The cache's memory: had, or refused to a request that is over.
Memory == IF storage.allocated THEN "had"
          ELSE IF state = "IDLE" /\ seed # NoSeed THEN "failed" ELSE "none"

\* The queue implements the dataset service.
Service == INSTANCE DatasetService WITH
    wanted <- seed,
    served <- IF state = "IDLE" /\ storage.allocated THEN seed ELSE NoSeed,
    memory <- Memory,
    closed <- state = "SHUTDOWN"

\* Every step of the queue, with its thread, locks and wakeups, is a step of the
\* service or none; that it serves in the end is JobIsServed.
ServiceSpec == Service!Spec
=============================================================================
