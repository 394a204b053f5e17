---------------------------- MODULE MinerThreads ----------------------------
(***************************************************************************)
(* The event loop and the CPU mining threads inside one handler: what      *)
(* Miner.tla takes as one step.  A handler of the miner is the list of its *)
(* accesses to what the threads see (todo), one action each: the pause     *)
(* flag and the sequence of Nonce, the job under its mutex, the start and  *)
(* the join of the threads.  A thread is CpuWorker::start and consumeJob,  *)
(* one action per access.  The dataset thread of RxQueue.tla is here as    *)
(* the second writer of the global RandomX parameters: RxAlgo::apply is    *)
(* called by Miner::setJob and by RxBasicStoragePrivate::setSeed, and it   *)
(* copies a structure field by field, under no lock.                       *)
(*                                                                         *)
(* Nonces are the subject of Nonce.tla: here a counter may run out at any  *)
(* fetch.  All jobs are RandomX jobs with blobs of their own.              *)
(***************************************************************************)
EXTENDS Integers, Sequences

CONSTANTS
    Workers,        \* the threads of the CPU backend
    Seeds,          \* RandomX seeds
    NoSeed,
    SeedOf,         \* SeedOf[j]: the seed of the j-th job
    AlgoOf,         \* AlgoOf[j]: its algorithm
    MaxCalls,       \* bound: handlers that run
    MayStop,        \* is the API's stop called?
    MayReload,      \* is the configuration of the threads reloaded?
    MayExhaust,     \* may a nonce counter run out?
    AllocMayFail    \* may the allocation of the RandomX cache fail?

Jobs == DOMAIN SeedOf
NoJob == 0

\* Algorithm::INVALID; and parameters that are of no algorithm, while they are
\* rewritten or after two threads rewrote them at once
NoAlgo == 0
Torn == -1

ASSUME JobsAssumption ==
    /\ SeedOf \in Seq(Seeds) /\ NoSeed \notin Seeds
    /\ AlgoOf \in [Jobs -> Nat \ {NoAlgo}]
ASSUME CallsAssumption == MaxCalls \in Nat
ASSUME SwitchAssumption ==
    /\ MayStop \in BOOLEAN /\ MayReload \in BOOLEAN
    /\ MayExhaust \in BOOLEAN /\ AllocMayFail \in BOOLEAN

VARIABLES
    sequence,       \* Nonce::m_sequence[CPU]
    paused,         \* Nonce::m_paused
    job,            \* MinerPrivate::job
    wanted, served, \* the dataset service
    memory,         \* its cache: not tried, refused, had
    callback,       \* its callback is due
    applied,        \* RandomX_CurrentConfig: the algorithm in force
    rxStep,         \* where the dataset thread is
    queued,         \* RxQueue::m_queue has items
    wantedAlgo,     \* the algorithm of the item queued last
    storageAlgo,    \* the algorithm of RxBasicStorage's seed
    active, enabled,\* MinerPrivate
    started,        \* the CPU backend has threads
    todo,           \* the accesses left of the handler that runs
    arg,            \* its job
    calls,          \* how many handlers ran
    pc, ret,        \* where a thread is, and where its consumeJob returns to
    read,           \* consumeJob's local copy of the miner's job
    own, ownJob     \* WorkerJob: m_sequence, the current job

nonceVars  == <<sequence, paused>>
rxVars     == <<wanted, served, memory, callback, queued, wantedAlgo>>
dtVars     == <<rxStep, storageAlgo>>
loopVars   == <<active, enabled, started, todo, arg, calls>>
threadVars == <<pc, ret, read, own, ownJob>>
vars == <<nonceVars, job, rxVars, dtVars, applied, loopVars, threadVars>>

Rx == INSTANCE DatasetService WITH closed <- FALSE

Steps == {"pause", "resume", "touch", "zero", "join", "apply", "publish", "spawn"}
Places == {"none", "top", "test", "sleep", "wake", "loop", "hash", "end", "bottom",
           "consume", "read", "adopt", "full", "vm", "exit"}
Algos == {NoAlgo} \cup {AlgoOf[j] : j \in Jobs}

TypeOK ==
    /\ sequence \in Nat /\ paused \in BOOLEAN
    /\ job \in Jobs \cup {NoJob} /\ arg \in Jobs \cup {NoJob}
    /\ wanted \in Seeds \cup {NoSeed} /\ served \in Seeds \cup {NoSeed}
    /\ memory \in {"none", "failed", "had"}
    /\ callback \in BOOLEAN /\ queued \in BOOLEAN
    /\ rxStep \in {"idle", "apply", "applying", "build"}
    /\ applied \in Algos \cup {Torn} /\ wantedAlgo \in Algos /\ storageAlgo \in Algos
    /\ active \in BOOLEAN /\ enabled \in BOOLEAN /\ started \in BOOLEAN
    /\ todo \in Seq(Steps)
    /\ calls \in 0..MaxCalls
    /\ pc \in [Workers -> Places] /\ ret \in [Workers -> {"top", "loop"}]
    /\ read \in [Workers -> Jobs \cup {NoJob}]
    /\ own \in [Workers -> Nat] /\ ownJob \in [Workers -> Jobs \cup {NoJob}]

Init ==
    /\ sequence = 1 /\ paused = TRUE
    /\ job = NoJob /\ arg = NoJob
    /\ wanted = NoSeed /\ served = NoSeed /\ memory = "none" /\ callback = FALSE
    /\ applied = NoAlgo
    /\ rxStep = "idle" /\ queued = FALSE /\ wantedAlgo = NoAlgo /\ storageAlgo = NoAlgo
    /\ active = FALSE /\ enabled = TRUE /\ started = FALSE
    /\ todo = << >> /\ calls = 0
    /\ pc = [w \in Workers |-> "none"] /\ ret = [w \in Workers |-> "top"]
    /\ read = [w \in Workers |-> NoJob]
    /\ own = [w \in Workers |-> 0] /\ ownJob = [w \in Workers |-> NoJob]

IsReady(j) == j # NoJob /\ served = SeedOf[j]

\* MinerPrivate::algorithm: of the job set last
Algorithm == IF job = NoJob THEN NoAlgo ELSE AlgoOf[job]

\* RxQueue::m_state is STATE_PENDING
Pending == queued \/ rxStep # "idle"

----------------------------------------------------------------------------
(* The handlers of the event loop, as the accesses they make *)

If(condition, steps) == IF condition THEN steps ELSE << >>

\* CpuBackend::stop, Workers::stop: nothing without threads
StopThreads == If(started, <<"zero", "join", "touch">>)

\* Mistake: the sequence is left at the mark of the stop.
StartUntouched == <<"spawn">>

\* Workers::start
StartThreads == <<"touch", "spawn">>

\* Miner::stop
StopMiner == <<"resume", "zero">> \o StopThreads

\* MinerPrivate::handleJobChange
JobChange(isActive) ==
    If(~enabled, <<"pause">>) \o If(~started, StartThreads) \o <<"touch">>
        \o If(isActive /\ enabled, <<"resume">>)

Idle == todo = << >>

Run(steps) == Idle /\ calls < MaxCalls /\ calls' = calls + 1 /\ todo' = steps

\* Miner::setJob: another algorithm stops the threads and is applied, a
\* dataset that is not there pauses them; the rest follows the publication.
SetJob(j) ==
    /\ Run(IF Algorithm # AlgoOf[j] THEN StopMiner \o <<"apply", "publish">>
           ELSE If(~IsReady(j), <<"pause", "touch">>) \o <<"publish">>)
    /\ arg' = j
    /\ UNCHANGED <<nonceVars, job, rxVars, dtVars, applied, active, enabled, started, threadVars>>

\* Miner::pause
PoolLost ==
    /\ active
    /\ Run(<<"pause", "touch">>)
    /\ active' = FALSE
    /\ UNCHANGED <<nonceVars, job, rxVars, dtVars, applied, enabled, started, arg, threadVars>>

\* Miner::setEnabled
SetEnabled(e) ==
    /\ enabled # e
    /\ enabled' = e
    /\ Run(If(active, <<IF e THEN "resume" ELSE "pause", "touch">>))
    /\ UNCHANGED <<nonceVars, job, rxVars, dtVars, applied, active, started, arg, threadVars>>

\* the API's stop
ApiStop ==
    /\ MayStop
    /\ Run(StopMiner)
    /\ UNCHANGED <<nonceVars, job, rxVars, dtVars, applied, active, enabled, started, arg, threadVars>>

\* Miner::onConfigChanged with other threads configured
Reload ==
    /\ MayReload /\ job # NoJob
    /\ Run(StopThreads \o StartThreads)
    /\ UNCHANGED <<nonceVars, job, rxVars, dtVars, applied, active, enabled, started, arg, threadVars>>

\* Miner::onDatasetReady
OnDatasetReady ==
    /\ Idle /\ callback
    /\ callback' = FALSE
    /\ todo' = If(IsReady(job), JobChange(active))
    /\ UNCHANGED <<nonceVars, job, wanted, served, memory, queued, wantedAlgo, dtVars, applied, active, enabled, started, arg, calls, threadVars>>

----------------------------------------------------------------------------
(* One access of the handler that runs *)

Does(step) == ~Idle /\ Head(todo) = step

\* The flag and the sequence
SetNonce ==
    /\ ~Idle /\ Head(todo) \in {"pause", "resume", "touch", "zero"}
    /\ paused' = CASE Head(todo) = "pause" -> TRUE [] Head(todo) = "resume" -> FALSE [] OTHER -> paused
    /\ sequence' = CASE Head(todo) = "touch" -> sequence + 1 [] Head(todo) = "zero" -> 0 [] OTHER -> sequence
    /\ todo' = Tail(todo)
    /\ UNCHANGED <<job, rxVars, dtVars, applied, active, enabled, started, arg, calls, threadVars>>

\* The threads before they start, or when they are gone
Threads(place) ==
    /\ pc' = [w \in Workers |-> place] /\ ret' = [w \in Workers |-> "top"]
    /\ read' = [w \in Workers |-> NoJob]
    /\ own' = [w \in Workers |-> 0] /\ ownJob' = [w \in Workers |-> NoJob]

\* Mistake: the threads are detached, not joined.
JoinNobody ==
    /\ Does("join")
    /\ started' = FALSE
    /\ todo' = Tail(todo)
    /\ UNCHANGED <<nonceVars, job, rxVars, dtVars, applied, active, enabled, arg, calls, threadVars>>

\* ~Thread for every worker
Join ==
    /\ Does("join")
    /\ \A w \in Workers : pc[w] = "exit"
    /\ started' = FALSE
    /\ Threads("none")
    /\ todo' = Tail(todo)
    /\ UNCHANGED <<nonceVars, job, rxVars, dtVars, applied, active, enabled, arg, calls>>

Spawn ==
    /\ Does("spawn")
    /\ started' = TRUE
    /\ Threads("top")
    /\ todo' = Tail(todo)
    /\ UNCHANGED <<nonceVars, job, rxVars, dtVars, applied, active, enabled, arg, calls>>

\* RxAlgo::apply
Apply ==
    /\ Does("apply")
    /\ applied' = AlgoOf[arg]
    /\ todo' = Tail(todo)
    /\ UNCHANGED <<nonceVars, job, rxVars, dtVars, active, enabled, started, arg, calls, threadVars>>

\* Under the mutex the job is taken and its dataset asked for, which queues its
\* seed unless it is pending already (RxQueue::enqueue); if it is ready, the job
\* change follows.  The two critical sections of Rx::init are one here: RxQueue
\* has them apart.
Publish ==
    /\ Does("publish")
    /\ job' = arg
    /\ active' = TRUE
    /\ \/ /\ IsReady(arg)
          /\ todo' = JobChange(TRUE)
          /\ UNCHANGED <<wanted, served, memory, queued, wantedAlgo>>
       \/ /\ ~IsReady(arg)
          /\ todo' = << >>
          /\ wanted' = SeedOf[arg]
          /\ Rx!Ask
          /\ IF Pending /\ wanted = SeedOf[arg]
             THEN UNCHANGED <<queued, wantedAlgo>>
             ELSE queued' = TRUE /\ wantedAlgo' = AlgoOf[arg]
    /\ arg' = NoJob
    /\ UNCHANGED <<nonceVars, callback, dtVars, applied, enabled, started, calls, threadVars>>

----------------------------------------------------------------------------
(* The dataset thread: RxQueue::backgroundInit and RxBasicStorage::init *)

\* The newest item is taken back and the others forgotten; setSeed compares its
\* algorithm with the one of the seed before.
TakeBack ==
    /\ rxStep = "idle" /\ queued
    /\ queued' = FALSE
    /\ storageAlgo' = wantedAlgo
    /\ rxStep' = IF storageAlgo = wantedAlgo THEN "build" ELSE "apply"
    /\ UNCHANGED <<nonceVars, job, wanted, served, memory, callback, wantedAlgo, applied, loopVars, threadVars>>

\* RxAlgo::apply of setSeed begins to rewrite the parameters ...
ApplyBegins ==
    /\ rxStep = "apply"
    /\ rxStep' = "applying"
    /\ applied' = Torn
    /\ UNCHANGED <<nonceVars, job, rxVars, storageAlgo, loopVars, threadVars>>

\* ... and ends: when the event loop wrote in the meantime, either's
\* parameters, or some of both, are left.
ApplyEnds ==
    /\ rxStep = "applying"
    /\ rxStep' = "build"
    /\ applied' \in {storageAlgo} \cup (IF applied = Torn THEN {} ELSE {applied, Torn})
    /\ UNCHANGED <<nonceVars, job, rxVars, storageAlgo, loopVars, threadVars>>

\* The cache is allocated or refused, the dataset filled.  Work queued since
\* then comes first; otherwise the dataset is served, or there is none, and the
\* callback is sent.
Finish ==
    /\ rxStep = "build"
    /\ rxStep' = "idle"
    /\ \/ /\ queued
          /\ \/ Rx!Obtain
             \/ (AllocMayFail \/ memory = "had") /\ UNCHANGED <<wanted, served, memory>>
          /\ UNCHANGED callback
       \/ /\ ~queued
          /\ Rx!Build \/ (AllocMayFail /\ Rx!Fail)
          /\ callback' = TRUE
    /\ UNCHANGED <<nonceVars, job, queued, wantedAlgo, storageAlgo, applied, loopVars, threadVars>>

DatasetThread == TakeBack \/ ApplyBegins \/ ApplyEnds \/ Finish

----------------------------------------------------------------------------
(* A mining thread: CpuWorker::start *)

Go(w, to) == pc' = [pc EXCEPT ![w] = to]
SharedVars == <<nonceVars, job, rxVars, dtVars, applied, loopVars>>
JobOfThread == <<read, own, ownJob>>

Moves(w, from, to) ==
    /\ pc[w] = from
    /\ Go(w, to)
    /\ UNCHANGED <<SharedVars, ret, JobOfThread>>

\* Call consumeJob, which returns to the place "to".
Consumes(w, from, to) ==
    /\ pc[w] = from
    /\ Go(w, "consume")
    /\ ret' = [ret EXCEPT ![w] = to]
    /\ UNCHANGED <<SharedVars, JobOfThread>>

\* while (Nonce::sequence(Nonce::CPU) > 0)
Top(w)  == Moves(w, "top", IF sequence = 0 THEN "exit" ELSE "test")

\* if (Nonce::isPaused())
Test(w) == Moves(w, "test", IF paused THEN "sleep" ELSE "loop")

\* the threads sleep while the miner is paused, unless it stops
Sleep(w) == (~paused \/ sequence = 0) /\ Moves(w, "sleep", "wake")

Wake(w) == \/ sequence = 0 /\ Moves(w, "wake", "exit")
           \/ sequence # 0 /\ Consumes(w, "wake", "loop")

\* while (!Nonce::isOutdated(Nonce::CPU, m_job.sequence())), and the test that
\* the job's algorithm is one for the thread's memory: the empty job's is not.
Loop(w) == Moves(w, "loop", IF own[w] = sequence /\ ownJob[w] # NoJob THEN "hash" ELSE "bottom")

\* one hash, and the next round of nonces
Hash(w) == Moves(w, "hash", "loop")

\* the counter ran out: Nonce::next fetched past its end ...
Exhaust(w) == MayExhaust /\ Moves(w, "hash", "end")

\* ... and pauses the miner, in a round of the loop or for a new job
End(w) ==
    /\ pc[w] \in {"end", "full"}
    /\ paused' = TRUE
    /\ Go(w, IF pc[w] = "end" THEN "bottom" ELSE "vm")
    /\ UNCHANGED <<sequence, job, rxVars, dtVars, applied, loopVars, ret, JobOfThread>>

\* if (!Nonce::isPaused()) consumeJob();
Bottom(w) == \/ paused /\ Moves(w, "bottom", "top")
             \/ ~paused /\ Consumes(w, "bottom", "top")

----------------------------------------------------------------------------
(* CpuWorker::consumeJob *)

\* consumeJob returns to where it was called.
Returns(w) == Go(w, ret[w]) /\ ret' = [ret EXCEPT ![w] = "top"]

Consume(w) ==
    /\ pc[w] = "consume"
    /\ \/ sequence = 0 /\ Returns(w)
       \/ sequence # 0 /\ Go(w, "read") /\ UNCHANGED ret
    /\ UNCHANGED <<SharedVars, JobOfThread>>

\* m_miner->job()
Read(w) ==
    /\ pc[w] = "read"
    /\ read' = [read EXCEPT ![w] = job]
    /\ Go(w, "adopt")
    /\ UNCHANGED <<SharedVars, ret, own, ownJob>>

\* WorkerJob::add: a job that is not the one at hand is saved, with nonces of
\* its own, where the counter may run out.
Adopt(w) ==
    /\ pc[w] = "adopt"
    /\ own' = [own EXCEPT ![w] = sequence]
    /\ ownJob' = [ownJob EXCEPT ![w] = read[w]]
    /\ read' = [read EXCEPT ![w] = NoJob]
    /\ \/ Go(w, "vm")
       \/ MayExhaust /\ read[w] # ownJob[w] /\ Go(w, "full")
    /\ UNCHANGED <<SharedVars, ret>>

\* Mistake: the wait for the dataset does not look at the stop.
VmForever(w) ==
    /\ pc[w] = "vm"
    /\ IsReady(ownJob[w])
    /\ Returns(w)
    /\ UNCHANGED <<SharedVars, read, own, ownJob>>

\* allocateRandomX_VM: wait for the dataset of the job, or for the stop
Vm(w) ==
    /\ pc[w] = "vm"
    /\ IsReady(ownJob[w]) \/ sequence = 0
    /\ Returns(w)
    /\ UNCHANGED <<SharedVars, read, own, ownJob>>

----------------------------------------------------------------------------

Worker(w) ==
    \/ Top(w) \/ Test(w) \/ Sleep(w) \/ Wake(w) \/ Loop(w) \/ Hash(w) \/ End(w)
    \/ Bottom(w) \/ Consume(w) \/ Read(w) \/ Adopt(w) \/ Vm(w)

EventLoop == SetNonce \/ Join \/ Spawn \/ Apply \/ Publish \/ OnDatasetReady

Calls ==
    \/ \E j \in Jobs : SetJob(j)
    \/ PoolLost
    \/ \E e \in BOOLEAN : SetEnabled(e)
    \/ ApiStop
    \/ Reload

Next ==
    \/ Calls \/ EventLoop \/ DatasetThread
    \/ \E w \in Workers : Worker(w) \/ Exhaust(w)

\* The threads and the event loop run; calls need not come, and a counter
\* need not run out.
Spec == /\ Init /\ [][Next]_vars
        /\ WF_vars(EventLoop) /\ WF_vars(DatasetThread)
        /\ \A w \in Workers : WF_vars(Worker(w))

----------------------------------------------------------------------------
(* Properties *)

Hashing(w) == pc[w] = "hash"

\* Two algorithms may share the dataset of a seed (RxSeed::isEqualSeedAlgo).
Shared(j) == \E k \in Jobs : SeedOf[k] = SeedOf[j] /\ AlgoOf[k] # AlgoOf[j]

\* A thread hashes under the RandomX parameters of its job, and never while they
\* are rewritten, although the event loop and the dataset thread both rewrite
\* them.  The exceptions are a thread that took the stop for its sequence, a
\* job whose seed is another algorithm's as well (the request for the second of
\* them finds the first pending and is dropped, and the dataset thread applies
\* the first), and what both writers at once left behind.
AlgorithmMatches ==
    \A w \in Workers : Hashing(w) =>
        \/ applied = AlgoOf[ownJob[w]]
        \/ own[w] = 0
        \/ Shared(ownJob[w])
        \/ applied = Torn /\ rxStep # "applying"

\* When the miner is not paused and the dataset is there, every thread of the
\* backend hashes again and again, whatever stops, reloads and pauses came before.
\* The one exception is a thread that took a job of before, whose dataset gave
\* way to the next one: it waits for the next stop.
Superseded(w) == pc[w] = "vm" /\ ownJob[w] # job
ThreadsMine ==
    <>[](Idle /\ started /\ ~paused /\ IsReady(job)) =>
        \A w \in Workers : []<>Hashing(w) \/ <>[]Superseded(w)

\* The join of the threads returns: nothing they wait for keeps them from the
\* stop.  The one exception is a thread that took the stop for its sequence.
JoinPending == Does("join")
JoinReturns == JoinPending ~> (~JoinPending \/ \E w \in Workers : Hashing(w) /\ own[w] = 0)
=============================================================================
