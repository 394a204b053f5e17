------------------------------- MODULE Miner -------------------------------
(***************************************************************************)
(* xmrig::Miner as its callers on the event loop see it: every handler     *)
(* runs to its end before the next one starts.  The callers are the        *)
(* network (jobs of the user's pool and of the donation round, loss of all *)
(* pools), the console and the HTTP API (pause, resume, stop), the config  *)
(* reload and the 500 ms timer.                                            *)
(*                                                                         *)
(* The RandomX dataset is the service of DatasetService, which RxQueue     *)
(* implements; the mining threads appear only as "they run", by the nonces *)
(* they use up and by the pause that the one which meets the end of the    *)
(* counter sets.  Their interleaving with one handler is the subject of    *)
(* MinerThreads.                                                           *)
(***************************************************************************)
EXTENDS Integers

CONSTANTS
    UserJobs,       \* jobs of the user's pools
    DonateJobs,     \* jobs of the donation pools
    NoJob,          \* a default-constructed Job
    NoSeed,         \* the seed of a job that is not RandomX
    Age,            \* Age[blob]: a pool never returns to an older blob
    CpuAlgos,       \* the algorithms the CPU backend has threads for
    MaxNonce,       \* slices of nonces a blob has
    MaxEvents,      \* bound: calls into the miner
    StopCommand,    \* may the "stop" method of the JSON-RPC API be called?
    ConfigChanges,  \* the configurations a reload may bring (see Configs)
    InitialConfig

Jobs == UserJobs \cup DonateJobs
Seeds == {j.seed : j \in Jobs} \ {NoSeed}
Blobs == {j.blob : j \in Jobs \cup {NoJob}}

\* The options the miner reads: is the CPU backend enabled, pause-on-battery,
\* pause-on-active.
Configs == [cpu : BOOLEAN, pauseOnBattery : BOOLEAN, pauseOnActive : BOOLEAN]

ASSUME JobsAssumption ==
    /\ \A j \in Jobs \cup {NoJob} :
          {"id", "blob", "algo", "seed"} = DOMAIN j
    /\ NoJob \notin Jobs /\ NoJob.seed = NoSeed
    /\ \A j \in Jobs : j.blob # NoJob.blob
    /\ Age \in [Blobs -> Nat]
ASSUME ConfigAssumption ==
    InitialConfig \in Configs /\ ConfigChanges \subseteq Configs
ASSUME BoundsAssumption ==
    MaxNonce \in Nat \ {0} /\ MaxEvents \in Nat /\ StopCommand \in BOOLEAN

VARIABLES
    active, enabled, battery_power, user_active, auto_pause,    \* MinerPrivate
    reset, job, jobIndex, userJobId, algorithm,                 \* MinerPrivate
    paused, nonces,         \* Nonce: m_paused, m_nonces
    threads,                \* do the threads of the CPU backend run?
    ticking,                \* ticks > 0: the timer was started
    ending,                 \* a thread fetched the last slice of a counter and
                            \* has the pause of Nonce::next still to set
    rxWanted, rxServed,     \* the dataset service
    rxMemory,
    rxCallback,             \* its callback onDatasetReady is due
    config,                 \* controller->config()
    donating,               \* Network: a donation round is on
    poolActive,             \* Network: the user's strategy has an active pool
    userJob,                \* Network: the last job of the user's pool
    progress,               \* history: how many nonces of a blob were used
    cameBack,               \* history: the last setJob ended a donation round
                            \* with the user's job of before
    ended,                  \* history: the flag is set, and the end of a counter
                            \* set it (too) since it was clear
    events                  \* how many calls were made

minerVars   == <<active, enabled, battery_power, user_active, auto_pause>>
jobVars     == <<reset, job, jobIndex, userJobId, algorithm, cameBack>>
flagVars    == <<paused, ending, ended>>
serviceVars == <<rxWanted, rxServed, rxMemory>>
rxVars      == <<serviceVars, rxCallback>>
networkVars == <<donating, poolActive, userJob>>
vars == <<minerVars, jobVars, flagVars, nonces, threads, ticking, rxVars, config, networkVars, progress, events>>

Rx == INSTANCE DatasetService WITH wanted <- rxWanted, served <- rxServed, memory <- rxMemory,
                                   closed <- FALSE

TypeOK ==
    /\ active \in BOOLEAN /\ enabled \in BOOLEAN
    /\ battery_power \in BOOLEAN /\ user_active \in BOOLEAN
    /\ auto_pause \in 0..2
    /\ reset \in BOOLEAN /\ cameBack \in BOOLEAN
    /\ job \in Jobs \cup {NoJob} /\ jobIndex \in {0, 1}
    /\ userJobId \in {j.id : j \in Jobs \cup {NoJob}}
    /\ algorithm \in {j.algo : j \in Jobs \cup {NoJob}}
    /\ paused \in BOOLEAN /\ ending \in BOOLEAN /\ ended \in BOOLEAN
    /\ threads \in BOOLEAN /\ ticking \in BOOLEAN
    /\ nonces \in [{0, 1} -> 0..MaxNonce]
    /\ rxWanted \in Seeds \cup {NoSeed} /\ rxServed \in Seeds \cup {NoSeed}
    /\ rxMemory \in {"none", "failed", "had"} /\ rxCallback \in BOOLEAN
    /\ config \in Configs
    /\ donating \in BOOLEAN /\ poolActive \in BOOLEAN /\ userJob \in UserJobs \cup {NoJob}
    /\ progress \in [Blobs -> 0..MaxNonce]
    /\ events \in 0..MaxEvents

Init ==
    /\ active = FALSE /\ enabled = TRUE
    /\ battery_power = FALSE /\ user_active = FALSE /\ auto_pause = 0
    /\ reset = TRUE /\ job = NoJob /\ jobIndex = 0
    /\ userJobId = NoJob.id /\ algorithm = NoJob.algo
    /\ paused = TRUE /\ nonces = [i \in {0, 1} |-> 0]
    /\ ending = FALSE /\ ended = FALSE
    /\ threads = FALSE /\ ticking = FALSE
    /\ rxWanted = NoSeed /\ rxServed = NoSeed /\ rxMemory = "none" /\ rxCallback = FALSE
    /\ config = InitialConfig
    /\ donating = FALSE /\ poolActive = FALSE /\ userJob = NoJob
    /\ progress = [b \in Blobs |-> 0]
    /\ cameBack = FALSE
    /\ events = 0

----------------------------------------------------------------------------

\* Rx::isReady, and what Rx::init answers: a job of another family needs no
\* dataset.
IsReady(j) == rxServed = j.seed /\ j.seed # NoSeed
HasDataset(j) == j.seed = NoSeed \/ IsReady(j)

\* What Miner::setJob does to the pause flag and the threads before it takes
\* the new job: another RandomX algorithm stops the threads (Nonce::stop
\* clears the flag), a dataset that is not there pauses them.  A thread that is
\* about to set the flag for the end of a counter does so before the stop has
\* joined it, and after Nonce::stop cleared it.
StopsFor(j)   == j.seed # NoSeed /\ algorithm # j.algo
PausesFor(j)  == j.seed # NoSeed /\ algorithm = j.algo /\ ~IsReady(j)
FlagBefore(j) == IF StopsFor(j) THEN ending ELSE PausesFor(j) \/ paused
EndingAfter(j) == ending /\ ~StopsFor(j)

\* The end of a counter has set the flag when the thread about to do so has,
\* and until somebody clears it.
NoteEnd == ended' = (paused' /\ (ended \/ (ending /\ ~ending')))

\* CpuBackend::setJob: threads run for an algorithm it has threads for, unless
\* the backend is disabled.
RunsFor(c, j) == c.cpu /\ j.algo \in CpuAlgos

\* Mistake: the flag is cleared although no pool is active any more.
HandleJobChangeInactive(j, i, doReset, isActive, pausedBefore) ==
    /\ nonces' = IF doReset THEN [nonces EXCEPT ![i] = 0] ELSE nonces
    /\ threads' = RunsFor(config, j)
    /\ ticking' = TRUE
    /\ paused' = ~enabled
    /\ ending' = (EndingAfter(j) /\ threads')
    /\ NoteEnd

\* Mistake: the pause for the dataset is not undone.
HandleJobChangeNoResume(j, i, doReset, isActive, pausedBefore) ==
    /\ nonces' = IF doReset THEN [nonces EXCEPT ![i] = 0] ELSE nonces
    /\ threads' = RunsFor(config, j)
    /\ ticking' = TRUE
    /\ paused' = (pausedBefore \/ ~enabled)
    /\ ending' = (EndingAfter(j) /\ threads')
    /\ NoteEnd

\* MinerPrivate::handleJobChange for the job j at index i, with the flag as the
\* caller left it.  A backend that stops its threads joins them, one at the end
\* of a counter as well.  The first job change starts the timer.
HandleJobChange(j, i, doReset, isActive, pausedBefore) ==
    /\ nonces' = IF doReset THEN [nonces EXCEPT ![i] = 0] ELSE nonces
    /\ threads' = RunsFor(config, j)
    /\ ticking' = TRUE
    /\ ending' = (EndingAfter(j) /\ threads')
    /\ paused' = IF ~enabled THEN TRUE
                 ELSE IF isActive THEN FALSE
                 ELSE pausedBefore \/ (EndingAfter(j) /\ ~threads')
    /\ NoteEnd

\* Mistake: the switch to and from donation resets with its dataset.
ResetForAnyDataset(j, i) ==
    LET keeps == (jobIndex = 1 /\ i = 0 /\ userJobId = j.id) \/ job.blob = j.blob
    IN  ~keeps \/ ~HasDataset(j)

\* A nonce is not reset when the donation round ends with the job it began
\* with, nor for the same blob; it is reset when the dataset changes, but for
\* the switch to and from donation.
ResetFor(j, i) ==
    LET keeps == (jobIndex = 1 /\ i = 0 /\ userJobId = j.id) \/ job.blob = j.blob
    IN  ~keeps \/ (~HasDataset(j) /\ jobIndex = i)

\* Miner::setJob(j, i = 1).  The two tests of isReady (before the job is taken
\* and in Rx::init) are one: a dataset that becomes ready in between leads to
\* the same state.
SetJob(j, i) ==
    /\ reset' = ResetFor(j, i)
    /\ job' = j /\ jobIndex' = i
    /\ userJobId' = IF i = 0 THEN j.id ELSE userJobId
    /\ algorithm' = j.algo
    /\ active' = TRUE
    /\ cameBack' = (jobIndex = 1 /\ i = 0 /\ userJobId = j.id)
    /\ \/ /\ HasDataset(j)
          /\ HandleJobChange(j, i, ResetFor(j, i), TRUE, FlagBefore(j))
          /\ UNCHANGED serviceVars
       \/ /\ ~HasDataset(j)
          /\ rxWanted' = j.seed
          /\ Rx!Ask
          /\ paused' = FlagBefore(j)
          /\ ending' = EndingAfter(j)
          /\ NoteEnd
          /\ threads' = (threads /\ ~StopsFor(j))
          /\ UNCHANGED <<nonces, ticking>>

\* Every call is counted, to bound the behaviours.
Count == events < MaxEvents /\ events' = events + 1

----------------------------------------------------------------------------
(* The network *)

\* A pool may send a job with the blob of its last one, or with a newer blob.
Follows(j, last) == Age[last.blob] <= Age[j.blob]

\* Network::onJob for the user's pool: dropped while a donation round is on;
\* the strategy keeps the job for the end of the round.
UserJob(j) ==
    /\ Count
    /\ Follows(j, userJob) /\ j # userJob
    /\ userJob' = j /\ poolActive' = TRUE
    /\ \/ /\ donating
          /\ UNCHANGED <<active, jobVars, flagVars, nonces, threads, ticking, serviceVars>>
       \/ /\ ~donating
          /\ SetJob(j, 0)
    /\ UNCHANGED <<enabled, battery_power, user_active, auto_pause, rxCallback, config, donating, progress>>

\* Network::onJob for the donation strategy, which runs on a clock of its own
\* and brings blobs that were not seen before.
DonateJob(j) ==
    /\ Count
    /\ progress[j.blob] = 0 /\ j # job
    /\ donating' = TRUE
    /\ SetJob(j, 1)
    /\ UNCHANGED <<enabled, battery_power, user_active, auto_pause, rxCallback, config, poolActive,
                   userJob, progress>>

\* Miner::pause
PauseMiner ==
    /\ active' = FALSE
    /\ paused' = TRUE
    /\ UNCHANGED <<jobVars, ending, ended, nonces, threads, ticking, serviceVars>>

\* Network::onPause for the donation strategy: the user's strategy resumes
\* with its last job, or nothing is left to mine for.
DonateEnd ==
    /\ Count
    /\ donating
    /\ donating' = FALSE
    /\ \/ poolActive /\ SetJob(userJob, 0)
       \/ ~poolActive /\ PauseMiner
    /\ UNCHANGED <<enabled, battery_power, user_active, auto_pause, rxCallback, config, poolActive,
                   userJob, progress>>

\* Network::onPause for the user's strategy: its last active pool is gone.  A
\* donation round stays on, but the miner pauses all the same.
PoolLost ==
    /\ Count
    /\ poolActive
    /\ poolActive' = FALSE
    /\ PauseMiner
    /\ UNCHANGED <<enabled, battery_power, user_active, auto_pause, rxCallback, config, donating,
                   userJob, progress>>

----------------------------------------------------------------------------
(* Console, HTTP API, configuration and timer *)

\* Mistake: the battery is not asked.
RefusedSameOnly(e, onBattery) == enabled = e

\* What Miner::setEnabled(e) makes of the flag: no change, or no resume while
\* on battery.  The flag of the nonces follows only when a pool is active.
Refused(e, onBattery) == enabled = e \/ (e /\ config.pauseOnBattery /\ onBattery)

SetEnabledFrom(e, onBattery) ==
    /\ enabled' = IF Refused(e, onBattery) THEN enabled ELSE e
    /\ paused'  = IF Refused(e, onBattery) \/ ~active THEN paused ELSE ~e
    /\ UNCHANGED ending /\ NoteEnd

\* The console's 'p' and 'r', the API's pause and resume
SetEnabled(e) ==
    /\ Count
    /\ SetEnabledFrom(e, battery_power)
    /\ UNCHANGED <<active, battery_power, user_active, auto_pause, jobVars, nonces, threads, ticking, rxVars,
                   config, networkVars, progress>>

\* The API's stop: Nonce::stop clears the flag, the threads are joined.
Stop ==
    /\ Count
    /\ StopCommand
    /\ paused' = ending
    /\ ending' = FALSE
    /\ NoteEnd
    /\ threads' = FALSE
    /\ UNCHANGED <<minerVars, jobVars, nonces, ticking, rxVars, config, networkVars, progress>>

\* Miner::onConfigChanged with the pools unchanged: the backend is given the
\* job again under the new configuration.
OnConfigChanged(c) ==
    /\ Count
    /\ c # config
    /\ config' = c
    /\ threads' = RunsFor(c, job)
    /\ ending' = (ending /\ threads')
    /\ paused' = (paused \/ (ending /\ ~threads'))
    /\ NoteEnd
    /\ UNCHANGED <<minerVars, jobVars, nonces, ticking, rxVars, networkVars, progress>>

\* The autoPause lambda of Miner::onTimer, for the battery and then for the
\* user's activity.  The second call sees what the first one left.
Toggled(option, flag, now) == option /\ flag # now

\* Mistake: a condition that ends is not counted down.
CountedUp(n, toggled, now) == IF toggled /\ now THEN n + 1 ELSE n

Counted(n, toggled, now) == IF toggled THEN (IF now THEN n + 1 ELSE n - 1) ELSE n

\* Mistake: the flag of the battery is the one from before the timer.
EnablesStale(old, toggled, n, onBattery) ==
    IF ~toggled \/ (n = 0 /\ config.pauseOnBattery /\ battery_power) THEN old ELSE n = 0

Enables(old, toggled, n, onBattery) ==
    IF ~toggled \/ (n = 0 /\ config.pauseOnBattery /\ onBattery) THEN old ELSE n = 0

OnTimer(onBattery, present) ==
    LET tb == Toggled(config.pauseOnBattery, battery_power, onBattery)
        tu == Toggled(config.pauseOnActive, user_active, present)
        battery == IF tb THEN onBattery ELSE battery_power
        n1 == Counted(auto_pause, tb, onBattery)
        n2 == Counted(n1, tu, present)
        e1 == Enables(enabled, tb, n1, battery)
        e2 == Enables(e1, tu, n2, battery)
    IN  /\ tb \/ tu
        /\ battery_power' = battery
        /\ user_active' = IF tu THEN present ELSE user_active
        /\ auto_pause' = n2
        /\ enabled' = e2
        /\ paused' = IF active /\ (e1 # enabled \/ e2 # e1) THEN ~e2 ELSE paused
        /\ UNCHANGED ending /\ NoteEnd

Timer ==
    /\ Count
    /\ ticking
    /\ \E onBattery, present \in BOOLEAN : OnTimer(onBattery, present)
    /\ UNCHANGED <<active, jobVars, nonces, threads, ticking, rxVars, config, networkVars, progress>>

----------------------------------------------------------------------------
(* The dataset and the mining threads *)

\* RxQueue's thread finishes the dataset asked for last; the callback is due.
DatasetDone ==
    /\ Rx!Build
    /\ rxServed # rxWanted
    /\ rxCallback' = TRUE
    /\ UNCHANGED <<minerVars, jobVars, flagVars, nonces, threads, ticking, config, networkVars, progress, events>>

\* The memory of the cache cannot be had: the request ends with a callback too.
DatasetFails ==
    /\ Rx!Fail
    /\ rxCallback' = TRUE
    /\ UNCHANGED <<minerVars, jobVars, flagVars, nonces, threads, ticking, config, networkVars, progress, events>>

\* RxQueue::onReady, Miner::onDatasetReady
OnDatasetReady ==
    /\ rxCallback
    /\ rxCallback' = FALSE
    /\ \/ /\ IsReady(job)
          /\ HandleJobChange(job, jobIndex, reset, active, paused)
       \/ /\ ~IsReady(job)
          /\ UNCHANGED <<flagVars, nonces, threads, ticking>>
    /\ UNCHANGED <<minerVars, jobVars, serviceVars, config, networkVars, progress, events>>

\* The threads hash: they run, are not paused, have the dataset, and the job's
\* counter has nonces left.
UsedUp == nonces[jobIndex] = MaxNonce
Mining == threads /\ ~paused /\ job # NoJob /\ HasDataset(job) /\ ~UsedUp

\* One of them takes the next slice of the counter with Nonce::next; the one
\* that gets the last slice goes on to the pause.
Mine ==
    /\ Mining
    /\ nonces' = [nonces EXCEPT ![jobIndex] = @ + 1]
    /\ progress' = [progress EXCEPT ![job.blob] =
                       IF @ < nonces[jobIndex] + 1 THEN nonces[jobIndex] + 1 ELSE @]
    /\ ending' = (ending \/ nonces[jobIndex] + 1 = MaxNonce)
    /\ UNCHANGED <<minerVars, jobVars, paused, ended, threads, ticking, rxVars, config, networkVars, events>>

\* Its pause, whatever job the miner has by now.
EndPause ==
    /\ ending
    /\ ending' = FALSE
    /\ paused' = TRUE
    /\ NoteEnd
    /\ UNCHANGED <<minerVars, jobVars, nonces, threads, ticking, rxVars, config, networkVars, progress, events>>

----------------------------------------------------------------------------

Next ==
    \/ \E j \in UserJobs : UserJob(j)
    \/ \E j \in DonateJobs : DonateJob(j)
    \/ DonateEnd
    \/ PoolLost
    \/ \E e \in BOOLEAN : SetEnabled(e)
    \/ Stop
    \/ \E c \in ConfigChanges : OnConfigChanged(c)
    \/ Timer
    \/ DatasetDone
    \/ DatasetFails
    \/ OnDatasetReady
    \/ Mine
    \/ EndPause

\* The dataset thread finishes, with or without a dataset, the event loop serves
\* its callback, and a thread on its way to the pause gets there.
Spec == /\ Init /\ [][Next]_vars
        /\ WF_vars(DatasetDone \/ DatasetFails) /\ WF_vars(OnDatasetReady) /\ WF_vars(EndPause)

----------------------------------------------------------------------------
(* Properties *)

\* A pause is in force: without a pool the flag is set, and while the miner is
\* disabled its threads find it set.
Held == (~active => paused) /\ (~enabled /\ threads => paused)

\* The last of the conditions that pause the miner goes.
LastConditionGoes == Timer /\ auto_pause # 0 /\ auto_pause' = 0

\* No job, algorithm, donation round or late callback of the dataset resumes a
\* paused miner.  While the miner stays disabled, or without a pool, only the
\* API's stop, which clears the flag, and a reload, which starts the threads
\* without a look at it, let go of the pause.  And a disabled miner is enabled
\* by a resume, or by the timer when the last condition goes: autoPause then
\* resumes a miner that the user had paused as well.
NoUnwantedResume ==
    [][/\ Held /\ ~Held' => Stop \/ \E c \in ConfigChanges : OnConfigChanged(c)
       /\ ~enabled /\ enabled' => SetEnabled(TRUE) \/ LastConditionGoes]_vars

\* A donation round does not touch the nonces of the user's job, and they go on
\* where they were when the round ends with that job: the round may need another
\* dataset, the first one is then built again, and the callbacks come late.
DonationKeepsNonce ==
    [][(donating /\ donating') \/ cameBack' => nonces'[0] >= nonces[0]]_vars

\* With pause-on-battery the miner is never enabled on battery, whether the
\* timer, the console or the API asks for it.
BatteryHeld == enabled /\ config.pauseOnBattery => ~battery_power

\* auto_pause counts the conditions that hold.
FlagsCounted == auto_pause = (IF battery_power THEN 1 ELSE 0) + (IF user_active THEN 1 ELSE 0)

\* When the timer sees the last of the conditions go, it resumes the miner.
ResumesAfterConditions ==
    [][(battery_power \/ user_active)
          /\ ~(config'.pauseOnBattery /\ battery_power')
          /\ ~(config'.pauseOnActive /\ user_active')
          /\ Timer => enabled']_vars

\* Why a miner that is wanted may not mine: the API's stop left no threads and
\* a clear flag; the memory for the dataset of its job cannot be had; or a
\* counter came to its end.  A pause for the end may come late and meet a job
\* whose own counter has nonces left.
Stopped  == ~threads /\ ~paused
NoMemory == job.seed # NoSeed /\ rxMemory = "failed"
AtEnd    == UsedUp \/ (paused /\ ended)

\* A miner that is wanted mines: if from some point on a pool is active, the
\* miner enabled and its backend configured for the job, it ends up mining, or
\* in one of these three states until the next job, reload or resume.
WantedIsMining ==
    <>[](active /\ enabled /\ RunsFor(config, job))
        => <>[]Mining \/ <>[]Stopped \/ <>[]NoMemory \/ <>[]AtEnd
=============================================================================
