# CalajaMiner: a TLA+ verification of the miner and of the rig

The repository is two programs in one: **xmrig**, a multithreaded CPU miner in
C++ (`opt/calajaminer/xmrig/src`), and **the rig around it**, the scripts and the
Python agent that install a machine, give it an identity on its first boot, and
let a panel change its configuration and restart the miner. This directory
holds TLA+ models of both, the TLC runs that check them, and TLAPS proofs of
the results that matter most.

Paths below are relative to the repository, those of xmrig to
`opt/calajaminer/xmrig/src`.

## 1. Inventory

| Component | State it keeps | Operations | Talks to | What makes it correct |
|---|---|---|---|---|
| RandomX dataset queue (`crypto/rx/RxQueue`, `Rx`, `RxBasicStorage`) | `m_state`, `m_seed`, `m_queue`, the storage, an async handle, one background thread | `Rx::init`, `isReady`, `dataset`, the destructor | called by Miner, read by mining threads, calls back `onDatasetReady` | a dataset that is handed out is completely built for the seed asked for; the newest seed is served; shutdown ends |
| Nonce counters (`crypto/common/Nonce`) | two atomic counters, the pause flag, one sequence per backend | `next`, `reset`, `pause`, `stop`, `touch`, `isOutdated` | all mining threads, Miner | no nonce twice; a slice stays in its mask and never carries; an exhausted counter pauses |
| Miner (`core/Miner`) | active, enabled, the auto-pause conditions, the job, its index, the reset flag | `setJob`, `pause`, `setEnabled`, `stop`, `onConfigChanged`, `onTimer`, `onDatasetReady` | Network, Rx, Nonce, CPU backend, console, API | no pause is undone by accident, none stays by accident; a donation round costs the user no nonce twice |
| CPU backend and threads (`backend/cpu`, `backend/common`) | the threads, each thread's job and sequence | `setJob`, `start`, `stop`; `CpuWorker::start`, `consumeJob` | Miner, Nonce, Rx | a thread hashes the right algorithm and job; join returns; a wanted miner hashes |
| Network, strategies, donation (`net`, `base/net/stratum/strategies`) | active pool, donation state, timers | connect, resume, stop, onClose, onLogin, onJob, tick | clients, Miner | one active pool; a round ends; the best pool wins back |
| Stratum clients (`base/net/stratum`) | connection state, deadlines, pending requests | connect, close, reconnect, tick, parse | pools, strategies | late answers and timeouts never act on another connection |
| Job results (`net/JobResults`) | a list under a mutex, an async handle | submit, deliver | threads, Network | each result delivered once, to the pool of its job |
| Configuration (`base/kernel/Base`, `core/config`, `base/io/Watcher`) | the configuration in force, the file watch | read, save, reload, watch | Miner and Network, the rig's file | what runs is what is in the file |
| HTTP API, console, log, signals | - | requests and keys | Miner, Base | input and output |
| Hashrate, benchmark, OpenCL, CUDA, NUMA, MSR, hash functions, vendored code | - | - | - | numeric, unused on a rig, or third party |
| Agent (`opt/calajaminer/agent/agent.py`) | none (files) | POST of a configuration, start, stop, restart, status | panel, `config.json`, systemd | an answered POST is in force |
| First boot (`opt/calajaminer/scripts/calaja-firstboot.sh`) | `.firstboot_done` | the script | both configurations, systemd | a clone gets an identity of its own, once, and finishes |
| Installer (`scripts/install-calaja-miner.sh`) | the installation, backups, units | install, update, reinstall | everything on the rig | what was chosen for the rig is preserved; a failed run can be repeated |
| USB cloning script (`opt/calajaminer/scripts/clone-usb-safe.sh`) | the disk, its mounts, the first boot it installs | one copy, repeated by hand | the clone's systemd | a clone is renamed everywhere before it is marked; the first boot ends; names are unique |
| Systemd units | - | - | - | restarts |

What is hard here, and what the models are about: the event loop, the dataset
thread and the mining threads share flags, counters, a queue and a mutable
global without one lock around them (`Nonce`, `RxQueue`, `RandomX_CurrentConfig`);
results come by callbacks that coalesce and are late; a stop is a value of the
sequence that threads must notice wherever they wait; and on the rig four
programs truncate and rewrite the same file while another starts from it,
watches it and saves it, with the power failing anywhere. Between miner and
pools it is the stop that is not one: a strategy that was stopped may still have
a login under way, and the timers, logins and failures of a round meet in any
order. `PROJECT.json` lists
each hazard at its line with the properties that would catch it.

## 2. Modules

| Module | Models | Composed of |
|---|---|---|
| `DatasetService` | the abstract promise of the queue: only the last seed asked for is served, and its memory may be refused | - |
| `RxQueue` | `RxQueue`, `Rx::init`, `RxBasicStorage` step by step | refines `DatasetService` |
| `Nonce` (`MCNonce`) | `Nonce::next` by concurrent workers, `reset`, `pause` | - |
| `Miner` (`MCMiner`) | all handlers of `Miner`, one action each | uses `DatasetService` |
| `MinerThreads` (`MCMinerThreads`) | a handler of the miner as its accesses, against the mining threads and the dataset thread access by access | uses `DatasetService` |
| `PoolService` | the abstract promise of a pool strategy, late logins included | - |
| `Strategy` | `SinglePoolStrategy`, `FailoverStrategy` and the connections of `Client` | refines `PoolService` |
| `Network` | `Network`, `DonateStrategy`, the queue of `JobResults` | uses `PoolService` |
| `Rig` | xmrig's use of its file, the agent, the first boot, the power | - |
| `Installer` | the installer on a rig, with failures and reboots | - |
| `Clone` | the USB cloning script and the first boots of the clones | - |
| `*_proofs` | theorems about `RxQueue`, `Nonce`, `Miner`, `MinerThreads`, `Strategy`, `Network`, `Installer`, and of `Rig` and `Clone` together in `Firstboot_proofs` | extend these |

The layers fit together as the code does: `RxQueue` is proved to implement
`DatasetService`, and `Miner` and `MinerThreads` use that service in place of
the queue, and are proved to use it as it may be used. `Miner` takes a handler as one step because the event loop runs it
to its end; `MinerThreads` takes exactly that step apart. `Strategy` is proved to implement `PoolService`,
and `Network` uses that service for the developer's pools, proved likewise. `Network` knows of the
miner only whether it is active and on which job; `Miner` knows of the network
only the calls (`UserJob`, `DonateJob`, `DonateEnd`, `PoolLost`). `Network` checks
who is given the miner and when, `Miner` what it costs the user's nonces.

### RxQueue

`state`, `seed`, `queue` are the members; `storage` is what the memory holds
(its `memory` is the seed it was filled for, `NoSeed` while it is being
filled: the thread writes it without the lock). `bgPc` is the place of the
background thread in `backgroundInit`, `loopPc` that of the event loop in
`enqueue` or the destructor. A critical section is one action; the notify after
it is another, so that a notify may come when nobody waits. `isReady` and
`enqueue`, two critical sections of `Rx::init`, are two actions. `RxAlgo::apply`,
which the thread calls in `setSeed`, rewrites a global that only the mining threads
read: it is in `MinerThreads`.

### Nonce

`counter` is `m_nonces`. A call of `next` is `Call` (the guard and
`fetch_add`), any number of `Skip`s, and one of `Fail`, `PauseAtEnd`, `Grant`.
The low word of 2^32 values is the constant `Word`; `slices` is a history of
what was granted, `epoch` counts the resets.

### Miner

The variables have the names of `MinerPrivate`. `SetJob`, `SetEnabledFrom`,
`HandleJobChange`, `OnTimer` are the handlers as operators; the actions add who
calls them (`UserJob`, `DonateJob`, `DonateEnd`, `PoolLost`, `SetEnabled`,
`Stop`, `OnConfigChanged`, `Timer`, `OnDatasetReady`). A job is its id, blob,
algorithm and seed. `nonces` counts what the threads used of each index; the
thread that takes the last slice of a counter still has the pause of
`Nonce::next` to set (`ending`), and sets it when it comes to it (`EndPause`),
perhaps under another job. A dataset asked for is built (`DatasetDone`) or its
memory refused (`DatasetFails`); both send the callback. `RunsFor` is what
`CpuBackend::setJob` makes of a job: threads, or none for an algorithm without.

### MinerThreads

`todo` is the list of accesses the running handler has left: set or clear the
pause flag, `touch`, the zero of `Nonce::stop`, join, apply the RandomX
parameters, publish the job, spawn. Each is one action, so the threads may do
anything in between. The dataset thread is here as the second writer of the
global RandomX parameters (`TakeBack`, `ApplyBegins`, `ApplyEnds`, `Finish`): it
copies them in two steps, with `Torn` in between and, when the event loop wrote
meanwhile, possibly after. A thread's `pc` follows `CpuWorker::start` and
`consumeJob`, one action per access of shared state; a nonce counter may run
out in any round.

### PoolService and Strategy

`PoolService` is `IStrategy` as its listener sees it: `trying`, `serving`, and
`late`, an attempt from before a stop whose login revives the strategy. `connect`
may come at any time, also to a strategy that serves.
`Strategy` has a client for each pool: the state of `Client`, with
`ConnectedState` split by what became of the login, and its `failures` (-1 after
`disconnect`). `Failed` is `Client::reconnect`, `Fails` adds `onClose` of the
strategy, `LoginSuccess` is `onLoginSuccess`; the actions are the callbacks of the
event loop. Pools change between answering, refusing and silence. The one state
that ends a behaviour is `overrun`: `connect` on a client whose old socket is not
closed yet overwrites it, and what comes then is not followed.

### Network

`state`, `timer` and `failures` are those of `DonateStrategy`; every login is a
session with a number of its own, a job carries its session, and a share the
session of its job. The user's strategy is reduced to its session and newest
job; the developer's is an `INSTANCE` of `PoolService`. `Routed` is the client
that a share is handed to when `JobResults` delivers it, which may be much later
than it was found. When a proxy fails for good the developer's strategy is
connected whatever it does (`ConnectDonation`): a client that is logged in goes
back to its lookup (`redial`), takes no shares, and logs in again, which is told
to nobody when it is the one in use (`Redialled`).

### Rig

`file` is the content of `config.json`: who wrote it, whose identity is in it,
and whether it is full, that is, holds the thread profiles that xmrig generates
and saves. `Truncate` and `Fill` are the two halves of every write, and
`After` says what two writers over each other leave. The actions are those of
xmrig (read, start, save, reload, watch again), of the agent's handlers, of the
first-boot script in its order, and the failing power.

### Installer

One action per function of `main` that changes the rig, over what each of the
two configurations holds: the rig's own values, the panel's, values made up, or
those of the repository's own rig (`opt/calajaminer/agent/config.json` is
`calaja-rig-17`'s). The settings of xmrig are two parts, because the script treats
them so: the `"pool"`, with what else `read_existing_config` reads, is put back;
the `"rest"` (algorithm, TLS, further pools, other options) is not read, and
`write_configs` writes values of its own. `wanted` is what was last chosen for the
rig. A function fails before its effect is complete; rsync replaces the two files
one by one.

### Clone

`step` is the place of the script, a command that may fail ends it there or goes
on, as its `|| true` says; so does `hostnamectl` on the clone (`unnamed`). A disk has its copy, its mounts, and the rig that
boots from it; `host`, `agent` and `miner` are the three places of its name. The
first boot is the one that the script writes to the clone, not the one of
`Rig`: it names the rig by the last octet of its address, or by its MAC. The
module shares no name with `Rig` (`CloneInit`, `CloneNext`, `CloneSpec`), so that
one module proves about both.

## 3. Runs

| Run | Question | Bounds, and why they are enough | Result |
|---|---|---|---|
| `rxqueue` | safety, liveness and refinement of the queue | 3 seeds, 4 calls, failing allocation: one built, one in the thread's hands, one queued, one more; deadlock checked | holds |
| `nonce` | nonces, masks, pause | words of 4 values, a mask of two words and one inside the word, smaller than a slice of the second worker; reserve counts 2 and 3, one reset: every boundary of word and mask is met with a divisor and a non-divisor | holds |
| `miner` | pauses of all origins, jobs, donation rounds | 6 calls, 4 user jobs of 3 algorithms, 2 donation jobs, counters of two slices, the API's stop, reloads: both conditions on, a pause, a stop, both off; a round with a pause and a change of dataset inside it and the return; a counter that ends under the next job | holds |
| `threads` | algorithm switch under threads; they come back, join returns | 1 mining thread and the dataset thread, 4 handlers, 4 jobs: the next seed of an algorithm, another algorithm, and a third one that shares the seed of the other; two switches of the dataset in a row under a thread that lags. Threads do not wait for each other, so one shows it, and `AlgorithmMatches` is proved for any number | holds |
| `strategy` | failover, retries, late logins | 1 to 3 pools (first, middle, last), 2 retries, 3 changes of a pool: lost, back, and another one lost meanwhile | holds |
| `network` | turns of the miner, shares, late logins, proxy | 4 logins, 3 jobs of the user, 2 waiting shares: a user's session, a donation's, a proxy's, a late one or one made anew; a share of each of two sessions | holds |
| `rig` | the writers of the configuration | 2 POSTs, 2 power failures, 1 stop or restart: an overlap, and a failure of the recovery from a failure | holds |
| `installer` | updates, reinstallations, retries | 2 wanted runs, 2 failures, 2 POSTs: a failure, a failing repetition and a second run | holds |
| `clone` | clones are named, first boots end | 2 disks, each cloned to success once, one octet and the MAC names: the second disk is cloned and booted while the first one changes its address | holds |
| `rig_post` | "config salva e xmrig reiniciado" | 2 POSTs, one at a time, no failures | violated |
| `installer_again` | "preserva `rig_id`" | 1 run, 1 failure | violated |
| `clone_unique` | "criar hostname único" | 2 disks, 2 octets | violated |

`CHECK_DEADLOCK FALSE` stands in the runs whose calls are bounded: a miner that got
its last call and whose nonces are used up rests (`Miner`, `MinerThreads`), so
does a network without a login left (`Network`), pools that stay down or mute or
an overrun socket (`Strategy`), and a rig or a clone of which nothing more is
asked (`Rig`, `Installer`, `Clone`). `RxQueue` and `Nonce` are checked for deadlock.

The bounds: `Miner` counts calls (`MaxEvents`, `MaxNonce`), `MinerThreads` handlers
(`MaxCalls`), `RxQueue` requests (`MaxRequests`), `Nonce` resets (`MaxEpoch`) and how
far past the mask an exhausted counter goes, `Strategy` pools and their changes
(`MaxPools`, `MaxChanges`; `Retries` is the option), `Network` logins, jobs and
waiting shares (`MaxSessions`, `MaxJobs`, `MaxShares`), `Rig` and `Installer` POSTs,
stops, failures and runs, `Clone` the last octets (`Octets`).

### What the passing runs show

* **Queue**: `DatasetIsBuilt`, `ReadyMeansUsable`: only `m_state` keeps readers
  from memory being written, and it does. `NewestKept`, `JobIsServed`:
  whatever coalesces or repeats, the job that waits gets its callback.
  `ShutdownEnds`: the destructor returns. `ServiceSpec`: the queue implements the
  service.
* **Nonces**: `NoNonceTwice` (also for the calls that have fetched and not
  returned), `WalkStaysInside`, `EndPauses`.
* **Miner**: `NoUnwantedResume` and `WantedIsMining` are the two sides of
  pausing: no job, algorithm, round or callback undoes a pause, and none leaves one
  behind; `DonationKeepsNonce`; `BatteryHeld` and `ResumesAfterConditions` the
  automatic pauses.
* **Threads**: `AlgorithmMatches`: two threads rewrite the global parameters under
  no lock, and a thread that hashes finds those of its job all the same, as long as
  no two algorithms share a seed and the two writers do not meet. `ThreadsMine`,
  `JoinReturns`.
* **Strategy**: `OneSession`: a session that lost the race is ended.
  `NeverStranded` and `EndsServed`: it never waits for what does not come, and a
  pool that answers is used in the end. `ServiceSpec`: it implements the service.
* **Network**: `EachItsTurn`: a round has the miner alone, and the user's newest
  job is back after it, also when it came in the round. `NoDeadWork`,
  `SharesReachThem`: no work for a session that ended, and a share finds its own
  session while that is open, but for what a proxy cuts off. `TimerFits`: the assertion of `setState`;
  `UserMines`: rounds end, however late the logins.
* **Rig**: `DoneMeansRenamed`, `FirstbootCompletes`, `RunsTheFile`,
  `PostInForce`.
* **Installer**: `ChoiceRecoverable`: every choice, those the script overwrites
  included, is at least in a backup. `Preserved`: identity, pool and the options the
  script reads survive an update. `DoneIsComplete`, `RepeatedEnds`.
* **Clone**: `MarkedIsNamed`, `FirstbootEnds`.

The type invariants are checked in `miner`, `strategy` and `network`; those of all
nine models are theorems (`TypeCorrect` of each `*_proofs`, `CloneTypeCorrect`).

Each property has a mutant in `PROJECT.json`: a plausible mistake in the code (it
stands next to what it changes, under "Mistake:") that breaks it.

Some properties name an exception, which is where the code is weaker than one
would wish:

* `NoUnwantedResume`: the API's stop clears the pause flag (`Nonce::stop`), and a
  reload starts the threads without a look at `enabled`. And a disabled miner is
  enabled by a resume or by the timer: when the last of the conditions goes,
  `autoPause` enables also a miner that the user had paused (`Miner.cpp:688-690`).
* `WantedIsMining`: a miner that the API stopped (`Stopped`); a miner whose
  dataset got no memory, until the next job (`NoMemory`, `RxBasicStorage.cpp:66-72`);
  and the end of a counter (`AtEnd`), whose pause may come late and stop the next
  job, which has nonces left (`Nonce.cpp:47`). It speaks of a backend that has
  threads for the algorithm (`RunsFor`).
* `AlgorithmMatches`: a thread that took the stop for its sequence (as `JoinReturns`);
  a job whose seed two algorithms share: rx/0 and RX_V2 count as one seed
  (`RxSeed.h:64-68`), so the request for the second is dropped while the first is
  pending, and the dataset thread then applies the first over it; and the mixture
  that two writers at once leave, which nobody repairs if the storage has had that
  algorithm before.
* `ThreadsMine` (`Superseded`): a thread that took the job of the seed before waits
  for a dataset nobody builds. `JoinReturns`: a thread that read the sequence
  between stop and start hashes until its nonces run out or the next job.
* `EndsServed`, `NeverStranded`: a pool that accepts the connection and does not
  answer the login holds the strategy for good, since the timeout of the answer
  is switched off as it is set (`Client.cpp:571`); a pool but for the first that
  was given up for a worse one is not tried again when that one is lost.
* `NoDeadWork`: a single pool that a reload replaces is deleted before it tells
  its end, and the miner works on for it until the next login.
* `SharesReachThem` (`CutOff`): a late login of the developer's pools beside a
  proxy: its shares are handed to the proxy, which refuses them; and when the proxy
  failed the pools are connected again over the open session, which takes no share
  from then on (`DonateStrategy.cpp:190`, `Client.cpp:182`).
* `Preserved` speaks of the identity, the pool and the options the script reads.
  The algorithm, TLS and further pools are lost in every update
  (`install-calaja-miner.sh:472-489`), although `README.md:95` says it preserves the
  main configuration; they are in the backup only (`ChoiceRecoverable`).
* `MarkedIsNamed`: the hostname, when `hostnamectl` failed, which the script of the
  clone ignores (`clone-usb-safe.sh:267`): the rig is marked all the same.
* `FirstbootCompletes`, `FirstbootEnds`: a configuration cut by the failing power
  ends the first boot for good, a command of the naming that fails ends it until
  the next boot (`calaja-firstboot.sh:74`, `clone-usb-safe.sh:269-273`); a service of
  the clone that could not be enabled never begins it, which the script does not
  tell. `RunsTheFile`: a handler that was
  killed leaves a file nobody restarted for.

### Findings

1. `rig_post`: xmrig, started by one POST, saves the file it had read over the
   one of the next POST (`Base.cpp:219`); the panel was told both are in force.
2. `installer_again`: a run that failed after rsync leaves the repository's
   identity, and the repetition takes it for the rig's (`install-calaja-miner.sh:310`).
3. `clone_unique`: two clones get one name for good when the lease of the first
   goes to the second (`clone-usb-safe.sh:246`).

Further weaknesses stand among the hazards of `PROJECT.json`, each at its line:
the reset of the user's nonces when a round needed another dataset and the blob
comes back at another difficulty (`Miner.cpp:598`), a thread that leaves the pause
loop with the sequence of the next pause (`CpuWorker.cpp:255`), the mute pool
(`Client.cpp:571`), the donation pool lost inside a round, and the copy of a clone
whose pipe hides an error of reading.

## 4. Fairness

* `RxQueue`: weak fairness of the background thread (the operating system runs
  it) and of the event loop for what it has begun and for callbacks that are
  due (libuv serves its queue). Requests, the shutdown and spurious wakeups are
  not fair.
* `Miner`: of the dataset thread, which builds or gives up, and of its callback
  (`JobIsServed` of the queue); and of a thread on its way to the pause of an ended
  counter.
* `MinerThreads`: of each thread, of the dataset thread and of the event loop inside
  a handler; calls need not come and counters need not run out.
* `Strategy`: of the callbacks of each pool: the event loop serves what libuv
  reports, connections and retry pauses time out, and a pool that is up answers.
  `connect`, `stop` and the changes of the pools are not fair; a mute pool has no
  callback to be fair about.
* `Network`: of the timers (`StartRound`, `EndRound`, `WaitOver`), which are armed or
  looked at on every tick. Logins, jobs, losses and shares are not fair.
* `Rig`: of xmrig, the first-boot script and the handler of each POST that
  began: processes that run, restarted by systemd (`Restart=always`). The panel
  is not fair and the power need not fail.
* `Clone`: of the steps of a first boot that runs. Switching a rig on and
  repeating the script are not fair.
* `Installer`: of the script, and of its repetition after a failure. The second
  is an assumption about the owner, and only `RepeatedEnds` uses it.

Safety properties use none of it.

## 5. Proofs

TLAPS checks these for all values of the constants, under the assumptions named
in the modules (finite bounds, `NoSeed` no seed, masks as `nonceMask()` gives
them, reserve counts in one word).

* **`RxQueue_proofs`**: `IInv` is the types, `NewestKept`, and
  two strengthenings. `PlacesAgree`: an idle queue has an idle thread, the thread
  ends after the shutdown only. `StorageAgrees`: what the storage holds at each
  place of the thread, and that in an idle queue it is built for `m_seed`. They
  lean on each other: that an idle queue's storage is ready for `m_seed` needs
  the seed published to be the one last built, and that needs `NewestKept`.
  From it `TypeCorrect`, `DatasetSafe`, `ReadyUsable`, `NothingLost`;
  and with it every step maps to a step of `DatasetService` or a
  stutter, `QueueImplementsService`.
* **`Nonce_proofs`**: `IInv` says that everything granted or fetched in the
  present epoch lies below the counter, that no slice has an epoch that has not
  begun, and that granted and fetched slices are apart. It gives
  `NoNonceTwiceHolds` for any number of workers and any reserve counts;
  `WalkHolds` uses the arithmetic of the tests of `next` in the steps that grant.
  `EndPausesHolds`: `EndPauses` is inductive with the types, since of all calls
  the one whose addition crosses the mask is the one that finds the end.
* **`Miner_proofs`**: `TypeCorrect`; `BatteryHeldHolds` and
  `ResumesHolds`, under `OptionStays` and `OptionsStay` (no reload changes the
  options of the automatic pauses: with one off and on again they do not hold),
  which need the count of the conditions and that a condition is noted only while
  its option is on; `CountHolds`; (about `FlagsCounted`, the number of
  conditions, which no run checks); `DonationKeepsNonceHolds`, whose invariant
  ties the index of the job and the reset flag to the donation round, so that a
  late callback resets the donation's counter only or nothing; `NoResume`, which
  needs the types and `FlagsCounted` (that the timer enables a miner only when the
  count comes to zero), and that every step but the API's stop and a reload keeps
  `Held`: the flag is set while no pool is active, and while a disabled miner has
  threads.
  `UsesDatasetService`: the calls of the miner are steps of `DatasetService`, so that
  what `RxQueue` is proved to implement is what the miner was proved with.
  `AskedForJobHolds`: the dataset asked for last is that of the job. With it
  `WantedMinesOrWaitsHolds`: a miner with a pool that is enabled mines, a dataset
  or its callback is under way, or it is in one of the three states that
  `WantedIsMining` names (of which `Stopped` here covers a backend without threads
  for the job, too). `WaitInv` is inductive because a pause of an enabled,
  active miner has two origins only, the end of a counter and the dataset of its own
  job: `JobWaits` says so of the job's seed, not of the last request.
* **`MinerThreads_proofs`**: `AlgorithmMatchesHolds`, for any number of threads
  and jobs. `TodoInv` orders what is left of a handler (the parameters are
  applied after the join only, and the job is published last); `ThreadInv` says that
  what a thread read and took is of the algorithm of the job set last. The dataset
  thread is why this is not enough: `AgreeInv` says what it leaves in force
  when it has nothing to apply, and `ParamsInv` that it has nothing to apply, now or
  from the queue, for a thread that found the dataset of its job, if the seed is of
  one algorithm; `ZeroInv`, that a thread can leave its wait without a dataset only
  while the sequence is zero until the join. `TypeCorrect`, `UsesDatasetService` and `AskedForJobHolds` are as for
  `Miner`, between any two accesses. `JoinFindsThemHolds`: while the event loop waits
  in the join, no thread waits for the end of a pause or for a dataset. `StopInv`
  says that a join comes once in a handler and right after the zero of the sequence.
  `LiveUntilStopHolds`: a thread leaves its loop only in a stop that joins it, so
  that a started backend with no join ahead has all its threads. `LiveInv` says that
  running threads find the sequence zero only with a join ahead, and that threads
  are started right after a touch and with no zero to come; that the lists of all
  handlers are so is `HandlersLive`, by concatenation (`LiveConcat`).
* **`Strategy_proofs`**: `TypeCorrect`, `OneSessionHolds`, `NeverStrandedHolds`, from
  `StrategyInv`. `ActiveInv`: the pool in use is the one at the index, with its
  session or its socket closing, and is not given up but by a stop. `IndexInv`: while
  none is in use, the client at the index was asked and not given up, which is what
  keeps `NeverStranded` true when that client fails. `StoppedInv`: after a stop all
  clients are given up, and only the strategy of a single pool still reports one.
  `StrategyIsService`: the service tries while something is `wanted` and serves while a
  pool is `active`; a login that revives a stopped strategy is the late one of the
  service, and what a client does short of a login or a loss is a stutter.
* **`Network_proofs`**: the types, and `IInv`, the conjunction of `EachItsTurn`,
  `NoDeadWork` and `TimerFits`: that the miner holds the donation's job while a
  round is on is needed to see that a lost user's pool leaves no work behind. The
  types tie a session to `serving` and to the proxy that is on.
  `SharesReachThemHolds` needs more, `SharesInv`: that open sessions are told apart,
  that the job and each waiting share are of no open session of the other side,
  and that the developer's pools serve only while their strategy tries.
  `UsesPoolService`: what the network does with the developer's strategy, a connect
  over an open session included, and what it expects of it, are steps of
  `PoolService`, which `StrategyIsService` proves of the strategies for such a connect
  too.
* **`Firstboot_proofs`, `Clone`**: `MarkedIsNamedHolds`, `CloneTypeCorrect`. `CloneScriptInv` says that the disk in work
  is not finished, has a copy from the first mount on, and no mark at the end;
  `CloneBootInv` which names are the new one at each step of a first boot (the hostname
  unless `hostnamectl` failed), and that a rig that is on is of a finished disk. The lease stays while the rig is on, and
  a repeated boot starts over.
* **`Firstboot_proofs`, `Rig`**: `TypeCorrect`; `DoneRenamed`. `DoneMeansRenamed` is not inductive: before
  the end of the script the identity of the image may be in a file, in what
  xmrig runs, or in what it is about to save. `RigInv` adds `RawIsOwn` (a
  configuration xmrig still has to complete comes from the panel, so that its
  save never brings the image back: the image is complete) and `Renamed` (how
  far the script came says what is renamed, and it stays so under every other
  writer and a power failure). `StaleAwaitsRestartHolds`: an xmrig that runs another
  content than the file holds awaits a restart: of the script, of the handler that
  wrote, or of one that was killed; it is inductive with the types.
  `AnsweredStaysHolds`: the last answered POST, if it began on a settled rig, is in
  the file or the file was cut, and xmrig runs nothing else. `AloneInv` follows such
  a POST (`Kept`): until it writes, the file is full and xmrig has nothing to save,
  and afterwards what xmrig saves is the POST's own. That no script comes between
  rests on `Renamed`: with `.firstboot_done` it has nothing left to do. Without
  "settled" it is false, which is the finding of `rig_post`.
* **`Installer_proofs`**: `TypeCorrect`, `NothingChosenIsLost` and `CompleteWhenDone`,
  from `InstallerInv`: `Choices` says that the agent does not answer between the stop
  of the services and their start, and that from the backup on every choice is
  in a backup (so that the functions after it may do to the files what they
  will); `Progress` says what each function finds done by those before it, and
  nothing after a failure, when the script starts over. `PreservedHolds`, with
  backups on, adds `Travels`: where the rig's identity and pool are at each function,
  from the files into what was read and back, and that only a POST parts the two.

Every invariant, action property and refinement that a passing run checks is a
theorem. Only model-checked is liveness under fairness, which is beyond the prover
(it would have to reason about `ENABLED`). Of most of these properties what is left
without time is proved, which leaves the fairness of the steps it names:

| Only model-checked | Proved of it |
|---|---|
| `JobIsServed` | `NothingLost`: the newest request is never dropped |
| `ShutdownEnds` | - |
| `WantedIsMining` | `WantedMinesOrWaitsHolds` |
| `ThreadsMine` | `LiveUntilStopHolds` |
| `JoinReturns` | `JoinFindsThemHolds` |
| `EndsServed` | `NeverStrandedHolds` |
| `UserMines` | `EachItsTurnHolds`, `TimerFitsHolds`: outside a round it is the user's, and a round has its timer |
| `RunsTheFile` | `StaleAwaitsRestartHolds` |
| `PostInForce` | `AnsweredStaysHolds` |
| `FirstbootCompletes`, `FirstbootEnds` | `DoneRenamed`, `MarkedIsNamedHolds`: what their end means |
| `RepeatedEnds` | `CompleteWhenDone`: what its end means |

The definitions in the second column that no run checks as an invariant
(`WantedMinesOrWaits`, `LiveUntilStop`, `JoinFindsThemGoing`, `StaleAwaitsRestart`,
`AnsweredStays`, `AskedForJob`) stand in the proof modules, next to their theorems.

## 6. Not modelled

Hash functions, vendored code, the GPU backends (the installer builds without
them), NUMA and MSR, the benchmark mode, and everything that is input, output or
wording: parsing of options, logging, sensors, HTTP transport. Within the
modelled parts: GhostRider's helper threads, the self test, `Workers::tick`; the
parsing of jobs and messages, TLS, Socks5 and the other protocols of the clients;
what becomes of a client whose open socket was overwritten; the skip of a seed that
`RxCache` has already, whatever the parameters (`RxCache.cpp:58`); the result bundles of
the GPU backends; a source disk that changes under the copy and the boot loader
of a clone; the partial write of a file by a process that
is killed (a file is truncated, whole, or a mixture of two writers); two
installers at once (the script asks for root and a person).

The hash functions, the vendored code and the GPU kernels are most of the lines
of the repository: straight-line numeric code, in which there is no state,
order or failure for a model checker to look into.

## 7. Plan

Done: the queue and its service, the nonces, the miner, the threads, the pool
strategies and their service, the network with its donation rounds, the rig, the
installer, the clones; the proofs above, of all safety properties.

Left, in this order:

1. Proofs of what the exceptions of the liveness properties allow: that a thread
   superseded by the next seed is let go by the next stop (`ThreadsMine`), and that a
   first boot fails only for a configuration cut in two (`FirstbootCompletes`).
2. `Reload`: `Base::reload`, the PUT of the HTTP API, the watcher and the listeners
   in their order.
3. `Hashrate`: the ring buffer against a reference definition.

## 8. Running

    tlc -workers 2 -config RxQueue.cfg RxQueue.tla
    tlapm RxQueue_proofs.tla

The other runs are in `PROJECT.json`: each names its module and configuration.
