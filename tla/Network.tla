------------------------------ MODULE Network ------------------------------
(***************************************************************************)
(* Network between the user's pools, the donation rounds and the miner:    *)
(* Network.cpp, DonateStrategy.cpp and the queue of JobResults.cpp.        *)
(*                                                                         *)
(* The two pool strategies are services as PoolService describes them      *)
(* (Strategy implements it): the user's is always trying; the developer's  *)
(* is asked to connect for a round and stopped after it, and a login of    *)
(* before may still come in after the stop.  A round may use the user's    *)
(* pool as a proxy, through a client of its own.                           *)
(*                                                                         *)
(* Every login is a session with a number of its own (the rpc id); a job   *)
(* carries the session it came in, and a share the session of its job.     *)
(***************************************************************************)
EXTENDS Naturals, Sequences

CONSTANTS
    MaxSessions,    \* bound: logins of all pools
    MaxJobs,        \* bound: jobs of the user's pools
    MaxShares       \* bound: shares that wait in JobResults

ASSUME BoundsAssumption == MaxSessions \in Nat /\ MaxJobs \in Nat /\ MaxShares \in Nat

VARIABLES
    single,         \* is the user's strategy a SinglePoolStrategy?
    proxyDonate,    \* the option donate-over-proxy: "none", "auto", "always"
    userSession,    \* the session of the user's strategy, 0: not active
    userJob,        \* its newest job
    orphaned,       \* history: a reload stopped a single pool that was in use
    state,          \* DonateStrategy::m_state
    timer,          \* its timer is armed
    trying, serving, late,  \* its m_strategy (PoolService)
    donateSession,  \* the session of m_strategy
    redial,         \* the client in use of m_strategy was asked to connect anew
    proxy,          \* m_proxy: "none", "trying", "on"
    failures,       \* its failures, up to 3
    proxySession,
    active, job,    \* the miner: is it active, and its job
    shares,         \* JobResults: shares found and not yet sent
    sessions        \* how many logins there were

userVars  == <<userSession, userJob, orphaned>>
roundVars == <<state, timer>>
poolVars  == <<trying, serving, late, donateSession, redial>>
proxyVars == <<proxy, failures, proxySession>>
minerVars == <<active, job>>
options   == <<single, proxyDonate>>
vars == <<options, userVars, roundVars, poolVars, proxyVars, minerVars, shares, sessions>>

Donation == INSTANCE PoolService

\* The jobs of a donation session are not told apart.
Job(index, session, n) == [index |-> index, session |-> session, n |-> n]
Jobs == [index : {0, 1}, session : 0..MaxSessions, n : 0..MaxJobs]
NoJob == Job(0, 0, 0)

TypeOK ==
    /\ single \in BOOLEAN /\ proxyDonate \in {"none", "auto", "always"}
    /\ userSession \in 0..sessions /\ userJob \in 0..MaxJobs /\ orphaned \in BOOLEAN
    /\ state \in {"IDLE", "CONNECT", "ACTIVE", "WAIT"} /\ timer \in BOOLEAN
    /\ trying \in BOOLEAN /\ serving \in BOOLEAN /\ late \in BOOLEAN
    /\ donateSession \in 0..sessions /\ (donateSession # 0 <=> serving)
    /\ redial \in BOOLEAN /\ (redial => serving)
    /\ proxy \in {"none", "trying", "on"} /\ failures \in 0..3
    /\ proxySession \in 0..sessions /\ (proxySession # 0 <=> proxy = "on")
    /\ active \in BOOLEAN /\ job \in Jobs
    /\ shares \in Seq(Jobs) /\ Len(shares) <= MaxShares
    /\ sessions \in 0..MaxSessions

Init ==
    /\ single \in BOOLEAN /\ proxyDonate \in {"none", "auto", "always"}
    /\ userSession = 0 /\ userJob = 0 /\ orphaned = FALSE
    /\ state = "IDLE" /\ timer = TRUE
    /\ trying = FALSE /\ serving = FALSE /\ late = FALSE /\ donateSession = 0
    /\ redial = FALSE
    /\ proxy = "none" /\ failures = 0 /\ proxySession = 0
    /\ active = FALSE /\ job = NoJob
    /\ shares = << >> /\ sessions = 0

----------------------------------------------------------------------------
(* What the handlers have in common *)

\* A login is a new session.
Login == sessions < MaxSessions /\ sessions' = sessions + 1

\* Miner::setJob and Miner::pause
SetJob(j) == active' = TRUE /\ job' = j
PauseMiner == active' = FALSE /\ UNCHANGED job

\* Mistake: a donation round does not keep the user's jobs from the miner.
UserGetsAlways(session, n) == SetJob(Job(0, session, n))

\* Network::onJob for the user's strategy
UserGets(session, n) ==
    \/ state = "ACTIVE" /\ UNCHANGED minerVars
    \/ state # "ACTIVE" /\ SetJob(Job(0, session, n))

\* Mistake: the end of a round only looks for a user's pool that is gone.
RoundEndsPauses == IF userSession = 0 THEN PauseMiner ELSE UNCHANGED minerVars

\* Network::onPause for the donation: the user's strategy resumes with its
\* newest job, or nothing is left to mine for.
RoundEnds ==
    \/ userSession # 0 /\ SetJob(Job(0, userSession, userJob))
    \/ userSession = 0 /\ PauseMiner

----------------------------------------------------------------------------
(* The user's strategy *)

\* onActive, and the job of the login; the first pool takes over from another.
UserServe ==
    /\ userSession = 0 \/ ~single
    /\ Login
    /\ userJob < MaxJobs
    /\ userSession' = sessions' /\ userJob' = userJob + 1
    /\ UserGets(sessions', userJob')
    /\ orphaned' = FALSE
    /\ UNCHANGED <<options, roundVars, poolVars, proxyVars, shares>>

\* A new job of the pool
UserJob ==
    /\ userSession # 0
    /\ userJob < MaxJobs /\ userJob' = userJob + 1
    /\ UserGets(userSession, userJob')
    /\ UNCHANGED <<options, userSession, orphaned, roundVars, poolVars, proxyVars, shares, sessions>>

\* Mistake: a donation round keeps the miner going.
UserLoseInRound ==
    /\ userSession # 0
    /\ userSession' = 0
    /\ IF state = "IDLE" THEN PauseMiner ELSE UNCHANGED minerVars
    /\ UNCHANGED <<options, userJob, orphaned, roundVars, poolVars, proxyVars, shares, sessions>>

\* onPause: the last pool is gone, and the miner pauses, a round or not.
UserLose ==
    /\ userSession # 0
    /\ userSession' = 0
    /\ PauseMiner
    /\ UNCHANGED <<options, userJob, orphaned, roundVars, poolVars, proxyVars, shares, sessions>>

\* Network::onConfigChanged with other pools: the strategy is stopped, deleted
\* and made anew.  Several pools tell the stop (onPause); a single one would
\* tell it when its socket is closed, and is deleted before.
OnConfigChanged ==
    /\ userSession' = 0
    /\ single' \in BOOLEAN
    /\ \/ single /\ orphaned' = (orphaned \/ userSession # 0) /\ UNCHANGED minerVars
       \/ ~single /\ PauseMiner /\ UNCHANGED orphaned
    /\ UNCHANGED <<proxyDonate, userJob, roundVars, poolVars, proxyVars, shares, sessions>>

----------------------------------------------------------------------------
(* The donation rounds *)

\* DonateStrategy::onActive, onLoginSuccess: the state becomes active, if it
\* is not, and the job of the login follows.
Active(session) ==
    /\ state' = "ACTIVE" /\ timer' = TRUE
    /\ SetJob(Job(1, session, 0))

\* The developer's pools log in, be it for a round or late, or the first of
\* them takes over.
DonateServe ==
    /\ Donation!Serve \/ (serving /\ UNCHANGED <<trying, serving, late>>)
    /\ Login
    /\ donateSession' = sessions' /\ redial' = FALSE
    /\ Active(sessions')
    /\ UNCHANGED <<options, userVars, proxyVars, shares>>

\* The client that was asked to connect anew logs in again.  FailoverStrategy
\* tells nothing, the client being the one in use, and after the round the job
\* of the login is dropped.  (In a round, or with a single pool, DonateServe.)
Redialled ==
    /\ redial /\ state # "ACTIVE"
    /\ Login
    /\ donateSession' = sessions' /\ redial' = FALSE
    /\ UNCHANGED <<options, userVars, roundVars, trying, serving, late, proxyVars, minerVars, shares>>

\* A new job of the developer's pools, forwarded in a round only
DonateJob ==
    /\ donateSession # 0 /\ state = "ACTIVE"
    /\ SetJob(Job(1, donateSession, 0))
    /\ UNCHANGED <<options, userVars, roundVars, poolVars, proxyVars, shares, sessions>>

\* They are lost, which DonateStrategy::onPause does not care about, or a late
\* attempt fails.
DonateLose ==
    /\ \/ Donation!Lose /\ donateSession' = 0 /\ redial' = FALSE
       \/ Donation!Expire /\ UNCHANGED <<donateSession, redial>>
    /\ UNCHANGED <<options, userVars, roundVars, proxyVars, minerVars, shares, sessions>>

ProxyServe ==
    /\ proxy = "trying"
    /\ Login
    /\ proxy' = "on" /\ failures' = 0 /\ proxySession' = sessions'
    /\ Active(sessions')
    /\ UNCHANGED <<options, userVars, poolVars, shares>>

ProxyJob ==
    /\ proxy = "on" /\ state = "ACTIVE"
    /\ SetJob(Job(1, proxySession, 0))
    /\ UNCHANGED <<options, userVars, roundVars, poolVars, proxyVars, shares, sessions>>

\* Mistake: the proxy is deleted and not forgotten.
NoProxyDangling == UNCHANGED proxy /\ failures' = 0 /\ proxySession' = 0

\* m_proxy->deleteLater(), and m_proxy is forgotten.
NoProxy == proxy' = "none" /\ failures' = 0 /\ proxySession' = 0

\* m_strategy->connect(), whatever it does already.  A client that is logged in
\* goes back to the lookup (Client::resolve): its old socket still brings jobs,
\* and takes no shares.
ConnectDonation == Donation!Connect /\ redial' = serving /\ UNCHANGED donateSession

\* DonateStrategy::onClose: at its second failure the proxy is given up, and
\* the developer's pools are asked.
ProxyFail ==
    /\ proxy # "none"
    /\ LET n == IF failures < 3 THEN failures + 1 ELSE 3
       IN  \/ /\ n = 2 /\ proxyDonate = "auto"
              /\ NoProxy
              /\ ConnectDonation
           \/ /\ ~(n = 2 /\ proxyDonate = "auto")
              /\ proxy' = "trying" /\ failures' = n /\ proxySession' = 0
              /\ UNCHANGED poolVars
    /\ UNCHANGED <<options, userVars, roundVars, minerVars, shares, sessions>>

\* onTimer while idle, createProxy: a pool that is in use and has the extension
\* may be the proxy.
StartRound ==
    /\ timer /\ state # "ACTIVE"
    /\ state' = "CONNECT" /\ timer' = FALSE
    /\ \/ /\ proxyDonate # "none" /\ userSession # 0
          /\ proxy' = "trying" /\ failures' = 0 /\ proxySession' = 0
          /\ UNCHANGED poolVars
       \/ /\ ConnectDonation
          /\ UNCHANGED proxyVars
    /\ UNCHANGED <<options, userVars, minerVars, shares, sessions>>

\* Mistake: the timer of the round runs on.
EndRoundArmed ==
    /\ timer /\ state = "ACTIVE"
    /\ state' = "WAIT" /\ UNCHANGED timer
    /\ RoundEnds
    /\ UNCHANGED <<options, userVars, poolVars, proxyVars, shares, sessions>>

\* onTimer in a round
EndRound ==
    /\ timer /\ state = "ACTIVE"
    /\ state' = "WAIT" /\ timer' = FALSE
    /\ RoundEnds
    /\ UNCHANGED <<options, userVars, poolVars, proxyVars, shares, sessions>>

\* DonateStrategy::tick: the three seconds for the last shares are over.
WaitOver ==
    /\ state = "WAIT"
    /\ state' = "IDLE" /\ timer' = TRUE
    /\ Donation!Stop /\ serving' = FALSE /\ donateSession' = 0 /\ redial' = FALSE
    /\ late' => trying \/ late
    /\ NoProxy
    /\ UNCHANGED <<options, userVars, minerVars, shares, sessions>>

----------------------------------------------------------------------------
(* The shares *)

\* A thread finds a share of the job it works on.
Found ==
    /\ active
    /\ Len(shares) < MaxShares
    /\ shares' = Append(shares, job)
    /\ UNCHANGED <<options, userVars, roundVars, poolVars, proxyVars, minerVars, sessions>>

\* Mistake: a share of the donation goes to its own pools, proxy or not.
RoutedPast(share) == IF share.index = 1 THEN donateSession ELSE userSession

\* Network::onJobResult, DonateStrategy::submit: the client a share goes to;
\* it takes the shares of its own session only, and none while it connects anew
\* (Client::submit).
Routed(share) ==
    IF share.index = 0 THEN userSession
    ELSE IF proxy # "none" THEN proxySession
    ELSE IF redial THEN 0 ELSE donateSession

\* JobResultsPrivate::submit
SubmitAll ==
    /\ shares # << >>
    /\ shares' = << >>
    /\ UNCHANGED <<options, userVars, roundVars, poolVars, proxyVars, minerVars, sessions>>

----------------------------------------------------------------------------

Next ==
    \/ UserServe \/ UserJob \/ UserLose \/ OnConfigChanged
    \/ DonateServe \/ Redialled \/ DonateJob \/ DonateLose
    \/ ProxyServe \/ ProxyJob \/ ProxyFail
    \/ StartRound \/ EndRound \/ WaitOver
    \/ Found \/ SubmitAll

\* The timers of the rounds expire.
Spec == Init /\ [][Next]_vars /\ WF_vars(StartRound) /\ WF_vars(EndRound) /\ WF_vars(WaitOver)

----------------------------------------------------------------------------
(* Properties *)

\* A round has the miner to itself, whatever jobs the user's pools send; outside
\* the rounds a user's pool that is in use has it, with its newest job, though
\* that came in a round and was dropped.
EachItsTurn ==
    /\ state = "ACTIVE" /\ active => job.index = 1
    /\ state # "ACTIVE" /\ userSession # 0 => active /\ job = Job(0, userSession, userJob)

\* The miner does not work for a session of the user that has ended.  The one
\* exception is a single pool that a reload replaced, until the next login.
NoDeadWork == active /\ job.index = 0 => job.session = userSession \/ orphaned

\* A share that waits goes to the session it was found for as long as that is
\* open.  The exceptions are the shares of the developer's pools that a late
\* login brought in beside a proxy: while the proxy is there they go to it, and
\* when it has failed the pools are asked to connect once more, over the open
\* session, which takes no share from then on.
Open == {userSession, donateSession, proxySession} \ {0}
CutOff(session) == session = donateSession /\ (proxy # "none" \/ redial)
SharesReachThem ==
    \A i \in 1..Len(shares) :
        shares[i].session \in Open => Routed(shares[i]) = shares[i].session \/ CutOff(shares[i].session)

\* The state never changes to itself (the assertion of setState): the timer is
\* armed while idle and in a round, and only then.
TimerFits == timer <=> state \in {"IDLE", "ACTIVE"}

\* If the user's pool stays in use, the miner comes back to it again and again,
\* however late the logins of the donation come.
UserMines == <>[](userSession # 0) => []<>(active /\ job.index = 0)
=============================================================================
