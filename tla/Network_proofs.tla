--------------------------- MODULE Network_proofs ---------------------------
(***************************************************************************)
(* The user's jobs and the donation rounds keep apart, for any number of   *)
(* logins, jobs and shares.                                                *)
(***************************************************************************)
EXTENDS Network, TLAPS

IInv == EachItsTurn /\ NoDeadWork /\ TimerFits

\* The type invariant, part by part
Flags ==
    /\ single \in BOOLEAN /\ proxyDonate \in {"none", "auto", "always"}
    /\ orphaned \in BOOLEAN
    /\ state \in {"IDLE", "CONNECT", "ACTIVE", "WAIT"} /\ timer \in BOOLEAN
    /\ trying \in BOOLEAN /\ serving \in BOOLEAN /\ late \in BOOLEAN
    /\ redial \in BOOLEAN
    /\ proxy \in {"none", "trying", "on"} /\ active \in BOOLEAN
Numbers ==
    /\ userSession \in 0..sessions /\ userJob \in 0..MaxJobs
    /\ donateSession \in 0..sessions /\ proxySession \in 0..sessions
    /\ failures \in 0..3 /\ sessions \in 0..MaxSessions
Links ==
    /\ donateSession # 0 <=> serving
    /\ redial => serving
    /\ proxySession # 0 <=> proxy = "on"
Work == job \in Jobs /\ shares \in Seq(Jobs) /\ Len(shares) <= MaxShares

LEMMA InitHolds == Init => TypeOK /\ IInv
<1> SUFFICES ASSUME Init PROVE TypeOK /\ IInv
  OBVIOUS
<1>1. Flags
  BY DEF Init, Flags
<1>2. Numbers
  BY BoundsAssumption DEF Init, Numbers
<1>3. Links
  BY DEF Init, Links
<1>4. NoJob \in Jobs
  BY BoundsAssumption DEF NoJob, Job, Jobs
<1>5. Work
  BY BoundsAssumption, <1>4 DEF Init, Work
<1>6. IInv
  BY DEF Init, IInv, EachItsTurn, NoDeadWork, TimerFits
<1> QED
  BY <1>1, <1>2, <1>3, <1>5, <1>6 DEF TypeOK, Flags, Numbers, Links, Work

\* The jobs the handlers set are jobs.
LEMMA JobIsJob ==
    ASSUME NEW index \in {0, 1}, NEW session \in 0..MaxSessions, NEW n \in 0..MaxJobs
    PROVE  Job(index, session, n) \in Jobs
BY DEF Job, Jobs

LEMMA TypeStep == TypeOK /\ [Next]_vars => TypeOK'
<1> SUFFICES ASSUME TypeOK, [Next]_vars PROVE TypeOK'
  OBVIOUS
<1>0. Flags /\ Numbers /\ Links /\ Work
  BY DEF TypeOK, Flags, Numbers, Links, Work
<1>q. Flags' /\ Numbers' /\ Links' /\ Work' => TypeOK'
  BY DEF TypeOK, Flags, Numbers, Links, Work
<1> USE DEF options, userVars, roundVars, poolVars, proxyVars, minerVars
<1>1. CASE UserServe
  <2>1. Flags'
    BY <1>0, <1>1 DEF UserServe, Login, SetJob, UserGets, Flags
  <2>2. Numbers'
    BY <1>0, <1>1, BoundsAssumption DEF UserServe, Login, SetJob, UserGets, Numbers
  <2>3. Links'
    BY <1>0, <1>1 DEF UserServe, Login, SetJob, UserGets, Flags, Numbers, Links
  <2>4. Work'
    BY <1>0, <1>1, BoundsAssumption, JobIsJob DEF UserServe, Login, SetJob, UserGets, Work, Numbers
  <2> QED
    BY <1>q, <2>1, <2>2, <2>3, <2>4
<1>2. CASE UserJob
  <2>1. Flags'
    BY <1>0, <1>2 DEF UserJob, SetJob, UserGets, Flags
  <2>2. Numbers'
    BY <1>0, <1>2, BoundsAssumption DEF UserJob, SetJob, UserGets, Numbers
  <2>3. Links'
    BY <1>0, <1>2 DEF UserJob, SetJob, UserGets, Flags, Numbers, Links
  <2>4. Work'
    BY <1>0, <1>2, BoundsAssumption, JobIsJob DEF UserJob, SetJob, UserGets, Work, Numbers
  <2> QED
    BY <1>q, <2>1, <2>2, <2>3, <2>4
<1>3. CASE UserLose
  <2>1. Flags'
    BY <1>0, <1>3 DEF UserLose, PauseMiner, Flags
  <2>2. Numbers'
    BY <1>0, <1>3, BoundsAssumption DEF UserLose, PauseMiner, Numbers
  <2>3. Links'
    BY <1>0, <1>3 DEF UserLose, PauseMiner, Flags, Numbers, Links
  <2>4. Work'
    BY <1>0, <1>3, BoundsAssumption DEF UserLose, PauseMiner, Work
  <2> QED
    BY <1>q, <2>1, <2>2, <2>3, <2>4
<1>4. CASE OnConfigChanged
  <2>1. Flags'
    BY <1>0, <1>4 DEF OnConfigChanged, PauseMiner, Flags
  <2>2. Numbers'
    BY <1>0, <1>4, BoundsAssumption DEF OnConfigChanged, PauseMiner, Numbers
  <2>3. Links'
    BY <1>0, <1>4 DEF OnConfigChanged, PauseMiner, Flags, Numbers, Links
  <2>4. Work'
    BY <1>0, <1>4, BoundsAssumption DEF OnConfigChanged, PauseMiner, Work
  <2> QED
    BY <1>q, <2>1, <2>2, <2>3, <2>4
<1>5. CASE DonateServe
  <2>1. Flags'
    BY <1>0, <1>5 DEF DonateServe, Login, Active, SetJob, Donation!Serve, Flags
  <2>2. Numbers'
    BY <1>0, <1>5, BoundsAssumption DEF DonateServe, Login, Active, SetJob, Donation!Serve, Numbers
  <2>3. Links'
    BY <1>0, <1>5 DEF DonateServe, Login, Active, SetJob, Donation!Serve, Flags, Numbers, Links
  <2>4. Work'
    BY <1>0, <1>5, BoundsAssumption, JobIsJob DEF DonateServe, Login, Active, SetJob, Donation!Serve, Work, Numbers
  <2> QED
    BY <1>q, <2>1, <2>2, <2>3, <2>4
<1>6. CASE DonateJob
  <2>1. Flags'
    BY <1>0, <1>6 DEF DonateJob, SetJob, Flags
  <2>2. Numbers'
    BY <1>0, <1>6, BoundsAssumption DEF DonateJob, SetJob, Numbers
  <2>3. Links'
    BY <1>0, <1>6 DEF DonateJob, SetJob, Flags, Numbers, Links
  <2>4. Work'
    BY <1>0, <1>6, BoundsAssumption, JobIsJob DEF DonateJob, SetJob, Work, Numbers
  <2> QED
    BY <1>q, <2>1, <2>2, <2>3, <2>4
<1>7. CASE DonateLose
  <2>0. redial' \in {FALSE, redial}
    BY <1>7 DEF DonateLose
  <2>1. Flags'
    <3>1. trying' \in BOOLEAN /\ serving' \in BOOLEAN /\ late' \in BOOLEAN
      BY <1>0, <1>7 DEF DonateLose, Donation!Lose, Donation!Expire, Flags
    <3> QED
      BY <1>0, <1>7, <2>0, <3>1 DEF DonateLose, Flags
  <2>2. Numbers'
    BY <1>0, <1>7, BoundsAssumption DEF DonateLose, Donation!Lose, Donation!Expire, Numbers
  <2>3. Links'
    BY <1>0, <1>7 DEF DonateLose, Donation!Lose, Donation!Expire, Flags, Numbers, Links
  <2>4. Work'
    BY <1>0, <1>7, BoundsAssumption DEF DonateLose, Donation!Lose, Donation!Expire, Work
  <2> QED
    BY <1>q, <2>1, <2>2, <2>3, <2>4
<1>8. CASE ProxyServe
  <2>1. Flags'
    BY <1>0, <1>8 DEF ProxyServe, Login, Active, SetJob, Flags
  <2>2. Numbers'
    BY <1>0, <1>8, BoundsAssumption DEF ProxyServe, Login, Active, SetJob, Numbers
  <2>3. Links'
    BY <1>0, <1>8 DEF ProxyServe, Login, Active, SetJob, Flags, Numbers, Links
  <2>4. Work'
    BY <1>0, <1>8, BoundsAssumption, JobIsJob DEF ProxyServe, Login, Active, SetJob, Work, Numbers
  <2> QED
    BY <1>q, <2>1, <2>2, <2>3, <2>4
<1>9. CASE ProxyJob
  <2>1. Flags'
    BY <1>0, <1>9 DEF ProxyJob, SetJob, Flags
  <2>2. Numbers'
    BY <1>0, <1>9, BoundsAssumption DEF ProxyJob, SetJob, Numbers
  <2>3. Links'
    BY <1>0, <1>9 DEF ProxyJob, SetJob, Flags, Numbers, Links
  <2>4. Work'
    BY <1>0, <1>9, BoundsAssumption, JobIsJob DEF ProxyJob, SetJob, Work, Numbers
  <2> QED
    BY <1>q, <2>1, <2>2, <2>3, <2>4
<1>10. CASE ProxyFail
  <2>1. Flags'
    BY <1>0, <1>10 DEF ProxyFail, NoProxy, ConnectDonation, Donation!Connect, Flags
  <2>2. Numbers'
    BY <1>0, <1>10, BoundsAssumption DEF ProxyFail, NoProxy, ConnectDonation, Donation!Connect, Numbers
  <2>3. Links'
    BY <1>0, <1>10 DEF ProxyFail, NoProxy, ConnectDonation, Donation!Connect, Flags, Numbers, Links
  <2>4. Work'
    BY <1>0, <1>10, BoundsAssumption DEF ProxyFail, NoProxy, ConnectDonation, Donation!Connect, Work
  <2> QED
    BY <1>q, <2>1, <2>2, <2>3, <2>4
<1>11. CASE StartRound
  <2>1. Flags'
    BY <1>0, <1>11 DEF StartRound, ConnectDonation, Donation!Connect, Flags
  <2>2. Numbers'
    BY <1>0, <1>11, BoundsAssumption DEF StartRound, ConnectDonation, Donation!Connect, Numbers
  <2>3. Links'
    BY <1>0, <1>11 DEF StartRound, ConnectDonation, Donation!Connect, Flags, Numbers, Links
  <2>4. Work'
    BY <1>0, <1>11, BoundsAssumption DEF StartRound, ConnectDonation, Donation!Connect, Work
  <2> QED
    BY <1>q, <2>1, <2>2, <2>3, <2>4
<1>12. CASE EndRound
  <2>1. Flags'
    BY <1>0, <1>12 DEF EndRound, RoundEnds, SetJob, PauseMiner, Flags
  <2>2. Numbers'
    BY <1>0, <1>12, BoundsAssumption DEF EndRound, RoundEnds, SetJob, PauseMiner, Numbers
  <2>3. Links'
    BY <1>0, <1>12 DEF EndRound, RoundEnds, SetJob, PauseMiner, Flags, Numbers, Links
  <2>4. Work'
    BY <1>0, <1>12, BoundsAssumption, JobIsJob DEF EndRound, RoundEnds, SetJob, PauseMiner, Work, Numbers
  <2> QED
    BY <1>q, <2>1, <2>2, <2>3, <2>4
<1>13. CASE WaitOver
  <2>1. Flags'
    BY <1>0, <1>13 DEF WaitOver, NoProxy, Donation!Stop, Flags
  <2>2. Numbers'
    BY <1>0, <1>13, BoundsAssumption DEF WaitOver, NoProxy, Donation!Stop, Numbers
  <2>3. Links'
    BY <1>0, <1>13 DEF WaitOver, NoProxy, Donation!Stop, Flags, Numbers, Links
  <2>4. Work'
    BY <1>0, <1>13, BoundsAssumption DEF WaitOver, NoProxy, Donation!Stop, Work
  <2> QED
    BY <1>q, <2>1, <2>2, <2>3, <2>4
<1>14. CASE Found
  <2>1. Flags'
    BY <1>0, <1>14 DEF Found, Flags
  <2>2. Numbers'
    BY <1>0, <1>14, BoundsAssumption DEF Found, Numbers
  <2>3. Links'
    BY <1>0, <1>14 DEF Found, Flags, Numbers, Links
  <2>4. Work'
    BY <1>0, <1>14, BoundsAssumption DEF Found, Work, Numbers
  <2> QED
    BY <1>q, <2>1, <2>2, <2>3, <2>4
<1>15. CASE SubmitAll
  <2>1. Flags'
    BY <1>0, <1>15 DEF SubmitAll, Flags
  <2>2. Numbers'
    BY <1>0, <1>15, BoundsAssumption DEF SubmitAll, Numbers
  <2>3. Links'
    BY <1>0, <1>15 DEF SubmitAll, Flags, Numbers, Links
  <2>4. Work'
    BY <1>0, <1>15, BoundsAssumption DEF SubmitAll, Work
  <2> QED
    BY <1>q, <2>1, <2>2, <2>3, <2>4
<1>16. CASE Redialled
  <2>1. Flags'
    BY <1>0, <1>16 DEF Redialled, Login, Flags
  <2>2. Numbers'
    BY <1>0, <1>16, BoundsAssumption DEF Redialled, Login, Numbers
  <2>3. Links'
    BY <1>0, <1>16 DEF Redialled, Login, Numbers, Links
  <2>4. Work'
    BY <1>0, <1>16, BoundsAssumption DEF Redialled, Work
  <2> QED
    BY <1>q, <2>1, <2>2, <2>3, <2>4
<1>17. CASE UNCHANGED vars
  BY <1>17 DEF vars, TypeOK
<1> QED
  BY <1>1, <1>2, <1>3, <1>4, <1>5, <1>6, <1>7, <1>8, <1>9, <1>10, <1>11, <1>12, <1>13,
     <1>14, <1>15, <1>16, <1>17 DEF Next

\* Each step leaves the miner to whom it belongs.
LEMMA InvStep == TypeOK /\ IInv /\ [Next]_vars => IInv'
<1> SUFFICES ASSUME TypeOK, IInv, [Next]_vars PROVE IInv'
  OBVIOUS
<1> USE DEF TypeOK, IInv, EachItsTurn, NoDeadWork, TimerFits, SetJob, PauseMiner, Job
<1>1. CASE UserServe
  BY <1>1 DEF UserServe, Login, UserGets, roundVars, minerVars
<1>2. CASE UserJob
  BY <1>2 DEF UserJob, UserGets, roundVars, minerVars
<1>3. CASE UserLose
  BY <1>3 DEF UserLose, roundVars
<1>4. CASE OnConfigChanged
  BY <1>4 DEF OnConfigChanged, roundVars, minerVars
<1>5. CASE DonateServe
  BY <1>5 DEF DonateServe, Active, userVars
<1>6. CASE DonateJob
  BY <1>6 DEF DonateJob, userVars, roundVars
<1>7. CASE DonateLose
  BY <1>7 DEF DonateLose, userVars, roundVars, minerVars
<1>8. CASE ProxyServe
  BY <1>8 DEF ProxyServe, Active, userVars
<1>9. CASE ProxyJob
  BY <1>9 DEF ProxyJob, userVars, roundVars
<1>10. CASE ProxyFail
  BY <1>10 DEF ProxyFail, userVars, roundVars, minerVars
<1>11. CASE StartRound
  BY <1>11 DEF StartRound, userVars, minerVars
<1>12. CASE EndRound
  BY <1>12 DEF EndRound, RoundEnds, userVars
<1>13. CASE WaitOver
  BY <1>13 DEF WaitOver, userVars, minerVars
<1>14. CASE Found
  BY <1>14 DEF Found, userVars, roundVars, minerVars
<1>15. CASE SubmitAll
  BY <1>15 DEF SubmitAll, userVars, roundVars, minerVars
<1>16. CASE Redialled
  BY <1>16 DEF Redialled, userVars, roundVars, minerVars
<1>17. CASE UNCHANGED vars
  BY <1>17 DEF vars, userVars, roundVars, minerVars
<1> QED
  BY <1>1, <1>2, <1>3, <1>4, <1>5, <1>6, <1>7, <1>8, <1>9, <1>10, <1>11, <1>12, <1>13,
     <1>14, <1>15, <1>16, <1>17 DEF Next

\* The variables keep their types: a session is known exactly while its pool
\* serves (DonateStrategy, IStrategy).
THEOREM TypeCorrect == Spec => []TypeOK
BY InitHolds, TypeStep, PTL DEF Spec

LEMMA IInvHolds == Spec => []IInv
<1>1. TypeOK /\ IInv /\ [Next]_vars => TypeOK' /\ IInv'
  BY TypeStep, InvStep
<1> QED
  BY InitHolds, <1>1, PTL DEF Spec

\* A round has the miner to itself, and outside the rounds the user's pool in
\* use has it with its newest job (Network::onJob, onPause).
THEOREM EachItsTurnHolds == Spec => []EachItsTurn
<1>1. IInv => EachItsTurn
  BY DEF IInv
<1> QED
  BY IInvHolds, <1>1, PTL

\* The miner does not work for an ended session of the user, but for a single
\* pool that a reload replaced (Network::onPause, onConfigChanged).
THEOREM NoDeadWorkHolds == Spec => []NoDeadWork
<1>1. IInv => NoDeadWork
  BY DEF IInv
<1> QED
  BY IInvHolds, <1>1, PTL

\* The timer of the rounds is armed while idle and in a round, and only then
\* (DonateStrategy::setState).
THEOREM TimerFitsHolds == Spec => []TimerFits
<1>1. IInv => TimerFits
  BY DEF IInv
<1> QED
  BY IInvHolds, <1>1, PTL

----------------------------------------------------------------------------
(* The sessions of the shares *)

\* A job or a share is not taken for one of the other side: the user's is of
\* no open session of the donation, and the other way round.
Belongs(j) ==
    /\ j.session <= sessions
    /\ j.index = 0 => j.session \notin {donateSession, proxySession} \ {0}
    /\ j.index = 1 => j.session # userSession \/ userSession = 0

\* Two open sessions are never the same.
Apart ==
    /\ userSession \in {donateSession, proxySession} => userSession = 0
    /\ donateSession = proxySession => donateSession = 0

SharesInv ==
    /\ Apart
    /\ Belongs(job)
    /\ \A i \in 1..Len(shares) : Belongs(shares[i])

\* A step that opens no session but a new one keeps what belongs to it apart.
LEMMA StillBelongs ==
    ASSUME TypeOK, NEW j \in Jobs, Belongs(j), sessions' \in Nat, sessions <= sessions',
           userSession' \in {0, userSession} \/ userSession' > sessions,
           donateSession' \in {0, donateSession} \/ donateSession' > sessions,
           proxySession' \in {0, proxySession} \/ proxySession' > sessions
    PROVE  /\ j.session <= sessions'
           /\ j.index = 0 => j.session \notin {donateSession', proxySession'} \ {0}
           /\ j.index = 1 => j.session # userSession' \/ userSession' = 0
<1>1. j.session \in Nat /\ sessions \in Nat
  BY BoundsAssumption DEF TypeOK, Jobs
<1>2. userSession \in Nat /\ donateSession \in Nat /\ proxySession \in Nat
  BY DEF TypeOK
<1> QED
  BY <1>1, <1>2 DEF Belongs

\* Sessions open and close one at a time, each with a number of its own.
LEMMA SessionStep ==
    ASSUME TypeOK, Apart, [Next]_vars
    PROVE  /\ Apart'
           /\ sessions' \in Nat /\ sessions <= sessions'
           /\ userSession' \in {0, userSession} \/ userSession' > sessions
           /\ donateSession' \in {0, donateSession} \/ donateSession' > sessions
           /\ proxySession' \in {0, proxySession} \/ proxySession' > sessions
<1>0. /\ sessions \in Nat /\ userSession \in 0..sessions
      /\ donateSession \in 0..sessions /\ proxySession \in 0..sessions
  BY BoundsAssumption DEF TypeOK
<1> USE DEF options, userVars, roundVars, poolVars, proxyVars, minerVars
<1>1. CASE UserServe
  BY <1>0, <1>1 DEF UserServe, Login, Apart
<1>2. CASE UserJob \/ UserLose \/ OnConfigChanged
  BY <1>0, <1>2 DEF UserJob, UserLose, OnConfigChanged, Apart
<1>3. CASE DonateServe \/ Redialled
  BY <1>0, <1>3 DEF DonateServe, Redialled, Login, Apart
<1>4. CASE DonateJob \/ ProxyJob
  BY <1>0, <1>4 DEF DonateJob, ProxyJob, Apart
<1>5. CASE DonateLose
  BY <1>0, <1>5 DEF DonateLose, Donation!Lose, Donation!Expire, Apart
<1>6. CASE ProxyServe
  BY <1>0, <1>6 DEF ProxyServe, Login, Apart
<1>7. CASE ProxyFail
  BY <1>0, <1>7 DEF ProxyFail, NoProxy, ConnectDonation, Donation!Connect, Apart
<1>8. CASE StartRound
  BY <1>0, <1>8 DEF StartRound, ConnectDonation, Donation!Connect, Apart
<1>9. CASE EndRound \/ Found \/ SubmitAll
  BY <1>0, <1>9 DEF EndRound, Found, SubmitAll, Apart
<1>10. CASE WaitOver
  BY <1>0, <1>10 DEF WaitOver, NoProxy, Donation!Stop, Apart
<1>11. CASE UNCHANGED vars
  BY <1>0, <1>11 DEF vars, Apart
<1> QED
  BY <1>1, <1>2, <1>3, <1>4, <1>5, <1>6, <1>7, <1>8, <1>9, <1>10, <1>11 DEF Next

\* The miner keeps its job or takes one of a session that is open now.
LEMMA JobStep ==
    ASSUME TypeOK, [Next]_vars
    PROVE  \/ job' = job
           \/ job'.index = 0 /\ job'.session = userSession' /\ userSession' # 0
           \/ job'.index = 1 /\ job'.session \in {donateSession', proxySession'} \ {0}
<1>0. sessions \in Nat
  BY DEF TypeOK
<1> USE DEF userVars, poolVars, proxyVars, minerVars, SetJob, PauseMiner, Job
<1>1. CASE UserServe \/ UserJob
  BY <1>0, <1>1 DEF UserServe, UserJob, UserGets, Login
<1>2. CASE UserLose \/ OnConfigChanged
  BY <1>2 DEF UserLose, OnConfigChanged
<1>3. CASE DonateServe \/ ProxyServe
  BY <1>0, <1>3 DEF DonateServe, ProxyServe, Active, Login
<1>4. CASE DonateJob \/ ProxyJob
  BY <1>4 DEF DonateJob, ProxyJob, TypeOK
<1>5. CASE DonateLose \/ ProxyFail \/ StartRound \/ WaitOver
  BY <1>5 DEF DonateLose, ProxyFail, StartRound, WaitOver
<1>6. CASE EndRound
  BY <1>6 DEF EndRound, RoundEnds
<1>7. CASE Redialled \/ Found \/ SubmitAll \/ UNCHANGED vars
  BY <1>7 DEF Redialled, Found, SubmitAll, vars
<1> QED
  BY <1>1, <1>2, <1>3, <1>4, <1>5, <1>6, <1>7 DEF Next

LEMMA SharesStep == TypeOK /\ SharesInv /\ [Next]_vars => SharesInv'
<1> SUFFICES ASSUME TypeOK, SharesInv, [Next]_vars PROVE SharesInv'
  OBVIOUS
<1>1. TypeOK'
  BY TypeStep
<1>2. /\ Apart'
      /\ sessions' \in Nat /\ sessions <= sessions'
      /\ userSession' \in {0, userSession} \/ userSession' > sessions
      /\ donateSession' \in {0, donateSession} \/ donateSession' > sessions
      /\ proxySession' \in {0, proxySession} \/ proxySession' > sessions
  BY SessionStep DEF SharesInv
<1>3. ASSUME NEW j \in Jobs, Belongs(j)
      PROVE  /\ j.session <= sessions'
             /\ j.index = 0 => j.session \notin {donateSession', proxySession'} \ {0}
             /\ j.index = 1 => j.session # userSession' \/ userSession' = 0
  BY <1>2, <1>3, StillBelongs
<1>4. Belongs(job)'
  <2>1. job \in Jobs /\ Belongs(job)
    BY DEF TypeOK, SharesInv
  <2>2. CASE job' = job
    BY <1>3, <2>1, <2>2 DEF Belongs
  <2>3. CASE job'.index = 0 /\ job'.session = userSession' /\ userSession' # 0
    BY <1>1, <1>2, <2>3 DEF Belongs, Apart, TypeOK
  <2>4. CASE job'.index = 1 /\ job'.session \in {donateSession', proxySession'} \ {0}
    BY <1>1, <1>2, <2>4 DEF Belongs, Apart, TypeOK
  <2> QED
    BY <2>2, <2>3, <2>4, JobStep
<1>5. ASSUME NEW i \in 1..Len(shares') PROVE Belongs(shares[i])'
  <2>1. shares' \in {shares, << >>} \/ (shares' = Append(shares, job) /\ Found)
    BY DEF Next, vars, UserServe, UserJob, UserLose, OnConfigChanged, DonateServe, DonateJob, DonateLose,
           Redialled, ProxyServe, ProxyJob, ProxyFail, StartRound, EndRound, WaitOver, Found, SubmitAll
  <2>2. shares \in Seq(Jobs) /\ job \in Jobs
    BY DEF TypeOK
  <2>3. ASSUME NEW k \in 1..Len(shares) PROVE shares[k] \in Jobs /\ Belongs(shares[k])
    BY <2>2 DEF SharesInv
  <2>4. shares'[i] \in Jobs /\ Belongs(shares'[i])
    <3>1. CASE shares' \in {shares, << >>}
      BY <2>3, <3>1, <1>5
    <3>2. CASE shares' = Append(shares, job)
      <4>1. (i \in 1..Len(shares) /\ shares'[i] = shares[i]) \/ shares'[i] = job
        BY <2>2, <3>2
      <4> QED
        BY <2>2, <2>3, <4>1 DEF SharesInv
    <3> QED
      BY <2>1, <3>1, <3>2
  <2> QED
    BY <1>3, <2>4 DEF Belongs
<1> QED
  BY <1>2, <1>4, <1>5 DEF SharesInv

\* A share goes to the session it was found for while that is open, but for the
\* shares of the developer's pools while a proxy is beside them, or after it
\* when they are asked to connect anew (Network::onJobResult,
\* DonateStrategy::submit, onClose).
THEOREM SharesReachThemHolds == Spec => []SharesReachThem
<1>1. Init => SharesInv
  BY DEF Init, SharesInv, Apart, Belongs, NoJob, Job
<1>2. TypeOK /\ SharesInv => SharesReachThem
  <2> SUFFICES ASSUME TypeOK, SharesInv, NEW i \in 1..Len(shares), shares[i].session \in Open
               PROVE  Routed(shares[i]) = shares[i].session \/ CutOff(shares[i].session)
    BY DEF SharesReachThem
  <2>0. shares \in Seq(Jobs)
    BY DEF TypeOK
  <2>1. shares[i].index \in {0, 1} /\ Belongs(shares[i])
    <3>1. shares[i] \in Jobs
      BY <2>0
    <3> QED
      BY <3>1 DEF SharesInv, Jobs
  <2>2. CASE shares[i].index = 0
    BY <2>1, <2>2 DEF Belongs, Open, Routed
  <2>3. CASE shares[i].index = 1
    BY <2>1, <2>3 DEF Belongs, Open, Routed, CutOff, TypeOK
  <2> QED
    BY <2>1, <2>2, <2>3
<1>3. TypeOK /\ SharesInv /\ [Next]_vars => TypeOK' /\ SharesInv'
  BY TypeStep, SharesStep
<1> QED
  BY InitHolds, <1>1, <1>2, <1>3, PTL DEF Spec

----------------------------------------------------------------------------
(* The developer's pools *)

LEMMA DonationStep == [Next]_vars => [Donation!Next]_Donation!vars
<1> SUFFICES ASSUME [Next]_vars PROVE [Donation!Next]_Donation!vars
  OBVIOUS
<1>1. CASE UNCHANGED poolVars
  BY <1>1 DEF poolVars, Donation!vars
<1>2. CASE DonateServe
  BY <1>2 DEF DonateServe, Donation!Next, Donation!vars
<1>3. CASE DonateLose
  BY <1>3 DEF DonateLose, Donation!Next
<1>4. CASE ConnectDonation
  BY <1>4 DEF ConnectDonation, Donation!Next
<1>5. CASE WaitOver
  BY <1>5 DEF WaitOver, Donation!Next
<1>6. CASE ProxyFail \/ StartRound
  BY <1>1, <1>4, <1>6 DEF ProxyFail, StartRound
<1>7. CASE Redialled
  BY <1>7 DEF Redialled, Donation!vars
<1> QED
  BY <1>1, <1>2, <1>3, <1>5, <1>6, <1>7 DEF Next, vars, UserServe, UserJob, UserLose, OnConfigChanged,
     DonateJob, ProxyServe, ProxyJob, EndRound, Found, SubmitAll

\* The network expects of the developer's pools only what PoolService allows,
\* which every strategy keeps (Strategy_proofs), though it asks a strategy to
\* connect that a late login revived, or that serves (DonateStrategy::onClose):
\* its sessions come from a pool that was asked, or from the one attempt that a
\* stop left under way.
THEOREM UsesPoolService == Spec => Donation!Spec
<1>1. Init => Donation!Init
  BY DEF Init, Donation!Init
<1> QED
  BY <1>1, DonationStep, PTL DEF Spec, Donation!Spec
=============================================================================
