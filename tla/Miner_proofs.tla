---------------------------- MODULE Miner_proofs ----------------------------
(***************************************************************************)
(* Proofs about Miner, for any jobs, configurations and number of calls:   *)
(*   - auto_pause counts the conditions that hold, and the miner is never  *)
(*     enabled on battery;                                                 *)
(*   - a donation round leaves the nonces of the user's job alone;         *)
(*   - no job, round or late callback resumes a paused miner: the causes   *)
(*     that let go of a pause, or enable the miner, are listed;            *)
(*   - a miner that is wanted mines or waits for its dataset, unless it    *)
(*     was stopped, its counter ended or the memory cannot be had.         *)
(***************************************************************************)
EXTENDS Miner, TLAPS

----------------------------------------------------------------------------
(* The conditions that pause the miner *)

FlagTypes ==
    /\ battery_power \in BOOLEAN /\ user_active \in BOOLEAN
    /\ auto_pause \in Int

\* Only the timer touches the flags and their count.
LEMMA FlagsStep ==
    ASSUME FlagTypes, FlagsCounted, [Next]_vars
    PROVE  FlagTypes' /\ FlagsCounted'
<1> USE DEF FlagTypes, FlagsCounted
<1>1. ASSUME UNCHANGED <<battery_power, user_active, auto_pause>>
      PROVE  FlagTypes' /\ FlagsCounted'
  BY <1>1
<1>2. CASE Timer
  <2>1. PICK onBattery \in BOOLEAN, present \in BOOLEAN : OnTimer(onBattery, present)
    BY <1>2 DEF Timer
  <2> DEFINE tb == Toggled(config.pauseOnBattery, battery_power, onBattery)
             tu == Toggled(config.pauseOnActive, user_active, present)
             n1 == Counted(auto_pause, tb, onBattery)
  <2>2. /\ battery_power' = (IF tb THEN onBattery ELSE battery_power)
        /\ user_active' = (IF tu THEN present ELSE user_active)
        /\ auto_pause' = Counted(n1, tu, present)
    BY <2>1 DEF OnTimer
  <2>3. /\ n1 \in Int
        /\ n1 = (IF battery_power' THEN 1 ELSE 0) + (IF user_active THEN 1 ELSE 0)
    BY <2>2 DEF Counted, Toggled
  <2>4. /\ auto_pause' \in Int
        /\ auto_pause' = (IF battery_power' THEN 1 ELSE 0) + (IF user_active' THEN 1 ELSE 0)
    BY <2>2, <2>3 DEF Counted, Toggled
  <2>5. battery_power' \in BOOLEAN /\ user_active' \in BOOLEAN
    BY <2>2
  <2> QED
    BY <2>4, <2>5
<1>3. CASE UNCHANGED vars
  BY <1>1, <1>3 DEF vars, minerVars
<1>4. CASE \E j \in UserJobs : UserJob(j)
  BY <1>1, <1>4 DEF UserJob
<1>5. CASE \E j \in DonateJobs : DonateJob(j)
  BY <1>1, <1>5 DEF DonateJob
<1>6. CASE DonateEnd \/ PoolLost
  BY <1>1, <1>6 DEF DonateEnd, PoolLost
<1>7. CASE (\E e \in BOOLEAN : SetEnabled(e)) \/ Stop \/ (\E c \in ConfigChanges : OnConfigChanged(c))
  BY <1>1, <1>7 DEF SetEnabled, Stop, OnConfigChanged, minerVars
<1>8. CASE DatasetDone \/ DatasetFails \/ OnDatasetReady \/ Mine \/ EndPause
  BY <1>1, <1>8 DEF DatasetDone, DatasetFails, OnDatasetReady, Mine, EndPause, minerVars
<1> QED
  BY <1>2, <1>3, <1>4, <1>5, <1>6, <1>7, <1>8 DEF Next

\* auto_pause is the number of conditions (on battery, user active) that hold,
\* however they come and go and whatever is reloaded meanwhile: the autoPause
\* lambda of Miner::onTimer never loses count.
THEOREM CountHolds == Spec => []FlagsCounted
<1>1. Init => FlagTypes /\ FlagsCounted
  <2>1. Init => battery_power \in BOOLEAN /\ user_active \in BOOLEAN
    BY Zenon DEF Init
  <2>2. Init => ~battery_power /\ ~user_active /\ auto_pause = 0
    BY Zenon DEF Init
  <2>3. Init => FlagsCounted
    BY <2>2 DEF FlagsCounted
  <2> QED
    BY <2>1, <2>2, <2>3 DEF FlagTypes
<1>2. (FlagTypes /\ FlagsCounted) /\ [Next]_vars => (FlagTypes /\ FlagsCounted)'
  BY FlagsStep
<1> QED
  BY <1>1, <1>2, PTL DEF Spec

\* Reloads that leave pause-on-battery as it is: with the option switched off
\* on battery and on again, the miner may have been enabled meanwhile.
OptionStays == \A c \in ConfigChanges : c.pauseOnBattery = InitialConfig.pauseOnBattery

BatteryInv ==
    /\ FlagTypes /\ FlagsCounted /\ BatteryHeld
    /\ enabled \in BOOLEAN /\ config \in Configs
    /\ config.pauseOnBattery = InitialConfig.pauseOnBattery

\* The timer enables the miner when no condition is left, or not at all.
LEMMA TimerKeepsBattery ==
    ASSUME BatteryInv, Timer
    PROVE  BatteryHeld' /\ enabled' \in BOOLEAN /\ config' = config
<1> PICK onBattery \in BOOLEAN, present \in BOOLEAN : OnTimer(onBattery, present)
  BY DEF Timer
<1> DEFINE tb == Toggled(config.pauseOnBattery, battery_power, onBattery)
           tu == Toggled(config.pauseOnActive, user_active, present)
           battery == IF tb THEN onBattery ELSE battery_power
           n1 == Counted(auto_pause, tb, onBattery)
           n2 == Counted(n1, tu, present)
           e1 == Enables(enabled, tb, n1, battery)
           e2 == Enables(e1, tu, n2, battery)
<1>1. battery_power' = battery /\ enabled' = e2 /\ config' = config
  BY DEF OnTimer, Timer
<1>2. /\ enabled \in BOOLEAN /\ battery_power \in BOOLEAN /\ user_active \in BOOLEAN
      /\ auto_pause \in Int /\ auto_pause >= 0
  BY DEF BatteryInv, FlagTypes, FlagsCounted
<1>3. e1 \in BOOLEAN /\ (e1 /\ config.pauseOnBattery => ~battery)
  <2>1. CASE tb
    <3>1. onBattery => n1 # 0
      BY <1>2, <2>1 DEF Counted
    <3> QED
      BY <1>2, <2>1, <3>1 DEF Enables
  <2>2. CASE ~tb
    BY <1>2, <2>2 DEF Enables, BatteryInv, BatteryHeld
  <2> QED
    BY <2>1, <2>2
<1>4. e2 \in BOOLEAN /\ (e2 /\ config.pauseOnBattery => ~battery)
  BY <1>3 DEF Enables
<1> QED
  BY <1>1, <1>4 DEF BatteryHeld

LEMMA BatteryStep == OptionStays /\ BatteryInv /\ [Next]_vars => BatteryInv'
<1> SUFFICES ASSUME OptionStays, BatteryInv, [Next]_vars PROVE BatteryInv'
  OBVIOUS
<1>1. FlagTypes' /\ FlagsCounted'
  BY FlagsStep DEF BatteryInv
<1> DEFINE Kept == /\ BatteryHeld' /\ enabled' \in BOOLEAN /\ config' \in Configs
                   /\ config'.pauseOnBattery = InitialConfig.pauseOnBattery
<1>2. ASSUME UNCHANGED <<enabled, battery_power, config>> PROVE Kept
  BY <1>2 DEF BatteryInv, BatteryHeld
<1>3. ASSUME Timer PROVE Kept
  BY <1>3, TimerKeepsBattery DEF BatteryInv
<1>4. ASSUME NEW e \in BOOLEAN, SetEnabled(e) PROVE Kept
  BY <1>4 DEF SetEnabled, SetEnabledFrom, Refused, BatteryInv, BatteryHeld
<1>5. ASSUME NEW c \in ConfigChanges, OnConfigChanged(c) PROVE Kept
  BY <1>5, ConfigAssumption DEF OnConfigChanged, minerVars, OptionStays, BatteryInv, BatteryHeld
<1>6. ASSUME (\E j \in UserJobs : UserJob(j)) \/ (\E j \in DonateJobs : DonateJob(j)) PROVE Kept
  BY <1>2, <1>6 DEF UserJob, DonateJob
<1>7. ASSUME DonateEnd \/ PoolLost PROVE Kept
  BY <1>2, <1>7 DEF DonateEnd, PoolLost
<1>8. ASSUME Stop \/ DatasetDone \/ DatasetFails \/ OnDatasetReady \/ Mine \/ EndPause \/ UNCHANGED vars PROVE Kept
  BY <1>2, <1>8 DEF Stop, DatasetDone, DatasetFails, OnDatasetReady, Mine, EndPause, vars, minerVars
<1>9. Kept
  BY <1>3, <1>4, <1>5, <1>6, <1>7, <1>8 DEF Next
<1> QED
  BY <1>1, <1>9 DEF BatteryInv

LEMMA InitBattery == Init => BatteryInv
<1> SUFFICES ASSUME Init PROVE BatteryInv
  OBVIOUS
<1>1. enabled \in BOOLEAN /\ battery_power \in BOOLEAN /\ user_active \in BOOLEAN
  BY Zenon DEF Init
<1>2. ~battery_power /\ ~user_active /\ auto_pause = 0 /\ config = InitialConfig
  BY Zenon DEF Init
<1> QED
  BY <1>1, <1>2, ConfigAssumption DEF BatteryInv, FlagTypes, FlagsCounted, BatteryHeld

\* With pause-on-battery the miner is never enabled on battery: neither the
\* timer nor the console nor the API enables it there, for any interleaving of
\* the two conditions (MinerPrivate, Miner::setEnabled, the autoPause lambda).
THEOREM BatteryHeldHolds == ASSUME OptionStays PROVE Spec => []BatteryHeld
<1>1. Init => BatteryInv
  BY InitBattery
<1>2. BatteryInv /\ [Next]_vars => BatteryInv'
  BY BatteryStep
<1>3. BatteryInv => BatteryHeld
  BY DEF BatteryInv
<1> QED
  BY <1>1, <1>2, <1>3, PTL DEF Spec

\* Reloads that leave both options as they are
OptionsStay == OptionStays /\ \A c \in ConfigChanges : c.pauseOnActive = InitialConfig.pauseOnActive

\* A condition is noted only while its option is on.
NotedInv ==
    /\ config.pauseOnActive = InitialConfig.pauseOnActive
    /\ battery_power => config.pauseOnBattery
    /\ user_active => config.pauseOnActive

LEMMA NotedStep == OptionsStay /\ BatteryInv /\ NotedInv /\ [Next]_vars => NotedInv'
<1> SUFFICES ASSUME OptionsStay, BatteryInv, NotedInv, [Next]_vars PROVE NotedInv'
  OBVIOUS
<1>1. ASSUME UNCHANGED <<battery_power, user_active, config>> PROVE NotedInv'
  BY <1>1 DEF NotedInv
<1>2. ASSUME Timer PROVE NotedInv'
  <2> PICK onBattery \in BOOLEAN, present \in BOOLEAN : OnTimer(onBattery, present)
    BY <1>2 DEF Timer
  <2>1. /\ battery_power' = (IF Toggled(config.pauseOnBattery, battery_power, onBattery) THEN onBattery
                             ELSE battery_power)
        /\ user_active' = (IF Toggled(config.pauseOnActive, user_active, present) THEN present
                           ELSE user_active)
        /\ config' = config
    BY <1>2 DEF OnTimer, Timer
  <2> QED
    BY <2>1 DEF NotedInv, Toggled
<1>3. ASSUME NEW c \in ConfigChanges, OnConfigChanged(c) PROVE NotedInv'
  BY <1>3 DEF OnConfigChanged, minerVars, OptionsStay, OptionStays, NotedInv, BatteryInv
<1>4. ASSUME NEW e \in BOOLEAN, SetEnabled(e) PROVE NotedInv'
  BY <1>1, <1>4 DEF SetEnabled
<1>5. ASSUME (\E j \in UserJobs : UserJob(j)) \/ (\E j \in DonateJobs : DonateJob(j)) PROVE NotedInv'
  BY <1>1, <1>5 DEF UserJob, DonateJob
<1>6. ASSUME DonateEnd \/ PoolLost PROVE NotedInv'
  BY <1>1, <1>6 DEF DonateEnd, PoolLost
<1>7. ASSUME Stop \/ DatasetDone \/ DatasetFails \/ OnDatasetReady \/ Mine \/ EndPause \/ UNCHANGED vars PROVE NotedInv'
  BY <1>1, <1>7 DEF Stop, DatasetDone, DatasetFails, OnDatasetReady, Mine, EndPause, vars, minerVars
<1> QED
  BY <1>2, <1>3, <1>4, <1>5, <1>6, <1>7 DEF Next

\* When the last condition goes, its count is 0 and the timer enables.
LEMMA LastConditionResumes ==
    ASSUME BatteryInv, NotedInv', FlagsCounted', Timer,
           ~(config'.pauseOnBattery /\ battery_power'), ~(config'.pauseOnActive /\ user_active')
    PROVE  enabled'
<1> PICK onBattery \in BOOLEAN, present \in BOOLEAN : OnTimer(onBattery, present)
  BY DEF Timer
<1> DEFINE tb == Toggled(config.pauseOnBattery, battery_power, onBattery)
           tu == Toggled(config.pauseOnActive, user_active, present)
           battery == IF tb THEN onBattery ELSE battery_power
           n1 == Counted(auto_pause, tb, onBattery)
           n2 == Counted(n1, tu, present)
           e1 == Enables(enabled, tb, n1, battery)
           e2 == Enables(e1, tu, n2, battery)
<1>1. /\ battery_power' = battery /\ auto_pause' = n2 /\ enabled' = e2
      /\ tb \/ tu
  BY DEF OnTimer
<1>2. ~battery_power' /\ ~user_active'
  BY DEF NotedInv
<1>3. n2 = 0
  BY <1>1, <1>2 DEF FlagsCounted
<1>4. CASE tu
  BY <1>1, <1>2, <1>3, <1>4 DEF Enables
<1>5. CASE ~tu
  <2>1. n1 = 0 /\ tb
    BY <1>1, <1>3, <1>5 DEF Counted
  <2>2. e1
    BY <1>1, <1>2, <2>1 DEF Enables
  <2> QED
    BY <1>1, <1>5, <2>2 DEF Enables
<1> QED
  BY <1>4, <1>5

\* When the timer sees the last of the conditions go, it resumes the miner,
\* whatever order they came and go in (the autoPause lambda of Miner::onTimer).
THEOREM ResumesHolds == ASSUME OptionsStay PROVE Spec => ResumesAfterConditions
<1>1. Init => BatteryInv /\ NotedInv
  <2> SUFFICES ASSUME Init PROVE BatteryInv /\ NotedInv
    OBVIOUS
  <2>1. ~battery_power /\ ~user_active /\ config = InitialConfig
    BY Zenon DEF Init
  <2> QED
    BY <2>1, InitBattery DEF NotedInv
<1>2. BatteryInv /\ NotedInv /\ [Next]_vars => BatteryInv' /\ NotedInv'
  BY BatteryStep, NotedStep DEF OptionsStay
<1>3. BatteryInv /\ NotedInv /\ BatteryInv' /\ NotedInv' =>
        [(battery_power \/ user_active)
            /\ ~(config'.pauseOnBattery /\ battery_power')
            /\ ~(config'.pauseOnActive /\ user_active')
            /\ Timer => enabled']_vars
  BY LastConditionResumes DEF BatteryInv
<1> QED
  BY <1>1, <1>2, <1>3, PTL DEF Spec, ResumesAfterConditions

----------------------------------------------------------------------------
(* Donation rounds and the nonces of the user's job *)

\* A round works on index 1, and the end of a round that brings the user's job
\* back leaves no reset behind for a callback to come.
DonationInv ==
    /\ nonces \in [{0, 1} -> Int]
    /\ jobIndex \in {0, 1}
    /\ reset \in BOOLEAN
    /\ cameBack => ~reset
    /\ donating => jobIndex = 1

\* What a job change does to the counters: only the one of its index may fall.
LEMMA JobChangeNonces ==
    ASSUME nonces \in [{0, 1} -> Int], NEW j, NEW i \in {0, 1}, NEW r \in BOOLEAN,
           NEW a, NEW p, HandleJobChange(j, i, r, a, p)
    PROVE  /\ nonces' \in [{0, 1} -> Int]
           /\ i = 1 \/ ~r => nonces'[0] = nonces[0]
  BY DEF HandleJobChange

\* Miner::setJob keeps the invariant, whatever job it is given.
LEMMA SetJobDonation ==
    ASSUME DonationInv, NEW j, NEW i \in {0, 1}, SetJob(j, i)
    PROVE  /\ nonces' \in [{0, 1} -> Int]
           /\ jobIndex' = i
           /\ reset' \in BOOLEAN
           /\ cameBack' => ~reset'
           /\ i = 1 \/ cameBack' => nonces'[0] = nonces[0]
<1>1. ResetFor(j, i) \in BOOLEAN
  BY DEF ResetFor
<1>2. /\ reset' = ResetFor(j, i)
      /\ jobIndex' = i
      /\ cameBack' = (jobIndex = 1 /\ i = 0 /\ userJobId = j.id)
  BY DEF SetJob
<1>3. ASSUME cameBack' PROVE ~reset'
  <2>1. jobIndex = 1 /\ i = 0 /\ userJobId = j.id
    BY <1>2, <1>3, Zenon
  <2>2. ResetFor(j, i) = FALSE
    BY <2>1, SMT DEF ResetFor
  <2> QED
    BY <1>2, <2>2
<1>4. \/ UNCHANGED nonces
      \/ HandleJobChange(j, i, ResetFor(j, i), TRUE, FlagBefore(j))
  BY DEF SetJob
<1>5. /\ nonces' \in [{0, 1} -> Int]
      /\ i = 1 \/ ~ResetFor(j, i) => nonces'[0] = nonces[0]
  BY <1>1, <1>4, JobChangeNonces DEF DonationInv
<1> QED
  BY <1>1, <1>2, <1>3, <1>5

LEMMA DonationStep ==
    ASSUME DonationInv, [Next]_vars
    PROVE  /\ DonationInv'
           /\ (donating /\ donating') \/ cameBack' => nonces'[0] >= nonces[0]
<1> DEFINE Kept == (donating /\ donating') \/ cameBack' => nonces'[0] >= nonces[0]
<1>1. ASSUME UNCHANGED <<nonces, reset, jobIndex, cameBack>>, donating' => donating
      PROVE  DonationInv' /\ Kept
  BY <1>1 DEF DonationInv
<1>2. ASSUME NEW j, NEW i \in {0, 1}, SetJob(j, i), donating' => i = 1
      PROVE  DonationInv' /\ Kept
  BY <1>2, SetJobDonation DEF DonationInv
<1>3. ASSUME NEW j \in UserJobs, UserJob(j)
      PROVE  DonationInv' /\ Kept
  <2>1. CASE donating
    BY <1>1, <1>3, <2>1 DEF UserJob, jobVars
  <2>2. CASE ~donating
    <3>1. SetJob(j, 0) /\ UNCHANGED donating
      BY <1>3, <2>2 DEF UserJob
    <3> QED
      BY <1>2, <2>2, <3>1
  <2> QED
    BY <2>1, <2>2
<1>4. ASSUME NEW j \in DonateJobs, DonateJob(j)
      PROVE  DonationInv' /\ Kept
  BY <1>2, <1>4 DEF DonateJob
<1>5. CASE DonateEnd
  <2>1. ~donating'
    BY <1>5 DEF DonateEnd
  <2>2. CASE PauseMiner
    BY <1>1, <2>1, <2>2 DEF PauseMiner, jobVars
  <2>3. CASE SetJob(userJob, 0)
    BY <1>2, <2>1, <2>3
  <2> QED
    BY <1>5, <2>2, <2>3 DEF DonateEnd
<1>6. CASE PoolLost
  BY <1>1, <1>6 DEF PoolLost, PauseMiner, jobVars
<1>7. CASE (\E e \in BOOLEAN : SetEnabled(e)) \/ Stop \/ (\E c \in ConfigChanges : OnConfigChanged(c)) \/ Timer
  BY <1>1, <1>7 DEF SetEnabled, Stop, OnConfigChanged, Timer, jobVars, networkVars
<1>8. CASE DatasetDone \/ DatasetFails \/ EndPause
  BY <1>1, <1>8 DEF DatasetDone, DatasetFails, EndPause, jobVars, networkVars
<1>9. CASE OnDatasetReady
  <2>1. UNCHANGED <<reset, jobIndex, cameBack, donating>>
    BY <1>9 DEF OnDatasetReady, jobVars, networkVars
  <2>2. UNCHANGED nonces \/ HandleJobChange(job, jobIndex, reset, active, paused)
    BY <1>9 DEF OnDatasetReady
  <2>3. /\ nonces' \in [{0, 1} -> Int]
        /\ jobIndex = 1 \/ ~reset => nonces'[0] = nonces[0]
    BY <2>2, JobChangeNonces DEF DonationInv
  <2> QED
    BY <2>1, <2>3 DEF DonationInv
<1>10. CASE Mine
  <2>1. /\ nonces' = [nonces EXCEPT ![jobIndex] = @ + 1]
        /\ UNCHANGED <<reset, jobIndex, cameBack, donating>>
    BY <1>10 DEF Mine, jobVars, networkVars
  <2>2. nonces' \in [{0, 1} -> Int] /\ nonces'[0] >= nonces[0]
    BY <2>1 DEF DonationInv
  <2> QED
    BY <2>1, <2>2 DEF DonationInv
<1>11. CASE UNCHANGED vars
  BY <1>1, <1>11 DEF vars, jobVars, networkVars
<1> QED
  BY <1>3, <1>4, <1>5, <1>6, <1>7, <1>8, <1>9, <1>10, <1>11 DEF Next

LEMMA DonationInit == Init => DonationInv
  BY DEF Init, DonationInv

\* The counter of the user's nonces does not fall during a donation round nor
\* when the round hands the same job back, although setJob and a late callback
\* of the dataset both run handleJobChange with the reset flag of the last job.
THEOREM DonationKeepsNonceHolds == Spec => DonationKeepsNonce
<1>1. DonationInv /\ [Next]_vars => DonationInv'
  BY DonationStep
<1>2. DonationInv /\ [Next]_vars =>
        [(donating /\ donating') \/ cameBack' => nonces'[0] >= nonces[0]]_vars
  BY DonationStep
<1> QED
  BY <1>1, <1>2, DonationInit, PTL DEF Spec, DonationKeepsNonce

----------------------------------------------------------------------------
(* No unwanted resume *)

ResumeTypes ==
    /\ active \in BOOLEAN /\ enabled \in BOOLEAN
    /\ paused \in BOOLEAN /\ ending \in BOOLEAN /\ threads \in BOOLEAN
    /\ config \in Configs

\* The pause stays in force.
Keeps == ResumeTypes' /\ (Held => Held')

LEMMA JobChangeResume ==
    ASSUME enabled \in BOOLEAN, ending \in BOOLEAN, config.cpu \in BOOLEAN,
           NEW j, NEW i, NEW r, NEW a \in BOOLEAN, NEW p \in BOOLEAN,
           HandleJobChange(j, i, r, a, p)
    PROVE  /\ paused' \in BOOLEAN /\ ending' \in BOOLEAN /\ threads' \in BOOLEAN
           /\ ~enabled => paused'
           /\ ~a /\ p => paused'
<1>1. threads' \in BOOLEAN /\ EndingAfter(j) \in BOOLEAN
  BY DEF HandleJobChange, RunsFor, EndingAfter
<1> QED
  BY <1>1 DEF HandleJobChange

\* Miner::setJob: the flag it clears comes with the end of the threads.
LEMMA SetJobResume ==
    ASSUME ResumeTypes, config.cpu \in BOOLEAN, NEW j, NEW i,
           SetJob(j, i), UNCHANGED <<enabled, config>>
    PROVE  Keeps
<1> USE DEF Keeps, ResumeTypes, Held
<1>1. FlagBefore(j) \in BOOLEAN /\ StopsFor(j) \in BOOLEAN /\ EndingAfter(j) \in BOOLEAN
  BY DEF FlagBefore, StopsFor, PausesFor, EndingAfter
<1>2. active' = TRUE
  BY DEF SetJob
<1>3. CASE HandleJobChange(j, i, ResetFor(j, i), TRUE, FlagBefore(j))
  <2>1. /\ paused' \in BOOLEAN /\ ending' \in BOOLEAN /\ threads' \in BOOLEAN
        /\ ~enabled => paused'
    BY <1>1, <1>3, JobChangeResume
  <2> QED
    BY <1>2, <2>1
<1>4. CASE paused' = FlagBefore(j) /\ ending' = EndingAfter(j) /\ threads' = (threads /\ ~StopsFor(j))
  <2>1. paused' \in BOOLEAN /\ ending' \in BOOLEAN /\ threads' \in BOOLEAN
    BY <1>1, <1>4
  <2>2. Held => (~enabled /\ threads' => paused')
    BY <1>4 DEF FlagBefore
  <2> QED
    BY <1>2, <2>1, <2>2
<1> QED
  BY <1>3, <1>4 DEF SetJob

\* Miner::onTimer: the flag follows when one of the two conditions toggled the
\* switch, and stays otherwise.
LEMMA TimerSwitches ==
    ASSUME ResumeTypes, Timer
    PROVE  /\ UNCHANGED <<active, threads, ending, config>>
           /\ \E e1, e2 \in BOOLEAN :
                /\ enabled' = e2
                /\ paused' = IF active /\ (e1 # enabled \/ e2 # e1) THEN ~e2 ELSE paused
<1> USE DEF ResumeTypes
<1>1. PICK onBattery \in BOOLEAN, present \in BOOLEAN : OnTimer(onBattery, present)
  BY DEF Timer
<1> DEFINE tb == Toggled(config.pauseOnBattery, battery_power, onBattery)
           tu == Toggled(config.pauseOnActive, user_active, present)
           battery == IF tb THEN onBattery ELSE battery_power
           n1 == Counted(auto_pause, tb, onBattery)
           n2 == Counted(n1, tu, present)
           e1 == Enables(enabled, tb, n1, battery)
           e2 == Enables(e1, tu, n2, battery)
<1>2. e1 \in BOOLEAN
  BY DEF Enables
<1>3. e2 \in BOOLEAN
  BY <1>2 DEF Enables
<1>4. /\ enabled' = e2
      /\ paused' = (IF active /\ (e1 # enabled \/ e2 # e1) THEN ~e2 ELSE paused)
  BY <1>1 DEF OnTimer
<1> QED
  BY <1>1, <1>2, <1>3, <1>4 DEF OnTimer, Timer

\* When the timer enables the miner, the count of the conditions fell to 0.
LEMMA TimerEnables ==
    ASSUME FlagTypes, FlagsCounted, enabled \in BOOLEAN, ~enabled, Timer, enabled'
    PROVE  auto_pause # 0 /\ auto_pause' = 0
<1> PICK onBattery \in BOOLEAN, present \in BOOLEAN : OnTimer(onBattery, present)
  BY DEF Timer
<1> DEFINE tb == Toggled(config.pauseOnBattery, battery_power, onBattery)
           tu == Toggled(config.pauseOnActive, user_active, present)
           battery == IF tb THEN onBattery ELSE battery_power
           n1 == Counted(auto_pause, tb, onBattery)
           n2 == Counted(n1, tu, present)
           e1 == Enables(enabled, tb, n1, battery)
           e2 == Enables(e1, tu, n2, battery)
<1>1. auto_pause' = n2
  BY DEF OnTimer
<1>6. enabled' = e2
  BY DEF OnTimer
<1>2. /\ battery_power \in BOOLEAN /\ user_active \in BOOLEAN /\ auto_pause \in Int
      /\ auto_pause = (IF battery_power THEN 1 ELSE 0) + (IF user_active THEN 1 ELSE 0)
  BY DEF FlagTypes, FlagsCounted
<1>3. n1 \in Int /\ n1 >= 0
  BY <1>2 DEF Counted, Toggled
<1>4. CASE tu
  <2>1. n2 = 0
    BY <1>6, <1>4 DEF Enables
  <2>2. user_active
    BY <1>2, <1>3, <1>4, <2>1 DEF Counted, Toggled
  <2>3. auto_pause # 0
    BY <1>2, <2>2
  <2>4. auto_pause' = 0
    BY <1>1, <2>1
  <2> QED
    BY <2>3, <2>4
<1>5. CASE ~tu
  <2>1. e1 /\ n2 = n1
    BY <1>6, <1>5 DEF Enables, Counted
  <2>2. tb /\ n1 = 0
    BY <2>1 DEF Enables
  <2>3. battery_power
    BY <1>2, <2>2 DEF Counted, Toggled
  <2>4. auto_pause # 0
    BY <1>2, <2>3
  <2>5. auto_pause' = 0
    BY <1>1, <2>1, <2>2
  <2> QED
    BY <2>4, <2>5
<1> QED
  BY <1>4, <1>5

LEMMA ResumeStep ==
    ASSUME ResumeTypes, [Next]_vars
    PROVE  ResumeTypes' /\ (Held => Held' \/ Stop \/ \E c \in ConfigChanges : OnConfigChanged(c))
<1> USE DEF Keeps, ResumeTypes, Held
<1>1. config.cpu \in BOOLEAN
  BY DEF Configs
<1>2. ASSUME NEW j \in UserJobs, UserJob(j)
      PROVE  Keeps
  <2>1. UNCHANGED <<enabled, config>>
    BY <1>2 DEF UserJob
  <2>2. CASE SetJob(j, 0)
    BY <1>1, <2>1, <2>2, SetJobResume
  <2>3. CASE UNCHANGED <<active, flagVars, threads>>
    BY <2>1, <2>3 DEF flagVars
  <2> QED
    BY <1>2, <2>1, <2>2, <2>3 DEF UserJob
<1>3. ASSUME NEW j \in DonateJobs, DonateJob(j)
      PROVE  Keeps
  BY <1>1, <1>3, SetJobResume DEF DonateJob
<1>4. CASE DonateEnd
  <2>1. UNCHANGED <<enabled, config>>
    BY <1>4 DEF DonateEnd
  <2>2. CASE SetJob(userJob, 0)
    BY <1>1, <2>1, <2>2, SetJobResume
  <2>3. CASE PauseMiner
    BY <2>1, <2>3 DEF PauseMiner
  <2> QED
    BY <1>4, <2>1, <2>2, <2>3 DEF DonateEnd
<1>5. CASE PoolLost
  BY <1>5 DEF PoolLost, PauseMiner
<1>6. ASSUME NEW e \in BOOLEAN, SetEnabled(e)
      PROVE  Keeps
  <2>1. /\ enabled' = (IF Refused(e, battery_power) THEN enabled ELSE e)
        /\ paused' = (IF Refused(e, battery_power) \/ ~active THEN paused ELSE ~e)
        /\ UNCHANGED <<active, ending, threads, config>>
    BY <1>6 DEF SetEnabled, SetEnabledFrom
  <2>2. enabled' \in BOOLEAN /\ paused' \in BOOLEAN
    BY <2>1
  <2> QED
    BY <2>1, <2>2
<1>7. CASE Timer
  BY <1>7, TimerSwitches
<1>8. CASE DatasetDone \/ DatasetFails \/ Mine \/ EndPause
  <2>1. CASE DatasetDone \/ DatasetFails
    BY <2>1 DEF DatasetDone, DatasetFails, minerVars, flagVars
  <2>2. CASE Mine
    BY <2>2 DEF Mine, minerVars
  <2>3. CASE EndPause
    BY <2>3 DEF EndPause, minerVars
  <2> QED
    BY <1>8, <2>1, <2>2, <2>3
<1>9. CASE OnDatasetReady
  <2>1. UNCHANGED <<active, enabled, config>>
    BY <1>9 DEF OnDatasetReady, minerVars
  <2>2. CASE HandleJobChange(job, jobIndex, reset, active, paused)
    BY <1>1, <2>1, <2>2, JobChangeResume
  <2>3. CASE UNCHANGED <<flagVars, threads>>
    BY <2>1, <2>3 DEF flagVars
  <2> QED
    BY <1>9, <2>2, <2>3 DEF OnDatasetReady
<1>10. CASE UNCHANGED vars
  BY <1>10 DEF vars, minerVars, flagVars
<1>11. ASSUME Stop \/ \E c \in ConfigChanges : OnConfigChanged(c)
       PROVE  ResumeTypes'
  <2>1. CASE Stop
    BY <2>1 DEF Stop, minerVars
  <2>2. ASSUME NEW c \in ConfigChanges, OnConfigChanged(c)
        PROVE  ResumeTypes'
    BY <2>2, ConfigAssumption DEF OnConfigChanged, minerVars, Configs, RunsFor
  <2> QED
    BY <1>11, <2>1, <2>2
<1> QED
  BY <1>2, <1>3, <1>4, <1>5, <1>6, <1>7, <1>8, <1>9, <1>10, <1>11 DEF Next

\* Only these steps touch the switch.
LEMMA EnabledStep ==
    ASSUME ResumeTypes, FlagTypes, FlagsCounted, [Next]_vars, ~enabled, enabled'
    PROVE  SetEnabled(TRUE) \/ LastConditionGoes
<1>1. enabled' # enabled
  OBVIOUS
<1>2. ASSUME NEW e \in BOOLEAN, SetEnabled(e) PROVE SetEnabled(TRUE)
  <2>1. e = TRUE
    BY <1>2 DEF SetEnabled, SetEnabledFrom
  <2> QED
    BY <1>2, <2>1
<1>3. ASSUME Timer PROVE LastConditionGoes
  BY <1>3, TimerEnables DEF ResumeTypes, LastConditionGoes
<1>4. ~\E j \in UserJobs : UserJob(j)
  BY <1>1 DEF UserJob
<1>5. ~\E j \in DonateJobs : DonateJob(j)
  BY <1>1 DEF DonateJob
<1>6. ~DonateEnd /\ ~PoolLost
  BY <1>1 DEF DonateEnd, PoolLost
<1>7. ~(Stop \/ DatasetDone \/ DatasetFails \/ OnDatasetReady \/ Mine \/ EndPause \/ UNCHANGED vars)
  BY <1>1 DEF Stop, DatasetDone, DatasetFails, OnDatasetReady, Mine, EndPause, vars, minerVars
<1>8. ~\E c \in ConfigChanges : OnConfigChanged(c)
  BY <1>1 DEF OnConfigChanged, minerVars
<1> QED
  BY <1>2, <1>3, <1>4, <1>5, <1>6, <1>7, <1>8 DEF Next

\* For any jobs, configurations and number of calls, no job, algorithm, donation
\* round or callback of the dataset resumes a paused miner: only the API's stop
\* and a reload let go of a pause in force, and only a resume and the end of the
\* last condition enable a disabled miner (Miner::setEnabled, Miner::onTimer).
THEOREM NoResume == Spec => NoUnwantedResume
<1> DEFINE IInv == ResumeTypes /\ FlagTypes /\ FlagsCounted
<1>1. Init => IInv
  <2>1. Init => ResumeTypes
    BY ConfigAssumption DEF Init, ResumeTypes
  <2>2. Init => battery_power \in BOOLEAN /\ user_active \in BOOLEAN
    BY Zenon DEF Init
  <2>3. Init => ~battery_power /\ ~user_active /\ auto_pause = 0
    BY Zenon DEF Init
  <2> QED
    BY <2>1, <2>2, <2>3 DEF FlagTypes, FlagsCounted
<1>2. IInv /\ [Next]_vars => IInv'
  BY ResumeStep, FlagsStep
<1>3. IInv /\ [Next]_vars =>
        [/\ Held /\ ~Held' => Stop \/ \E c \in ConfigChanges : OnConfigChanged(c)
         /\ ~enabled /\ enabled' => SetEnabled(TRUE) \/ LastConditionGoes]_vars
  BY ResumeStep, EnabledStep
<1> QED
  BY <1>1, <1>2, <1>3, PTL DEF Spec, NoUnwantedResume

----------------------------------------------------------------------------
(* The types *)

SwitchTypes ==
    /\ active \in BOOLEAN /\ enabled \in BOOLEAN
    /\ battery_power \in BOOLEAN /\ user_active \in BOOLEAN
    /\ paused \in BOOLEAN /\ ending \in BOOLEAN /\ ended \in BOOLEAN
    /\ threads \in BOOLEAN /\ ticking \in BOOLEAN
    /\ config \in Configs
JobTypes ==
    /\ reset \in BOOLEAN /\ cameBack \in BOOLEAN
    /\ job \in Jobs \cup {NoJob} /\ jobIndex \in {0, 1}
    /\ userJobId \in {j.id : j \in Jobs \cup {NoJob}}
    /\ algorithm \in {j.algo : j \in Jobs \cup {NoJob}}
CounterTypes ==
    /\ nonces \in [{0, 1} -> 0..MaxNonce]
    /\ progress \in [Blobs -> 0..MaxNonce]
    /\ events \in 0..MaxEvents
ServiceTypes ==
    /\ rxWanted \in Seeds \cup {NoSeed} /\ rxServed \in Seeds \cup {NoSeed}
    /\ rxMemory \in {"none", "failed", "had"} /\ rxCallback \in BOOLEAN
    /\ donating \in BOOLEAN /\ poolActive \in BOOLEAN /\ userJob \in UserJobs \cup {NoJob}

MinerTypes == SwitchTypes /\ JobTypes /\ CounterTypes /\ ServiceTypes

\* What a job change leaves of the types
SetJobLeaves ==
    /\ JobTypes /\ active \in BOOLEAN
    /\ paused \in BOOLEAN /\ ending \in BOOLEAN /\ ended \in BOOLEAN
    /\ threads \in BOOLEAN /\ ticking \in BOOLEAN
    /\ nonces \in [{0, 1} -> 0..MaxNonce]
    /\ rxWanted \in Seeds \cup {NoSeed} /\ rxServed \in Seeds \cup {NoSeed}
    /\ rxMemory \in {"none", "failed", "had"}

LEMMA NoteEndTypes ==
    ASSUME NoteEnd, paused' \in BOOLEAN, ending' \in BOOLEAN, ended \in BOOLEAN, ending \in BOOLEAN
    PROVE  ended' \in BOOLEAN
  BY DEF NoteEnd

LEMMA JobChangeTypes ==
    ASSUME MinerTypes, NEW j, NEW i \in {0, 1}, NEW r \in BOOLEAN, NEW a \in BOOLEAN, NEW p \in BOOLEAN,
           HandleJobChange(j, i, r, a, p)
    PROVE  /\ paused' \in BOOLEAN /\ ending' \in BOOLEAN /\ ended' \in BOOLEAN
           /\ threads' \in BOOLEAN /\ ticking' \in BOOLEAN
           /\ nonces' \in [{0, 1} -> 0..MaxNonce]
<1> USE DEF MinerTypes, SwitchTypes
<1>1. paused' \in BOOLEAN /\ ending' \in BOOLEAN /\ threads' \in BOOLEAN
  BY JobChangeResume DEF Configs
<1>2. ended' \in BOOLEAN
  BY <1>1, NoteEndTypes DEF HandleJobChange
<1>3. nonces' \in [{0, 1} -> 0..MaxNonce]
  BY BoundsAssumption DEF HandleJobChange, CounterTypes
<1> QED
  BY <1>1, <1>2, <1>3 DEF HandleJobChange

LEMMA SetJobTypes ==
    ASSUME MinerTypes, NEW j \in Jobs \cup {NoJob}, NEW i \in {0, 1}, SetJob(j, i)
    PROVE  SetJobLeaves'
<1> USE DEF MinerTypes
<1>1. JobTypes' /\ active' \in BOOLEAN
  <2>1. /\ reset' = ResetFor(j, i) /\ job' = j /\ jobIndex' = i
        /\ userJobId' = (IF i = 0 THEN j.id ELSE userJobId) /\ algorithm' = j.algo
        /\ active' = TRUE /\ cameBack' = (jobIndex = 1 /\ i = 0 /\ userJobId = j.id)
    BY DEF SetJob
  <2>2. ResetFor(j, i) \in BOOLEAN
    BY DEF ResetFor
  <2> QED
    BY <2>1, <2>2 DEF JobTypes
<1>2. /\ FlagBefore(j) \in BOOLEAN /\ StopsFor(j) \in BOOLEAN /\ EndingAfter(j) \in BOOLEAN
      /\ ResetFor(j, i) \in BOOLEAN
  BY DEF FlagBefore, StopsFor, PausesFor, EndingAfter, ResetFor, SwitchTypes
<1>3. CASE HandleJobChange(j, i, ResetFor(j, i), TRUE, FlagBefore(j)) /\ UNCHANGED serviceVars
  BY <1>1, <1>2, <1>3, JobChangeTypes DEF SetJobLeaves, ServiceTypes, serviceVars
<1>4. CASE /\ rxWanted' = j.seed /\ Rx!Ask
           /\ paused' = FlagBefore(j) /\ ending' = EndingAfter(j) /\ NoteEnd
           /\ threads' = (threads /\ ~StopsFor(j))
           /\ UNCHANGED <<nonces, ticking>>
  <2>1. j.seed \in Seeds \cup {NoSeed}
    BY JobsAssumption DEF Seeds
  <2>2. ended' \in BOOLEAN
    BY <1>2, <1>4, NoteEndTypes DEF SwitchTypes
  <2>3. rxMemory' \in {"none", "failed", "had"} /\ rxServed' = NoSeed
    BY <1>4 DEF Rx!Ask, Rx!Forget, ServiceTypes
  <2> QED
    BY <1>1, <1>2, <1>4, <2>1, <2>2, <2>3 DEF SetJobLeaves, SwitchTypes, CounterTypes
<1> QED
  BY <1>3, <1>4 DEF SetJob

\* A pause, or a user's job that is dropped
LEMMA QuietTypes ==
    ASSUME MinerTypes,
           UNCHANGED <<jobVars, ending, ended, nonces, threads, ticking, serviceVars>>,
           active' \in BOOLEAN, paused' \in BOOLEAN
    PROVE  SetJobLeaves'
BY DEF MinerTypes, SwitchTypes, JobTypes, CounterTypes, ServiceTypes, jobVars, serviceVars, SetJobLeaves

LEMMA TypeStep == MinerTypes /\ [Next]_vars => MinerTypes'
<1> SUFFICES ASSUME MinerTypes, [Next]_vars PROVE MinerTypes'
  OBVIOUS
<1> USE DEF MinerTypes
<1>1. ASSUME Count PROVE events' \in 0..MaxEvents
  BY <1>1, BoundsAssumption DEF Count, CounterTypes
<1>2. ASSUME NEW j \in UserJobs, UserJob(j) PROVE MinerTypes'
  <2>1. SetJobLeaves'
    <3>1. CASE SetJob(j, 0)
      BY <3>1, SetJobTypes DEF Jobs
    <3>2. CASE UNCHANGED <<active, jobVars, flagVars, nonces, threads, ticking, serviceVars>>
      BY <3>2, QuietTypes DEF SwitchTypes, flagVars
    <3> QED
      BY <1>2, <3>1, <3>2 DEF UserJob
  <2> QED
    BY <1>1, <1>2, <2>1 DEF UserJob, SetJobLeaves, SwitchTypes, CounterTypes, ServiceTypes
<1>3. ASSUME NEW j \in DonateJobs, DonateJob(j) PROVE MinerTypes'
  <2>1. SetJobLeaves'
    BY <1>3, SetJobTypes DEF DonateJob, Jobs
  <2> QED
    BY <1>1, <1>3, <2>1 DEF DonateJob, SetJobLeaves, SwitchTypes, CounterTypes, ServiceTypes
<1>4. ASSUME DonateEnd \/ PoolLost PROVE MinerTypes'
  <2>1. SetJobLeaves'
    <3>1. CASE SetJob(userJob, 0)
      BY <3>1, SetJobTypes DEF ServiceTypes, Jobs
    <3>2. CASE PauseMiner
      BY <3>2, QuietTypes DEF PauseMiner
    <3> QED
      BY <1>4, <3>1, <3>2 DEF DonateEnd, PoolLost
  <2> QED
    BY <1>1, <1>4, <2>1 DEF DonateEnd, PoolLost, SetJobLeaves, SwitchTypes, CounterTypes, ServiceTypes
<1>5. ASSUME NEW e \in BOOLEAN, SetEnabled(e) PROVE MinerTypes'
  <2>1. enabled' \in BOOLEAN /\ paused' \in BOOLEAN /\ ending' \in BOOLEAN /\ NoteEnd
    BY <1>5 DEF SetEnabled, SetEnabledFrom, SwitchTypes
  <2>2. ended' \in BOOLEAN
    BY <2>1, NoteEndTypes DEF SwitchTypes
  <2> QED
    BY <1>1, <1>5, <2>1, <2>2 DEF SetEnabled, SwitchTypes, JobTypes, CounterTypes, ServiceTypes, jobVars, rxVars,
                                  serviceVars, networkVars
<1>6. ASSUME Stop PROVE MinerTypes'
  <2>1. SwitchTypes'
    <3>1. paused' \in BOOLEAN /\ ending' \in BOOLEAN /\ NoteEnd
      BY <1>6 DEF Stop, SwitchTypes
    <3>2. ended' \in BOOLEAN
      BY <3>1, NoteEndTypes DEF SwitchTypes
    <3> QED
      BY <1>6, <3>1, <3>2 DEF Stop, SwitchTypes, minerVars
  <2>2. JobTypes'
    BY <1>6 DEF Stop, JobTypes, jobVars
  <2>3. CounterTypes' /\ ServiceTypes'
    BY <1>1, <1>6 DEF Stop, CounterTypes, ServiceTypes, rxVars, serviceVars, networkVars
  <2> QED
    BY <2>1, <2>2, <2>3
<1>7. ASSUME NEW c \in ConfigChanges, OnConfigChanged(c) PROVE MinerTypes'
  <2>1. config' \in Configs /\ threads' \in BOOLEAN
    BY <1>7, ConfigAssumption DEF OnConfigChanged, Configs, RunsFor
  <2>2. paused' \in BOOLEAN /\ ending' \in BOOLEAN /\ NoteEnd
    BY <1>7, <2>1 DEF OnConfigChanged, SwitchTypes
  <2>3. ended' \in BOOLEAN
    BY <2>2, NoteEndTypes DEF SwitchTypes
  <2> QED
    BY <1>1, <1>7, <2>1, <2>2, <2>3 DEF OnConfigChanged, SwitchTypes, JobTypes, CounterTypes, ServiceTypes,
                                        minerVars, jobVars, rxVars, serviceVars, networkVars
<1>8. ASSUME Timer PROVE MinerTypes'
  <2>1. PICK onBattery \in BOOLEAN, present \in BOOLEAN : OnTimer(onBattery, present)
    BY <1>8 DEF Timer
  <2>2. battery_power' \in BOOLEAN /\ user_active' \in BOOLEAN /\ enabled' \in BOOLEAN /\ paused' \in BOOLEAN
    BY <2>1 DEF OnTimer, Enables, SwitchTypes
  <2>3. UNCHANGED ending /\ NoteEnd
    BY <2>1 DEF OnTimer
  <2>4. ended' \in BOOLEAN
    BY <2>2, <2>3, NoteEndTypes DEF SwitchTypes
  <2> QED
    BY <1>1, <1>8, <2>2, <2>3, <2>4 DEF Timer, SwitchTypes, JobTypes, CounterTypes, ServiceTypes, jobVars, rxVars,
                                        serviceVars, networkVars
<1>9. ASSUME DatasetDone \/ DatasetFails PROVE MinerTypes'
  <2>1. ServiceTypes'
    BY <1>9 DEF DatasetDone, DatasetFails, Rx!Build, Rx!Fail, ServiceTypes, networkVars
  <2>2. UNCHANGED <<minerVars, jobVars, flagVars, nonces, threads, ticking, config, progress, events>>
    BY <1>9 DEF DatasetDone, DatasetFails
  <2> QED
    BY <2>1, <2>2 DEF SwitchTypes, JobTypes, CounterTypes, minerVars, jobVars, flagVars
<1>10. ASSUME OnDatasetReady PROVE MinerTypes'
  <2>1. /\ paused' \in BOOLEAN /\ ending' \in BOOLEAN /\ ended' \in BOOLEAN
        /\ threads' \in BOOLEAN /\ ticking' \in BOOLEAN
        /\ nonces' \in [{0, 1} -> 0..MaxNonce]
    <3>1. CASE HandleJobChange(job, jobIndex, reset, active, paused)
      BY <3>1, JobChangeTypes DEF JobTypes, SwitchTypes
    <3>2. CASE UNCHANGED <<flagVars, nonces, threads, ticking>>
      BY <3>2 DEF SwitchTypes, CounterTypes, flagVars
    <3> QED
      BY <1>10, <3>1, <3>2 DEF OnDatasetReady
  <2> QED
    <3>1. SwitchTypes'
      BY <1>10, <2>1 DEF OnDatasetReady, SwitchTypes, minerVars
    <3>2. JobTypes'
      BY <1>10 DEF OnDatasetReady, JobTypes, jobVars
    <3>3. CounterTypes' /\ ServiceTypes'
      BY <1>10, <2>1 DEF OnDatasetReady, CounterTypes, ServiceTypes, serviceVars, networkVars
    <3> QED
      BY <3>1, <3>2, <3>3
<1>11. ASSUME Mine PROVE MinerTypes'
  <2>1. CounterTypes'
    <3>1. nonces[jobIndex] \in 0..MaxNonce /\ nonces[jobIndex] # MaxNonce
      BY <1>11 DEF Mine, Mining, UsedUp, CounterTypes, JobTypes
    <3>2. nonces[jobIndex] + 1 \in 0..MaxNonce
      BY <3>1, BoundsAssumption
    <3> QED
      BY <1>11, <3>2 DEF Mine, CounterTypes
  <2>2. ending' \in BOOLEAN
    BY <1>11 DEF Mine, SwitchTypes
  <2> QED
    BY <1>11, <2>1, <2>2 DEF Mine, SwitchTypes, JobTypes, ServiceTypes, minerVars, jobVars, rxVars, serviceVars,
                             networkVars
<1>13. ASSUME EndPause PROVE MinerTypes'
  <2>1. paused' \in BOOLEAN /\ ending' \in BOOLEAN /\ NoteEnd
    BY <1>13 DEF EndPause
  <2>2. ended' \in BOOLEAN
    BY <2>1, NoteEndTypes DEF SwitchTypes
  <2> QED
    BY <1>13, <2>1, <2>2 DEF EndPause, SwitchTypes, JobTypes, CounterTypes, ServiceTypes, minerVars, jobVars, rxVars,
                             serviceVars, networkVars
<1>12. ASSUME UNCHANGED vars PROVE MinerTypes'
  BY <1>12 DEF vars, SwitchTypes, JobTypes, CounterTypes, ServiceTypes, minerVars, jobVars, flagVars, rxVars,
               serviceVars, networkVars
<1> QED
  BY <1>2, <1>3, <1>4, <1>5, <1>6, <1>7, <1>8, <1>9, <1>10, <1>11, <1>12, <1>13 DEF Next

LEMMA InitTypes == Init => MinerTypes
<1> SUFFICES ASSUME Init PROVE MinerTypes
  OBVIOUS
<1>1. SwitchTypes
  BY Zenon, ConfigAssumption DEF Init, SwitchTypes
<1>2. JobTypes
  BY Zenon DEF Init, JobTypes
<1>3. CounterTypes
  <2>1. nonces = [i \in {0, 1} |-> 0] /\ progress = [b \in Blobs |-> 0] /\ events = 0
    BY Zenon DEF Init
  <2> QED
    BY <2>1, BoundsAssumption DEF CounterTypes
<1>4. ServiceTypes
  BY Zenon DEF Init, ServiceTypes
<1> QED
  BY <1>1, <1>2, <1>3, <1>4 DEF MinerTypes

\* The variables keep their types, and auto_pause stays within the two conditions
\* there are (MinerPrivate).
THEOREM TypeCorrect == Spec => []TypeOK
<1>1. Init => FlagTypes /\ FlagsCounted
  <2>1. Init => battery_power \in BOOLEAN /\ user_active \in BOOLEAN
    BY Zenon DEF Init
  <2>2. Init => ~battery_power /\ ~user_active /\ auto_pause = 0
    BY Zenon DEF Init
  <2> QED
    BY <2>1, <2>2 DEF FlagTypes, FlagsCounted
<1>2. (MinerTypes /\ FlagTypes /\ FlagsCounted) /\ [Next]_vars => (MinerTypes /\ FlagTypes /\ FlagsCounted)'
  BY TypeStep, FlagsStep
<1>3. MinerTypes /\ FlagTypes /\ FlagsCounted => TypeOK
  <2> SUFFICES ASSUME MinerTypes, FlagTypes, FlagsCounted PROVE TypeOK
    OBVIOUS
  <2>1. auto_pause \in 0..2
    BY DEF FlagTypes, FlagsCounted
  <2> QED
    BY <2>1 DEF TypeOK, MinerTypes, SwitchTypes, JobTypes, CounterTypes, ServiceTypes
<1> QED
  BY InitTypes, <1>1, <1>2, <1>3, PTL DEF Spec

----------------------------------------------------------------------------
(* The dataset *)

\* The dataset asked for last is the one of the miner's job, unless that needs
\* none: what is built is what will be mined with.
AskedForJob == job \in Jobs /\ job.seed # NoSeed => rxWanted = job.seed

DatasetInv == MinerTypes /\ Rx!OnlyWanted /\ AskedForJob

\* Miner::setJob asks for the dataset it misses, and for nothing else.
LEMMA SetJobAsks ==
    ASSUME DatasetInv, NEW j \in Jobs \cup {NoJob}, NEW i, SetJob(j, i)
    PROVE  [Rx!Next]_Rx!vars /\ (Rx!OnlyWanted /\ AskedForJob)'
<1>1. job' = j
  BY DEF SetJob
<1>2. CASE HasDataset(j) /\ UNCHANGED serviceVars
  BY <1>1, <1>2 DEF DatasetInv, Rx!OnlyWanted, AskedForJob, HasDataset, IsReady, Rx!vars, serviceVars
<1>3. CASE ~HasDataset(j) /\ rxWanted' = j.seed /\ Rx!Ask
  <2>1. Rx!Request
    BY <1>3 DEF Rx!Ask, Rx!Request
  <2> QED
    BY <1>1, <1>3, <2>1 DEF Rx!Next, Rx!OnlyWanted, Rx!Ask, AskedForJob
<1> QED
  BY <1>2, <1>3 DEF SetJob

LEMMA QuietAsks ==
    ASSUME DatasetInv, UNCHANGED <<job, serviceVars>>
    PROVE  [Rx!Next]_Rx!vars /\ (Rx!OnlyWanted /\ AskedForJob)'
  BY DEF DatasetInv, Rx!OnlyWanted, AskedForJob, Rx!vars, serviceVars

LEMMA DatasetStep ==
    DatasetInv /\ [Next]_vars => [Rx!Next]_Rx!vars /\ (Rx!OnlyWanted /\ AskedForJob)'
<1> SUFFICES ASSUME DatasetInv, [Next]_vars
             PROVE  [Rx!Next]_Rx!vars /\ (Rx!OnlyWanted /\ AskedForJob)'
  OBVIOUS
<1> DEFINE Kept == [Rx!Next]_Rx!vars /\ (Rx!OnlyWanted /\ AskedForJob)'
<1>1. ASSUME NEW j \in UserJobs, UserJob(j) PROVE Kept
  BY <1>1, SetJobAsks, QuietAsks DEF UserJob, Jobs, jobVars
<1>2. ASSUME NEW j \in DonateJobs, DonateJob(j) PROVE Kept
  BY <1>2, SetJobAsks DEF DonateJob, Jobs
<1>3. ASSUME DonateEnd PROVE Kept
  <2>1. userJob \in Jobs \cup {NoJob}
    BY DEF DatasetInv, MinerTypes, ServiceTypes, Jobs
  <2> QED
    BY <1>3, <2>1, SetJobAsks, QuietAsks DEF DonateEnd, PauseMiner, jobVars
<1>4. ASSUME PoolLost PROVE Kept
  BY <1>4, QuietAsks DEF PoolLost, PauseMiner, jobVars
<1>5. ASSUME NEW e \in BOOLEAN, SetEnabled(e) PROVE Kept
  BY <1>5, QuietAsks DEF SetEnabled, jobVars, rxVars
<1>6. ASSUME Stop PROVE Kept
  BY <1>6, QuietAsks DEF Stop, jobVars, rxVars
<1>7. ASSUME NEW c \in ConfigChanges, OnConfigChanged(c) PROVE Kept
  BY <1>7, QuietAsks DEF OnConfigChanged, jobVars, rxVars
<1>8. ASSUME Timer PROVE Kept
  BY <1>8, QuietAsks DEF Timer, jobVars, rxVars
<1>9. ASSUME DatasetDone PROVE Kept
  <2>1. Rx!Serve
    BY <1>9 DEF DatasetDone, Rx!Serve, Rx!Build
  <2>2. job' = job
    BY <1>9 DEF DatasetDone, jobVars
  <2> QED
    BY <2>1, <2>2 DEF Rx!Next, Rx!Serve, Rx!Build, Rx!OnlyWanted, AskedForJob, DatasetInv
<1>10. ASSUME OnDatasetReady PROVE Kept
  BY <1>10, QuietAsks DEF OnDatasetReady, jobVars
<1>11. ASSUME Mine \/ EndPause PROVE Kept
  BY <1>11, QuietAsks DEF Mine, EndPause, jobVars, rxVars
<1>13. ASSUME DatasetFails PROVE Kept
  <2>1. Rx!Refuse
    BY <1>13 DEF DatasetFails, Rx!Refuse, Rx!Fail
  <2>2. job' = job
    BY <1>13 DEF DatasetFails, jobVars
  <2> QED
    BY <2>1, <2>2 DEF Rx!Next, Rx!Refuse, Rx!Fail, Rx!OnlyWanted, AskedForJob, DatasetInv
<1>12. ASSUME UNCHANGED vars PROVE Kept
  BY <1>12, QuietAsks DEF vars, jobVars, rxVars
<1> QED
  BY <1>1, <1>2, <1>3, <1>4, <1>5, <1>6, <1>7, <1>8, <1>9, <1>10, <1>11, <1>12, <1>13 DEF Next

LEMMA DatasetHolds == Spec => []DatasetInv
<1>1. Init => Rx!OnlyWanted /\ AskedForJob
  BY JobsAssumption, Zenon DEF Init, Rx!OnlyWanted, AskedForJob
<1>2. DatasetInv /\ [Next]_vars => DatasetInv'
  BY TypeStep, DatasetStep DEF DatasetInv
<1> QED
  BY InitTypes, <1>1, <1>2, PTL DEF Spec, DatasetInv

\* The miner asks of the dataset machinery, and expects of it, only what
\* DatasetService allows, which RxQueue keeps (RxQueue_proofs).
THEOREM UsesDatasetService == Spec => Rx!Spec
<1>1. Init => Rx!Init
  BY Zenon DEF Init, Rx!Init
<1> QED
  BY <1>1, DatasetHolds, DatasetStep, PTL DEF Spec, Rx!Spec

\* The dataset under way is always the one of the miner's job, whatever rounds
\* and callbacks came between: when it is there the miner can go on
\* (Miner::setJob, onDatasetReady).
THEOREM AskedForJobHolds == Spec => []AskedForJob
<1>1. DatasetInv => AskedForJob
  BY DEF DatasetInv
<1> QED
  BY DatasetHolds, <1>1, PTL
----------------------------------------------------------------------------
(* A wanted miner *)

\* A dataset is being built, or its callback is due.
DatasetComes == rxCallback \/ (rxServed # rxWanted /\ rxMemory # "failed")

\* What WantedIsMining says of the state at every moment: a miner that has a
\* pool and is enabled mines or waits for its dataset, but for the three states
\* that WantedIsMining names.  It is never paused with nothing under way that
\* would resume it (Miner::setJob, MinerPrivate::handleJobChange,
\* Miner::setEnabled, Miner::onTimer, Nonce::next).
WantedMinesOrWaits ==
    active /\ enabled => Mining \/ DatasetComes \/ Stopped \/ NoMemory \/ AtEnd

\* Only the dataset of its own job, or the end of a counter, may keep a wanted
\* miner paused.
JobWaits == job.seed # NoSeed /\ (rxCallback \/ rxServed # job.seed)

WaitInv ==
    /\ active => job \in Jobs
    /\ poolActive => userJob \in UserJobs
    /\ active /\ enabled => ~paused \/ ended \/ JobWaits

\* A step that sets the flag at most for the end of a counter keeps the cause of
\* the pause.
LEMMA NoteEndKeeps ==
    ASSUME NoteEnd, ended \in BOOLEAN, ending \in BOOLEAN,
           paused' => paused \/ (ending /\ ~ending'), ~paused \/ ended
    PROVE  ~paused' \/ ended'
  BY DEF NoteEnd

\* Miner::setJob starts the miner or pauses it for the dataset it asks for.
LEMMA SetJobWaits ==
    ASSUME WaitInv, enabled \in BOOLEAN, NEW j \in Jobs, NEW i, SetJob(j, i),
           UNCHANGED <<enabled, rxCallback>>
    PROVE  job' \in Jobs /\ (enabled' => ~paused' \/ JobWaits')
<1>1. job' = j
  BY DEF SetJob
<1>2. CASE HasDataset(j) /\ HandleJobChange(j, i, ResetFor(j, i), TRUE, FlagBefore(j))
  BY <1>1, <1>2 DEF HandleJobChange
<1>3. CASE ~HasDataset(j) /\ Rx!Ask
  BY <1>1, <1>3 DEF HasDataset, Rx!Ask, JobWaits
<1> QED
  BY <1>2, <1>3 DEF SetJob

\* A step that leaves the job, the dataset and the switches alone
LEMMA QuietWaits ==
    ASSUME WaitInv, UNCHANGED <<active, enabled, paused, ended, job, rxCallback, rxServed, poolActive, userJob>>
    PROVE  WaitInv'
  BY DEF WaitInv, JobWaits

LEMMA WaitStep == MinerTypes /\ WaitInv /\ [Next]_vars => WaitInv'
<1> SUFFICES ASSUME MinerTypes, WaitInv, [Next]_vars PROVE WaitInv'
  OBVIOUS
<1> USE DEF WaitInv, MinerTypes, SwitchTypes
<1>1. ASSUME NEW j \in UserJobs, UserJob(j) PROVE WaitInv'
  <2>1. userJob' \in UserJobs /\ UNCHANGED <<enabled, rxCallback>>
    BY <1>1 DEF UserJob
  <2>2. CASE SetJob(j, 0)
    BY <2>1, <2>2, SetJobWaits DEF Jobs
  <2>3. CASE UNCHANGED <<active, jobVars, flagVars, serviceVars>>
    BY <2>1, <2>3 DEF jobVars, flagVars, serviceVars, JobWaits
  <2> QED
    BY <1>1, <2>2, <2>3 DEF UserJob
<1>2. ASSUME NEW j \in DonateJobs, DonateJob(j) PROVE WaitInv'
  <2>1. UNCHANGED <<enabled, rxCallback, poolActive, userJob>> /\ SetJob(j, 1)
    BY <1>2 DEF DonateJob
  <2> QED
    BY <2>1, SetJobWaits DEF Jobs
<1>3. CASE DonateEnd
  <2>1. UNCHANGED <<enabled, rxCallback, poolActive, userJob>>
    BY <1>3 DEF DonateEnd
  <2>2. CASE poolActive /\ SetJob(userJob, 0)
    BY <2>1, <2>2, SetJobWaits DEF Jobs
  <2>3. CASE PauseMiner
    BY <2>1, <2>3 DEF PauseMiner
  <2> QED
    BY <1>3, <2>2, <2>3 DEF DonateEnd
<1>4. CASE PoolLost
  BY <1>4 DEF PoolLost, PauseMiner
<1>5. ASSUME NEW e \in BOOLEAN, SetEnabled(e) PROVE WaitInv'
  <2>1. /\ enabled' = (IF Refused(e, battery_power) THEN enabled ELSE e)
        /\ paused' = (IF Refused(e, battery_power) \/ ~active THEN paused ELSE ~e)
        /\ UNCHANGED <<active, ending, job, rxServed, rxCallback, poolActive, userJob>> /\ NoteEnd
    BY <1>5 DEF SetEnabled, SetEnabledFrom, jobVars, rxVars, serviceVars, networkVars
  <2>2. JobWaits' = JobWaits
    BY <2>1 DEF JobWaits
  <2>3. CASE Refused(e, battery_power)
    BY <2>1, <2>2, <2>3, NoteEndKeeps
  <2> QED
    BY <2>1, <2>2, <2>3
<1>6. CASE Stop
  <2>1. ~paused' \/ ended'
    BY <1>6 DEF Stop, NoteEnd
  <2> QED
    BY <1>6, <2>1 DEF Stop, minerVars, jobVars, networkVars
<1>7. ASSUME NEW c \in ConfigChanges, OnConfigChanged(c) PROVE WaitInv'
  <2>1. /\ UNCHANGED <<active, enabled, job, rxServed, rxCallback, poolActive, userJob>>
        /\ paused' = (paused \/ (ending /\ ~threads')) /\ ending' = (ending /\ threads') /\ NoteEnd
    BY <1>7 DEF OnConfigChanged, minerVars, jobVars, rxVars, serviceVars, networkVars
  <2>2. JobWaits' = JobWaits
    BY <2>1 DEF JobWaits
  <2>3. ~paused \/ ended => ~paused' \/ ended'
    BY <2>1 DEF NoteEnd
  <2> QED
    BY <2>1, <2>2, <2>3
<1>8. CASE Timer
  <2>1. UNCHANGED <<active, ending, job, rxServed, rxCallback, poolActive, userJob>> /\ NoteEnd
    BY <1>8 DEF Timer, OnTimer, jobVars, rxVars, serviceVars, networkVars
  <2>2. JobWaits' = JobWaits
    BY <2>1 DEF JobWaits
  <2>3. PICK e1 \in BOOLEAN, e2 \in BOOLEAN :
          /\ enabled' = e2
          /\ paused' = IF active /\ (e1 # enabled \/ e2 # e1) THEN ~e2 ELSE paused
    BY <1>8, TimerSwitches DEF ResumeTypes
  <2>4. ~paused \/ ended => ~paused' \/ ended' \/ paused' # paused
    BY <2>1, <2>3 DEF NoteEnd
  <2> QED
    BY <2>1, <2>2, <2>3, <2>4
<1>9. CASE DatasetDone \/ DatasetFails
  BY <1>9 DEF DatasetDone, DatasetFails, minerVars, jobVars, flagVars, networkVars, JobWaits
<1>10. CASE OnDatasetReady
  <2>1. UNCHANGED <<active, enabled, job, rxServed, poolActive, userJob>>
    BY <1>10 DEF OnDatasetReady, minerVars, jobVars, serviceVars, networkVars
  <2>2. CASE HandleJobChange(job, jobIndex, reset, active, paused)
    BY <2>1, <2>2 DEF HandleJobChange
  <2>3. CASE ~IsReady(job) /\ UNCHANGED flagVars
    BY <2>1, <2>3 DEF IsReady, JobWaits, flagVars
  <2> QED
    BY <1>10, <2>2, <2>3 DEF OnDatasetReady
<1>11. CASE Mine \/ UNCHANGED vars
  BY <1>11, QuietWaits DEF Mine, vars, minerVars, jobVars, flagVars, rxVars, serviceVars, networkVars
<1>12. CASE EndPause
  <2>1. ended'
    BY <1>12 DEF EndPause, NoteEnd
  <2> QED
    BY <1>12, <2>1 DEF EndPause, minerVars, jobVars, networkVars
<1> QED
  BY <1>1, <1>2, <1>3, <1>4, <1>5, <1>6, <1>7, <1>8, <1>9, <1>10, <1>11, <1>12 DEF Next

\* For any jobs, configurations and number of calls; with DatasetService, which
\* the dataset thread serves, it leaves WantedIsMining to fairness alone.
THEOREM WantedMinesOrWaitsHolds == Spec => []WantedMinesOrWaits
<1>1. Init => WaitInv
  BY DEF Init, WaitInv
<1>2. WaitInv /\ DatasetInv => WantedMinesOrWaits
  <2> SUFFICES ASSUME WaitInv, DatasetInv, active, enabled, ~Mining, ~Stopped, ~NoMemory, ~AtEnd
               PROVE  DatasetComes
    BY DEF WantedMinesOrWaits
  <2>1. job \in Jobs /\ job # NoJob
    BY JobsAssumption DEF WaitInv
  <2>2. job.seed # NoSeed /\ (rxCallback \/ rxServed # job.seed)
    <3>1. CASE paused
      BY <3>1 DEF WaitInv, JobWaits, AtEnd
    <3>2. CASE ~paused
      BY <2>1, <3>2 DEF Mining, Stopped, AtEnd, HasDataset, IsReady
    <3> QED
      BY <3>1, <3>2
  <2>3. rxMemory # "failed"
    BY <2>2 DEF NoMemory
  <2> QED
    BY <2>1, <2>2, <2>3 DEF DatasetInv, AskedForJob, DatasetComes
<1>3. DatasetInv => MinerTypes
  BY DEF DatasetInv
<1> QED
  BY <1>1, <1>2, <1>3, WaitStep, DatasetHolds, PTL DEF Spec
=============================================================================
