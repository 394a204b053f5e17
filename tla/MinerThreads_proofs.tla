------------------------ MODULE MinerThreads_proofs ------------------------
(***************************************************************************)
(* Proofs about MinerThreads, for any threads, jobs and number of calls:   *)
(* no thread keeps a job of before across a change of the algorithm, the   *)
(* join finds every thread on its way out, no thread leaves but for a      *)
(* join, and the global RandomX parameters, which the event loop and the   *)
(* dataset thread both rewrite, are never rewritten under a thread.        *)
(*                                                                         *)
(* A handler that applies another algorithm first joins the threads, and   *)
(* the handler that starts them publishes nothing afterwards: this is what *)
(* TodoInv says of the accesses that are left of a handler.  The dataset   *)
(* thread applies only when the item it takes has another algorithm than   *)
(* the one before, which no item has that is queued while a thread hashes: *)
(* this is what AgreeInv and ParamsInv say.                                *)
(***************************************************************************)
EXTENDS MinerThreads, SequenceTheorems, TLAPS

Types ==
    /\ job \in Jobs \cup {NoJob} /\ arg \in Jobs \cup {NoJob}
    /\ started \in BOOLEAN
    /\ todo \in Seq(Steps)

\* What is left of a handler:
\*   - "apply" comes when the threads are gone, or their join before it;
\*   - "publish" comes last, for a job of another algorithm only when the threads
\*     are gone or "apply" comes before it;
\*   - "spawn" comes in a handler that does not publish.
TodoInv ==
    \A i \in 1..Len(todo) :
        /\ todo[i] = "apply" /\ started => \E k \in 1..(i - 1) : todo[k] = "join"
        /\ todo[i] = "publish" =>
              /\ i = Len(todo) /\ arg # NoJob
              /\ AlgoOf[arg] = Algorithm \/ ~started \/ \E k \in 1..(i - 1) : todo[k] = "apply"
        /\ todo[i] = "spawn" => job # NoJob /\ \A k \in 1..Len(todo) : todo[k] # "publish"
        /\ todo[i] = "apply" => i = Len(todo) - 1 /\ todo[Len(todo)] = "publish"

\* The jobs of the threads have the miner's algorithm.
OfAlgorithm(j) == j \in Jobs \cup {NoJob} /\ (j # NoJob => AlgoOf[j] = Algorithm)

ThreadInv ==
    /\ pc \in [Workers -> Places]
    /\ ret \in [Workers -> {"top", "loop"}]
    /\ read \in [Workers -> Jobs \cup {NoJob}]
    /\ ownJob \in [Workers -> Jobs \cup {NoJob}]
    /\ \A w \in Workers :
          /\ ~started => pc[w] = "none" /\ read[w] = NoJob /\ ownJob[w] = NoJob
          /\ OfAlgorithm(read[w]) /\ OfAlgorithm(ownJob[w])
          /\ pc[w] = "hash" => ownJob[w] # NoJob

IInv == Types /\ TodoInv /\ ThreadInv

LEMMA InitIInv == Init => IInv
<1> SUFFICES ASSUME Init PROVE IInv
  OBVIOUS
<1>1. todo = << >> /\ job = NoJob /\ arg = NoJob /\ started = FALSE
  BY DEF Init
<1>2. Types
  <2>1. << >> \in Seq(Steps)
    OBVIOUS
  <2> QED
    BY <1>1, <2>1 DEF Types
<1>3. TodoInv
  BY <1>1 DEF TodoInv
<1>4. ThreadInv
  BY DEF Init, ThreadInv, Places, OfAlgorithm
<1> QED
  BY <1>2, <1>3, <1>4 DEF IInv

----------------------------------------------------------------------------
(* The handlers *)

\* A handler that neither starts threads nor publishes keeps everything.
LEMMA PlainHandler ==
    ASSUME IInv, UNCHANGED <<job, started, threadVars>>,
           arg' \in Jobs \cup {NoJob}, todo' \in Seq(Steps),
           Idle,
           \A i \in 1..Len(todo') : todo'[i] \notin {"apply", "publish"},
           \A i \in 1..Len(todo') : todo'[i] = "spawn" => job # NoJob
    PROVE  IInv'
<1>1. Types'
  BY DEF IInv, Types
<1>2. TodoInv'
  BY DEF TodoInv, IInv
<1>3. ThreadInv'
  BY DEF ThreadInv, IInv, threadVars, OfAlgorithm, Algorithm
<1> QED
  BY <1>1, <1>2, <1>3 DEF IInv

\* The sequences the handlers are put together from.
Plain  == {"pause", "resume", "touch", "zero", "join"}

LEMMA PartsTyped ==
    /\ \A S, c : \A s \in Seq(S) : If(c, s) \in Seq(S)
    /\ StopThreads \in Seq(Plain)
    /\ StartThreads \in Seq({"touch", "spawn"})
    /\ StartThreads \in Seq(Plain \cup {"spawn"})
    /\ started => Len(StopThreads) = 3 /\ StopThreads[2] = "join"
<1>1. \A S, c : \A s \in Seq(S) : If(c, s) \in Seq(S)
  BY DEF If
<1>2. <<"zero", "join", "touch">> \in Seq(Plain)
  BY DEF Plain
<1>3. StopThreads \in Seq(Plain)
  BY <1>1, <1>2 DEF StopThreads
<1>4. started => Len(StopThreads) = 3 /\ StopThreads[2] = "join"
  BY DEF StopThreads, If
<1> QED
  BY <1>1, <1>3, <1>4 DEF StartThreads, Plain

\* Miner::stop joins the threads, if there are any.
LEMMA StopMinerSteps ==
    /\ StopMiner \in Seq(Plain)
    /\ started => \E k \in 1..Len(StopMiner) : StopMiner[k] = "join"
<1>1. <<"resume", "zero">> \in Seq(Plain) /\ Len(<<"resume", "zero">>) = 2
  BY DEF Plain
<1>2. StopThreads \in Seq(Plain)
  BY PartsTyped
<1>3. /\ StopMiner \in Seq(Plain)
      /\ Len(StopMiner) = 2 + Len(StopThreads)
      /\ \A i \in 1..(2 + Len(StopThreads)) : i > 2 => StopMiner[i] = StopThreads[i - 2]
  BY <1>1, <1>2, ConcatProperties DEF StopMiner
<1>4. ASSUME started PROVE StopMiner[4] = "join" /\ 4 \in 1..Len(StopMiner)
  BY <1>3, <1>4, PartsTyped
<1> QED
  BY <1>3, <1>4

\* MinerPrivate::handleJobChange publishes nothing and joins nobody.
Changes == {"pause", "resume", "touch", "spawn"}

LEMMA JobChangeTyped ==
    \A a : JobChange(a) \in Seq(Changes) /\ JobChange(a) \in Seq(Plain \cup {"spawn"})
<1> TAKE a
<1> DEFINE S == Changes
<1>1. /\ <<"pause">> \in Seq(S) /\ <<"touch">> \in Seq(S) /\ <<"resume">> \in Seq(S)
      /\ StartThreads \in Seq(S)
  BY DEF Changes, StartThreads
<1>2. /\ If(~enabled, <<"pause">>) \in Seq(S)
      /\ If(~started, StartThreads) \in Seq(S)
      /\ If(a /\ enabled, <<"resume">>) \in Seq(S)
  BY <1>1, PartsTyped
<1> HIDE DEF S
<1>3. If(~enabled, <<"pause">>) \o If(~started, StartThreads) \in Seq(S)
  BY <1>2, ConcatProperties
<1>4. (If(~enabled, <<"pause">>) \o If(~started, StartThreads)) \o <<"touch">> \in Seq(S)
  BY <1>1, <1>3, ConcatProperties
<1>5. JobChange(a) \in Seq(S)
  BY <1>2, <1>4, ConcatProperties DEF JobChange
<1> QED
  BY <1>5 DEF S, Changes, Plain

\* Miner::setJob: either the algorithm is the one in force, or the threads are
\* joined before it is applied, and the job is published last.
LEMMA SetJobStep ==
    ASSUME IInv, NEW j \in Jobs, SetJob(j)
    PROVE  IInv'
<1>1. /\ Idle /\ arg' = j
      /\ UNCHANGED <<job, started, threadVars>>
  BY DEF SetJob, Run
<1>2. j # NoJob /\ Jobs \subseteq Nat
  BY JobsAssumption DEF Jobs, NoJob
<1>3. CASE Algorithm # AlgoOf[j]
  <2>1. todo' = StopMiner \o <<"apply", "publish">>
    BY <1>3 DEF SetJob, Run
  <2> DEFINE S == Plain \cup {"apply", "publish"}
             n == Len(StopMiner)
  <2>2. StopMiner \in Seq(S) /\ StopMiner \in Seq(Plain) /\ n \in Nat
    BY StopMinerSteps
  <2>3. <<"apply", "publish">> \in Seq(S)
    OBVIOUS
  <2>4. /\ todo' \in Seq(S)
        /\ Len(todo') = n + 2
        /\ \A i \in 1..(n + 2) :
              todo'[i] = IF i <= n THEN StopMiner[i] ELSE <<"apply", "publish">>[i - n]
    BY <2>1, <2>2, <2>3, ConcatProperties
  <2>5. /\ \A i \in 1..n : todo'[i] \in Plain
        /\ todo'[n + 1] = "apply" /\ todo'[n + 2] = "publish"
        /\ started => \E k \in 1..n : todo'[k] = "join"
    <3>1. \A i \in 1..n : i \in 1..(n + 2) /\ i <= n /\ StopMiner[i] \in Plain
      BY <2>2
    <3>2. \A i \in 1..n : todo'[i] = StopMiner[i]
      BY <2>4, <3>1
    <3>3. n + 1 \in 1..(n + 2) /\ n + 2 \in 1..(n + 2) /\ (n + 1) - n = 1 /\ (n + 2) - n = 2
      BY <2>2
    <3>4. todo'[n + 1] = <<"apply", "publish">>[1] /\ todo'[n + 2] = <<"apply", "publish">>[2]
      BY <2>2, <2>4, <3>3
    <3> QED
      BY <3>1, <3>2, <3>4, StopMinerSteps
  <2>6. \A i \in 1..Len(todo') : i \in 1..n \/ i = n + 1 \/ i = n + 2
    BY <2>2, <2>4
  <2>7. TodoInv'
    <3>1. \A i \in 1..Len(todo') :
            /\ todo'[i] = "apply" => i = n + 1
            /\ todo'[i] = "publish" => i = n + 2
            /\ todo'[i] # "spawn"
      BY <2>5, <2>6 DEF Plain
    <3>2. started => \E k \in 1..((n + 1) - 1) : todo'[k] = "join"
      BY <2>2, <2>5
    <3>3. n + 1 \in 1..((n + 2) - 1) /\ n + 2 = Len(todo') /\ n + 1 = Len(todo') - 1
      BY <2>2, <2>4
    <3>4. \E k \in 1..((n + 2) - 1) : todo'[k] = "apply"
      BY <2>5, <3>3
    <3>5. arg' # NoJob /\ started' = started
      BY <1>1, <1>2
    <3> HIDE DEF n
    <3> QED
      BY <2>5, <3>1, <3>2, <3>3, <3>4, <3>5 DEF TodoInv
  <2>8. Types'
    BY <1>1, <2>4 DEF IInv, Types, Plain, Steps
  <2>9. ThreadInv'
    BY <1>1 DEF IInv, ThreadInv, threadVars, OfAlgorithm, Algorithm
  <2> QED
    BY <2>7, <2>8, <2>9 DEF IInv
<1>4. CASE Algorithm = AlgoOf[j]
  <2> DEFINE S == Plain \cup {"publish"}
             s == If(~IsReady(j), <<"pause", "touch">>)
             n == Len(s)
  <2>1. todo' = s \o <<"publish">>
    BY <1>4 DEF SetJob, Run
  <2>2. <<"pause", "touch">> \in Seq(Plain) /\ <<"publish">> \in Seq(S)
    BY DEF Plain
  <2>3. s \in Seq(Plain)
    BY <2>2, PartsTyped
  <2>4. s \in Seq(S) /\ n \in Nat
    BY <2>3
  <2> HIDE DEF s
  <2>5. /\ todo' \in Seq(S)
        /\ Len(todo') = n + 1
        /\ \A i \in 1..(n + 1) : todo'[i] = IF i <= n THEN s[i] ELSE <<"publish">>[i - n]
    BY <2>1, <2>2, <2>4, ConcatProperties
  <2>6. (\A i \in 1..n : todo'[i] \in Plain) /\ todo'[n + 1] = "publish"
    BY <2>3, <2>4, <2>5
  <2>7. TodoInv'
    BY <1>1, <1>2, <1>4, <2>4, <2>5, <2>6 DEF TodoInv, Plain, Algorithm
  <2>8. Types'
    BY <1>1, <2>5 DEF IInv, Types, Plain, Steps
  <2>9. ThreadInv'
    BY <1>1 DEF IInv, ThreadInv, threadVars, OfAlgorithm, Algorithm
  <2> QED
    BY <2>7, <2>8, <2>9 DEF IInv
<1> QED
  BY <1>3, <1>4

\* What the other handlers leave to do: nothing to publish, and threads are
\* started only when there is a job.
LEMMA HandlerTodo ==
    ASSUME IInv, PoolLost \/ (\E e \in BOOLEAN : SetEnabled(e)) \/ ApiStop \/ Reload \/ OnDatasetReady
    PROVE  /\ todo' \in Seq(Plain \cup {"spawn"})
           /\ todo' \in Seq(Plain) \/ job # NoJob
<1> DEFINE Listed == todo' \in Seq(Plain \cup {"spawn"}) /\ (todo' \in Seq(Plain) \/ job # NoJob)
<1>3. ASSUME NEW s \in Seq(Plain \cup {"spawn"}), todo' = s, s \in Seq(Plain) \/ job # NoJob
      PROVE  Listed
  BY <1>3
<1> HIDE DEF Listed
<1>4. \A s \in Seq(Plain) : s \in Seq(Plain \cup {"spawn"})
  OBVIOUS
<1>5. << >> \in Seq(Plain) /\ << >> \in Seq(Plain \cup {"spawn"})
  OBVIOUS
<1>6. CASE PoolLost
  <2>1. todo' = <<"pause", "touch">> /\ <<"pause", "touch">> \in Seq(Plain)
    BY <1>6 DEF PoolLost, Run, Plain
  <2> QED
    BY <1>3, <1>4, <2>1
<1>7. ASSUME NEW e \in BOOLEAN, SetEnabled(e)
      PROVE  Listed
  <2> DEFINE s == <<IF e THEN "resume" ELSE "pause", "touch">>
  <2>1. s \in Seq(Plain)
    BY DEF Plain
  <2>2. todo' = If(active, s)
    BY <1>7 DEF SetEnabled, Run
  <2> HIDE DEF s
  <2>3. If(active, s) \in Seq(Plain)
    BY <2>1, PartsTyped
  <2> QED
    BY <1>3, <1>4, <2>2, <2>3
<1>8. CASE ApiStop
  <2>1. todo' = StopMiner
    BY <1>8 DEF ApiStop, Run
  <2> QED
    BY <1>3, <1>4, <2>1, StopMinerSteps
<1>9. CASE Reload
  <2>1. todo' = StopThreads \o StartThreads /\ job # NoJob
    BY <1>9 DEF Reload, Run
  <2>2. StopThreads \in Seq(Plain \cup {"spawn"}) /\ StartThreads \in Seq(Plain \cup {"spawn"})
    BY <1>4, PartsTyped
  <2>3. StopThreads \o StartThreads \in Seq(Plain \cup {"spawn"})
    BY <2>2, ConcatProperties
  <2> QED
    BY <1>3, <2>1, <2>3
<1>10. CASE OnDatasetReady
  <2>1. todo' = If(IsReady(job), JobChange(active))
    BY <1>10 DEF OnDatasetReady
  <2>2. CASE IsReady(job)
    <3>1. job # NoJob /\ todo' = JobChange(active)
      BY <2>1, <2>2 DEF IsReady, If
    <3>2. JobChange(active) \in Seq(Plain \cup {"spawn"})
      BY JobChangeTyped
    <3> QED
      BY <1>3, <3>1, <3>2
  <2>3. CASE ~IsReady(job)
    <3>1. todo' = << >>
      BY <2>1, <2>3 DEF If
    <3> QED
      BY <1>3, <1>5, <3>1
  <2> QED
    BY <2>2, <2>3
<1> QED
  BY <1>6, <1>7, <1>8, <1>9, <1>10 DEF Listed

LEMMA HandlerStep ==
    ASSUME IInv, PoolLost \/ (\E e \in BOOLEAN : SetEnabled(e)) \/ ApiStop \/ Reload \/ OnDatasetReady
    PROVE  IInv'
<1>1. /\ Idle
      /\ UNCHANGED <<job, started, threadVars, arg>>
  BY DEF PoolLost, SetEnabled, ApiStop, Reload, OnDatasetReady, Run, Idle
<1>2. arg' \in Jobs \cup {NoJob}
  BY <1>1 DEF IInv, Types
<1>3. todo' \in Seq(Plain \cup {"spawn"}) /\ (todo' \in Seq(Plain) \/ job # NoJob)
  BY HandlerTodo
<1>4. todo' \in Seq(Steps)
  BY <1>3 DEF Plain, Steps
<1>5. \A i \in 1..Len(todo') : todo'[i] \notin {"apply", "publish"}
  BY <1>3 DEF Plain
<1>6. \A i \in 1..Len(todo') : todo'[i] = "spawn" => job # NoJob
  BY <1>3 DEF Plain
<1> QED
  BY <1>1, <1>2, <1>4, <1>5, <1>6, PlainHandler

----------------------------------------------------------------------------
(* One access of the handler that runs *)

LEMMA TailFacts ==
    ASSUME Types, ~Idle
    PROVE  /\ Len(todo) \in Nat /\ 1 \in 1..Len(todo)
           /\ todo[1] = Head(todo)
           /\ Tail(todo) \in Seq(Steps)
           /\ Len(Tail(todo)) = Len(todo) - 1
           /\ \A i \in 1..(Len(todo) - 1) : i + 1 \in 1..Len(todo) /\ Tail(todo)[i] = todo[i + 1]
  BY DEF Types, Idle

\* Going on in the list keeps what it says, unless the access it passes is one
\* that the rest relies on.
LEMMA TailTodo ==
    ASSUME Types, TodoInv, ~Idle, todo' = Tail(todo), UNCHANGED <<job, arg>>,
           \/ Head(todo) \notin {"join", "spawn"} /\ UNCHANGED started
           \/ started' = FALSE
           \/ Head(todo) = "spawn"
    PROVE  TodoInv'
<1>1. /\ Len(todo) \in Nat /\ todo[1] = Head(todo)
      /\ Len(todo') = Len(todo) - 1
      /\ \A i \in 1..(Len(todo) - 1) : i + 1 \in 1..Len(todo) /\ todo'[i] = todo[i + 1]
  BY TailFacts
<1> SUFFICES ASSUME NEW i \in 1..Len(todo')
             PROVE  /\ todo'[i] = "apply" /\ started' => \E k \in 1..(i - 1) : todo'[k] = "join"
                    /\ todo'[i] = "publish" =>
                          /\ i = Len(todo') /\ arg' # NoJob
                          /\ \/ AlgoOf[arg'] = Algorithm' \/ ~started'
                             \/ \E k \in 1..(i - 1) : todo'[k] = "apply"
                    /\ todo'[i] = "spawn" => job' # NoJob /\ \A k \in 1..Len(todo') : todo'[k] # "publish"
                    /\ todo'[i] = "apply" => i = Len(todo') - 1 /\ todo'[Len(todo')] = "publish"
  BY Zenon DEF TodoInv
<1>2. i + 1 \in 1..Len(todo) /\ i \in 1..(Len(todo) - 1) /\ todo'[i] = todo[i + 1]
  BY <1>1
<1>3. ASSUME NEW k \in 1..((i + 1) - 1), todo[k] # Head(todo)
      PROVE  k - 1 \in 1..(i - 1) /\ todo'[k - 1] = todo[k]
  <2>1. k # 1
    BY <1>1, <1>3
  <2>2. k - 1 \in 1..(i - 1) /\ k - 1 \in 1..(Len(todo) - 1) /\ (k - 1) + 1 = k
    BY <1>1, <1>2, <2>1
  <2> QED
    BY <1>1, <2>2
<1>4. ASSUME todo'[i] = "apply"
      PROVE  /\ i = Len(todo') - 1 /\ todo'[Len(todo')] = "publish"
             /\ started' => \E k \in 1..(i - 1) : todo'[k] = "join"
  <2>1. /\ i + 1 = Len(todo) - 1 /\ todo[Len(todo)] = "publish"
        /\ started => \E k \in 1..((i + 1) - 1) : todo[k] = "join"
    BY <1>2, <1>4 DEF TodoInv
  <2>2. todo'[Len(todo')] = "publish"
    <3>1. Len(todo) - 1 \in 1..(Len(todo) - 1) /\ (Len(todo) - 1) + 1 = Len(todo)
      BY <1>1, <1>2
    <3> QED
      BY <1>1, <2>1, <3>1
  <2>3. Head(todo) # "spawn"
    <3>1. Len(todo) \in 1..Len(todo) /\ 1 \in 1..Len(todo)
      BY <1>1, <1>2
    <3> QED
      BY <1>1, <2>1, <3>1 DEF TodoInv
  <2>4. ASSUME started' PROVE \E k \in 1..(i - 1) : todo'[k] = "join"
    <3>1. started /\ Head(todo) # "join"
      BY <2>3, <2>4
    <3>2. PICK k \in 1..((i + 1) - 1) : todo[k] = "join"
      BY <2>1, <3>1
    <3> QED
      BY <1>3, <3>1, <3>2
  <2> QED
    BY <1>1, <1>2, <2>1, <2>2, <2>4
<1>5. ASSUME todo'[i] = "publish"
      PROVE  /\ i = Len(todo') /\ arg' # NoJob
             /\ \/ AlgoOf[arg'] = Algorithm' \/ ~started'
                \/ \E k \in 1..(i - 1) : todo'[k] = "apply"
  <2>1. /\ i + 1 = Len(todo) /\ arg # NoJob
        /\ \/ AlgoOf[arg] = Algorithm \/ ~started
           \/ \E k \in 1..((i + 1) - 1) : todo[k] = "apply"
    BY <1>2, <1>5 DEF TodoInv
  <2>2. Algorithm' = Algorithm
    BY DEF Algorithm
  <2>3. Head(todo) # "spawn"
    <3>1. Len(todo) \in 1..Len(todo) /\ 1 \in 1..Len(todo)
      BY <1>1, <1>2
    <3> QED
      BY <1>1, <1>2, <1>5, <3>1 DEF TodoInv
  <2>4. CASE AlgoOf[arg] = Algorithm \/ ~started
    BY <1>1, <1>2, <2>1, <2>2, <2>3, <2>4
  <2>5. ASSUME NEW k \in 1..((i + 1) - 1), todo[k] = "apply"
        PROVE  ~started' \/ \E m \in 1..(i - 1) : todo'[m] = "apply"
    <3>1. CASE Head(todo) # "apply"
      BY <1>3, <2>5, <3>1
    <3>2. CASE Head(todo) = "apply"
      <4>1. 1 \in 1..Len(todo) /\ (started => \E m \in 1..(1 - 1) : todo[m] = "join")
        BY <1>1, <1>2, <3>2 DEF TodoInv
      <4> QED
        BY <3>2, <4>1
    <3> QED
      BY <3>1, <3>2
  <2> QED
    BY <1>1, <1>2, <2>1, <2>4, <2>5
<1>6. ASSUME todo'[i] = "spawn"
      PROVE  job' # NoJob /\ \A k \in 1..Len(todo') : todo'[k] # "publish"
  <2>1. job # NoJob /\ \A k \in 1..Len(todo) : todo[k] # "publish"
    BY <1>2, <1>6 DEF TodoInv
  <2> QED
    BY <1>1, <2>1
<1> QED
  BY <1>4, <1>5, <1>6

LEMMA AccessStep ==
    ASSUME IInv, SetNonce \/ Join \/ Spawn \/ Apply
    PROVE  IInv'
<1>1. /\ ~Idle /\ todo' = Tail(todo) /\ UNCHANGED <<job, arg>>
  BY DEF SetNonce, Join, Spawn, Apply, Does
<1>2. Types'
  <2>1. todo' \in Seq(Steps)
    BY <1>1, TailFacts DEF IInv
  <2>2. started' \in BOOLEAN
    BY DEF SetNonce, Join, Spawn, Apply, IInv, Types
  <2> QED
    BY <1>1, <2>1, <2>2 DEF IInv, Types
<1>3. ASSUME UNCHANGED <<started, threadVars>>
      PROVE  ThreadInv'
  BY <1>1, <1>3 DEF IInv, ThreadInv, threadVars, OfAlgorithm, Algorithm
<1>4. CASE SetNonce \/ Apply
  <2>1. /\ Head(todo) \notin {"join", "spawn"}
        /\ UNCHANGED <<started, threadVars>>
    BY <1>4 DEF SetNonce, Apply, Does
  <2>2. TodoInv'
    BY <1>1, <2>1, TailTodo DEF IInv
  <2> QED
    BY <1>2, <1>3, <2>1, <2>2 DEF IInv
<1>5. CASE Join
  <2>1. started' = FALSE /\ Threads("none")
    BY <1>5 DEF Join
  <2>2. TodoInv'
    BY <1>1, <2>1, TailTodo DEF IInv
  <2>3. ThreadInv'
    BY <2>1 DEF ThreadInv, Threads, OfAlgorithm, Places
  <2> QED
    BY <1>2, <2>2, <2>3 DEF IInv
<1>6. CASE Spawn
  <2>1. Head(todo) = "spawn" /\ started' = TRUE /\ Threads("top")
    BY <1>6 DEF Spawn, Does
  <2>2. TodoInv'
    BY <1>1, <2>1, TailTodo DEF IInv
  <2>3. ThreadInv'
    BY <2>1 DEF ThreadInv, Threads, OfAlgorithm, Places
  <2> QED
    BY <1>2, <2>2, <2>3 DEF IInv
<1> QED
  BY <1>4, <1>5, <1>6

\* "publish" is the only access left: when threads run, the job that is
\* published has the miner's algorithm.
LEMMA PublishFacts ==
    ASSUME IInv, Publish
    PROVE  /\ Len(todo) = 1 /\ todo[1] = "publish"
           /\ arg \in Jobs /\ arg # NoJob /\ job' = arg /\ arg' = NoJob
           /\ started => AlgoOf[arg] = Algorithm
           /\ todo' \in Seq(Plain \cup {"spawn"})
           /\ Algorithm' = AlgoOf[arg]
<1>1. ~Idle /\ Head(todo) = "publish"
  BY DEF Publish, Does
<1>2. 1 \in 1..Len(todo) /\ todo[1] = "publish"
  BY <1>1, TailFacts DEF IInv
<1>3. /\ 1 = Len(todo) /\ arg # NoJob
      /\ AlgoOf[arg] = Algorithm \/ ~started \/ \E k \in 1..(1 - 1) : todo[k] = "apply"
  BY <1>2 DEF IInv, TodoInv
<1>4. job' = arg /\ arg' = NoJob
  BY DEF Publish
<1>5. todo' \in Seq(Plain \cup {"spawn"})
  <2>1. << >> \in Seq(Plain \cup {"spawn"})
    OBVIOUS
  <2>2. todo' = JobChange(TRUE) \/ todo' = << >>
    BY DEF Publish
  <2> QED
    BY <2>1, <2>2, JobChangeTyped
<1> QED
  BY <1>2, <1>3, <1>4, <1>5 DEF IInv, Types, Algorithm

LEMMA PublishStep ==
    ASSUME IInv, Publish
    PROVE  IInv'
<1>1. UNCHANGED <<started, threadVars>>
  BY DEF Publish
<1>2. /\ arg \in Jobs /\ arg # NoJob /\ job' = arg /\ arg' = NoJob
      /\ started => AlgoOf[arg] = Algorithm
      /\ todo' \in Seq(Plain \cup {"spawn"})
      /\ Algorithm' = AlgoOf[arg]
  BY PublishFacts
<1>3. Types'
  BY <1>1, <1>2 DEF IInv, Types, Plain, Steps
<1>4. TodoInv'
  BY <1>2 DEF TodoInv, Plain
<1>5. ThreadInv'
  BY <1>1, <1>2 DEF IInv, ThreadInv, threadVars, OfAlgorithm
<1> QED
  BY <1>3, <1>4, <1>5 DEF IInv

----------------------------------------------------------------------------
(* The threads *)

\* A step of a thread leaves the event loop's part alone; the job it copies is
\* the miner's.
LEMMA WorkerStep ==
    ASSUME IInv, NEW w \in Workers, Worker(w) \/ Exhaust(w)
    PROVE  IInv'
<1>1. UNCHANGED <<job, arg, started, todo>>
  BY DEF Worker, Top, Test, Sleep, Wake, Loop, Hash, Exhaust, End, Bottom, Consume, Read, Adopt, Vm,
         Moves, Consumes, SharedVars, loopVars
<1>2. Types' /\ TodoInv' /\ Algorithm' = Algorithm
  BY <1>1 DEF IInv, Types, TodoInv, Algorithm
<1> USE DEF ThreadInv, OfAlgorithm
<1>3. ASSUME NEW to \in Places, pc' = [pc EXCEPT ![w] = to], to # "none",
             pc[w] # "none",
             ret' \in [Workers -> {"top", "loop"}],
             to = "hash" => ownJob'[w] # NoJob,
             read' \in [Workers -> Jobs \cup {NoJob}], ownJob' \in [Workers -> Jobs \cup {NoJob}],
             \A v \in Workers : v # w => read'[v] = read[v] /\ ownJob'[v] = ownJob[v],
             OfAlgorithm(read'[w]), OfAlgorithm(ownJob'[w])
      PROVE  ThreadInv'
  <2>1. started
    BY <1>3 DEF IInv
  <2> QED
    BY <1>1, <1>2, <1>3, <2>1 DEF IInv
<1>4. ASSUME NEW from, NEW to \in Places \ {"none"}, Moves(w, from, to), from # "none",
             to = "hash" => ownJob[w] # NoJob
      PROVE  ThreadInv'
  BY <1>1, <1>3, <1>4 DEF IInv, Moves, Go, JobOfThread
<1>5. ASSUME NEW from, NEW to \in {"top", "loop"}, Consumes(w, from, to), from # "none"
      PROVE  ThreadInv'
  BY <1>1, <1>3, <1>5 DEF IInv, Consumes, Go, JobOfThread, Places
<1>6. ASSUME Returns(w), pc[w] # "none", UNCHANGED <<read, own, ownJob>>
      PROVE  ThreadInv'
  <2>1. ret[w] \in Places /\ ret[w] # "none" /\ ret[w] # "hash"
    BY DEF IInv, Places
  <2> QED
    BY <1>1, <1>3, <1>6, <2>1 DEF IInv, Returns, Go
<1>7. ThreadInv'
  <2>1. CASE Top(w)
    BY <1>4, <2>1 DEF Top, Places
  <2>2. CASE Test(w)
    BY <1>4, <2>2 DEF Test, Places
  <2>3. CASE Sleep(w) \/ Hash(w) \/ Exhaust(w)
    BY <1>4, <2>3 DEF Sleep, Hash, Exhaust, Places
  <2>4. CASE Wake(w)
    BY <1>4, <1>5, <2>4 DEF Wake, Places
  <2>5. CASE Loop(w)
    BY <1>4, <2>5 DEF Loop, Places
  <2>6. CASE End(w)
    BY <1>1, <1>3, <2>6 DEF End, Go, JobOfThread, IInv, Places
  <2>7. CASE Bottom(w)
    BY <1>4, <1>5, <2>7 DEF Bottom, Places
  <2>8. CASE Consume(w)
    <3>1. CASE Returns(w)
      BY <1>6, <2>8, <3>1 DEF Consume, JobOfThread
    <3>2. CASE Go(w, "read") /\ UNCHANGED ret
      BY <1>1, <1>3, <2>8, <3>2 DEF Consume, JobOfThread, Go, IInv, Places
    <3> QED
      BY <2>8, <3>1, <3>2 DEF Consume
  <2>9. CASE Read(w)
    <3>1. started
      BY <2>9 DEF Read, IInv
    <3>2. OfAlgorithm(job)
      BY DEF IInv, Types, Algorithm
    <3> QED
      BY <1>1, <1>3, <2>9, <3>2 DEF Read, Go, IInv, Places
  <2>10. CASE Adopt(w)
    <3>1. /\ pc[w] # "none"
          /\ \E to \in {"vm", "full"} : pc' = [pc EXCEPT ![w] = to]
      BY <2>10 DEF Adopt, Go
    <3> QED
      BY <1>1, <1>3, <2>10, <3>1 DEF Adopt, IInv, Places
  <2>11. CASE Vm(w)
    BY <1>6, <2>11 DEF Vm
  <2> QED
    BY <2>1, <2>2, <2>3, <2>4, <2>5, <2>6, <2>7, <2>8, <2>9, <2>10, <2>11 DEF Worker
<1> QED
  BY <1>2, <1>7 DEF IInv

----------------------------------------------------------------------------

LEMMA NextIInv == IInv /\ [Next]_vars => IInv'
<1> SUFFICES ASSUME IInv, [Next]_vars PROVE IInv'
  OBVIOUS
<1>1. CASE \E j \in Jobs : SetJob(j)
  BY <1>1, SetJobStep
<1>2. CASE PoolLost \/ (\E e \in BOOLEAN : SetEnabled(e)) \/ ApiStop \/ Reload \/ OnDatasetReady
  BY <1>2, HandlerStep
<1>3. CASE SetNonce \/ Join \/ Spawn \/ Apply
  BY <1>3, AccessStep
<1>4. CASE Publish
  BY <1>4, PublishStep
<1>5. CASE \E w \in Workers : Worker(w) \/ Exhaust(w)
  BY <1>5, WorkerStep
<1>6. CASE DatasetThread \/ UNCHANGED vars
  <2>1. UNCHANGED <<job, arg, started, todo, threadVars>>
    BY <1>6 DEF DatasetThread, TakeBack, ApplyBegins, ApplyEnds, Finish, loopVars, vars
  <2> QED
    BY <2>1 DEF IInv, Types, TodoInv, ThreadInv, OfAlgorithm, threadVars, Algorithm
<1> QED
  BY <1>1, <1>2, <1>3, <1>4, <1>5, <1>6 DEF Next, Calls, EventLoop

LEMMA IInvHolds == Spec => []IInv
  BY InitIInv, NextIInv, PTL DEF Spec

----------------------------------------------------------------------------
(* The dataset *)

\* The dataset asked for last is the one of the job the threads can read: when
\* it is there, a thread that waits for it can go on.
AskedForJob == job # NoJob => wanted = SeedOf[job]

\* The storage has the algorithm of the newest item once that is taken back, and
\* that algorithm is of a job with the seed asked for last; nothing is served
\* while there is work.
StorageInv ==
    /\ Pending => served = NoSeed
    /\ ~queued => storageAlgo = wantedAlgo
    /\ wanted # NoSeed => \E k \in Jobs : SeedOf[k] = wanted /\ AlgoOf[k] = wantedAlgo

RxTypes ==
    /\ wanted \in Seeds \cup {NoSeed} /\ served \in Seeds \cup {NoSeed}
    /\ memory \in {"none", "failed", "had"}
    /\ callback \in BOOLEAN /\ queued \in BOOLEAN
    /\ rxStep \in {"idle", "apply", "applying", "build"}
    /\ applied \in Algos \cup {Torn} /\ wantedAlgo \in Algos /\ storageAlgo \in Algos

DatasetInv == RxTypes /\ Rx!OnlyWanted /\ AskedForJob /\ StorageInv

LEMMA SeedOfJob == \A j \in Jobs : SeedOf[j] \in Seeds /\ SeedOf[j] # NoSeed /\ j # NoJob
  BY JobsAssumption DEF Jobs, NoJob

\* What the dataset thread does to the service
LEMMA FinishStep ==
    ASSUME DatasetInv, Finish
    PROVE  [Rx!Next]_Rx!vars /\ DatasetInv'
<1>1. /\ rxStep = "build" /\ rxStep' = "idle"
      /\ UNCHANGED <<job, wanted, queued, wantedAlgo, storageAlgo, applied>>
  BY DEF Finish, Rx!Obtain, Rx!Build, Rx!Fail
<1>2. served = NoSeed
  BY <1>1 DEF DatasetInv, StorageInv, Pending
<1>3. AskedForJob' /\ callback' \in BOOLEAN
  BY <1>1 DEF DatasetInv, RxTypes, AskedForJob, Finish
<1>4. CASE queued
  <2>1. Rx!Obtain \/ UNCHANGED <<wanted, served, memory>>
    BY <1>4 DEF Finish
  <2>2. served' = served /\ memory' \in {"none", "failed", "had"}
    BY <2>1 DEF Rx!Obtain, DatasetInv, RxTypes
  <2>3. DatasetInv'
    BY <1>1, <1>2, <1>3, <1>4, <2>2 DEF DatasetInv, RxTypes, Rx!OnlyWanted, StorageInv
  <2> QED
    BY <2>1, <2>3 DEF Rx!Next, Rx!Allocate, Rx!vars
<1>5. CASE ~queued
  <2>1. CASE Rx!Build
    <3>1. served' = wanted /\ memory' = "had"
      BY <2>1 DEF Rx!Build
    <3>2. DatasetInv'
      BY <1>1, <1>3, <1>5, <3>1 DEF DatasetInv, RxTypes, Rx!OnlyWanted, StorageInv, Pending
    <3> QED
      BY <2>1, <3>2 DEF Rx!Next, Rx!Serve
  <2>2. CASE Rx!Fail
    <3>1. served' = served /\ memory' = "failed"
      BY <2>2 DEF Rx!Fail
    <3>2. DatasetInv'
      BY <1>1, <1>2, <1>3, <1>5, <3>1 DEF DatasetInv, RxTypes, Rx!OnlyWanted, StorageInv
    <3> QED
      BY <2>2, <3>2 DEF Rx!Next, Rx!Refuse
  <2> QED
    BY <1>5, <2>1, <2>2 DEF Finish
<1> QED
  BY <1>4, <1>5

LEMMA AlgosOfJobs == NoAlgo \in Algos /\ \A j \in Jobs : AlgoOf[j] \in Algos
  BY DEF Algos

LEMMA PublishAsks ==
    ASSUME IInv, DatasetInv, Publish
    PROVE  [Rx!Next]_Rx!vars /\ DatasetInv'
<1>1. /\ arg \in Jobs /\ arg # NoJob /\ job' = arg
      /\ UNCHANGED <<callback, rxStep, storageAlgo, applied>>
  BY PublishFacts DEF Publish, dtVars
<1>2. SeedOf[arg] \in Seeds /\ SeedOf[arg] # NoSeed
  BY <1>1, SeedOfJob
<1>3. CASE IsReady(arg) /\ UNCHANGED <<wanted, served, memory, queued, wantedAlgo>>
  <2>1. wanted = SeedOf[arg]
    BY <1>2, <1>3 DEF IsReady, DatasetInv, Rx!OnlyWanted
  <2>2. AskedForJob'
    BY <1>1, <1>3, <2>1 DEF AskedForJob
  <2> QED
    BY <1>1, <1>3, <2>2 DEF DatasetInv, RxTypes, Rx!OnlyWanted, StorageInv, Pending, Rx!vars
<1>4. CASE /\ wanted' = SeedOf[arg] /\ Rx!Ask
           /\ IF Pending /\ wanted = SeedOf[arg]
              THEN UNCHANGED <<queued, wantedAlgo>>
              ELSE queued' = TRUE /\ wantedAlgo' = AlgoOf[arg]
  <2>1. Rx!Request
    BY <1>4 DEF Rx!Request
  <2>2. served' = NoSeed /\ memory' \in {"none", "failed", "had"}
    BY <1>4 DEF Rx!Ask, Rx!Forget, DatasetInv, RxTypes
  <2>3. queued' \in BOOLEAN /\ wantedAlgo' \in Algos
    BY <1>1, <1>4, AlgosOfJobs DEF DatasetInv, RxTypes
  <2>4. /\ ~queued' => storageAlgo' = wantedAlgo'
        /\ \E k \in Jobs : SeedOf[k] = wanted' /\ AlgoOf[k] = wantedAlgo'
    <3>1. CASE Pending /\ wanted = SeedOf[arg]
      BY <1>1, <1>2, <1>4, <3>1 DEF DatasetInv, StorageInv
    <3>2. CASE ~(Pending /\ wanted = SeedOf[arg])
      BY <1>1, <1>4, <3>2
    <3> QED
      BY <3>1, <3>2
  <2>5. DatasetInv'
    BY <1>1, <1>2, <1>4, <2>2, <2>3, <2>4
       DEF DatasetInv, RxTypes, Rx!OnlyWanted, AskedForJob, StorageInv
  <2> QED
    BY <2>1, <2>5 DEF Rx!Next
<1> QED
  BY <1>3, <1>4 DEF Publish

LEMMA DatasetStep == IInv /\ DatasetInv /\ [Next]_vars => [Rx!Next]_Rx!vars /\ DatasetInv'
<1> SUFFICES ASSUME IInv, DatasetInv, [Next]_vars PROVE [Rx!Next]_Rx!vars /\ DatasetInv'
  OBVIOUS
<1>1. ASSUME UNCHANGED <<job, wanted, served, memory, queued, wantedAlgo, rxStep, storageAlgo>>,
             callback' \in BOOLEAN, applied' \in Algos \cup {Torn}
      PROVE  [Rx!Next]_Rx!vars /\ DatasetInv'
  BY <1>1 DEF DatasetInv, RxTypes, Rx!OnlyWanted, AskedForJob, StorageInv, Pending, Rx!vars
<1>2. callback \in BOOLEAN /\ applied \in Algos \cup {Torn}
  BY DEF DatasetInv, RxTypes
<1>3. CASE TakeBack \/ ApplyBegins \/ ApplyEnds
  <2>1. UNCHANGED <<job, wanted, served, memory, callback, wantedAlgo>>
    BY <1>3 DEF TakeBack, ApplyBegins, ApplyEnds, rxVars
  <2>2. RxTypes'
    BY <1>3, <2>1 DEF TakeBack, ApplyBegins, ApplyEnds, rxVars, DatasetInv, RxTypes
  <2>3. StorageInv'
    BY <1>3, <2>1 DEF TakeBack, ApplyBegins, ApplyEnds, rxVars, DatasetInv, StorageInv, Pending
  <2> QED
    BY <2>1, <2>2, <2>3 DEF DatasetInv, Rx!OnlyWanted, AskedForJob, Rx!vars
<1>4. CASE OnDatasetReady
  BY <1>1, <1>2, <1>4 DEF OnDatasetReady, dtVars
<1>5. CASE Calls
  BY <1>1, <1>2, <1>5 DEF Calls, SetJob, PoolLost, SetEnabled, ApiStop, Reload, rxVars, dtVars
<1>6. CASE SetNonce \/ Join \/ Spawn
  BY <1>1, <1>2, <1>6 DEF SetNonce, Join, Spawn, rxVars, dtVars
<1>7. CASE Apply
  <2>1. ~Idle /\ Head(todo) = "apply"
    BY <1>7 DEF Apply, Does
  <2>2. 1 \in 1..Len(todo) /\ todo[1] = "apply" /\ Len(todo) \in 1..Len(todo)
    BY <2>1, TailFacts DEF IInv
  <2>3. todo[Len(todo)] = "publish"
    BY <2>2 DEF IInv, TodoInv
  <2>4. arg \in Jobs
    BY <2>2, <2>3 DEF IInv, TodoInv, Types
  <2> QED
    BY <1>1, <1>2, <1>7, <2>4, AlgosOfJobs DEF Apply, rxVars, dtVars
<1>8. CASE \E w \in Workers : Worker(w) \/ Exhaust(w)
  BY <1>1, <1>2, <1>8 DEF Worker, Top, Test, Sleep, Wake, Loop, Hash, Exhaust, End, Bottom, Consume,
     Read, Adopt, Vm, Moves, Consumes, SharedVars, rxVars, dtVars
<1>9. CASE UNCHANGED vars
  BY <1>1, <1>2, <1>9 DEF vars, rxVars, dtVars
<1> QED
  BY <1>3, <1>4, <1>5, <1>6, <1>7, <1>8, <1>9, FinishStep, PublishAsks
     DEF Next, EventLoop, DatasetThread

LEMMA DatasetHolds == Spec => []DatasetInv
<1>1. Init => DatasetInv
  <2>1. Init => RxTypes
    BY AlgosOfJobs DEF Init, RxTypes
  <2>2. Init => Rx!OnlyWanted /\ AskedForJob
    BY Zenon DEF Init, Rx!OnlyWanted, AskedForJob
  <2>3. Init => StorageInv
    BY Zenon DEF Init, StorageInv
  <2> QED
    BY <2>1, <2>2, <2>3 DEF DatasetInv
<1>2. IInv /\ DatasetInv /\ [Next]_vars => DatasetInv'
  BY DatasetStep
<1> QED
  BY <1>1, <1>2, IInvHolds, PTL DEF Spec

\* The handlers, cut into their accesses, ask of the dataset machinery only what
\* DatasetService allows.
THEOREM UsesDatasetService == Spec => Rx!Spec
<1>1. Init => Rx!Init
  BY Zenon DEF Init, Rx!Init
<1> QED
  BY <1>1, DatasetHolds, DatasetStep, IInvHolds, PTL DEF Spec, Rx!Spec

\* A thread that takes the miner's job waits for the dataset that was asked for
\* last (Miner::setJob, CpuWorker::allocateRandomX_VM).
THEOREM AskedForJobHolds == Spec => []AskedForJob
<1>1. DatasetInv => AskedForJob
  BY DEF DatasetInv
<1> QED
  BY DatasetHolds, <1>1, PTL

----------------------------------------------------------------------------
(* The join of the threads *)

\* A join is one of the handler's accesses: there are threads to join, it comes
\* once, and the sequence is zero by then.
JoinsOnce(s) ==
    \A i \in 1..Len(s) : s[i] = "join" =>
        /\ started
        /\ \A k \in 1..Len(s) : s[k] = "join" => k = i
        /\ i > 1 /\ s[i - 1] = "zero"

NoJoin(s) == \A i \in 1..Len(s) : s[i] # "join"

StopInv ==
    /\ \A i \in 1..Len(todo) : todo[i] = "join" =>
          /\ started
          /\ \A k \in 1..Len(todo) : todo[k] = "join" => k = i
          /\ (i = 1 /\ sequence = 0) \/ (i > 1 /\ todo[i - 1] = "zero")
    /\ started => \A w \in Workers : pc[w] # "none"

\* A thread that no step of its own takes further
Stuck(w) ==
    \/ pc[w] = "none"
    \/ pc[w] = "sleep" /\ paused /\ sequence # 0
    \/ pc[w] = "vm" /\ ~IsReady(ownJob[w]) /\ sequence # 0

\* While the event loop waits in the join, no thread waits for anything: neither
\* for the end of a pause nor for a dataset.
JoinFindsThemGoing == JoinPending => \A w \in Workers : ~Stuck(w)

LEMMA JoinsConcat ==
    ASSUME NEW S, NEW s \in Seq(S), NEW t \in Seq(S), JoinsOnce(s), NoJoin(t)
    PROVE  JoinsOnce(s \o t) /\ JoinsOnce(t \o s)
<1>1. /\ s \o t \in Seq(S) /\ t \o s \in Seq(S)
      /\ Len(s) \in Nat /\ Len(t) \in Nat
      /\ Len(s \o t) = Len(s) + Len(t) /\ Len(t \o s) = Len(t) + Len(s)
      /\ \A i \in 1..(Len(s) + Len(t)) :
            (s \o t)[i] = IF i <= Len(s) THEN s[i] ELSE t[i - Len(s)]
      /\ \A i \in 1..(Len(t) + Len(s)) :
            (t \o s)[i] = IF i <= Len(t) THEN t[i] ELSE s[i - Len(t)]
  BY ConcatProperties
<1> DEFINE st == s \o t
           ts == t \o s
<1>2. \A i \in 1..Len(st) : st[i] = "join" => i \in 1..Len(s) /\ s[i] = "join"
  BY <1>1 DEF NoJoin
<1>3. \A i \in 1..Len(ts) : ts[i] = "join" => i - Len(t) \in 1..Len(s) /\ s[i - Len(t)] = "join"
  BY <1>1 DEF NoJoin
<1>4. JoinsOnce(st)
  BY <1>1, <1>2 DEF JoinsOnce
<1>5. JoinsOnce(ts)
  <2> SUFFICES ASSUME NEW i \in 1..Len(ts), ts[i] = "join"
               PROVE  /\ started
                      /\ \A k \in 1..Len(ts) : ts[k] = "join" => k = i
                      /\ i > 1 /\ ts[i - 1] = "zero"
    BY DEF JoinsOnce
  <2>1. i - Len(t) \in 1..Len(s) /\ s[i - Len(t)] = "join"
    BY <1>3
  <2>2. /\ started /\ i - Len(t) > 1 /\ s[(i - Len(t)) - 1] = "zero"
        /\ \A k \in 1..Len(s) : s[k] = "join" => k = i - Len(t)
    BY <2>1 DEF JoinsOnce
  <2>3. \A k \in 1..Len(ts) : ts[k] = "join" => k = i
    <3> SUFFICES ASSUME NEW k \in 1..Len(ts), ts[k] = "join" PROVE k = i
      OBVIOUS
    <3>1. k - Len(t) = i - Len(t)
      BY <1>3, <2>2
    <3> QED
      BY <1>1, <3>1
  <2>4. i > 1 /\ i - 1 \in 1..(Len(t) + Len(s)) /\ ~(i - 1 <= Len(t))
        /\ (i - 1) - Len(t) = (i - Len(t)) - 1
    BY <1>1, <2>1, <2>2
  <2> QED
    BY <1>1, <2>2, <2>3, <2>4
<1> QED
  BY <1>4, <1>5

\* Both ways to stop the threads, and what can follow
LEMMA StopsJoinOnce ==
    /\ JoinsOnce(StopMiner) /\ StopMiner \in Seq(Steps)
    /\ JoinsOnce(StopThreads \o StartThreads)
<1>1. <<"zero", "join", "touch">> \in Seq(Steps) /\ << >> \in Seq(Steps)
  BY DEF Steps
<1>2. started => JoinsOnce(<<"zero", "join", "touch">>)
  BY DEF JoinsOnce
<1>3. JoinsOnce(<< >>)
  BY DEF JoinsOnce
<1>4. JoinsOnce(StopThreads) /\ StopThreads \in Seq(Steps)
  BY <1>1, <1>2, <1>3 DEF StopThreads, If
<1>5. /\ <<"resume", "zero">> \in Seq(Steps) /\ NoJoin(<<"resume", "zero">>)
      /\ StartThreads \in Seq(Steps) /\ NoJoin(StartThreads)
  BY DEF Steps, NoJoin, StartThreads
<1>6. StopMiner \in Seq(Steps)
  BY <1>4, <1>5, ConcatProperties DEF StopMiner
<1> QED
  BY <1>4, <1>5, <1>6, JoinsConcat DEF StopMiner

LEMMA NoJoinIn ==
    /\ \A s \in Seq(Steps \ {"join"}) : NoJoin(s)
    /\ \A s : NoJoin(s) => JoinsOnce(s)
  BY DEF NoJoin, JoinsOnce

LEMMA RunStop ==
    ASSUME StopInv, JoinsOnce(todo'), UNCHANGED <<started, pc, sequence>>
    PROVE  StopInv'
  BY DEF StopInv, JoinsOnce

\* What a handler leaves to do joins the threads once.
LEMMA HandlersJoinOnce ==
    ASSUME IInv, Calls \/ OnDatasetReady \/ Publish
    PROVE  JoinsOnce(todo') /\ UNCHANGED <<started, pc, sequence>>
<1> DEFINE T == Steps \ {"join"}
<1>1. UNCHANGED <<started, pc, sequence>>
  BY DEF Calls, SetJob, PoolLost, SetEnabled, ApiStop, Reload, OnDatasetReady, Publish, nonceVars,
         threadVars
<1>2. /\ << >> \in Seq(T)
      /\ \A a : JobChange(a) \in Seq(T)
      /\ \A c : \A s \in Seq(T) : If(c, s) \in Seq(T)
  BY JobChangeTyped DEF Changes, Steps, If
<1>3. ASSUME NEW j \in Jobs, SetJob(j) PROVE JoinsOnce(todo')
  <2>1. CASE todo' = StopMiner \o <<"apply", "publish">>
    <3>1. <<"apply", "publish">> \in Seq(Steps) /\ NoJoin(<<"apply", "publish">>)
      BY DEF Steps, NoJoin
    <3> QED
      BY <2>1, <3>1, StopsJoinOnce, JoinsConcat
  <2>2. CASE todo' = If(~IsReady(j), <<"pause", "touch">>) \o <<"publish">>
    <3>1. <<"pause", "touch">> \in Seq(T) /\ <<"publish">> \in Seq(T)
      BY DEF Steps
    <3>2. If(~IsReady(j), <<"pause", "touch">>) \in Seq(T)
      BY <1>2, <3>1
    <3> HIDE DEF T
    <3>3. todo' \in Seq(T)
      BY <2>2, <3>1, <3>2, ConcatProperties
    <3> QED
      BY <3>3, NoJoinIn DEF T
  <2> QED
    BY <1>3, <2>1, <2>2 DEF SetJob, Run
<1>4. ASSUME PoolLost PROVE JoinsOnce(todo')
  <2>1. todo' \in Seq(T)
    BY <1>4 DEF PoolLost, Run, Steps
  <2> QED
    BY <2>1, NoJoinIn
<1>5. ASSUME NEW e \in BOOLEAN, SetEnabled(e) PROVE JoinsOnce(todo')
  <2>1. <<IF e THEN "resume" ELSE "pause", "touch">> \in Seq(T)
    BY DEF Steps
  <2>2. todo' = If(active, <<IF e THEN "resume" ELSE "pause", "touch">>)
    BY <1>5 DEF SetEnabled, Run
  <2>3. todo' \in Seq(T)
    BY <1>2, <2>1, <2>2
  <2> QED
    BY <2>3, NoJoinIn
<1>6. ASSUME ApiStop \/ Reload PROVE JoinsOnce(todo')
  BY <1>6, StopsJoinOnce DEF ApiStop, Reload, Run
<1>7. ASSUME OnDatasetReady \/ Publish PROVE JoinsOnce(todo')
  <2>1. \/ \E a : todo' = JobChange(a)
        \/ todo' = If(IsReady(job), JobChange(active))
        \/ todo' = << >>
    BY <1>7 DEF OnDatasetReady, Publish
  <2>2. todo' \in Seq(T)
    BY <1>2, <2>1
  <2> QED
    BY <2>2, NoJoinIn
<1> QED
  BY <1>1, <1>3, <1>4, <1>5, <1>6, <1>7 DEF Calls

\* Going on in the list: after "zero" comes the join, with the sequence zero.
LEMMA AccessStop ==
    ASSUME IInv, StopInv, SetNonce \/ Join \/ Spawn \/ Apply
    PROVE  StopInv'
<1>1. /\ ~Idle /\ todo' = Tail(todo) /\ Types
  BY DEF SetNonce, Join, Spawn, Apply, Does, IInv
<1>2. /\ Len(todo) \in Nat /\ 1 \in 1..Len(todo) /\ todo[1] = Head(todo)
      /\ Len(todo') = Len(todo) - 1
      /\ \A i \in 1..(Len(todo) - 1) : i + 1 \in 1..Len(todo) /\ todo'[i] = todo[i + 1]
  BY <1>1, TailFacts
<1>3. ASSUME NEW i \in 1..Len(todo'), todo'[i] = "join"
      PROVE  /\ started
             /\ \A k \in 1..Len(todo') : todo'[k] = "join" => k = i
             /\ todo[i] = "zero"
             /\ Head(todo) # "join"
  <2>1. i + 1 \in 1..Len(todo) /\ todo[i + 1] = "join" /\ i + 1 > 1 /\ (i + 1) - 1 = i
    BY <1>2, <1>3
  <2>2. /\ started /\ todo[i] = "zero"
        /\ \A k \in 1..Len(todo) : todo[k] = "join" => k = i + 1
    BY <2>1 DEF StopInv
  <2>3. Head(todo) # "join"
    BY <1>2, <2>1, <2>2
  <2>4. \A k \in 1..Len(todo') : todo'[k] = "join" => k = i
    BY <1>2, <2>2
  <2> QED
    BY <2>2, <2>3, <2>4
<1>4. ASSUME NEW i \in 1..Len(todo'), todo'[i] = "join"
      PROVE  (i = 1 /\ sequence' = 0) \/ (i > 1 /\ todo'[i - 1] = "zero")
  <2>1. todo[i] = "zero"
    BY <1>3, <1>4
  <2>2. CASE i = 1
    BY <1>1, <1>2, <2>1, <2>2 DEF SetNonce, Join, Spawn, Apply, Does
  <2>3. CASE i # 1
    <3>1. i - 1 \in 1..(Len(todo) - 1) /\ (i - 1) + 1 = i /\ i > 1
      BY <1>2, <1>4, <2>3
    <3> QED
      BY <1>2, <2>1, <3>1
  <2> QED
    BY <2>2, <2>3
<1>5. ASSUME NEW i \in 1..Len(todo'), todo'[i] = "join" PROVE started'
  <2>1. started /\ Head(todo) # "join"
    BY <1>3, <1>5
  <2>2. started' = started \/ started' = TRUE
    BY <2>1 DEF SetNonce, Join, Spawn, Apply, Does
  <2> QED
    BY <2>1, <2>2
<1>6. started' => \A w \in Workers : pc'[w] # "none"
  BY DEF SetNonce, Join, Spawn, Apply, Threads, threadVars, StopInv
<1> QED
  BY <1>3, <1>4, <1>5, <1>6 DEF StopInv

LEMMA WorkerStop ==
    ASSUME IInv, StopInv, NEW w \in Workers, Worker(w) \/ Exhaust(w)
    PROVE  StopInv'
<1>1. UNCHANGED <<started, todo, sequence>>
  BY DEF Worker, Top, Test, Sleep, Wake, Loop, Hash, Exhaust, End, Bottom, Consume, Read, Adopt, Vm,
         Moves, Consumes, SharedVars, loopVars, nonceVars
<1>2. ret[w] # "none" /\ pc \in [Workers -> Places]
  BY DEF IInv, ThreadInv
<1>3. \E to \in Places \ {"none"} : pc' = [pc EXCEPT ![w] = to]
  <2>1. "hash" \in Places /\ ret[w] \in Places
    BY DEF IInv, ThreadInv, Places
  <2> QED
    BY <1>2, <2>1 DEF Worker, Top, Test, Sleep, Wake, Loop, Hash, Exhaust, End, Bottom, Consume, Read,
       Adopt, Vm, Moves, Consumes, Returns, Go, Places
<1> QED
  BY <1>1, <1>2, <1>3 DEF StopInv

LEMMA StopHolds == Spec => []StopInv
<1>1. Init => StopInv
  <2>1. Init => todo = << >> /\ ~started
    BY Zenon DEF Init
  <2> QED
    BY <2>1 DEF StopInv
<1>2. IInv /\ StopInv /\ [Next]_vars => StopInv'
  <2> SUFFICES ASSUME IInv, StopInv, [Next]_vars PROVE StopInv'
    OBVIOUS
  <2>1. CASE Calls \/ OnDatasetReady \/ Publish
    BY <2>1, HandlersJoinOnce, RunStop
  <2>2. CASE DatasetThread \/ UNCHANGED vars
    BY <2>2 DEF DatasetThread, TakeBack, ApplyBegins, ApplyEnds, Finish, vars, nonceVars, loopVars,
       threadVars, StopInv
  <2> QED
    BY <2>1, <2>2, AccessStop, WorkerStop DEF Next, EventLoop
<1> QED
  BY <1>1, <1>2, IInvHolds, PTL DEF Spec

\* Whatever a thread does when the stop comes, asleep in a pause or waiting for
\* a dataset, the join finds it on its way out: the sequence is zero before the
\* join and until its end (Nonce::stop, Workers::stop, CpuWorker::start).
THEOREM JoinFindsThemHolds == Spec => []JoinFindsThemGoing
<1>1. IInv /\ StopInv => JoinFindsThemGoing
  <2> SUFFICES ASSUME IInv, StopInv, JoinPending, NEW w \in Workers PROVE ~Stuck(w)
    BY DEF JoinFindsThemGoing
  <2>1. 1 \in 1..Len(todo) /\ todo[1] = "join"
    BY TailFacts DEF JoinPending, Does, IInv
  <2>2. started /\ sequence = 0
    BY <2>1 DEF StopInv
  <2> QED
    BY <2>2 DEF Stuck, StopInv
<1> QED
  BY <1>1, IInvHolds, StopHolds, PTL

----------------------------------------------------------------------------
(* Types *)

\* What IInv and DatasetInv leave of the type invariant
Flags == paused \in BOOLEAN /\ active \in BOOLEAN /\ enabled \in BOOLEAN
Counts == sequence \in Nat /\ calls \in 0..MaxCalls /\ own \in [Workers -> Nat]

LEMMA FlagsStep == Flags /\ [Next]_vars => Flags'
<1> SUFFICES ASSUME Flags, [Next]_vars PROVE Flags'
  OBVIOUS
<1> USE DEF Flags
<1>1. CASE Calls
  BY <1>1 DEF Calls, SetJob, PoolLost, SetEnabled, ApiStop, Reload, nonceVars
<1>2. CASE SetNonce
  BY <1>2 DEF SetNonce
<1>3. CASE Join \/ Spawn \/ Apply \/ Publish \/ OnDatasetReady \/ DatasetThread
  BY <1>3 DEF Join, Spawn, Apply, Publish, OnDatasetReady, DatasetThread, TakeBack, ApplyBegins,
     ApplyEnds, Finish, nonceVars, loopVars
<1>4. ASSUME NEW w \in Workers, Worker(w) \/ Exhaust(w) PROVE Flags'
  BY <1>4 DEF Worker, Top, Test, Sleep, Wake, Loop, Hash, Exhaust, End, Bottom, Consume, Read,
     Adopt, Vm, Moves, Consumes, SharedVars, nonceVars, loopVars
<1>5. CASE UNCHANGED vars
  BY <1>5 DEF vars, nonceVars, loopVars
<1> QED
  BY <1>1, <1>2, <1>3, <1>4, <1>5 DEF Next, EventLoop

LEMMA CountsStep == Counts /\ [Next]_vars => Counts'
<1> SUFFICES ASSUME Counts, [Next]_vars PROVE Counts'
  OBVIOUS
<1> USE CallsAssumption DEF Counts
<1>1. CASE Calls
  <2>1. calls < MaxCalls /\ calls' = calls + 1
    BY Zenon, <1>1 DEF Calls, SetJob, PoolLost, SetEnabled, ApiStop, Reload, Run
  <2>2. UNCHANGED <<sequence, own>>
    BY Zenon, <1>1 DEF Calls, SetJob, PoolLost, SetEnabled, ApiStop, Reload, nonceVars, threadVars
  <2> QED
    BY <2>1, <2>2
<1>2. CASE SetNonce
  BY <1>2 DEF SetNonce, threadVars
<1>3. CASE Join \/ Spawn
  BY <1>3 DEF Join, Spawn, Threads, nonceVars
<1>4. CASE Apply \/ Publish \/ OnDatasetReady \/ DatasetThread
  BY <1>4 DEF Apply, Publish, OnDatasetReady, DatasetThread, TakeBack, ApplyBegins, ApplyEnds, Finish,
     nonceVars, loopVars, threadVars
<1>5. ASSUME NEW w \in Workers, Worker(w) \/ Exhaust(w) PROVE Counts'
  <2>1. UNCHANGED <<sequence, calls>>
    BY <1>5 DEF Worker, Top, Test, Sleep, Wake, Loop, Hash, Exhaust, End, Bottom, Consume, Read,
       Adopt, Vm, Moves, Consumes, SharedVars, nonceVars, loopVars
  <2>2. own' = own \/ own' = [own EXCEPT ![w] = sequence]
    BY <1>5 DEF Worker, Top, Test, Sleep, Wake, Loop, Hash, Exhaust, End, Bottom, Consume, Read,
       Adopt, Vm, Moves, Consumes, JobOfThread
  <2> QED
    BY <2>1, <2>2
<1>6. CASE UNCHANGED vars
  BY <1>6 DEF vars, nonceVars, loopVars, threadVars
<1> QED
  BY <1>1, <1>2, <1>3, <1>4, <1>5, <1>6 DEF Next, EventLoop

\* Flags, lists and places of the event loop and the threads keep their types:
\* no thread ever waits at a place of no thread (MinerPrivate, CpuWorker).
THEOREM TypeCorrect == Spec => []TypeOK
<1>1. Init => Flags /\ Counts
  <2>1. Init => Flags
    BY Zenon DEF Init, Flags
  <2>2. Init => sequence = 1 /\ calls = 0 /\ own = [w \in Workers |-> 0]
    BY Zenon DEF Init
  <2> QED
    BY <2>1, <2>2, CallsAssumption DEF Counts
<1>2. IInv /\ DatasetInv /\ Flags /\ Counts => TypeOK
  BY Zenon DEF IInv, Types, ThreadInv, DatasetInv, RxTypes, Flags, Counts, TypeOK
<1> QED
  BY <1>1, <1>2, FlagsStep, CountsStep, IInvHolds, DatasetHolds, PTL DEF Spec
----------------------------------------------------------------------------
(* The threads live until they are joined *)

Among(step, s) == \E k \in 1..Len(s) : s[k] = step

\* What a handler leaves to do: running threads find the sequence zero only if
\* they are joined, and threads are started under a sequence that was touched.
LiveList(s) ==
    /\ started /\ Among("zero", s) => Among("join", s)
    /\ \A i \in 1..Len(s) : s[i] = "spawn" =>
          /\ i > 1 /\ s[i - 1] = "touch"
          /\ \A k \in 1..Len(s) : k > i => s[k] # "zero"

LiveInv ==
    /\ started /\ (sequence = 0 \/ Among("zero", todo)) => Among("join", todo)
    /\ \A i \in 1..Len(todo) : todo[i] = "spawn" =>
          /\ (i = 1 /\ sequence # 0) \/ (i > 1 /\ todo[i - 1] = "touch")
          /\ \A k \in 1..Len(todo) : k > i => todo[k] # "zero"
    /\ \A w \in Workers : pc[w] = "exit" => Among("join", todo)

\* A thread leaves its loop for good only in a stop that joins it: no pause, job,
\* dataset, reload or counter that ran out leaves a backend that counts as
\* started with a thread that is gone (CpuWorker::start, Workers::start,
\* Nonce::stop).  It is what remains of ThreadsMine without time.
LiveUntilStop ==
    started /\ ~Among("join", todo) => \A w \in Workers : pc[w] \notin {"none", "exit"}

LEMMA LiveConcat ==
    ASSUME NEW S, NEW s \in Seq(S), NEW t \in Seq(S), LiveList(s), LiveList(t),
           ~Among("spawn", s) \/ ~Among("zero", t)
    PROVE  LiveList(s \o t)
<1> DEFINE st == s \o t
<1>1. /\ Len(s) \in Nat /\ Len(t) \in Nat /\ Len(st) = Len(s) + Len(t)
      /\ \A i \in 1..(Len(s) + Len(t)) : st[i] = IF i <= Len(s) THEN s[i] ELSE t[i - Len(s)]
  BY ConcatProperties
<1> HIDE DEF st
<1>2. ASSUME NEW x, Among(x, st) PROVE Among(x, s) \/ Among(x, t)
  <2>1. PICK k \in 1..Len(st) : st[k] = x
    BY <1>2 DEF Among
  <2>2. CASE k <= Len(s)
    BY <1>1, <2>1, <2>2 DEF Among
  <2>3. CASE ~(k <= Len(s))
    <3>1. k - Len(s) \in 1..Len(t) /\ t[k - Len(s)] = x
      BY <1>1, <2>1, <2>3
    <3> QED
      BY <3>1 DEF Among
  <2> QED
    BY <2>2, <2>3
<1>3. ASSUME NEW x, Among(x, s) \/ Among(x, t) PROVE Among(x, st)
  <2>1. ASSUME NEW k \in 1..Len(s), s[k] = x PROVE k \in 1..Len(st) /\ st[k] = x
    BY <1>1, <2>1
  <2>2. ASSUME NEW k \in 1..Len(t), t[k] = x PROVE k + Len(s) \in 1..Len(st) /\ st[k + Len(s)] = x
    BY <1>1, <2>2
  <2> QED
    BY <1>3, <2>1, <2>2 DEF Among
<1>4. started /\ Among("zero", st) => Among("join", st)
  BY <1>2, <1>3 DEF LiveList
<1>5. ASSUME NEW i \in 1..Len(st), st[i] = "spawn"
      PROVE  /\ i > 1 /\ st[i - 1] = "touch"
             /\ \A k \in 1..Len(st) : k > i => st[k] # "zero"
  <2>1. CASE i <= Len(s)
    <3>1. i \in 1..Len(s) /\ s[i] = "spawn" /\ Among("spawn", s)
      BY <1>1, <1>5, <2>1 DEF Among
    <3>2. /\ i > 1 /\ s[i - 1] = "touch" /\ i - 1 \in 1..Len(s)
          /\ \A k \in 1..Len(s) : k > i => s[k] # "zero"
      BY <1>1, <3>1 DEF LiveList
    <3>3. ASSUME NEW k \in 1..Len(st), k > i PROVE st[k] # "zero"
      <4>1. CASE k <= Len(s)
        BY <1>1, <3>2, <3>3, <4>1
      <4>2. CASE ~(k <= Len(s))
        <5>1. k - Len(s) \in 1..Len(t) /\ st[k] = t[k - Len(s)]
          BY <1>1, <4>2
        <5> QED
          BY <3>1, <5>1 DEF Among
      <4> QED
        BY <4>1, <4>2
    <3> QED
      BY <1>1, <3>2, <3>3
  <2>2. CASE ~(i <= Len(s))
    <3> DEFINE m == i - Len(s)
    <3>1. m \in 1..Len(t) /\ t[m] = "spawn"
      BY <1>1, <1>5, <2>2
    <3>2. /\ m > 1 /\ t[m - 1] = "touch"
          /\ \A k \in 1..Len(t) : k > m => t[k] # "zero"
      BY <3>1 DEF LiveList
    <3>3. i > 1 /\ i - 1 \in 1..Len(st) /\ ~(i - 1 <= Len(s)) /\ (i - 1) - Len(s) = m - 1
      BY <1>1, <3>1, <3>2
    <3>4. ASSUME NEW k \in 1..Len(st), k > i PROVE st[k] # "zero"
      <4>1. k - Len(s) \in 1..Len(t) /\ k - Len(s) > m /\ st[k] = t[k - Len(s)]
        BY <1>1, <2>2, <3>4
      <4> QED
        BY <3>2, <4>1
    <3> QED
      BY <1>1, <3>2, <3>3, <3>4
  <2> QED
    BY <2>1, <2>2
<1> QED
  BY <1>4, <1>5 DEF LiveList, st

\* Lists without a start or without a stop
LEMMA LiveParts ==
    /\ \A s \in Seq(Steps \ {"zero", "spawn"}) : LiveList(s)
    /\ \A s \in Seq(Steps \ {"spawn"}) : ~Among("spawn", s)
    /\ \A s \in Seq(Changes) : ~Among("zero", s)
    /\ LiveList(<< >>)
    /\ LiveList(StartThreads)
    /\ LiveList(StopThreads) /\ LiveList(StopMiner)
<1>1. \A s \in Seq(Steps \ {"zero", "spawn"}) : LiveList(s)
  BY DEF LiveList, Among
<1>2. LiveList(<< >>) /\ LiveList(StartThreads)
  BY DEF LiveList, Among, StartThreads
<1>3. LiveList(StopThreads)
  BY DEF LiveList, Among, StopThreads, If
<1>4. \A s \in Seq(Steps \ {"spawn"}) : ~Among("spawn", s)
  BY DEF Among
<1>5. \A s \in Seq(Changes) : ~Among("zero", s)
  BY DEF Among, Changes
<1>6. LiveList(StopMiner)
  <2>1. StopMiner \in Seq(Steps \ {"spawn"})
    BY StopMinerSteps DEF Plain, Steps
  <2>2. started => Among("join", StopMiner)
    BY StopMinerSteps DEF Among
  <2> QED
    BY <1>4, <2>1, <2>2 DEF LiveList, Among
<1> QED
  BY <1>1, <1>2, <1>3, <1>4, <1>5, <1>6

\* MinerPrivate::handleJobChange
LEMMA JobChangeLives == \A a : LiveList(JobChange(a))
<1> TAKE a
<1> DEFINE p == If(~enabled, <<"pause">>)
           q == If(~started, StartThreads)
           t == <<"touch">>
           r == If(a /\ enabled, <<"resume">>)
<1>1. p \in Seq(Changes) /\ q \in Seq(Changes) /\ t \in Seq(Changes) /\ r \in Seq(Changes)
  <2>1. /\ <<"pause">> \in Seq(Changes) /\ StartThreads \in Seq(Changes) /\ t \in Seq(Changes)
        /\ <<"resume">> \in Seq(Changes) /\ << >> \in Seq(Changes)
    BY DEF StartThreads, Changes
  <2> QED
    BY <2>1 DEF If
<1>2. /\ <<"pause">> \in Seq(Steps \ {"zero", "spawn"}) /\ t \in Seq(Steps \ {"zero", "spawn"})
      /\ <<"resume">> \in Seq(Steps \ {"zero", "spawn"})
  BY DEF Steps
<1>3. LiveList(p) /\ LiveList(q) /\ LiveList(t) /\ LiveList(r)
  BY <1>2, LiveParts DEF If
<1>4. JobChange(a) = ((p \o q) \o t) \o r
  BY DEF JobChange
<1> HIDE DEF p, q, t, r
<1>5. p \o q \in Seq(Changes) /\ (p \o q) \o t \in Seq(Changes)
  BY <1>1, ConcatProperties
<1>6. LiveList(p \o q)
  BY <1>1, <1>3, LiveParts, LiveConcat
<1>7. LiveList((p \o q) \o t)
  BY <1>1, <1>3, <1>5, <1>6, LiveParts, LiveConcat
<1> QED
  BY <1>1, <1>3, <1>4, <1>5, <1>7, LiveParts, LiveConcat

LEMMA HandlersLive ==
    ASSUME IInv, Calls \/ OnDatasetReady \/ Publish
    PROVE  LiveList(todo')
<1> DEFINE T == Steps \ {"zero", "spawn"}
           U == Steps \ {"spawn"}
<1>1. ASSUME NEW j \in Jobs, SetJob(j) PROVE LiveList(todo')
  <2>1. CASE todo' = StopMiner \o <<"apply", "publish">>
    <3>1. StopMiner \in Seq(U) /\ <<"apply", "publish">> \in Seq(U) /\ <<"apply", "publish">> \in Seq(T)
      BY StopMinerSteps DEF Plain, Steps
    <3>2. LiveList(<<"apply", "publish">>) /\ LiveList(StopMiner) /\ ~Among("spawn", StopMiner)
      BY <3>1, LiveParts
    <3> HIDE DEF T, U
    <3> QED
      BY <2>1, <3>1, <3>2, LiveConcat
  <2>2. CASE todo' = If(~IsReady(j), <<"pause", "touch">>) \o <<"publish">>
    <3>1. If(~IsReady(j), <<"pause", "touch">>) \in Seq(T) /\ <<"publish">> \in Seq(T)
      <4>1. <<"pause", "touch">> \in Seq(T) /\ <<"publish">> \in Seq(T) /\ << >> \in Seq(T)
        BY DEF Steps
      <4> QED
        BY <4>1 DEF If
    <3> HIDE DEF T
    <3>2. todo' \in Seq(T)
      BY <2>2, <3>1, ConcatProperties
    <3> QED
      BY <3>2, LiveParts DEF T
  <2> QED
    BY <1>1, <2>1, <2>2 DEF SetJob, Run
<1>2. ASSUME PoolLost PROVE LiveList(todo')
  <2>1. todo' \in Seq(T)
    BY <1>2 DEF PoolLost, Run, Steps
  <2> QED
    BY <2>1, LiveParts
<1>3. ASSUME NEW e \in BOOLEAN, SetEnabled(e) PROVE LiveList(todo')
  <2>1. <<IF e THEN "resume" ELSE "pause", "touch">> \in Seq(T)
    BY DEF Steps
  <2>2. todo' = If(active, <<IF e THEN "resume" ELSE "pause", "touch">>)
    BY <1>3 DEF SetEnabled, Run
  <2> QED
    BY <2>1, <2>2, LiveParts DEF If
<1>4. ASSUME ApiStop PROVE LiveList(todo')
  BY <1>4, LiveParts DEF ApiStop, Run
<1>5. ASSUME Reload PROVE LiveList(todo')
  <2>1. StopThreads \in Seq(U) /\ StartThreads \in Seq(Changes)
    BY PartsTyped DEF StartThreads, Changes, Plain, Steps
  <2>2. StopThreads \in Seq(Steps) /\ StartThreads \in Seq(Steps)
    BY <2>1 DEF Changes, Steps
  <2>3. ~Among("spawn", StopThreads)
    BY <2>1, LiveParts
  <2>4. todo' = StopThreads \o StartThreads
    BY <1>5 DEF Reload, Run
  <2> QED
    BY <2>2, <2>3, <2>4, LiveParts, LiveConcat
<1>6. ASSUME OnDatasetReady \/ Publish PROVE LiveList(todo')
  <2>1. \/ \E a : todo' = JobChange(a)
        \/ todo' = If(IsReady(job), JobChange(active))
        \/ todo' = << >>
    BY <1>6 DEF OnDatasetReady, Publish
  <2> QED
    BY <2>1, JobChangeLives, LiveParts DEF If
<1> QED
  BY <1>1, <1>2, <1>3, <1>4, <1>5, <1>6 DEF Calls

\* A handler begins, or the job is published, when no join is under way.
LEMMA RunLive ==
    ASSUME IInv, LiveInv, Calls \/ OnDatasetReady \/ Publish
    PROVE  LiveInv'
<1>1. UNCHANGED <<started, pc, sequence>>
  BY HandlersJoinOnce
<1>2. ~Among("join", todo)
  <2>1. CASE Idle
    BY <2>1 DEF Idle, Among
  <2>2. CASE ~Idle /\ Publish
    <3>1. 1 \in 1..Len(todo) /\ todo[1] = "publish"
      BY <2>2, TailFacts DEF Publish, Does, IInv
    <3>2. Len(todo) = 1
      BY <3>1 DEF IInv, TodoInv
    <3> QED
      BY <3>1, <3>2 DEF Among
  <2> QED
    BY <2>1, <2>2 DEF Calls, SetJob, PoolLost, SetEnabled, ApiStop, Reload, Run, OnDatasetReady
<1>3. LiveList(todo')
  BY HandlersLive
<1>4. started' /\ (sequence' = 0 \/ Among("zero", todo')) => Among("join", todo')
  BY <1>1, <1>2, <1>3 DEF LiveInv, LiveList
<1> QED
  BY <1>1, <1>2, <1>3, <1>4 DEF LiveInv, LiveList

\* Going on in the list
LEMMA AccessLive ==
    ASSUME IInv, Counts, LiveInv, SetNonce \/ Join \/ Spawn \/ Apply
    PROVE  LiveInv'
<1>1. /\ ~Idle /\ todo' = Tail(todo) /\ Types
  BY DEF SetNonce, Join, Spawn, Apply, Does, IInv
<1>2. /\ Len(todo) \in Nat /\ 1 \in 1..Len(todo) /\ todo[1] = Head(todo)
      /\ Len(todo') = Len(todo) - 1
      /\ \A i \in 1..(Len(todo) - 1) : i + 1 \in 1..Len(todo) /\ todo'[i] = todo[i + 1]
  BY <1>1, TailFacts
<1>3. ASSUME NEW x, Among(x, todo') PROVE Among(x, todo)
  BY <1>2, <1>3 DEF Among
<1>4. ASSUME NEW x, Among(x, todo), Head(todo) # x PROVE Among(x, todo')
  <2>1. PICK k \in 1..Len(todo) : todo[k] = x
    BY <1>4 DEF Among
  <2>2. k - 1 \in 1..(Len(todo) - 1) /\ (k - 1) + 1 = k
    BY <1>2, <1>4, <2>1
  <2> QED
    BY <1>2, <2>1, <2>2 DEF Among
<1>5. /\ Head(todo) = "join" => ~started' /\ \A w \in Workers : pc'[w] = "none"
      /\ Head(todo) = "spawn" => UNCHANGED sequence /\ \A w \in Workers : pc'[w] = "top"
      /\ Head(todo) \notin {"join", "spawn"} => UNCHANGED <<started, pc>>
      /\ Head(todo) = "touch" => sequence' # 0
      /\ sequence' = 0 => sequence = 0 \/ Head(todo) = "zero"
  <2>1. CASE SetNonce
    <3>1. UNCHANGED <<started, pc>> /\ Head(todo) \notin {"join", "spawn"}
      BY <2>1 DEF SetNonce, threadVars
    <3>2. /\ Head(todo) = "touch" => sequence' = sequence + 1
          /\ Head(todo) = "zero" => sequence' = 0
          /\ Head(todo) \notin {"touch", "zero"} => sequence' = sequence
      BY <2>1 DEF SetNonce
    <3>3. sequence + 1 # 0
      BY DEF Counts
    <3> QED
      BY <3>1, <3>2, <3>3
  <2>2. CASE Join
    BY <2>2 DEF Join, Does, Threads, nonceVars
  <2>3. CASE Spawn
    BY <2>3 DEF Spawn, Does, Threads, nonceVars
  <2>4. CASE Apply
    BY <2>4 DEF Apply, Does, threadVars, nonceVars
  <2> QED
    BY <2>1, <2>2, <2>3, <2>4
<1>6. started' /\ (sequence' = 0 \/ Among("zero", todo')) => Among("join", todo')
  <2> SUFFICES ASSUME started', sequence' = 0 \/ Among("zero", todo') PROVE Among("join", todo')
    OBVIOUS
  <2>1. CASE Head(todo) = "spawn"
    <3>1. sequence # 0 /\ \A k \in 1..Len(todo) : k > 1 => todo[k] # "zero"
      BY <1>2, <2>1 DEF LiveInv
    <3>2. ~Among("zero", todo')
      BY <1>2, <3>1 DEF Among
    <3> QED
      BY <1>5, <2>1, <3>1, <3>2
  <2>2. CASE Head(todo) # "spawn"
    <3>1. started /\ Head(todo) # "join"
      BY <1>5, <2>2
    <3>2. Head(todo) = "zero" => Among("zero", todo)
      BY <1>2 DEF Among
    <3>3. Among("join", todo)
      BY <1>3, <1>5, <3>1, <3>2 DEF LiveInv
    <3> QED
      BY <1>4, <3>1, <3>3
  <2> QED
    BY <2>1, <2>2
<1>7. ASSUME NEW i \in 1..Len(todo'), todo'[i] = "spawn"
      PROVE  /\ (i = 1 /\ sequence' # 0) \/ (i > 1 /\ todo'[i - 1] = "touch")
             /\ \A k \in 1..Len(todo') : k > i => todo'[k] # "zero"
  <2>1. i + 1 \in 1..Len(todo) /\ todo[i + 1] = "spawn" /\ i + 1 # 1 /\ (i + 1) - 1 = i
    BY <1>2, <1>7
  <2>2. todo[i] = "touch" /\ \A k \in 1..Len(todo) : k > i + 1 => todo[k] # "zero"
    BY <2>1 DEF LiveInv
  <2>3. (i = 1 /\ sequence' # 0) \/ (i > 1 /\ todo'[i - 1] = "touch")
    <3>1. CASE i = 1
      BY <1>2, <1>5, <2>2, <3>1
    <3>2. CASE i # 1
      <4>1. i - 1 \in 1..(Len(todo) - 1) /\ (i - 1) + 1 = i /\ i > 1
        BY <1>2, <3>2
      <4> QED
        BY <1>2, <2>2, <4>1
    <3> QED
      BY <3>1, <3>2
  <2>4. \A k \in 1..Len(todo') : k > i => todo'[k] # "zero"
    BY <1>2, <2>2
  <2> QED
    BY <2>3, <2>4
<1>8. ASSUME NEW w \in Workers, pc'[w] = "exit" PROVE Among("join", todo')
  <2>1. Head(todo) \notin {"join", "spawn"} /\ pc[w] = "exit"
    BY <1>5, <1>8
  <2> QED
    BY <1>4, <2>1 DEF LiveInv
<1> QED
  BY <1>6, <1>7, <1>8 DEF LiveInv

\* A thread leaves when it finds the sequence zero.
LEMMA WorkerLive ==
    ASSUME IInv, LiveInv, NEW w \in Workers, Worker(w) \/ Exhaust(w)
    PROVE  LiveInv'
<1>1. UNCHANGED <<started, todo, sequence>>
  BY DEF Worker, Top, Test, Sleep, Wake, Loop, Hash, Exhaust, End, Bottom, Consume, Read, Adopt, Vm,
         Moves, Consumes, SharedVars, loopVars, nonceVars
<1>2. ret[w] # "exit" /\ pc \in [Workers -> Places] /\ pc[w] # "none" /\ (started \/ pc[w] = "none")
  BY DEF IInv, ThreadInv, Worker, Top, Test, Sleep, Wake, Loop, Hash, Exhaust, End, Bottom, Consume,
         Read, Adopt, Vm, Moves, Consumes
<1>3. \E to : pc' = [pc EXCEPT ![w] = to] /\ (to = "exit" => sequence = 0)
  BY <1>2 DEF Worker, Top, Test, Sleep, Wake, Loop, Hash, Exhaust, End, Bottom, Consume, Read, Adopt,
     Vm, Moves, Consumes, Returns, Go
<1>4. ASSUME NEW v \in Workers, pc'[v] = "exit" PROVE Among("join", todo)
  BY <1>2, <1>3, <1>4 DEF LiveInv
<1> QED
  BY <1>1, <1>4 DEF LiveInv

LEMMA LiveInvHolds == Spec => [](Counts /\ LiveInv)
<1>1. Init => LiveInv /\ Counts
  <2>1. Init => todo = << >> /\ ~started /\ pc = [w \in Workers |-> "none"]
    BY Zenon DEF Init
  <2>2. Init => sequence = 1 /\ calls = 0 /\ own = [w \in Workers |-> 0]
    BY Zenon DEF Init
  <2> QED
    BY <2>1, <2>2, CallsAssumption DEF LiveInv, Counts
<1>2. IInv /\ Counts /\ LiveInv /\ [Next]_vars => LiveInv'
  <2> SUFFICES ASSUME IInv, Counts, LiveInv, [Next]_vars PROVE LiveInv'
    OBVIOUS
  <2>1. CASE DatasetThread \/ UNCHANGED vars
    BY <2>1 DEF DatasetThread, TakeBack, ApplyBegins, ApplyEnds, Finish, vars, nonceVars, loopVars,
       threadVars, LiveInv, Among
  <2> QED
    BY <2>1, RunLive, AccessLive, WorkerLive DEF Next, EventLoop
<1> QED
  BY <1>1, <1>2, CountsStep, IInvHolds, PTL DEF Spec

\* For any threads, jobs, stops and reloads
THEOREM LiveUntilStopHolds == Spec => []LiveUntilStop
<1>1. StopInv /\ LiveInv => LiveUntilStop
  BY DEF StopInv, LiveInv, LiveUntilStop
<1> QED
  BY <1>1, LiveInvHolds, StopHolds, PTL

----------------------------------------------------------------------------
(* The RandomX parameters *)

\* The algorithm the event loop applied last: of the job that is still to be
\* published, when its "apply" is done, or of the miner's job.
Current == IF Among("publish", todo) /\ ~Among("apply", todo) THEN AlgoOf[arg] ELSE Algorithm

\* Unless the dataset thread is about to apply, the parameters are the miner's
\* when the storage has the miner's algorithm, or both writers' at once.
AgreeInv ==
    /\ rxStep \notin {"apply", "applying"} /\ storageAlgo = Current => applied \in {Current, Torn}
    /\ rxStep = "applying" => applied \in {Current, Torn}

\* Once the sequence of running threads is zero, it stays so until the join.
ZeroList(s) ==
    started => \A i \in 1..Len(s) : s[i] = "zero" => i < Len(s) /\ s[i + 1] \in {"zero", "join"}

ZeroInv ==
    /\ ZeroList(todo)
    /\ started /\ sequence = 0 => ~Idle /\ todo[1] \in {"zero", "join"}

\* The dataset thread works for the algorithm of job j, and with nothing to apply.
WorksFor(j) ==
    /\ storageAlgo = AlgoOf[j] /\ rxStep \notin {"apply", "applying"}
    /\ queued => wantedAlgo = AlgoOf[j]

\* The dataset thread works for every thread that found the dataset of its job.
PastVm(w) == pc[w] \notin {"none", "exit", "vm", "full"}

FoundDataset(w) ==
    /\ own[w] # 0 /\ ownJob[w] # NoJob /\ ~Shared(ownJob[w])
    /\ PastVm(w) /\ (pc[w] = "hash" \/ sequence # 0)

ParamsInv == \A w \in Workers : FoundDataset(w) => WorksFor(ownJob[w])

LEMMA AmongTail ==
    ASSUME Types, ~Idle, todo' = Tail(todo), NEW x, Head(todo) # x
    PROVE  Among(x, todo') <=> Among(x, todo)
<1>1. /\ Len(todo) \in Nat /\ todo[1] = Head(todo)
      /\ Len(todo') = Len(todo) - 1
      /\ \A i \in 1..(Len(todo) - 1) : i + 1 \in 1..Len(todo) /\ todo'[i] = todo[i + 1]
  BY TailFacts
<1>2. ASSUME NEW k \in 1..Len(todo), todo[k] = x PROVE Among(x, todo')
  <2>1. k - 1 \in 1..(Len(todo) - 1) /\ (k - 1) + 1 = k
    BY <1>1, <1>2
  <2> QED
    BY <1>1, <1>2, <2>1 DEF Among
<1>3. ASSUME NEW k \in 1..Len(todo'), todo'[k] = x PROVE Among(x, todo)
  BY <1>1, <1>3 DEF Among
<1> QED
  BY <1>2, <1>3 DEF Among

\* Only "apply" changes what was applied last.
LEMMA CurrentStep ==
    ASSUME IInv, [Next]_vars, ~Apply
    PROVE  Current' = Current
<1>1. ASSUME NEW j \in Jobs, SetJob(j) PROVE Current' = Current
  <2>1. Idle /\ UNCHANGED job /\ arg' = j
    BY <1>1 DEF SetJob, Run
  <2>2. Current = Algorithm /\ Algorithm' = Algorithm
    BY <2>1 DEF Current, Among, Idle, Algorithm
  <2>3. CASE Algorithm = AlgoOf[j]
    BY <2>1, <2>2, <2>3 DEF Current
  <2>4. CASE Algorithm # AlgoOf[j]
    <3>1. todo' = StopMiner \o <<"apply", "publish">>
      BY <1>1, <2>4 DEF SetJob, Run
    <3>2. Among("apply", todo')
      <4>1. StopMiner \in Seq(Steps) /\ <<"apply", "publish">> \in Seq(Steps)
        BY StopsJoinOnce DEF Steps
      <4> DEFINE n == Len(StopMiner)
      <4>2. /\ n \in Nat /\ Len(todo') = n + 2
            /\ todo'[n + 1] = <<"apply", "publish">>[(n + 1) - n]
        BY <3>1, <4>1, ConcatProperties
      <4> QED
        BY <4>2 DEF Among
    <3> QED
      BY <2>2, <3>2 DEF Current
  <2> QED
    BY <2>3, <2>4
<1>2. ASSUME PoolLost \/ (\E e \in BOOLEAN : SetEnabled(e)) \/ ApiStop \/ Reload \/ OnDatasetReady
      PROVE  Current' = Current
  <2>1. Idle /\ UNCHANGED job
    BY <1>2 DEF PoolLost, SetEnabled, ApiStop, Reload, OnDatasetReady, Run, Idle
  <2>2. ~Among("publish", todo')
    BY <1>2, HandlerTodo DEF Among, Plain
  <2> QED
    BY <2>1, <2>2 DEF Current, Among, Idle, Algorithm
<1>3. CASE SetNonce \/ Join \/ Spawn
  <2>1. /\ ~Idle /\ todo' = Tail(todo) /\ UNCHANGED <<job, arg>>
        /\ Head(todo) \notin {"apply", "publish"}
    BY <1>3 DEF SetNonce, Join, Spawn, Does
  <2>2. /\ Among("apply", todo') <=> Among("apply", todo)
        /\ Among("publish", todo') <=> Among("publish", todo)
    BY <2>1, AmongTail DEF IInv
  <2> QED
    BY <2>1, <2>2 DEF Current, Algorithm
<1>4. CASE Publish
  <2>1. /\ Len(todo) = 1 /\ todo[1] = "publish"
        /\ todo' \in Seq(Plain \cup {"spawn"}) /\ Algorithm' = AlgoOf[arg]
    BY <1>4, PublishFacts
  <2>2. Among("publish", todo) /\ ~Among("apply", todo) /\ ~Among("publish", todo')
    BY <2>1 DEF Among, Plain
  <2> QED
    BY <2>1, <2>2 DEF Current
<1>5. CASE DatasetThread \/ UNCHANGED vars
  BY <1>5 DEF DatasetThread, TakeBack, ApplyBegins, ApplyEnds, Finish, vars, loopVars, Current,
     Among, Algorithm
<1>6. CASE \E w \in Workers : Worker(w) \/ Exhaust(w)
  <2>1. UNCHANGED <<job, arg, todo>>
    BY <1>6 DEF Worker, Top, Test, Sleep, Wake, Loop, Hash, Exhaust, End, Bottom, Consume, Read,
       Adopt, Vm, Moves, Consumes, SharedVars, loopVars
  <2> QED
    BY <2>1 DEF Current, Among, Algorithm
<1> QED
  BY <1>1, <1>2, <1>3, <1>4, <1>5, <1>6 DEF Next, Calls, EventLoop

\* "apply" finds no thread, and what it applies becomes current.
LEMMA ApplyFacts ==
    ASSUME IInv, Apply
    PROVE  /\ ~started /\ Current' = AlgoOf[arg] /\ applied' = AlgoOf[arg]
           /\ UNCHANGED <<rxStep, storageAlgo>>
<1>1. ~Idle /\ Head(todo) = "apply" /\ todo' = Tail(todo) /\ UNCHANGED <<job, arg>>
  BY DEF Apply, Does
<1>2. /\ Len(todo) \in Nat /\ 1 \in 1..Len(todo) /\ todo[1] = "apply"
      /\ Len(todo') = Len(todo) - 1
      /\ \A i \in 1..(Len(todo) - 1) : todo'[i] = todo[i + 1]
  BY <1>1, TailFacts DEF IInv
<1>3. /\ 1 = Len(todo) - 1 /\ todo[Len(todo)] = "publish"
      /\ started => \E k \in 1..(1 - 1) : todo[k] = "join"
  BY <1>2 DEF IInv, TodoInv
<1>4. Len(todo') = 1 /\ todo'[1] = "publish"
  <2> DEFINE n == Len(todo)
  <2>a. n \in Nat /\ 1 = n - 1
    BY <1>2, <1>3
  <2> HIDE DEF n
  <2>b. n = 2 /\ 1 \in 1..(n - 1) /\ 1 + 1 = 2
    BY <2>a
  <2>1. Len(todo) = 2 /\ 1 \in 1..(Len(todo) - 1) /\ 1 + 1 = 2
    BY <2>b DEF n
  <2>2. todo'[1] = todo[1 + 1]
    BY <1>2, <2>1
  <2>3. todo[2] = "publish"
    BY <1>3, <2>1
  <2>4. Len(todo') = 1
    BY <1>2, <2>1
  <2> QED
    BY <2>1, <2>2, <2>3, <2>4
<1>5. Among("publish", todo') /\ ~Among("apply", todo')
  BY <1>4 DEF Among
<1> QED
  BY <1>1, <1>3, <1>5 DEF Apply, Current, dtVars

LEMMA AgreeStep ==
    ASSUME IInv, DatasetInv, AgreeInv, [Next]_vars
    PROVE  AgreeInv'
<1>1. CASE Apply
  BY <1>1, ApplyFacts DEF AgreeInv
<1>2. CASE ~Apply
  <2>1. Current' = Current
    BY <1>2, CurrentStep
  <2>2. CASE UNCHANGED <<rxStep, storageAlgo, applied>>
    BY <2>1, <2>2 DEF AgreeInv
  <2>3. CASE TakeBack
    BY <2>1, <2>3 DEF AgreeInv, TakeBack
  <2>4. CASE ApplyBegins
    BY <2>1, <2>4 DEF AgreeInv, ApplyBegins
  <2>5. CASE ApplyEnds
    BY <2>1, <2>5 DEF AgreeInv, ApplyEnds
  <2>6. CASE Finish
    BY <2>1, <2>6 DEF AgreeInv, Finish
  <2>7. CASE Calls
    BY <2>2, <2>7 DEF Calls, SetJob, PoolLost, SetEnabled, ApiStop, Reload, dtVars
  <2>8. CASE SetNonce \/ Join \/ Spawn \/ Publish \/ OnDatasetReady
    BY <2>2, <2>8 DEF SetNonce, Join, Spawn, Publish, OnDatasetReady, dtVars
  <2>9. CASE \E w \in Workers : Worker(w) \/ Exhaust(w)
    BY <2>2, <2>9 DEF Worker, Top, Test, Sleep, Wake, Loop, Hash, Exhaust, End, Bottom, Consume,
       Read, Adopt, Vm, Moves, Consumes, SharedVars, dtVars
  <2>10. CASE UNCHANGED vars
    BY <2>2, <2>10 DEF vars, dtVars
  <2> QED
    BY <1>2, <2>3, <2>4, <2>5, <2>6, <2>7, <2>8, <2>9, <2>10 DEF Next, EventLoop, DatasetThread
<1> QED
  BY <1>1, <1>2

----------------------------------------------------------------------------
(* The sequence stays zero until the join *)

LEMMA ZeroConcat ==
    ASSUME NEW S, NEW s \in Seq(S), NEW t \in Seq(S), ZeroList(s), ZeroList(t)
    PROVE  ZeroList(s \o t)
<1>1. /\ Len(s) \in Nat /\ Len(t) \in Nat /\ Len(s \o t) = Len(s) + Len(t)
      /\ \A i \in 1..(Len(s) + Len(t)) :
            (s \o t)[i] = IF i <= Len(s) THEN s[i] ELSE t[i - Len(s)]
  BY ConcatProperties
<1> DEFINE st == s \o t
<1> HIDE DEF st
<1>2. ASSUME started, NEW i \in 1..Len(st), st[i] = "zero"
      PROVE  i < Len(st) /\ st[i + 1] \in {"zero", "join"}
  <2>1. CASE i <= Len(s)
    <3>1. i \in 1..Len(s) /\ s[i] = "zero"
      BY <1>1, <1>2, <2>1 DEF st
    <3>2. i < Len(s) /\ s[i + 1] \in {"zero", "join"}
      BY <1>2, <3>1 DEF ZeroList
    <3>3. i + 1 \in 1..(Len(s) + Len(t)) /\ i + 1 <= Len(s)
      BY <1>1, <3>1, <3>2
    <3> QED
      BY <1>1, <3>2, <3>3 DEF st
  <2>2. CASE ~(i <= Len(s))
    <3>1. i - Len(s) \in 1..Len(t) /\ t[i - Len(s)] = "zero"
      BY <1>1, <1>2, <2>2 DEF st
    <3>2. i - Len(s) < Len(t) /\ t[(i - Len(s)) + 1] \in {"zero", "join"}
      BY <1>2, <3>1 DEF ZeroList
    <3>3. i + 1 \in 1..(Len(s) + Len(t)) /\ ~(i + 1 <= Len(s)) /\ (i + 1) - Len(s) = (i - Len(s)) + 1
      BY <1>1, <1>2, <2>2, <3>1, <3>2 DEF st
    <3> QED
      BY <1>1, <3>2, <3>3 DEF st
  <2> QED
    BY <2>1, <2>2
<1> QED
  BY <1>2 DEF ZeroList, st

LEMMA ZeroParts ==
    /\ \A s \in Seq(Steps \ {"zero"}) : ZeroList(s)
    /\ ZeroList(StopThreads) /\ ZeroList(StopMiner)
<1>1. \A s \in Seq(Steps \ {"zero"}) : ZeroList(s)
  BY DEF ZeroList
<1>2. ZeroList(StopThreads)
  BY DEF ZeroList, StopThreads, If
<1>3. ASSUME started PROVE ZeroList(StopMiner)
  <2>1. StopThreads = <<"zero", "join", "touch">>
    BY <1>3 DEF StopThreads, If
  <2>2. StopMiner = <<"resume", "zero">> \o <<"zero", "join", "touch">>
    BY <2>1 DEF StopMiner
  <2>3. <<"resume", "zero">> \in Seq(Steps) /\ <<"zero", "join", "touch">> \in Seq(Steps)
    BY DEF Steps
  <2>4. /\ Len(StopMiner) = 5
        /\ StopMiner[1] = "resume" /\ StopMiner[2] = "zero" /\ StopMiner[3] = "zero"
        /\ StopMiner[4] = "join" /\ StopMiner[5] = "touch"
    BY <2>2, <2>3, ConcatProperties
  <2> QED
    BY <2>4 DEF ZeroList
<1> QED
  BY <1>1, <1>2, <1>3 DEF ZeroList

LEMMA HandlersZero ==
    ASSUME IInv, Calls \/ OnDatasetReady \/ Publish
    PROVE  ZeroList(todo')
<1> DEFINE T == Steps \ {"zero"}
<1>0. T \subseteq Steps /\ Seq(T) \subseteq Seq(Steps)
  OBVIOUS
<1>1. ASSUME NEW j \in Jobs, SetJob(j) PROVE ZeroList(todo')
  <2>1. CASE todo' = StopMiner \o <<"apply", "publish">>
    <3>1. <<"apply", "publish">> \in Seq(T)
      BY DEF Steps
    <3>2. ZeroList(<<"apply", "publish">>) /\ <<"apply", "publish">> \in Seq(Steps)
      BY <1>0, <3>1, ZeroParts
    <3> QED
      BY <2>1, <3>2, ZeroParts, ZeroConcat, StopsJoinOnce
  <2>2. CASE todo' = If(~IsReady(j), <<"pause", "touch">>) \o <<"publish">>
    <3>1. If(~IsReady(j), <<"pause", "touch">>) \in Seq(T) /\ <<"publish">> \in Seq(T)
      <4>1. <<"pause", "touch">> \in Seq(T) /\ <<"publish">> \in Seq(T) /\ << >> \in Seq(T)
        BY DEF Steps
      <4> QED
        BY <4>1 DEF If
    <3> HIDE DEF T
    <3>2. todo' \in Seq(T)
      BY <2>2, <3>1, ConcatProperties
    <3> QED
      BY <3>2, ZeroParts DEF T
  <2> QED
    BY <1>1, <2>1, <2>2 DEF SetJob, Run
<1>2. ASSUME PoolLost PROVE ZeroList(todo')
  <2>1. todo' \in Seq(T)
    BY <1>2 DEF PoolLost, Run, Steps
  <2> QED
    BY <2>1, ZeroParts
<1>3. ASSUME NEW e \in BOOLEAN, SetEnabled(e) PROVE ZeroList(todo')
  <2>1. <<IF e THEN "resume" ELSE "pause", "touch">> \in Seq(T) /\ << >> \in Seq(T)
    BY DEF Steps
  <2>2. todo' = If(active, <<IF e THEN "resume" ELSE "pause", "touch">>)
    BY <1>3 DEF SetEnabled, Run
  <2>3. todo' \in Seq(T)
    BY <2>1, <2>2 DEF If
  <2> QED
    BY <2>3, ZeroParts
<1>4. ASSUME ApiStop PROVE ZeroList(todo')
  BY <1>4, ZeroParts DEF ApiStop, Run
<1>5. ASSUME Reload PROVE ZeroList(todo')
  <2>1. StopThreads \in Seq(Steps) /\ StartThreads \in Seq(T)
    BY PartsTyped DEF StartThreads, Plain, Steps
  <2>2. StartThreads \in Seq(Steps) /\ ZeroList(StartThreads)
    BY <1>0, <2>1, ZeroParts
  <2> QED
    BY <1>5, <2>1, <2>2, ZeroParts, ZeroConcat DEF Reload, Run
<1>6. ASSUME OnDatasetReady \/ Publish PROVE ZeroList(todo')
  <2>1. \/ \E a : todo' = JobChange(a)
        \/ todo' = If(IsReady(job), JobChange(active))
        \/ todo' = << >>
    BY <1>6 DEF OnDatasetReady, Publish
  <2>2. << >> \in Seq(Changes) /\ Seq(Changes) \subseteq Seq(T)
    BY DEF Changes, Steps
  <2>3. todo' \in Seq(T)
    BY <2>1, <2>2, JobChangeTyped DEF If
  <2> QED
    BY <2>3, ZeroParts
<1> QED
  BY <1>1, <1>2, <1>3, <1>4, <1>5, <1>6 DEF Calls

LEMMA ZeroStep ==
    ASSUME IInv, LiveInv, ZeroInv, Counts, [Next]_vars
    PROVE  ZeroInv'
<1>1. CASE Calls \/ OnDatasetReady \/ Publish
  <2>1. UNCHANGED <<started, sequence>> /\ ZeroList(todo')
    BY <1>1, HandlersJoinOnce, HandlersZero
  <2>2. ASSUME started, sequence = 0 PROVE FALSE
    <3>1. CASE Idle
      BY <2>2, <3>1 DEF ZeroInv
    <3>2. CASE Publish
      BY <2>2, <3>2, PublishFacts DEF ZeroInv
    <3> QED
      BY <1>1, <3>1, <3>2 DEF Calls, SetJob, PoolLost, SetEnabled, ApiStop, Reload, Run, OnDatasetReady
  <2> QED
    BY <2>1, <2>2 DEF ZeroInv, ZeroList
<1>2. CASE SetNonce \/ Join \/ Spawn \/ Apply
  <2>1. ~Idle /\ todo' = Tail(todo) /\ Types
    BY <1>2 DEF SetNonce, Join, Spawn, Apply, Does, IInv
  <2>2. /\ Len(todo) \in Nat /\ 1 \in 1..Len(todo) /\ todo[1] = Head(todo)
        /\ Len(todo') = Len(todo) - 1
        /\ \A i \in 1..(Len(todo) - 1) : i + 1 \in 1..Len(todo) /\ todo'[i] = todo[i + 1]
    BY <2>1, TailFacts
  <2>3. CASE ~started'
    BY <2>3 DEF ZeroInv, ZeroList
  <2>4. CASE started' /\ Spawn
    <3>1. Head(todo) = "spawn" /\ sequence' = sequence
      BY <2>4 DEF Spawn, Does, nonceVars
    <3>2. sequence # 0 /\ \A k \in 1..Len(todo) : k > 1 => todo[k] # "zero"
      BY <2>2, <3>1 DEF LiveInv
    <3> QED
      BY <2>2, <3>1, <3>2 DEF ZeroInv, ZeroList
  <2>5. CASE started' /\ ~Spawn
    <3>1. started
      BY <1>2, <2>5 DEF SetNonce, Join, Apply
    <3>2. ASSUME NEW i \in 1..Len(todo), todo[i] = "zero"
          PROVE  i < Len(todo) /\ todo[i + 1] \in {"zero", "join"}
      BY <3>1, <3>2 DEF ZeroInv, ZeroList
    <3>3. ZeroList(todo')
      <4> SUFFICES ASSUME NEW i \in 1..Len(todo'), todo'[i] = "zero"
                   PROVE  i < Len(todo') /\ todo'[i + 1] \in {"zero", "join"}
        BY DEF ZeroList
      <4>1. i + 1 \in 1..Len(todo) /\ todo[i + 1] = "zero"
        BY <2>2
      <4>2. i + 1 < Len(todo) /\ todo[(i + 1) + 1] \in {"zero", "join"}
        BY <3>2, <4>1
      <4>3. i + 1 \in 1..(Len(todo) - 1)
        BY <2>2, <4>1, <4>2
      <4> QED
        BY <2>2, <4>2, <4>3
    <3>4. ASSUME sequence' = 0 PROVE Head(todo) = "zero"
      <4>1. CASE SetNonce
        <5>1. /\ Head(todo) \in {"pause", "resume", "touch", "zero"}
              /\ Head(todo) = "touch" => sequence' = sequence + 1
              /\ Head(todo) \in {"pause", "resume"} => sequence' = sequence
          BY <4>1 DEF SetNonce
        <5>2. sequence + 1 # 0
          BY DEF Counts
        <5>3. sequence = 0 => todo[1] \in {"zero", "join"}
          BY <3>1 DEF ZeroInv
        <5> QED
          BY <2>2, <3>4, <5>1, <5>2, <5>3
      <4>2. CASE Apply
        <5>1. sequence' = sequence /\ Head(todo) = "apply"
          BY <4>2 DEF Apply, Does, nonceVars
        <5> QED
          BY <2>2, <3>1, <3>4, <5>1 DEF ZeroInv
      <4>3. ~Join
        BY <2>5 DEF Join
      <4> QED
        BY <1>2, <2>5, <4>1, <4>2, <4>3
    <3>5. ASSUME sequence' = 0 PROVE todo' # << >> /\ todo'[1] \in {"zero", "join"}
      <4>1. 1 < Len(todo) /\ todo[1 + 1] \in {"zero", "join"}
        BY <2>2, <3>2, <3>4, <3>5
      <4>2. 1 \in 1..(Len(todo) - 1)
        BY <2>2, <4>1
      <4> QED
        BY <2>2, <4>1, <4>2
    <3> QED
      BY <3>1, <3>3, <3>5 DEF ZeroInv, ZeroList, Idle
  <2> QED
    BY <2>3, <2>4, <2>5
<1>3. CASE DatasetThread \/ UNCHANGED vars
  BY <1>3 DEF DatasetThread, TakeBack, ApplyBegins, ApplyEnds, Finish, vars, nonceVars, loopVars,
     ZeroInv, ZeroList, Idle
<1>4. CASE \E w \in Workers : Worker(w) \/ Exhaust(w)
  <2>1. UNCHANGED <<started, todo, sequence>>
    BY <1>4 DEF Worker, Top, Test, Sleep, Wake, Loop, Hash, Exhaust, End, Bottom, Consume, Read,
       Adopt, Vm, Moves, Consumes, SharedVars, loopVars, nonceVars
  <2> QED
    BY <2>1 DEF ZeroInv, ZeroList, Idle
<1> QED
  BY <1>1, <1>2, <1>3, <1>4 DEF Next, EventLoop

----------------------------------------------------------------------------
(* The dataset thread works for the threads that hash *)

LEMMA ParamsWorker ==
    ASSUME IInv, DatasetInv, Counts, ParamsInv, NEW w \in Workers, Worker(w) \/ Exhaust(w)
    PROVE  ParamsInv'
<1>1. UNCHANGED <<sequence, storageAlgo, rxStep, queued, wantedAlgo, served, wanted>>
  BY DEF Worker, Top, Test, Sleep, Wake, Loop, Hash, Exhaust, End, Bottom, Consume, Read, Adopt, Vm,
         Moves, Consumes, SharedVars, nonceVars, rxVars, dtVars
<1>2. /\ pc \in [Workers -> Places] /\ ret[w] \in {"top", "loop"}
      /\ ownJob \in [Workers -> Jobs \cup {NoJob}] /\ own \in [Workers -> Nat]
  BY DEF IInv, ThreadInv, Counts
<1>3. \A v \in Workers : v # w => pc'[v] = pc[v] /\ own'[v] = own[v] /\ ownJob'[v] = ownJob[v]
  BY <1>2 DEF Worker, Top, Test, Sleep, Wake, Loop, Hash, Exhaust, End, Bottom, Consume, Read, Adopt,
     Vm, Moves, Consumes, Returns, Go, JobOfThread
<1>4. FoundDataset(w)' => WorksFor(ownJob'[w])
  <2>1. CASE Vm(w)
    <3>1. pc'[w] \in {"top", "loop"} /\ own' = own /\ ownJob' = ownJob
      BY <1>2, <2>1 DEF Vm, Returns, Go
    <3>2. CASE sequence = 0
      BY <1>1, <3>1, <3>2 DEF FoundDataset
    <3>3. CASE IsReady(ownJob[w])
      <4>1. ownJob[w] \in Jobs /\ served = SeedOf[ownJob[w]] /\ served # NoSeed
        BY <1>2, <3>3, SeedOfJob DEF IsReady
      <4>2. ~Pending /\ wanted = SeedOf[ownJob[w]]
        BY <4>1 DEF DatasetInv, StorageInv, Rx!OnlyWanted
      <4>3. PICK k \in Jobs : SeedOf[k] = SeedOf[ownJob[w]] /\ AlgoOf[k] = storageAlgo
        BY <4>1, <4>2 DEF DatasetInv, StorageInv, Pending
      <4>4. ASSUME ~Shared(ownJob[w]) PROVE WorksFor(ownJob[w])
        BY <4>2, <4>3, <4>4 DEF Shared, WorksFor, Pending
      <4> QED
        BY <3>1, <4>4 DEF FoundDataset
    <3> QED
      BY <2>1, <3>2, <3>3 DEF Vm
  <2>2. CASE Adopt(w)
    <3>1. pc'[w] \in {"vm", "full"}
      BY <1>2, <2>2 DEF Adopt, Go
    <3> QED
      BY <3>1 DEF FoundDataset, PastVm
  <2>3. CASE Loop(w)
    <3>1. /\ pc[w] = "loop" /\ own' = own /\ ownJob' = ownJob
          /\ pc'[w] = "hash" => own[w] = sequence
      BY <1>2, <2>3 DEF Loop, Moves, Go, JobOfThread
    <3> QED
      BY <1>1, <3>1 DEF FoundDataset, PastVm, ParamsInv
  <2>4. CASE End(w)
    <3>1. /\ own' = own /\ ownJob' = ownJob /\ pc[w] \in {"end", "full"}
          /\ pc'[w] = (IF pc[w] = "end" THEN "bottom" ELSE "vm")
      BY <1>2, <2>4 DEF End, Go, JobOfThread
    <3> QED
      BY <1>1, <3>1 DEF FoundDataset, PastVm, ParamsInv
  <2>5. CASE Consume(w)
    <3>1. /\ own' = own /\ ownJob' = ownJob /\ pc[w] = "consume"
          /\ pc'[w] \in {"top", "loop", "read"}
      BY <1>2, <2>5 DEF Consume, Returns, Go, JobOfThread
    <3> QED
      BY <1>1, <3>1 DEF FoundDataset, PastVm, ParamsInv
  <2>6. CASE Read(w)
    <3>1. own' = own /\ ownJob' = ownJob /\ pc[w] = "read" /\ pc'[w] = "adopt"
      BY <1>2, <2>6 DEF Read, Go
    <3> QED
      BY <1>1, <3>1 DEF FoundDataset, PastVm, ParamsInv
  <2>7. CASE Top(w) \/ Test(w) \/ Sleep(w) \/ Wake(w) \/ Hash(w) \/ Exhaust(w) \/ Bottom(w)
    <3>1. /\ own' = own /\ ownJob' = ownJob
          /\ PastVm(w) /\ pc'[w] # "hash"
      BY <1>2, <2>7 DEF Top, Test, Sleep, Wake, Hash, Exhaust, Bottom, Moves, Consumes, Go, JobOfThread,
         PastVm
    <3> QED
      BY <1>1, <3>1 DEF FoundDataset, ParamsInv
  <2> QED
    BY <2>1, <2>2, <2>3, <2>4, <2>5, <2>6, <2>7 DEF Worker
<1>5. ASSUME NEW v \in Workers, v # w, FoundDataset(v)' PROVE WorksFor(ownJob'[v])
  BY <1>1, <1>3, <1>5 DEF FoundDataset, PastVm, ParamsInv
<1> QED
  BY <1>1, <1>4, <1>5 DEF ParamsInv, WorksFor

LEMMA ParamsStep ==
    ASSUME IInv, DatasetInv, Counts, ZeroInv, ParamsInv, [Next]_vars
    PROVE  ParamsInv'
<1>1. ASSUME UNCHANGED <<threadVars, sequence, storageAlgo, rxStep, queued, wantedAlgo>>
      PROVE  ParamsInv'
  BY <1>1 DEF ParamsInv, FoundDataset, PastVm, WorksFor, threadVars
<1>2. CASE Calls \/ OnDatasetReady \/ Apply
  BY <1>1, <1>2 DEF Calls, SetJob, PoolLost, SetEnabled, ApiStop, Reload, OnDatasetReady, Apply,
     nonceVars, rxVars, dtVars
<1>3. CASE UNCHANGED vars
  BY <1>1, <1>3 DEF vars, nonceVars, rxVars, dtVars
<1>4. CASE Join \/ Spawn
  <2>1. \A w \in Workers : own'[w] = 0
    BY <1>4 DEF Join, Spawn, Threads
  <2> QED
    BY <2>1 DEF ParamsInv, FoundDataset
<1>5. CASE SetNonce
  <2>1. UNCHANGED <<threadVars, storageAlgo, rxStep, queued, wantedAlgo>>
    BY <1>5 DEF SetNonce, rxVars, dtVars
  <2>2. ASSUME NEW w \in Workers, PastVm(w), sequence' # 0 PROVE sequence # 0
    <3>1. started
      BY <2>2 DEF PastVm, IInv, ThreadInv
    <3>2. ~Idle /\ todo[1] = Head(todo)
      BY <1>5, TailFacts DEF SetNonce, IInv
    <3>3. sequence = 0 => Head(todo) \in {"zero", "join"}
      BY <3>1, <3>2 DEF ZeroInv
    <3> QED
      BY <1>5, <2>2, <3>3 DEF SetNonce
  <2> QED
    BY <2>1, <2>2 DEF ParamsInv, FoundDataset, PastVm, WorksFor, threadVars
<1>6. CASE Publish
  <2>1. UNCHANGED <<threadVars, sequence, storageAlgo, rxStep>>
    BY <1>6 DEF Publish, nonceVars, dtVars
  <2>2. UNCHANGED <<queued, wantedAlgo>> \/ wantedAlgo' = AlgoOf[arg]
    BY <1>6 DEF Publish
  <2>3. ASSUME NEW w \in Workers, FoundDataset(w) PROVE AlgoOf[arg] = AlgoOf[ownJob[w]]
    <3>1. started /\ AlgoOf[ownJob[w]] = Algorithm
      BY <2>3 DEF FoundDataset, PastVm, IInv, ThreadInv, OfAlgorithm
    <3> QED
      BY <1>6, <3>1, PublishFacts
  <2> QED
    BY <2>1, <2>2, <2>3 DEF ParamsInv, FoundDataset, PastVm, WorksFor, threadVars
<1>7. CASE DatasetThread
  <2>1. UNCHANGED <<threadVars, sequence, wantedAlgo>>
    BY <1>7 DEF DatasetThread, TakeBack, ApplyBegins, ApplyEnds, Finish, nonceVars, rxVars
  <2>2. ASSUME NEW j, WorksFor(j) PROVE WorksFor(j)'
    BY <1>7, <2>2 DEF DatasetThread, TakeBack, ApplyBegins, ApplyEnds, Finish, WorksFor, rxVars
  <2> QED
    BY <2>1, <2>2 DEF ParamsInv, FoundDataset, PastVm, threadVars
<1> QED
  BY <1>2, <1>3, <1>4, <1>5, <1>6, <1>7, ParamsWorker DEF Next, EventLoop

\* No thread hashes under the parameters of another algorithm or while they are
\* rewritten, for any number of threads, jobs and calls: the handler that
\* rewrites them has joined every thread, and the dataset thread, the second
\* writer, finds nothing to apply while a thread hashes with a dataset that is
\* of one algorithm only (Miner::setJob, RxBasicStoragePrivate::setSeed).
THEOREM AlgorithmMatchesHolds == Spec => []AlgorithmMatches
<1>1. Init => AgreeInv /\ ZeroInv /\ ParamsInv
  <2>1. Init => /\ todo = << >> /\ job = NoJob /\ storageAlgo = NoAlgo /\ applied = NoAlgo
                /\ rxStep = "idle" /\ ~started /\ own = [w \in Workers |-> 0]
    BY Zenon DEF Init
  <2> QED
    BY <2>1 DEF AgreeInv, Current, Algorithm, Among, ZeroInv, ZeroList, ParamsInv, FoundDataset
<1>2. IInv /\ DatasetInv /\ Counts /\ LiveInv /\ AgreeInv /\ ZeroInv /\ ParamsInv /\ [Next]_vars
        => AgreeInv' /\ ZeroInv' /\ ParamsInv'
  BY AgreeStep, ZeroStep, ParamsStep
<1>3. IInv /\ AgreeInv /\ ParamsInv => AlgorithmMatches
  <2> SUFFICES ASSUME IInv, AgreeInv, ParamsInv, NEW w \in Workers, Hashing(w), own[w] # 0,
                      ~Shared(ownJob[w])
               PROVE  applied = AlgoOf[ownJob[w]] \/ (applied = Torn /\ rxStep # "applying")
    BY DEF AlgorithmMatches
  <2>1. started /\ ownJob[w] # NoJob /\ AlgoOf[ownJob[w]] = Algorithm
    BY DEF Hashing, IInv, ThreadInv, OfAlgorithm
  <2>2. WorksFor(ownJob[w])
    BY <2>1 DEF Hashing, ParamsInv, FoundDataset, PastVm
  <2>3. Current = Algorithm
    BY <2>1 DEF Current, Among, IInv, TodoInv
  <2> QED
    BY <2>1, <2>2, <2>3 DEF AgreeInv, WorksFor
<1> QED
  BY <1>1, <1>2, <1>3, LiveInvHolds, IInvHolds, DatasetHolds, PTL DEF Spec
=============================================================================
