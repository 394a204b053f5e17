-------------------------- MODULE Strategy_proofs --------------------------
(***************************************************************************)
(* Proofs about Strategy, for any number of pools, any retries and any     *)
(* changes of the pools: one session is kept, the pool at the index is     *)
(* always on its way, and a strategy is a PoolService.                     *)
(***************************************************************************)
EXTENDS Strategy, TLAPS

----------------------------------------------------------------------------
(* The inductive invariant *)

\* The strategy's places: the pool in use is the one at the index, and its
\* client is logged in or its socket is being closed.
ActiveInv ==
    active # -1 /\ ~overrun =>
        /\ index = active
        /\ client[active].state \in {"on", "closing"}
        /\ wanted # "no" => client[active].failures # -1

\* While none is in use, the client at the index was asked and not given up.
IndexInv ==
    wanted # "no" /\ active = -1 /\ ~overrun =>
        client[index].failures # -1 /\ client[index].state # "unconnected"

\* After a stop every client is given up, and only a single pool is still
\* reported.
StoppedInv ==
    wanted = "no" =>
        /\ \A i \in Ids : client[i].failures = -1 \/ client[i].state = "unconnected"
        /\ active = -1 \/ Single

StrategyInv == TypeOK /\ OneSession /\ ActiveInv /\ IndexInv /\ StoppedInv

----------------------------------------------------------------------------
(* Lemmas about the operations of a client *)

LEMMA InType ==
    ASSUME NEW c \in Clients, NEW s \in States
    PROVE  In(c, s) \in Clients /\ In(c, s).state = s /\ In(c, s).failures = c.failures
  BY DEF In, Clients

LEMMA ResolvedType ==
    ASSUME NEW c \in Clients
    PROVE  Resolved(c) \in Clients /\ Resolved(c).state = "lookup" /\ Resolved(c).failures # -1
  BY RetriesAssumption DEF Resolved, Clients, States

\* A closed client has its failures; it loses its session if it had one.
LEMMA ClosedType ==
    ASSUME NEW c \in Clients
    PROVE  /\ Closed(c) \in Clients
           /\ Closed(c).failures = c.failures
           /\ Closed(c).state = IF HasSocket(c) THEN "closing" ELSE c.state
           /\ Closed(c).state # "on"
  BY DEF Closed, HasSocket, In, Clients, States

LEMMA DisconnectedType ==
    ASSUME NEW c \in Clients
    PROVE  /\ Disconnected(c) \in Clients
           /\ Disconnected(c).failures = -1
           /\ Disconnected(c).state = IF HasSocket(c) THEN "closing" ELSE c.state
           /\ Disconnected(c).state # "on"
  BY ClosedType, RetriesAssumption DEF Disconnected, Clients

\* A client that fails is tried again, unless it was given up.
LEMMA FailedType ==
    ASSUME NEW c \in Clients
    PROVE  /\ Failed(c) \in Clients
           /\ Failed(c).failures = -1 <=> c.failures = -1
           /\ Failed(c).state = IF c.failures = -1 THEN "unconnected" ELSE "reconnecting"
  BY RetriesAssumption DEF Failed, In, Clients, States

----------------------------------------------------------------------------
(* The invariant holds at the start and is kept by every step *)

LEMMA InitInv == Init => StrategyInv
<1> SUFFICES ASSUME Init PROVE StrategyInv
  OBVIOUS
<1>1. pools \in Nat \ {0} /\ 0 \in Ids
  BY PoolsAssumption DEF Init, Ids
<1>2. [state |-> "unconnected", failures |-> 0] \in Clients
  BY RetriesAssumption DEF Clients, States
<1>3. TypeOK
  <2>1. client \in [Ids -> Clients]
    BY <1>2, Zenon DEF Init
  <2>2. pools \in 1..MaxPools /\ up \in [Ids -> {"up", "down", "silent"}] /\ overrun \in BOOLEAN
    BY Zenon DEF Init
  <2>3. index \in Ids /\ active \in Ids \cup {-1} /\ wanted \in {"no", "yes", "late"}
    BY <1>1 DEF Init
  <2>4. changes \in 0..MaxChanges
    BY PoolsAssumption DEF Init
  <2> QED
    BY <2>1, <2>2, <2>3, <2>4, Zenon DEF TypeOK
<1>4. OneSession /\ ActiveInv /\ IndexInv /\ StoppedInv
  BY <1>1 DEF Init, OneSession, ActiveInv, IndexInv, StoppedInv
<1> QED
  BY <1>3, <1>4 DEF StrategyInv

LEMMA ConnectInv == StrategyInv /\ Connect => StrategyInv'
<1> SUFFICES ASSUME StrategyInv, Connect PROVE StrategyInv'
  OBVIOUS
<1>1. TypeOK /\ Ids' = Ids
  BY DEF StrategyInv, Connect, Ids
<1>2. /\ client' = [client EXCEPT ![index] = Resolved(client[index])]
      /\ Resolved(client[index]) \in Clients
      /\ Resolved(client[index]).state = "lookup"
      /\ Resolved(client[index]).failures # -1
  BY <1>1, ResolvedType DEF TypeOK, Connect, Asks
<1>3. overrun' \in BOOLEAN
  BY DEF Connect, Asks, HasSocket
<1>4. TypeOK'
  BY <1>1, <1>2, <1>3 DEF TypeOK, Connect
<1>5. (OneSession /\ IndexInv /\ StoppedInv)'
  BY <1>1, <1>2 DEF TypeOK, StrategyInv, Connect, OneSession, IndexInv, StoppedInv
<1>6. ActiveInv'
  <2>1. active # -1 => overrun'
    BY <1>1 DEF StrategyInv, ActiveInv, Connect, Asks, HasSocket
  <2> QED
    BY <2>1 DEF ActiveInv, Connect
<1> QED
  BY <1>4, <1>5, <1>6 DEF StrategyInv

LEMMA StopInv == StrategyInv /\ Stop => StrategyInv'
<1> SUFFICES ASSUME StrategyInv, Stop PROVE StrategyInv'
  OBVIOUS
<1>1. TypeOK /\ Ids' = Ids /\ pools \in Nat \ {0} /\ 0 \in Ids
  BY PoolsAssumption DEF StrategyInv, TypeOK, Stop, Ids
<1>2. \A i \in Ids :
        /\ client'[i] \in Clients
        /\ client'[i].failures = -1
        /\ client'[i].state # "on"
        /\ client[i].state \in {"on", "closing"} => client'[i].state = "closing"
  BY <1>1, DisconnectedType DEF TypeOK, Stop, HasSocket
<1>3. client' \in [Ids -> Clients]
  BY <1>1, <1>2 DEF Stop
<1>4. TypeOK'
  BY <1>1, <1>3 DEF TypeOK, Stop
<1>5. (OneSession /\ IndexInv /\ StoppedInv)'
  BY <1>1, <1>2 DEF StrategyInv, Stop, OneSession, IndexInv, StoppedInv, Single
<1>6. ActiveInv'
  BY <1>1, <1>2 DEF TypeOK, StrategyInv, Stop, ActiveInv, Single, Ids
<1> QED
  BY <1>4, <1>5, <1>6 DEF StrategyInv

\* Only clients of stopped strategies fail without being tried again.
LEMMA FailsInv ==
    ASSUME StrategyInv, NEW i \in Ids, ~overrun, client[i].state \in {"lookup", "closing"},
           Fails(i), UNCHANGED <<pools, wanted, up, changes>>
    PROVE  StrategyInv'
<1> DEFINE c == Failed(client[i])
           cs == [client EXCEPT ![i] = c]
<1>1. TypeOK /\ Ids' = Ids /\ pools \in Nat
  BY PoolsAssumption DEF StrategyInv, TypeOK, Ids
<1>2. /\ c \in Clients
      /\ c.failures = -1 <=> client[i].failures = -1
      /\ c.state \in {"unconnected", "reconnecting"}
      /\ c.failures # -1 => c.state = "reconnecting"
  BY <1>1, FailedType DEF TypeOK
<1>3. active' = IF active = i /\ (Single \/ c.failures # -1) THEN -1 ELSE active
  BY DEF Fails
<1>4. cs \in [Ids -> Clients] /\ cs[i] = c /\ \A j \in Ids \ {i} : cs[j] = client[j]
  BY <1>1, <1>2 DEF TypeOK
<1>5. wanted = "no" => c.failures = -1
  BY <1>1, <1>2 DEF StrategyInv, StoppedInv
<1>6. active = i => active' = -1
  BY <1>2, <1>3 DEF StrategyInv, ActiveInv, StoppedInv
<1>7. CASE GivesUp(i, c.failures)
  <2>1. index = i /\ index' = index + 1 /\ index + 1 \in Ids /\ c.failures # -1
    BY <1>1, <1>7 DEF TypeOK, Fails, GivesUp, Ids
  <2>2. client' = [cs EXCEPT ![index + 1] = Resolved(cs[index + 1])] /\ overrun' \in BOOLEAN
    BY <1>7 DEF Fails, Asks, HasSocket
  <2>3. /\ Resolved(cs[index + 1]) \in Clients
        /\ Resolved(cs[index + 1]).state = "lookup"
        /\ Resolved(cs[index + 1]).failures # -1
    BY <1>4, <2>1, ResolvedType
  <2>4. active' = -1
    BY <1>3, <1>6, <2>1 DEF StrategyInv, ActiveInv
  <2>5. wanted # "no"
    BY <1>5, <2>1
  <2>6. TypeOK'
    BY <1>1, <1>4, <2>1, <2>2, <2>3, <2>4 DEF TypeOK
  <2>7. OneSession'
    BY <1>1, <1>2, <1>3, <1>4, <1>6, <2>1, <2>2, <2>3, <2>4 DEF StrategyInv, OneSession, ActiveInv
  <2>8. (ActiveInv /\ IndexInv /\ StoppedInv)'
    BY <1>1, <1>4, <2>1, <2>2, <2>3, <2>4, <2>5 DEF ActiveInv, IndexInv, StoppedInv
  <2> QED
    BY <2>6, <2>7, <2>8 DEF StrategyInv
<1>8. CASE ~GivesUp(i, c.failures)
  <2>1. client' = cs /\ UNCHANGED <<index, overrun>>
    BY <1>8 DEF Fails
  <2>2. TypeOK'
    BY <1>1, <1>3, <1>4, <2>1 DEF TypeOK
  <2>3. OneSession'
    BY <1>1, <1>2, <1>3, <1>4, <2>1 DEF StrategyInv, OneSession
  <2>4. ActiveInv'
    BY <1>1, <1>3, <1>4, <1>6, <2>1 DEF TypeOK, StrategyInv, ActiveInv
  <2>5. IndexInv'
    <3> SUFFICES ASSUME wanted # "no", active' = -1
                 PROVE  cs[index].failures # -1 /\ cs[index].state # "unconnected"
      BY <2>1 DEF IndexInv
    <3>1. index \in Ids
      BY <1>1 DEF TypeOK
    <3>2. CASE active = -1
      BY <1>2, <1>4, <3>1, <3>2 DEF StrategyInv, IndexInv
    <3>3. CASE active # -1
      BY <1>2, <1>3, <1>4, <3>1, <3>3 DEF StrategyInv, ActiveInv
    <3> QED
      BY <3>2, <3>3
  <2>6. StoppedInv'
    BY <1>1, <1>3, <1>4, <1>5, <2>1 DEF StrategyInv, StoppedInv, Single
  <2> QED
    BY <2>2, <2>3, <2>4, <2>5, <2>6 DEF StrategyInv
<1> QED
  BY <1>7, <1>8

\* The callbacks that only move one client on leave every session in use to its
\* client or to the closing of its socket, and give up no client.
LEMMA MovesInv ==
    ASSUME StrategyInv, NEW i \in Ids, NEW c \in Clients,
           client' = [client EXCEPT ![i] = c],
           c.failures = client[i].failures,
           client[i].state # "unconnected", c.state \notin {"on", "unconnected"},
           client[i].state \in {"on", "closing"} => c.state = "closing",
           UNCHANGED <<pools, index, active, wanted, overrun>>,
           up' \in [Ids -> {"up", "down", "silent"}], changes' \in 0..MaxChanges
    PROVE  StrategyInv'
<1>1. TypeOK /\ Ids' = Ids
  BY DEF StrategyInv, Ids
<1>2. TypeOK'
  BY <1>1 DEF TypeOK
<1>3. OneSession'
  BY <1>1 DEF TypeOK, StrategyInv, OneSession
<1>4. ActiveInv'
  BY <1>1 DEF TypeOK, StrategyInv, ActiveInv
<1>5. IndexInv'
  BY <1>1 DEF TypeOK, StrategyInv, IndexInv
<1>6. StoppedInv'
  BY <1>1 DEF TypeOK, StrategyInv, StoppedInv, Single
<1> QED
  BY <1>2, <1>3, <1>4, <1>5, <1>6 DEF StrategyInv

LEMMA OnResolvedInv == ASSUME StrategyInv, NEW i \in Ids, OnResolved(i) PROVE StrategyInv'
<1>1. client[i] \in Clients /\ "connecting" \in States /\ TypeOK
  BY DEF StrategyInv, TypeOK, States
<1>2. CASE client' = [client EXCEPT ![i] = In(@, "connecting")] /\ UNCHANGED <<index, active, overrun>>
  <2>1. /\ In(client[i], "connecting") \in Clients
        /\ In(client[i], "connecting").state = "connecting"
        /\ In(client[i], "connecting").failures = client[i].failures
    BY <1>1, InType
  <2> QED
    BY <1>1, <1>2, <2>1, MovesInv DEF OnResolved, TypeOK
<1>3. CASE Fails(i)
  BY <1>3, FailsInv DEF OnResolved
<1> QED
  BY <1>2, <1>3 DEF OnResolved

LEMMA OnConnectInv == ASSUME StrategyInv, NEW i \in Ids, OnConnect(i) PROVE StrategyInv'
<1> DEFINE s == IF up[i] = "up" THEN "asked" ELSE "mute"
<1>1. client[i] \in Clients /\ s \in States /\ TypeOK
  BY DEF StrategyInv, TypeOK, States
<1>2. In(client[i], s) \in Clients /\ In(client[i], s).state = s
      /\ In(client[i], s).failures = client[i].failures
  BY <1>1, InType
<1>3. client' = [client EXCEPT ![i] = In(client[i], s)]
  BY <1>1 DEF OnConnect, TypeOK
<1> QED
  BY <1>1, <1>2, <1>3, MovesInv DEF OnConnect, TypeOK

\* A socket is closed because of a failure.
LEMMA ClosesInv ==
    ASSUME StrategyInv, NEW i \in Ids, HasSocket(client[i]),
           client' = [client EXCEPT ![i] = Closed(@)],
           UNCHANGED <<pools, index, active, wanted, overrun, up, changes>>
    PROVE  StrategyInv'
<1>1. client[i] \in Clients /\ TypeOK
  BY DEF StrategyInv, TypeOK
<1>2. /\ Closed(client[i]) \in Clients /\ Closed(client[i]).state = "closing"
      /\ Closed(client[i]).failures = client[i].failures
  BY <1>1, ClosedType
<1>3. client[i].state # "unconnected"
  BY DEF HasSocket
<1> QED
  BY <1>1, <1>2, <1>3, MovesInv DEF TypeOK

LEMMA TickInv == ASSUME StrategyInv, NEW i \in Ids, Tick(i) PROVE StrategyInv'
<1>1. client[i] \in Clients /\ TypeOK
  BY DEF StrategyInv, TypeOK
<1>2. /\ Resolved(client[i]) \in Clients /\ Resolved(client[i]).state = "lookup"
      /\ Resolved(client[i]).failures = client[i].failures
  BY <1>1, ResolvedType DEF Resolved, Tick
<1>3. client' = [client EXCEPT ![i] = Resolved(client[i])] /\ UNCHANGED overrun
  <2>1. client' = [client EXCEPT ![i] = Resolved(client[i])]
    BY <1>1 DEF Tick, Asks, TypeOK
  <2>2. ~HasSocket(client[i]) /\ ~overrun
    BY DEF Tick, HasSocket
  <2>3. overrun' = HasSocket(client[i])
    BY Zenon DEF Tick, Asks
  <2>4. HasSocket(client[i]) \in BOOLEAN /\ overrun \in BOOLEAN
    BY <1>1 DEF HasSocket, TypeOK
  <2> QED
    BY <2>1, <2>2, <2>3, <2>4, Zenon
<1> QED
  BY <1>1, <1>2, <1>3, MovesInv DEF Tick, TypeOK

LEMMA ChangeInv == ASSUME StrategyInv, NEW i \in Ids, Change(i) PROVE StrategyInv'
<1>1. client[i] \in Clients /\ "mute" \in States /\ TypeOK /\ Ids' = Ids
  BY DEF StrategyInv, TypeOK, States, Change, Ids
<1>2. up' \in [Ids -> {"up", "down", "silent"}] /\ changes' \in 0..MaxChanges
  BY <1>1, PoolsAssumption DEF TypeOK, Change
<1>3. CASE client' = client
  BY <1>1, <1>2, <1>3 DEF Change, StrategyInv, TypeOK, OneSession, ActiveInv, IndexInv, StoppedInv,
     Single
<1>4. CASE client[i].state = "asked" /\ client' = [client EXCEPT ![i] = In(@, "mute")]
  <2>1. In(client[i], "mute") \in Clients /\ In(client[i], "mute").state = "mute"
        /\ In(client[i], "mute").failures = client[i].failures
    BY <1>1, InType
  <2> QED
    BY <1>1, <1>2, <1>4, <2>1, MovesInv DEF Change, TypeOK
<1> QED
  BY <1>3, <1>4 DEF Change

\* A login takes over from the pool in use, if any: it is the first pool, which
\* stands before every other.
LEMMA OnLoginInv == ASSUME StrategyInv, NEW i \in Ids, OnLogin(i) PROVE StrategyInv'
<1> DEFINE a == IF i = 0 \/ active = -1 THEN i ELSE active
           on == [state |-> "on", failures |-> 0]
           cs == [client EXCEPT ![i] = on]
<1>1. TypeOK /\ Ids' = Ids /\ a \in Ids /\ pools \in Nat
  BY PoolsAssumption DEF StrategyInv, TypeOK, OnLogin, Ids
<1>2. on \in Clients
  BY RetriesAssumption DEF Clients, States
<1>3. cs \in [Ids -> Clients] /\ cs[i] = on /\ \A j \in Ids \ {i} : cs[j] = client[j]
  BY <1>1, <1>2 DEF TypeOK
<1>a. client[i].state = "asked" /\ ~overrun
  BY DEF OnLogin
<1>4. /\ client' = [j \in Ids |-> IF j > 0 /\ j # a THEN Disconnected(cs[j]) ELSE cs[j]]
      /\ active' = a /\ index' = a /\ wanted' \in {"yes", "late"}
      /\ UNCHANGED <<pools, overrun, up, changes>>
  <2>1. /\ client' = [j \in Ids |-> IF j > 0 /\ j # a THEN Disconnected(cs[j]) ELSE cs[j]]
        /\ active' = a /\ index' = IF a = active THEN index ELSE a
    BY Zenon DEF OnLogin, LoginSuccess
  <2>2. wanted' \in {"yes", "late"} /\ UNCHANGED <<pools, overrun, up, changes>>
    BY <1>1 DEF OnLogin, TypeOK
  <2>3. a # -1
    BY <1>1 DEF Ids
  <2> QED
    BY <1>a, <2>1, <2>2, <2>3 DEF StrategyInv, ActiveInv
<1>5. \A j \in Ids : /\ client'[j] \in Clients
                     /\ j > 0 /\ j # a => client'[j].state # "on"
                     /\ j = 0 \/ j = a => client'[j] = cs[j]
  BY <1>3, <1>4, DisconnectedType
<1>6. TypeOK'
  <2>1. client' \in [Ids -> Clients]
    BY <1>4, <1>5
  <2> QED
    BY <1>1, <1>4, <2>1 DEF TypeOK
<1>8. a # i => /\ a = active /\ client[a].state \in {"on", "closing"}
               /\ wanted # "no"
               /\ client[a].failures # -1
  BY <1>1, <1>a DEF StrategyInv, ActiveInv, StoppedInv, Single, Ids, TypeOK
<1>9. OneSession'
  <2> SUFFICES ASSUME NEW j \in Ids, client'[j].state = "on" PROVE j = a
    BY <1>1, <1>4 DEF OneSession
  <2>1. j = 0 \/ j = a
    BY <1>1, <1>5 DEF Ids
  <2>2. CASE j = 0 /\ i = 0
    BY <2>2
  <2>3. CASE j = 0 /\ i # 0
    BY <1>3, <1>5, <2>3 DEF StrategyInv, OneSession
  <2> QED
    BY <2>1, <2>2, <2>3
<1>10. ActiveInv'
  BY <1>1, <1>2, <1>3, <1>4, <1>5, <1>8 DEF ActiveInv
<1>11. IndexInv' /\ StoppedInv'
  BY <1>1, <1>4 DEF IndexInv, StoppedInv, Ids
<1> QED
  BY <1>6, <1>9, <1>10, <1>11 DEF StrategyInv

LEMMA NextInv == StrategyInv /\ [Next]_vars => StrategyInv'
<1> SUFFICES ASSUME StrategyInv, [Next]_vars PROVE StrategyInv'
  OBVIOUS
<1>1. ASSUME NEW i \in Ids, Callback(i) PROVE StrategyInv'
  <2>1. ASSUME OnConnectFailed(i) \/ OnRead(i) PROVE StrategyInv'
    BY <2>1, ClosesInv DEF OnConnectFailed, OnRead, HasSocket
  <2>2. ASSUME OnClose(i) PROVE StrategyInv'
    BY <2>2, FailsInv DEF OnClose
  <2> QED
    BY <1>1, <2>1, <2>2, OnResolvedInv, OnConnectInv, OnLoginInv, TickInv DEF Callback
<1>2. CASE UNCHANGED vars
  BY <1>2 DEF vars, StrategyInv, TypeOK, Ids, OneSession, ActiveInv, IndexInv, StoppedInv, Single
<1> QED
  BY <1>1, <1>2, ConnectInv, StopInv, ChangeInv DEF Next

LEMMA InvHolds == Spec => []StrategyInv
  BY InitInv, NextInv, PTL DEF Spec

----------------------------------------------------------------------------
(* What it gives *)

\* Clients, index and pool in use keep their types, the index and the pool in
\* use being enabled pools (FailoverStrategy.cpp, SinglePoolStrategy.cpp).
THEOREM TypeCorrect == Spec => []TypeOK
<1>1. StrategyInv => TypeOK
  BY DEF StrategyInv
<1> QED
  BY InvHolds, <1>1, PTL

\* Whatever order logins, failures and stops come in, one pool at most is logged
\* in, and it is the one in use (FailoverStrategy::onLoginSuccess, onClose).
THEOREM OneSessionHolds == Spec => []OneSession
<1>1. StrategyInv => OneSession
  BY DEF StrategyInv
<1> QED
  BY InvHolds, <1>1, PTL

\* A strategy that has no pool in use is on its way to the one at its index.
THEOREM NeverStrandedHolds == Spec => []NeverStranded
<1>1. StrategyInv => NeverStranded
  <2> SUFFICES ASSUME StrategyInv, wanted # "no", active = -1, ~overrun
               PROVE  OnItsWay(client[index]) \/ Mute(index)
    BY DEF NeverStranded
  <2>1. index \in Ids /\ client[index] \in Clients
    BY DEF StrategyInv, TypeOK
  <2>2. client[index].failures # -1 /\ client[index].state \notin {"unconnected", "on"}
    BY <2>1 DEF StrategyInv, IndexInv, OneSession, Ids
  <2> QED
    BY <2>1, <2>2 DEF OnItsWay, Mute, Clients, States
<1> QED
  BY InvHolds, <1>1, PTL

----------------------------------------------------------------------------
(* Refinement: every step is a step of the pool service, or none *)

LEMMA InitRefines == Init => Service!Init
<1> SUFFICES ASSUME Init PROVE Service!Init
  OBVIOUS
<1>1. ~Late
  BY DEF Init, Late
<1> QED
  BY <1>1 DEF Init, Service!Init

\* A step that neither stops nor serves lets a late attempt expire, or goes
\* unseen.
LEMMA QuietStep ==
    ASSUME UNCHANGED <<wanted, active>>, wanted = "no" /\ Late' => Late
    PROVE  [Service!Next]_Service!vars
<1>1. CASE wanted = "no" /\ Late /\ ~Late'
  <2>1. Service!Expire
    BY <1>1 DEF Service!Expire, Late
  <2> QED
    BY <2>1 DEF Service!Next
<1>2. CASE ~(wanted = "no" /\ Late /\ ~Late')
  <2>1. UNCHANGED Service!vars
    BY <1>2 DEF Service!vars, Late
  <2> QED
    BY <2>1
<1> QED
  BY <1>1, <1>2

\* A client that was given up does not come under way again by itself.
IsLate(c) == c.failures = -1 /\ c.state \in {"lookup", "connecting", "asked"}

LEMMA OneClientQuiet ==
    ASSUME StrategyInv, NEW i \in Ids, NEW c, client' = [client EXCEPT ![i] = c],
           wanted = "no" /\ IsLate(c) => IsLate(client[i]),
           UNCHANGED <<pools, wanted, active>>
    PROVE  [Service!Next]_Service!vars
<1>1. Ids' = Ids /\ client \in [Ids -> Clients]
  BY DEF Ids, StrategyInv, TypeOK
<1>2. ASSUME wanted = "no", NEW j \in Ids, IsLate(client'[j]) PROVE IsLate(client[j])
  BY <1>1, <1>2
<1>3. wanted = "no" /\ Late' => Late
  BY <1>1, <1>2 DEF Late, IsLate
<1> QED
  BY <1>3, QuietStep

LEMMA FailsRefines ==
    ASSUME StrategyInv, ~overrun, NEW i \in Ids, client[i].state \in {"lookup", "closing"},
           Fails(i), UNCHANGED <<pools, wanted>>
    PROVE  [Service!Next]_Service!vars
<1> DEFINE c == Failed(client[i])
<1>1. /\ client \in [Ids -> Clients] /\ client[i] \in Clients /\ Ids' = Ids
      /\ c.failures = -1 <=> client[i].failures = -1
      /\ c.state \in {"unconnected", "reconnecting"}
  BY FailedType DEF StrategyInv, TypeOK, Ids
<1>2. active' = IF active = i /\ (Single \/ c.failures # -1) THEN -1 ELSE active
  BY DEF Fails
<1>3. wanted = "no" => client' = [client EXCEPT ![i] = c]
  BY <1>1 DEF Fails, GivesUp, StrategyInv, StoppedInv
<1>4. CASE active' = active
  <2>1. ASSUME wanted = "no" PROVE Late' => Late
    <3>1. ASSUME NEW j \in Ids, IsLate(client'[j]) PROVE IsLate(client[j])
      BY <1>1, <1>3, <2>1, <3>1 DEF IsLate
    <3> QED
      BY <1>1, <3>1 DEF Late, IsLate
  <2> QED
    BY <1>4, <2>1, QuietStep
<1>5. CASE active' # active
  <2>1. active = i /\ active' = -1 /\ i # -1
    BY <1>2, <1>5
  <2>2. wanted = "no" => ~Late /\ ~Late'
    <3> SUFFICES ASSUME wanted = "no" PROVE ~Late /\ ~Late'
      OBVIOUS
    <3>1. Ids = {i} /\ client[i].state = "closing" /\ client'[i] = c
      BY <1>1, <1>3, <2>1 DEF StrategyInv, TypeOK, StoppedInv, ActiveInv, OneSession, Single, Ids
    <3> QED
      BY <1>1, <3>1 DEF Late
  <2>3. Service!Lose
    BY <2>1, <2>2 DEF Service!Lose, Late
  <2> QED
    BY <2>3 DEF Service!Next
<1> QED
  BY <1>4, <1>5

\* The late login of a stopped strategy serves; so does the first of one that
\* is trying.  A better pool takes over unseen.
LEMMA OnLoginRefines ==
    ASSUME StrategyInv, NEW i \in Ids, OnLogin(i)
    PROVE  [Service!Next]_Service!vars
<1>0. i # -1
  BY DEF Ids
<1>1. /\ TypeOK /\ client[i].state = "asked" /\ ~overrun
      /\ wanted' = IF wanted = "no" THEN "late" ELSE wanted
      /\ active' = IF i = 0 \/ active = -1 THEN i ELSE active
  BY Zenon DEF StrategyInv, OnLogin, LoginSuccess
<1>2. wanted = "no" => active = -1 /\ Late
  BY <1>0, <1>1 DEF StrategyInv, TypeOK, StoppedInv, ActiveInv, Single, Ids, Late
<1>3. wanted' # "no" /\ active' # -1
  BY <1>0, <1>1 DEF TypeOK
<1>4. CASE active = -1
  <2>1. Service!Serve
    BY <1>2, <1>3, <1>4 DEF Service!Serve
  <2> QED
    BY <2>1 DEF Service!Next
<1>5. CASE active # -1
  BY <1>2, <1>3, <1>5 DEF Service!vars
<1> QED
  BY <1>4, <1>5

LEMMA StepRefines == StrategyInv /\ [Next]_vars => [Service!Next]_Service!vars
<1> SUFFICES ASSUME StrategyInv, [Next]_vars PROVE [Service!Next]_Service!vars
  OBVIOUS
<1> USE DEF Service!Next
<1>1. TypeOK
  BY DEF StrategyInv
<1>2. CASE Connect
  <2>1. Service!Connect
    BY <1>2 DEF Connect, Service!Connect
  <2> QED
    BY <2>1
<1>3. CASE Stop
  <2>1. Service!Stop
    BY <1>3 DEF Stop, Service!Stop, Late
  <2> QED
    BY <2>1
<1>4. ASSUME NEW i \in Ids, OnResolved(i) PROVE [Service!Next]_Service!vars
  <2>1. CASE client' = [client EXCEPT ![i] = In(@, "connecting")] /\ UNCHANGED active
    BY <1>1, <1>4, <2>1, OneClientQuiet, InType DEF OnResolved, IsLate, TypeOK, States
  <2>2. CASE Fails(i)
    BY <1>4, <2>2, FailsRefines DEF OnResolved
  <2> QED
    BY <1>4, <2>1, <2>2 DEF OnResolved
<1>5. ASSUME NEW i \in Ids, OnConnect(i) PROVE [Service!Next]_Service!vars
  BY <1>1, <1>5, OneClientQuiet DEF OnConnect, IsLate, In, TypeOK, Clients
<1>6. ASSUME NEW i \in Ids, OnConnectFailed(i) \/ OnRead(i) PROVE [Service!Next]_Service!vars
  BY <1>1, <1>6, OneClientQuiet, ClosedType DEF OnConnectFailed, OnRead, IsLate, HasSocket, TypeOK
<1>7. ASSUME NEW i \in Ids, OnClose(i) PROVE [Service!Next]_Service!vars
  BY <1>7, FailsRefines DEF OnClose
<1>8. ASSUME NEW i \in Ids, Tick(i) PROVE [Service!Next]_Service!vars
  <2>1. wanted # "no"
    BY <1>8 DEF Tick, StrategyInv, StoppedInv
  <2> QED
    BY <1>8, <2>1, QuietStep DEF Tick
<1>9. ASSUME NEW i \in Ids, Change(i) PROVE [Service!Next]_Service!vars
  <2>1. CASE client' = client
    BY <1>9, <2>1, QuietStep DEF Change, Late, Ids
  <2>2. CASE client' = [client EXCEPT ![i] = In(@, "mute")]
    BY <1>1, <1>9, <2>2, OneClientQuiet, InType DEF Change, IsLate, TypeOK, States
  <2> QED
    BY <1>9, <2>1, <2>2 DEF Change
<1>10. CASE UNCHANGED vars
  BY <1>10, QuietStep DEF vars, Late, Ids
<1> QED
  BY <1>2, <1>3, <1>4, <1>5, <1>6, <1>7, <1>8, <1>9, <1>10, OnLoginRefines DEF Next, Callback

\* A strategy, with its clients, their timers and the callbacks of the event
\* loop, takes only steps that the network may expect of a pool service: after a
\* stop nothing comes but the login that was under way.
THEOREM StrategyIsService == Spec => ServiceSpec
  BY InitRefines, StepRefines, InvHolds, PTL DEF Spec, ServiceSpec, Service!Spec
=============================================================================
