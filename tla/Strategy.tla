------------------------------ MODULE Strategy ------------------------------
(***************************************************************************)
(* A pool strategy and its stratum clients: SinglePoolStrategy for one     *)
(* pool, FailoverStrategy for several, and Client for each pool, as the    *)
(* callbacks of the event loop drive them: DNS answers, connections,       *)
(* messages, closed handles and the tick of the network.                   *)
(*                                                                         *)
(* A client is the state of its connection and its count of failures.      *)
(* ConnectedState is split by what the pool was asked: its login is asked, *)
(* was sent to a pool that stays mute, or is answered (on).  A pool that   *)
(* was given up (disconnect) has -1 failures.                              *)
(*                                                                         *)
(* The clients are followed until connect() overwrites the socket of one   *)
(* that still has one (overrun).                                           *)
(***************************************************************************)
EXTENDS Integers

CONSTANTS
    MaxPools,       \* bound: pools of the configuration
    Retries,        \* the option "retries"
    MaxChanges      \* bound: how often a pool changes what it does

ASSUME PoolsAssumption == MaxPools \in Nat \ {0} /\ MaxChanges \in Nat
ASSUME RetriesAssumption == Retries \in Nat \ {0}

VARIABLES
    pools,          \* how many pools are enabled
    client,         \* m_pools, m_client
    index, active,  \* m_index, m_active (-1: none)
    wanted,         \* history: connect() was called ("yes"), a late login came
                    \* after stop() ("late"), or neither ("no")
    overrun,        \* history: connect() overwrote an open socket
    up,             \* the pools: they answer, refuse, or accept and stay silent
    changes         \* how often they changed

vars == <<pools, client, index, active, wanted, overrun, up, changes>>

Ids == 0..(pools - 1)
States == {"unconnected", "lookup", "connecting", "asked", "mute", "on", "closing", "reconnecting"}
Clients == [state : States, failures : -1..Retries]

TypeOK ==
    /\ pools \in 1..MaxPools
    /\ client \in [Ids -> Clients]
    /\ index \in Ids /\ active \in Ids \cup {-1}
    /\ wanted \in {"no", "yes", "late"}
    /\ overrun \in BOOLEAN
    /\ up \in [Ids -> {"up", "down", "silent"}]
    /\ changes \in 0..MaxChanges

Init ==
    /\ pools \in 1..MaxPools
    /\ client = [i \in Ids |-> [state |-> "unconnected", failures |-> 0]]
    /\ index = 0 /\ active = -1
    /\ wanted = "no" /\ overrun = FALSE
    /\ up \in [Ids -> {"up", "down", "silent"}] /\ changes = 0

----------------------------------------------------------------------------
(* Client: what its own operations make of it *)

HasSocket(c) == c.state \in {"connecting", "asked", "mute", "on", "closing"}
In(c, state) == [c EXCEPT !.state = state]

\* Mistake: a client that was given up stays so when it is asked again.
ResolvedGivenUp(c) == In(c, "lookup")

\* Client::connect, resolve
Resolved(c) == [state |-> "lookup", failures |-> IF c.failures = -1 THEN 0 ELSE c.failures]

\* Client::close: without a socket there is nothing to close.
Closed(c) == IF HasSocket(c) THEN In(c, "closing") ELSE c

\* Mistake: the failures are kept, and with them the wish to reconnect.
DisconnectedOnce(c) == Closed(c)

\* Client::disconnect
Disconnected(c) == [Closed(c) EXCEPT !.failures = -1]

\* Client::reconnect, for a client that is not deleted.  (After a failed lookup
\* a client that was given up stays in HostLookupState, which nothing tells from
\* UnconnectedState.)
Failed(c) ==
    IF c.failures = -1 THEN In(c, "unconnected")
    ELSE [state |-> "reconnecting",
          failures |-> IF c.failures < Retries THEN c.failures + 1 ELSE Retries]

----------------------------------------------------------------------------
(* The strategies *)

Single == pools = 1

\* Ask pool i to connect, the clients being cs otherwise.
Asks(cs, i) ==
    /\ client' = [cs EXCEPT ![i] = Resolved(@)]
    /\ overrun' = HasSocket(cs[i])

\* FailoverStrategy::connect, SinglePoolStrategy::connect: DonateStrategy also
\* calls it on a strategy that a late login revived.
Connect ==
    /\ ~overrun
    /\ wanted' = "yes"
    /\ Asks(client, index)
    /\ UNCHANGED <<pools, index, active, up, changes>>

\* Mistake: the resets of the index and of the pool in use are swapped.
StopSwapped ==
    /\ ~overrun
    /\ wanted # "no"
    /\ wanted' = "no"
    /\ client' = [i \in Ids |-> Disconnected(client[i])]
    /\ index' = IF Single THEN index ELSE -1
    /\ active' = IF Single THEN active ELSE 0
    /\ UNCHANGED <<pools, overrun, up, changes>>

\* Stop: every pool is given up.  A single pool tells its end when its socket
\* is closed.
Stop ==
    /\ ~overrun
    /\ wanted # "no"
    /\ wanted' = "no"
    /\ client' = [i \in Ids |-> Disconnected(client[i])]
    /\ index' = 0
    /\ active' = IF Single THEN active ELSE -1
    /\ UNCHANGED <<pools, overrun, up, changes>>

\* FailoverStrategy goes on to the next pool: the first one has its retries,
\* the others one attempt.
GivesUp(i, failures) ==
    /\ ~Single /\ failures # -1
    /\ ~(index = 0 /\ failures < Retries)
    /\ index = i /\ index < pools - 1

\* Client::reconnect of client i, and what onClose of the strategy does.
Fails(i) ==
    LET c  == Failed(client[i])
        cs == [client EXCEPT ![i] = c]
    IN  /\ active' = IF active = i /\ (Single \/ c.failures # -1) THEN -1 ELSE active
        /\ \/ /\ GivesUp(i, c.failures)
              /\ index' = index + 1
              /\ Asks(cs, index + 1)
           \/ /\ ~GivesUp(i, c.failures)
              /\ client' = cs
              /\ UNCHANGED <<index, overrun>>

\* Mistake: the pools that are not used any more keep their connections.
LoginKeepsOthers(i) ==
    LET a == IF i = 0 \/ active = -1 THEN i ELSE active
    IN  /\ client' = [client EXCEPT ![i] = [state |-> "on", failures |-> 0]]
        /\ active' = a
        /\ index' = IF a = active THEN index ELSE a

\* onLoginSuccess: the first pool takes over from any other, any pool from
\* none; the others, but for the first, are given up.
LoginSuccess(i) ==
    LET a  == IF i = 0 \/ active = -1 THEN i ELSE active
        cs == [client EXCEPT ![i] = [state |-> "on", failures |-> 0]]
    IN  /\ client' = [j \in Ids |-> IF j > 0 /\ j # a THEN Disconnected(cs[j]) ELSE cs[j]]
        /\ active' = a
        /\ index' = IF a = active THEN index ELSE a

----------------------------------------------------------------------------
(* The callbacks of the event loop *)

\* Client::onResolved, Client::connect(addr)
OnResolved(i) ==
    /\ ~overrun
    /\ client[i].state = "lookup"
    /\ \/ /\ up[i] # "down"
          /\ client' = [client EXCEPT ![i] = In(@, "connecting")]
          /\ UNCHANGED <<index, active, overrun>>
       \/ /\ up[i] = "down"
          /\ Fails(i)
    /\ UNCHANGED <<pools, wanted, up, changes>>

\* Client::onConnect, handshake, login: the timeout of the answer is switched
\* off as it is set (send, startTimeout).
OnConnect(i) ==
    /\ ~overrun
    /\ client[i].state = "connecting" /\ up[i] # "down"
    /\ client' = [client EXCEPT ![i] = In(@, IF up[i] = "up" THEN "asked" ELSE "mute")]
    /\ UNCHANGED <<pools, index, active, wanted, overrun, up, changes>>

\* The connection is refused, or not made in time (Client::tick).
OnConnectFailed(i) ==
    /\ ~overrun
    /\ client[i].state = "connecting" /\ up[i] = "down"
    /\ client' = [client EXCEPT ![i] = Closed(@)]
    /\ UNCHANGED <<pools, index, active, wanted, overrun, up, changes>>

\* Client::parseResponse: the login is accepted.
OnLogin(i) ==
    /\ ~overrun
    /\ client[i].state = "asked" /\ up[i] = "up"
    /\ wanted' = IF wanted = "no" THEN "late" ELSE wanted
    /\ LoginSuccess(i)
    /\ UNCHANGED <<pools, overrun, up, changes>>

\* The pool ends the connection, refuses the login or sends a job that cannot
\* be used.
OnRead(i) ==
    /\ ~overrun
    /\ client[i].state \in {"asked", "mute", "on"} /\ up[i] = "down"
    /\ client' = [client EXCEPT ![i] = Closed(@)]
    /\ UNCHANGED <<pools, index, active, wanted, overrun, up, changes>>

\* Client::onClose
OnClose(i) ==
    /\ ~overrun
    /\ client[i].state = "closing"
    /\ Fails(i)
    /\ UNCHANGED <<pools, wanted, up, changes>>

\* Mistake: a client that failed as often as it may is not tried again.
TickLimited(i) ==
    /\ ~overrun
    /\ client[i].state = "reconnecting" /\ client[i].failures \in 0..(Retries - 1)
    /\ Asks(client, i)
    /\ UNCHANGED <<pools, index, active, wanted, up, changes>>

\* Client::tick: the retry pause is over, unless the client was given up.
Tick(i) ==
    /\ ~overrun
    /\ client[i].state = "reconnecting" /\ client[i].failures # -1
    /\ Asks(client, i)
    /\ UNCHANGED <<pools, index, active, wanted, up, changes>>

\* A pool changes what it does.  The answer of one that falls silent is lost.
Change(i) ==
    /\ ~overrun
    /\ changes < MaxChanges /\ changes' = changes + 1
    /\ \E u \in {"up", "down", "silent"} \ {up[i]} :
          /\ up' = [up EXCEPT ![i] = u]
          /\ client' = IF u = "silent" /\ client[i].state = "asked"
                       THEN [client EXCEPT ![i] = In(@, "mute")] ELSE client
    /\ UNCHANGED <<pools, index, active, wanted, overrun>>

Callback(i) ==
    \/ OnResolved(i) \/ OnConnect(i) \/ OnConnectFailed(i) \/ OnLogin(i) \/ OnRead(i)
    \/ OnClose(i) \/ Tick(i)

Next ==
    \/ Connect \/ Stop
    \/ \E i \in Ids : Callback(i) \/ Change(i)

\* The event loop runs, its timers expire, and pools that are up answer.
Spec == Init /\ [][Next]_vars
        /\ \A i \in 0..(MaxPools - 1) : WF_vars(i \in Ids /\ Callback(i))

----------------------------------------------------------------------------
(* Properties *)

\* The strategy keeps one session: a pool that is logged in is the one in use,
\* is being closed, or is the first pool, which is never given up.
OneSession == \A i \in Ids : client[i].state = "on" => i = active

\* While no pool is in use, the one at the index is on its way: the strategy
\* never waits for something that does not come.  The one exception is a pool
\* that accepts the connection and does not answer the login.
Mute(i) == client[i].state = "mute"
OnItsWay(c) ==
    \/ c.state \in {"lookup", "connecting", "asked", "closing"}
    \/ c.state = "reconnecting" /\ c.failures # -1
NeverStranded == wanted # "no" /\ active = -1 /\ ~overrun => OnItsWay(client[index]) \/ Mute(index)

\* If a pool answers from some point on, some pool ends up in use, and the first
\* one itself if it is the one that answers, whatever pools were tried, used and
\* given up meanwhile.  The exceptions are a pool that stays mute, and a pool
\* before the index that was given up, which is not tried again: when a worse
\* one was in use, or (the first too) by a stop, a worse one having logged in
\* late.
Answers(k) == k \in Ids /\ up[k] = "up" /\ wanted = "yes" /\ ~overrun
InUse(k) == active # -1 /\ (k = 0 => active = 0)
MuteBefore(k) == \E j \in Ids : j <= k /\ Mute(j)
PassedOver(k) == k \in 0..(index - 1) /\ client[k].failures = -1
EndsServed ==
    \A k \in 0..(MaxPools - 1) :
        <>[]Answers(k) => <>[]InUse(k) \/ <>[]MuteBefore(k) \/ <>[]PassedOver(k)

\* The strategy is a PoolService.
Late == \E i \in Ids : client[i].failures = -1 /\ client[i].state \in {"lookup", "connecting", "asked"}
Service == INSTANCE PoolService WITH
    trying <- wanted # "no", serving <- active # -1, late <- wanted = "no" /\ Late
ServiceSpec == Service!Spec
=============================================================================
