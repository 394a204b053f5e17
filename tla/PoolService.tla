---------------------------- MODULE PoolService ----------------------------
(***************************************************************************)
(* What the network may rely on of a pool strategy (IStrategy): a strategy *)
(* that tries its pools gets a session and loses it, any number of times.  *)
(* One that was stopped does not come back, but for an attempt that was    *)
(* under way when it was stopped: its late login revives the strategy.     *)
(***************************************************************************)

VARIABLES
    trying,     \* was it asked to connect, or revived, and not stopped since?
    serving,    \* isActive()
    late        \* is an attempt of before the stop still under way?

vars == <<trying, serving, late>>

Init == trying = FALSE /\ serving = FALSE /\ late = FALSE

\* IStrategy::connect, which may be called on a strategy that tries or serves
\* already: its session is reported on, until it is lost or made anew.
Connect == trying' = TRUE /\ late' = FALSE /\ UNCHANGED serving

\* IStrategyListener::onActive, and the jobs after it
Serve == ~serving /\ (trying \/ late) /\ serving' = TRUE /\ trying' = TRUE /\ late' = FALSE

\* IStrategyListener::onPause
Lose == serving /\ serving' = FALSE /\ UNCHANGED <<trying, late>>

\* IStrategy::stop: a single pool tells its end later, several pools at once
Stop ==
    /\ trying' = FALSE
    /\ serving' \in {FALSE, serving}
    /\ late' \in BOOLEAN

\* The late attempt fails.
Expire == late /\ late' = FALSE /\ UNCHANGED <<trying, serving>>

Next == Connect \/ Serve \/ Lose \/ Stop \/ Expire

Spec == Init /\ [][Next]_vars
=============================================================================
