--------------------------- MODULE MCMinerThreads ---------------------------
(* MinerThreads with one thread and four jobs                                *)
EXTENDS MinerThreads

CONSTANT w1

OneWorker  == {w1}

\* A job, the next seed of its algorithm, another algorithm, and a third one
\* that shares the seed of the other (rx/0 and RX_V2)
FourSeeds  == <<"A", "B", "C", "C">>
ThenOthers == <<1, 1, 2, 3>>
=============================================================================
