------------------------------ MODULE MCMiner ------------------------------
(* Miner on small sets of jobs.  A job is its id, blob, algorithm and seed.  *)
EXTENDS Miner

J(id, blob, algo, seed) == [id |-> id, blob |-> blob, algo |-> algo, seed |-> seed]

MCNoJob == J("", "", "", "none")

\* The user's pool: two seeds, another RandomX algorithm, another family
u1  == J("u1", "b1", "rx/0", "A")
u3  == J("u3", "b3", "rx/0", "B")
u4  == J("u4", "b4", "rx/wow", "W")
u5  == J("u5", "b5", "kawpow", "none")
\* The donation pool: the same seed, and the next one.
d1  == J("d1", "c1", "rx/0", "A")
d2  == J("d2", "c2", "rx/0", "B")

ManyAlgorithms == {u1, u3, u4, u5}
Donations      == {d1, d2}

RandomXAlgos   == {"rx/0", "rx/wow"}

MCAge == [b \in Blobs |->
    CASE b = "" -> 0 [] b \in {"b1", "c1"} -> 1 [] b = "c2" -> 2
      [] b = "b3" -> 3 [] b = "b4" -> 4 [] b = "b5" -> 5]

Config(cpu, battery, onActive) ==
    [cpu |-> cpu, pauseOnBattery |-> battery, pauseOnActive |-> onActive]

BothPauses   == Config(TRUE, TRUE, TRUE)
CpuToggles   == {Config(c, TRUE, TRUE) : c \in BOOLEAN}
=============================================================================
