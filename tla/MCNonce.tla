------------------------------ MODULE MCNonce ------------------------------
(* Nonce with a low word of two bits.  A CPU thread reserves a power of   *)
(* two, a GPU its intensity.                                                *)
EXTENDS Nonce

CONSTANTS cpu, gpu

MCWorkers == {cpu, gpu}
MCReserve == [w \in MCWorkers |-> IF w = gpu THEN 3 ELSE 2]

\* a mask of two words (a KawPow nonce of 8 bytes), and one inside the word
\* (nicehash jobs)
MCMask == [i \in {0, 1} |-> IF i = 0 THEN 7 ELSE 1]
=============================================================================
