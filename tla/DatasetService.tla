-------------------------- MODULE DatasetService --------------------------
(***************************************************************************)
(* What the RandomX dataset machinery (crypto/rx/Rx.cpp, RxQueue.cpp)      *)
(* promises to the miner, with neither threads nor locks: the event loop   *)
(* asks for the dataset of a seed, and some time later the dataset of the  *)
(* seed it asked for LAST is served, or its memory could not be had.  A    *)
(* dataset that is not the one asked for last is never served, asking      *)
(* withdraws what was served, and memory once had is kept for good.        *)
(***************************************************************************)
CONSTANTS Seeds, NoSeed

VARIABLES
    wanted,     \* the seed asked for last, NoSeed before the first request
    served,     \* the seed whose dataset may be used, NoSeed if none
    memory,     \* of the cache: not tried since the last request, refused, had
    closed      \* the service was shut down

vars == <<wanted, served, memory, closed>>

Init == /\ wanted = NoSeed
        /\ served = NoSeed
        /\ memory = "none"
        /\ closed = FALSE

\* A new request, or the end, forgets that the memory was refused.
Forget == memory' = IF memory = "failed" THEN "none" ELSE memory

\* A request for a seed withdraws the dataset served so far.
Ask == /\ wanted' \in Seeds
       /\ served' = NoSeed
       /\ Forget

Request == ~closed /\ Ask /\ UNCHANGED closed

\* The cache gets its memory, a shutdown in between or not.
Obtain == /\ memory = "none"
          /\ memory' = "had"
          /\ UNCHANGED <<wanted, served>>

Allocate == Obtain /\ UNCHANGED closed

\* The dataset of the seed asked for last becomes usable.
Build == /\ wanted # NoSeed
         /\ memory # "failed"
         /\ served' = wanted
         /\ memory' = "had"
         /\ UNCHANGED wanted

Serve == ~closed /\ Build /\ UNCHANGED closed

\* The memory is refused: the request is over without a dataset.
Fail == /\ wanted # NoSeed
        /\ memory = "none"
        /\ memory' = "failed"
        /\ UNCHANGED <<wanted, served>>

Refuse == ~closed /\ Fail /\ UNCHANGED closed

Close == /\ closed' = TRUE
         /\ served' = NoSeed
         /\ Forget
         /\ UNCHANGED wanted

Next == Request \/ Allocate \/ Serve \/ Refuse \/ Close

Spec == Init /\ [][Next]_vars

\* Only the seed asked for last is ever served.
OnlyWanted == served \in {NoSeed, wanted}
===========================================================================
