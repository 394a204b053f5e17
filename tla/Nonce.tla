------------------------------- MODULE Nonce -------------------------------
(***************************************************************************)
(* xmrig::Nonce::next and the globals it works on: one nonce counter per   *)
(* job index (0 the user's jobs, 1 the donation jobs) that the workers of  *)
(* every backend advance concurrently, each by its own reserve count, and  *)
(* one pause flag.  The event loop resets a counter and clears the flag    *)
(* when a job comes (MinerPrivate::handleJobChange).                       *)
(*                                                                         *)
(* A worker increments only the low 32-bit word of the nonce inside its    *)
(* slice (WorkerJob::nextRound), so a slice must neither leave the mask    *)
(* nor carry out of that word.  The width of the word is a parameter, for  *)
(* TLC to reach its end.                                                   *)
(***************************************************************************)
EXTENDS Integers

CONSTANTS
    Workers,        \* threads that call Nonce::next
    Indices,        \* the job indices: 0 the user's jobs, 1 the donation's
    Word,           \* number of values of the low word (2^32 in the code)
    Mask,           \* Mask[i]: the nonce mask of the jobs of index i
    Reserve,        \* Reserve[w]: the reserve count of worker w
    MaxEpoch        \* bound: resets of one counter

ASSUME IndicesAssumption == Indices \subseteq {0, 1}
ASSUME WordAssumption == Word \in Nat \ {0}
ASSUME MaxEpochAssumption == MaxEpoch \in Nat
\* nonceMask() has the form 2^k - 1: either it is inside the low word, or the
\* words fill it exactly.
ASSUME MaskAssumption ==
    /\ Mask \in [Indices -> Nat]
    /\ \A i \in Indices : Mask[i] < Word \/ (Mask[i] + 1) % Word = 0
\* a uint32_t
ASSUME ReserveAssumption ==
    /\ Reserve \in [Workers -> Nat]
    /\ \A w \in Workers : Reserve[w] < Word

VARIABLES
    counter,    \* m_nonces
    paused,     \* m_paused
    pc,         \* a worker is "out" of next() or between fetch_add and return
    index,      \* index[w]: the job index of the worker's call
    fetched,    \* fetched[w]: the local "counter" of the call
    epoch,      \* history: how often a counter was reset
    fetchedIn,  \* history: the epoch in which the worker fetched its counter
    slices,     \* history: the slices granted, with their epoch
    resumed     \* history: the flag was cleared after the counter ran out

workerVars == <<pc, index, fetched, fetchedIn>>
vars == <<counter, paused, pc, index, fetched, epoch, fetchedIn, slices, resumed>>

Slice == [index : Indices, epoch : 0..MaxEpoch, first : Nat, size : Nat]

TypeOK ==
    /\ counter \in [Indices -> Nat]
    /\ paused \in BOOLEAN
    /\ pc \in [Workers -> {"out", "decide"}]
    /\ index \in [Workers -> Indices \cup {0}]
    /\ fetched \in [Workers -> Nat]
    /\ epoch \in [Indices -> 0..MaxEpoch]
    /\ fetchedIn \in [Workers -> 0..MaxEpoch]
    /\ slices \subseteq Slice
    /\ resumed \in [Indices -> BOOLEAN]

Init ==
    /\ counter = [i \in Indices |-> 0]
    /\ paused = TRUE
    /\ pc = [w \in Workers |-> "out"]
    /\ index = [w \in Workers |-> 0]
    /\ fetched = [w \in Workers |-> 0]
    /\ epoch = [i \in Indices |-> 0]
    /\ fetchedIn = [w \in Workers |-> 0]
    /\ slices = {}
    /\ resumed = [i \in Indices |-> FALSE]

----------------------------------------------------------------------------
(* The tests of next(), on a counter c and a reserve count n *)

\* a call that cannot succeed returns before it fetches
Possible(i, n) == n # 0 /\ Mask[i] >= n - 1

\* the counter has run past the mask
Exhausted(i, c) == Mask[i] < c

\* Mistake: off by one at the end of the mask.
AtEndStrict(i, c, n) == ~Exhausted(i, c) /\ Mask[i] - c < n - 1

\* the slice reaches the end of the mask
AtEnd(i, c, n) == ~Exhausted(i, c) /\ Mask[i] - c <= n - 1

\* and it fits there exactly
FitsEnd(i, c, n) == AtEnd(i, c, n) /\ Mask[i] - c = n - 1

\* Mistake: off by one at the end of the word.
StraddlesLate(c, n) == Word - (c % Word) < n - 1

\* the slice would carry out of the low word
Straddles(c, n) == (Word - 1) - (c % Word) < n - 1

\* Mistake: the counter is read and written back in two steps, so an addition
\* in between is lost.
FetchStale(w, i) ==
    /\ fetched' = [fetched EXCEPT ![w] = counter[i]]
    /\ fetchedIn' = [fetchedIn EXCEPT ![w] = epoch[i]]
    /\ \E lost \in {0, Reserve[w]} :
          counter' = [counter EXCEPT ![i] = @ + Reserve[w] - lost]

\* m_nonces[index].fetch_add(reserveCount)
FetchAdd(w, i) ==
    /\ fetched' = [fetched EXCEPT ![w] = counter[i]]
    /\ fetchedIn' = [fetchedIn EXCEPT ![w] = epoch[i]]
    /\ counter' = [counter EXCEPT ![i] = @ + Reserve[w]]

\* the call returns true: the worker owns a slice
Return(w) ==
    /\ slices' = slices \cup {[index |-> index[w], epoch |-> fetchedIn[w],
                               first |-> fetched[w], size |-> Reserve[w]]}
    /\ pc' = [pc EXCEPT ![w] = "out"]

----------------------------------------------------------------------------
(* Workers *)

\* The call, up to the first fetch_add.  A call that cannot succeed returns
\* before and changes nothing.
Call(w) ==
    /\ pc[w] = "out"
    /\ \E i \in Indices :
          /\ Possible(i, Reserve[w])
          \* bound: a counter that ran out is fetched only so many times
          /\ counter[i] <= Mask[i] + Reserve[w]
          /\ index' = [index EXCEPT ![w] = i]
          /\ FetchAdd(w, i)
    /\ pc' = [pc EXCEPT ![w] = "decide"]
    /\ UNCHANGED <<paused, epoch, slices, resumed>>

Fail(w) ==
    /\ pc[w] = "decide"
    /\ Exhausted(index[w], fetched[w])
    /\ pc' = [pc EXCEPT ![w] = "out"]
    /\ UNCHANGED <<counter, paused, index, fetched, epoch, fetchedIn, slices, resumed>>

\* The end of the mask pauses the miner; the last slice is used only when it
\* fits exactly.
PauseAtEnd(w) ==
    /\ pc[w] = "decide"
    /\ AtEnd(index[w], fetched[w], Reserve[w])
    /\ paused' = TRUE
    /\ \/ /\ FitsEnd(index[w], fetched[w], Reserve[w])
          /\ Return(w)
       \/ /\ ~FitsEnd(index[w], fetched[w], Reserve[w])
          /\ pc' = [pc EXCEPT ![w] = "out"]
          /\ UNCHANGED slices
    /\ UNCHANGED <<counter, index, fetched, epoch, fetchedIn, resumed>>

\* A slice that would carry out of the low word is given up for the next one.
Skip(w) ==
    /\ pc[w] = "decide"
    /\ ~Exhausted(index[w], fetched[w])
    /\ ~AtEnd(index[w], fetched[w], Reserve[w])
    /\ Straddles(fetched[w], Reserve[w])
    /\ FetchAdd(w, index[w])
    /\ UNCHANGED <<paused, pc, index, epoch, slices, resumed>>

Grant(w) ==
    /\ pc[w] = "decide"
    /\ ~Exhausted(index[w], fetched[w])
    /\ ~AtEnd(index[w], fetched[w], Reserve[w])
    /\ ~Straddles(fetched[w], Reserve[w])
    /\ Return(w)
    /\ UNCHANGED <<counter, paused, index, fetched, epoch, fetchedIn, resumed>>

Worker(w) == Call(w) \/ Fail(w) \/ PauseAtEnd(w) \/ Skip(w) \/ Grant(w)

----------------------------------------------------------------------------
(* The event loop *)

\* Nonce::reset
Reset(i) ==
    /\ epoch[i] < MaxEpoch
    /\ epoch' = [epoch EXCEPT ![i] = @ + 1]
    /\ counter' = [counter EXCEPT ![i] = 0]
    /\ resumed' = [resumed EXCEPT ![i] = FALSE]
    /\ UNCHANGED <<paused, workerVars, slices>>

\* Nonce::pause
Pause(p) ==
    /\ paused' = p
    /\ resumed' = [i \in Indices |-> resumed[i] \/ (~p /\ Exhausted(i, counter[i]))]
    /\ UNCHANGED <<counter, workerVars, epoch, slices>>

Next == \/ \E w \in Workers : Worker(w)
        \/ \E i \in Indices : Reset(i)
        \/ \E p \in BOOLEAN : Pause(p)

Spec == Init /\ [][Next]_vars

----------------------------------------------------------------------------
(* Properties *)

\* No nonce is given to two calls: the slices of one counter that were granted
\* between two resets, and those that calls are about to be granted, do not
\* overlap, whatever reserve counts share the counter.
Apart(first1, size1, first2, size2) ==
    first1 + size1 <= first2 \/ first2 + size2 <= first1

NoNonceTwice ==
    /\ \A s, t \in slices :
          s # t /\ s.index = t.index /\ s.epoch = t.epoch =>
              Apart(s.first, s.size, t.first, t.size)
    /\ \A w \in Workers, s \in slices :
          pc[w] = "decide" /\ index[w] = s.index /\ fetchedIn[w] = s.epoch =>
              Apart(fetched[w], Reserve[w], s.first, s.size)
    /\ \A v, w \in Workers :
          v # w /\ pc[v] = "decide" /\ pc[w] = "decide"
                /\ index[v] = index[w] /\ fetchedIn[v] = fetchedIn[w] =>
              Apart(fetched[v], Reserve[v], fetched[w], Reserve[w])

\* A worker walks its slice by increments of the low word: it never leaves the
\* mask (the bits above it belong to the pool) and never carries.
WalkStaysInside ==
    \A s \in slices :
        /\ s.size >= 1
        /\ s.first + s.size - 1 <= Mask[s.index]
        /\ (s.first % Word) + s.size - 1 < Word

\* A counter that has run out pauses the miner: unless the event loop cleared
\* the flag since then, it is set or some call is about to set it.
EndPauses ==
    \A i \in Indices :
        Exhausted(i, counter[i]) /\ ~resumed[i] =>
            \/ paused
            \/ \E w \in Workers : /\ pc[w] = "decide" /\ index[w] = i
                                  /\ AtEnd(i, fetched[w], Reserve[w])

============================================================================
