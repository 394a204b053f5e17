--------------------------- MODULE Nonce_proofs ---------------------------
(***************************************************************************)
(* Proofs about Nonce for any number of workers, any reserve counts below  *)
(* the width of the low word, and any mask of the form the code computes.  *)
(***************************************************************************)
EXTENDS Nonce, TLAPS

\* A slice of the current epoch, granted or about to be, lies below the
\* counter, and none has an epoch that has not begun.
BelowCounter ==
    /\ \A s \in slices : s.epoch <= epoch[s.index]
    /\ \A s \in slices : s.epoch = epoch[s.index] => s.first + s.size <= counter[s.index]
    /\ \A w \in Workers : pc[w] = "decide" =>
          /\ index[w] \in Indices
          /\ Possible(index[w], Reserve[w])
          /\ fetchedIn[w] <= epoch[index[w]]
          /\ fetchedIn[w] = epoch[index[w]] => fetched[w] + Reserve[w] <= counter[index[w]]

GrantedApart ==
    \A s, t \in slices :
        s # t /\ s.index = t.index /\ s.epoch = t.epoch =>
            Apart(s.first, s.size, t.first, t.size)

FetchedApart ==
    \A w \in Workers, s \in slices :
        pc[w] = "decide" /\ index[w] = s.index /\ fetchedIn[w] = s.epoch =>
            Apart(fetched[w], Reserve[w], s.first, s.size)

CallsApart ==
    \A v, w \in Workers :
        v # w /\ pc[v] = "decide" /\ pc[w] = "decide"
              /\ index[v] = index[w] /\ fetchedIn[v] = fetchedIn[w] =>
            Apart(fetched[v], Reserve[v], fetched[w], Reserve[w])

IInv == TypeOK /\ BelowCounter /\ GrantedApart /\ FetchedApart /\ CallsApart

USE WordAssumption, MaxEpochAssumption, MaskAssumption, ReserveAssumption, IndicesAssumption

THEOREM InitInv == Init => IInv
<1> SUFFICES ASSUME Init PROVE IInv
  OBVIOUS
<1>1. TypeOK
  BY DEF Init, TypeOK
<1>2. BelowCounter /\ GrantedApart /\ FetchedApart /\ CallsApart
  BY DEF Init, BelowCounter, GrantedApart, FetchedApart, CallsApart
<1> QED BY <1>1, <1>2 DEF IInv

\* A fetch_add hands out numbers above every slice of the epoch.
LEMMA FetchInv ==
    ASSUME IInv, NEW w \in Workers, NEW i \in Indices,
           FetchAdd(w, i), index' = [index EXCEPT ![w] = i],
           pc' = [pc EXCEPT ![w] = "decide"], Possible(i, Reserve[w]),
           UNCHANGED <<paused, epoch, slices, resumed>>
    PROVE  IInv'
<1> USE DEF IInv
<1>1. /\ counter' = [counter EXCEPT ![i] = counter[i] + Reserve[w]]
      /\ fetched' = [fetched EXCEPT ![w] = counter[i]]
      /\ fetchedIn' = [fetchedIn EXCEPT ![w] = epoch[i]]
  BY DEF FetchAdd
<1>2. TypeOK'
  BY <1>1 DEF TypeOK
<1>3. BelowCounter'
  <2>1. \A s \in slices : s.index \in Indices /\ s.first \in Nat /\ s.size \in Nat /\ s.epoch \in Nat
    BY DEF TypeOK, Slice
  <2>2. \A j \in Indices : counter[j] \in Nat /\ counter'[j] \in Nat /\ counter[j] <= counter'[j]
    BY <1>1 DEF TypeOK
  <2>3. /\ \A s \in slices' : s.epoch <= epoch'[s.index]
        /\ \A s \in slices' : s.epoch = epoch'[s.index] => s.first + s.size <= counter'[s.index]
    <3> SUFFICES ASSUME NEW s \in slices
                 PROVE  /\ s.epoch <= epoch[s.index]
                        /\ s.epoch = epoch[s.index] => s.first + s.size <= counter'[s.index]
      OBVIOUS
    <3>1. s.first + s.size \in Nat /\ s.index \in Indices
      BY <2>1
    <3>2. s.epoch <= epoch[s.index]
      BY DEF BelowCounter
    <3>3. s.epoch = epoch[s.index] => s.first + s.size <= counter[s.index]
      BY DEF BelowCounter
    <3>4. /\ counter[s.index] \in Nat /\ counter'[s.index] \in Nat
          /\ counter[s.index] <= counter'[s.index]
      BY <2>2, <3>1
    <3>5. \A x, y, z \in Nat : x <= y /\ y <= z => x <= z
      OBVIOUS
    <3> QED BY <3>1, <3>2, <3>3, <3>4, <3>5
  <2>4. ASSUME NEW v \in Workers, pc'[v] = "decide"
        PROVE /\ index'[v] \in Indices
              /\ Possible(index'[v], Reserve[v])
              /\ fetchedIn'[v] <= epoch'[index'[v]]
              /\ fetchedIn'[v] = epoch'[index'[v]] => fetched'[v] + Reserve[v] <= counter'[index'[v]]
    <3>1. CASE v = w
      BY <1>1, <2>4, <3>1 DEF TypeOK
    <3>2. CASE v # w
      BY <1>1, <2>2, <2>4, <3>2 DEF TypeOK, BelowCounter
    <3> QED BY <3>1, <3>2
  <2> QED BY <2>3, <2>4 DEF BelowCounter, Possible
<1>4. GrantedApart'
  BY DEF GrantedApart, Apart
<1>5. FetchedApart'
  <2> SUFFICES ASSUME NEW v \in Workers, NEW s \in slices, pc'[v] = "decide",
                      index'[v] = s.index, fetchedIn'[v] = s.epoch
               PROVE  Apart(fetched'[v], Reserve[v], s.first, s.size)
    BY DEF FetchedApart, Apart
  <2>1. CASE v = w
    BY <1>1, <2>1 DEF TypeOK, Slice, BelowCounter, Apart
  <2>2. CASE v # w
    BY <1>1, <2>2 DEF TypeOK, Slice, FetchedApart, Apart
  <2> QED BY <2>1, <2>2
<1>6. CallsApart'
  <2> SUFFICES ASSUME NEW u \in Workers, NEW v \in Workers, u # v,
                      pc'[u] = "decide", pc'[v] = "decide",
                      index'[u] = index'[v], fetchedIn'[u] = fetchedIn'[v]
               PROVE  Apart(fetched'[u], Reserve[u], fetched'[v], Reserve[v])
    BY DEF CallsApart, Apart
  <2>1. CASE u = w
    BY <1>1, <2>1 DEF TypeOK, BelowCounter, Apart
  <2>2. CASE v = w
    BY <1>1, <2>2 DEF TypeOK, BelowCounter, Apart
  <2>3. CASE u # w /\ v # w
    BY <1>1, <2>3 DEF TypeOK, CallsApart, Apart
  <2> QED BY <2>1, <2>2, <2>3
<1> QED BY <1>2, <1>3, <1>4, <1>5, <1>6

\* A granted slice is one that was already apart from all others.
LEMMA ReturnInv ==
    ASSUME IInv, NEW w \in Workers, pc[w] = "decide", Return(w),
           paused' \in BOOLEAN,
           UNCHANGED <<counter, index, fetched, epoch, fetchedIn, resumed>>
    PROVE  IInv'
<1> USE DEF IInv
<1> DEFINE new == [index |-> index[w], epoch |-> fetchedIn[w],
                   first |-> fetched[w], size |-> Reserve[w]]
<1>1. slices' = slices \cup {new} /\ pc' = [pc EXCEPT ![w] = "out"]
  BY DEF Return
<1>2. /\ new \in Slice /\ new.index = index[w] /\ new.epoch = fetchedIn[w]
      /\ new.first = fetched[w] /\ new.size = Reserve[w]
  BY DEF TypeOK, Slice, BelowCounter
<1>3. TypeOK'
  BY <1>1, <1>2 DEF TypeOK
<1>4. BelowCounter'
  BY <1>1, <1>2 DEF TypeOK, BelowCounter, Possible
<1>5. GrantedApart'
  <2> SUFFICES ASSUME NEW s \in slices \cup {new}, NEW t \in slices \cup {new},
                      s # t, s.index = t.index, s.epoch = t.epoch
               PROVE  Apart(s.first, s.size, t.first, t.size)
    BY <1>1 DEF GrantedApart, Apart
  <2> HIDE DEF new
  <2>1. CASE s \in slices /\ t \in slices
    BY <2>1 DEF GrantedApart
  <2>2. CASE s = new /\ t \in slices
    BY <1>2, <2>2 DEF FetchedApart
  <2>3. CASE s \in slices /\ t = new
    BY <1>2, <2>3 DEF FetchedApart, Apart
  <2> QED BY <2>1, <2>2, <2>3
<1>6. FetchedApart'
  <2> SUFFICES ASSUME NEW v \in Workers, NEW s \in slices \cup {new}, pc'[v] = "decide",
                      index[v] = s.index, fetchedIn[v] = s.epoch
               PROVE  Apart(fetched[v], Reserve[v], s.first, s.size)
    BY <1>1 DEF FetchedApart, Apart
  <2> HIDE DEF new
  <2>1. v # w /\ pc[v] = "decide"
    BY <1>1 DEF TypeOK
  <2>2. CASE s \in slices
    BY <2>1, <2>2 DEF FetchedApart
  <2>3. CASE s = new
    BY <1>2, <2>1, <2>3 DEF CallsApart
  <2> QED BY <2>2, <2>3
<1>7. CallsApart'
  <2>1. \A v \in Workers : pc'[v] = "decide" => pc[v] = "decide"
    BY <1>1 DEF TypeOK
  <2> QED BY <2>1 DEF CallsApart, Apart
<1> QED BY <1>3, <1>4, <1>5, <1>6, <1>7

\* A call that ends without a slice changes nothing that matters.
LEMMA OutInv ==
    ASSUME IInv, NEW w \in Workers, pc' = [pc EXCEPT ![w] = "out"], paused' \in BOOLEAN,
           UNCHANGED <<counter, index, fetched, epoch, fetchedIn, slices, resumed>>
    PROVE  IInv'
<1> USE DEF IInv
<1>1. \A v \in Workers : pc'[v] = "decide" => pc[v] = "decide"
  BY DEF TypeOK
<1>2. TypeOK'
  BY DEF TypeOK
<1>3. BelowCounter'
  BY <1>1 DEF BelowCounter, Possible
<1>4. GrantedApart' /\ FetchedApart' /\ CallsApart'
  BY <1>1 DEF GrantedApart, FetchedApart, CallsApart, Apart
<1> QED BY <1>2, <1>3, <1>4

THEOREM StepInv == IInv /\ [Next]_vars => IInv'
<1> SUFFICES ASSUME IInv, [Next]_vars PROVE IInv'
  OBVIOUS
<1>1. ASSUME NEW w \in Workers, Call(w) PROVE IInv'
  BY <1>1, FetchInv DEF Call
<1>2. ASSUME NEW w \in Workers, Fail(w) PROVE IInv'
  <2>1. paused' \in BOOLEAN
    BY <1>2 DEF Fail, IInv, TypeOK
  <2> QED BY <1>2, <2>1, OutInv DEF Fail
<1>3. ASSUME NEW w \in Workers, PauseAtEnd(w) PROVE IInv'
  <2>1. CASE FitsEnd(index[w], fetched[w], Reserve[w])
    BY <1>3, <2>1, ReturnInv DEF PauseAtEnd
  <2>2. CASE ~FitsEnd(index[w], fetched[w], Reserve[w])
    BY <1>3, <2>2, OutInv DEF PauseAtEnd
  <2> QED BY <2>1, <2>2
<1>4. ASSUME NEW w \in Workers, Skip(w) PROVE IInv'
  <2>1. /\ index[w] \in Indices /\ Possible(index[w], Reserve[w])
        /\ index' = [index EXCEPT ![w] = index[w]]
        /\ pc' = [pc EXCEPT ![w] = "decide"]
    BY <1>4 DEF Skip, IInv, TypeOK, BelowCounter
  <2> QED BY <1>4, <2>1, FetchInv DEF Skip
<1>5. ASSUME NEW w \in Workers, Grant(w) PROVE IInv'
  <2>1. paused' \in BOOLEAN
    BY <1>5 DEF Grant, IInv, TypeOK
  <2> QED BY <1>5, <2>1, ReturnInv DEF Grant
<1>6. ASSUME NEW i \in Indices, Reset(i) PROVE IInv'
  <2> USE DEF IInv
  <2>1. /\ epoch' = [epoch EXCEPT ![i] = epoch[i] + 1] /\ epoch[i] < MaxEpoch
        /\ counter' = [counter EXCEPT ![i] = 0]
        /\ resumed' = [resumed EXCEPT ![i] = FALSE]
        /\ UNCHANGED <<paused, pc, index, fetched, fetchedIn, slices>>
    BY <1>6 DEF Reset, workerVars
  <2>2. TypeOK'
    BY <2>1 DEF TypeOK
  <2>3. BelowCounter'
    BY <2>1 DEF TypeOK, Slice, BelowCounter, Possible
  <2>4. GrantedApart' /\ FetchedApart' /\ CallsApart'
    BY <2>1 DEF GrantedApart, FetchedApart, CallsApart, Apart
  <2> QED BY <2>2, <2>3, <2>4
<1>7. ASSUME NEW p \in BOOLEAN, Pause(p) PROVE IInv'
  <2> USE DEF IInv
  <2>1. TypeOK'
    BY <1>7 DEF Pause, workerVars, TypeOK, Exhausted
  <2>2. BelowCounter' /\ GrantedApart' /\ FetchedApart' /\ CallsApart'
    BY <1>7 DEF Pause, workerVars, BelowCounter, Possible, GrantedApart, FetchedApart, CallsApart, Apart
  <2> QED BY <2>1, <2>2
<1>8. CASE UNCHANGED vars
  BY <1>8 DEF vars, IInv, TypeOK, BelowCounter, Possible, GrantedApart, FetchedApart, CallsApart, Apart
<1> QED
  BY <1>1, <1>2, <1>3, <1>4, <1>5, <1>6, <1>7, <1>8 DEF Next, Worker

THEOREM InvHolds == Spec => []IInv
  BY InitInv, StepInv, PTL DEF Spec

\* Every variable keeps its type.
THEOREM TypeCorrect == Spec => []TypeOK
<1>1. IInv => TypeOK
  BY DEF IInv
<1> QED BY <1>1, InvHolds, PTL

---------------------------------------------------------------------------
(* The walk of a slice *)

\* A counter that fits the end of a mask of whole words lies in the last word.
LEMMA EndOfWord ==
    ASSUME NEW c \in Nat, NEW n \in Nat, 1 <= n, n < Word, (c + n) % Word = 0
    PROVE  (c % Word) + n - 1 < Word
<1> DEFINE r == c % Word
           q == c \div Word
           p == (c + n) \div Word
<1>1. r \in 0..(Word - 1) /\ q \in Int /\ c = Word * q + r
  OBVIOUS
<1>2. p \in Int /\ c + n = Word * p
  OBVIOUS
<1> HIDE DEF r, q, p
<1>3. r + n = Word * (p - q)
  BY <1>1, <1>2
<1>4. p - q < 2
  <2>1. r + n < Word * 2
    BY <1>1
  <2>2. p - q \in Int
    BY <1>1, <1>2
  <2> QED BY <1>3, <2>1, <2>2
<1>5. r + n <= Word
  <2>1. Word * (p - q) <= Word
    BY <1>1, <1>2, <1>4
  <2> QED BY <1>3, <2>1
<1>6. (c % Word) + n - 1 = r + n - 1
  BY DEF r
<1> QED BY <1>1, <1>5, <1>6

\* No nonce of one counter is handed to two calls between two resets, however
\* the calls of CPU and GPU workers and the resets interleave.
THEOREM NoNonceTwiceHolds == Spec => []NoNonceTwice
<1>1. IInv => NoNonceTwice
  BY DEF IInv, NoNonceTwice, GrantedApart, FetchedApart, CallsApart
<1> QED BY <1>1, InvHolds, PTL

\* A slice that fits the end of the mask, or neither reaches the end nor
\* straddles two words, may be walked by increments of the low word.
LEMMA WalkStep == IInv /\ WalkStaysInside /\ [Next]_vars => WalkStaysInside'
<1> SUFFICES ASSUME IInv, WalkStaysInside, [Next]_vars PROVE WalkStaysInside'
  OBVIOUS
<1> USE DEF IInv
<1>1. ASSUME NEW w \in Workers, pc[w] = "decide", Return(w), ~Exhausted(index[w], fetched[w]),
             \/ FitsEnd(index[w], fetched[w], Reserve[w])
             \/ /\ ~AtEnd(index[w], fetched[w], Reserve[w])
                /\ ~Straddles(fetched[w], Reserve[w])
      PROVE  WalkStaysInside'
  <2> DEFINE i == index[w]
             c == fetched[w]
             n == Reserve[w]
             new == [index |-> i, epoch |-> fetchedIn[w], first |-> c, size |-> n]
  <2>1. i \in Indices /\ c \in Nat /\ n \in Nat /\ 1 <= n /\ n < Word /\ Mask[i] \in Nat
    <3>1. i \in Indices /\ Possible(i, n)
      BY <1>1 DEF BelowCounter
    <3>2. c \in Nat
      BY DEF TypeOK
    <3>3. n \in Nat /\ n < Word /\ Mask[i] \in Nat
      BY <3>1
    <3>4. 1 <= n
      BY <3>1, <3>3 DEF Possible
    <3> QED BY <3>1, <3>2, <3>3, <3>4
  <2>2. c % Word \in 0..(Word - 1)
    BY <2>1
  <2>3. c + n - 1 <= Mask[i]
    BY <1>1, <2>1 DEF FitsEnd, AtEnd, Exhausted
  <2>4. (c % Word) + n - 1 < Word
    <3>1. CASE FitsEnd(i, c, n)
      <4>1. c + n = Mask[i] + 1
        BY <2>1, <3>1 DEF FitsEnd
      <4>2. CASE Mask[i] < Word
        <5>1. c % Word = c
          BY <2>1, <4>1, <4>2
        <5> QED BY <2>1, <4>1, <4>2, <5>1
      <4>3. CASE (Mask[i] + 1) % Word = 0
        BY <2>1, <4>1, <4>3, EndOfWord
      <4> QED BY <2>1, <4>2, <4>3
    <3>2. CASE ~Straddles(c, n)
      BY <2>1, <2>2, <3>2 DEF Straddles
    <3> QED BY <1>1, <3>1, <3>2
  <2>5. slices' = slices \cup {new}
    BY <1>1 DEF Return
  <2>6. new.index = i /\ new.first = c /\ new.size = n
    OBVIOUS
  <2> HIDE DEF i, c, n, new
  <2> QED BY <2>1, <2>3, <2>4, <2>5, <2>6 DEF WalkStaysInside
<1>2. CASE UNCHANGED slices
  BY <1>2 DEF WalkStaysInside
<1>3. ASSUME NEW w \in Workers, PauseAtEnd(w) PROVE WalkStaysInside'
  BY <1>1, <1>2, <1>3 DEF PauseAtEnd, AtEnd
<1>4. ASSUME NEW w \in Workers, Grant(w) PROVE WalkStaysInside'
  BY <1>1, <1>4 DEF Grant
<1>5. ASSUME NEW w \in Workers, Call(w) \/ Fail(w) \/ Skip(w) PROVE WalkStaysInside'
  BY <1>2, <1>5 DEF Call, Fail, Skip
<1>6. ASSUME NEW i \in Indices, Reset(i) PROVE WalkStaysInside'
  BY <1>2, <1>6 DEF Reset
<1>7. ASSUME NEW p \in BOOLEAN, Pause(p) PROVE WalkStaysInside'
  BY <1>2, <1>7 DEF Pause
<1>8. CASE UNCHANGED vars
  BY <1>2, <1>8 DEF vars
<1> QED BY <1>3, <1>4, <1>5, <1>6, <1>7, <1>8 DEF Next, Worker

\* A worker that walks its slice by increments of the low word never leaves
\* the mask, so never touches the pool's bits, and never loses a carry.
THEOREM WalkHolds == Spec => []WalkStaysInside
<1>1. Init => WalkStaysInside
  BY DEF Init, WalkStaysInside
<1> QED BY <1>1, WalkStep, InvHolds, PTL DEF Spec

----------------------------------------------------------------------------
(* The end of the mask *)

\* The call of w has found the end of counter i and is about to set the flag.
AboutToPause(w, i) == pc[w] = "decide" /\ index[w] = i /\ AtEnd(i, fetched[w], Reserve[w])

\* The call whose addition takes the counter over the mask finds its end.
LEMMA LastFetch ==
    ASSUME TypeOK, NEW w \in Workers, NEW i \in Indices, FetchAdd(w, i),
           ~Exhausted(i, counter[i]), Exhausted(i, counter[i])'
    PROVE  AtEnd(i, fetched'[w], Reserve[w])
<1>1. fetched'[w] = counter[i] /\ counter'[i] = counter[i] + Reserve[w]
  BY DEF TypeOK, FetchAdd
<1>2. counter[i] \in Nat /\ Mask[i] \in Nat /\ Reserve[w] \in Nat
  BY DEF TypeOK
<1> QED
  BY <1>1, <1>2 DEF Exhausted, AtEnd

LEMMA EndStep ==
    ASSUME TypeOK, BelowCounter, EndPauses, [Next]_vars
    PROVE  EndPauses'
<1> SUFFICES ASSUME NEW i \in Indices, Exhausted(i, counter[i])', ~resumed'[i]
             PROVE  paused' \/ \E w \in Workers : AboutToPause(w, i)'
  BY DEF EndPauses, AboutToPause
<1>0. Exhausted(i, counter[i]) /\ ~resumed[i] =>
          paused \/ \E w \in Workers : AboutToPause(w, i)
  BY DEF EndPauses, AboutToPause
<1>1. ASSUME NEW v \in Workers, Call(v) \/ Skip(v)
      PROVE  paused' \/ \E w \in Workers : AboutToPause(w, i)'
  <2>1. PICK j \in Indices : FetchAdd(v, j) /\ index'[v] = j /\ pc'[v] = "decide"
    <3>1. CASE Call(v)
      BY <3>1 DEF Call, TypeOK
    <3>2. CASE Skip(v)
      BY <3>2 DEF Skip, TypeOK, BelowCounter
    <3> QED BY <1>1, <3>1, <3>2
  <2>2. UNCHANGED <<paused, resumed>>
    BY <1>1 DEF Call, Skip
  <2>3. ASSUME NEW w \in Workers, AboutToPause(w, i)
        PROVE  AboutToPause(w, i)'
    <3>1. w # v
      BY <1>1, <2>3 DEF AboutToPause, Call, Skip
    <3> QED
      BY <1>1, <2>3, <3>1 DEF AboutToPause, Call, Skip, FetchAdd, TypeOK
  <2>4. CASE Exhausted(i, counter[i])
    BY <1>0, <2>2, <2>3, <2>4
  <2>5. CASE ~Exhausted(i, counter[i])
    <3>1. j = i
      BY <2>1, <2>5 DEF FetchAdd, TypeOK, Exhausted
    <3>2. AboutToPause(v, i)'
      BY <2>1, <2>5, <3>1, LastFetch DEF AboutToPause
    <3> QED BY <3>2
  <2> QED BY <2>4, <2>5
<1>2. ASSUME NEW v \in Workers, Fail(v) \/ Grant(v)
      PROVE  paused' \/ \E w \in Workers : AboutToPause(w, i)'
  <2>1. UNCHANGED <<counter, paused, resumed>>
    BY <1>2 DEF Fail, Grant
  <2>2. ASSUME NEW w \in Workers, AboutToPause(w, i)
        PROVE  AboutToPause(w, i)'
    <3>1. w # v
      BY <1>2, <2>2 DEF AboutToPause, Fail, Grant, AtEnd
    <3> QED
      BY <1>2, <2>2, <3>1 DEF AboutToPause, Fail, Grant, Return, TypeOK
  <2> QED
    BY <1>0, <2>1, <2>2
<1>3. ASSUME NEW v \in Workers, PauseAtEnd(v)
      PROVE  paused'
  BY <1>3 DEF PauseAtEnd
<1>4. ASSUME NEW j \in Indices, Reset(j)
      PROVE  paused' \/ \E w \in Workers : AboutToPause(w, i)'
  <2>1. i # j
    BY <1>4 DEF Reset, Exhausted, TypeOK
  <2>2. UNCHANGED <<paused, workerVars>> /\ counter'[i] = counter[i] /\ resumed'[i] = resumed[i]
    BY <1>4, <2>1 DEF Reset, TypeOK
  <2> QED
    BY <1>0, <2>2 DEF AboutToPause, workerVars, Exhausted
<1>5. ASSUME NEW p \in BOOLEAN, Pause(p)
      PROVE  paused'
  BY <1>5 DEF Pause, Exhausted, TypeOK
<1>6. CASE UNCHANGED vars
  BY <1>0, <1>6 DEF vars, workerVars, AboutToPause, Exhausted
<1> QED
  BY <1>1, <1>2, <1>3, <1>4, <1>5, <1>6 DEF Next, Worker

\* A counter that ran out pauses the miner, whichever call found its end first
\* and in whatever order the others return.
THEOREM EndPausesHolds == Spec => []EndPauses
<1>1. Init => EndPauses
  BY DEF Init, EndPauses, Exhausted
<1>2. IInv => TypeOK /\ BelowCounter
  BY DEF IInv
<1> QED BY <1>1, <1>2, EndStep, InvHolds, PTL DEF Spec
===========================================================================
