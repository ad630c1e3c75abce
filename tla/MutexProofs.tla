----------------------------- MODULE MutexProofs -----------------------------
(****************************************************************************)
(* Proofs about Mutex for any threads, mutexes and priorities: the fields   *)
(* of every mutex agree with its waiting list, rt_mutex_take tells the      *)
(* truth to a thread that is not in poll(), an inherited priority is given  *)
(* back, and no threads wait for each other.                                *)
(****************************************************************************)
EXTENDS Mutex, FiniteSetTheorems, WellFoundedInduction, TLAPS

\* The fields of a mutex agree with each other.
Fields(m) ==
    /\ owner[m] = NoThread <=> value[m] = 1
    /\ owner[m] = NoThread <=> hold[m] = 0
    /\ owner[m] = NoThread => waiting[m] = <<>>

\* The list of a mutex holds each thread suspended in it once.
Queue(m) ==
    /\ \A i, j \in 1..Len(waiting[m]) : waiting[m][i] = waiting[m][j] => i = j
    /\ \A t \in Threads :
          (\E i \in 1..Len(waiting[m]) : waiting[m][i] = t)
            <=> (mtxPc[t] = "wait" /\ want[t] = m)

\* A thread inside rt_mutex_take wants a mutex; while it is suspended, it does
\* not own that mutex and its error is still RT_EOK.
Waiter(t) ==
    /\ mtxPc[t] # "run" => want[t] \in Mutexes
    /\ mtxPc[t] = "wait" => owner[want[t]] # t /\ err[t] = "EOK"

\* What the release of a mutex will restore: never less urgent than the thread
\* was created and, for the mutex it took first, exactly that.
Restores(t) ==
    /\ prio[t] <= Base[t]
    /\ \A m \in Mutexes : owner[m] = t => orig[m] <= Base[t]
    /\ outer[t] = NoMutex => OwnsNone(t) /\ prio[t] = Base[t]
    /\ outer[t] # NoMutex => owner[outer[t]] = t /\ orig[outer[t]] = Base[t]

MtxInv ==
    /\ MtxTypeOK
    /\ \A m \in Mutexes : Fields(m) /\ Queue(m)
    /\ \A t \in Threads : Waiter(t) /\ Restores(t)
    /\ MtxOutcome

-----------------------------------------------------------------------------
(* The waiting list.                                                         *)

LEMMA Constants ==
    /\ NoThread \notin Threads /\ NoMutex \notin Mutexes
    /\ \A t \in Threads : Base[t] \in 0..254
    /\ MaxHold \in Nat /\ MaxHold >= 1
  BY MutexOK DEF NoThread, NoMutex

LEMMA BaseInt == \A t \in Threads : Base[t] \in Int
  BY MutexOK

LEMMA AppendFacts ==
    ASSUME NEW S, NEW s \in Seq(S), NEW x \in S
    PROVE  /\ Append(s, x) \in Seq(S)
           /\ Len(s) \in Nat /\ Len(Append(s, x)) = Len(s) + 1
           /\ Append(s, x)[Len(s) + 1] = x
           /\ \A i \in 1..Len(s) : Append(s, x)[i] = s[i]
           /\ Append(s, x) # <<>>
  OBVIOUS

LEMMA TailFacts ==
    ASSUME NEW S, NEW s \in Seq(S), s # <<>>
    PROVE  /\ Tail(s) \in Seq(S) /\ Head(s) \in S
           /\ Len(s) \in Nat /\ Len(s) >= 1 /\ Len(Tail(s)) = Len(s) - 1
           /\ Head(s) = s[1]
           /\ \A i \in 1..(Len(s) - 1) : Tail(s)[i] = s[i + 1]
  OBVIOUS

LEMMA WithoutFacts ==
    ASSUME NEW S, NEW s \in Seq(S), NEW p \in 1..Len(s)
    PROVE  /\ Without(s, p) \in Seq(S)
           /\ Len(s) \in Nat /\ Len(Without(s, p)) = Len(s) - 1
           /\ \A i \in 1..(Len(s) - 1) :
                 Without(s, p)[i] = IF i < p THEN s[i] ELSE s[i + 1]
  BY DEF Without

-----------------------------------------------------------------------------
(* rt_mutex_take.                                                            *)

\* A step that changes no list and neither suspends nor resumes a thread.
LEMMA QueueFrame ==
    ASSUME NEW m \in Mutexes, Queue(m), waiting'[m] = waiting[m],
           \A t \in Threads : (mtxPc'[t] = "wait" /\ want'[t] = m)
                                <=> (mtxPc[t] = "wait" /\ want[t] = m)
    PROVE  Queue(m)'
  BY DEF Queue

LEMMA StepTakeAgain ==
    ASSUME MtxInv, NEW t \in Threads, NEW m \in Mutexes, TakeAgain(t, m)
    PROVE  MtxInv'
  <1> USE Constants DEF MtxInv, TakeAgain
  <1>1. MtxTypeOK'
    <2>1. hold' \in [Mutexes -> 0..MaxHold]
      BY DEF MtxTypeOK
    <2>2. err' \in [Threads -> {"EOK", "ETIMEOUT", "ERROR"}]
      BY DEF MtxTypeOK
    <2> QED
      BY <2>1, <2>2 DEF MtxTypeOK
  <1>2. \A k \in Mutexes : Fields(k)'
    BY DEF Fields, MtxTypeOK
  <1>3. \A k \in Mutexes : Queue(k)'
    BY QueueFrame
  <1>4. \A u \in Threads : Waiter(u)'
    BY DEF Waiter, MtxTypeOK
  <1>5. \A u \in Threads : Restores(u)'
    BY DEF Restores, OwnsNone
  <1>6. MtxOutcome'
    BY DEF MtxOutcome, InQueues, MtxTypeOK
  <1> QED
    BY <1>1, <1>2, <1>3, <1>4, <1>5, <1>6

LEMMA StepTakeFree ==
    ASSUME MtxInv, NEW t \in Threads, NEW m \in Mutexes, TakeFree(t, m)
    PROVE  MtxInv'
  <1> USE Constants DEF MtxInv, TakeFree
  <1>0. owner[m] = NoThread /\ hold[m] = 0 /\ value[m] = 1 /\ waiting[m] = <<>>
    BY DEF Fields, MtxTypeOK
  <1>1. MtxTypeOK'
    BY <1>0 DEF MtxTypeOK
  <1>2. \A k \in Mutexes : Fields(k)'
    BY <1>0 DEF Fields, MtxTypeOK
  <1>3. \A k \in Mutexes : Queue(k)'
    BY QueueFrame
  <1>4. \A u \in Threads : Waiter(u)'
    BY DEF Waiter, MtxTypeOK
  <1>5. \A u \in Threads : Restores(u)'
    BY <1>0 DEF Restores, OwnsNone, MtxTypeOK
  <1>6. MtxOutcome'
    BY <1>0 DEF MtxOutcome, InQueues, MtxTypeOK
  <1> QED
    BY <1>1, <1>2, <1>3, <1>4, <1>5, <1>6

\* TakeNot and ReleaseNotOwned only set the error of a running thread.
LEMMA StepError ==
    ASSUME MtxInv, NEW t \in Threads, NEW m \in Mutexes,
           TakeNot(t, m) \/ ReleaseNotOwned(t, m)
    PROVE  MtxInv'
  <1>0. /\ mtxPc[t] = "run"
        /\ \E e \in {"ETIMEOUT", "ERROR"} : err' = [err EXCEPT ![t] = e]
        /\ UNCHANGED <<value, owner, hold, orig, waiting, prio, mtxPc, want,
                       timed, outer>>
    BY DEF TakeNot, ReleaseNotOwned
  <1> USE Constants, <1>0 DEF MtxInv
  <1>1. MtxTypeOK'
    BY DEF MtxTypeOK
  <1>2. \A k \in Mutexes : Fields(k)'
    BY DEF Fields
  <1>3. \A k \in Mutexes : Queue(k)'
    BY QueueFrame
  <1>4. \A u \in Threads : Waiter(u)'
    BY DEF Waiter, MtxTypeOK
  <1>5. \A u \in Threads : Restores(u)'
    BY DEF Restores, OwnsNone
  <1>6. MtxOutcome'
    BY DEF MtxOutcome, InQueues, MtxTypeOK
  <1> QED
    BY <1>1, <1>2, <1>3, <1>4, <1>5, <1>6

LEMMA StepTakeWait ==
    ASSUME MtxInv, NEW t \in Threads, NEW m \in Mutexes, NEW w \in BOOLEAN,
           TakeWait(t, m, w)
    PROVE  MtxInv'
  <1> USE Constants DEF MtxInv
  <1>0. owner[m] \in Threads /\ owner[m] # t
    BY DEF Fields, MtxTypeOK, TakeWait
  <1>1. MtxTypeOK'
    <2>1. prio' \in [Threads -> 0..254]
      <3>1. PICK new \in 0..254 : prio' = [prio EXCEPT ![owner[m]] = new]
        <4>1. prio[t] \in 0..254 /\ prio[owner[m]] \in 0..254
          BY <1>0 DEF MtxTypeOK
        <4> QED
          BY <4>1, Zenon DEF TakeWait
      <3> QED
        BY <1>0, <3>1 DEF MtxTypeOK
    <2>2. waiting' \in [Mutexes -> Seq(Threads)]
      BY AppendFacts DEF MtxTypeOK, TakeWait
    <2>3. timed' \in [Threads -> BOOLEAN]
      BY Zenon DEF MtxTypeOK, TakeWait
    <2>4. /\ err' \in [Threads -> {"EOK", "ETIMEOUT", "ERROR"}]
          /\ mtxPc' \in [Threads -> {"run", "wait", "woken"}]
          /\ want' \in [Threads -> Mutexes \union {NoMutex}]
      BY DEF MtxTypeOK, TakeWait
    <2> QED
      BY <2>1, <2>2, <2>3, <2>4 DEF MtxTypeOK, TakeWait
  <1>2. \A k \in Mutexes : Fields(k)'
    BY <1>0 DEF Fields, MtxTypeOK, TakeWait
  <1>3. \A k \in Mutexes : Queue(k)'
    <2>1. Queue(m)'
      <3>0. \A i \in 1..Len(waiting[m]) : waiting[m][i] # t
        <4>1. mtxPc[t] # "wait" /\ Queue(m)
          BY DEF TakeWait
        <4> QED
          BY <4>1 DEF Queue
      <3>1. /\ waiting[m] \in Seq(Threads)
            /\ waiting'[m] = Append(waiting[m], t)
        BY DEF MtxTypeOK, TakeWait
      <3>2. \A u \in Threads : (mtxPc'[u] = "wait" /\ want'[u] = m)
               <=> (u = t \/ (mtxPc[u] = "wait" /\ want[u] = m))
        BY DEF MtxTypeOK, TakeWait
      <3> QED
        BY <3>0, <3>1, <3>2, AppendFacts DEF Queue
    <2>2. \A k \in Mutexes \ {m} : Queue(k)'
      BY QueueFrame DEF MtxTypeOK, TakeWait
    <2> QED
      BY <2>1, <2>2
  <1>4. \A u \in Threads : Waiter(u)'
    BY <1>0 DEF Waiter, MtxTypeOK, TakeWait
  <1>5. \A u \in Threads : Restores(u)'
    <2>1. outer[owner[m]] # NoMutex
      BY <1>0 DEF Restores, OwnsNone
    <2>2. \A u \in Threads : prio'[u] <= Base[u] /\ (u # owner[m] => prio'[u] = prio[u])
      <3>1. /\ prio \in [Threads -> 0..254]
            /\ prio' = [prio EXCEPT ![owner[m]] =
                          IF prio[t] < prio[owner[m]] THEN prio[t] ELSE prio[owner[m]]]
        BY <1>0 DEF MtxTypeOK, TakeWait
      <3>2. \A u \in Threads : prio[u] <= Base[u]
        BY DEF Restores
      <3> QED
        <4> TAKE u \in Threads
        <4>1. prio[u] \in Int /\ prio[t] \in Int /\ Base[u] \in Int
          BY <3>1
        <4>2. CASE u = owner[m]
          <5>1. prio'[u] = IF prio[t] < prio[u] THEN prio[t] ELSE prio[u]
            BY <3>1, <4>2
          <5>2. prio[u] <= Base[u]
            BY <3>2
          <5>3. prio'[u] <= Base[u]
            BY <4>1, <5>1, <5>2
          <5> QED
            BY <4>2, <5>3
        <4>3. CASE u # owner[m]
          BY <3>1, <3>2, <4>3
        <4> QED
          BY <4>2, <4>3
    <2> QED
      BY <2>1, <2>2 DEF Restores, OwnsNone, TakeWait
  <1>6. MtxOutcome'
    BY DEF MtxOutcome, InQueues, MtxTypeOK, TakeWait
  <1> QED
    BY <1>1, <1>2, <1>3, <1>4, <1>5, <1>6

\* The timer or a wake-up takes the thread out of the list, wherever it stands
\* there; without an error only one that a wake-up can reach.
LEMMA StepResume ==
    ASSUME MtxInv, NEW t \in Threads, WaitTimeout(t) \/ WaitResumed(t)
    PROVE  MtxInv'
  <1> USE Constants DEF MtxInv
  <1>r. /\ Resume(t)
        /\ UNCHANGED <<value, owner, hold, orig, prio, want, timed, outer>>
    BY DEF WaitTimeout, WaitResumed
  <1>e. /\ err' \in [Threads -> {"EOK", "ETIMEOUT", "ERROR"}]
        /\ \A u \in Threads \ {t} : err'[u] = err[u]
        /\ err'[t] = "EOK" => InQueues(t)
    BY DEF WaitTimeout, WaitResumed, MtxTypeOK
  <1>0. PICK m \in Mutexes : want[t] = m /\ owner[m] # t
    BY <1>r DEF Waiter, Resume
  <1>p. PICK p \in 1..Len(waiting[m]) :
           waiting[m][p] = t /\ waiting' = [waiting EXCEPT ![m] = Without(@, p)]
    BY <1>0, <1>r DEF Resume
  <1>w. waiting[m] \in Seq(Threads) /\ waiting'[m] = Without(waiting[m], p)
    BY <1>0, <1>p DEF MtxTypeOK
  <1>1. MtxTypeOK'
    BY <1>0, <1>e, <1>p, <1>r, <1>w, WithoutFacts DEF MtxTypeOK, Resume
  <1>2. \A k \in Mutexes : Fields(k)'
    <2>1. owner[m] # NoThread
      BY <1>0, <1>p DEF Fields
    <2> QED
      BY <1>0, <1>p, <1>r, <2>1 DEF Fields, MtxTypeOK
  <1>3. \A k \in Mutexes : Queue(k)'
    <2>1. Queue(m)'
      <3>1. \A u \in Threads : (mtxPc'[u] = "wait" /\ want'[u] = m)
               <=> (u # t /\ mtxPc[u] = "wait" /\ want[u] = m)
        BY <1>r DEF MtxTypeOK, Resume
      <3>2. \A i \in 1..Len(waiting[m]) : waiting[m][i] = t <=> i = p
        BY <1>0, <1>p DEF Queue
      <3> QED
        <4> DEFINE q == waiting[m]
                   r == Without(q, p)
        <4>1. /\ Len(q) \in Nat /\ Len(r) = Len(q) - 1 /\ p \in 1..Len(q)
              /\ \A i \in 1..(Len(q) - 1) : r[i] = IF i < p THEN q[i] ELSE q[i + 1]
          BY <1>p, <1>w, WithoutFacts
        <4>2. \A i, j \in 1..Len(q) : q[i] = q[j] => i = j
          BY DEF Queue
        <4>3. \A u \in Threads : (\E i \in 1..Len(q) : q[i] = u)
                                  <=> (mtxPc[u] = "wait" /\ want[u] = m)
          BY DEF Queue
        <4> HIDE DEF q, r
        <4>4. \A i, j \in 1..Len(r) : r[i] = r[j] => i = j
          <5> DEFINE at(i) == IF i < p THEN i ELSE i + 1
          <5>1. \A i \in 1..Len(r) : at(i) \in 1..Len(q) /\ r[i] = q[at(i)]
            BY <4>1
          <5>2. \A i, j \in 1..Len(r) : at(i) = at(j) => i = j
            BY <4>1
          <5> HIDE DEF at
          <5> QED
            BY <4>2, <5>1, <5>2
        <4>5. \A u \in Threads : (\E i \in 1..Len(r) : r[i] = u)
                                  <=> (u # t /\ \E i \in 1..Len(q) : q[i] = u)
          <5> TAKE u \in Threads
          <5>1. ASSUME NEW i \in 1..Len(r), r[i] = u
                PROVE  u # t /\ \E k \in 1..Len(q) : q[k] = u
            <6>1. PICK k \in 1..Len(q) : q[k] = u /\ k # p
              BY <4>1, <5>1
            <6> QED
              BY <3>2, <6>1 DEF q
          <5>2. ASSUME u # t, NEW i \in 1..Len(q), q[i] = u
                PROVE  \E k \in 1..Len(r) : r[k] = u
            <6>1. i # p
              BY <3>2, <4>1, <5>2 DEF q
            <6>2. CASE i < p
              BY <4>1, <5>2, <6>2
            <6>3. CASE i > p
              <7>1. i - 1 \in 1..Len(r) /\ r[i - 1] = q[i]
                BY <4>1, <6>3
              <7> QED
                BY <5>2, <7>1
            <6> QED
              BY <4>1, <6>1, <6>2, <6>3
          <5> QED
            BY <5>1, <5>2
        <4> QED
          BY <1>w, <3>1, <4>3, <4>4, <4>5 DEF Queue, q, r
    <2>2. \A k \in Mutexes \ {m} : Queue(k)'
      BY <1>0, <1>p, <1>r, QueueFrame DEF MtxTypeOK, Resume
    <2> QED
      BY <2>1, <2>2
  <1>4. \A u \in Threads : Waiter(u)'
    BY <1>0, <1>e, <1>r DEF Waiter, MtxTypeOK, Resume
  <1>5. \A u \in Threads : Restores(u)'
    BY <1>r DEF Restores, OwnsNone, MtxTypeOK
  <1>6. MtxOutcome'
    BY <1>0, <1>e, <1>r DEF MtxOutcome, InQueues, MtxTypeOK, Resume
  <1> QED
    BY <1>1, <1>2, <1>3, <1>4, <1>5, <1>6

LEMMA StepTakeReturn ==
    ASSUME MtxInv, NEW t \in Threads, TakeReturn(t)
    PROVE  MtxInv'
  <1> USE Constants DEF MtxInv, TakeReturn
  <1>1. MtxTypeOK'
    <2>1. timed' \in [Threads -> BOOLEAN]
      BY Zenon DEF MtxTypeOK
    <2> QED
      BY <2>1 DEF MtxTypeOK
  <1>2. \A k \in Mutexes : Fields(k)'
    BY DEF Fields
  <1>3. \A k \in Mutexes : Queue(k)'
    BY QueueFrame DEF MtxTypeOK
  <1>4. \A u \in Threads : Waiter(u)'
    BY DEF Waiter, MtxTypeOK
  <1>5. \A u \in Threads : Restores(u)'
    BY DEF Restores, OwnsNone
  <1>6. MtxOutcome'
    BY DEF MtxOutcome, InQueues, MtxTypeOK
  <1> QED
    BY <1>1, <1>2, <1>3, <1>4, <1>5, <1>6

-----------------------------------------------------------------------------
(* rt_mutex_release.                                                         *)

LEMMA StepReleaseInner ==
    ASSUME MtxInv, NEW t \in Threads, NEW m \in Mutexes, ReleaseInner(t, m)
    PROVE  MtxInv'
  <1> USE Constants DEF MtxInv, ReleaseInner
  <1>1. MtxTypeOK'
    <2>1. hold' \in [Mutexes -> 0..MaxHold]
      BY DEF MtxTypeOK
    <2> QED
      BY <2>1 DEF MtxTypeOK
  <1>2. \A k \in Mutexes : Fields(k)'
    BY DEF Fields, MtxTypeOK
  <1>3. \A k \in Mutexes : Queue(k)'
    BY QueueFrame
  <1>4. \A u \in Threads : Waiter(u)'
    BY DEF Waiter
  <1>5. \A u \in Threads : Restores(u)'
    BY DEF Restores, OwnsNone
  <1>6. MtxOutcome'
    BY DEF MtxOutcome, InQueues
  <1> QED
    BY <1>1, <1>2, <1>3, <1>4, <1>5, <1>6

\* What t is left with when it gives m away at its last release.
LEMMA PrioAfterRelease ==
    ASSUME MtxInv, NEW t \in Threads, NEW m \in Mutexes, LastRelease(t, m),
           prio'[t] = orig[m],
           outer'[t] = IF outer[t] = m THEN NoMutex ELSE outer[t],
           owner'[m] # t,
           \A k \in Mutexes \ {m} : owner'[k] = owner[k] /\ orig'[k] = orig[k]
    PROVE  Restores(t)'
  <1>1. Restores(t) /\ owner[m] = t /\ OuterLast(t, m)
    BY DEF MtxInv, LastRelease
  <1>2. orig[m] <= Base[t]
    BY <1>1 DEF Restores
  <1>3. outer[t] # NoMutex /\ outer[t] \in Mutexes
    BY <1>1 DEF Restores, OwnsNone, MtxInv, MtxTypeOK
  <1>4. CASE outer[t] = m
    <2>1. outer'[t] = NoMutex /\ orig[m] = Base[t] /\ OwnsNone(t)'
      BY <1>1, <1>3, <1>4 DEF Restores, OuterLast, OwnsNone
    <2> QED
      BY <1>2, <2>1 DEF Restores, OwnsNone
  <1>5. CASE outer[t] # m
    <2>1. outer'[t] = outer[t] /\ owner'[outer[t]] = t /\ orig'[outer[t]] = Base[t]
      BY <1>1, <1>3, <1>5 DEF Restores
    <2> QED
      BY <1>1, <1>2, <1>3, <2>1 DEF Restores
  <1> QED
    BY <1>4, <1>5

LEMMA StepReleaseFree ==
    ASSUME MtxInv, NEW t \in Threads, NEW m \in Mutexes, ReleaseFree(t, m)
    PROVE  MtxInv'
  <1> USE Constants DEF MtxInv
  <1>0. mtxPc[t] = "run" /\ owner[m] = t /\ hold[m] = 1 /\ value[m] = 0
    BY DEF ReleaseFree, LastRelease, Fields, MtxTypeOK
  <1>b. orig[m] \in 0..254
    <2>1. orig[m] <= Base[t] /\ orig[m] \in 0..255 /\ Base[t] \in 0..254
      BY <1>0 DEF Restores, MtxTypeOK
    <2> QED
      BY <2>1
  <1>1. MtxTypeOK'
    <2>1. value' \in [Mutexes -> 0..1] /\ hold' \in [Mutexes -> 0..MaxHold]
      BY <1>0 DEF MtxTypeOK, ReleaseFree
    <2>2. /\ prio' \in [Threads -> 0..254]
          /\ owner' \in [Mutexes -> Threads \union {NoThread}]
          /\ orig' \in [Mutexes -> 0..255]
          /\ outer' \in [Threads -> Mutexes \union {NoMutex}]
      BY <1>b DEF MtxTypeOK, ReleaseFree, NoPrio
    <2> QED
      BY <2>1, <2>2 DEF MtxTypeOK, ReleaseFree
  <1>2. \A k \in Mutexes : Fields(k)'
    BY <1>0 DEF Fields, MtxTypeOK, ReleaseFree
  <1>3. \A k \in Mutexes : Queue(k)'
    BY QueueFrame DEF ReleaseFree
  <1>4. \A u \in Threads : Waiter(u)'
    BY DEF Waiter, MtxTypeOK, ReleaseFree
  <1>5. \A u \in Threads : Restores(u)'
    <2>1. Restores(t)'
      <3>1. /\ LastRelease(t, m) /\ prio'[t] = orig[m]
            /\ outer'[t] = IF outer[t] = m THEN NoMutex ELSE outer[t]
            /\ owner'[m] # t
            /\ \A k \in Mutexes \ {m} : owner'[k] = owner[k] /\ orig'[k] = orig[k]
        BY DEF ReleaseFree, MtxTypeOK
      <3> QED
        BY <3>1, PrioAfterRelease
    <2>2. \A u \in Threads \ {t} : Restores(u)'
      BY <1>0 DEF Restores, OwnsNone, MtxTypeOK, ReleaseFree
    <2> QED
      BY <2>1, <2>2
  <1>6. MtxOutcome'
    BY <1>0 DEF MtxOutcome, InQueues, MtxTypeOK, ReleaseFree, Waiter
  <1> QED
    BY <1>1, <1>2, <1>3, <1>4, <1>5, <1>6

\* The first waiting thread becomes the owner; it is not t, which runs.
LEMMA StepReleaseTo ==
    ASSUME MtxInv, NEW t \in Threads, NEW m \in Mutexes, ReleaseTo(t, m)
    PROVE  MtxInv'
  <1> USE Constants DEF MtxInv
  <1>0. /\ mtxPc[t] = "run" /\ owner[m] = t /\ LastRelease(t, m)
        /\ waiting[m] \in Seq(Threads) /\ waiting[m] # <<>>
    BY DEF ReleaseTo, LastRelease, MtxTypeOK
  <1>n. PICK new \in Threads : new = Head(waiting[m])
    BY <1>0, TailFacts
  <1>a. /\ prio' = [prio EXCEPT ![t] = orig[m]]
        /\ owner' = [owner EXCEPT ![m] = new]
        /\ orig' = [orig EXCEPT ![m] = prio[new]]
        /\ waiting' = [waiting EXCEPT ![m] = Tail(@)]
        /\ mtxPc' = [mtxPc EXCEPT ![new] = "woken"]
        /\ outer' = [outer EXCEPT ![t] = IF @ = m THEN NoMutex ELSE @,
                                  ![new] = IF @ = NoMutex THEN m ELSE @]
        /\ UNCHANGED <<value, hold, err, want, timed>>
    BY <1>n DEF ReleaseTo
  <1>w. mtxPc[new] = "wait" /\ want[new] = m /\ new # t
    <2>1. Queue(m) /\ 1 \in 1..Len(waiting[m]) /\ waiting[m][1] = new
      BY <1>0, <1>n, TailFacts
    <2> QED
      BY <1>0, <2>1 DEF Queue
  <1>b. orig[m] \in 0..254
    <2>1. orig[m] <= Base[t] /\ orig[m] \in 0..255 /\ Base[t] \in 0..254
      BY <1>0 DEF Restores, MtxTypeOK
    <2> QED
      BY <2>1
  <1>o. /\ outer'[t] = (IF outer[t] = m THEN NoMutex ELSE outer[t])
        /\ outer'[new] = (IF outer[new] = NoMutex THEN m ELSE outer[new])
        /\ \A u \in Threads \ {t, new} : outer'[u] = outer[u]
        /\ outer' \in [Threads -> Mutexes \union {NoMutex}]
    BY <1>a, <1>w DEF MtxTypeOK
  <1>1. MtxTypeOK'
    <2>1. prio' \in [Threads -> 0..254]
      BY <1>a, <1>b DEF MtxTypeOK
    <2>2. orig' \in [Mutexes -> 0..255]
      <3>1. prio[new] \in 0..255
        BY DEF MtxTypeOK
      <3> QED
        BY <1>a, <3>1 DEF MtxTypeOK
    <2>3. waiting' \in [Mutexes -> Seq(Threads)]
      BY <1>0, <1>a, TailFacts DEF MtxTypeOK
    <2>4. /\ owner' \in [Mutexes -> Threads \union {NoThread}]
          /\ mtxPc' \in [Threads -> {"run", "wait", "woken"}]
      BY <1>a DEF MtxTypeOK
    <2> QED
      BY <1>a, <1>o, <2>1, <2>2, <2>3, <2>4 DEF MtxTypeOK
  <1>2. \A k \in Mutexes : Fields(k)'
    BY <1>0, <1>a DEF Fields, MtxTypeOK
  <1>3. \A k \in Mutexes : Queue(k)'
    <2>1. Queue(m)'
      <3> DEFINE q == waiting[m]
                 r == Tail(q)
      <3>1. /\ Len(q) \in Nat /\ Len(q) >= 1 /\ Len(r) = Len(q) - 1 /\ q[1] = new
            /\ \A i \in 1..(Len(q) - 1) : r[i] = q[i + 1]
        BY <1>0, <1>n, TailFacts
      <3>2. \A i, j \in 1..Len(q) : q[i] = q[j] => i = j
        BY DEF Queue
      <3>3. \A u \in Threads : (\E i \in 1..Len(q) : q[i] = u)
                                <=> (mtxPc[u] = "wait" /\ want[u] = m)
        BY DEF Queue
      <3>4. waiting'[m] = r
        BY <1>0, <1>a DEF MtxTypeOK
      <3>5. \A u \in Threads : (mtxPc'[u] = "wait" /\ want'[u] = m)
               <=> (u # new /\ mtxPc[u] = "wait" /\ want[u] = m)
        BY <1>a DEF MtxTypeOK
      <3> HIDE DEF q, r
      <3>6. \A i, j \in 1..Len(r) : r[i] = r[j] => i = j
        <4> TAKE i, j \in 1..Len(r)
        <4>1. i + 1 \in 1..Len(q) /\ j + 1 \in 1..Len(q) /\ r[i] = q[i + 1] /\ r[j] = q[j + 1]
          BY <3>1
        <4>2. i + 1 = j + 1 => i = j
          BY <3>1
        <4> QED
          BY <3>2, <4>1, <4>2
      <3>7. \A u \in Threads : (\E i \in 1..Len(r) : r[i] = u)
                                <=> (u # new /\ \E i \in 1..Len(q) : q[i] = u)
        <4> TAKE u \in Threads
        <4>1. ASSUME NEW i \in 1..Len(r), r[i] = u
              PROVE  u # new /\ \E k \in 1..Len(q) : q[k] = u
          <5>1. i + 1 \in 1..Len(q) /\ 1 \in 1..Len(q) /\ q[i + 1] = u
            BY <3>1, <4>1
          <5> QED
            BY <3>1, <3>2, <5>1
        <4>2. ASSUME u # new, NEW i \in 1..Len(q), q[i] = u
              PROVE  \E k \in 1..Len(r) : r[k] = u
          <5>1. i - 1 \in 1..Len(r) /\ r[i - 1] = u
            BY <3>1, <4>2
          <5> QED
            BY <5>1
        <4> QED
          BY <4>1, <4>2
      <3>8. \A u \in Threads : (\E i \in 1..Len(r) : r[i] = u)
                                <=> (mtxPc'[u] = "wait" /\ want'[u] = m)
        BY <3>3, <3>5, <3>7, Zenon
      <3> QED
        BY <3>4, <3>6, <3>8, Zenon DEF Queue
    <2>2. \A k \in Mutexes \ {m} : Queue(k)'
      BY <1>a, <1>w, QueueFrame DEF MtxTypeOK
    <2> QED
      BY <2>1, <2>2
  <1>4. \A u \in Threads : Waiter(u)'
    BY <1>a, <1>w DEF Waiter, MtxTypeOK
  <1>5. \A u \in Threads : Restores(u)'
    <2>1. Restores(t)'
      <3>1. /\ prio'[t] = orig[m] /\ owner'[m] # t
            /\ \A k \in Mutexes \ {m} : owner'[k] = owner[k] /\ orig'[k] = orig[k]
        BY <1>a, <1>w DEF MtxTypeOK
      <3> QED
        BY <1>0, <1>o, <3>1, PrioAfterRelease
    <2>2. Restores(new)'
      <3>1. /\ prio'[new] = prio[new] /\ owner'[m] = new /\ orig'[m] = prio[new]
            /\ \A k \in Mutexes \ {m} : owner'[k] = owner[k] /\ orig'[k] = orig[k]
        BY <1>a, <1>w DEF MtxTypeOK
      <3>2. Restores(new) /\ owner[m] # new
        BY <1>0, <1>w
      <3>3. CASE outer[new] = NoMutex
        <4>1. prio[new] = Base[new] /\ OwnsNone(new) /\ outer'[new] = m
          BY <1>o, <3>2, <3>3 DEF Restores
        <4> QED
          BY <3>1, <3>2, <4>1 DEF Restores, OwnsNone
      <3>4. CASE outer[new] # NoMutex
        <4>1. /\ outer'[new] = outer[new] /\ outer[new] \in Mutexes \ {m}
              /\ owner[outer[new]] = new /\ orig[outer[new]] = Base[new]
          BY <1>o, <3>2, <3>4 DEF Restores, MtxTypeOK
        <4> QED
          BY <3>1, <3>2, <3>4, <4>1 DEF Restores
      <3> QED
        BY <3>3, <3>4
    <2>3. \A u \in Threads \ {t, new} : Restores(u)'
      <3> TAKE u \in Threads \ {t, new}
      <3>1. /\ prio'[u] = prio[u] /\ owner'[m] # u /\ owner[m] # u
            /\ outer'[u] = outer[u]
            /\ \A k \in Mutexes \ {m} : owner'[k] = owner[k] /\ orig'[k] = orig[k]
        BY <1>0, <1>a, <1>o DEF MtxTypeOK
      <3>2. Restores(u) /\ outer[u] \in Mutexes \union {NoMutex}
        BY DEF MtxTypeOK
      <3> QED
        BY <3>1, <3>2 DEF Restores, OwnsNone
    <2> QED
      BY <2>1, <2>2, <2>3
  <1>6. MtxOutcome'
    BY <1>0, <1>a, <1>w DEF MtxOutcome, InQueues, MtxTypeOK, Waiter
  <1> QED
    BY <1>1, <1>2, <1>3, <1>4, <1>5, <1>6

-----------------------------------------------------------------------------
(* The theorems.                                                             *)

LEMMA MtxInitInv == MtxInit => MtxInv
  <1> SUFFICES ASSUME MtxInit PROVE MtxInv
    OBVIOUS
  <1> USE Constants DEF MtxInit
  <1>1. MtxTypeOK
    <2>1. timed \in [Threads -> BOOLEAN]
      BY Zenon
    <2>2. Base \in [Threads -> 0..254]
      BY MutexOK
    <2> QED
      BY <2>1, <2>2 DEF MtxTypeOK, NoPrio
  <1>2. \A m \in Mutexes : Fields(m) /\ Queue(m)
    BY DEF Fields, Queue
  <1>3. \A t \in Threads : Waiter(t) /\ Restores(t)
    <2> TAKE t \in Threads
    <2>0. Base[t] \in Int
      BY BaseInt
    <2>1. prio[t] = Base[t]
      OBVIOUS
    <2>2. prio[t] <= Base[t]
      BY <2>0, <2>1
    <2>3. OwnsNone(t) /\ outer[t] = NoMutex
      BY DEF OwnsNone
    <2> QED
      BY <2>1, <2>2, <2>3 DEF Waiter, Restores, OwnsNone
  <1>4. MtxOutcome
    BY DEF MtxOutcome, InQueues
  <1> QED
    BY <1>1, <1>2, <1>3, <1>4 DEF MtxInv

LEMMA MtxStutter == MtxInv /\ UNCHANGED mtxVars => MtxInv'
  BY DEF mtxVars, MtxInv, MtxTypeOK, Fields, Queue, Waiter, Restores, OwnsNone,
         MtxOutcome, InQueues

LEMMA MtxInvStep == MtxInv /\ [MtxNext]_mtxVars => MtxInv'
  BY StepTakeAgain, StepTakeFree, StepError, StepTakeWait, StepResume,
     StepTakeReturn, StepReleaseInner, StepReleaseFree, StepReleaseTo,
     MtxStutter DEF MtxNext, Release

\* The invariant holds of every behaviour of the mutexes.
THEOREM MtxInvariant == MtxSpec => []MtxInv
  BY MtxInitInv, MtxInvStep, PTL DEF MtxSpec

\* The fields of rt_mutex and rt_thread stay in their ranges: value, hold and
\* the priorities neither overflow nor fall below zero.
THEOREM MtxTypes == MtxSpec => []MtxTypeOK
  <1>1. MtxInv => MtxTypeOK
    BY DEF MtxInv
  <1> QED
    BY <1>1, MtxInvariant, PTL

\* value, owner, hold and the suspended threads of every mutex agree, whatever
\* rt_mutex_take, rt_mutex_release, rt_thread_timeout and a wake-up by
\* rt_wqueue_wakeup do to them.
THEOREM MutexesCoherent == MtxSpec => []MtxCoherent
  <1>1. MtxInv => MtxCoherent
    BY DEF MtxInv, MtxCoherent, Fields, Queue
  <1> QED
    BY <1>1, MtxInvariant, PTL

\* rt_mutex_take never returns an error to the owner, and it returns RT_EOK to
\* the owner only, but for a thread in poll() that rt_wqueue_wakeup may have
\* resumed.
THEOREM TakeTellsTruth == MtxSpec => []MtxOutcome
  <1>1. MtxInv => MtxOutcome
    BY DEF MtxInv
  <1> QED
    BY <1>1, MtxInvariant, PTL

\* A thread that owns no mutex has the priority it was created with, and no
\* thread is ever less urgent than that: what rt_mutex_take raised,
\* rt_mutex_release restores.
THEOREM PriorityRestored == MtxSpec => []PrioRestored
  <1>1. MtxInv => PrioRestored
    <2> SUFFICES ASSUME MtxInv, NEW t \in Threads
                 PROVE  prio[t] <= Base[t] /\ (OwnsNone(t) => prio[t] = Base[t])
      BY DEF PrioRestored
    <2>1. Restores(t) /\ outer[t] \in Mutexes \union {NoMutex}
      BY DEF MtxInv, MtxTypeOK
    <2> QED
      BY <2>1 DEF Restores, OwnsNone
  <1> QED
    BY <1>1, MtxInvariant, PTL

-----------------------------------------------------------------------------
(* Deadlock.                                                                 *)

\* A suspended thread owns only mutexes that come before the one it wants.
Nested ==
    \A t \in Threads, k \in Mutexes :
        mtxPc[t] = "wait" /\ owner[k] = t => k < want[t]

\* A suspended thread gets no mutex and wants no other one before it is resumed.
LEMMA NestedFrame ==
    ASSUME Nested,
           \A t \in Threads : mtxPc'[t] = "wait" =>
               /\ mtxPc[t] = "wait" /\ want'[t] = want[t]
               /\ \A k \in Mutexes : owner'[k] = t => owner[k] = t
    PROVE  Nested'
  BY DEF Nested

LEMMA NestedWait ==
    ASSUME MtxTypeOK, Nested, NEW t \in Threads, NEW m \in Mutexes, NEW w \in BOOLEAN,
           TakeWait(t, m, w)
    PROVE  Nested'
  <1>1. \A k \in Mutexes : owner[k] = t => k < m
    BY DEF TakeWait, InOrder
  <1>2. /\ mtxPc' = [mtxPc EXCEPT ![t] = "wait"] /\ want' = [want EXCEPT ![t] = m]
        /\ owner' = owner
    BY DEF TakeWait
  <1>3. /\ want'[t] = m
        /\ \A u \in Threads \ {t} : mtxPc'[u] = mtxPc[u] /\ want'[u] = want[u]
    BY <1>2 DEF MtxTypeOK
  <1> QED
    BY <1>1, <1>2, <1>3 DEF Nested

\* rt_mutex_release resumes the thread it gives the mutex to.
LEMMA NestedHandOver ==
    ASSUME MtxInv, Nested, NEW t \in Threads, NEW m \in Mutexes, ReleaseTo(t, m)
    PROVE  Nested'
  <1>1. waiting[m] \in Seq(Threads) /\ waiting[m] # <<>> /\ MtxTypeOK
    BY DEF ReleaseTo, MtxInv, MtxTypeOK
  <1>2. PICK new \in Threads : new = Head(waiting[m])
    BY <1>1, TailFacts
  <1>3. /\ owner' = [owner EXCEPT ![m] = new] /\ want' = want
        /\ mtxPc' = [mtxPc EXCEPT ![new] = "woken"]
    BY <1>2 DEF ReleaseTo
  <1>4. \A u \in Threads : mtxPc'[u] = "wait" =>
               /\ mtxPc[u] = "wait" /\ want'[u] = want[u]
               /\ \A k \in Mutexes : owner'[k] = u => owner[k] = u
    BY <1>1, <1>3 DEF MtxTypeOK
  <1> QED
    BY <1>4, NestedFrame

LEMMA NestedStep == MtxInv /\ Nested /\ [MtxNext]_mtxVars => Nested'
  <1> SUFFICES ASSUME MtxInv, Nested, [MtxNext]_mtxVars PROVE Nested'
    OBVIOUS
  <1>0. MtxTypeOK
    BY DEF MtxInv
  <1>1. ASSUME NEW t \in Threads, NEW m \in Mutexes,
               \/ TakeAgain(t, m) \/ TakeNot(t, m) \/ ReleaseNotOwned(t, m)
               \/ ReleaseInner(t, m)
        PROVE  Nested'
    BY <1>1, NestedFrame DEF TakeAgain, TakeNot, ReleaseNotOwned, ReleaseInner
  <1>2. ASSUME NEW t \in Threads, NEW m \in Mutexes, TakeFree(t, m) PROVE Nested'
    BY <1>0, <1>2, NestedFrame DEF TakeFree, MtxTypeOK
  <1>3. ASSUME NEW t \in Threads, NEW m \in Mutexes, ReleaseFree(t, m) PROVE Nested'
    BY <1>0, <1>3, Constants, NestedFrame DEF ReleaseFree, MtxTypeOK
  <1>4. ASSUME NEW t \in Threads, WaitTimeout(t) \/ WaitResumed(t) \/ TakeReturn(t)
        PROVE  Nested'
    BY <1>0, <1>4, NestedFrame DEF WaitTimeout, WaitResumed, Resume, TakeReturn, MtxTypeOK
  <1>5. CASE UNCHANGED mtxVars
    BY <1>5, NestedFrame DEF mtxVars
  <1> QED
    BY <1>0, <1>1, <1>2, <1>3, <1>4, <1>5, NestedWait, NestedHandOver DEF MtxNext, Release

\* The highest mutex that threads of S want has an owner outside S.  There is a
\* highest one: of the sets of mutexes above the wanted ones, one is minimal.
LEMMA HighestWanted ==
    ASSUME IsFiniteSet(Mutexes), MtxInv, Nested,
           NEW S \in SUBSET {t \in Threads : mtxPc[t] = "wait"}, S # {}
    PROVE  \E t \in S : owner[want[t]] \in Threads \ S
  <1> DEFINE Above(m) == {k \in Mutexes : m < k}
             T == {Above(want[t]) : t \in S}
  <1>1. /\ \A t \in S : t \in Threads /\ mtxPc[t] = "wait" /\ want[t] \in Mutexes
        /\ Mutexes \subseteq Int
    BY MutexOK DEF MtxInv, Waiter
  <1>2. \A t \in S : owner[want[t]] \in Threads
    <2> TAKE t \in S
    <2>1. Queue(want[t]) /\ Fields(want[t])
      BY <1>1 DEF MtxInv
    <2>2. waiting[want[t]] # <<>>
      BY <1>1, <2>1 DEF Queue
    <2>3. owner[want[t]] # NoThread
      BY <2>1, <2>2 DEF Fields
    <2>4. owner \in [Mutexes -> Threads \union {NoThread}]
      BY DEF MtxInv, MtxTypeOK
    <2> QED
      BY <1>1, <2>3, <2>4
  <1>3. PICK x \in T : \A y \in T : <<y, x>> \notin StrictSubsetOrdering(Mutexes)
    <2>1. IsWellFoundedOn(StrictSubsetOrdering(Mutexes), SUBSET Mutexes)
      BY FS_StrictSubsetOrderingWellFounded, FS_FiniteSubsetsOfFinite
    <2>2. T \subseteq SUBSET Mutexes /\ T # {}
      OBVIOUS
    <2> HIDE DEF T
    <2> QED
      BY <2>1, <2>2, WFMin
  <1>4. PICK t \in S : x = Above(want[t])
    BY <1>3
  <1>5. ASSUME owner[want[t]] \in S PROVE FALSE
    <2> DEFINE u == owner[want[t]]
               y == Above(want[u])
    <2>1. want[t] < want[u]
      BY <1>1, <1>5 DEF Nested
    <2>2. y \subseteq x /\ want[u] \in x /\ want[u] \notin y
      <3>1. want[t] \in Int /\ want[u] \in Mutexes /\ want[u] \in Int
        BY <1>1, <1>5
      <3>2. \A k \in Mutexes : want[u] < k => want[t] < k
        BY <1>1, <2>1, <3>1
      <3>3. ~(want[u] < want[u])
        BY <3>1
      <3>4. /\ \A k : k \in x <=> k \in Mutexes /\ want[t] < k
            /\ \A k : k \in y <=> k \in Mutexes /\ want[u] < k
        BY <1>4
      <3> HIDE DEF y
      <3> QED
        BY <2>1, <3>1, <3>2, <3>3, <3>4
    <2>3. y \in T /\ x \in SUBSET Mutexes /\ y \in SUBSET Mutexes
      BY <1>4, <1>5
    <2>4. <<y, x>> \in StrictSubsetOrdering(Mutexes)
      BY <2>2, <2>3 DEF StrictSubsetOrdering
    <2> QED
      BY <1>3, <2>3, <2>4
  <1> QED
    BY <1>2, <1>5

\* With finitely many mutexes, which the callers nest in one order, threads
\* suspended in rt_mutex_take never wait for each other, for any number of
\* threads and however deep they nest: what rt_mutex_release hands over goes
\* to a thread that runs again.
THEOREM NoDeadlock ==
    ASSUME IsFiniteSet(Mutexes)
    PROVE  MtxSpec => []MtxNoDeadlock
  <1>1. MtxInit => Nested
    BY DEF MtxInit, Nested
  <1>2. MtxInv /\ Nested => MtxNoDeadlock
    BY HighestWanted DEF MtxNoDeadlock
  <1> QED
    BY <1>1, <1>2, NestedStep, MtxInvariant, PTL DEF MtxSpec
=============================================================================
