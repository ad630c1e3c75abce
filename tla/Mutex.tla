-------------------------------- MODULE Mutex --------------------------------
(****************************************************************************)
(* RT-Thread's mutex as the firmware uses it: recursive, with a FIFO of     *)
(* waiting threads and with priority inheritance.  It protects the I2C and  *)
(* SPI buses, the EEPROM driver, the pipes and the file table.              *)
(*                                                                          *)
(* A thread inside poll() is resumed by a wake-up of a queue it is in, also *)
(* when it is suspended on a mutex: tcpc takes fslock (fd_get, fd_put) for  *)
(* its second descriptor with the nodes of the first one queued.            *)
(*                                                                          *)
(* Every action runs with interrupts disabled.  A smaller number is a more  *)
(* urgent priority.  Threads are interleaved freely, which includes what    *)
(* the priority scheduler does.                                             *)
(****************************************************************************)
EXTENDS Integers, Sequences

CONSTANTS
    Threads,     \* a set of positive numbers
    Mutexes,     \* a set of numbers, nested in increasing order
    Pollers,     \* the threads that call poll() or select(): tcpc
    PollMutexes, \* the mutexes poll() takes while it is in queues: fslock
    Base,        \* Base[t]: the priority a thread was created with
    MaxHold      \* recursive takes explored

ASSUME MutexOK ==
    /\ Threads \subseteq Nat \ {0} /\ Mutexes \subseteq Nat
    /\ Pollers \subseteq Threads /\ PollMutexes \subseteq Mutexes
    /\ Base \in [Threads -> 0..254]
    /\ MaxHold \in Nat \ {0}

NoThread == 0
NoPrio == 255      \* 0xff
NoMutex == -1

VARIABLES
    value, owner, hold, orig,   \* struct rt_mutex; orig: original_priority
    waiting,                    \* its suspend_thread list
    prio, err,                  \* struct rt_thread: current_priority, error
    mtxPc,       \* "run", "wait" (suspended) or "woken" (in rt_mutex_take)
    want, timed, \* a waiting thread's mutex, and whether its timer runs
    outer        \* the mutex a thread took first of those it owns

mtxVars == <<value, owner, hold, orig, waiting, prio, err, mtxPc, want, timed,
             outer>>

\* Numbers have their ranges, and pointers point to threads and mutexes.
MtxTypeOK ==
    /\ value \in [Mutexes -> 0..1] /\ hold \in [Mutexes -> 0..MaxHold]
    /\ owner \in [Mutexes -> Threads \union {NoThread}]
    /\ orig \in [Mutexes -> 0..255]
    /\ waiting \in [Mutexes -> Seq(Threads)]
    /\ prio \in [Threads -> 0..254]
    /\ err \in [Threads -> {"EOK", "ETIMEOUT", "ERROR"}]
    /\ mtxPc \in [Threads -> {"run", "wait", "woken"}]
    /\ want \in [Threads -> Mutexes \union {NoMutex}]
    /\ timed \in [Threads -> BOOLEAN]
    /\ outer \in [Threads -> Mutexes \union {NoMutex}]

\* rt_mutex_init.
MtxInit ==
    /\ value = [m \in Mutexes |-> 1] /\ hold = [m \in Mutexes |-> 0]
    /\ owner = [m \in Mutexes |-> NoThread]
    /\ orig = [m \in Mutexes |-> NoPrio]
    /\ waiting = [m \in Mutexes |-> <<>>]
    /\ prio = Base /\ err = [t \in Threads |-> "EOK"]
    /\ mtxPc = [t \in Threads |-> "run"]
    /\ want = [t \in Threads |-> NoMutex]
    /\ timed = [t \in Threads |-> FALSE]
    /\ outer = [t \in Threads |-> NoMutex]

-----------------------------------------------------------------------------
(* rt_mutex_take.                                                            *)

\* The callers nest mutexes in one order.
InOrder(t, m) == \A k \in Mutexes : owner[k] = t => k < m

TakeAgain(t, m) ==
    /\ mtxPc[t] = "run" /\ owner[m] = t
    /\ hold[m] < MaxHold
    /\ hold' = [hold EXCEPT ![m] = @ + 1]
    /\ err' = [err EXCEPT ![t] = "EOK"]
    /\ UNCHANGED <<value, owner, orig, waiting, prio, mtxPc, want, timed, outer>>

TakeFree(t, m) ==
    /\ mtxPc[t] = "run" /\ owner[m] # t /\ InOrder(t, m)
    /\ value[m] > 0
    /\ value' = [value EXCEPT ![m] = @ - 1]
    /\ owner' = [owner EXCEPT ![m] = t]
    /\ orig' = [orig EXCEPT ![m] = prio[t]]
    /\ hold' = [hold EXCEPT ![m] = @ + 1]
    /\ err' = [err EXCEPT ![t] = "EOK"]
    /\ outer' = [outer EXCEPT ![t] = IF @ = NoMutex THEN m ELSE @]
    /\ UNCHANGED <<waiting, prio, mtxPc, want, timed>>

\* A waiting time of 0.
TakeNot(t, m) ==
    /\ mtxPc[t] = "run" /\ owner[m] # t /\ InOrder(t, m)
    /\ value[m] = 0
    /\ err' = [err EXCEPT ![t] = "ETIMEOUT"]
    /\ UNCHANGED <<value, owner, hold, orig, waiting, prio, mtxPc, want, timed,
                   outer>>

\* Mutant: the last to wait is the first to get the mutex.
TakeWait_Lifo(t, m, withTime) ==
    /\ mtxPc[t] = "run" /\ owner[m] # t /\ InOrder(t, m)
    /\ value[m] = 0
    /\ prio' = [prio EXCEPT ![owner[m]] = IF prio[t] < @ THEN prio[t] ELSE @]
    /\ waiting' = [waiting EXCEPT ![m] = <<t>> \o @]
    /\ err' = [err EXCEPT ![t] = "EOK"]
    /\ mtxPc' = [mtxPc EXCEPT ![t] = "wait"]
    /\ want' = [want EXCEPT ![t] = m]
    /\ timed' = [timed EXCEPT ![t] = withTime]
    /\ UNCHANGED <<value, owner, hold, orig, outer>>

\* Mutant: the owner of a mutex that takes it again is not recognised.
TakeWait_Self(t, m, withTime) ==
    /\ mtxPc[t] = "run" /\ (owner[m] # t => InOrder(t, m))
    /\ value[m] = 0
    /\ prio' = [prio EXCEPT ![owner[m]] = IF prio[t] < @ THEN prio[t] ELSE @]
    /\ waiting' = [waiting EXCEPT ![m] = Append(@, t)]
    /\ err' = [err EXCEPT ![t] = "EOK"]
    /\ mtxPc' = [mtxPc EXCEPT ![t] = "wait"]
    /\ want' = [want EXCEPT ![t] = m]
    /\ timed' = [timed EXCEPT ![t] = withTime]
    /\ UNCHANGED <<value, owner, hold, orig, outer>>

\* The owner inherits the priority, and the thread is suspended.
TakeWait(t, m, withTime) ==
    /\ mtxPc[t] = "run" /\ owner[m] # t /\ InOrder(t, m)
    /\ value[m] = 0
    /\ prio' = [prio EXCEPT ![owner[m]] = IF prio[t] < @ THEN prio[t] ELSE @]
    /\ waiting' = [waiting EXCEPT ![m] = Append(@, t)]
    /\ err' = [err EXCEPT ![t] = "EOK"]
    /\ mtxPc' = [mtxPc EXCEPT ![t] = "wait"]
    /\ want' = [want EXCEPT ![t] = m]
    /\ timed' = [timed EXCEPT ![t] = withTime]
    /\ UNCHANGED <<value, owner, hold, orig, outer>>

\* Mutant: the thread stays in the list.
Without_Not(s, p) == s

Without(s, p) == [i \in 1..(Len(s) - 1) |-> IF i < p THEN s[i] ELSE s[i + 1]]

\* A suspended thread is taken out of the list it is in and can run.
Resume(t) ==
    /\ mtxPc[t] = "wait"
    /\ \E p \in 1..Len(waiting[want[t]]) :
          /\ waiting[want[t]][p] = t
          /\ waiting' = [waiting EXCEPT ![want[t]] = Without(@, p)]
    /\ mtxPc' = [mtxPc EXCEPT ![t] = "woken"]

\* rt_thread_timeout.
WaitTimeout(t) ==
    /\ timed[t]
    /\ Resume(t)
    /\ err' = [err EXCEPT ![t] = "ETIMEOUT"]
    /\ UNCHANGED <<value, owner, hold, orig, prio, want, timed, outer>>

\* The mutex a thread waits for is one it takes inside poll().
InQueues(t) == t \in Pollers /\ want[t] \in PollMutexes

\* rt_wqueue_wakeup resumes a poller; thread->error stays RT_EOK.
WaitResumed(t) ==
    /\ InQueues(t)
    /\ Resume(t)
    /\ UNCHANGED <<value, owner, hold, orig, prio, err, want, timed, outer>>

\* The thread runs again and rt_mutex_take returns err.
TakeReturn(t) ==
    /\ mtxPc[t] = "woken"
    /\ mtxPc' = [mtxPc EXCEPT ![t] = "run"]
    /\ want' = [want EXCEPT ![t] = NoMutex]
    /\ timed' = [timed EXCEPT ![t] = FALSE]
    /\ UNCHANGED <<value, owner, hold, orig, waiting, prio, err, outer>>

-----------------------------------------------------------------------------
(* rt_mutex_release.                                                         *)

ReleaseNotOwned(t, m) ==
    /\ mtxPc[t] = "run" /\ owner[m] # t
    /\ err' = [err EXCEPT ![t] = "ERROR"]
    /\ UNCHANGED <<value, owner, hold, orig, waiting, prio, mtxPc, want, timed,
                   outer>>

ReleaseInner(t, m) ==
    /\ mtxPc[t] = "run" /\ owner[m] = t /\ hold[m] > 1
    /\ hold' = [hold EXCEPT ![m] = @ - 1]
    /\ UNCHANGED <<value, owner, orig, waiting, prio, err, mtxPc, want, timed,
                   outer>>

\* The callers release the mutex they took first last.
OuterLast(t, m) ==
    m = outer[t] => \A k \in Mutexes \ {m} : owner[k] # t

LastRelease(t, m) ==
    mtxPc[t] = "run" /\ owner[m] = t /\ hold[m] = 1 /\ OuterLast(t, m)

\* Nobody waits: the mutex is free.
ReleaseFree(t, m) ==
    /\ LastRelease(t, m)
    /\ waiting[m] = <<>>
    /\ prio' = [prio EXCEPT ![t] = orig[m]]
    /\ hold' = [hold EXCEPT ![m] = 0]
    /\ value' = [value EXCEPT ![m] = @ + 1]
    /\ owner' = [owner EXCEPT ![m] = NoThread]
    /\ orig' = [orig EXCEPT ![m] = NoPrio]
    /\ outer' = [outer EXCEPT ![t] = IF @ = m THEN NoMutex ELSE @]
    /\ UNCHANGED <<waiting, err, mtxPc, want, timed>>

\* Mutant: the new owner is resumed and has to find the mutex free.
ReleaseTo_Free(t, m) ==
    /\ LastRelease(t, m)
    /\ waiting[m] # <<>>
    /\ prio' = [prio EXCEPT ![t] = orig[m]]
    /\ hold' = [hold EXCEPT ![m] = 0]
    /\ value' = [value EXCEPT ![m] = @ + 1]
    /\ owner' = [owner EXCEPT ![m] = NoThread]
    /\ orig' = [orig EXCEPT ![m] = NoPrio]
    /\ waiting' = [waiting EXCEPT ![m] = Tail(@)]
    /\ mtxPc' = [mtxPc EXCEPT ![Head(waiting[m])] = "woken"]
    /\ outer' = [outer EXCEPT ![t] = IF @ = m THEN NoMutex ELSE @]
    /\ UNCHANGED <<err, want, timed>>

\* Mutant: original_priority stays that of the owner before.
ReleaseTo_Orig(t, m) ==
    /\ LastRelease(t, m)
    /\ waiting[m] # <<>>
    /\ LET new == Head(waiting[m])
       IN  /\ prio' = [prio EXCEPT ![t] = orig[m]]
           /\ owner' = [owner EXCEPT ![m] = new]
           /\ waiting' = [waiting EXCEPT ![m] = Tail(@)]
           /\ mtxPc' = [mtxPc EXCEPT ![new] = "woken"]
           /\ outer' = [outer EXCEPT ![t] = IF @ = m THEN NoMutex ELSE @,
                                     ![new] = IF @ = NoMutex THEN m ELSE @]
    /\ UNCHANGED <<value, hold, orig, err, want, timed>>

\* The first of the waiting threads gets the mutex, at its own priority.
ReleaseTo(t, m) ==
    /\ LastRelease(t, m)
    /\ waiting[m] # <<>>
    /\ LET new == Head(waiting[m])
       IN  /\ prio' = [prio EXCEPT ![t] = orig[m]]
           /\ owner' = [owner EXCEPT ![m] = new]
           /\ orig' = [orig EXCEPT ![m] = prio[new]]
           /\ waiting' = [waiting EXCEPT ![m] = Tail(@)]
           /\ mtxPc' = [mtxPc EXCEPT ![new] = "woken"]
           /\ outer' = [outer EXCEPT ![t] = IF @ = m THEN NoMutex ELSE @,
                                     ![new] = IF @ = NoMutex THEN m ELSE @]
    /\ UNCHANGED <<value, hold, err, want, timed>>

Release(t, m) == ReleaseInner(t, m) \/ ReleaseFree(t, m) \/ ReleaseTo(t, m)

MtxNext ==
    \E t \in Threads :
        \/ \E m \in Mutexes :
              \/ TakeAgain(t, m) \/ TakeFree(t, m) \/ TakeNot(t, m)
              \/ \E w \in BOOLEAN : TakeWait(t, m, w)
              \/ ReleaseNotOwned(t, m) \/ Release(t, m)
        \/ WaitTimeout(t) \/ WaitResumed(t) \/ TakeReturn(t)

MtxSpec == MtxInit /\ [][MtxNext]_mtxVars

\* A resumed thread runs.
MtxFair == \A t \in Threads : WF_mtxVars(TakeReturn(t))

-----------------------------------------------------------------------------
(* Properties.                                                               *)

\* The fields of a mutex agree with each other and with its waiting threads: it
\* is free exactly when it has no owner and is not held, nobody waits for a
\* free mutex, and its list holds each thread suspended in it once.
MtxCoherent ==
    \A m \in Mutexes :
        /\ owner[m] = NoThread <=> value[m] = 1
        /\ owner[m] = NoThread <=> hold[m] = 0
        /\ owner[m] = NoThread => waiting[m] = <<>>
        /\ \A i, j \in 1..Len(waiting[m]) :
              waiting[m][i] = waiting[m][j] => i = j
        /\ \A t \in Threads :
              (\E i \in 1..Len(waiting[m]) : waiting[m][i] = t)
                <=> (mtxPc[t] = "wait" /\ want[t] = m)

\* rt_mutex_take returns RT_EOK to a thread that has become the owner, and an
\* error to one that has not, unless a wake-up of a queue can end its wait: a
\* timeout and a release that hands the mutex over cannot both happen to a
\* waiting thread.
MtxOutcome ==
    \A t \in Threads :
        mtxPc[t] = "woken" =>
            /\ owner[want[t]] = t => err[t] = "EOK"
            /\ err[t] = "EOK" => owner[want[t]] = t \/ InQueues(t)

OwnsNone(t) == \A m \in Mutexes : owner[m] # t

\* A thread is never less urgent than it was created, and one that owns no
\* mutex has its own priority again, whatever it inherited and whoever timed
\* out meanwhile (with the nesting of LastRelease).
PrioRestored ==
    \A t \in Threads :
        /\ prio[t] <= Base[t]
        /\ OwnsNone(t) => prio[t] = Base[t]

\* No deadlock: among any threads suspended in rt_mutex_take there is one whose
\* mutex is owned by a thread that is not among them, though a mutex changes
\* hands while others wait for it and a thread may time out with mutexes held.
MtxNoDeadlock ==
    \A S \in SUBSET {t \in Threads : mtxPc[t] = "wait"} :
        S # {} => \E t \in S : owner[want[t]] \in Threads \ S

\* Waiting for a mutex ends, even for ever and for one that is wanted all the
\* time, if no thread that is not waiting itself keeps its mutexes for ever:
\* the list is served in order and nested takes do not block each other.
MtxGranted ==
    (\A t \in Threads : []<>OwnsNone(t) \/ <>[](mtxPc[t] = "wait"))
        => \A t \in Threads : mtxPc[t] = "wait" ~> mtxPc[t] # "wait"
=============================================================================
