-------------------------- MODULE AsyncioLockProofs --------------------------
(***************************************************************************)
(* What every operation of asyncio.Lock preserves, for any set of tasks:   *)
(* the queue's invariant, and who is in the queue.                         *)
(***************************************************************************)
EXTENDS AsyncioLock, SequenceTheorems, TLAPS

\* What deque.remove leaves: the elements before the k-th and those after it.
LEMMA RemoveOne ==
  ASSUME NEW S, NEW q \in Seq(S), NEW k \in 1 .. Len(q)
  PROVE /\ RemoveAt(q, k) \in Seq(S)
        /\ Len(RemoveAt(q, k)) = Len(q) - 1
        /\ \A i \in 1 .. Len(q) - 1 :
              RemoveAt(q, k)[i] = IF i < k THEN q[i] ELSE q[i + 1]
<1> DEFINE a == SubSeq(q, 1, k - 1)
           b == SubSeq(q, k + 1, Len(q))
<1>1. /\ a \in Seq(S) /\ Len(a) = k - 1
      /\ \A i \in 1 .. k - 1 : a[i] = q[i]
  BY SubSeqProperties
<1>2. /\ b \in Seq(S) /\ Len(b) = Len(q) - k
      /\ \A i \in 1 .. Len(q) - k : b[i] = q[k + i]
  BY SubSeqProperties
<1>3. RemoveAt(q, k) = a \o b
  BY DEF RemoveAt
<1> HIDE DEF a, b
<1>4. /\ a \o b \in Seq(S) /\ Len(a \o b) = Len(a) + Len(b)
      /\ \A i \in 1 .. Len(a) + Len(b) :
            (a \o b)[i] = IF i <= Len(a) THEN a[i] ELSE b[i - Len(a)]
  BY <1>1, <1>2, ConcatProperties
<1>5. Len(a) + Len(b) = Len(q) - 1
  BY <1>1, <1>2
<1>6. ASSUME NEW i \in 1 .. Len(q) - 1
      PROVE RemoveAt(q, k)[i] = IF i < k THEN q[i] ELSE q[i + 1]
  <2>1. RemoveAt(q, k)[i] = IF i <= Len(a) THEN a[i] ELSE b[i - Len(a)]
    BY <1>3, <1>4, <1>5
  <2>2. CASE i < k
    BY <2>1, <2>2, <1>1
  <2>3. CASE ~(i < k)
    <3>1. i - Len(a) \in 1 .. Len(q) - k /\ ~(i <= Len(a)) /\ k + (i - Len(a)) = i + 1
      BY <2>3, <1>1
    <3>2. b[i - Len(a)] = q[k + (i - Len(a))]
      BY <3>1, <1>2
    <3>3. QED
      BY <2>1, <2>3, <3>1, <3>2
  <2>4. QED
    BY <2>2, <2>3
<1>7. QED
  BY <1>3, <1>4, <1>5, <1>6

\* Waking the first changes no future but a pending head, and makes it set.
LEMMA WakeFirstFact ==
  ASSUME NEW q \in Seq(Tasks), NEW f \in [Tasks -> {"none", "pending", "set", "doomed", "cancelled"}]
  PROVE /\ WakeFirst(q, f) \in [Tasks -> {"none", "pending", "set", "doomed", "cancelled"}]
        /\ \A t \in Tasks : WakeFirst(q, f)[t] = "none" <=> f[t] = "none"
        /\ \A t \in Tasks : WakeFirst(q, f)[t] \in {"set", "doomed"} =>
               f[t] = WakeFirst(q, f)[t] \/ (q # <<>> /\ q[1] = t)
<1>1. q # <<>> => Head(q) = q[1]
  OBVIOUS
<1>2. QED
  BY <1>1 DEF WakeFirst

\* Leaving the queue keeps the order of the others.
LEMMA LeaveQueueFact ==
  ASSUME waitq \in Seq(Tasks), NEW t \in Tasks, LeaveQueue(t),
         \A i, j \in 1 .. Len(waitq) : waitq[i] = waitq[j] => i = j
  PROVE /\ waitq' \in Seq(Tasks)
        /\ \A i, j \in 1 .. Len(waitq') : waitq'[i] = waitq'[j] => i = j
        /\ \A i \in 1 .. Len(waitq') :
              waitq'[i] # t /\ \E j \in 1 .. Len(waitq) : waitq[j] = waitq'[i]
        /\ \A u \in Tasks \ {t} : (\E i \in 1 .. Len(waitq) : waitq[i] = u)
                                => \E i \in 1 .. Len(waitq') : waitq'[i] = u
        /\ \A u \in Tasks \ {t} : Len(waitq) > 0 /\ waitq[1] = u => Len(waitq') > 0 /\ waitq'[1] = u
<1>1. PICK k \in 1 .. Len(waitq) : waitq[k] = t /\ waitq' = RemoveAt(waitq, k)
  BY DEF LeaveQueue
<1>2. /\ waitq' \in Seq(Tasks)
      /\ Len(waitq') = Len(waitq) - 1
      /\ \A i \in 1 .. Len(waitq) - 1 :
            waitq'[i] = IF i < k THEN waitq[i] ELSE waitq[i + 1]
  BY <1>1, RemoveOne
<1>3. Len(waitq) \in Nat
  OBVIOUS
<1>4. ASSUME NEW i \in 1 .. Len(waitq'), NEW j \in 1 .. Len(waitq'), waitq'[i] = waitq'[j]
      PROVE i = j
  <2> DEFINE m == IF i < k THEN i ELSE i + 1
             n == IF j < k THEN j ELSE j + 1
  <2>1. m \in 1 .. Len(waitq) /\ n \in 1 .. Len(waitq)
    BY <1>2, <1>3
  <2>2. waitq[m] = waitq'[i] /\ waitq[n] = waitq'[j]
    BY <1>2, <1>3
  <2>3. m = n
    BY <2>1, <2>2, <1>4
  <2>4. QED
    BY <2>3, <1>3
<1>5. \A i \in 1 .. Len(waitq') :
        waitq'[i] # t /\ \E j \in 1 .. Len(waitq) : waitq[j] = waitq'[i]
  <2> TAKE i \in 1 .. Len(waitq')
  <2>1. CASE i < k
    BY <1>1, <1>2, <1>3, <2>1
  <2>2. CASE ~(i < k)
    <3>1. i + 1 \in 1 .. Len(waitq) /\ i + 1 # k /\ waitq'[i] = waitq[i + 1]
      BY <1>1, <1>2, <1>3, <2>2
    <3>2. QED
      BY <1>1, <3>1
  <2>3. QED
    BY <2>1, <2>2
<1>6. ASSUME NEW u \in Tasks \ {t}, NEW j \in 1 .. Len(waitq), waitq[j] = u
      PROVE \E i \in 1 .. Len(waitq') : waitq'[i] = u
  <2>1. CASE j < k
    <3>1. j \in 1 .. Len(waitq') /\ waitq'[j] = u
      BY <1>1, <1>2, <1>3, <1>6, <2>1
    <3>2. QED
      BY <3>1
  <2>2. CASE ~(j < k)
    <3>1. j # k
      BY <1>1, <1>6
    <3>2. j - 1 \in 1 .. Len(waitq') /\ waitq'[j - 1] = u
      BY <1>1, <1>2, <1>3, <1>6, <2>2, <3>1
    <3>3. QED
      BY <3>2
  <2>3. QED
    BY <2>1, <2>2
<1>7. ASSUME NEW u \in Tasks \ {t}, Len(waitq) > 0, waitq[1] = u
      PROVE Len(waitq') > 0 /\ waitq'[1] = u
  <2>1. k # 1
    BY <1>1, <1>7
  <2>2. QED
    BY <1>1, <1>2, <1>3, <1>7, <2>1
<1>8. QED
  BY <1>2, <1>4, <1>5, <1>6, <1>7

\* The lock is taken at once only when no future is set.
LEMMA TakeLockKeeps ==
  ASSUME LockTypeOK, QueueInv, TakeLock
  PROVE LockTypeOK' /\ QueueInv'
<1>1. \A t \in Tasks : fut[t] \notin {"set", "doomed"}
  BY DEF QueueInv, TakeLock, Free
<1>2. QED
  BY <1>1 DEF LockTypeOK, QueueInv, TakeLock

\* A task joins the queue at its end.
LEMMA QueueKeeps ==
  ASSUME LockTypeOK, QueueInv, NEW t \in Tasks, fut[t] = "none", Queue(t)
  PROVE LockTypeOK' /\ QueueInv'
<1>1. /\ waitq' \in Seq(Tasks) /\ Len(waitq') = Len(waitq) + 1
      /\ waitq'[Len(waitq) + 1] = t
      /\ \A i \in 1 .. Len(waitq) : waitq'[i] = waitq[i]
  BY DEF LockTypeOK, Queue
<1>2. Len(waitq) \in Nat /\ \A i \in 1 .. Len(waitq) : waitq[i] # t /\ waitq[i] \in Tasks
  BY DEF LockTypeOK, QueueInv
<1>3. /\ fut' \in [Tasks -> {"none", "pending", "set", "doomed", "cancelled"}]
      /\ fut'[t] = "pending" /\ \A u \in Tasks \ {t} : fut'[u] = fut[u]
      /\ lock' = lock
  BY DEF LockTypeOK, Queue
<1>4. \A i, j \in 1 .. Len(waitq') : waitq'[i] = waitq'[j] => i = j
  <2> SUFFICES ASSUME NEW i \in 1 .. Len(waitq'), NEW j \in 1 .. Len(waitq'),
                      waitq'[i] = waitq'[j]
               PROVE i = j
    OBVIOUS
  <2>1. CASE i = Len(waitq) + 1
    BY <1>1, <1>2, <2>1
  <2>2. CASE j = Len(waitq) + 1
    BY <1>1, <1>2, <2>2
  <2>3. CASE i \in 1 .. Len(waitq) /\ j \in 1 .. Len(waitq)
    BY <1>1, <2>3 DEF QueueInv
  <2>4. QED
    BY <1>1, <1>2, <2>1, <2>2, <2>3
<1>5. \A i \in 1 .. Len(waitq') : fut'[waitq'[i]] # "none"
  <2> TAKE i \in 1 .. Len(waitq')
  <2>1. CASE i = Len(waitq) + 1
    BY <1>1, <1>3, <2>1
  <2>2. CASE i \in 1 .. Len(waitq)
    BY <1>1, <1>2, <1>3, <2>2 DEF QueueInv
  <2>3. QED
    BY <1>1, <1>2, <2>1, <2>2
<1>6. ASSUME NEW u \in Tasks, fut'[u] # "none"
      PROVE \E i \in 1 .. Len(waitq') : waitq'[i] = u
  <2>1. CASE u = t
    BY <1>1, <1>2, <2>1
  <2>2. CASE u # t
    <3>1. PICK i \in 1 .. Len(waitq) : waitq[i] = u
      BY <1>3, <1>6, <2>2 DEF QueueInv
    <3>2. i \in 1 .. Len(waitq') /\ waitq'[i] = u
      BY <1>1, <1>2, <3>1
    <3>3. QED
      BY <3>2
  <2>3. QED
    BY <2>1, <2>2
<1>7. ASSUME NEW u \in Tasks, fut'[u] \in {"set", "doomed"}
      PROVE lock' = "free" /\ waitq'[1] = u
  <2>1. u # t /\ fut[u] = fut'[u]
    BY <1>3, <1>7
  <2>2. lock = "free" /\ waitq[1] = u /\ \E i \in 1 .. Len(waitq) : waitq[i] = u
    BY <2>1, <1>7 DEF QueueInv
  <2>3. 1 \in 1 .. Len(waitq)
    BY <2>2, <1>2
  <2>4. QED
    BY <1>1, <1>3, <2>2, <2>3
<1>8. LockTypeOK'
  BY <1>1, <1>3 DEF LockTypeOK
<1>9. QED
  BY <1>4, <1>5, <1>6, <1>7, <1>8 DEF QueueInv

\* The futures without t's.
Without(t) == [fut EXCEPT ![t] = "none"]

\* What is left of the queue's invariant after t has left the queue, when the
\* futures of the others are as before.
LEMMA LeaveKeeps ==
  ASSUME LockTypeOK, QueueInv, NEW t \in Tasks, LeaveQueue(t)
  PROVE /\ waitq' \in Seq(Tasks)
        /\ Without(t) \in [Tasks -> {"none", "pending", "set", "doomed", "cancelled"}]
        /\ \A i, j \in 1 .. Len(waitq') : waitq'[i] = waitq'[j] => i = j
        /\ \A i \in 1 .. Len(waitq') : Without(t)[waitq'[i]] # "none"
        /\ \A u \in Tasks : Without(t)[u] # "none" => \E i \in 1 .. Len(waitq') : waitq'[i] = u
        /\ \A u \in Tasks : Without(t)[u] \in {"set", "doomed"} =>
               u # t /\ lock = "free" /\ Len(waitq') > 0 /\ waitq'[1] = u
<1>1. /\ waitq' \in Seq(Tasks)
      /\ \A i, j \in 1 .. Len(waitq') : waitq'[i] = waitq'[j] => i = j
      /\ \A i \in 1 .. Len(waitq') :
            waitq'[i] # t /\ \E j \in 1 .. Len(waitq) : waitq[j] = waitq'[i]
      /\ \A u \in Tasks \ {t} : (\E i \in 1 .. Len(waitq) : waitq[i] = u)
                              => \E i \in 1 .. Len(waitq') : waitq'[i] = u
      /\ \A u \in Tasks \ {t} : Len(waitq) > 0 /\ waitq[1] = u => Len(waitq') > 0 /\ waitq'[1] = u
  BY LeaveQueueFact DEF LockTypeOK, QueueInv
<1>2. /\ Without(t) \in [Tasks -> {"none", "pending", "set", "doomed", "cancelled"}]
      /\ Without(t)[t] = "none" /\ \A u \in Tasks \ {t} : Without(t)[u] = fut[u]
  BY DEF LockTypeOK, Without
<1>3. \A i \in 1 .. Len(waitq') : waitq'[i] \in Tasks \ {t} /\ Without(t)[waitq'[i]] # "none"
  <2> TAKE i \in 1 .. Len(waitq')
  <2>1. waitq'[i] \in Tasks /\ waitq'[i] # t
    BY <1>1
  <2>2. PICK j \in 1 .. Len(waitq) : waitq[j] = waitq'[i]
    BY <1>1
  <2>3. fut[waitq[j]] # "none"
    BY <2>2 DEF QueueInv
  <2>4. QED
    BY <1>2, <2>1, <2>2, <2>3
<1>4. \A u \in Tasks : Without(t)[u] # "none" => \E i \in 1 .. Len(waitq') : waitq'[i] = u
  BY <1>1, <1>2 DEF QueueInv
<1>5. ASSUME NEW u \in Tasks, Without(t)[u] \in {"set", "doomed"}
      PROVE u # t /\ lock = "free" /\ Len(waitq') > 0 /\ waitq'[1] = u
  <2>1. u # t /\ fut[u] = Without(t)[u]
    BY <1>2, <1>5
  <2>2. lock = "free" /\ waitq[1] = u /\ \E i \in 1 .. Len(waitq) : waitq[i] = u
    BY <2>1, <1>5 DEF QueueInv
  <2>3. Len(waitq) > 0
    BY <2>2 DEF LockTypeOK
  <2>4. QED
    BY <1>1, <2>1, <2>2, <2>3
<1>6. QED
  BY <1>1, <1>2, <1>3, <1>4, <1>5

\* The queue's invariant after the first has been woken while the lock is free.
LEMMA WakeKeeps ==
  ASSUME NEW q \in Seq(Tasks),
         NEW f \in [Tasks -> {"none", "pending", "set", "doomed", "cancelled"}],
         \A i \in 1 .. Len(q) : f[q[i]] # "none",
         \A u \in Tasks : f[u] # "none" => \E i \in 1 .. Len(q) : q[i] = u,
         \A u \in Tasks : f[u] \in {"set", "doomed"} => q[1] = u,
         NEW g, g = WakeFirst(q, f)
  PROVE /\ g \in [Tasks -> {"none", "pending", "set", "doomed", "cancelled"}]
        /\ \A u \in Tasks : g[u] = "none" <=> f[u] = "none"
        /\ \A i \in 1 .. Len(q) : g[q[i]] # "none"
        /\ \A u \in Tasks : g[u] # "none" => \E i \in 1 .. Len(q) : q[i] = u
        /\ \A u \in Tasks : g[u] \in {"set", "doomed"} => q[1] = u
<1>1. /\ g \in [Tasks -> {"none", "pending", "set", "doomed", "cancelled"}]
      /\ \A u \in Tasks : g[u] = "none" <=> f[u] = "none"
      /\ \A u \in Tasks : g[u] \in {"set", "doomed"} => f[u] = g[u] \/ q[1] = u
  BY WakeFirstFact
<1>2. \A i \in 1 .. Len(q) : q[i] \in Tasks
  OBVIOUS
<1>3. QED
  BY <1>1, <1>2

\* A woken task leaves the queue with the lock held.
LEMMA AwakeKeeps ==
  ASSUME LockTypeOK, QueueInv, NEW t \in Tasks, Awake(t)
  PROVE /\ LockTypeOK' /\ QueueInv'
        /\ fut'[t] = "none" /\ \A u \in Tasks \ {t} : fut'[u] = fut[u]
<1>1. LeaveQueue(t) /\ fut' = Without(t) /\ lock' = "held" /\ fut[t] = "set"
  BY DEF Awake, Without
<1>2. \A u \in Tasks : fut[u] \in {"set", "doomed"} => u = t
  BY <1>1 DEF QueueInv
<1>3. fut'[t] = "none" /\ \A u \in Tasks \ {t} : fut'[u] = fut[u]
  BY <1>1 DEF LockTypeOK, Without
<1>4. \A u \in Tasks : fut'[u] \notin {"set", "doomed"}
  BY <1>2, <1>3
<1>5. /\ waitq' \in Seq(Tasks)
      /\ fut' \in [Tasks -> {"none", "pending", "set", "doomed", "cancelled"}]
      /\ \A i, j \in 1 .. Len(waitq') : waitq'[i] = waitq'[j] => i = j
      /\ \A i \in 1 .. Len(waitq') : fut'[waitq'[i]] # "none"
      /\ \A u \in Tasks : fut'[u] # "none" => \E i \in 1 .. Len(waitq') : waitq'[i] = u
  BY <1>1, LeaveKeeps
<1>6. QED
  BY <1>1, <1>3, <1>4, <1>5 DEF LockTypeOK, QueueInv

\* A woken task that lets go at once wakes the next.
LEMMA AwakeAndReleaseKeeps ==
  ASSUME LockTypeOK, QueueInv, NEW t \in Tasks, AwakeAndRelease(t)
  PROVE /\ LockTypeOK' /\ QueueInv'
        /\ fut'[t] = "none" /\ \A u \in Tasks \ {t} : fut'[u] = "none" <=> fut[u] = "none"
<1>1. LeaveQueue(t) /\ fut' = WakeFirst(waitq', Without(t)) /\ lock' = "free"
  BY DEF AwakeAndRelease, QueueInv, Without
<1>2. Without(t)[t] = "none" /\ \A u \in Tasks \ {t} : Without(t)[u] = fut[u]
  BY DEF LockTypeOK, Without
<1>3. /\ waitq' \in Seq(Tasks)
      /\ Without(t) \in [Tasks -> {"none", "pending", "set", "doomed", "cancelled"}]
      /\ \A i, j \in 1 .. Len(waitq') : waitq'[i] = waitq'[j] => i = j
      /\ \A i \in 1 .. Len(waitq') : Without(t)[waitq'[i]] # "none"
      /\ \A u \in Tasks : Without(t)[u] # "none" => \E i \in 1 .. Len(waitq') : waitq'[i] = u
      /\ \A u \in Tasks : Without(t)[u] \in {"set", "doomed"} => waitq'[1] = u
  BY <1>1, LeaveKeeps
<1>4. /\ fut' \in [Tasks -> {"none", "pending", "set", "doomed", "cancelled"}]
      /\ \A u \in Tasks : fut'[u] = "none" <=> Without(t)[u] = "none"
      /\ \A i \in 1 .. Len(waitq') : fut'[waitq'[i]] # "none"
      /\ \A u \in Tasks : fut'[u] # "none" => \E i \in 1 .. Len(waitq') : waitq'[i] = u
      /\ \A u \in Tasks : fut'[u] \in {"set", "doomed"} => waitq'[1] = u
  BY <1>1, <1>3, WakeKeeps
<1>5. QED
  BY <1>1, <1>2, <1>3, <1>4 DEF LockTypeOK, QueueInv

\* A cancelled task leaves the queue and, if the lock is free, wakes the next.
LEMMA AbandonKeeps ==
  ASSUME LockTypeOK, QueueInv, NEW t \in Tasks, Abandon(t)
  PROVE /\ LockTypeOK' /\ QueueInv'
        /\ fut'[t] = "none" /\ \A u \in Tasks \ {t} : fut'[u] = "none" <=> fut[u] = "none"
<1>1. /\ LeaveQueue(t) /\ lock' = lock
      /\ lock = "free" => fut' = WakeFirst(waitq', Without(t))
      /\ lock # "free" => fut' = Without(t)
  BY DEF Abandon, Without
<1>2. Without(t)[t] = "none" /\ \A u \in Tasks \ {t} : Without(t)[u] = fut[u]
  BY DEF LockTypeOK, Without
<1>3. /\ waitq' \in Seq(Tasks)
      /\ Without(t) \in [Tasks -> {"none", "pending", "set", "doomed", "cancelled"}]
      /\ \A i, j \in 1 .. Len(waitq') : waitq'[i] = waitq'[j] => i = j
      /\ \A i \in 1 .. Len(waitq') : Without(t)[waitq'[i]] # "none"
      /\ \A u \in Tasks : Without(t)[u] # "none" => \E i \in 1 .. Len(waitq') : waitq'[i] = u
      /\ \A u \in Tasks : Without(t)[u] \in {"set", "doomed"} => lock = "free" /\ waitq'[1] = u
  BY <1>1, LeaveKeeps
<1>4. CASE lock = "free"
  <2>1. /\ fut' \in [Tasks -> {"none", "pending", "set", "doomed", "cancelled"}]
        /\ \A u \in Tasks : fut'[u] = "none" <=> Without(t)[u] = "none"
        /\ \A i \in 1 .. Len(waitq') : fut'[waitq'[i]] # "none"
        /\ \A u \in Tasks : fut'[u] # "none" => \E i \in 1 .. Len(waitq') : waitq'[i] = u
        /\ \A u \in Tasks : fut'[u] \in {"set", "doomed"} => waitq'[1] = u
    BY <1>1, <1>3, <1>4, WakeKeeps
  <2>2. QED
    BY <1>1, <1>2, <1>3, <1>4, <2>1 DEF LockTypeOK, QueueInv
<1>5. CASE lock # "free"
  BY <1>1, <1>2, <1>3, <1>5 DEF LockTypeOK, QueueInv
<1>6. QED
  BY <1>4, <1>5

\* Cancelling a wait moves nobody in the queue.
LEMMA CancelWaitKeeps ==
  ASSUME LockTypeOK, QueueInv, NEW t \in Tasks, CancelWait(t)
  PROVE /\ LockTypeOK' /\ QueueInv'
        /\ \A u \in Tasks : fut'[u] = "none" <=> fut[u] = "none"
<1>1. /\ lock' = lock /\ waitq' = waitq
      /\ fut' \in [Tasks -> {"none", "pending", "set", "doomed", "cancelled"}]
      /\ \A u \in Tasks : fut'[u] = "none" <=> fut[u] = "none"
      /\ \A u \in Tasks : fut'[u] \in {"set", "doomed"} => fut[u] \in {"set", "doomed"}
  BY DEF LockTypeOK, CancelWait
<1>2. \A i \in 1 .. Len(waitq) : waitq[i] \in Tasks
  BY DEF LockTypeOK
<1>3. QED
  BY <1>1, <1>2 DEF LockTypeOK, QueueInv

\* A release wakes the head of the queue.
LEMMA ReleaseKeeps ==
  ASSUME LockTypeOK, QueueInv, Release
  PROVE /\ LockTypeOK' /\ QueueInv'
        /\ \A u \in Tasks : fut'[u] = "none" <=> fut[u] = "none"
<1>1. lock = "held" /\ lock' = "free" /\ waitq' = waitq /\ fut' = WakeFirst(waitq, fut)
  BY DEF Release
<1>2. \A u \in Tasks : fut[u] \in {"set", "doomed"} => waitq[1] = u
  BY DEF QueueInv
<1>3. /\ fut' \in [Tasks -> {"none", "pending", "set", "doomed", "cancelled"}]
      /\ \A u \in Tasks : fut'[u] = "none" <=> fut[u] = "none"
      /\ \A i \in 1 .. Len(waitq) : fut'[waitq[i]] # "none"
      /\ \A u \in Tasks : fut'[u] # "none" => \E i \in 1 .. Len(waitq) : waitq[i] = u
      /\ \A u \in Tasks : fut'[u] \in {"set", "doomed"} => waitq[1] = u
  BY <1>1, <1>2, WakeKeeps DEF LockTypeOK, QueueInv
<1>4. QED
  BY <1>1, <1>3 DEF LockTypeOK, QueueInv
=============================================================================
