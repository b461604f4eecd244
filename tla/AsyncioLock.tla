---------------------------- MODULE AsyncioLock ----------------------------
(***************************************************************************)
(* asyncio.Lock, as the workers of app/runtime use it (external: Python's  *)
(* standard library).  acquire() takes a free lock at once unless somebody *)
(* is in the queue; otherwise it waits on a future of its own.  release()  *)
(* sets the future of the first in the queue and leaves the lock free: the *)
(* woken task takes it when the event loop gets to it.                     *)
(*                                                                         *)
(* A future is pending, set, or cancelled with the task that waits on it.  *)
(* It is "doomed" when its task was cancelled after it had been set.       *)
(***************************************************************************)
EXTENDS Naturals, Sequences, SequencesExt

CONSTANT Tasks

VARIABLES lock,    \* _locked: free or held
          waitq,   \* _waiters
          fut      \* the future each task waits on

lockVars == <<lock, waitq, fut>>

LockInit == /\ lock = "free"
            /\ waitq = <<>>
            /\ fut = [t \in Tasks |-> "none"]

\* _wake_up_first, of the queue q with the futures f.
WakeFirst(q, f) == [t \in Tasks |-> IF q # <<>> /\ t = Head(q) /\ f[t] = "pending"
                                    THEN "set" ELSE f[t]]

\* acquire returns without waiting.
Free == /\ lock = "free"
        /\ \A i \in 1 .. Len(waitq) : fut[waitq[i]] = "cancelled"

TakeLock == /\ Free
            /\ lock' = "held"
            /\ UNCHANGED <<waitq, fut>>

Queue(t) == /\ ~Free
            /\ waitq' = Append(waitq, t)
            /\ fut' = [fut EXCEPT ![t] = "pending"]
            /\ UNCHANGED lock

LeaveQueue(t) == \E i \in 1 .. Len(waitq) :
                    waitq[i] = t /\ waitq' = RemoveAt(waitq, i)

\* A woken task takes the lock,
Awake(t) == /\ fut[t] = "set"
            /\ LeaveQueue(t)
            /\ fut' = [fut EXCEPT ![t] = "none"]
            /\ lock' = "held"

\* or takes it and releases it before its next await,
AwakeAndRelease(t) == /\ fut[t] = "set"
                      /\ LeaveQueue(t)
                      /\ fut' = WakeFirst(waitq', [fut EXCEPT ![t] = "none"])
                      /\ UNCHANGED lock

\* or finds itself cancelled and passes the lock on.
Abandon(t) == /\ fut[t] \in {"cancelled", "doomed"}
              /\ LeaveQueue(t)
              /\ fut' = IF lock = "free" THEN WakeFirst(waitq', [fut EXCEPT ![t] = "none"])
                        ELSE [fut EXCEPT ![t] = "none"]
              /\ UNCHANGED lock

CancelWait(t) == /\ fut[t] \in {"pending", "set"}
                 /\ fut' = [fut EXCEPT ![t] = IF @ = "set" THEN "doomed" ELSE "cancelled"]
                 /\ UNCHANGED <<lock, waitq>>

Release == /\ lock = "held"
           /\ lock' = "free"
           /\ fut' = WakeFirst(waitq, fut)
           /\ UNCHANGED waitq

LockTypeOK == /\ lock \in {"free", "held"}
              /\ waitq \in Seq(Tasks)
              /\ fut \in [Tasks -> {"none", "pending", "set", "doomed", "cancelled"}]

\* The queue holds each waiting task once; a set future belongs to its head
\* and says that the lock is free.
QueueInv ==
    /\ \A i, j \in 1 .. Len(waitq) : waitq[i] = waitq[j] => i = j
    /\ \A i \in 1 .. Len(waitq) : fut[waitq[i]] # "none"
    /\ \A t \in Tasks : fut[t] # "none" => \E i \in 1 .. Len(waitq) : waitq[i] = t
    /\ \A t \in Tasks : fut[t] \in {"set", "doomed"} => lock = "free" /\ waitq[1] = t
=============================================================================
