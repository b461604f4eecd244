------------------------ MODULE LifecycleWorkerProofs ------------------------
(***************************************************************************)
(* The safety of LifecycleWorker for any number of callers.                *)
(*                                                                         *)
(* WorkerInv is inductive together with TypeOK.  The lock's part of every  *)
(* step is AsyncioLockProofs'; what is left is who owns the lock, and that *)
(* the job in the queue or on the thread is the owner's.                   *)
(***************************************************************************)
EXTENDS LifecycleWorker, AsyncioLockProofs

USE WorkerAssumption DEF NoJob

\* While the lock is free there is no work anywhere.
LEMMA FreeIsIdle ==
  ASSUME TypeOK, WorkerInv, lock = "free"
  PROVE /\ \A t \in Tasks : pc[t] \notin {"admitted", "joining"}
        /\ receipts = {} /\ slot = NoJob /\ thread # "working"
<1>1. Owners = {}
  BY DEF WorkerInv, AdmissionCoversWork
<1>2. \A t \in Tasks : pc[t] \notin {"admitted", "joining"}
  BY <1>1 DEF Owners
<1>3. slot = NoJob /\ thread # "working"
  BY <1>1 DEF WorkerInv, AdmissionCoversWork
<1>4. receipts = {}
  BY <1>2 DEF WorkerInv, ReceiptInv, TypeOK, Callers
<1>5. QED
  BY <1>2, <1>3, <1>4

\* A task that has just taken the lock hands its job, or the sentinel, to an
\* idle thread.
LEMMA HandOver ==
  ASSUME TypeOK, WorkerInv, NEW t \in Tasks, NEW label,
         label = IF t = Shutdown THEN "joining" ELSE "admitted",
         t = Shutdown <=> closed = "closed",
         lock = "free", lock' = "held", LockTypeOK', QueueInv',
         fut'[t] = "none", \A u \in Tasks \ {t} : fut'[u] = fut[u],
         t = Shutdown => pc[t] \in {"start", "queued"},
         Put(t), GoTo(t, label), counted' = counted \ {t},
         UNCHANGED <<cancelled, receipts, closed, closer>>
  PROVE TypeOK' /\ WorkerInv'
<1>1. /\ \A u \in Tasks : pc[u] \notin {"admitted", "joining"}
      /\ receipts = {} /\ slot = NoJob /\ thread # "working"
  BY FreeIsIdle
<1>2. slot' = t /\ thread' = thread /\ job' = job
  BY DEF Put
<1>3. /\ pc' \in [Tasks -> {"out", "queued", "admitted", "start", "joining", "done"}]
      /\ pc'[t] = label /\ \A u \in Tasks \ {t} : pc'[u] = pc[u]
  BY DEF GoTo, TypeOK
<1>4. thread = "waiting"
  BY <1>1 DEF TypeOK, WorkerInv, ShutdownInv
<1>5. TypeOK'
  BY <1>2, <1>3 DEF TypeOK, Callers
<1>6. PlaceInv'
  BY <1>3 DEF WorkerInv, PlaceInv, Callers
<1>7. ReceiptInv' /\ JoinedBeforeReturn'
  BY <1>1, <1>2 DEF WorkerInv, ReceiptInv, JoinedBeforeReturn
<1>8. ShutdownInv'
  BY <1>2, <1>3, <1>4 DEF WorkerInv, ShutdownInv
<1>9. NothingBehindSentinel'
  BY <1>1, <1>2, <1>3, <1>4 DEF NothingBehindSentinel, Callers
<1>10. PlaceIsGivenBack'
  BY <1>3 DEF TypeOK, WorkerInv, PlaceIsGivenBack, Callers
<1>11. AdmissionCoversWork'
  <2>1. Owners' = {t}
    BY <1>1, <1>3 DEF Owners
  <2>2. QED
    BY <1>2, <1>4, <2>1 DEF AdmissionCoversWork
<1>12. QED
  BY <1>5, <1>6, <1>7, <1>8, <1>9, <1>10, <1>11 DEF WorkerInv

\* A caller is admitted at once.
LEMMA CallNowKeeps ==
  ASSUME TypeOK, WorkerInv, NEW c \in Callers, CallNow(c)
  PROVE TypeOK' /\ WorkerInv'
<1>1. LockTypeOK' /\ QueueInv' /\ lock = "free" /\ lock' = "held" /\ fut' = fut
  BY TakeLockKeeps DEF CallNow, TypeOK, WorkerInv, TakeLock, Free
<1>2. pc[c] = "out" /\ fut[c] = "none" /\ counted = counted \ {c}
  BY DEF CallNow, WorkerInv, PlaceInv, PlaceIsGivenBack, Callers
<1>3. /\ closed = "open" /\ Put(c) /\ GoTo(c, "admitted")
      /\ UNCHANGED <<counted, cancelled, receipts, closed, closer>>
  BY DEF CallNow, closeVars
<1>4. QED
  BY <1>1, <1>2, <1>3, HandOver DEF Callers

\* A caller is admitted after a wait.
LEMMA AdmittedKeeps ==
  ASSUME TypeOK, WorkerInv, NEW c \in Callers, Admitted(c)
  PROVE TypeOK' /\ WorkerInv'
<1>1. /\ LockTypeOK' /\ QueueInv'
      /\ fut'[c] = "none" /\ \A u \in Tasks \ {c} : fut'[u] = fut[u]
  BY AwakeKeeps DEF Admitted, TypeOK, WorkerInv, Callers
<1>2. lock = "free" /\ lock' = "held"
  BY DEF Admitted, Awake, WorkerInv, QueueInv, Callers
<1>3. /\ closed = "open" /\ Put(c) /\ GoTo(c, "admitted") /\ counted' = counted \ {c}
      /\ UNCHANGED <<cancelled, receipts, closed, closer>>
  BY DEF Admitted, closeVars
<1>4. QED
  BY <1>1, <1>2, <1>3, HandOver DEF Callers

\* The shutdown task takes the lock after a wait.
LEMMA ShutdownAdmittedKeeps ==
  ASSUME TypeOK, WorkerInv, ShutdownAdmitted
  PROVE TypeOK' /\ WorkerInv'
<1>1. /\ LockTypeOK' /\ QueueInv'
      /\ fut'[Shutdown] = "none" /\ \A u \in Tasks \ {Shutdown} : fut'[u] = fut[u]
  BY AwakeKeeps DEF ShutdownAdmitted, TypeOK, WorkerInv
<1>2. lock = "free" /\ lock' = "held"
  BY DEF ShutdownAdmitted, Awake, WorkerInv, QueueInv
<1>3. /\ closed = "closed" /\ Put(Shutdown) /\ GoTo(Shutdown, "joining")
      /\ pc[Shutdown] = "queued"
      /\ counted' = counted \ {Shutdown}
      /\ UNCHANGED <<cancelled, receipts, closed, closer>>
  BY DEF ShutdownAdmitted, closeVars, WorkerInv, ShutdownInv, TypeOK, Callers
<1>4. QED
  BY <1>1, <1>2, <1>3, HandOver

\* A task joins the queue of the lock.
LEMMA JoinQueue ==
  ASSUME TypeOK, WorkerInv, NEW t \in Tasks, pc[t] \in {"out", "start"},
         t = Shutdown => pc[t] = "start", Queue(t), GoTo(t, "queued"),
         counted' \in {counted, counted \cup {t}}, counted' \subseteq Callers,
         UNCHANGED <<cancelled, receipts, closed, closer, slot, thread, job>>
  PROVE TypeOK' /\ WorkerInv'
<1>1. fut[t] = "none"
  BY DEF WorkerInv, PlaceInv
<1>2. /\ LockTypeOK' /\ QueueInv'
  BY <1>1, QueueKeeps DEF TypeOK, WorkerInv
<1>3. fut'[t] = "pending" /\ (\A u \in Tasks \ {t} : fut'[u] = fut[u]) /\ lock' = lock
  BY DEF Queue, TypeOK, LockTypeOK
<1>4. /\ pc' \in [Tasks -> {"out", "queued", "admitted", "start", "joining", "done"}]
      /\ pc'[t] = "queued" /\ \A u \in Tasks \ {t} : pc'[u] = pc[u]
  BY DEF GoTo, TypeOK
<1>5. TypeOK'
  BY <1>2, <1>4 DEF TypeOK, Callers
<1>6. PlaceInv'
  BY <1>3, <1>4 DEF WorkerInv, PlaceInv, Callers
<1>7. ReceiptInv' /\ JoinedBeforeReturn'
  BY <1>4 DEF TypeOK, WorkerInv, ReceiptInv, JoinedBeforeReturn, Callers
<1>8. ShutdownInv'
  BY <1>4 DEF WorkerInv, ShutdownInv
<1>9. NothingBehindSentinel' /\ PlaceIsGivenBack'
  BY <1>4 DEF WorkerInv, TypeOK, NothingBehindSentinel, PlaceIsGivenBack, Callers
<1>10. AdmissionCoversWork'
  <2>1. Owners' = Owners
    BY <1>4 DEF Owners
  <2>2. QED
    BY <1>3, <2>1 DEF WorkerInv, AdmissionCoversWork
<1>11. QED
  BY <1>2, <1>5, <1>6, <1>7, <1>8, <1>9, <1>10 DEF WorkerInv

\* A caller has to wait.
LEMMA CallWaitsKeeps ==
  ASSUME TypeOK, WorkerInv, NEW c \in Callers, CallWaits(c)
  PROVE TypeOK' /\ WorkerInv'
<1>1. /\ pc[c] = "out" /\ Queue(c) /\ GoTo(c, "queued")
      /\ counted' \in {counted, counted \cup {c}}
      /\ UNCHANGED <<cancelled, receipts, closed, closer, slot, thread, job>>
  BY DEF CallWaits, closeVars, threadVars
<1>2. counted' \subseteq Callers
  BY <1>1 DEF TypeOK
<1>3. QED
  BY <1>1, <1>2, JoinQueue DEF Callers

\* The shutdown task takes the lock at once or has to wait for it.
LEMMA ShutdownStartsKeeps ==
  ASSUME TypeOK, WorkerInv, ShutdownStarts
  PROVE TypeOK' /\ WorkerInv'
<1>1. /\ pc[Shutdown] = "start" /\ closed = "closed" /\ fut[Shutdown] = "none"
      /\ counted' = counted /\ counted = counted \ {Shutdown} /\ counted' \subseteq Callers
      /\ UNCHANGED <<cancelled, receipts, closed, closer>>
  BY DEF ShutdownStarts, closeVars, WorkerInv, ShutdownInv, PlaceInv, TypeOK, Callers
<1>2. CASE TakeLock /\ Put(Shutdown) /\ GoTo(Shutdown, "joining")
  <2>1. LockTypeOK' /\ QueueInv' /\ lock = "free" /\ lock' = "held" /\ fut' = fut
    BY <1>2, TakeLockKeeps DEF TypeOK, WorkerInv, TakeLock, Free
  <2>2. QED
    BY <1>1, <1>2, <2>1, HandOver
<1>3. CASE Queue(Shutdown) /\ GoTo(Shutdown, "queued") /\ UNCHANGED threadVars
  BY <1>1, <1>3, JoinQueue DEF threadVars
<1>4. QED
  BY <1>2, <1>3 DEF ShutdownStarts

\* A waiting caller leaves the queue of the lock without having been admitted.
LEMMA LeaveWait ==
  ASSUME TypeOK, WorkerInv, NEW c \in Callers, pc[c] = "queued",
         LockTypeOK', QueueInv', lock' = lock,
         fut'[c] = "none", \A u \in Tasks \ {c} : fut'[u] = "none" <=> fut[u] = "none",
         GoTo(c, "out"), counted' = counted \ {c},
         UNCHANGED <<cancelled, receipts, closed, closer, slot, thread, job>>
  PROVE TypeOK' /\ WorkerInv'
<1>1. /\ pc' \in [Tasks -> {"out", "queued", "admitted", "start", "joining", "done"}]
      /\ pc'[c] = "out" /\ \A u \in Tasks \ {c} : pc'[u] = pc[u]
  BY DEF GoTo, TypeOK, Callers
<1>2. TypeOK'
  BY <1>1 DEF TypeOK, Callers
<1>3. PlaceInv'
  BY <1>1 DEF WorkerInv, PlaceInv, Callers
<1>4. ReceiptInv' /\ JoinedBeforeReturn'
  BY <1>1 DEF TypeOK, WorkerInv, ReceiptInv, JoinedBeforeReturn, Callers
<1>5. ShutdownInv'
  BY <1>1 DEF WorkerInv, ShutdownInv, Callers
<1>6. NothingBehindSentinel' /\ PlaceIsGivenBack'
  BY <1>1 DEF WorkerInv, TypeOK, NothingBehindSentinel, PlaceIsGivenBack, Callers
<1>7. AdmissionCoversWork'
  <2>1. Owners' = Owners
    BY <1>1 DEF Owners, Callers
  <2>2. QED
    BY <2>1 DEF WorkerInv, AdmissionCoversWork
<1>8. QED
  BY <1>2, <1>3, <1>4, <1>5, <1>6, <1>7 DEF WorkerInv

\* A caller is admitted after aclose and passes the lock on.
LEMMA AdmittedTooLateKeeps ==
  ASSUME TypeOK, WorkerInv, NEW c \in Callers, AdmittedTooLate(c)
  PROVE TypeOK' /\ WorkerInv'
<1>1. /\ LockTypeOK' /\ QueueInv'
      /\ fut'[c] = "none" /\ \A u \in Tasks \ {c} : fut'[u] = "none" <=> fut[u] = "none"
  BY AwakeAndReleaseKeeps DEF AdmittedTooLate, TypeOK, WorkerInv, Callers
<1>2. /\ pc[c] = "queued" /\ lock' = lock /\ GoTo(c, "out") /\ counted' = counted \ {c}
      /\ UNCHANGED <<cancelled, receipts, closed, closer, slot, thread, job>>
  BY DEF AdmittedTooLate, AwakeAndRelease, closeVars, threadVars
<1>3. QED
  BY <1>1, <1>2, LeaveWait

\* A caller is cancelled while it waits.
LEMMA CancelledWaitingKeeps ==
  ASSUME TypeOK, WorkerInv, NEW c \in Callers, CancelledWaiting(c)
  PROVE TypeOK' /\ WorkerInv'
<1>1. /\ LockTypeOK' /\ QueueInv'
      /\ fut'[c] = "none" /\ \A u \in Tasks \ {c} : fut'[u] = "none" <=> fut[u] = "none"
  BY AbandonKeeps DEF CancelledWaiting, TypeOK, WorkerInv, Callers
<1>2. /\ pc[c] = "queued" /\ lock' = lock /\ GoTo(c, "out") /\ counted' = counted \ {c}
      /\ UNCHANGED <<cancelled, receipts, closed, closer, slot, thread, job>>
  BY DEF CancelledWaiting, Abandon, closeVars, threadVars
<1>3. QED
  BY <1>1, <1>2, LeaveWait

\* A cancellation moves nobody.
LEMMA CancelKeeps ==
  ASSUME TypeOK, WorkerInv, NEW c \in Callers, Cancel(c)
  PROVE TypeOK' /\ WorkerInv'
<1>1. CASE /\ pc[c] = "queued" /\ CancelWait(c)
           /\ UNCHANGED <<callVars, closeVars, threadVars>>
  <2>1. /\ LockTypeOK' /\ QueueInv' /\ lock' = lock
        /\ \A u \in Tasks : fut'[u] = "none" <=> fut[u] = "none"
    BY <1>1, CancelWaitKeeps DEF TypeOK, WorkerInv, CancelWait, Callers
  <2>2. UNCHANGED <<pc, counted, cancelled, receipts, closed, closer, slot, thread, job>>
    BY <1>1 DEF callVars, closeVars, threadVars
  <2>3. TypeOK'
    BY <2>1, <2>2 DEF TypeOK
  <2>4. PlaceInv' /\ ReceiptInv' /\ ShutdownInv'
    BY <2>1, <2>2 DEF WorkerInv, PlaceInv, ReceiptInv, ShutdownInv
  <2>5. AdmissionCoversWork'
    BY <2>1, <2>2 DEF WorkerInv, AdmissionCoversWork, Owners
  <2>6. NothingBehindSentinel' /\ PlaceIsGivenBack' /\ JoinedBeforeReturn'
    BY <2>2 DEF WorkerInv, NothingBehindSentinel, PlaceIsGivenBack, JoinedBeforeReturn
  <2>7. QED
    BY <2>1, <2>3, <2>4, <2>5, <2>6 DEF WorkerInv
<1>2. CASE /\ cancelled' = cancelled \cup {c}
           /\ UNCHANGED <<lockVars, pc, counted, receipts, closeVars, threadVars>>
  <2>1. /\ cancelled' \subseteq Callers
        /\ UNCHANGED <<lock, waitq, fut, pc, counted, receipts, closed, closer, slot, thread, job>>
    BY <1>2 DEF TypeOK, lockVars, closeVars, threadVars
  <2>2. TypeOK'
    BY <2>1 DEF TypeOK, LockTypeOK
  <2>3. QueueInv' /\ PlaceInv' /\ ReceiptInv' /\ ShutdownInv'
    BY <2>1 DEF WorkerInv, QueueInv, PlaceInv, ReceiptInv, ShutdownInv
  <2>4. AdmissionCoversWork'
    BY <2>1 DEF WorkerInv, AdmissionCoversWork, Owners
  <2>5. NothingBehindSentinel' /\ PlaceIsGivenBack' /\ JoinedBeforeReturn'
    BY <2>1 DEF WorkerInv, NothingBehindSentinel, PlaceIsGivenBack, JoinedBeforeReturn
  <2>6. QED
    BY <2>2, <2>3, <2>4, <2>5 DEF WorkerInv
<1>3. QED
  BY <1>1, <1>2 DEF Cancel

\* The owner t gives the lock back, its work done.
LEMMA GiveBack ==
  ASSUME TypeOK, WorkerInv, NEW t \in Owners, NEW label \in {"out", "done"},
         label = "out" <=> t # Shutdown, t = Shutdown => thread = "exited",
         slot = NoJob, thread # "working", \A c \in receipts' : c # t,
         receipts' \subseteq receipts, cancelled' \subseteq cancelled,
         Release, GoTo(t, label),
         UNCHANGED <<counted, closed, closer, slot, thread, job>>
  PROVE TypeOK' /\ WorkerInv'
<1>1. /\ LockTypeOK' /\ QueueInv' /\ lock' = "free"
      /\ \A u \in Tasks : fut'[u] = "none" <=> fut[u] = "none"
  BY ReleaseKeeps DEF TypeOK, WorkerInv, Release
<1>2. t \in Tasks /\ pc[t] \in {"admitted", "joining"}
  BY DEF Owners
<1>3. /\ pc' \in [Tasks -> {"out", "queued", "admitted", "start", "joining", "done"}]
      /\ pc'[t] = label /\ \A u \in Tasks \ {t} : pc'[u] = pc[u]
  BY <1>2 DEF GoTo, TypeOK
<1>4. \A u \in Tasks \ {t} : pc[u] \notin {"admitted", "joining"}
  BY <1>2 DEF WorkerInv, AdmissionCoversWork, Owners
<1>5. TypeOK'
  BY <1>1, <1>3 DEF TypeOK
<1>6. PlaceInv'
  BY <1>1, <1>2, <1>3 DEF WorkerInv, PlaceInv, Callers
<1>7. ReceiptInv' /\ JoinedBeforeReturn'
  BY <1>3 DEF TypeOK, WorkerInv, ReceiptInv, JoinedBeforeReturn, Callers
<1>8. ShutdownInv'
  BY <1>2, <1>3 DEF WorkerInv, ShutdownInv
<1>9. NothingBehindSentinel' /\ PlaceIsGivenBack'
  BY <1>2, <1>3 DEF WorkerInv, TypeOK, NothingBehindSentinel, PlaceIsGivenBack, Callers
<1>10. AdmissionCoversWork'
  <2>1. Owners' = {}
    BY <1>3, <1>4 DEF Owners
  <2>2. QED
    BY <1>1, <2>1 DEF AdmissionCoversWork
<1>11. QED
  BY <1>1, <1>5, <1>6, <1>7, <1>8, <1>9, <1>10 DEF WorkerInv

\* A caller has its receipt and gives the lock back.
LEMMA FinishKeeps ==
  ASSUME TypeOK, WorkerInv, NEW c \in Callers, Finish(c)
  PROVE TypeOK' /\ WorkerInv'
<1>1. /\ c \in Owners /\ c # Shutdown /\ slot = NoJob /\ thread # "working"
      /\ receipts' = receipts \ {c} /\ cancelled' = cancelled \ {c}
      /\ Release /\ GoTo(c, "out")
      /\ UNCHANGED <<counted, closed, closer, slot, thread, job>>
  BY DEF Finish, WorkerInv, ReceiptInv, Owners, Callers, closeVars, threadVars
<1>2. QED
  BY <1>1, GiveBack

\* The shutdown task has joined the thread.
LEMMA JoinedKeeps ==
  ASSUME TypeOK, WorkerInv, Joined
  PROVE TypeOK' /\ WorkerInv'
<1>1. /\ Shutdown \in Owners /\ thread = "exited" /\ slot = NoJob
      /\ receipts' = receipts /\ cancelled' = cancelled
      /\ Release /\ GoTo(Shutdown, "done")
      /\ UNCHANGED <<counted, closed, closer, slot, thread, job>>
  BY DEF Joined, WorkerInv, ShutdownInv, Owners, closeVars, threadVars
<1>2. \A c \in receipts' : c # Shutdown
  BY <1>1 DEF TypeOK, Callers
<1>3. QED
  BY <1>1, <1>2, GiveBack

\* aclose() starts the shutdown task once, and returns when it is done.
LEMMA CloseKeeps ==
  ASSUME TypeOK, WorkerInv, Close \/ CloseReturns
  PROVE TypeOK' /\ WorkerInv'
<1>1. /\ UNCHANGED <<lock, waitq, fut, counted, cancelled, receipts, slot, thread, job>>
      /\ closer' \in {"waiting", "returned"}
      /\ closed' \in {"open", "closed"} /\ (closed = "closed" => closed' = "closed")
      /\ closer' = "returned" => pc[Shutdown] = "done"
  BY DEF Close, CloseReturns, TypeOK, lockVars, callVars, threadVars
<1>2. /\ pc' \in [Tasks -> {"out", "queued", "admitted", "start", "joining", "done"}]
      /\ \A c \in Callers : pc'[c] = pc[c]
      /\ \/ pc'[Shutdown] = pc[Shutdown]
         \/ pc[Shutdown] = "out" /\ pc'[Shutdown] = "start" /\ closed' = "closed" /\ closed = "open"
  BY DEF Close, CloseReturns, GoTo, TypeOK, callVars, WorkerInv, ShutdownInv, Callers
<1>3. TypeOK'
  BY <1>1, <1>2 DEF TypeOK, LockTypeOK
<1>4. QueueInv'
  BY <1>1 DEF WorkerInv, QueueInv
<1>5. PlaceInv'
  BY <1>1, <1>2 DEF WorkerInv, PlaceInv, Callers
<1>6. ReceiptInv' /\ NothingBehindSentinel' /\ PlaceIsGivenBack'
  BY <1>1, <1>2 DEF TypeOK, WorkerInv, ReceiptInv, NothingBehindSentinel, PlaceIsGivenBack
<1>7. ShutdownInv' /\ JoinedBeforeReturn'
  BY <1>1, <1>2 DEF WorkerInv, ShutdownInv, JoinedBeforeReturn
<1>8. AdmissionCoversWork'
  <2>1. Owners' = Owners
    BY <1>2 DEF Owners, Callers
  <2>2. QED
    BY <1>1, <2>1 DEF WorkerInv, AdmissionCoversWork
<1>9. QED
  BY <1>3, <1>4, <1>5, <1>6, <1>7, <1>8 DEF WorkerInv

\* The thread takes the owner's job, or the sentinel.
LEMMA TakeJobKeeps ==
  ASSUME TypeOK, WorkerInv, TakeJob
  PROVE TypeOK' /\ WorkerInv'
<1>1. /\ UNCHANGED <<lock, waitq, fut, pc, counted, cancelled, receipts, closed, closer>>
      /\ thread = "waiting" /\ slot # NoJob /\ slot' = NoJob
      /\ slot = Shutdown => thread' = "exited" /\ job' = job
      /\ slot # Shutdown => thread' = "working" /\ job' = slot
  BY DEF TakeJob, lockVars, callVars, closeVars
<1>2. slot \in Owners /\ receipts = {}
  BY <1>1 DEF TypeOK, WorkerInv, AdmissionCoversWork, ReceiptInv
<1>3. TypeOK'
  BY <1>1 DEF TypeOK, LockTypeOK, Callers
<1>4. QueueInv'
  BY <1>1 DEF WorkerInv, QueueInv
<1>5. PlaceInv' /\ PlaceIsGivenBack'
  BY <1>1 DEF WorkerInv, PlaceInv, PlaceIsGivenBack
<1>6. ReceiptInv' /\ JoinedBeforeReturn'
  BY <1>1, <1>2 DEF WorkerInv, ReceiptInv, JoinedBeforeReturn
<1>7. ShutdownInv' /\ NothingBehindSentinel'
  BY <1>1 DEF WorkerInv, ShutdownInv, NothingBehindSentinel
<1>8. AdmissionCoversWork'
  <2>1. Owners' = Owners
    BY <1>1 DEF Owners
  <2>2. QED
    BY <1>1, <1>2, <2>1 DEF WorkerInv, AdmissionCoversWork
<1>9. QED
  BY <1>3, <1>4, <1>5, <1>6, <1>7, <1>8 DEF WorkerInv

\* The thread hands the owner its receipt.
LEMMA JobDoneKeeps ==
  ASSUME TypeOK, WorkerInv, JobDone
  PROVE TypeOK' /\ WorkerInv'
<1>1. /\ UNCHANGED <<lock, waitq, fut, pc, counted, cancelled, closed, closer, slot>>
      /\ thread = "working" /\ thread' = "waiting" /\ job' = NoJob
      /\ receipts' = receipts \cup {job}
  BY DEF JobDone, lockVars, closeVars
<1>2. job \in Callers /\ pc[job] = "admitted" /\ slot = NoJob
  BY <1>1 DEF TypeOK, WorkerInv, AdmissionCoversWork, Owners, PlaceInv
<1>3. TypeOK'
  BY <1>1, <1>2 DEF TypeOK, LockTypeOK
<1>4. QueueInv'
  BY <1>1 DEF WorkerInv, QueueInv
<1>5. PlaceInv' /\ PlaceIsGivenBack'
  BY <1>1 DEF WorkerInv, PlaceInv, PlaceIsGivenBack
<1>6. ReceiptInv'
  BY <1>1, <1>2 DEF WorkerInv, ReceiptInv
<1>7. ShutdownInv' /\ NothingBehindSentinel' /\ JoinedBeforeReturn'
  BY <1>1 DEF WorkerInv, ShutdownInv, NothingBehindSentinel, JoinedBeforeReturn
<1>8. AdmissionCoversWork'
  <2>1. Owners' = Owners
    BY <1>1 DEF Owners
  <2>2. QED
    BY <1>1, <1>2, <2>1 DEF WorkerInv, AdmissionCoversWork
<1>9. QED
  BY <1>3, <1>4, <1>5, <1>6, <1>7, <1>8 DEF WorkerInv

\* The invariant holds when the worker has been constructed.
LEMMA InitHolds == Init => TypeOK /\ WorkerInv
<1> SUFFICES ASSUME Init PROVE TypeOK /\ WorkerInv
  OBVIOUS
<1>1. TypeOK
  BY DEF Init, LockInit, TypeOK, LockTypeOK
<1>2. QueueInv /\ PlaceInv /\ ReceiptInv /\ ShutdownInv
  BY DEF Init, LockInit, QueueInv, PlaceInv, ReceiptInv, ShutdownInv, Callers
<1>3. AdmissionCoversWork
  <2>1. Owners = {}
    BY DEF Init, Owners
  <2>2. QED
    BY <2>1 DEF Init, LockInit, AdmissionCoversWork
<1>4. NothingBehindSentinel /\ PlaceIsGivenBack /\ JoinedBeforeReturn
  BY DEF Init, NothingBehindSentinel, PlaceIsGivenBack, JoinedBeforeReturn
<1>5. QED
  BY <1>1, <1>2, <1>3, <1>4 DEF WorkerInv

\* Every step of the tasks and of the thread keeps the invariant.
LEMMA StepKeeps == TypeOK /\ WorkerInv /\ [Next]_vars => TypeOK' /\ WorkerInv'
<1> SUFFICES ASSUME TypeOK, WorkerInv, [Next]_vars PROVE TypeOK' /\ WorkerInv'
  OBVIOUS
<1>1. ASSUME NEW c \in Callers,
             CallNow(c) \/ CallWaits(c) \/ CallStep(c) \/ Cancel(c)
      PROVE TypeOK' /\ WorkerInv'
  BY <1>1, CallNowKeeps, CallWaitsKeeps, AdmittedKeeps, AdmittedTooLateKeeps,
     CancelledWaitingKeeps, FinishKeeps, CancelKeeps DEF CallStep
<1>2. CASE Close \/ CloseReturns
  BY <1>2, CloseKeeps
<1>3. CASE ShutdownStep
  BY <1>3, ShutdownStartsKeeps, ShutdownAdmittedKeeps, JoinedKeeps DEF ShutdownStep
<1>4. CASE ThreadStep
  BY <1>4, TakeJobKeeps, JobDoneKeeps DEF ThreadStep
<1>5. CASE UNCHANGED vars
  <2>1. UNCHANGED <<lock, waitq, fut, pc, counted, cancelled, receipts, closed, closer,
                    slot, thread, job>>
    BY <1>5 DEF vars, lockVars, callVars, closeVars, threadVars
  <2>2. TypeOK'
    BY <2>1 DEF TypeOK, LockTypeOK
  <2>3. QueueInv' /\ PlaceInv' /\ ReceiptInv' /\ ShutdownInv'
    BY <2>1 DEF WorkerInv, QueueInv, PlaceInv, ReceiptInv, ShutdownInv
  <2>4. AdmissionCoversWork'
    BY <2>1 DEF WorkerInv, AdmissionCoversWork, Owners
  <2>5. NothingBehindSentinel' /\ PlaceIsGivenBack' /\ JoinedBeforeReturn'
    BY <2>1 DEF WorkerInv, NothingBehindSentinel, PlaceIsGivenBack, JoinedBeforeReturn
  <2>6. QED
    BY <2>2, <2>3, <2>4, <2>5 DEF WorkerInv
<1>6. QED
  BY <1>1, <1>2, <1>3, <1>4, <1>5 DEF Next

\* The lock, the callers of call() and the thread agree about whose turn it
\* is, for any number of callers and however they are cancelled.
THEOREM WorkerSafety == Spec => [](TypeOK /\ WorkerInv)
  BY InitHolds, StepKeeps, PTL DEF Spec

\* Work in the queue or on the thread belongs to the one task that holds the
\* admission lock: transactions never overlap and put_nowait never finds the
\* queue full.
THEOREM AdmissionTheorem == Spec => []AdmissionCoversWork
<1>1. WorkerInv => AdmissionCoversWork
  BY DEF WorkerInv
<1>2. QED
  BY <1>1, WorkerSafety, PTL

\* _shutdown never sends the sentinel in front of an admitted call.
THEOREM SentinelTheorem == Spec => []NothingBehindSentinel
<1>1. WorkerInv => NothingBehindSentinel
  BY DEF WorkerInv
<1>2. QED
  BY <1>1, WorkerSafety, PTL

\* Every way out of the wait for admission gives the caller's place back.
THEOREM PlaceTheorem == Spec => []PlaceIsGivenBack
<1>1. WorkerInv => PlaceIsGivenBack
  BY DEF WorkerInv
<1>2. QED
  BY <1>1, WorkerSafety, PTL

\* aclose() returns only after the thread has ended, cancelled or not.
THEOREM JoinTheorem == Spec => []JoinedBeforeReturn
<1>1. WorkerInv => JoinedBeforeReturn
  BY DEF WorkerInv
<1>2. QED
  BY <1>1, WorkerSafety, PTL
=============================================================================
