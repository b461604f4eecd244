--------------------------- MODULE LifecycleWorker ---------------------------
(***************************************************************************)
(* LifecycleWorker (app/runtime/lifecycle_isolation.py): the one thread    *)
(* that runs database work for callers on the event loop.                  *)
(*                                                                         *)
(* A caller takes the admission lock, puts its job into a queue of length  *)
(* one and keeps the lock until it has the thread's receipt, however often *)
(* it is cancelled meanwhile.  aclose() closes admission and starts the    *)
(* task Shutdown, which takes the lock, sends the sentinel and joins the   *)
(* thread.  An action is what a task does between two awaits, or a step of *)
(* the thread.  A refused call changes nothing and is not an action, nor   *)
(* are the durations and counts kept for reports.                          *)
(***************************************************************************)
EXTENDS AsyncioLock, FiniteSets

CONSTANT Shutdown      \* the task created by aclose

NoJob == "none"

ASSUME WorkerAssumption == Shutdown \in Tasks /\ NoJob \notin Tasks

Callers == Tasks \ {Shutdown}

VARIABLES pc,          \* out, queued, admitted; start, joining, done for Shutdown
          counted,     \* the callers counted in _waiters
          cancelled,   \* the callers that remember a cancellation in _fenced_wait
          receipts,    \* the callers whose completion future is set
          closed,      \* _closed: open or closed
          closer,      \* aclose: out, waiting, returned
          slot,        \* the job in the queue, its caller; Shutdown's is the sentinel
          thread,      \* waiting, working, exited
          job          \* the caller the thread works for

callVars == <<pc, counted, cancelled, receipts>>
closeVars == <<closed, closer>>
threadVars == <<slot, thread, job>>
vars == <<lockVars, callVars, closeVars, threadVars>>

Init == /\ LockInit
        /\ pc = [t \in Tasks |-> "out"]
        /\ counted = {} /\ cancelled = {} /\ receipts = {}
        /\ closed = "open" /\ closer = "out"
        /\ slot = NoJob /\ thread = "waiting" /\ job = NoJob

GoTo(t, label) == pc' = [pc EXCEPT ![t] = label]

\* put_nowait: AdmissionCoversWork says that the queue is never full here.
Put(t) == slot = NoJob /\ slot' = t /\ UNCHANGED <<thread, job>>

-----------------------------------------------------------------------------
(* call()                                                                  *)

CallNow(c) == /\ pc[c] = "out" /\ closed = "open"
              /\ TakeLock
              /\ Put(c)
              /\ GoTo(c, "admitted")
              /\ UNCHANGED <<counted, cancelled, receipts, closeVars>>

\* Only a caller that finds the lock held is counted, and refused if there
\* is one already.
CallWaits(c) == /\ pc[c] = "out" /\ closed = "open"
                /\ lock = "held" => counted = {}
                /\ Queue(c)
                /\ counted' = IF lock = "held" THEN counted \cup {c} ELSE counted
                /\ GoTo(c, "queued")
                /\ UNCHANGED <<cancelled, receipts, closeVars, threadVars>>

Admitted(c) == /\ pc[c] = "queued" /\ closed = "open"
               /\ Awake(c)
               /\ counted' = counted \ {c}
               /\ Put(c)
               /\ GoTo(c, "admitted")
               /\ UNCHANGED <<cancelled, receipts, closeVars>>

\* _closed is looked at again after the wait.
AdmittedTooLate_NoRelease(c) ==
    /\ pc[c] = "queued" /\ closed = "closed"
    /\ Awake(c)
    /\ counted' = counted \ {c}
    /\ GoTo(c, "out")
    /\ UNCHANGED <<cancelled, receipts, closeVars, threadVars>>
AdmittedTooLate(c) == /\ pc[c] = "queued" /\ closed = "closed"
                      /\ AwakeAndRelease(c)
                      /\ counted' = counted \ {c}
                      /\ GoTo(c, "out")
                      /\ UNCHANGED <<cancelled, receipts, closeVars, threadVars>>

CancelledWaiting_KeepsSlot(c) ==
    /\ pc[c] = "queued"
    /\ Abandon(c)
    /\ GoTo(c, "out")
    /\ UNCHANGED <<counted, cancelled, receipts, closeVars, threadVars>>
CancelledWaiting(c) == /\ pc[c] = "queued"
                       /\ Abandon(c)
                       /\ counted' = counted \ {c}
                       /\ GoTo(c, "out")
                       /\ UNCHANGED <<cancelled, receipts, closeVars, threadVars>>

\* task.cancel(): a queued caller will abandon its wait, an admitted one
\* remembers the cancellation.
Cancel(c) == \/ /\ pc[c] = "queued"
                /\ CancelWait(c)
                /\ UNCHANGED <<callVars, closeVars, threadVars>>
             \/ /\ pc[c] = "admitted"
                /\ cancelled' = cancelled \cup {c}
                /\ UNCHANGED <<lockVars, pc, counted, receipts, closeVars, threadVars>>

\* _fenced_wait ends with the receipt and only with it.
Finish_Unfenced(c) == /\ pc[c] = "admitted" /\ c \in receipts \cup cancelled
                      /\ Release
                      /\ GoTo(c, "out")
                      /\ receipts' = receipts \ {c} /\ cancelled' = cancelled \ {c}
                      /\ UNCHANGED <<counted, closeVars, threadVars>>
Finish(c) == /\ pc[c] = "admitted" /\ c \in receipts
             /\ Release
             /\ GoTo(c, "out")
             /\ receipts' = receipts \ {c} /\ cancelled' = cancelled \ {c}
             /\ UNCHANGED <<counted, closeVars, threadVars>>

-----------------------------------------------------------------------------
(* aclose() and its task _shutdown()                                       *)

Close == /\ closer # "waiting"
         /\ closer' = "waiting" /\ closed' = "closed"
         /\ IF closed = "open" THEN GoTo(Shutdown, "start") ELSE UNCHANGED pc
         /\ UNCHANGED <<lockVars, counted, cancelled, receipts, threadVars>>

CloseReturns_Cancelled == /\ closer = "waiting"
                          /\ closer' = "returned"
                          /\ UNCHANGED <<lockVars, callVars, closed, threadVars>>
CloseReturns == /\ closer = "waiting" /\ pc[Shutdown] = "done"
                /\ closer' = "returned"
                /\ UNCHANGED <<lockVars, callVars, closed, threadVars>>

ShutdownStarts_NoLock == /\ pc[Shutdown] = "start"
                         /\ slot = NoJob /\ slot' = Shutdown
                         /\ GoTo(Shutdown, "joining")
                         /\ UNCHANGED <<lockVars, thread, job, counted, cancelled, receipts, closeVars>>
ShutdownStarts == /\ pc[Shutdown] = "start"
                  /\ \/ TakeLock /\ Put(Shutdown) /\ GoTo(Shutdown, "joining")
                     \/ Queue(Shutdown) /\ GoTo(Shutdown, "queued") /\ UNCHANGED threadVars
                  /\ UNCHANGED <<counted, cancelled, receipts, closeVars>>

ShutdownAdmitted == /\ pc[Shutdown] = "queued"
                    /\ Awake(Shutdown)
                    /\ Put(Shutdown)
                    /\ GoTo(Shutdown, "joining")
                    /\ UNCHANGED <<counted, cancelled, receipts, closeVars>>

Joined == /\ pc[Shutdown] = "joining" /\ thread = "exited"
          /\ Release
          /\ GoTo(Shutdown, "done")
          /\ UNCHANGED <<counted, cancelled, receipts, closeVars, threadVars>>

-----------------------------------------------------------------------------
(* The thread: _run()                                                      *)

TakeJob_NoSentinelCheck ==
    /\ thread = "waiting" /\ slot # NoJob
    /\ slot' = NoJob /\ thread' = "working" /\ job' = slot
    /\ UNCHANGED <<lockVars, callVars, closeVars>>
TakeJob == /\ thread = "waiting" /\ slot # NoJob
           /\ slot' = NoJob
           /\ IF slot = Shutdown THEN thread' = "exited" /\ UNCHANGED job
              ELSE thread' = "working" /\ job' = slot
           /\ UNCHANGED <<lockVars, callVars, closeVars>>

\* The function returned or raised; both are a receipt.
JobDone == /\ thread = "working"
           /\ thread' = "waiting" /\ job' = NoJob
           /\ receipts' = receipts \cup {job}
           /\ UNCHANGED <<lockVars, pc, counted, cancelled, closeVars, slot>>

CallStep(c) == \/ Admitted(c) \/ AdmittedTooLate(c) \/ CancelledWaiting(c)
               \/ Finish(c)
ShutdownStep == ShutdownStarts \/ ShutdownAdmitted \/ Joined
ThreadStep == TakeJob \/ JobDone

Next == \/ \E c \in Callers : CallNow(c) \/ CallWaits(c) \/ CallStep(c) \/ Cancel(c)
        \/ Close \/ CloseReturns \/ ShutdownStep \/ ThreadStep

Spec == Init /\ [][Next]_vars

\* The event loop runs every task that is ready, the functions return.
FairSpec == /\ Spec
            /\ \A c \in Callers : WF_vars(CallStep(c))
            /\ WF_vars(ShutdownStep) /\ WF_vars(ThreadStep) /\ WF_vars(CloseReturns)

-----------------------------------------------------------------------------
\* The variables hold what the code assigns to them.
TypeOK ==
    /\ LockTypeOK
    /\ pc \in [Tasks -> {"out", "queued", "admitted", "start", "joining", "done"}]
    /\ counted \subseteq Callers /\ cancelled \subseteq Callers /\ receipts \subseteq Callers
    /\ closed \in {"open", "closed"} /\ closer \in {"out", "waiting", "returned"}
    /\ slot \in Tasks \cup {NoJob} /\ job \in Callers \cup {NoJob}
    /\ thread \in {"waiting", "working", "exited"}

\* "The caller retains admission through a completion receipt, even across
\* repeated cancellation": work in the queue or on the thread belongs to the
\* one task that holds the lock, so two transactions never overlap and the
\* queue is never full.
Owners == {t \in Tasks : pc[t] \in {"admitted", "joining"}}
AdmissionCoversWork ==
    /\ \A s, t \in Owners : s = t
    /\ lock = "held" <=> Owners # {}
    /\ slot # NoJob => slot \in Owners /\ thread = "waiting"
    /\ thread = "working" => job \in Owners

\* No admitted call is behind the sentinel: once the thread is told to stop,
\* nobody waits for a receipt that will not come.
NothingBehindSentinel ==
    slot = Shutdown \/ thread = "exited" => \A c \in Callers : pc[c] # "admitted"

\* The place of a waiting caller is given back on every way out of the wait.
PlaceIsGivenBack == \A c \in counted : pc[c] = "queued"

\* "Repeated cancellation also waits for this join."
JoinedBeforeReturn == closer = "returned" => thread = "exited"

(***************************************************************************)
(* Why those hold: the inductive invariant of the worker.                  *)
(***************************************************************************)
\* A task is in the queue of the lock exactly while it waits for admission.
PlaceInv ==
    /\ \A t \in Tasks : pc[t] = "queued" <=> fut[t] # "none"
    /\ \A c \in Callers : pc[c] \in {"out", "queued", "admitted"}
    /\ pc[Shutdown] # "admitted"

\* A receipt is for the owner, whose job has left the queue and the thread.
ReceiptInv == \A c \in receipts : /\ pc[c] = "admitted"
                                  /\ slot = NoJob /\ thread # "working"

\* How far the shutdown has come.
ShutdownInv == /\ pc[Shutdown] # "out" => closed = "closed"
               /\ slot = Shutdown => pc[Shutdown] = "joining"
               /\ thread = "exited" => /\ closed = "closed" /\ slot = NoJob
                                         /\ pc[Shutdown] \in {"joining", "done"}
               /\ pc[Shutdown] = "done" => thread = "exited"

\* The lock, the callers and the thread agree about whose turn it is.
WorkerInv == /\ QueueInv /\ PlaceInv /\ ReceiptInv /\ ShutdownInv
             /\ AdmissionCoversWork /\ NothingBehindSentinel
             /\ PlaceIsGivenBack /\ JoinedBeforeReturn

\* Every call ends, whether it was admitted, cancelled or overtaken by
\* aclose, and the thread ends after aclose.
EveryCallEnds == \A c \in Callers : pc[c] # "out" ~> pc[c] = "out"
CloseEnds == closed = "closed" ~> thread = "exited" /\ lock = "free"

\* Documented: "one admitted call and at most one waiting caller.  A third
\* call is rejected."
OneWaitingCaller ==
    lock = "held" => Cardinality({c \in Callers : fut[c] = "pending"}) <= 1
=============================================================================
