----------------------------- MODULE DiskWorker -----------------------------
(***************************************************************************)
(* SerializedDiskWorker (app/runtime/disk_isolation.py): the one thread    *)
(* that writes files for callers on the event loop.                        *)
(*                                                                         *)
(* Unlike LifecycleWorker, a cancelled caller leaves at once.  The lock is *)
(* then released by the thread, which posts release_once to the event loop *)
(* after every job; release_once also runs when a caller returns, and a    *)
(* token makes the second run of it do nothing.  settle() waits for the    *)
(* fence of a cancelled caller and for the lock; aclose() closes           *)
(* admission, settles, sends the sentinel and joins the thread.            *)
(*                                                                         *)
(* An action is what a task does between two awaits, the event loop's next *)
(* callback, or a step of the thread.  A refused call changes nothing and  *)
(* is not an action, nor are the metrics.                                  *)
(***************************************************************************)
EXTENDS AsyncioLock

CONSTANTS Settler,     \* a task in settle_after_cancellation()
          Closer       \* a task in aclose()

ASSUME DiskAssumption == {Settler, Closer} \subseteq Tasks /\ Settler # Closer

Callers == Tasks \ {Settler, Closer}

VARIABLES pc,          \* out, queued, waiting; fence, settling, settled, joining
          counted,     \* the callers counted in _waiters
          receipts,    \* waiting callers whose future is done
          held,        \* the call whose token is not released: its caller
          fence,       \* _fence: idle or running
          closed,      \* _closed: open or closed
          slot,        \* the job in the queue, its caller; Closer's is the sentinel
          thread,      \* waiting, working, posting, postingSpent, exited
          job,         \* the caller the thread works for
          ready        \* callbacks the thread has posted to the event loop

None == "none"
callVars == <<pc, counted, receipts, held, fence>>
threadVars == <<slot, thread, job, ready>>
vars == <<lockVars, callVars, closed, threadVars>>

Init == /\ LockInit
        /\ pc = [t \in Tasks |-> "out"]
        /\ counted = {} /\ receipts = {} /\ held = None
        /\ fence = "idle" /\ closed = "open"
        /\ slot = None /\ thread = "waiting" /\ job = None /\ ready = <<>>

GoTo(t, label) == pc' = [pc EXCEPT ![t] = label]

-----------------------------------------------------------------------------
(* call()                                                                  *)

\* The lock has been taken: a new token, and the job goes to the thread.
Submit(c) == /\ held' = c
             /\ slot = None /\ slot' = c
             /\ GoTo(c, "waiting")
             /\ UNCHANGED <<receipts, fence, closed, thread, job, ready>>

CallNow(c) == /\ pc[c] = "out" /\ closed = "open"
              /\ TakeLock
              /\ Submit(c)
              /\ UNCHANGED counted

CallWaits(c) == /\ pc[c] = "out" /\ closed = "open"
                /\ lock = "held" => counted = {}
                /\ Queue(c)
                /\ counted' = IF lock = "held" THEN counted \cup {c} ELSE counted
                /\ GoTo(c, "queued")
                /\ UNCHANGED <<receipts, held, fence, closed, threadVars>>

Admitted(c) == /\ pc[c] = "queued" /\ closed = "open"
               /\ Awake(c)
               /\ counted' = counted \ {c}
               /\ Submit(c)

AdmittedTooLate(c) == /\ pc[c] = "queued" /\ closed = "closed"
                      /\ AwakeAndRelease(c)
                      /\ counted' = counted \ {c}
                      /\ GoTo(c, "out")
                      /\ UNCHANGED <<receipts, held, fence, closed, threadVars>>

CancelledWaiting(c) == /\ pc[c] = "queued"
                       /\ Abandon(c)
                       /\ counted' = counted \ {c}
                       /\ GoTo(c, "out")
                       /\ UNCHANGED <<receipts, held, fence, closed, threadVars>>

\* A caller that waits for its result leaves a fence behind, and its token.
Cancel(c) == \/ /\ pc[c] = "queued"
                /\ CancelWait(c)
                /\ UNCHANGED <<callVars, closed, threadVars>>
             \/ /\ pc[c] = "waiting"
                /\ GoTo(c, "out")
                /\ receipts' = receipts \ {c}
                /\ fence' = IF c \in receipts THEN fence ELSE "running"
                /\ UNCHANGED <<lockVars, counted, held, closed, threadVars>>

\* release_once by the caller spends the token, so the callback the thread
\* posts, or has posted, will do nothing.
ReleaseOnce_NotOnce(c) == Release /\ held' = None /\ UNCHANGED <<thread, ready>>
ReleaseOnce(c) ==
    IF held # c THEN UNCHANGED <<lockVars, held, thread, ready>>
    ELSE /\ Release
         /\ held' = None
         /\ thread' = IF thread = "posting" THEN "postingSpent" ELSE thread
         /\ ready' = [i \in 1 .. Len(ready) |->
                        IF ready[i] = "release" THEN "spent" ELSE ready[i]]

Finish(c) == /\ pc[c] = "waiting" /\ c \in receipts
             /\ ReleaseOnce(c)
             /\ GoTo(c, "out")
             /\ receipts' = receipts \ {c}
             /\ UNCHANGED <<counted, fence, closed, slot, job>>

-----------------------------------------------------------------------------
(* settle() and aclose()                                                   *)

\* settle() has the lock and gives it back: what its caller does next.
Settled(t) == IF t = Settler
              THEN GoTo(t, "settled") /\ UNCHANGED threadVars
              ELSE /\ slot = None /\ slot' = Closer
                   /\ GoTo(t, "joining")
                   /\ UNCHANGED <<thread, job, ready>>

SettleLock(t) == \/ Free /\ UNCHANGED lockVars /\ Settled(t)
                 \/ Queue(t) /\ GoTo(t, "queued") /\ UNCHANGED threadVars

SettleFrom_FenceOnly(t) ==
    IF fence = "running" THEN GoTo(t, "fence") /\ UNCHANGED <<lockVars, threadVars>>
    ELSE UNCHANGED lockVars /\ Settled(t)
SettleFrom(t) ==
    IF fence = "running" THEN GoTo(t, "fence") /\ UNCHANGED <<lockVars, threadVars>>
    ELSE SettleLock(t)

Settle == /\ pc[Settler] \in {"out", "settled"}
          /\ SettleFrom(Settler)
          /\ UNCHANGED <<counted, receipts, held, fence, closed>>

Close == /\ closed = "open" /\ closed' = "closed"
         /\ SettleFrom(Closer)
         /\ UNCHANGED <<counted, receipts, held, fence>>

SettleResumes(t) == /\ pc[t] = "settling"
                    /\ SettleLock(t)
                    /\ UNCHANGED <<counted, receipts, held, fence, closed>>

SettleAdmitted(t) == /\ pc[t] = "queued"
                     /\ AwakeAndRelease(t)
                     /\ Settled(t)
                     /\ UNCHANGED <<counted, receipts, held, fence, closed>>

Joined == /\ pc[Closer] = "joining" /\ thread = "exited"
          /\ GoTo(Closer, "out")
          /\ UNCHANGED <<lockVars, counted, receipts, held, fence, closed, threadVars>>

CancelSettle(t) == \/ /\ pc[t] = "queued"
                      /\ CancelWait(t)
                      /\ UNCHANGED <<callVars, closed, threadVars>>
                   \/ /\ pc[t] \in {"fence", "settling", "joining"}
                      /\ GoTo(t, "out")
                      /\ UNCHANGED <<lockVars, counted, receipts, held, fence, closed, threadVars>>

SettleCancelled(t) == /\ pc[t] = "queued"
                      /\ Abandon(t)
                      /\ GoTo(t, "out")
                      /\ UNCHANGED <<counted, receipts, held, fence, closed, threadVars>>

-----------------------------------------------------------------------------
(* The thread, _run(), and the callbacks it posts                          *)

TakeJob == /\ thread = "waiting" /\ slot # None
           /\ slot' = None
           /\ IF slot = Closer THEN thread' = "exited" /\ UNCHANGED job
              ELSE thread' = "working" /\ job' = slot
           /\ UNCHANGED <<lockVars, callVars, closed, ready>>

JobDone == /\ thread = "working"
           /\ thread' = "posting" /\ job' = None
           /\ ready' = Append(ready, "result")
           /\ UNCHANGED <<lockVars, callVars, closed, slot>>

PostRelease == /\ thread \in {"posting", "postingSpent"}
               /\ thread' = "waiting"
               /\ ready' = Append(ready, IF thread = "posting" THEN "release" ELSE "spent")
               /\ UNCHANGED <<lockVars, callVars, closed, slot, job>>

\* The future is done: the caller or, when it has left, its fence goes on.
RunResult == /\ ready # <<>> /\ Head(ready) = "result"
             /\ ready' = Tail(ready)
             /\ IF fence = "running"
                THEN /\ fence' = "idle"
                     /\ pc' = [t \in Tasks |-> IF pc[t] = "fence" THEN "settling" ELSE pc[t]]
                     /\ UNCHANGED receipts
                ELSE receipts' = receipts \cup {held} /\ UNCHANGED <<fence, pc>>
             /\ UNCHANGED <<lockVars, counted, held, closed, slot, thread, job>>

RunRelease_NotPosted == /\ ready # <<>> /\ Head(ready) \in {"release", "spent"}
                        /\ ready' = Tail(ready)
                        /\ UNCHANGED <<lockVars, callVars, closed, slot, thread, job>>
RunRelease == /\ ready # <<>> /\ Head(ready) \in {"release", "spent"}
              /\ ready' = Tail(ready)
              /\ IF Head(ready) = "release" THEN Release /\ held' = None
                 ELSE UNCHANGED <<lockVars, held>>
              /\ UNCHANGED <<pc, counted, receipts, fence, closed, slot, thread, job>>

CallStep(c) == \/ Admitted(c) \/ AdmittedTooLate(c) \/ CancelledWaiting(c)
               \/ Finish(c)
SettleStep(t) == SettleResumes(t) \/ SettleAdmitted(t) \/ SettleCancelled(t)
ThreadStep == TakeJob \/ JobDone \/ PostRelease
LoopStep == RunResult \/ RunRelease

Next == \/ \E c \in Callers : CallNow(c) \/ CallWaits(c) \/ CallStep(c) \/ Cancel(c)
        \/ \E t \in {Settler, Closer} : SettleStep(t) \/ CancelSettle(t)
        \/ Settle \/ Close \/ Joined
        \/ ThreadStep \/ LoopStep

Spec == Init /\ [][Next]_vars

\* The event loop runs what is ready, the functions return.
FairSpec == /\ Spec
            /\ \A c \in Callers : WF_vars(CallStep(c))
            /\ \A t \in {Settler, Closer} : WF_vars(SettleStep(t))
            /\ WF_vars(Joined) /\ WF_vars(ThreadStep) /\ WF_vars(LoopStep)

-----------------------------------------------------------------------------
\* The variables hold what the code assigns; at most three callbacks are due.
TypeOK ==
    /\ LockTypeOK
    /\ pc \in [Tasks -> {"out", "queued", "waiting", "fence", "settling", "settled", "joining"}]
    /\ counted \subseteq Callers /\ receipts \subseteq Callers
    /\ held \in Callers \cup {None}
    /\ fence \in {"idle", "running"} /\ closed \in {"open", "closed"}
    /\ slot \in Callers \cup {Closer, None} /\ job \in Callers \cup {None}
    /\ thread \in {"waiting", "working", "posting", "postingSpent", "exited"}
    /\ ready \in Seq({"result", "release", "spent"}) /\ Len(ready) <= 3

\* "The admission lock stays held until the thread's future completes": a job
\* in the queue or on the thread is the one whose token holds the lock, also
\* after its caller was cancelled, and the lock is never released for another.
AdmissionCoversWork ==
    /\ lock = "held" <=> held # None
    /\ slot \in Callers => held = slot
    /\ thread = "working" => held = job

\* No job is behind the sentinel.
NothingBehindSentinel == slot = Closer \/ thread = "exited" => held = None

\* settle() returns to the watch loop only when no write is queued or running,
\* so the diagnostic it appends next cannot overlap one.
SettleIsQuiet ==
    [][pc[Settler] # "settled" /\ pc'[Settler] = "settled"
       => slot' \notin Callers /\ thread' # "working"]_vars

\* Every call ends, and so does every settle().
EveryCallEnds ==
    /\ \A c \in Callers : pc[c] # "out" ~> pc[c] = "out"
    /\ pc[Settler] \notin {"out", "settled"} ~> pc[Settler] \in {"out", "settled"}

\* Documented: "aclose settles, sends one shutdown sentinel, and joins the
\* thread."
CloseEndsThread == closed = "closed" ~> thread = "exited"
=============================================================================
