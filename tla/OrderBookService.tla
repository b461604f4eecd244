-------------------------- MODULE OrderBookService --------------------------
(***************************************************************************)
(* OrderBookLiquidityService (app/microstructure/order_book_service.py)    *)
(* for one symbol: the connection loop, the subscription, the bootstrap    *)
(* task that fetches snapshots, and the metadata lease that admits the     *)
(* symbol (stream_evidence.py).  The book is BookControl.                  *)
(*                                                                         *)
(* Everything runs on one event loop, so an action is what happens between *)
(* two awaits.  A cancelled task never runs again, with one exception the  *)
(* code provides for: a snapshot client that ignores cancellation and      *)
(* answers late.  identity_reason compares the lease with the admission it *)
(* last reported and calls back on a difference (Notice); handlers that    *)
(* call it first are modelled as Notice followed by the handler, and their *)
(* guard is Noticed.                                                       *)
(***************************************************************************)
EXTENDS BookControl, Naturals

CONSTANTS BootstrapAttempts,   \* bootstrap_attempts
          MaxConnections,      \* bound: connections opened
          MaxBooks             \* bound: times the symbol is subscribed

ASSUME ServiceAssumption == /\ BootstrapAttempts \in Nat \ {0}
                            /\ MaxConnections \in Nat
                            /\ MaxBooks \in Nat

VARIABLES loop,         \* _run_forever: off, down, subscribing, receiving, stopping
          stop,         \* _stop_event
          conn,         \* _connection, 0 is None
          connections,  \* _connection_count
          broken,       \* the connection on which a send failed, 0 is none
          wanted,       \* the book of the symbol, 0 when it is not desired
          books,        \* books created
          adding,       \* the connection a reconcile_symbols awaits, 0 is none
          lease,        \* metadata: absent, valid or expired
          admission,    \* _admission: unset, valid or invalid
          task,         \* the task in _bootstrap_tasks
          late,         \* a cancelled task whose request is still running
          orphan,       \* a done callback of a task no longer registered is due
          tainted,      \* history: the book outlived the lease it was built under
          poisoned      \* history: a snapshot requested before a loss was installed

loopVars == <<loop, stop, conn, connections, broken>>
symbolVars == <<wanted, books, adding>>
leaseVars == <<lease, admission>>
taskVars == <<task, late, orphan>>
vars == <<bookVars, loopVars, symbolVars, leaseVars, taskVars, tainted, poisoned>>

NoTask == [pc |-> "none", attempt |-> 0, conn |-> 0, book |-> 0, stale |-> FALSE]
NewTask == [NoTask EXCEPT !.pc = "start", !.attempt = 1]
Alive(w) == w.pc \notin {"none", "done"}

Admitted == lease # "expired"
AdmissionOf(l) == IF l = "absent" THEN "unset"
                  ELSE IF l = "valid" THEN "valid" ELSE "invalid"
Noticed == wanted = 0 \/ lease = "absent" \/ admission = AdmissionOf(lease)

\* The history of a book step: clearing the book ends the taint.
Book(A) == A /\ tainted' = (tainted /\ mode' # "cleared")
SameBook == UNCHANGED <<bookVars, tainted>>

Scheduled(w, c, b) ==
    IF c = 0 \/ stop \/ b = 0 \/ Alive(w) THEN w ELSE NewTask
ScheduleBootstrap(c, b) ==
    /\ task' = Scheduled(task, c, b)
    /\ orphan' = (orphan \/ (task.pc = "done" /\ task' # task))
    /\ UNCHANGED late

\* Pop and cancel.  A request whose client ignores that becomes late, and is
\* "awaited" when the caller gathers it (bound: one at a time).
CancelTo(w, pc) ==
    /\ task' = w
    /\ orphan' = (orphan \/ task.pc = "done")
    /\ \/ late' = IF late = NoTask THEN late ELSE [late EXCEPT !.stale = TRUE]
       \/ /\ task.pc = "fetching" /\ late = NoTask
          /\ late' = [task EXCEPT !.pc = pc, !.stale = TRUE]
CancelBootstraps == CancelTo(NoTask, "awaited")

ContextActive_AnyTask(w, registered) ==
    /\ w.conn = conn /\ ~stop /\ wanted # 0 /\ w.book = wanted /\ Admitted
ContextActive_AnyConnection(w, registered) ==
    /\ wanted # 0 /\ w.book = wanted /\ registered /\ Admitted
ContextActive(w, registered) ==
    /\ w.conn = conn /\ conn # 0 /\ ~stop
    /\ wanted # 0 /\ w.book = wanted
    /\ registered /\ Admitted

-----------------------------------------------------------------------------
Init ==
    /\ BookInit
    /\ loop = "off" /\ stop = FALSE /\ conn = 0 /\ connections = 0 /\ broken = 0
    /\ wanted = 0 /\ books = 0 /\ adding = 0
    /\ lease = "absent" /\ admission = "unset"
    /\ task = NoTask /\ late = NoTask /\ orphan = FALSE
    /\ tainted = FALSE /\ poisoned = FALSE

(* The connection loop.                                                    *)

Start == /\ loop = "off" /\ late.pc # "awaited"
         /\ stop' = FALSE /\ loop' = "down"
         /\ SameBook
         /\ UNCHANGED <<conn, connections, broken, symbolVars, leaseVars, taskVars, poisoned>>

\* stop() up to its await: the loop has not run its finally clause yet.  A
\* loop that was gathering cancelled tasks is cancelled out of the gather.
Stop == /\ loop # "stopping"
        /\ stop' = TRUE /\ loop' = "stopping" /\ conn' = 0
        /\ Book(Mark)
        /\ task' = [task EXCEPT !.stale = (task.pc # "none")]
        /\ late' = IF late.pc = "awaited" THEN [late EXCEPT !.pc = "fetching"] ELSE late
        /\ UNCHANGED <<connections, broken, symbolVars, leaseVars, orphan, poisoned>>

StopFinish == /\ loop = "stopping"
              /\ loop' = "off"
              /\ Book(Mark)
              /\ CancelBootstraps
              /\ UNCHANGED <<stop, conn, connections, broken, symbolVars, leaseVars, poisoned>>

Connect == /\ loop = "down" /\ late.pc # "awaited" /\ connections < MaxConnections
           /\ connections' = connections + 1 /\ conn' = connections + 1
           /\ loop' = "subscribing"
           /\ Book(Mark)
           /\ UNCHANGED <<stop, broken, symbolVars, leaseVars, taskVars, poisoned>>

Subscribed == /\ loop = "subscribing" /\ loop' = "receiving"
              /\ ScheduleBootstrap(conn, wanted)
              /\ SameBook
              /\ UNCHANGED <<stop, conn, connections, broken, symbolVars, leaseVars, poisoned>>

\* A failed send, a closed or silent connection, a malformed payload.
LoopFails == /\ loop \in {"subscribing", "receiving"}
             /\ loop' = "down" /\ conn' = 0
             /\ Book(Mark)
             /\ CancelBootstraps
             /\ UNCHANGED <<stop, connections, broken, symbolVars, leaseVars, poisoned>>

(* Depth events.                                                           *)

HandleDepth_OnlyOverflow ==
    /\ loop = "receiving" /\ wanted # 0 /\ Noticed /\ Admitted
    /\ Book(IngestDepth)
    /\ IF outcome' = "BUFFER_OVERFLOW" THEN ScheduleBootstrap(conn, wanted)
       ELSE UNCHANGED taskVars
    /\ UNCHANGED <<loopVars, symbolVars, leaseVars, poisoned>>
HandleDepth ==
    /\ loop = "receiving" /\ wanted # 0 /\ Noticed /\ Admitted
    /\ Book(IngestDepth)
    /\ IF outcome' \in {"NEEDS_RESYNC", "BUFFER_OVERFLOW"}
       THEN ScheduleBootstrap(conn, wanted)
       ELSE UNCHANGED taskVars
    /\ UNCHANGED <<loopVars, symbolVars, leaseVars, poisoned>>

\* accepts_event_times reports a loss and a gain for an event out of time.
HandleStale ==
    /\ loop = "receiving" /\ wanted # 0 /\ Noticed /\ Admitted
    /\ Book(Mark)
    /\ CancelTo(NewTask, "fetching")
    /\ UNCHANGED <<loopVars, symbolVars, leaseVars, poisoned>>

(* reconcile_symbols.                                                      *)

AddSymbol ==
    /\ wanted = 0 /\ adding = 0 /\ books < MaxBooks
    /\ wanted' = books + 1 /\ books' = books + 1 /\ adding' = conn
    /\ admission' = AdmissionOf(lease)
    /\ Book(Becomes("cleared", TRUE, "none"))
    /\ UNCHANGED <<loopVars, lease, taskVars, poisoned>>

AddSubscribed ==
    /\ adding # 0 /\ adding' = 0
    /\ ScheduleBootstrap(conn, wanted)
    /\ SameBook
    /\ UNCHANGED <<loopVars, wanted, books, leaseVars, poisoned>>

AddFails ==
    /\ adding # 0 /\ adding' = 0 /\ broken' = adding
    /\ SameBook
    /\ UNCHANGED <<loop, stop, conn, connections, wanted, books, leaseVars, taskVars, poisoned>>

RemoveSymbol ==
    /\ wanted # 0 /\ adding = 0
    /\ wanted' = 0 /\ admission' = "unset"
    /\ Book(Becomes("cleared", TRUE, "none"))
    /\ CancelTo(NoTask, "fetching")
    /\ UNCHANGED <<loopVars, books, adding, lease, poisoned>>

(* The metadata lease.                                                     *)

\* _metadata_admission_changed, for the admission a.
AdmissionChanged(a) ==
    IF a = "invalid" THEN Book(Mark) /\ CancelTo(NoTask, "fetching")
    ELSE IF conn # 0 THEN Book(Mark) /\ ScheduleBootstrap(conn, wanted)
    ELSE SameBook /\ UNCHANGED taskVars

Notice ==
    /\ ~Noticed
    /\ admission' = AdmissionOf(lease)
    /\ AdmissionChanged(admission')
    /\ UNCHANGED <<loopVars, symbolVars, lease, poisoned>>

LeaseExpires ==
    /\ lease = "valid" /\ lease' = "expired"
    /\ tainted' = (mode # "cleared")
    /\ UNCHANGED <<bookVars, loopVars, symbolVars, admission, taskVars, poisoned>>

SetMetadata_NotObserved ==
    /\ \E l \in {"valid", "expired"} :
         /\ lease' = l
         /\ IF wanted = 0 \/ admission = AdmissionOf(l)
            THEN SameBook /\ UNCHANGED <<admission, taskVars>>
            ELSE admission' = AdmissionOf(l) /\ AdmissionChanged(AdmissionOf(l))
    /\ UNCHANGED <<loopVars, symbolVars, poisoned>>
SetMetadata == Noticed /\ SetMetadata_NotObserved

(* The bootstrap task.                                                     *)

\* The code reads the lease only when the rest of the context is active.
CheckNoticed(w) == (w.conn = conn /\ conn # 0 /\ ~stop /\ wanted # 0 /\ w.book = wanted)
                   => Noticed
TaskMoves(w) == /\ task' = w
                /\ SameBook
                /\ UNCHANGED <<loopVars, symbolVars, leaseVars, late, orphan, poisoned>>
Done(w) == [w EXCEPT !.pc = "done"]

\* The first step captures the book and the connection.
TaskStarts ==
    LET w == [task EXCEPT !.conn = conn, !.book = wanted]
    IN  /\ task.pc = "start" /\ CheckNoticed(w)
        /\ TaskMoves(IF ContextActive(w, TRUE) THEN [w EXCEPT !.pc = "slot"] ELSE Done(w))

TaskWakes ==
    /\ task.pc \in {"slot", "backoff", "cooldown"} /\ CheckNoticed(task)
    /\ TaskMoves(IF ~ContextActive(task, TRUE) THEN Done(task)
                 ELSE IF task.pc = "slot" THEN [task EXCEPT !.pc = "fetching", !.stale = FALSE]
                 ELSE [task EXCEPT !.pc = "slot",
                                   !.attempt = IF task.pc = "cooldown" THEN 1 ELSE @])

\* What follows a failed attempt; the last one clears the captured book.
AttemptFails_OneMore(B) ==
    IF task.attempt <= BootstrapAttempts
    THEN task' = [task EXCEPT !.pc = "backoff", !.attempt = @ + 1] /\ B
    ELSE /\ task' = [task EXCEPT !.pc = "cooldown"]
         /\ IF task.book = wanted THEN Book(MarkSnapshotFailed) ELSE B
AttemptFails(B) ==
    IF task.attempt < BootstrapAttempts
    THEN task' = [task EXCEPT !.pc = "backoff", !.attempt = @ + 1] /\ B
    ELSE /\ task' = [task EXCEPT !.pc = "cooldown"]
         /\ IF task.book = wanted THEN Book(MarkSnapshotFailed) ELSE B

\* fetch raises, or its payload does not parse or is out of time.
FetchRaises ==
    /\ task.pc = "fetching"
    /\ AttemptFails(SameBook)
    /\ UNCHANGED <<loopVars, symbolVars, leaseVars, late, orphan, poisoned>>

FetchRefused ==
    \* install_snapshot returned NEEDS_RESYNC before the attempt is counted.
    /\ task.pc = "fetching" /\ CheckNoticed(task) /\ ContextActive(task, TRUE)
    /\ AttemptFails(Book(Becomes("cleared", TRUE, "NEEDS_RESYNC")))
    /\ UNCHANGED <<loopVars, symbolVars, leaseVars, late, orphan, poisoned>>

FetchInstalls(w, registered) ==
    /\ CheckNoticed(w) /\ ContextActive(w, registered)
    /\ Book(Install /\ outcome' # "NEEDS_RESYNC")
    /\ poisoned' = (poisoned \/ w.stale)

FetchReturns ==
    /\ task.pc = "fetching" /\ task' = Done(task)
    /\ \/ FetchInstalls(task, TRUE)
       \/ ~ContextActive(task, TRUE) /\ CheckNoticed(task) /\ SameBook /\ UNCHANGED poisoned
    /\ UNCHANGED <<loopVars, symbolVars, leaseVars, late, orphan>>

LateReturns ==
    /\ late # NoTask
    /\ IF ContextActive(late, FALSE) THEN FetchInstalls(late, FALSE)
       ELSE SameBook /\ UNCHANGED poisoned
    /\ late' = NoTask /\ orphan' = TRUE
    /\ UNCHANGED <<loopVars, symbolVars, leaseVars, task>>

CallbackReschedules == wanted # 0 /\ needs /\ Admitted /\ conn # 0 /\ ~stop

BootstrapDone ==
    /\ task.pc = "done"
    /\ wanted # 0 /\ needs => Noticed
    /\ task' = IF CallbackReschedules THEN NewTask ELSE NoTask
    /\ SameBook
    /\ UNCHANGED <<loopVars, symbolVars, leaseVars, late, orphan, poisoned>>

OrphanDone ==
    /\ orphan
    /\ wanted # 0 /\ needs => Noticed
    /\ task' = IF CallbackReschedules THEN Scheduled(task, conn, wanted) ELSE task
    /\ orphan' = (task.pc = "done" /\ task' # task)
    /\ SameBook
    /\ UNCHANGED <<loopVars, symbolVars, leaseVars, late, poisoned>>

Next ==
    \/ Start \/ Stop \/ StopFinish \/ Connect \/ Subscribed \/ LoopFails
    \/ HandleDepth \/ HandleStale
    \/ AddSymbol \/ AddSubscribed \/ AddFails \/ RemoveSymbol
    \/ Notice \/ LeaseExpires \/ SetMetadata
    \/ TaskStarts \/ TaskWakes \/ FetchRaises \/ FetchRefused \/ FetchReturns
    \/ LateReturns \/ BootstrapDone \/ OrphanDone

Spec == Init /\ [][Next]_vars

-----------------------------------------------------------------------------
Work == [pc : {"none", "start", "slot", "fetching", "backoff", "cooldown", "awaited", "done"},
         attempt : 0 .. BootstrapAttempts, conn : 0 .. MaxConnections,
         book : 0 .. MaxBooks, stale : BOOLEAN]

\* The variables range over what the service assigns to them, and an attempt
\* number never exceeds bootstrap_attempts.
TypeOK ==
    /\ mode \in Modes /\ needs \in BOOLEAN /\ outcome \in BookIngestOutcome \cup {"none"}
    /\ loop \in {"off", "down", "subscribing", "receiving", "stopping"}
    /\ stop \in BOOLEAN /\ conn \in 0 .. MaxConnections
    /\ connections \in 0 .. MaxConnections /\ broken \in 0 .. MaxConnections
    /\ wanted \in 0 .. MaxBooks /\ books \in 0 .. MaxBooks /\ adding \in 0 .. MaxConnections
    /\ lease \in {"absent", "valid", "expired"}
    /\ admission \in {"unset", "valid", "invalid"}
    /\ task \in Work /\ late \in Work /\ orphan \in BOOLEAN
    /\ tainted \in BOOLEAN /\ poisoned \in BOOLEAN

\* While the stream is being received and the symbol is subscribed and
\* admitted, a book without trusted levels is always somebody's work: a live
\* bootstrap task that will pass its context check, or one whose done callback
\* is about to start the next.  "Recovery requires no depth message, buffer
\* overflow, symbol churn, or WebSocket reconnect."
NeverAbandoned ==
    (/\ loop = "receiving" /\ conn # broken
     /\ wanted # 0 /\ adding = 0 /\ Admitted /\ Noticed
     /\ mode = "cleared")
    => \/ task.pc = "start"
       \/ task.pc = "done" /\ needs
       \/ Alive(task) /\ ContextActive(task, TRUE)

\* A snapshot requested before the connection or the admission was lost is
\* never installed after it, even when its request survives cancellation.
FreshSnapshot == ~poisoned

\* Levels gathered while the metadata lease had run out are never served under
\* the next lease: the old lease is observed before it is replaced.
NothingSurvivesExpiry == lease = "valid" => ~tainted

\* No trusted levels without a connection, and none for a stopped service.
TrustNeedsConnection == mode # "cleared" => conn # 0 /\ ~stop /\ wanted # 0
=============================================================================
