--------------------------- MODULE LocalOrderBook ---------------------------
(***************************************************************************)
(* SynchronizedLocalOrderBook (app/microstructure/order_book.py) beside    *)
(* the exchange it copies.                                                 *)
(*                                                                         *)
(* The exchange is external: truth[i] is its book after update i, and      *)
(* cuts[k] is the last update of the k-th diff event, which carries every  *)
(* level that changed since the event before.  The stream may lose, repeat *)
(* and reorder events (ingest is offered any of them at any time) and a    *)
(* REST snapshot may show the best SnapshotLimit levels of any past book.  *)
(* A side of a book maps each price to its quantity, 0 when absent.  The   *)
(* timestamps and the diagnostic counters of the class are left out.       *)
(***************************************************************************)
EXTENDS Integers, FiniteSets, SequencesExt

CONSTANTS Prices,          \* the prices of the model, a range of integers
          MaxQuantity,     \* bound: quantities are 0 .. MaxQuantity
          SnapshotLimit,   \* snapshot_limit: levels per side in a snapshot
          BufferSize,      \* event_buffer_size
          FirstBook,       \* the exchange's book when the model starts
          MaxUpdates       \* bound: updates the exchange makes

VARIABLES truth, cuts, book

vars == <<truth, cuts, book>>

Side == [Prices -> 0 .. MaxQuantity]
Empty == [p \in Prices |-> 0]
Levels(side) == {p \in Prices : side[p] > 0}

\* No bid reaches an ask; a side may be empty, as in a halted market.
NotCrossed(b) == \A p \in Levels(b.bids), q \in Levels(b.asks) : p < q

\* The check made after a snapshot and after every event.
Uncrossed(b) == NotCrossed(b) /\ Levels(b.bids) # {} /\ Levels(b.asks) # {}

-----------------------------------------------------------------------------
(* The exchange.                                                           *)

DepthEvent(k) == [first |-> (IF k = 1 THEN 1 ELSE cuts[k - 1] + 1),
                  final |-> cuts[k],
                  previous |-> IF k = 1 THEN 0 ELSE cuts[k - 1]]
Events == {DepthEvent(k) : k \in 1 .. Len(cuts)}

\* The prices of one side that an event reports.
Changed(e, side) ==
    {p \in Prices : \E i \in e.first .. e.final :
        i = 1 \/ truth[i][side][p] # truth[i - 1][side][p]}

Best(side, better(_, _)) ==
    {p \in Levels(side) :
        Cardinality({q \in Levels(side) : better(q, p)}) < SnapshotLimit}
DepthSnapshot(i) ==
    LET above(q, p) == q > p
        below(q, p) == q < p
        keep(side, S) == [p \in Prices |-> IF p \in S THEN side[p] ELSE 0]
    IN  [id |-> i,
         bids |-> keep(truth[i].bids, Best(truth[i].bids, above)),
         asks |-> keep(truth[i].asks, Best(truth[i].asks, below))]

ExchangeUpdate ==
    /\ Len(truth) < MaxUpdates
    /\ \E side \in {"bids", "asks"}, p \in Prices, q \in 0 .. MaxQuantity :
         LET next == [truth[Len(truth)] EXCEPT ![side][p] = q]
         IN  /\ next # truth[Len(truth)] /\ NotCrossed(next)
             /\ truth' = Append(truth, next)
    /\ UNCHANGED <<cuts, book>>

ExchangePublish ==
    /\ Len(truth) > (IF cuts = <<>> THEN 0 ELSE Last(cuts))
    /\ cuts' = Append(cuts, Len(truth))
    /\ UNCHANGED <<truth, book>>

-----------------------------------------------------------------------------
(* The methods of the class on a book b; id 0 is None, outcome is the      *)
(* value returned.                                                         *)

ClearTrustedBook(b) ==
    [b EXCEPT !.bids = Empty, !.asks = Empty, !.id = 0, !.synchronized = FALSE,
              !.installed = FALSE, !.floor = 0, !.ceiling = 0]

Invalidate(b, o) ==
    [ClearTrustedBook(b) EXCEPT !.buffer = <<>>, !.needs = TRUE, !.outcome = o]

ApplyLevels(b, e) ==
    [b EXCEPT !.bids = [p \in Prices |-> IF p \in Changed(e, "bids")
                                         THEN truth[e.final].bids[p] ELSE @[p]],
              !.asks = [p \in Prices |-> IF p \in Changed(e, "asks")
                                         THEN truth[e.final].asks[p] ELSE @[p]],
              !.id = e.final]

Applied_Unchecked(b, e, o) == [ApplyLevels(b, e) EXCEPT !.outcome = o]
Applied(b, e, o) ==
    LET c == ApplyLevels(b, e)
    IN  IF Uncrossed(c) THEN [c EXCEPT !.outcome = o]
        ELSE Invalidate(b, "NEEDS_RESYNC")

ApplyLiveEvent_NoGapCheck(b, e) ==
    IF e.final <= b.id THEN [b EXCEPT !.outcome = "IGNORED_OLD"]
    ELSE Applied(b, e, "APPLIED")
ApplyLiveEvent_NoOldCheck(b, e) ==
    IF e.previous > b.id THEN Invalidate(b, "NEEDS_RESYNC")
    ELSE Applied(b, e, "APPLIED")
ApplyLiveEvent(b, e) ==
    IF e.final <= b.id THEN [b EXCEPT !.outcome = "IGNORED_OLD"]
    ELSE IF e.previous # b.id THEN Invalidate(b, "NEEDS_RESYNC")
    ELSE Applied(b, e, "APPLIED")

\* The loop over the remaining events returns at the first NEEDS_RESYNC.
Replay_IgnoresOutcome(b, events) ==
    [FoldLeft(LAMBDA c, e : IF c.synchronized THEN ApplyLiveEvent(c, e) ELSE c,
              b, events) EXCEPT !.outcome = "SYNCHRONIZED"]
Replay(b, events) ==
    LET end == FoldLeft(LAMBDA c, e : IF c.synchronized THEN ApplyLiveEvent(c, e)
                                      ELSE c, b, events)
    IN  IF end.synchronized THEN [end EXCEPT !.outcome = "SYNCHRONIZED"] ELSE end

ReconcileBuffer(b) ==
    LET kept == SelectSeq(b.buffer, LAMBDA e : e.final >= b.id)
        bridge == Head(kept)
        bridged == Applied(b, bridge, "SYNCHRONIZED")
    IN  IF kept = <<>> THEN [b EXCEPT !.buffer = <<>>, !.outcome = "BUFFERED"]
        ELSE IF ~(bridge.first <= b.id /\ b.id <= bridge.final)
        THEN Invalidate(b, "NEEDS_RESYNC")
        ELSE IF bridged.outcome = "NEEDS_RESYNC" THEN bridged
        ELSE Replay([bridged EXCEPT !.synchronized = TRUE, !.needs = FALSE,
                                    !.buffer = <<>>], Tail(kept))

Buffered(b, e) ==
    LET c == [b EXCEPT !.buffer = Append(@, e), !.outcome = "BUFFERED"]
    IN  IF b.installed THEN ReconcileBuffer(c) ELSE c

Ingest_Unbounded(b, e) ==
    IF b.synchronized THEN ApplyLiveEvent(b, e) ELSE Buffered(b, e)
Ingest(b, e) ==
    IF b.synchronized THEN ApplyLiveEvent(b, e)
    ELSE IF Len(b.buffer) >= BufferSize THEN Invalidate(b, "BUFFER_OVERFLOW")
    ELSE Buffered(b, e)

InstallSnapshot(b, s) ==
    IF ~Uncrossed(s) THEN Invalidate(b, "NEEDS_RESYNC")
    ELSE ReconcileBuffer(
           [b EXCEPT !.bids = s.bids, !.asks = s.asks, !.id = s.id,
                     !.installed = TRUE, !.synchronized = FALSE, !.needs = FALSE,
                     !.floor = Min(Levels(s.bids)),
                     !.ceiling = Max(Levels(s.asks))])

\* mark_connected and mark_disconnected.
Mark(b) == Invalidate(b, "none")

\* The buffer is kept.
MarkSnapshotFailed(b) ==
    [ClearTrustedBook(b) EXCEPT !.needs = FALSE, !.outcome = "none"]

-----------------------------------------------------------------------------
NewBook == [bids |-> Empty, asks |-> Empty, id |-> 0,
            synchronized |-> FALSE, installed |-> FALSE, needs |-> TRUE,
            buffer |-> <<>>, floor |-> 0, ceiling |-> 0, outcome |-> "none"]

Init == truth = <<FirstBook>> /\ cuts = <<>> /\ book = NewBook

Receive == /\ \E e \in Events : book' = Ingest(book, e)
           /\ UNCHANGED <<truth, cuts>>
TakeSnapshot == /\ \E i \in 1 .. Len(truth) :
                     book' = InstallSnapshot(book, DepthSnapshot(i))
                /\ UNCHANGED <<truth, cuts>>
FailSnapshot == /\ book' = MarkSnapshotFailed(book)
                /\ UNCHANGED <<truth, cuts>>
Reconnect == /\ book' = Mark(book)
             /\ UNCHANGED <<truth, cuts>>

Next == \/ ExchangeUpdate \/ ExchangePublish
        \/ Receive \/ TakeSnapshot \/ FailSnapshot \/ Reconnect

Spec == Init /\ [][Next]_vars

-----------------------------------------------------------------------------
\* The fields hold what the class assigns to them and the buffer is bounded.
TypeOK ==
    /\ book.bids \in Side /\ book.asks \in Side
    /\ book.id \in 0 .. Len(truth)
    /\ Len(book.buffer) <= BufferSize
    /\ \A i \in 1 .. Len(book.buffer) : book.buffer[i] \in Events
    /\ book.synchronized => book.installed /\ book.buffer = <<>>
    /\ book.installed => book.id # 0 /\ ~book.needs

\* A synchronized book is the exchange's book at last_update_id: inside the
\* coverage boundaries every level agrees, outside them none is invented.
SynchronizedIsExact ==
    book.synchronized =>
      LET there == truth[book.id]
      IN  \A p \in Prices :
            /\ p >= book.floor \/ book.bids[p] > 0 => book.bids[p] = there.bids[p]
            /\ p <= book.ceiling \/ book.asks[p] > 0 => book.asks[p] = there.asks[p]

\* A reader of a synchronized book finds a best bid below a best ask, so
\* snapshot() neither raises nor has to revoke the book itself.
SynchronizedIsReadable == book.synchronized => Uncrossed(book)

\* What readers see never goes back in time without being withdrawn first.
NeverBackInTime ==
    [][book.synchronized /\ book'.synchronized => book'.id >= book.id]_vars

\* The book keeps the promise its service relies on.
Control == INSTANCE BookControl WITH
    mode <- IF book.synchronized THEN "synchronized"
            ELSE IF book.installed THEN "bridging" ELSE "cleared",
    needs <- book.needs,
    outcome <- book.outcome
ImplementsControl == Control!BookSpec
=============================================================================
