---------------------------- MODULE BookControl ----------------------------
(***************************************************************************)
(* What a local order book promises to the service that owns it, without   *)
(* its levels (app/microstructure/order_book.py).  A book is "cleared",    *)
(* "bridging" (a snapshot is installed, the event that continues it has    *)
(* not arrived) or "synchronized"; needs is _needs_resync, the request for *)
(* a new snapshot, and outcome is what the last method returned ("none"    *)
(* for the methods that return nothing).  LocalOrderBook is shown to       *)
(* implement this specification, OrderBookService is built on it.          *)
(***************************************************************************)
VARIABLES mode, needs, outcome

bookVars == <<mode, needs, outcome>>

BookIngestOutcome == {"BUFFERED", "SYNCHRONIZED", "APPLIED", "IGNORED_OLD",
                      "NEEDS_RESYNC", "BUFFER_OVERFLOW"}
Modes == {"cleared", "bridging", "synchronized"}

BookInit == mode = "cleared" /\ needs = TRUE /\ outcome = "none"

Becomes(m, n, o) == mode' = m /\ needs' = n /\ outcome' = o
Returns(o) == UNCHANGED <<mode, needs>> /\ outcome' = o

\* mark_connected and mark_disconnected.
Mark == Becomes("cleared", TRUE, "none")

\* The bootstrap task that gives up asks again by itself, after a cooldown.
MarkSnapshotFailed == Becomes("cleared", FALSE, "none")

IngestDepth ==
    \/ mode = "cleared" /\ (\/ Returns("BUFFERED")
                            \/ Becomes("cleared", TRUE, "BUFFER_OVERFLOW"))
    \/ mode = "bridging" /\ (\/ Returns("BUFFERED")
                             \/ Becomes("synchronized", FALSE, "SYNCHRONIZED"))
    \/ mode = "synchronized" /\ (Returns("APPLIED") \/ Returns("IGNORED_OLD"))
    \/ mode # "cleared" /\ Becomes("cleared", TRUE, "NEEDS_RESYNC")

Install ==
    \/ Becomes("bridging", FALSE, "BUFFERED")
    \/ Becomes("synchronized", FALSE, "SYNCHRONIZED")
    \/ Becomes("cleared", TRUE, "NEEDS_RESYNC")

BookNext == Mark \/ MarkSnapshotFailed \/ IngestDepth \/ Install

BookSpec == BookInit /\ [][BookNext]_bookVars
=============================================================================
