---------------------------- MODULE AlertDelivery ----------------------------
(***************************************************************************)
(* What the outbox promises about one public alert, seen from the channel  *)
(* and from whoever reads the event's state.                               *)
(*                                                                         *)
(* A part is published at most once and only while the alert is undecided; *)
(* "sent" means everything was published, "silent" that nothing was,       *)
(* "failed" that something was not.  "sent" and "failed" are final, and a  *)
(* silent alert can only be withdrawn, which makes it failed.              *)
(*                                                                         *)
(* The promise has one hole.  A withdrawal that decides on an old reading  *)
(* of the alert disputes it: whatever the alert was it may become failed,  *)
(* and a disputed failure is as good as undecided.  At-most-once, "sent"   *)
(* and "silent" keep their meaning even then.                              *)
(***************************************************************************)
EXTENDS Naturals

CONSTANT Messages          \* the parts of the alert

VARIABLES verdict,         \* what the event row says
          copies,          \* how often each part is in the channel
          disputed         \* has a withdrawal acted on an old reading?

alertVars == <<verdict, copies, disputed>>

Undecided == \/ verdict \in {"open", "uncertain"}
             \/ disputed /\ verdict = "failed"

AlertInit == /\ verdict = "absent" /\ disputed = FALSE
             /\ copies = [m \in Messages |-> 0]

Announce == /\ verdict = "absent" /\ verdict' = "open"
            /\ UNCHANGED <<copies, disputed>>

Publish(m) == /\ Undecided /\ copies[m] = 0
              /\ copies' = [copies EXCEPT ![m] = 1]
              /\ UNCHANGED <<verdict, disputed>>

Doubt == /\ Undecided /\ verdict' \in {"open", "uncertain"}
         /\ UNCHANGED <<copies, disputed>>

Decide == /\ Undecided
          /\ \/ verdict' = "sent" /\ \A m \in Messages : copies[m] = 1
             \/ verdict' = "silent" /\ \A m \in Messages : copies[m] = 0
             \/ verdict' = "failed" /\ \E m \in Messages : copies[m] = 0
          /\ UNCHANGED <<copies, disputed>>

Withdraw == /\ verdict = "silent" /\ verdict' = "failed"
            /\ UNCHANGED <<copies, disputed>>

Dispute == /\ verdict # "absent" /\ verdict' \in {verdict, "failed"}
           /\ disputed' = TRUE
           /\ UNCHANGED copies

AlertNext == \/ Announce \/ (\E m \in Messages : Publish(m))
             \/ Doubt \/ Decide \/ Withdraw \/ Dispute

AlertSpec == AlertInit /\ [][AlertNext]_alertVars
=============================================================================
