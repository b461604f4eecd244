--------------------------- MODULE TelegramOutbox ---------------------------
(***************************************************************************)
(* The durable ledger of one public Telegram alert                         *)
(* (app/alerts/telegram_outbox.py, SQLitePublicTelegramOutbox).            *)
(*                                                                         *)
(* An alert is stored three times: an event row (public_alert_events), its *)
(* canonical reservation row (telegram_alert_attempts) and one row for     *)
(* each message part (public_alert_delivery_parts).  Every method of the   *)
(* class runs in one BEGIN IMMEDIATE transaction, so each is one step.     *)
(*                                                                         *)
(* Time enters only through comparisons with the clock: a lease is "live"  *)
(* until it is "expired", a retry is "waiting" until it is "due", and      *)
(* "none" is SQL NULL.  A claim draws a fresh uuid4; the n-th one drawn is *)
(* the number n, and 0 is NULL.  The ownership checks of runtime_epoch     *)
(* (require_event_reservation_association, decide_public_effect) concern   *)
(* immutable identity columns and hold for the rows modelled here.         *)
(***************************************************************************)
EXTENDS Integers, FiniteSets

CONSTANTS PartCount,    \* number of chunks split_message produced
          MaxAttempts   \* public_alert_events.max_attempts

ASSUME OutboxAssumption ==
    /\ PartCount \in Nat \ {0}
    /\ MaxAttempts \in Nat \ {0}

VARIABLES event,        \* the public_alert_events row
          reservation,  \* the canonical telegram_alert_attempts row
          parts,        \* the public_alert_delivery_parts rows
          issued        \* how many attempt ids have been drawn

ledgerVars == <<event, reservation, parts, issued>>

Parts == 1 .. PartCount

AUTO_CLAIMABLE_STATES == {"PENDING", "RETRYABLE"}
TERMINAL_STATES ==
    {"SENT", "UNCERTAIN", "FAILED_FINAL", "SKIPPED_DRY_RUN", "POLICY_DISABLED"}
NoSendStates == {"SKIPPED_DRY_RUN", "POLICY_DISABLED", "FAILED_FINAL"}
DeliveryStates == AUTO_CLAIMABLE_STATES \cup TERMINAL_STATES \cup {"IN_FLIGHT"}

\* What record_part_result accepts; anything else it turns into UNCERTAIN.
ResultStates == {"SENT", "RETRYABLE", "UNCERTAIN", "FAILED_FINAL"}

\* "ABSENT" is a row that has not been inserted.
EventRow == [state : DeliveryStates \cup {"ABSENT"},
             status : {"RESERVED", "SENT", "FAILED"},
             attempt : Nat, count : Nat,
             lease : {"none", "live", "expired"},
             retry : {"none", "waiting", "due"},
             uncertainAt : {"none", "set"}, completedAt : {"none", "set"}]
ReservationRow == [state : DeliveryStates \cup {"ABSENT"},
                   attempt : Nat, count : Nat,
                   retry : {"none", "waiting", "due"}]
PartRow == [state : DeliveryStates \cup {"ABSENT"}, attempt : Nat, count : Nat]

NewEvent(state) ==
    [state |-> state, status |-> "RESERVED", attempt |-> 0, count |-> 0,
     lease |-> "none", retry |-> "none",
     uncertainAt |-> "none", completedAt |-> "none"]
NewReservation(state) ==
    [state |-> state, attempt |-> 0, count |-> 0, retry |-> "none"]
NewPart(state) == [state |-> state, attempt |-> 0, count |-> 0]

LedgerInit ==
    /\ event = NewEvent("ABSENT")
    /\ reservation = NewReservation("ABSENT")
    /\ parts = [p \in Parts |-> NewPart("ABSENT")]
    /\ issued = 0

-----------------------------------------------------------------------------
(* Helpers that run inside a transaction.                                  *)

OpenParts == {p \in Parts : parts[p].state \in AUTO_CLAIMABLE_STATES}

Status_IsState(state) == state
Status(state) == IF state = "SENT" THEN "SENT"
                 ELSE IF state \in TERMINAL_STATES THEN "FAILED" ELSE "RESERVED"

\* _mark_event_locked, on the event row e and on the reservation row r.
MarkedEvent(e, state, retry) ==
    [state |-> state, status |-> Status(state),
     attempt |-> e.attempt, count |-> e.count,
     lease |-> "none", retry |-> retry,
     uncertainAt |-> IF state = "UNCERTAIN" THEN "set" ELSE e.uncertainAt,
     completedAt |-> IF state \in NoSendStates \cup {"SENT"}
                     THEN "set" ELSE e.completedAt]
MarkedReservation_KeepsRetry(r, state, retry) == [r EXCEPT !.state = state]
MarkedReservation(r, state, retry) ==
    [state |-> state, attempt |-> r.attempt, count |-> r.count, retry |-> retry]

\* The UPDATE of a granted claim.
ClaimedEvent(e, a) ==
    [state |-> "IN_FLIGHT", status |-> e.status,
     attempt |-> a, count |-> e.count + 1,
     lease |-> "live", retry |-> "none",
     uncertainAt |-> e.uncertainAt, completedAt |-> e.completedAt]
ClaimedReservation(r, a) ==
    [state |-> "IN_FLIGHT", attempt |-> a, count |-> r.count + 1, retry |-> "none"]

-----------------------------------------------------------------------------
(* Transactions.                                                           *)

\* Reservation of the event key, persist_intent_parts and the first commit:
\* the INSERTs of _insert_public_alert_event and insert_attempt stay in the
\* transaction that _deliver_committed_public_alert_intent commits.
CommitIntent ==
    /\ event.state = "ABSENT"
    /\ event' = NewEvent("PENDING")
    /\ reservation' = NewReservation("PENDING")
    /\ parts' = [p \in Parts |-> NewPart("PENDING")]
    /\ UNCHANGED issued

Stale == event.state = "IN_FLIGHT" /\ event.lease # "live"

\* _recover_stale_locked: the attempt id, the status and the lease stay.
RecoverStale ==
    /\ Stale
    /\ event' = [event EXCEPT !.state = "UNCERTAIN", !.uncertainAt = "set"]
    /\ parts' = [p \in Parts |->
                   IF parts[p].state = "IN_FLIGHT"
                   THEN [parts[p] EXCEPT !.state = "UNCERTAIN"] ELSE parts[p]]
    /\ reservation' = [reservation EXCEPT !.state = "UNCERTAIN"]
    /\ UNCHANGED issued

Claimable_InFlight == event.state \in {"PENDING", "RETRYABLE", "IN_FLIGHT"}
Claimable_Failed == event.state \in {"PENDING", "RETRYABLE", "FAILED_FINAL"}
Claimable == /\ event.state \in AUTO_CLAIMABLE_STATES
             /\ event.state = "RETRYABLE" => event.retry # "waiting"

\* claim, from an event that is not stale, refused: nothing is written.
ClaimRefused ==
    /\ event.state # "ABSENT" /\ ~Stale /\ ~Claimable
    /\ UNCHANGED ledgerVars

\* claim, granted: OpenParts are the parts the caller may send.
ClaimGranted ==
    /\ Claimable
    /\ event.count < MaxAttempts
    /\ OpenParts # {}
    /\ event' = ClaimedEvent(event, issued + 1)
    /\ reservation' = ClaimedReservation(reservation, issued + 1)
    /\ issued' = issued + 1
    /\ UNCHANGED parts

\* mark_part_in_flight: the event must still carry the attempt id, whatever
\* its state is (require_part_claim_association).
CanMarkPart(p, a) ==
    /\ a # 0 /\ event.attempt = a
    /\ parts[p].state \in AUTO_CLAIMABLE_STATES

MarkPartInFlight(p, a) ==
    /\ CanMarkPart(p, a)
    /\ parts' = [parts EXCEPT ![p] = [state |-> "IN_FLIGHT", attempt |-> a,
                                      count |-> parts[p].count + 1]]
    /\ UNCHANGED <<event, reservation, issued>>

\* record_part_result, once the event carries the attempt id a.
Effective_NoLimit(result) == result
Effective(result) ==
    IF result = "RETRYABLE" /\ event.count >= MaxAttempts
    THEN "FAILED_FINAL" ELSE result

OwnsPart(p, a) == parts[p].state = "IN_FLIGHT" /\ parts[p].attempt = a

\* No other part remains that is not SENT.
LastUnsent_NoneInFlight(p) == \A q \in Parts \ {p} : parts[q].state # "IN_FLIGHT"
LastUnsent(p) == \A q \in Parts \ {p} : parts[q].state = "SENT"

RecordSent(p, a) ==
    /\ event.attempt = a /\ OwnsPart(p, a)
    /\ parts' = [parts EXCEPT ![p].state = "SENT"]
    /\ IF LastUnsent(p)
       THEN /\ event' = MarkedEvent(event, "SENT", "none")
            /\ reservation' = MarkedReservation(reservation, "SENT", "none")
       ELSE UNCHANGED <<event, reservation>>
    /\ UNCHANGED issued

RecordNotSent(p, a, result) ==
    LET state == Effective(result)
        retry == IF state = "RETRYABLE" THEN "waiting" ELSE "none"
    IN  /\ event.attempt = a /\ OwnsPart(p, a)
        /\ parts' = [parts EXCEPT ![p].state = state]
        /\ event' = MarkedEvent(event, state, retry)
        /\ reservation' = MarkedReservation(reservation, state, retry)
        /\ UNCHANGED issued

\* The part row no longer belongs to the attempt: "part_result_persistence_conflict".
RecordConflict(p, a) ==
    /\ event.attempt = a /\ ~OwnsPart(p, a)
    /\ event' = MarkedEvent(event, "UNCERTAIN", "none")
    /\ reservation' = MarkedReservation(reservation, "UNCERTAIN", "none")
    /\ UNCHANGED <<parts, issued>>

\* mark_uncertain_after_persistence_failure: no guard on state or attempt.
MarkUncertain ==
    /\ event.state # "ABSENT"
    /\ event' = MarkedEvent(event, "UNCERTAIN", "none")
    /\ reservation' = MarkedReservation(reservation, "UNCERTAIN", "none")
    /\ UNCHANGED <<parts, issued>>

\* _no_send_snapshot_matches, against the caller's earlier reading snap.
SnapshotMatches_EventOnly(snap) ==
    /\ snap.state \in AUTO_CLAIMABLE_STATES
    /\ event.state = snap.state /\ event.attempt = snap.attempt
SnapshotMatches(snap) ==
    /\ snap.state \in AUTO_CLAIMABLE_STATES
    /\ event.state = snap.state /\ reservation.state = snap.state
    /\ event.attempt = snap.attempt /\ reservation.attempt = snap.attempt
    /\ event.count = snap.count /\ reservation.count = snap.count
    /\ event.status = "RESERVED" /\ event.lease = "none"
    /\ event.uncertainAt = "none" /\ event.completedAt = "none"
    /\ event.retry = reservation.retry
    /\ IF snap.state = "PENDING" THEN snap.attempt = 0 /\ snap.count = 0
                                 ELSE snap.attempt # 0 /\ snap.count > 0
    /\ \A p \in Parts :
         \/ parts[p] = NewPart("PENDING")
         \/ /\ snap.state = "RETRYABLE" /\ parts[p].state = "RETRYABLE"
            /\ parts[p].attempt = snap.attempt
            /\ parts[p].count \in 1 .. snap.count

\* mark_terminal_without_send, accepted.
Terminalize(snap, state) ==
    /\ SnapshotMatches(snap)
    /\ event' = MarkedEvent(event, state, "none")
    /\ reservation' = MarkedReservation(reservation, state, "none")
    /\ parts' = [p \in Parts |-> [parts[p] EXCEPT !.state = state]]
    /\ UNCHANGED issued

(***************************************************************************)
(* _supersede_public_target_intent (telegram_lifecycle.py): a higher target *)
(* replaces this one.  The caller has read the event's state as seen; the   *)
(* UPDATE of the event is WHERE id = ? and does not look at it again.       *)
(***************************************************************************)
Supersedable_InFlight == AUTO_CLAIMABLE_STATES \cup NoSendStates \cup {"IN_FLIGHT"}
Supersedable == AUTO_CLAIMABLE_STATES \cup NoSendStates

SupersededEvent(e) ==
    [state |-> "FAILED_FINAL", status |-> "FAILED",
     attempt |-> e.attempt, count |-> e.count,
     lease |-> e.lease, retry |-> e.retry,
     uncertainAt |-> e.uncertainAt, completedAt |-> "set"]
SupersededPart(q) ==
    IF q.state \in Supersedable THEN [q EXCEPT !.state = "FAILED_FINAL"] ELSE q
SupersededReservation_Unguarded(r) == [r EXCEPT !.state = "FAILED_FINAL"]
\* The attempts row has its own guard: telegram_status is not 'sent' and
\* delivery_state is neither IN_FLIGHT nor UNCERTAIN.
SupersededReservation(r) ==
    IF r.state \in {"SENT", "IN_FLIGHT", "UNCERTAIN"} THEN r
    ELSE [r EXCEPT !.state = "FAILED_FINAL"]

SupersedeIntent(seen) ==
    /\ IF seen \in Supersedable
       THEN /\ event' = SupersededEvent(event)
            /\ parts' = [p \in Parts |-> SupersededPart(parts[p])]
       ELSE UNCHANGED <<event, parts>>
    /\ reservation' = SupersededReservation(reservation)
    /\ UNCHANGED issued

\* The clock.
LeaseExpires ==
    /\ event.lease = "live"
    /\ event' = [event EXCEPT !.lease = "expired"]
    /\ UNCHANGED <<reservation, parts, issued>>

RetryFallsDue ==
    /\ event.retry = "waiting" /\ reservation.retry = "waiting"
    /\ event' = [event EXCEPT !.retry = "due"]
    /\ reservation' = [reservation EXCEPT !.retry = "due"]
    /\ UNCHANGED <<parts, issued>>

-----------------------------------------------------------------------------
LedgerTypeOK ==
    /\ event \in EventRow
    /\ reservation \in ReservationRow
    /\ parts \in [Parts -> PartRow]
    /\ issued \in Nat

=============================================================================
