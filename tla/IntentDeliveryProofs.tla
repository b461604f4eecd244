------------------------ MODULE IntentDeliveryProofs ------------------------
(***************************************************************************)
(* Machine-checked proofs about IntentDelivery, for every number of parts, *)
(* attempts, senders and crashes.                                          *)
(***************************************************************************)
EXTENDS IntentDelivery, TLAPS

USE DEF Parts, AUTO_CLAIMABLE_STATES, TERMINAL_STATES, NoSendStates,
        DeliveryStates, ResultStates

-----------------------------------------------------------------------------
(* Type correctness.                                                       *)

\* _mark_event_locked and the claim's UPDATEs produce rows of the schema.
LEMMA RowTypes ==
    ASSUME NEW e \in EventRow, NEW r \in ReservationRow,
           NEW state \in DeliveryStates, NEW retry \in {"none", "waiting", "due"}
    PROVE  /\ MarkedEvent(e, state, retry) \in EventRow
           /\ MarkedReservation(r, state, retry) \in ReservationRow
  <1>1. MarkedEvent(e, state, retry) \in EventRow
    BY DEF MarkedEvent, EventRow, Status
  <1>2. MarkedReservation(r, state, retry) \in ReservationRow
    BY DEF MarkedReservation, ReservationRow
  <1> QED BY <1>1, <1>2

LEMMA ClaimedRowTypes ==
    ASSUME NEW e \in EventRow, NEW r \in ReservationRow, NEW a \in Nat
    PROVE  /\ ClaimedEvent(e, a) \in EventRow
           /\ ClaimedReservation(r, a) \in ReservationRow
  <1>1. ClaimedEvent(e, a) \in EventRow
    BY DEF ClaimedEvent, EventRow
  <1>2. ClaimedReservation(r, a) \in ReservationRow
    BY DEF ClaimedReservation, ReservationRow
  <1> QED BY <1>1, <1>2

\* Every transaction of the ledger keeps its rows in the schema.
LEMMA NewRowTypes ==
    ASSUME NEW state \in DeliveryStates \cup {"ABSENT"}
    PROVE  /\ NewEvent(state) \in EventRow
           /\ NewReservation(state) \in ReservationRow
           /\ NewPart(state) \in PartRow
  <1>1. NewEvent(state) \in EventRow BY DEF NewEvent, EventRow
  <1>2. NewReservation(state) \in ReservationRow BY DEF NewReservation, ReservationRow
  <1>3. NewPart(state) \in PartRow BY DEF NewPart, PartRow
  <1> QED BY <1>1, <1>2, <1>3

LEMMA CommitTypes == LedgerTypeOK /\ CommitIntent => LedgerTypeOK'
  BY NewRowTypes DEF LedgerTypeOK, CommitIntent

LEMMA RecoverStaleTypes == LedgerTypeOK /\ RecoverStale => LedgerTypeOK'
  <1> SUFFICES ASSUME LedgerTypeOK, RecoverStale PROVE LedgerTypeOK' OBVIOUS
  <1>1. event' \in EventRow BY DEF LedgerTypeOK, RecoverStale, EventRow
  <1>2. reservation' \in ReservationRow
    BY DEF LedgerTypeOK, RecoverStale, ReservationRow
  <1>3. parts' \in [Parts -> PartRow] BY DEF LedgerTypeOK, RecoverStale, PartRow
  <1> QED BY <1>1, <1>2, <1>3 DEF LedgerTypeOK, RecoverStale

LEMMA ClaimTypes == LedgerTypeOK /\ ClaimGranted => LedgerTypeOK'
  BY ClaimedRowTypes DEF LedgerTypeOK, ClaimGranted

\* mark_part_in_flight writes a well-formed part row.
LEMMA MarkPartTypes ==
    ASSUME LedgerTypeOK, NEW p \in Parts, NEW a \in Nat, MarkPartInFlight(p, a)
    PROVE  LedgerTypeOK'
  BY DEF LedgerTypeOK, MarkPartInFlight, PartRow

LEMMA RecordSentTypes ==
    ASSUME LedgerTypeOK, NEW p \in Parts, NEW a \in Nat, RecordSent(p, a)
    PROVE  LedgerTypeOK'
  <1>1. parts' \in [Parts -> PartRow]
    BY DEF LedgerTypeOK, RecordSent, PartRow
  <1>2. event' \in EventRow /\ reservation' \in ReservationRow /\ issued' \in Nat
    BY RowTypes DEF LedgerTypeOK, RecordSent
  <1> QED BY <1>1, <1>2 DEF LedgerTypeOK

LEMMA RecordNotSentTypes ==
    ASSUME LedgerTypeOK, NEW p \in Parts, NEW a \in Nat,
           NEW res \in ResultStates, RecordNotSent(p, a, res)
    PROVE  LedgerTypeOK'
  <1> DEFINE state == Effective(res)
             retry == IF state = "RETRYABLE" THEN "waiting" ELSE "none"
  <1>1. state \in DeliveryStates BY DEF Effective
  <1>2. parts' \in [Parts -> PartRow]
    BY <1>1 DEF LedgerTypeOK, RecordNotSent, PartRow
  <1>3. event' \in EventRow /\ reservation' \in ReservationRow /\ issued' \in Nat
    BY <1>1, RowTypes DEF LedgerTypeOK, RecordNotSent
  <1> QED BY <1>2, <1>3 DEF LedgerTypeOK

\* So do the two ways to quarantine the event.
LEMMA MarkTypes ==
    LedgerTypeOK /\ (MarkUncertain \/ \E p, a : RecordConflict(p, a)) => LedgerTypeOK'
  BY RowTypes DEF LedgerTypeOK, MarkUncertain, RecordConflict

LEMMA TerminalizeTypes ==
    ASSUME LedgerTypeOK, NEW sn, NEW state \in NoSendStates, Terminalize(sn, state)
    PROVE  LedgerTypeOK'
  <1>1. parts' \in [Parts -> PartRow]
    BY DEF LedgerTypeOK, Terminalize, PartRow
  <1>2. event' \in EventRow /\ reservation' \in ReservationRow /\ issued' \in Nat
    BY RowTypes DEF LedgerTypeOK, Terminalize
  <1> QED BY <1>1, <1>2 DEF LedgerTypeOK

\* What a supersession makes of an event row.
LEMMA SupersededEventRow ==
    ASSUME NEW e \in EventRow
    PROVE  /\ SupersededEvent(e) \in EventRow
           /\ SupersededEvent(e).state = "FAILED_FINAL"
           /\ SupersededEvent(e).attempt = e.attempt
           /\ SupersededEvent(e).count = e.count
           /\ SupersededEvent(e).retry = e.retry
  BY DEF SupersededEvent, EventRow, DeliveryStates, TERMINAL_STATES

\* A supersession ends the event or leaves it as it is.
LEMMA SupersededState ==
    ASSUME NEW seen, SupersedeIntent(seen)
    PROVE  \/ event' = event
           \/ event'.state = "FAILED_FINAL" /\ seen \in Supersedable
  <1>1. SupersededEvent(event).state = "FAILED_FINAL" BY DEF SupersededEvent
  <1> QED BY <1>1 DEF SupersedeIntent

\* And it writes well-formed rows.
LEMMA SupersedeTypes ==
    ASSUME LedgerTypeOK, NEW seen, SupersedeIntent(seen)
    PROVE  LedgerTypeOK'
  <1> USE DEF LedgerTypeOK, SupersedeIntent
  <1>1. event' \in EventRow BY SupersededEventRow
  <1>2. reservation' \in ReservationRow BY DEF SupersededReservation, ReservationRow
  <1>3. parts' \in [Parts -> PartRow] BY DEF SupersededPart, PartRow
  <1> QED BY <1>1, <1>2, <1>3

LEMMA ClockTypes == LedgerTypeOK /\ (LeaseExpires \/ RetryFallsDue) => LedgerTypeOK'
  BY DEF LedgerTypeOK, LeaseExpires, RetryFallsDue, EventRow, ReservationRow

\* The rows and the locals keep their types in every run of any number of
\* senders: the record the code writes is always one the schema admits.
THEOREM TypeCorrect == Spec => []TypeOK
  <1> USE OutboxAssumption, DeliveryAssumption DEF TypeOK
  <1>1. Init => TypeOK
    <2>1. LedgerInit => LedgerTypeOK BY NewRowTypes DEF LedgerInit, LedgerTypeOK
    <2>2. Init => overtaken \in BOOLEAN BY DEF Init
    <2> QED BY <2>1, <2>2 DEF Init, Labels, NoSnapshot, SnapshotRow
  <1>2. TypeOK /\ [Next]_vars => TypeOK'
    <2> SUFFICES ASSUME TypeOK, [Next]_vars PROVE TypeOK' OBVIOUS
    <2> USE DEF Labels
    <2>1. ASSUME NEW s \in Senders, Commit(s) PROVE TypeOK'
      BY <2>1, CommitTypes DEF Commit, GoTo
    <2>2. EventSnapshot \in SnapshotRow
      BY DEF EventSnapshot, SnapshotRow, LedgerTypeOK, EventRow
    <2>3. ASSUME NEW s \in Senders, Recover(s) PROVE TypeOK'
      BY <2>2, <2>3 DEF Recover, GoTo, ledgerVars, LedgerTypeOK
    <2>4. ASSUME NEW s \in Senders, Return(s), LedgerTypeOK',
                 UNCHANGED accepted, crashes' \in 0 .. MaxCrashes,
                 overtaken' \in BOOLEAN
          PROVE  TypeOK'
      BY <2>4 DEF Return, NoSnapshot, SnapshotRow
    <2>5. ASSUME UNCHANGED ledgerVars PROVE LedgerTypeOK'
      BY <2>5 DEF ledgerVars, LedgerTypeOK
    <2>6. ASSUME NEW s \in Senders, RecoverTerminal(s) PROVE TypeOK'
      BY <2>4, <2>5, <2>6, TerminalizeTypes DEF RecoverTerminal
    <2>7. ASSUME NEW s \in Senders, RecoverDeliver(s) PROVE TypeOK'
      BY <2>5, <2>7 DEF RecoverDeliver, GoTo
    <2>8. ASSUME NEW s \in Senders, ReadSnapshot(s) PROVE TypeOK'
      BY <2>2, <2>5, <2>8 DEF ReadSnapshot, GoTo
    <2>9. ASSUME NEW s \in Senders, NoSend(s) PROVE TypeOK'
      BY <2>4, <2>5, <2>9, TerminalizeTypes DEF NoSend
    <2>10. ASSUME NEW s \in Senders, ClaimDenied(s) PROVE TypeOK'
      BY <2>4, <2>5, <2>10, RecoverStaleTypes DEF ClaimDenied, ClaimRefused
    <2>11. ASSUME NEW s \in Senders, Claim(s) PROVE TypeOK'
      <3>1. LedgerTypeOK' BY <2>11, ClaimTypes DEF Claim
      <3>2. attempt' \in [Senders -> Nat] /\ todo' \in [Senders -> SUBSET Parts]
        BY <2>11 DEF Claim, OpenParts, LedgerTypeOK
      <3>3. UNCHANGED <<part, result, snap, accepted, crashes, overtaken>>
        BY <2>11 DEF Claim
      <3>4. pc' = [pc EXCEPT ![s] = "claimed"] BY <2>11 DEF Claim, GoTo
      <3> QED BY <3>1, <3>2, <3>3, <3>4
    <2>12. ASSUME NEW s \in Senders, StartPart(s) PROVE TypeOK'
      <3>1. PICK p \in Parts : /\ MarkPartInFlight(p, attempt[s])
                               /\ part' = [part EXCEPT ![s] = p]
        BY <2>12 DEF StartPart
      <3>2. LedgerTypeOK' BY <3>1, MarkPartTypes
      <3>3. UNCHANGED <<attempt, todo, result, snap, accepted, crashes, overtaken>>
        BY <2>12 DEF StartPart
      <3>4. pc' = [pc EXCEPT ![s] = "sending"] BY <2>12 DEF StartPart, GoTo
      <3> QED BY <3>1, <3>2, <3>3, <3>4
    <2>13. ASSUME NEW s \in Senders, Transmit(s) PROVE TypeOK'
      BY <2>5, <2>13 DEF Transmit, GoTo, Classify, Causes
    <2>14. ASSUME NEW s \in Senders, RecordConfirmed(s) PROVE TypeOK'
      <3>1. LedgerTypeOK' BY <2>14, RecordSentTypes DEF RecordConfirmed
      <3>2. CASE LastUnsent(part[s]) \/ todo[s] = {part[s]}
        BY <2>4, <2>14, <3>1, <3>2 DEF RecordConfirmed
      <3>3. CASE ~(LastUnsent(part[s]) \/ todo[s] = {part[s]})
        <4>1. /\ UNCHANGED <<attempt, part, result, snap, accepted, crashes, overtaken>>
              /\ pc' = [pc EXCEPT ![s] = "claimed"]
              /\ todo' = [todo EXCEPT ![s] = todo[s] \ {part[s]}]
          BY <2>14, <3>3 DEF RecordConfirmed, GoTo
        <4>2. todo' \in [Senders -> SUBSET Parts] BY <4>1
        <4> QED BY <3>1, <4>1, <4>2
      <3> QED BY <3>2, <3>3
    <2>15. ASSUME NEW s \in Senders, RecordFailure(s) PROVE TypeOK'
      <3>1. LedgerTypeOK'
        <4>1. CASE RecordNotSent(part[s], attempt[s], result[s])
          <5>1. part[s] \in Parts /\ attempt[s] \in Nat /\ result[s] \in ResultStates
            BY <2>15 DEF RecordFailure
          <5> QED BY <4>1, <5>1, RecordNotSentTypes
        <4>2. CASE RecordConflict(part[s], attempt[s])
          BY <4>2, MarkTypes
        <4> QED BY <2>15, <4>1, <4>2 DEF RecordFailure
      <3> QED BY <2>4, <2>15, <3>1 DEF RecordFailure
    <2>16. ASSUME NEW s \in Senders, RecordError(s) PROVE TypeOK'
      BY <2>4, <2>5, <2>16, MarkTypes DEF RecordError
    <2>17. ASSUME NEW s \in Senders, Crash(s) PROVE TypeOK'
      BY <2>4, <2>5, <2>17 DEF Crash
    <2>20. ASSUME NEW s \in Senders, PartDenied(s) PROVE TypeOK'
      BY <2>4, <2>5, <2>20, MarkTypes DEF PartDenied
    <2>21. ASSUME NEW s \in Senders, ReadSuperseded(s) PROVE TypeOK'
      BY <2>2, <2>5, <2>21 DEF ReadSuperseded, GoTo
    <2>22. ASSUME NEW s \in Senders, Supersede(s) PROVE TypeOK'
      <3>1. overtaken' \in BOOLEAN BY <2>22 DEF Supersede
      <3>2. LedgerTypeOK' BY <2>22, SupersedeTypes DEF Supersede
      <3> QED BY <2>4, <2>22, <3>1, <3>2 DEF Supersede
    <2>18. ASSUME Clock PROVE TypeOK'
      BY <2>18, ClockTypes DEF Clock, senderVars
    <2>19. CASE UNCHANGED vars
      BY <2>5, <2>19 DEF vars, senderVars
    <2> QED
      BY <2>1, <2>3, <2>6, <2>7, <2>8, <2>9, <2>10, <2>11, <2>12, <2>13, <2>14,
         <2>15, <2>16, <2>17, <2>18, <2>19, <2>20, <2>21, <2>22 DEF Next, Work
  <1> QED BY <1>1, <1>2, PTL DEF Spec

-----------------------------------------------------------------------------
(* The inductive invariant.  It splits into what the ledger and the channel *)
(* say (LedgerInv) and what the holder of the claim knows (holder parts).   *)

LedgerInv == PartInv /\ EventInv /\ ProjectionsAgree /\ ClaimIsDeliverable

\* Without a holder only the ledger part of the invariant says anything.
LEMMA NoHolderSuffices ==
    ASSUME Holders' = {}, LedgerInv'
    PROVE  DeliveryInv'
  BY DEF DeliveryInv, LedgerInv, HolderInv, SingleHolder, WorkInv, SendingInv

\* A step that touches neither the ledger nor the channel, and no local of a
\* sender that holds the claim after it, preserves the invariant.
LEMMA FramePreserves ==
    ASSUME DeliveryInv, UNCHANGED ledgerVars, UNCHANGED accepted,
           UNCHANGED overtaken, event.state = "ABSENT" => pc' = pc,
           \A t \in Holders' : /\ t \in Holders
                              /\ pc'[t] = pc[t] /\ attempt'[t] = attempt[t]
                              /\ todo'[t] = todo[t] /\ part'[t] = part[t]
                              /\ result'[t] = result[t]
    PROVE  DeliveryInv'
  <1> USE DEF ledgerVars
  <1>1. HolderInv' BY DEF DeliveryInv, HolderInv
  <1>2. SingleHolder' BY DEF DeliveryInv, SingleHolder
  <1>3. WorkInv' BY DEF DeliveryInv, WorkInv, Dropped
  <1>4. SendingInv' BY DEF DeliveryInv, SendingInv, OwnsPart
  <1>5. LedgerInv'
    BY DEF DeliveryInv, LedgerInv, PartInv, EventInv, ProjectionsAgree,
           ClaimIsDeliverable, OpenParts, Dropped
  <1> QED BY <1>1, <1>2, <1>3, <1>4, <1>5 DEF DeliveryInv, LedgerInv

\* Also when a supersession is noted that leaves the parts alone.
LEMMA HoldersWorkKept ==
    ASSUME WorkInv, SendingInv, UNCHANGED <<parts, accepted>>, overtaken => overtaken',
           \A t \in Holders' : /\ t \in Holders
                              /\ pc'[t] = pc[t] /\ attempt'[t] = attempt[t]
                              /\ todo'[t] = todo[t] /\ part'[t] = part[t]
                              /\ result'[t] = result[t]
    PROVE  WorkInv' /\ SendingInv'
  <1>1. \A p : Dropped(p) => Dropped(p)' BY DEF Dropped
  <1>2. WorkInv' BY <1>1 DEF WorkInv
  <1>3. SendingInv' BY DEF SendingInv, OwnsPart
  <1> QED BY <1>2, <1>3

\* The states of an event that a sender holds.
HeldStates == {"IN_FLIGHT", "UNCERTAIN", "FAILED_FINAL"}

\* Outside them nobody holds the claim, and a FAILED_FINAL event is held only
\* when a supersession has overwritten it.
LEMMA UnheldStates ==
    ASSUME DeliveryInv
    PROVE  /\ event.state \notin HeldStates => Holders = {}
           /\ event.state = "FAILED_FINAL" => Holders = {} \/ overtaken
  BY DEF DeliveryInv, HolderInv, HeldStates

\* A sender is at work only on an event that exists.
LEMMA BusyEventExists ==
    ASSUME DeliveryInv, NEW s \in Senders, pc[s] # "idle"
    PROVE  event.state # "ABSENT"
  BY DEF DeliveryInv, EventInv

\* When the one holder returns nobody holds the claim.
LEMMA HolderReturns ==
    ASSUME TypeOK, DeliveryInv, NEW s \in Senders, Return(s),
           s \in Holders \/ Holders = {}
    PROVE  Holders' = {}
  BY DEF TypeOK, DeliveryInv, SingleHolder, Holders, Return

\* When any sender returns the others keep what they hold.
LEMMA ReturnFrame ==
    ASSUME TypeOK, DeliveryInv, NEW s \in Senders, Return(s),
           UNCHANGED ledgerVars, UNCHANGED accepted, UNCHANGED overtaken
    PROVE  DeliveryInv'
  <1>1. \A t \in Holders' : /\ t \in Holders
                            /\ pc'[t] = pc[t] /\ attempt'[t] = attempt[t]
                            /\ todo'[t] = todo[t] /\ part'[t] = part[t]
                            /\ result'[t] = result[t]
    BY DEF TypeOK, Holders, Return
  <1>2. event.state = "ABSENT" => pc' = pc
    BY DEF TypeOK, DeliveryInv, EventInv, Return
  <1> QED BY <1>1, <1>2, FramePreserves

\* An alert that does not exist yet satisfies the invariant.
LEMMA InitHolds == Init => DeliveryInv
  <1> SUFFICES ASSUME Init PROVE DeliveryInv OBVIOUS
  <1> USE OutboxAssumption DEF Init, LedgerInit, NewEvent, NewReservation, NewPart
  <1>1. Holders = {} BY DEF Holders
  <1>2. HolderInv /\ SingleHolder /\ WorkInv /\ SendingInv
    BY <1>1 DEF HolderInv, SingleHolder, WorkInv, SendingInv
  <1>3. PartInv BY DEF PartInv
  <1>4. EventInv BY DEF EventInv
  <1>5. ProjectionsAgree /\ ClaimIsDeliverable BY DEF ProjectionsAgree, ClaimIsDeliverable
  <1> QED BY <1>2, <1>3, <1>4, <1>5 DEF DeliveryInv

LEMMA CommitHolds ==
    ASSUME TypeOK, DeliveryInv, NEW s \in Senders, Commit(s)
    PROVE  DeliveryInv'
  <1> USE DEF Commit, CommitIntent, NewEvent, NewReservation, NewPart
  <1>1. Holders' = {}
    BY UnheldStates DEF TypeOK, Holders, GoTo, HeldStates
  <1>2. PartInv' BY DEF DeliveryInv, PartInv, EventInv
  <1>3. EventInv' BY DEF EventInv
  <1>4. ProjectionsAgree' BY DEF ProjectionsAgree
  <1>5. ClaimIsDeliverable'
    <2>1. 1 \in Parts /\ parts'[1].state = "PENDING" BY OutboxAssumption
    <2>2. (OpenParts # {})' BY <2>1 DEF OpenParts
    <2>3. event'.count = 0 OBVIOUS
    <2> QED BY <2>2, <2>3, OutboxAssumption DEF ClaimIsDeliverable
  <1> QED BY <1>1, <1>2, <1>3, <1>4, <1>5, NoHolderSuffices DEF LedgerInv

\* A snapshot that matches speaks of an open event, so nobody holds it.
LEMMA TerminalizeHolds ==
    ASSUME TypeOK, DeliveryInv, NEW s \in Senders, NEW sn,
           NEW state \in NoSendStates, Terminalize(sn, state), Return(s),
           UNCHANGED accepted
    PROVE  DeliveryInv'
  <1>1. event.state \in AUTO_CLAIMABLE_STATES
    BY DEF Terminalize, SnapshotMatches
  <1>2. Holders' = {}
    BY <1>1, UnheldStates, HolderReturns DEF HeldStates
  <1>3. \A p \in Parts : parts'[p].state = state
    BY DEF TypeOK, LedgerTypeOK, PartRow, Terminalize
  <1>4. \A p \in Parts : parts[p].state \in AUTO_CLAIMABLE_STATES
    <2>1. SnapshotMatches(sn) BY DEF Terminalize
    <2>2. \A p \in Parts : parts[p] = NewPart("PENDING") \/ parts[p].state = "RETRYABLE"
      BY <2>1 DEF SnapshotMatches
    <2> QED BY <2>2 DEF NewPart
  <1>5. PartInv'
    BY <1>3, <1>4 DEF DeliveryInv, PartInv
  <1>6. event'.state = state BY DEF Terminalize, MarkedEvent
  <1>7. EventInv' BY <1>3, <1>6 DEF EventInv
  <1>8. ProjectionsAgree'
    BY DEF DeliveryInv, ProjectionsAgree, Terminalize, MarkedEvent, MarkedReservation
  <1>9. ClaimIsDeliverable' BY <1>6 DEF ClaimIsDeliverable
  <1> QED BY <1>2, <1>5, <1>7, <1>8, <1>9, NoHolderSuffices DEF LedgerInv

\* Quarantine leaves the holder its attempt and its open parts.
LEMMA RecoverStaleHolds ==
    ASSUME TypeOK, DeliveryInv, NEW s \in Senders, s \notin Holders,
           RecoverStale, Return(s), UNCHANGED accepted, UNCHANGED overtaken
    PROVE  DeliveryInv'
  <1>1. \A t \in Holders' : /\ t \in Holders
                            /\ pc'[t] = pc[t] /\ attempt'[t] = attempt[t]
                            /\ todo'[t] = todo[t] /\ part'[t] = part[t]
                            /\ result'[t] = result[t]
    BY DEF TypeOK, Holders, Return
  <1>2. /\ event'.state = "UNCERTAIN" /\ event'.attempt = event.attempt
        /\ event'.count = event.count /\ event'.retry = event.retry
    BY DEF TypeOK, LedgerTypeOK, EventRow, RecoverStale
  <1>3. /\ reservation'.state = "UNCERTAIN"
        /\ reservation'.attempt = reservation.attempt
        /\ reservation'.count = reservation.count
        /\ reservation'.retry = reservation.retry
    BY DEF TypeOK, LedgerTypeOK, ReservationRow, RecoverStale
  <1>4. \A p \in Parts :
          /\ parts[p].state = "IN_FLIGHT" => parts'[p].state = "UNCERTAIN"
          /\ parts[p].state # "IN_FLIGHT" => parts'[p] = parts[p]
    BY DEF TypeOK, LedgerTypeOK, PartRow, RecoverStale
  <1>5. HolderInv' BY <1>1, <1>2 DEF DeliveryInv, HolderInv
  <1>6. SingleHolder' BY <1>1, <1>2 DEF DeliveryInv, SingleHolder
  <1>7. WorkInv'
    <2> SUFFICES ASSUME NEW t \in Holders'
                 PROVE  /\ todo[t] # {}
                        /\ \A p \in Parts \ todo[t] :
                             parts'[p].state = "SENT" \/ Dropped(p)'
                        /\ \A p \in todo[t] :
                             \/ parts'[p].state \in AUTO_CLAIMABLE_STATES \/ Dropped(p)'
                             \/ pc[t] # "claimed" /\ p = part[t]
      BY <1>1 DEF WorkInv
    <2>1. t \in Holders /\ todo[t] \subseteq Parts
      BY <1>1 DEF TypeOK, Holders
    <2> QED BY <1>4, <2>1 DEF DeliveryInv, WorkInv, Dropped
  <1>8. SendingInv'
    <2> SUFFICES ASSUME NEW t \in Holders', pc[t] # "claimed"
                 PROVE  /\ part[t] \in todo[t]
                        /\ \/ /\ parts'[part[t]].state = "IN_FLIGHT"
                              /\ parts'[part[t]].attempt = attempt[t]
                           \/ parts'[part[t]].state = "UNCERTAIN"
                        /\ pc[t] = "sending" => accepted[part[t]] = 0
                        /\ pc[t] = "answered" =>
                             /\ result[t] \in ResultStates
                             /\ result[t] = "SENT" => accepted[part[t]] = 1
                             /\ result[t] \in {"RETRYABLE", "FAILED_FINAL"} =>
                                  accepted[part[t]] = 0
      BY <1>1 DEF SendingInv, OwnsPart
    <2>1. t \in Holders /\ todo[t] \subseteq Parts
      BY <1>1 DEF TypeOK, Holders
    <2> QED BY <1>4, <2>1 DEF DeliveryInv, SendingInv, OwnsPart
  <1>9. PartInv' BY <1>4 DEF DeliveryInv, PartInv
  <1>10. EventInv' BY <1>2 DEF EventInv
  <1>11. ProjectionsAgree' BY <1>2, <1>3 DEF DeliveryInv, ProjectionsAgree
  <1>12. ClaimIsDeliverable' BY <1>2 DEF ClaimIsDeliverable
  <1> QED BY <1>5, <1>6, <1>7, <1>8, <1>9, <1>10, <1>11, <1>12 DEF DeliveryInv

\* A claim is granted on an open event, which nobody holds.
LEMMA ClaimHolds ==
    ASSUME TypeOK, DeliveryInv, NEW s \in Senders, Claim(s)
    PROVE  DeliveryInv'
  <1> USE DEF Claim, ClaimGranted
  <1>1. event.state \in AUTO_CLAIMABLE_STATES BY DEF Claimable
  <1>2. Holders = {} BY <1>1, UnheldStates DEF HeldStates
  <1>3. Holders' = {s} /\ pc'[s] = "claimed"
    BY <1>2 DEF TypeOK, Holders, GoTo
  <1>4. /\ event'.state = "IN_FLIGHT" /\ event'.attempt = issued + 1
        /\ event'.count = event.count + 1 /\ event'.retry = "none"
    BY DEF ClaimedEvent
  <1>5. attempt'[s] = issued + 1 /\ todo'[s] = OpenParts
    BY DEF TypeOK
  <1>6. HolderInv' BY <1>3, <1>4, <1>5 DEF HolderInv, TypeOK, LedgerTypeOK
  <1>7. SingleHolder' BY <1>3, <1>4, <1>5 DEF SingleHolder
  <1>8. WorkInv'
    BY <1>1, <1>3, <1>5 DEF DeliveryInv, EventInv, WorkInv, OpenParts, Dropped
  <1>9. SendingInv' BY <1>3 DEF SendingInv
  <1>10. PartInv' BY DEF DeliveryInv, PartInv
  <1>11. EventInv' BY <1>4 DEF EventInv
  <1>12. ProjectionsAgree'
    BY <1>4 DEF DeliveryInv, ProjectionsAgree, ClaimedReservation
  <1>13. ClaimIsDeliverable' BY <1>4 DEF ClaimIsDeliverable
  <1> QED BY <1>6, <1>7, <1>8, <1>9, <1>10, <1>11, <1>12, <1>13 DEF DeliveryInv

\* The other senders do not hold the claim.
LEMMA SoleHolder ==
    ASSUME DeliveryInv, NEW s \in Holders
    PROVE  Holders = {s} /\ attempt[s] = event.attempt
  BY DEF DeliveryInv, SingleHolder

\* mark_part_in_flight: the part was open, so Telegram has not published it.
LEMMA StartPartHolds ==
    ASSUME TypeOK, DeliveryInv, NEW s \in Senders, StartPart(s)
    PROVE  DeliveryInv'
  <1>1. s \in Holders BY DEF StartPart, Holders
  <1>2. PICK p \in Parts : /\ p \in todo[s] /\ MarkPartInFlight(p, attempt[s])
                           /\ part' = [part EXCEPT ![s] = p]
    BY DEF StartPart, FirstOf
  <1>3. Holders' = {s} /\ pc'[s] = "sending" /\ part'[s] = p
    BY <1>1, <1>2, SoleHolder DEF TypeOK, Holders, StartPart, GoTo
  <1>4. /\ parts[p].state \in AUTO_CLAIMABLE_STATES
        /\ parts'[p].state = "IN_FLIGHT" /\ parts'[p].attempt = attempt[s]
        /\ \A q \in Parts \ {p} : parts'[q] = parts[q]
        /\ UNCHANGED <<event, reservation, issued>>
    BY <1>2 DEF MarkPartInFlight, CanMarkPart, TypeOK, LedgerTypeOK
  <1>5. UNCHANGED <<attempt, todo, accepted, overtaken>> BY DEF StartPart
  <1>6. event.state \in HeldStates
    BY <1>1, UnheldStates
  <1>7. HolderInv' BY <1>1, <1>3, <1>4, <1>5 DEF DeliveryInv, HolderInv
  <1>8. SingleHolder' BY <1>1, <1>3, <1>4, <1>5, SoleHolder DEF SingleHolder
  <1>9. WorkInv'
    <2>1. pc[s] = "claimed" /\ todo[s] \subseteq Parts BY DEF StartPart, TypeOK
    <2>2. /\ todo[s] # {}
          /\ \A q \in Parts \ todo[s] : parts[q].state = "SENT" \/ Dropped(q)
          /\ \A q \in todo[s] :
               parts[q].state \in AUTO_CLAIMABLE_STATES \/ Dropped(q)
      BY <1>1, <2>1 DEF DeliveryInv, WorkInv
    <2>3. \A q \in Parts \ todo[s] : parts'[q].state = "SENT" \/ Dropped(q)'
      BY <1>2, <1>4, <1>5, <2>2 DEF Dropped
    <2>4. \A q \in todo[s] :
            parts'[q].state \in AUTO_CLAIMABLE_STATES \/ Dropped(q)' \/ q = p
      BY <1>4, <1>5, <2>1, <2>2 DEF Dropped
    <2> QED BY <1>3, <1>5, <2>2, <2>3, <2>4 DEF WorkInv
  <1>10. SendingInv'
    <2>1. accepted[p] = 0 BY <1>4 DEF DeliveryInv, PartInv
    <2> QED BY <1>2, <1>3, <1>4, <1>5, <2>1 DEF SendingInv, OwnsPart
  <1>11. PartInv' BY <1>4, <1>5 DEF DeliveryInv, PartInv
  <1>12. EventInv' BY <1>4, <1>6 DEF EventInv, HeldStates
  <1>13. ProjectionsAgree' BY <1>4, <1>5 DEF DeliveryInv, ProjectionsAgree
  <1>14. ClaimIsDeliverable' BY <1>4, <1>6 DEF ClaimIsDeliverable, HeldStates
  <1> QED BY <1>7, <1>8, <1>9, <1>10, <1>11, <1>12, <1>13, <1>14 DEF DeliveryInv

\* The request publishes a part that was not published, and what the code
\* concludes from the answer is never more than what happened.
LEMMA TransmitHolds ==
    ASSUME TypeOK, DeliveryInv, NEW s \in Senders, Transmit(s),
           ServerErrorMayAccept = FALSE
    PROVE  DeliveryInv'
  <1>1. s \in Holders /\ pc[s] = "sending" BY DEF Transmit, Holders
  <1>2. PICK cause \in Causes : \E accept \in Accepts(cause) :
          /\ accepted' = [accepted EXCEPT ![part[s]] = IF accept THEN @ + 1 ELSE @]
          /\ result' = [result EXCEPT ![s] = Classify(cause)]
    BY DEF Transmit
  <1>3. /\ Holders' = {s} /\ pc'[s] = "answered"
        /\ result'[s] = Classify(cause)
        /\ UNCHANGED <<ledgerVars, attempt, todo, part, overtaken>>
    BY <1>1, <1>2, SoleHolder DEF TypeOK, Holders, Transmit, GoTo
  <1>4. /\ part[s] \in todo[s] /\ part[s] \in Parts /\ accepted[part[s]] = 0
        /\ OwnsPart(part[s], attempt[s]) \/ parts[part[s]].state = "UNCERTAIN"
    BY <1>1 DEF DeliveryInv, SendingInv, TypeOK
  <1>5. /\ \A q \in Parts \ {part[s]} : accepted'[q] = accepted[q]
        /\ accepted'[part[s]] \in {0, 1}
        /\ Classify(cause) \in ResultStates
        /\ Classify(cause) = "SENT" => accepted'[part[s]] = 1
        /\ Classify(cause) \in {"RETRYABLE", "FAILED_FINAL"} => accepted'[part[s]] = 0
    <2>1. PICK accept \in Accepts(cause) :
            accepted' = [accepted EXCEPT ![part[s]] = IF accept THEN @ + 1 ELSE @]
      BY <1>2
    <2>2. /\ Classify(cause) \in ResultStates
          /\ Classify(cause) = "SENT" => cause = "ok"
          /\ Classify(cause) \in {"RETRYABLE", "FAILED_FINAL"} =>
               cause \in {"not_connected", "rate_limited", "server_error", "rejected"}
      BY DEF Causes, Classify
    <2>3. cause = "ok" => accept = TRUE BY DEF Accepts
    <2>4. cause \in {"not_connected", "rate_limited", "server_error", "rejected"} =>
            accept = FALSE
      BY DEF Accepts
    <2>5. \A q \in Parts \ {part[s]} : accepted'[q] = accepted[q]
      BY <2>1 DEF TypeOK
    <2>6. accepted'[part[s]] = IF accept THEN 1 ELSE 0
      <3>1. accepted'[part[s]] = IF accept THEN accepted[part[s]] + 1 ELSE accepted[part[s]]
        BY <1>4, <2>1 DEF TypeOK
      <3> QED BY <1>4, <3>1
    <2> QED BY <2>2, <2>3, <2>4, <2>5, <2>6
  <1>6. event.state \in HeldStates
    BY <1>1, UnheldStates
  <1> USE DEF ledgerVars
  <1>7. HolderInv' BY <1>1, <1>3 DEF DeliveryInv, HolderInv
  <1>8. SingleHolder' BY <1>1, <1>3, SoleHolder DEF SingleHolder
  <1>9. WorkInv' BY <1>1, <1>3 DEF DeliveryInv, WorkInv, Dropped
  <1>10. SendingInv' BY <1>3, <1>4, <1>5 DEF SendingInv, OwnsPart
  <1>11. PartInv' BY <1>3, <1>4, <1>5 DEF DeliveryInv, PartInv, OwnsPart
  <1>12. EventInv' BY <1>3, <1>6 DEF EventInv, HeldStates
  <1>13. ProjectionsAgree' BY <1>3 DEF DeliveryInv, ProjectionsAgree
  <1>14. ClaimIsDeliverable' BY <1>3, <1>6 DEF ClaimIsDeliverable, HeldStates
  <1> QED BY <1>7, <1>8, <1>9, <1>10, <1>11, <1>12, <1>13, <1>14 DEF DeliveryInv

\* record_part_result, SENT: the part was published exactly once; when it is
\* the last one the event may say SENT, otherwise the holder has more to do.
LEMMA RecordConfirmedHolds ==
    ASSUME TypeOK, DeliveryInv, NEW s \in Senders, RecordConfirmed(s)
    PROVE  DeliveryInv'
  <1> DEFINE p == part[s]
  <1>1. s \in Holders /\ pc[s] = "answered" /\ result[s] = "SENT"
    BY DEF RecordConfirmed, Holders
  <1>2. /\ p \in todo[s] /\ p \in Parts /\ todo[s] \subseteq Parts
        /\ accepted[p] = 1
    BY <1>1 DEF DeliveryInv, SendingInv, TypeOK
  <1>3. event.state \in HeldStates BY <1>1, UnheldStates
  <1>4. /\ parts'[p].state = "SENT"
        /\ \A q \in Parts \ {p} : parts'[q] = parts[q]
        /\ UNCHANGED <<accepted, overtaken>>
    BY <1>2 DEF RecordConfirmed, RecordSent, TypeOK, LedgerTypeOK, PartRow
  <1>5. PartInv' BY <1>2, <1>4 DEF DeliveryInv, PartInv
  <1>6. CASE LastUnsent(p)
    <2>1. Holders' = {} BY <1>1, <1>6, HolderReturns DEF RecordConfirmed
    <2>2. /\ event' = MarkedEvent(event, "SENT", "none")
          /\ reservation' = MarkedReservation(reservation, "SENT", "none")
      BY <1>6 DEF RecordConfirmed, RecordSent
    <2>3. EventInv'
      BY <1>4, <1>6, <2>2 DEF EventInv, MarkedEvent, LastUnsent
    <2>4. ProjectionsAgree'
      BY <2>2 DEF DeliveryInv, ProjectionsAgree, MarkedEvent, MarkedReservation
    <2>5. ClaimIsDeliverable' BY <2>2 DEF ClaimIsDeliverable, MarkedEvent
    <2> QED BY <1>5, <2>1, <2>3, <2>4, <2>5, NoHolderSuffices DEF LedgerInv
  <1>7. CASE ~LastUnsent(p)
    <2>1. UNCHANGED <<event, reservation>> BY <1>7 DEF RecordConfirmed, RecordSent
    <2>2. EventInv' BY <1>3, <2>1 DEF EventInv, HeldStates
    <2>3. ProjectionsAgree' BY <1>4, <2>1 DEF DeliveryInv, ProjectionsAgree
    <2>4. ClaimIsDeliverable' BY <1>3, <2>1 DEF ClaimIsDeliverable, HeldStates
    <2>5. CASE todo[s] = {p}
      <3>1. Holders' = {} BY <1>1, <2>5, HolderReturns DEF RecordConfirmed
      <3> QED BY <1>5, <2>2, <2>3, <2>4, <3>1, NoHolderSuffices DEF LedgerInv
    <2>6. CASE todo[s] # {p}
      <3>1. /\ UNCHANGED attempt /\ Holders' = {s} /\ pc'[s] = "claimed"
            /\ todo'[s] = todo[s] \ {p}
        BY <1>1, <1>7, <2>6, SoleHolder DEF RecordConfirmed, GoTo, TypeOK, Holders
      <3>2. HolderInv' BY <1>1, <1>4, <2>1, <3>1 DEF DeliveryInv, HolderInv
      <3>3. SingleHolder' BY <1>1, <2>1, <3>1, SoleHolder DEF SingleHolder
      <3>4. /\ \A q \in Parts \ todo[s] : parts[q].state = "SENT" \/ Dropped(q)
            /\ \A q \in todo[s] \ {p} :
                 parts[q].state \in AUTO_CLAIMABLE_STATES \/ Dropped(q)
        BY <1>1 DEF DeliveryInv, WorkInv
      <3>5. todo[s] \ {p} # {} BY <1>2, <2>6
      <3>6. WorkInv'
        <4>1. \A q \in Parts \ (todo[s] \ {p}) : parts'[q].state = "SENT" \/ Dropped(q)'
          BY <1>4, <3>4 DEF Dropped
        <4>2. \A q \in todo[s] \ {p} :
                parts'[q].state \in AUTO_CLAIMABLE_STATES \/ Dropped(q)'
          BY <1>2, <1>4, <3>4 DEF Dropped
        <4> QED BY <3>1, <3>5, <4>1, <4>2 DEF WorkInv
      <3>7. SendingInv' BY <3>1 DEF SendingInv
      <3> QED BY <1>5, <2>2, <2>3, <2>4, <3>2, <3>3, <3>6, <3>7 DEF DeliveryInv
    <2> QED BY <2>5, <2>6
  <1> QED BY <1>6, <1>7

\* The event is marked UNCERTAIN and its holder returns.
LEMMA QuarantineHolds ==
    ASSUME TypeOK, DeliveryInv, NEW s \in Senders, s \in Holders, Return(s),
           event' = MarkedEvent(event, "UNCERTAIN", "none"),
           reservation' = MarkedReservation(reservation, "UNCERTAIN", "none"),
           UNCHANGED <<parts, accepted>>
    PROVE  DeliveryInv'
  <1>1. Holders' = {} BY HolderReturns
  <1>2. PartInv' BY DEF DeliveryInv, PartInv
  <1>3. EventInv' BY DEF EventInv, MarkedEvent
  <1>4. ProjectionsAgree'
    BY DEF DeliveryInv, ProjectionsAgree, MarkedEvent, MarkedReservation
  <1>5. ClaimIsDeliverable' BY DEF ClaimIsDeliverable, MarkedEvent
  <1> QED BY <1>1, <1>2, <1>3, <1>4, <1>5, NoHolderSuffices DEF LedgerInv

\* record_part_result of a failure: RETRYABLE leaves an attempt and the part
\* to spend it on, and neither RETRYABLE nor FAILED_FINAL hides a publication.
LEMMA RecordFailureHolds ==
    ASSUME TypeOK, DeliveryInv, NEW s \in Senders, RecordFailure(s)
    PROVE  DeliveryInv'
  <1> DEFINE p == part[s]
             st == Effective(result[s])
             rt == IF st = "RETRYABLE" THEN "waiting" ELSE "none"
  <1>1. /\ s \in Holders /\ pc[s] = "answered" /\ Return(s)
        /\ UNCHANGED <<accepted, overtaken>>
    BY DEF RecordFailure, Holders
  <1>2. CASE RecordConflict(p, attempt[s])
    BY <1>1, <1>2, QuarantineHolds DEF RecordConflict
  <1>3. CASE result[s] # "SENT" /\ RecordNotSent(p, attempt[s], result[s])
    <2>1. /\ p \in todo[s] /\ p \in Parts /\ todo[s] \subseteq Parts
          /\ result[s] \in ResultStates
          /\ result[s] \in {"RETRYABLE", "FAILED_FINAL"} => accepted[p] = 0
      BY <1>1 DEF DeliveryInv, SendingInv, TypeOK
    <2>2. /\ event' = MarkedEvent(event, st, rt)
          /\ reservation' = MarkedReservation(reservation, st, rt)
          /\ parts' = [parts EXCEPT ![p].state = st]
      BY <1>3 DEF RecordNotSent
    <2>3. /\ parts'[p].state = st
          /\ \A q \in Parts \ {p} : parts'[q] = parts[q]
      BY <2>1, <2>2 DEF TypeOK, LedgerTypeOK, PartRow
    <2>4. /\ st \in {"RETRYABLE", "FAILED_FINAL", "UNCERTAIN"}
          /\ st # "UNCERTAIN" => accepted[p] = 0
          /\ st = "RETRYABLE" => event.count < MaxAttempts
      BY <1>3, <2>1, OutboxAssumption DEF Effective, TypeOK, LedgerTypeOK, EventRow
    <2>5. \A q \in Parts \ {p} :
            parts[q].state \in AUTO_CLAIMABLE_STATES \cup {"SENT"} \/ Dropped(q)
      BY <1>1 DEF DeliveryInv, WorkInv
    <2>6. event'.state = st /\ event'.count = event.count
      BY <2>2 DEF MarkedEvent
    <2>7. Holders' = {} BY <1>1, HolderReturns
    <2>8. PartInv' BY <1>1, <2>3, <2>4 DEF DeliveryInv, PartInv
    <2>9. EventInv' BY <1>1, <2>3, <2>4, <2>5, <2>6 DEF EventInv, Dropped
    <2>10. ProjectionsAgree'
      BY <2>2 DEF DeliveryInv, ProjectionsAgree, MarkedEvent, MarkedReservation
    <2>11. ClaimIsDeliverable'
      <3>1. st = "RETRYABLE" => p \in OpenParts' BY <2>1, <2>3 DEF OpenParts
      <3> QED BY <2>4, <2>6, <3>1 DEF ClaimIsDeliverable
    <2> QED BY <2>7, <2>8, <2>9, <2>10, <2>11, NoHolderSuffices DEF LedgerInv
  <1> QED BY <1>2, <1>3 DEF RecordFailure

\* _supersede_public_target_intent: it ends only what was never published, and
\* an event that it finds claimed has moved since it was read.
LEMMA SupersedeHolds ==
    ASSUME TypeOK, DeliveryInv, NEW s \in Senders, Supersede(s)
    PROVE  DeliveryInv'
  <1> DEFINE seen == snap[s].state
  <1>1. /\ s \notin Holders /\ Return(s) /\ UNCHANGED accepted
        /\ overtaken' = (overtaken \/ event.state # seen)
        /\ reservation' = SupersededReservation(reservation)
    BY DEF Supersede, SupersedeIntent, Holders
  <1>2. \A t \in Holders' : /\ t \in Holders
                            /\ pc'[t] = pc[t] /\ attempt'[t] = attempt[t]
                            /\ todo'[t] = todo[t] /\ part'[t] = part[t]
                            /\ result'[t] = result[t]
    BY <1>1 DEF TypeOK, Holders, Return
  <1>3. event.state # "ABSENT" BY BusyEventExists DEF Supersede
  <1>4. /\ reservation'.attempt = reservation.attempt
        /\ reservation'.count = reservation.count
        /\ reservation'.retry = reservation.retry
        /\ reservation.state \in {"SENT", "IN_FLIGHT", "UNCERTAIN"} =>
             reservation'.state = reservation.state
        /\ reservation.state \notin {"SENT", "IN_FLIGHT", "UNCERTAIN"} =>
             reservation'.state = "FAILED_FINAL"
    BY <1>1 DEF SupersededReservation, TypeOK, LedgerTypeOK, ReservationRow
  <1>5. event \in EventRow BY DEF TypeOK, LedgerTypeOK
  <1>6. accepted' = accepted BY <1>1
  <1>7. SingleHolder'
    <2>1. event'.attempt = event.attempt
      BY <1>5, SupersededEventRow DEF Supersede, SupersedeIntent
    <2> QED BY <1>2, <2>1 DEF DeliveryInv, SingleHolder
  <1>8. CASE seen \in Supersedable
    <2>1. /\ event'.state = "FAILED_FINAL" /\ event'.attempt = event.attempt
          /\ event'.count = event.count /\ event'.retry = event.retry
      BY <1>8, <1>5, SupersededEventRow DEF Supersede, SupersedeIntent
    <2>2. \A p \in Parts :
            /\ parts[p].state \in Supersedable => parts'[p].state = "FAILED_FINAL"
            /\ parts[p].state \notin Supersedable => parts'[p] = parts[p]
      BY <1>8 DEF Supersede, SupersedeIntent, SupersededPart, TypeOK, LedgerTypeOK,
                  PartRow
    <2>3. Holders # {} => overtaken'
      BY <1>1, <1>8, UnheldStates
         DEF HeldStates, Supersedable, AUTO_CLAIMABLE_STATES, NoSendStates,
             DeliveryInv, HolderInv
    <2>4. overtaken => overtaken' BY <1>1
    <2>5. HolderInv' BY <1>2, <2>1, <2>3 DEF DeliveryInv, HolderInv
    <2>6. WorkInv'
      <3> SUFFICES ASSUME NEW t \in Holders'
                   PROVE  /\ todo[t] # {}
                          /\ \A p \in Parts \ todo[t] :
                               parts'[p].state = "SENT" \/ Dropped(p)'
                          /\ \A p \in todo[t] :
                               \/ parts'[p].state \in AUTO_CLAIMABLE_STATES \/ Dropped(p)'
                               \/ pc[t] # "claimed" /\ p = part[t]
        BY <1>2 DEF WorkInv
      <3>1. t \in Holders /\ todo[t] \subseteq Parts /\ overtaken'
        BY <1>2, <2>3 DEF TypeOK, Holders
      <3> QED BY <2>2, <3>1 DEF DeliveryInv, WorkInv, Dropped, Supersedable,
                                NoSendStates
    <2>7. SendingInv'
      <3> SUFFICES ASSUME NEW t \in Holders', pc'[t] # "claimed"
                   PROVE  /\ part'[t] \in todo'[t]
                          /\ \/ /\ parts'[part'[t]].state = "IN_FLIGHT"
                                /\ parts'[part'[t]].attempt = attempt'[t]
                             \/ parts'[part'[t]].state = "UNCERTAIN"
                          /\ pc'[t] = "sending" => accepted'[part'[t]] = 0
                          /\ pc'[t] = "answered" =>
                               /\ result'[t] \in ResultStates
                               /\ result'[t] = "SENT" => accepted'[part'[t]] = 1
                               /\ result'[t] \in {"RETRYABLE", "FAILED_FINAL"} =>
                                    accepted'[part'[t]] = 0
        BY DEF SendingInv, OwnsPart
      <3>1. /\ t \in Holders /\ todo[t] \subseteq Parts
            /\ pc'[t] = pc[t] /\ attempt'[t] = attempt[t] /\ todo'[t] = todo[t]
            /\ part'[t] = part[t] /\ result'[t] = result[t]
        BY <1>2 DEF TypeOK, Holders
      <3>2. /\ part[t] \in Parts
            /\ parts[part[t]].state \in {"IN_FLIGHT", "UNCERTAIN"}
        BY <3>1 DEF DeliveryInv, SendingInv, OwnsPart
      <3>3. parts'[part[t]] = parts[part[t]]
        BY <2>2, <3>2 DEF Supersedable, AUTO_CLAIMABLE_STATES, NoSendStates
      <3> QED BY <1>6, <3>1, <3>3 DEF DeliveryInv, SendingInv, OwnsPart
    <2>8. PartInv'
      BY <1>1, <2>2 DEF DeliveryInv, PartInv, Supersedable
    <2>9. EventInv' BY <2>1 DEF EventInv
    <2>10. ProjectionsAgree'
      <3>1. reservation'.state # "FAILED_FINAL" => overtaken'
        BY <1>1, <1>4, <1>8
           DEF DeliveryInv, ProjectionsAgree, Supersedable, AUTO_CLAIMABLE_STATES,
               NoSendStates
      <3> QED BY <1>4, <2>1, <3>1 DEF DeliveryInv, ProjectionsAgree
    <2>11. ClaimIsDeliverable' BY <2>1 DEF ClaimIsDeliverable
    <2> QED
      BY <1>7, <2>5, <2>6, <2>7, <2>8, <2>9, <2>10, <2>11 DEF DeliveryInv
  <1>9. CASE seen \notin Supersedable
    <2>1. UNCHANGED <<event, parts>> BY <1>9 DEF Supersede, SupersedeIntent
    <2>2. overtaken => overtaken' BY <1>1
    <2>3. HolderInv' BY <1>2, <2>1, <2>2 DEF DeliveryInv, HolderInv
    <2>4. WorkInv' /\ SendingInv'
      BY <1>2, <1>6, <2>1, <2>2, HoldersWorkKept DEF DeliveryInv
    <2>5. PartInv' BY <1>1, <2>1 DEF DeliveryInv, PartInv
    <2>6. EventInv' BY <1>3, <2>1, <2>2 DEF DeliveryInv, EventInv, Dropped
    <2>7. ProjectionsAgree'
      <3>1. reservation'.state # reservation.state =>
              reservation'.state = "FAILED_FINAL" BY <1>4
      <3>2. seen \in {"SENT", "IN_FLIGHT", "UNCERTAIN", "ABSENT"}
        BY <1>9 DEF TypeOK, SnapshotRow, DeliveryStates, TERMINAL_STATES, Supersedable,
                    NoSendStates
      <3>3. \/ reservation'.state = event.state
            \/ overtaken' /\ "FAILED_FINAL" \in {event.state, reservation'.state}
        BY <1>1, <1>3, <1>4, <3>1, <3>2 DEF DeliveryInv, ProjectionsAgree
      <3> QED BY <1>4, <2>1, <3>3 DEF DeliveryInv, ProjectionsAgree
    <2>8. ClaimIsDeliverable' BY <2>1 DEF DeliveryInv, ClaimIsDeliverable, OpenParts
    <2> QED
      BY <1>7, <2>3, <2>4, <2>5, <2>6, <2>7, <2>8 DEF DeliveryInv
  <1> QED BY <1>8, <1>9

\* Time only ages the lease and the retry, on both rows alike.
LEMMA ClockHolds ==
    ASSUME TypeOK, DeliveryInv, Clock
    PROVE  DeliveryInv'
  <1>1. UNCHANGED <<senderVars, accepted, parts, overtaken>>
    BY DEF Clock, LeaseExpires, RetryFallsDue
  <1>2. /\ event'.state = event.state /\ event'.attempt = event.attempt
        /\ event'.count = event.count
        /\ reservation'.state = reservation.state
        /\ reservation'.attempt = reservation.attempt
        /\ reservation'.count = reservation.count
        /\ event.retry = reservation.retry => event'.retry = reservation'.retry
    BY DEF Clock, LeaseExpires, RetryFallsDue, TypeOK, LedgerTypeOK, EventRow,
           ReservationRow
  <1> USE <1>1, <1>2 DEF senderVars
  <1>3. Holders' = Holders BY DEF Holders
  <1>4. HolderInv' BY <1>3 DEF DeliveryInv, HolderInv
  <1>5. SingleHolder' BY <1>3 DEF DeliveryInv, SingleHolder
  <1>6. WorkInv' BY <1>3 DEF DeliveryInv, WorkInv, Dropped
  <1>7. SendingInv' BY <1>3 DEF DeliveryInv, SendingInv, OwnsPart
  <1>8. PartInv' BY DEF DeliveryInv, PartInv
  <1>9. EventInv' BY DEF DeliveryInv, EventInv, Dropped
  <1>10. ProjectionsAgree' BY DEF DeliveryInv, ProjectionsAgree
  <1>11. ClaimIsDeliverable' BY DEF DeliveryInv, ClaimIsDeliverable, OpenParts
  <1> QED BY <1>4, <1>5, <1>6, <1>7, <1>8, <1>9, <1>10, <1>11 DEF DeliveryInv

\* Every step keeps the invariant: one case per action.
LEMMA StepHolds ==
    ASSUME ServerErrorMayAccept = FALSE, TypeOK, DeliveryInv, [Next]_vars
    PROVE  DeliveryInv'
  <1>1. ASSUME NEW s \in Senders,
               Recover(s) \/ RecoverDeliver(s) \/ ReadSnapshot(s) \/ ReadSuperseded(s)
        PROVE  DeliveryInv'
    <2>1. /\ UNCHANGED <<ledgerVars, attempt, todo, part, result, accepted, overtaken>>
          /\ s \notin Holders
          /\ \E l \in {"recovering", "committed", "preflight", "superseding"} :
                pc' = [pc EXCEPT ![s] = l]
      BY <1>1 DEF Recover, RecoverDeliver, ReadSnapshot, ReadSuperseded, GoTo, Holders
    <2>2. \A t \in Holders' : t \in Holders /\ pc'[t] = pc[t]
      BY <2>1 DEF TypeOK, Holders
    <2>3. event.state # "ABSENT"
      BY <1>1, BusyEventExists
         DEF Recover, RecoverDeliver, ReadSnapshot, ReadSuperseded, AUTO_CLAIMABLE_STATES
    <2> QED BY <2>1, <2>2, <2>3, FramePreserves
  <1>2. ASSUME NEW s \in Senders, RecoverTerminal(s) PROVE DeliveryInv'
    BY <1>2, TerminalizeHolds, ReturnFrame DEF RecoverTerminal
  <1>3. ASSUME NEW s \in Senders, NoSend(s) PROVE DeliveryInv'
    BY <1>3, TerminalizeHolds, ReturnFrame DEF NoSend
  <1>4. ASSUME NEW s \in Senders, ClaimDenied(s) PROVE DeliveryInv'
    <2>1. s \notin Holders BY <1>4 DEF ClaimDenied, Holders
    <2> QED BY <1>4, <2>1, RecoverStaleHolds, ReturnFrame DEF ClaimDenied, ClaimRefused
  <1>5. ASSUME NEW s \in Senders, RecordError(s) PROVE DeliveryInv'
    <2>1. s \in Holders BY <1>5 DEF RecordError, Holders
    <2>2. CASE MarkUncertain
      BY <1>5, <2>1, <2>2, QuarantineHolds DEF RecordError, MarkUncertain
    <2>3. CASE UNCHANGED ledgerVars
      BY <1>5, <2>3, ReturnFrame DEF RecordError
    <2> QED BY <1>5, <2>2, <2>3 DEF RecordError
  <1>6. ASSUME NEW s \in Senders, Crash(s) PROVE DeliveryInv'
    BY <1>6, ReturnFrame DEF Crash
  <1>7. ASSUME NEW s \in Senders, PartDenied(s) PROVE DeliveryInv'
    <2>1. s \in Holders BY <1>7 DEF PartDenied, Holders
    <2>2. CASE MarkUncertain
      BY <1>7, <2>1, <2>2, QuarantineHolds DEF PartDenied, MarkUncertain
    <2>3. CASE UNCHANGED ledgerVars
      BY <1>7, <2>3, ReturnFrame DEF PartDenied
    <2> QED BY <1>7, <2>2, <2>3 DEF PartDenied
  <1>8. CASE UNCHANGED vars
    BY <1>8, FramePreserves DEF vars, senderVars, Holders
  <1> QED
    BY <1>1, <1>2, <1>3, <1>4, <1>5, <1>6, <1>7, <1>8, CommitHolds, ClaimHolds,
       StartPartHolds, TransmitHolds, RecordConfirmedHolds, RecordFailureHolds,
       SupersedeHolds, ClockHolds DEF Next, Work

-----------------------------------------------------------------------------
(* The theorems.  All rest on the transport's reading of an HTTP 5xx as a   *)
(* message that was not published; IntentDelivery checks what happens when  *)
(* that reading is wrong.                                                   *)

\* The ledger, the channel and the holder of the claim agree for ever.
THEOREM DeliveryInvariant ==
    ASSUME ServerErrorMayAccept = FALSE
    PROVE  Spec => []DeliveryInv
  <1>1. TypeOK /\ DeliveryInv /\ [Next]_vars => DeliveryInv' BY StepHolds
  <1> QED BY <1>1, InitHolds, TypeCorrect, PTL DEF Spec

\* No part of an alert is ever published twice, for any number of senders,
\* parts, attempts and crashes.
THEOREM AtMostOncePublication ==
    ASSUME ServerErrorMayAccept = FALSE
    PROVE  Spec => []AtMostOnce
  <1>1. DeliveryInv => AtMostOnce BY DEF DeliveryInv, PartInv, AtMostOnce
  <1> QED BY <1>1, DeliveryInvariant, PTL

\* The states the ledger reports are true of the channel.
THEOREM LedgerTellsTheTruth ==
    ASSUME ServerErrorMayAccept = FALSE
    PROVE  Spec => [](SentIsPublished /\ NoSendIsSilent)
  <1>1. DeliveryInv => SentIsPublished /\ NoSendIsSilent
    BY DEF DeliveryInv, PartInv, EventInv, SentIsPublished, NoSendIsSilent
  <1> QED BY <1>1, DeliveryInvariant, PTL

\* The ledger changes its mind about a decided alert only by supersession: it
\* ends a silent alert as a failure, and only one that acted on an old reading
\* ends a SENT alert or leaves a failure that a sender can still overwrite.
THEOREM SettledForEver ==
    ASSUME ServerErrorMayAccept = FALSE
    PROVE  Spec => SettledIsFinal
  <1> DEFINE Permitted ==
               \/ event.state # "SENT" /\ event'.state = "FAILED_FINAL"
               \/ overtaken' /\ event.state = "SENT" /\ event'.state = "FAILED_FINAL"
               \/ overtaken /\ event.state = "FAILED_FINAL" /\ Holders # {}
  <1>1. TypeOK /\ DeliveryInv /\ [Next]_vars =>
          [event.state \in Settled /\ event'.state # event.state => Permitted]_vars
    <2> SUFFICES ASSUME TypeOK, DeliveryInv, Next, event.state \in Settled
                 PROVE  event'.state = event.state \/ Permitted
      BY DEF vars
    <2>1. ASSUME NEW s \in Holders PROVE Permitted
      <3>1. event.state = "FAILED_FINAL" /\ overtaken
        BY <2>1 DEF DeliveryInv, HolderInv, Settled
      <3> QED BY <2>1, <3>1
    <2>2. ASSUME NEW s \in Senders,
                 StartPart(s) \/ PartDenied(s) \/ Transmit(s) \/ RecordConfirmed(s)
                 \/ RecordFailure(s) \/ RecordError(s)
          PROVE  s \in Holders
      BY <2>2 DEF Holders, StartPart, PartDenied, Transmit, RecordConfirmed,
                  RecordFailure, RecordError
    <2>3. ASSUME NEW s \in Senders,
                 Commit(s) \/ RecoverTerminal(s) \/ NoSend(s) \/ ClaimDenied(s) \/ Claim(s)
          PROVE  event' = event
      BY <2>3 DEF Settled, Commit, CommitIntent, RecoverTerminal, NoSend, Terminalize,
         SnapshotMatches, ClaimDenied, ClaimRefused, RecoverStale, Stale, Claim,
         ClaimGranted, Claimable, ledgerVars
    <2>4. ASSUME NEW s \in Senders,
                 Recover(s) \/ RecoverDeliver(s) \/ ReadSnapshot(s)
                 \/ ReadSuperseded(s) \/ Crash(s)
          PROVE  event' = event
      BY <2>4 DEF Recover, RecoverDeliver, ReadSnapshot, ReadSuperseded, Crash, ledgerVars
    <2>5. ASSUME NEW s \in Senders, Supersede(s)
          PROVE  event'.state = event.state \/ Permitted
      <3>1. \/ event' = event
            \/ event'.state = "FAILED_FINAL" /\ snap[s].state \in Supersedable
        BY <2>5, SupersededState DEF Supersede
      <3>2. event.state # snap[s].state => overtaken' BY <2>5 DEF Supersede
      <3>3. event.state = "SENT" /\ snap[s].state \in Supersedable =>
              event.state # snap[s].state
        BY DEF Supersedable, AUTO_CLAIMABLE_STATES, NoSendStates
      <3> QED BY <3>1, <3>2, <3>3
    <2>6. ASSUME Clock PROVE event'.state = event.state
      BY <2>6 DEF Clock, LeaseExpires, RetryFallsDue, TypeOK, LedgerTypeOK, EventRow
    <2> HIDE DEF Permitted
    <2> QED BY <2>1, <2>2, <2>3, <2>4, <2>5, <2>6 DEF Next, Work
  <1> QED BY <1>1, TypeCorrect, DeliveryInvariant, PTL DEF Spec, SettledIsFinal

-----------------------------------------------------------------------------
(* IntentDelivery implements AlertDelivery.                                *)

\* What the refinement mapping makes of each state of the event row.
LEMMA VerdictOf ==
    /\ event.state = "ABSENT" => Verdict = "absent"
    /\ event.state \in {"PENDING", "RETRYABLE", "IN_FLIGHT"} => Verdict = "open"
    /\ event.state = "UNCERTAIN" => Verdict = "uncertain"
    /\ event.state = "SENT" => Verdict = "sent"
    /\ event.state = "FAILED_FINAL" => Verdict = "failed"
    /\ event.state \in {"SKIPPED_DRY_RUN", "POLICY_DISABLED"} => Verdict = "silent"
  BY DEF Verdict, AUTO_CLAIMABLE_STATES

\* The same in the next state.
LEMMA VerdictOfNext ==
    /\ event'.state = "ABSENT" => Verdict' = "absent"
    /\ event'.state \in {"PENDING", "RETRYABLE", "IN_FLIGHT"} => Verdict' = "open"
    /\ event'.state = "UNCERTAIN" => Verdict' = "uncertain"
    /\ event'.state = "SENT" => Verdict' = "sent"
    /\ event'.state = "FAILED_FINAL" => Verdict' = "failed"
    /\ event'.state \in {"SKIPPED_DRY_RUN", "POLICY_DISABLED"} => Verdict' = "silent"
  BY DEF Verdict, AUTO_CLAIMABLE_STATES

\* While a sender holds the claim the alert is undecided.
LEMMA HolderUndecided ==
    ASSUME DeliveryInv, NEW s \in Senders, pc[s] \in {"claimed", "sending", "answered"}
    PROVE  Alert!Undecided
  BY VerdictOf DEF DeliveryInv, HolderInv, Holders, Alert!Undecided

\* Ending an alert without sending decides it, and nothing was published.
LEMMA TerminalizeDecides ==
    ASSUME TypeOK, DeliveryInv', NEW snapshot, NEW state \in NoSendStates,
           Terminalize(snapshot, state), UNCHANGED <<accepted, overtaken>>
    PROVE  Alert!Decide
  <1>1. Verdict = "open"
    BY VerdictOf DEF Terminalize, SnapshotMatches, AUTO_CLAIMABLE_STATES
  <1>2. event'.state = state BY DEF Terminalize, MarkedEvent
  <1>3. \A p \in Parts : parts'[p].state = state
    BY DEF Terminalize, TypeOK, LedgerTypeOK, PartRow
  <1>4. \A p \in Parts : accepted[p] = 0
    BY <1>3 DEF DeliveryInv, PartInv, NoSendStates
  <1>5. 1 \in Parts BY OutboxAssumption DEF Parts
  <1>6. CASE state = "FAILED_FINAL"
    BY <1>1, <1>2, <1>4, <1>5, <1>6, VerdictOfNext DEF Alert!Decide, Alert!Undecided
  <1>7. CASE state \in {"SKIPPED_DRY_RUN", "POLICY_DISABLED"}
    BY <1>1, <1>2, <1>4, <1>7, VerdictOfNext DEF Alert!Decide, Alert!Undecided
  <1> QED BY <1>6, <1>7 DEF NoSendStates

\* A request publishes a part that was not in the channel, or none.
LEMMA TransmitPublishes ==
    ASSUME TypeOK, DeliveryInv, NEW s \in Senders, Transmit(s)
    PROVE  (\E p \in Parts : Alert!Publish(p)) \/ UNCHANGED Alert!alertVars
  <1>1. Alert!Undecided BY HolderUndecided DEF Transmit
  <1>2. part[s] \in Parts /\ accepted[part[s]] = 0
    BY DEF Transmit, TypeOK, DeliveryInv, SendingInv, Holders
  <1>3. event' = event /\ overtaken' = overtaken BY DEF Transmit, ledgerVars
  <1>4. Verdict' = Verdict BY <1>3 DEF Verdict
  <1>5. \/ accepted' = [accepted EXCEPT ![part[s]] = 1]
        \/ accepted' = accepted
    <2>1. PICK accept \in BOOLEAN :
            accepted' = [accepted EXCEPT ![part[s]] = IF accept THEN @ + 1 ELSE @]
      BY DeliveryAssumption DEF Transmit, Causes, Accepts
    <2>2. CASE accept BY <1>2, <2>1, <2>2 DEF TypeOK
    <2>3. CASE ~accept BY <1>2, <2>1, <2>3 DEF TypeOK
    <2> QED BY <2>2, <2>3
  <1> QED BY <1>1, <1>2, <1>3, <1>4, <1>5 DEF Alert!Publish, Alert!alertVars

\* Recording an answer decides the alert as the channel justifies, or leaves
\* it undecided.
LEMMA RecordDecides ==
    ASSUME TypeOK, DeliveryInv, DeliveryInv', NEW s \in Senders,
           RecordConfirmed(s) \/ RecordFailure(s) \/ RecordError(s) \/ PartDenied(s)
    PROVE  Alert!Doubt \/ Alert!Decide \/ UNCHANGED Alert!alertVars
  <1>1. Alert!Undecided
    BY HolderUndecided DEF RecordConfirmed, RecordFailure, RecordError, PartDenied
  <1>2. UNCHANGED <<accepted, overtaken>>
    BY DEF RecordConfirmed, RecordFailure, RecordError, PartDenied
  <1>3. CASE event' = event BY <1>2, <1>3 DEF Verdict, Alert!alertVars
  <1>4. CASE event'.state \in {"UNCERTAIN", "RETRYABLE"}
    BY <1>1, <1>2, <1>4, VerdictOfNext DEF Alert!Doubt
  <1>5. CASE event'.state = "SENT"
    <2>1. \A p \in Parts : accepted[p] = 1
      BY <1>2, <1>5 DEF DeliveryInv, EventInv, PartInv
    <2> QED BY <1>1, <1>2, <1>5, <2>1, VerdictOfNext DEF Alert!Decide
  <1>6. CASE RecordFailure(s) /\ event'.state = "FAILED_FINAL"
    <2>1. pc[s] = "answered" /\ s \in Holders BY <1>6 DEF RecordFailure, Holders
    <2>2. result[s] \in {"RETRYABLE", "FAILED_FINAL"}
      BY <1>6, <2>1 DEF RecordFailure, RecordNotSent, RecordConflict, MarkedEvent,
                        Effective, TypeOK, ResultStates
    <2>3. part[s] \in Parts /\ accepted[part[s]] = 0
      BY <2>1, <2>2 DEF DeliveryInv, SendingInv, TypeOK
    <2> QED BY <1>1, <1>2, <1>6, <2>3, VerdictOfNext DEF Alert!Decide
  <1>7. \A state, retry : MarkedEvent(event, state, retry).state = state
    BY DEF MarkedEvent
  <1>8. RecordConfirmed(s) => event' = event \/ event'.state = "SENT"
    BY <1>7 DEF RecordConfirmed, RecordSent
  <1>9. RecordError(s) \/ PartDenied(s) => event' = event \/ event'.state = "UNCERTAIN"
    <2>1. MarkUncertain => event'.state = "UNCERTAIN" BY <1>7 DEF MarkUncertain
    <2>2. UNCHANGED ledgerVars => event' = event BY DEF ledgerVars
    <2> QED BY <2>1, <2>2 DEF RecordError, PartDenied
  <1>10. RecordFailure(s) => event'.state \in {"UNCERTAIN", "RETRYABLE", "SENT", "FAILED_FINAL"}
    <2>1. RecordConflict(part[s], attempt[s]) => event'.state = "UNCERTAIN"
      BY <1>7 DEF RecordConflict
    <2>2. RecordNotSent(part[s], attempt[s], result[s]) =>
            event'.state = Effective(result[s])
      BY <1>7 DEF RecordNotSent
    <2>3. pc[s] = "answered" =>
            Effective(result[s]) \in {"UNCERTAIN", "RETRYABLE", "SENT", "FAILED_FINAL"}
      BY DEF Effective, TypeOK, ResultStates
    <2> QED BY <2>1, <2>2, <2>3 DEF RecordFailure
  <1> QED BY <1>3, <1>4, <1>5, <1>6, <1>8, <1>9, <1>10

\* A supersession that finds the event as it was read decides an open alert,
\* of which something is unpublished, or withdraws a silent one; one that finds
\* it moved disputes it.
LEMMA SupersedeDecides ==
    ASSUME TypeOK, DeliveryInv, NEW s \in Senders, Supersede(s)
    PROVE  Alert!Dispute \/ Alert!Withdraw \/ Alert!Decide \/ UNCHANGED Alert!alertVars
  <1> DEFINE seen == snap[s].state
  <1>1. accepted' = accepted /\ overtaken' = (overtaken \/ event.state # seen)
    BY DEF Supersede
  <1>2. \/ event' = event
        \/ event'.state = "FAILED_FINAL" /\ seen \in Supersedable
    BY SupersededState DEF Supersede
  <1>3. event' = event => Verdict' = Verdict BY DEF Verdict
  <1>4. event'.state = "FAILED_FINAL" => Verdict' = "failed" BY VerdictOfNext
  <1>5. CASE event.state # seen
    <2>1. event.state \in DeliveryStates
      BY BusyEventExists DEF Supersede, TypeOK, LedgerTypeOK, EventRow
    <2>2. Verdict # "absent"
      BY <2>1, VerdictOf DEF DeliveryStates, AUTO_CLAIMABLE_STATES, TERMINAL_STATES
    <2>3. overtaken' = TRUE BY <1>1, <1>5
    <2>4. Verdict' = Verdict \/ Verdict' = "failed" BY <1>2, <1>3, <1>4
    <2> QED BY <1>1, <2>2, <2>3, <2>4 DEF Alert!Dispute
  <1>6. CASE event.state = seen
    <2>1. overtaken' = overtaken BY <1>1, <1>6 DEF TypeOK
    <2>2. CASE event' = event BY <1>1, <1>3, <2>1, <2>2 DEF Alert!alertVars
    <2>3. CASE Verdict' = "failed" /\ event.state = "FAILED_FINAL"
      BY <1>1, <2>1, <2>3, VerdictOf DEF Alert!alertVars
    <2>4. CASE /\ Verdict' = "failed"
               /\ event.state \in {"SKIPPED_DRY_RUN", "POLICY_DISABLED"}
      BY <1>1, <2>1, <2>4, VerdictOf DEF Alert!Withdraw
    <2>5. CASE Verdict' = "failed" /\ event.state \in AUTO_CLAIMABLE_STATES
      <3>1. Verdict = "open" BY <2>5, VerdictOf DEF AUTO_CLAIMABLE_STATES
      <3>2. \E p \in Parts : accepted[p] = 0
        BY <2>5 DEF DeliveryInv, ClaimIsDeliverable, OpenParts, PartInv
      <3> QED BY <1>1, <2>1, <2>5, <3>1, <3>2 DEF Alert!Decide, Alert!Undecided
    <2> QED
      BY <1>2, <1>4, <1>6, <2>2, <2>3, <2>4, <2>5 DEF Supersedable, NoSendStates
  <1> QED BY <1>5, <1>6

\* Every step of the delivery is a step of the promise, or none.
LEMMA StepImplements ==
    ASSUME TypeOK, DeliveryInv, DeliveryInv', [Next]_vars
    PROVE  [Alert!AlertNext]_(Alert!alertVars)
  <1>1. ASSUME event' = event, accepted' = accepted, overtaken' = overtaken
        PROVE  UNCHANGED Alert!alertVars
    BY <1>1 DEF Verdict, Alert!alertVars
  <1>2. ASSUME NEW s \in Senders,
               Recover(s) \/ RecoverDeliver(s) \/ ReadSnapshot(s)
               \/ ReadSuperseded(s) \/ StartPart(s) \/ Crash(s)
        PROVE  UNCHANGED Alert!alertVars
    BY <1>1, <1>2 DEF Recover, RecoverDeliver, ReadSnapshot, ReadSuperseded, StartPart,
                      MarkPartInFlight, Crash, ledgerVars
  <1>3. ASSUME NEW s \in Senders, Commit(s) PROVE Alert!Announce
    BY <1>3, VerdictOf, VerdictOfNext DEF Commit, CommitIntent, NewEvent, Alert!Announce
  <1>4. ASSUME NEW s \in Senders, RecoverTerminal(s) \/ NoSend(s)
        PROVE  Alert!Decide \/ UNCHANGED Alert!alertVars
    BY <1>1, <1>4, TerminalizeDecides DEF RecoverTerminal, NoSend, NoSendStates, ledgerVars
  <1>5. ASSUME NEW s \in Senders, ClaimDenied(s) \/ Claim(s)
        PROVE  Alert!Doubt \/ UNCHANGED Alert!alertVars
    <2>1. accepted' = accepted /\ overtaken' = overtaken
      BY <1>5 DEF ClaimDenied, Claim
    <2>2. CASE RecoverStale
      <3>1. event.state = "IN_FLIGHT" /\ event'.state = "UNCERTAIN"
        BY <2>2 DEF RecoverStale, Stale, TypeOK, LedgerTypeOK, EventRow
      <3> QED BY <2>1, <3>1, VerdictOf, VerdictOfNext DEF Alert!Doubt, Alert!Undecided
    <2>3. CASE ClaimRefused BY <1>1, <2>1, <2>3 DEF ClaimRefused, ledgerVars
    <2>4. CASE ClaimGranted
      <3>1. event.state \in {"PENDING", "RETRYABLE"} /\ event'.state = "IN_FLIGHT"
        BY <2>4 DEF ClaimGranted, Claimable, AUTO_CLAIMABLE_STATES, ClaimedEvent
      <3> QED BY <2>1, <3>1, VerdictOf, VerdictOfNext DEF Alert!Doubt, Alert!Undecided
    <2> QED BY <1>5, <2>2, <2>3, <2>4 DEF ClaimDenied, Claim
  <1>6. ASSUME Clock PROVE UNCHANGED Alert!alertVars
    <2>1. event'.state = event.state /\ UNCHANGED <<accepted, overtaken>>
      BY <1>6 DEF Clock, LeaseExpires, RetryFallsDue, TypeOK, LedgerTypeOK, EventRow
    <2> QED BY <2>1 DEF Verdict, Alert!alertVars
  <1>7. CASE UNCHANGED vars BY <1>1, <1>7 DEF vars, ledgerVars
  <1> QED
    BY <1>2, <1>3, <1>4, <1>5, <1>6, <1>7, TransmitPublishes, RecordDecides,
       SupersedeDecides
    DEF Next, Work, Alert!AlertNext

\* The delivery code implements the promise of AlertDelivery.
THEOREM DeliveryImplementsAlert ==
    ASSUME ServerErrorMayAccept = FALSE
    PROVE  Spec => ImplementsAlert
  <1>1. Init => Alert!AlertInit
    <2>1. LedgerInit => event.state = "ABSENT" BY DEF LedgerInit, NewEvent
    <2>2. Init => /\ LedgerInit /\ overtaken = FALSE
                  /\ accepted = [p \in Parts |-> 0]
      BY DEF Init
    <2> QED BY <2>1, <2>2, VerdictOf DEF Alert!AlertInit
  <1>2. TypeOK /\ DeliveryInv /\ DeliveryInv' /\ [Next]_vars
          => [Alert!AlertNext]_(Alert!alertVars)
    BY StepImplements
  <1> QED BY <1>1, <1>2, TypeCorrect, DeliveryInvariant, PTL
          DEF Spec, ImplementsAlert, Alert!AlertSpec
=============================================================================
