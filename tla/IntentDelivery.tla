--------------------------- MODULE IntentDelivery ---------------------------
(***************************************************************************)
(* Senders that deliver one public alert through the ledger                *)
(* (_deliver_committed_public_alert_intent and recover_public_lifecycle_   *)
(* alerts of app/alerts/telegram_lifecycle.py, the transport of            *)
(* app/alerts/telegram.py).                                                *)
(*                                                                         *)
(* A sender is one run of a scan process.  Several run against the same    *)
(* database; each of their transactions is a step, and so is each HTTP     *)
(* request.  A sender may stop anywhere: the process dies, or the task is  *)
(* cancelled at its await (CancelledError is not an Exception, so nothing  *)
(* is recorded).  Telegram itself is external: it may accept a message and *)
(* the sender may never learn of it.                                       *)
(***************************************************************************)
EXTENDS TelegramOutbox

CONSTANTS Senders,               \* concurrent runs of the delivery code
          MaxCrashes,            \* bound: how many times a sender may stop
          ServerErrorMayAccept   \* can an HTTP 5xx follow an acceptance?

ASSUME DeliveryAssumption ==
    /\ MaxCrashes \in Nat
    /\ ServerErrorMayAccept \in BOOLEAN

VARIABLES pc,        \* where each sender is
          attempt,   \* claim.attempt_id of the sender
          todo,      \* parts of claim.parts it has not finished
          part,      \* the part it is sending
          result,    \* the delivery_state the transport reported
          snap,      \* the event columns it read before the claim
          accepted,  \* how often Telegram published each part
          crashes,   \* how often a sender has stopped
          overtaken  \* history: has a supersession written an event that
                     \* another sender had moved since it was read?

senderVars == <<pc, attempt, todo, part, result, snap>>
vars == <<ledgerVars, senderVars, accepted, crashes, overtaken>>

NoSnapshot == [state |-> "ABSENT", attempt |-> 0, count |-> 0]
EventSnapshot ==
    [state |-> event.state, attempt |-> event.attempt, count |-> event.count]

(***************************************************************************)
(* send_telegram_message_part: what can happen to one request, whether     *)
(* Telegram published the message, and how the code classifies it.         *)
(***************************************************************************)
Causes == {"ok", "not_connected", "rate_limited", "server_error",
           "rejected", "ambiguous"}

Accepts(cause) ==
    CASE cause = "ok" -> {TRUE}
      [] cause = "ambiguous" -> BOOLEAN
      [] cause = "server_error" -> {FALSE, ServerErrorMayAccept}
      [] OTHER -> {FALSE}

Classify_TimeoutRetryable(cause) ==
    CASE cause = "ok" -> "SENT"
      [] cause = "rejected" -> "FAILED_FINAL"
      [] OTHER -> "RETRYABLE"
Classify(cause) ==
    CASE cause = "ok" -> "SENT"
      [] cause = "ambiguous" -> "UNCERTAIN"
      [] cause = "rejected" -> "FAILED_FINAL"
      [] OTHER -> "RETRYABLE"

Init ==
    /\ LedgerInit
    /\ pc = [s \in Senders |-> "idle"]
    /\ attempt = [s \in Senders |-> 0]
    /\ todo = [s \in Senders |-> {}]
    /\ part = [s \in Senders |-> 0]
    /\ result = [s \in Senders |-> "NONE"]
    /\ snap = [s \in Senders |-> NoSnapshot]
    /\ accepted = [p \in Parts |-> 0]
    /\ crashes = 0
    /\ overtaken = FALSE

\* The locals of sender s when its delivery returns, or its process stops.
Return(s) ==
    /\ pc' = [pc EXCEPT ![s] = "idle"]
    /\ attempt' = [attempt EXCEPT ![s] = 0]
    /\ todo' = [todo EXCEPT ![s] = {}]
    /\ part' = [part EXCEPT ![s] = 0]
    /\ result' = [result EXCEPT ![s] = "NONE"]
    /\ snap' = [snap EXCEPT ![s] = NoSnapshot]

GoTo(s, label) == pc' = [pc EXCEPT ![s] = label]

-----------------------------------------------------------------------------
\* The scan that reserved the event commits the intent and its parts.
Commit(s) ==
    /\ pc[s] = "idle"
    /\ CommitIntent
    /\ GoTo(s, "committed")
    /\ UNCHANGED <<attempt, todo, part, result, snap, accepted, crashes, overtaken>>


\* recover_public_lifecycle_alerts selects the row of an open event.
Recover(s) ==
    /\ pc[s] = "idle"
    /\ event.state \in AUTO_CLAIMABLE_STATES \cup {"IN_FLIGHT"}
    /\ snap' = [snap EXCEPT ![s] = EventSnapshot]
    /\ GoTo(s, "recovering")
    /\ UNCHANGED <<ledgerVars, attempt, todo, part, result, accepted, crashes, overtaken>>

\* It ends an intent that must not be published with the row it selected,
RecoverTerminal(s) ==
    /\ pc[s] = "recovering"
    /\ \/ Terminalize(snap[s], "FAILED_FINAL")
       \/ ~SnapshotMatches(snap[s]) /\ UNCHANGED ledgerVars
    /\ Return(s)
    /\ UNCHANGED <<accepted, crashes, overtaken>>

\* or delivers it: the parts exist, so the first commit writes nothing.
RecoverDeliver(s) ==
    /\ pc[s] = "recovering"
    /\ GoTo(s, "committed")
    /\ UNCHANGED <<ledgerVars, attempt, todo, part, result, snap, accepted, crashes, overtaken>>

\* no_send_snapshot is read before dry-run and preflight are consulted.
ReadSnapshot(s) ==
    /\ pc[s] = "committed"
    /\ snap' = [snap EXCEPT ![s] = EventSnapshot]
    /\ GoTo(s, "preflight")
    /\ UNCHANGED <<ledgerVars, attempt, todo, part, result, accepted, crashes, overtaken>>

\* Dry run, or preflight blocked the message.
NoSend(s) ==
    /\ pc[s] = "preflight"
    /\ \/ \E state \in NoSendStates : Terminalize(snap[s], state)
       \/ ~SnapshotMatches(snap[s]) /\ UNCHANGED ledgerVars
    /\ Return(s)
    /\ UNCHANGED <<accepted, crashes, overtaken>>

\* claim finds the event stale and quarantines it, or finds it taken.
ClaimDenied(s) ==
    /\ pc[s] = "preflight"
    /\ RecoverStale \/ ClaimRefused
    /\ Return(s)
    /\ UNCHANGED <<accepted, crashes, overtaken>>

Claim(s) ==
    /\ pc[s] = "preflight"
    /\ ClaimGranted
    /\ attempt' = [attempt EXCEPT ![s] = issued + 1]
    /\ todo' = [todo EXCEPT ![s] = OpenParts]
    /\ GoTo(s, "claimed")
    /\ UNCHANGED <<part, result, snap, accepted, crashes, overtaken>>

FirstOf(p, S) == p \in S /\ \A q \in S : p <= q

StartPart(s) ==
    /\ pc[s] = "claimed"
    /\ \E p \in Parts :
         /\ FirstOf(p, todo[s])
         /\ MarkPartInFlight(p, attempt[s])
         /\ part' = [part EXCEPT ![s] = p]
    /\ GoTo(s, "sending")
    /\ UNCHANGED <<attempt, todo, result, snap, accepted, crashes, overtaken>>

\* mark_part_in_flight returned False, because a supersession has ended the
\* part: mark_uncertain_after_persistence_failure, which may fail silently.
PartDenied(s) ==
    /\ pc[s] = "claimed"
    /\ \E p \in Parts : FirstOf(p, todo[s]) /\ ~CanMarkPart(p, attempt[s])
    /\ MarkUncertain \/ UNCHANGED ledgerVars
    /\ Return(s)
    /\ UNCHANGED <<accepted, crashes, overtaken>>

\* The HTTP request and its answer.
Transmit(s) ==
    /\ pc[s] = "sending"
    /\ \E cause \in Causes : \E accept \in Accepts(cause) :
         /\ accepted' = [accepted EXCEPT ![part[s]] = IF accept THEN @ + 1 ELSE @]
         /\ result' = [result EXCEPT ![s] = Classify(cause)]
    /\ GoTo(s, "answered")
    /\ UNCHANGED <<ledgerVars, attempt, todo, part, snap, crashes, overtaken>>

\* record_part_result of a confirmed part; the loop goes on until the event
\* is SENT or claim.parts are exhausted ("multipart_terminal_state_missing").
RecordConfirmed(s) ==
    /\ pc[s] = "answered" /\ result[s] = "SENT"
    /\ RecordSent(part[s], attempt[s])
    /\ IF LastUnsent(part[s]) \/ todo[s] = {part[s]}
       THEN Return(s)
       ELSE /\ GoTo(s, "claimed")
            /\ todo' = [todo EXCEPT ![s] = @ \ {part[s]}]
            /\ UNCHANGED <<attempt, part, result, snap>>
    /\ UNCHANGED <<accepted, crashes, overtaken>>

RecordFailure(s) ==
    /\ pc[s] = "answered"
    /\ \/ result[s] # "SENT" /\ RecordNotSent(part[s], attempt[s], result[s])
       \/ RecordConflict(part[s], attempt[s])
    /\ Return(s)
    /\ UNCHANGED <<accepted, crashes, overtaken>>

\* The result transaction raised: mark_uncertain_after_persistence_failure,
\* which may itself fail and then returns silently.
RecordError(s) ==
    /\ pc[s] = "answered"
    /\ MarkUncertain \/ UNCHANGED ledgerVars
    /\ Return(s)
    /\ UNCHANGED <<accepted, crashes, overtaken>>

\* reconcile_publicly_tracked_outcomes of a scan that saw a higher target
\* reached before this one was SENT selects this event's row.  (Its test that
\* the target is not SENT is older still; a row read as SENT is left alone.)
ReadSuperseded(s) ==
    /\ pc[s] = "idle"
    /\ event.state # "ABSENT"
    /\ snap' = [snap EXCEPT ![s] = EventSnapshot]
    /\ GoTo(s, "superseding")
    /\ UNCHANGED <<ledgerVars, attempt, todo, part, result, accepted, crashes, overtaken>>

\* The SELECT left no transaction open, so other senders may have moved the
\* event.  The UPDATEs are committed together; a crash rolls them back.
Supersede(s) ==
    /\ pc[s] = "superseding"
    /\ SupersedeIntent(snap[s].state)
    /\ overtaken' = (overtaken \/ event.state # snap[s].state)
    /\ Return(s)
    /\ UNCHANGED <<accepted, crashes>>

Crash(s) ==
    /\ crashes < MaxCrashes
    /\ pc[s] # "idle"
    /\ crashes' = crashes + 1
    /\ Return(s)
    /\ UNCHANGED <<ledgerVars, accepted, overtaken>>

Clock ==
    /\ LeaseExpires \/ RetryFallsDue
    /\ UNCHANGED <<senderVars, accepted, crashes, overtaken>>

Work(s) == \/ RecoverTerminal(s) \/ RecoverDeliver(s) \/ ReadSnapshot(s)
           \/ NoSend(s) \/ ClaimDenied(s) \/ Claim(s) \/ StartPart(s)
           \/ PartDenied(s) \/ Transmit(s) \/ RecordConfirmed(s)
           \/ RecordFailure(s) \/ RecordError(s) \/ Supersede(s)

Next == \/ \E s \in Senders : \/ Commit(s) \/ Recover(s) \/ ReadSuperseded(s)
                              \/ Work(s) \/ Crash(s)
        \/ Clock

Spec == Init /\ [][Next]_vars

-----------------------------------------------------------------------------
SnapshotRow == [state : DeliveryStates \cup {"ABSENT"},
                attempt : Nat, count : Nat]
Labels == {"idle", "recovering", "committed", "preflight", "claimed",
           "sending", "answered", "superseding"}

\* The rows hold values their columns admit, the locals what the code assigns.
TypeOK ==
    /\ LedgerTypeOK
    /\ pc \in [Senders -> Labels]
    /\ attempt \in [Senders -> Nat]
    /\ todo \in [Senders -> SUBSET Parts]
    /\ part \in [Senders -> Parts \cup {0}]
    /\ result \in [Senders -> ResultStates \cup {"NONE"}]
    /\ snap \in [Senders -> SnapshotRow]
    /\ accepted \in [Parts -> Nat]
    /\ crashes \in 0 .. MaxCrashes
    /\ overtaken \in BOOLEAN
    /\ \A s \in Senders : pc[s] \in {"sending", "answered"} => part[s] \in Parts
    /\ \A s \in Senders : pc[s] = "answered" => result[s] \in ResultStates

\* At-most-once publication: no part of an alert appears twice in the
\* channel, whatever sender stops where and whoever recovers the event.
AtMostOnce == \A p \in Parts : accepted[p] <= 1

\* A SENT event tells the truth: every part is SENT and was published.
SentIsPublished ==
    event.state = "SENT" =>
        \A p \in Parts : parts[p].state = "SENT" /\ accepted[p] >= 1

\* An alert ended without sending (dry run, policy) was never published.
NoSendIsSilent ==
    event.state \in {"SKIPPED_DRY_RUN", "POLICY_DISABLED"} =>
        \A p \in Parts : accepted[p] = 0

\* The reservation row mirrors the event row after every transaction, except
\* that a supersession on an old reading may leave one of them FAILED_FINAL.
ProjectionsAgree ==
    /\ \/ reservation.state = event.state
       \/ overtaken /\ "FAILED_FINAL" \in {event.state, reservation.state}
    /\ reservation.attempt = event.attempt
    /\ reservation.count = event.count
    /\ reservation.retry = event.retry

\* An event a claim may take has a part left to send and an attempt left to
\* spend, so the give-up branches of claim are never taken by a sender.
ClaimIsDeliverable ==
    event.state \in AUTO_CLAIMABLE_STATES =>
        OpenParts # {} /\ event.count < MaxAttempts

\* At most one sender holds a claim, and it is the claim of the event.
Holders == {s \in Senders : pc[s] \in {"claimed", "sending", "answered"}}
SingleHolder ==
    /\ \A s, t \in Holders : s = t
    /\ \A s \in Holders : attempt[s] = event.attempt

(***************************************************************************)
(* Why those hold: the inductive invariant of the delivery.                *)
(***************************************************************************)
\* A sender keeps its claim while the event is in flight or quarantined, or
\* was superseded under it.
HolderInv ==
    \A s \in Holders : /\ \/ event.state \in {"IN_FLIGHT", "UNCERTAIN"}
                          \/ overtaken /\ event.state = "FAILED_FINAL"
                       /\ attempt[s] # 0

\* A part that a supersession has ended although a sender had claimed it.
Dropped(p) == overtaken /\ parts[p].state = "FAILED_FINAL"

\* The holder has the open parts still to do; the others are SENT.
WorkInv ==
    \A s \in Holders :
      /\ todo[s] # {}
      /\ \A p \in Parts \ todo[s] : parts[p].state = "SENT" \/ Dropped(p)
      /\ \A p \in todo[s] :
           \/ parts[p].state \in AUTO_CLAIMABLE_STATES \/ Dropped(p)
           \/ pc[s] # "claimed" /\ p = part[s]

\* The part it is sending is in flight under its attempt, or was quarantined
\* with the event; until the answer Telegram has not published it.
SendingInv ==
    \A s \in Holders : pc[s] # "claimed" =>
      /\ part[s] \in todo[s]
      /\ \/ OwnsPart(part[s], attempt[s])
         \/ parts[part[s]].state = "UNCERTAIN"
      /\ pc[s] = "sending" => accepted[part[s]] = 0
      /\ pc[s] = "answered" =>
           /\ result[s] \in ResultStates
           /\ result[s] = "SENT" => accepted[part[s]] = 1
           /\ result[s] \in {"RETRYABLE", "FAILED_FINAL"} => accepted[part[s]] = 0

\* What the state of a part says about the channel.
PartInv ==
    \A p \in Parts :
      /\ accepted[p] \in {0, 1}
      /\ parts[p].state = "SENT" => accepted[p] = 1
      /\ parts[p].state \in AUTO_CLAIMABLE_STATES \cup NoSendStates \cup {"ABSENT"} =>
            accepted[p] = 0

\* What the state of the event says about its parts.
EventInv ==
    /\ event.state = "ABSENT" => /\ \A p \in Parts : parts[p].state = "ABSENT"
                                 /\ \A s \in Senders : pc[s] = "idle"
    /\ event.state = "PENDING" => event.count = 0
    /\ event.state \in AUTO_CLAIMABLE_STATES =>
         \A p \in Parts : \/ parts[p].state \in AUTO_CLAIMABLE_STATES \cup {"SENT"}
                          \/ Dropped(p)
    /\ event.state = "SENT" => \A p \in Parts : parts[p].state = "SENT"
    /\ event.state \in {"SKIPPED_DRY_RUN", "POLICY_DISABLED"} =>
         \A p \in Parts : parts[p].state \in NoSendStates

\* The ledger and the channel agree at every interleaving of the senders.
DeliveryInv ==
    /\ HolderInv /\ SingleHolder /\ WorkInv /\ SendingInv
    /\ PartInv /\ EventInv /\ ProjectionsAgree /\ ClaimIsDeliverable

\* Success and final failure are for ever, with what supersession adds: it
\* turns an alert ended without sending into a failure; decided on an old
\* reading, it may turn SENT into FAILED_FINAL, and a FAILED_FINAL it wrote
\* over a sender's claim is open to what that sender still records.
Settled == {"SENT", "FAILED_FINAL", "SKIPPED_DRY_RUN", "POLICY_DISABLED"}
SettledIsFinal ==
    [][event.state \in Settled /\ event'.state # event.state =>
         \/ event.state # "SENT" /\ event'.state = "FAILED_FINAL"
         \/ overtaken' /\ event.state = "SENT" /\ event'.state = "FAILED_FINAL"
         \/ overtaken /\ event.state = "FAILED_FINAL" /\ Holders # {}]_vars

\* The channel and the event row behave as AlertDelivery promises.
Verdict ==
    CASE event.state = "ABSENT" -> "absent"
      [] event.state \in AUTO_CLAIMABLE_STATES \cup {"IN_FLIGHT"} -> "open"
      [] event.state = "UNCERTAIN" -> "uncertain"
      [] event.state = "SENT" -> "sent"
      [] event.state = "FAILED_FINAL" -> "failed"
      [] OTHER -> "silent"
Alert == INSTANCE AlertDelivery WITH
    Messages <- Parts, verdict <- Verdict, copies <- accepted, disputed <- overtaken
ImplementsAlert == Alert!AlertSpec

(***************************************************************************)
(* Progress, when neither dry run nor a policy ends the alert.  Scans      *)
(* repeat for ever, each drives its deliveries to their end, and time      *)
(* passes; processes stop at most MaxCrashes times.  Recover is strongly   *)
(* fair: deliver_for_run calls recover_public_lifecycle_alerts after       *)
(* reconcile_publicly_tracked_outcomes, so a sender cannot do nothing but  *)
(* supersede.                                                              *)
(***************************************************************************)
Deliver(s) == \/ RecoverDeliver(s) \/ ReadSnapshot(s) \/ ClaimDenied(s)
              \/ Claim(s) \/ StartPart(s) \/ PartDenied(s) \/ Transmit(s)
              \/ RecordConfirmed(s) \/ RecordFailure(s) \/ RecordError(s)
              \/ Supersede(s)

DeliverNext == \/ \E s \in Senders : \/ Commit(s) \/ Recover(s) \/ ReadSuperseded(s)
                                     \/ Deliver(s) \/ Crash(s)
               \/ Clock

FairSpec == /\ Init /\ [][DeliverNext]_vars
            /\ \A s \in Senders : WF_vars(Deliver(s)) /\ SF_vars(Recover(s))
            /\ WF_vars(Clock)


\* Documented: "UNCERTAIN remains non-auto-retryable".
UncertainIsQuarantined ==
    [][event.state = "UNCERTAIN" => event'.state \notin AUTO_CLAIMABLE_STATES]_vars

\* Documented: once POLICY_DISABLED, SKIPPED_DRY_RUN or FAILED_FINAL is
\* recorded "the event is terminal and recovery excludes it".
TerminalIsExcluded ==
    [][event.state \in NoSendStates =>
         event'.state \notin AUTO_CLAIMABLE_STATES \cup {"IN_FLIGHT"}]_vars
=============================================================================
