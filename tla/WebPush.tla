------------------------------- MODULE WebPush -------------------------------
(***************************************************************************)
(* Web push (notifications/service.py, notifications/push.py and the       *)
(* preference and subscription routes of web/routes/notifications.py) for  *)
(* one account and one type of notification.  create_notification makes    *)
(* one delivery row per active subscription; workers claim rows under a    *)
(* lease, look at the preferences once more, send in a thread and write    *)
(* the outcome.  The lock of run_notification_worker holds between the     *)
(* processes of one host, so the workers here are hosts that share a       *)
(* database, each able to crash at any point.  Delays are a free choice of *)
(* the next step; a lease lapses when its row says so.                     *)
(***************************************************************************)
EXTENDS Naturals, Integers, FiniteSets

CONSTANTS Events,       \* dedupe keys of notifications
          Endpoints,    \* browsers
          PushWorkers,  \* hosts that run the worker
          PushAttempts, \* WebPushDelivery.max_attempts
          MaxPushCrashes \* bound: crashes of a worker

ASSUME WebPushAssumption ==
    /\ PushAttempts \in Nat \ {0} /\ MaxPushCrashes \in Nat
    /\ IsFiniteSet(PushWorkers) /\ "none" \notin PushWorkers

VARIABLES pref,      \* the switches that are on
          inbox,     \* notification_events
          endpoint,  \* web_push_subscriptions: absent, active, disabled
          push,      \* web_push_deliveries
          pusher,    \* what each worker holds
          pushCrashes, \* crashes so far
          taken,     \* how often the push service took each delivery
          overran,   \* deliveries whose lease lapsed while claimed, or
                     \* whose acceptance was not heard of
          grace      \* sends under way at the last opt-out, not yet taken

pushVars == <<pref, inbox, endpoint, push, pusher, pushCrashes, taken, overran, grace>>

\* The account's channel switch and the two switches of the type.
Switches == {"channel", "type", "type_push"}
Rows     == Events \X Endpoints
NoPush   == [status |-> "none", attempts |-> 0, owner |-> "none", lapsed |-> FALSE]
Resting  == [row |-> <<>>, phase |-> "idle", attempts |-> 0]

PushFinal == {"sent", "cancelled", "expired_subscription", "dead"}

PushInit ==
    /\ pref     = {"type"}
    /\ inbox    = {}
    /\ endpoint = [s \in Endpoints |-> "absent"]
    /\ push     = [r \in Rows |-> NoPush]
    /\ pusher   = [w \in PushWorkers |-> Resting]
    /\ pushCrashes = 0
    /\ taken    = [r \in Rows |-> 0]
    /\ overran  = {}
    /\ grace    = [r \in Rows |-> 0]

\* What _deliver_one and create_notification ask of the preferences.
Wanted(p) == Switches \subseteq p

Deliverable(r) == Wanted(pref) /\ endpoint[r[2]] = "active"

Sending(r) == {w \in PushWorkers : pusher[w].phase = "sending" /\ pusher[w].row = r}

\* Rows not yet claimed are cancelled; a claimed one is left to its worker.
Cancelled(rows) ==
    [r \in Rows |-> IF r \in rows /\ push[r].status \in {"pending", "retry"}
                    THEN [push[r] EXCEPT !.status = "cancelled", !.owner = "none"]
                    ELSE push[r]]

-----------------------------------------------------------------------------
\* create_notification.  A second call with the same dedupe key changes nothing.
CreateNotification(e) ==
    /\ e \notin inbox
    /\ "type" \in pref
    /\ inbox' = inbox \cup {e}
    /\ push' = [r \in Rows |->
                  IF r[1] = e /\ Deliverable(r)
                  THEN [NoPush EXCEPT !.status = "pending"] ELSE push[r]]
    /\ UNCHANGED <<pref, endpoint, pusher, pushCrashes, taken, overran, grace>>

\* preferences_update.
PreferencesUpdate(p) ==
    /\ p # pref
    /\ pref' = p
    /\ push' = IF Wanted(p) THEN push ELSE Cancelled(Rows)
    /\ grace' = IF Wanted(pref) /\ ~Wanted(p)
                THEN [r \in Rows |-> Cardinality(Sending(r))] ELSE grace
    /\ UNCHANGED <<inbox, endpoint, pusher, pushCrashes, taken, overran>>

WebPushSubscribe(s) ==
    /\ "channel" \in pref
    /\ endpoint[s] # "active"
    /\ endpoint' = [endpoint EXCEPT ![s] = "active"]
    /\ UNCHANGED <<pref, inbox, push, pusher, pushCrashes, taken, overran, grace>>

\* web_push_unsubscribe, of one browser or of all.
WebPushUnsubscribe(S) ==
    LET rows == {r \in Rows : r[2] \in S} IN
    /\ \E s \in S : endpoint[s] = "active"
    /\ endpoint' = [s \in Endpoints |->
                      IF s \in S /\ endpoint[s] = "active" THEN "disabled" ELSE endpoint[s]]
    /\ push' = Cancelled(rows)
    /\ grace' = [r \in Rows |-> IF r \in rows /\ endpoint[r[2]] = "active"
                                THEN Cardinality(Sending(r)) ELSE grace[r]]
    /\ UNCHANGED <<pref, inbox, pusher, pushCrashes, taken, overran>>

-----------------------------------------------------------------------------
\* Mutation: a row is claimed whether or not its lease runs.
PushClaimableLeased(r) ==
    push[r].attempts < PushAttempts /\ push[r].status \in {"pending", "retry", "leased"}

PushClaimable(r) ==
    /\ push[r].attempts < PushAttempts
    /\ \/ push[r].status \in {"pending", "retry"}
       \/ push[r].status = "leased" /\ push[r].lapsed

\* The columns that end a claim.
Closed(row, status) == [row EXCEPT !.status = status, !.owner = "none", !.lapsed = FALSE]

\* Mutation: a row that used its attempts up stays leased.
BuriedNever == push

\* A lapsed lease with no attempt left buries the row; part of every _claim.
Buried ==
    [r \in Rows |->
       IF push[r].status = "leased" /\ push[r].lapsed /\ push[r].attempts >= PushAttempts
       THEN Closed(push[r], "dead")
       ELSE push[r]]

\* _claim: one conditional update.
Claim(w, r) ==
    /\ pusher[w].phase = "idle"
    /\ PushClaimable(r)
    /\ push' = [Buried EXCEPT ![r] = [status |-> "leased", owner |-> w, lapsed |-> FALSE,
                                      attempts |-> push[r].attempts + 1]]
    /\ pusher' = [pusher EXCEPT ![w] = [row |-> r, phase |-> "claimed", attempts |-> 0]]
    /\ UNCHANGED <<pref, inbox, endpoint, pushCrashes, taken, overran, grace>>

\* A pass that finds nothing to claim still buries.
ClaimNothing ==
    /\ \A r \in Rows : ~PushClaimable(r)
    /\ Buried # push
    /\ push' = Buried
    /\ UNCHANGED <<pref, inbox, endpoint, pusher, pushCrashes, taken, overran, grace>>

\* process_push_queue reads the row again; it may have lost it meanwhile.
LostClaim(w) ==
    /\ pusher[w].phase = "claimed"
    /\ push[pusher[w].row].owner # w
    /\ pusher' = [pusher EXCEPT ![w] = Resting]
    /\ UNCHANGED <<pref, inbox, endpoint, push, pushCrashes, taken, overran, grace>>

\* Mutation: the preferences of the time of the event are good enough.
StillWantedAlways(r) == TRUE

StillWanted(r) == Deliverable(r)

\* _deliver_one up to the thread.
DeliverOne(w) ==
    LET r == pusher[w].row IN
    /\ pusher[w].phase = "claimed"
    /\ push[r].owner = w
    /\ IF StillWanted(r)
       THEN /\ pusher' = [pusher EXCEPT ![w] =
                 [row |-> r, phase |-> "sending", attempts |-> push[r].attempts]]
            /\ UNCHANGED push
       ELSE /\ pusher' = [pusher EXCEPT ![w] = Resting]
            /\ push' = [push EXCEPT ![r] = Closed(@, "cancelled")]
    /\ UNCHANGED <<pref, inbox, endpoint, pushCrashes, taken, overran, grace>>

\* _schedule_retry decides by the attempts the worker read.
ScheduleRetry(w) == IF pusher[w].attempts >= PushAttempts THEN "dead" ELSE "retry"

\* _send: codes 2xx, 404/410, 429 or 5xx or no answer, any other; `unheard'
\* is a message that the service took although the worker heard an error.
PushAnswers == {"ok", "gone", "transient", "unheard", "permanent"}

Outcome(w, answer) ==
    CASE answer = "ok"        -> "sent"
      [] answer = "gone"      -> "expired_subscription"
      [] answer = "permanent" -> "dead"
      [] answer \in {"transient", "unheard"} -> ScheduleRetry(w)

\* The rest of _deliver_one: the row is written by its key, whoever owns it now.
Record(w, answer) ==
    LET r    == pusher[w].row
        took == answer \in {"ok", "unheard"}
    IN  /\ pusher[w].phase = "sending"
        /\ push' = [push EXCEPT ![r] = Closed(@, Outcome(w, answer))]
        /\ endpoint' = IF answer = "gone" THEN [endpoint EXCEPT ![r[2]] = "disabled"]
                                          ELSE endpoint
        /\ taken' = IF took THEN [taken EXCEPT ![r] = @ + 1] ELSE taken
        /\ overran' = IF answer = "unheard" THEN overran \cup {r} ELSE overran
        /\ grace' = [q \in Rows |->
             IF q = r /\ took /\ ~Deliverable(r) THEN grace[q] - 1
             ELSE IF answer = "gone" /\ q[2] = r[2] /\ Deliverable(q)
             THEN Cardinality(Sending(q) \ {w}) ELSE grace[q]]
        /\ pusher' = [pusher EXCEPT ![w] = Resting]
        /\ UNCHANGED <<pref, inbox, pushCrashes>>

LeaseLapses(r) ==
    /\ push[r].status = "leased"
    /\ ~push[r].lapsed
    /\ push' = [push EXCEPT ![r] = [@ EXCEPT !.lapsed = TRUE]]
    /\ overran' = overran \cup {r}
    /\ UNCHANGED <<pref, inbox, endpoint, pusher, pushCrashes, taken, grace>>

\* The process ends; a message already on its way may still arrive.
PushCrash(w) ==
    LET r == pusher[w].row IN
    /\ pusher[w].phase # "idle"
    /\ pushCrashes < MaxPushCrashes
    /\ pushCrashes' = pushCrashes + 1
    /\ pusher' = [pusher EXCEPT ![w] = Resting]
    /\ \E took \in {FALSE, pusher[w].phase = "sending"} :
         /\ taken' = IF took THEN [taken EXCEPT ![r] = @ + 1] ELSE taken
         /\ grace' = IF took /\ ~Deliverable(r) THEN [grace EXCEPT ![r] = @ - 1] ELSE grace
    /\ UNCHANGED <<pref, inbox, endpoint, push, overran>>

WorkerSteps(w) == \/ \E r \in Rows : Claim(w, r)
                  \/ LostClaim(w) \/ DeliverOne(w)
                  \/ \E answer \in PushAnswers : Record(w, answer)

PushNext ==
    \/ \E e \in Events : CreateNotification(e)
    \/ \E p \in SUBSET Switches : PreferencesUpdate(p)
    \/ \E s \in Endpoints : WebPushSubscribe(s)
    \/ \E S \in SUBSET Endpoints : WebPushUnsubscribe(S)
    \/ ClaimNothing
    \/ \E r \in Rows : LeaseLapses(r)
    \/ \E w \in PushWorkers : WorkerSteps(w) \/ PushCrash(w)

PushSpec == PushInit /\ [][PushNext]_pushVars

\* The worker's loop never ends, a request ends within its timeout, and time
\* passes.
PushFairness ==
    /\ WF_pushVars(ClaimNothing)
    /\ \A r \in Rows : WF_pushVars(LeaseLapses(r))
    /\ \A w \in PushWorkers : WF_pushVars(WorkerSteps(w))

-----------------------------------------------------------------------------
(* Properties.                                                             *)

\* The push service gets a message twice only when a worker outlived its
\* lease or died while it held the row, or the acceptance was never heard of:
\* the lease of _claim excludes every other way.
PushDuplicateExplained ==
    \A r \in Rows : taken[r] > 1 => r \in overran

\* After the account switched push off, or a browser was unsubscribed, the only
\* messages that still go out are those already in a worker's thread: a row
\* that was claimed but not sent is caught by the second look of _deliver_one,
\* although the opt-out itself only cancels unclaimed rows.
OptOutHolds == \A r \in Rows : grace[r] >= 0

\* A row that a late worker put back into `retry' when its attempts were used
\* up: _claim neither takes nor buries it.
Stranded(r) ==
    push[r].status = "retry" /\ push[r].attempts >= PushAttempts /\ r \in overran

\* Every delivery ends, as sent, cancelled or dead, whatever crashes, except
\* the stranded ones; and one is stranded only after its lease ran out.
PushSettles ==
    \A r \in Rows : push[r].status # "none" ~> push[r].status \in PushFinal \/ Stranded(r)
=============================================================================
