--------------------------- MODULE SoftwarePayments ---------------------------
(***************************************************************************)
(* The purchase of a software subscription or of Titan, as the webhook of  *)
(* supabase/functions/hercules-stripe-webhook and the requests of          *)
(* hercules-provider-connect see it.  A customer's purchase is granted and *)
(* revoked.  The owner's controlled purchase proves the payment path of a  *)
(* product: it is canceled, if it is a subscription, refunded, and         *)
(* certified when every step was reported.  It is granted like a           *)
(* customer's, which is left out of it here, with the change to active,    *)
(* which it does not require; left out of a customer's purchase is the     *)
(* invoice, which is granted like a checkout.                              *)
(*                                                                         *)
(* Stripe is external.  It reports an event until the report is answered   *)
(* with success, in any order; a report may come twice.  Every statement   *)
(* and call of a request is a step of its own and may fail; one that       *)
(* failed after its effect is a step followed by the failure of the next.  *)
(***************************************************************************)
EXTENDS Integers, FiniteSets

CONSTANTS
  NSlots,        \* requests served at a time
  MaxFaults,     \* bound: failed steps, and reports that come twice
  MaxReconciles  \* bound: reconcile requests

Slots == 1..NSlots

ASSUME PaymentsAssumption == {NSlots, MaxFaults, MaxReconciles} \subseteq Nat

\* The events the webhook gets.
Events == {"checkout", "created", "updated", "invoice", "deleted", "refunded"}

\* The status in the payload of the events that carry one.
Payload == [created |-> "incomplete", updated |-> "active", deleted |-> "canceled"]

\* How far a subscription with such a status has come.
Age == [none |-> 0, incomplete |-> 1, active |-> 2, canceled |-> 3]

VARIABLES
  kind,         \* "customer", or with a run "verification" of software or "titan"
  offered,      \* the address of the checkout was given out
  subscription, \* at Stripe; a Titan purchase stays "active"
  refunded,     \* at Stripe: the payment was given back
  sent,         \* events Stripe has
  answered,     \* events whose report was answered with success
  receipt,      \* hercules_webhook_receipts: of each event "none", "processed", or "open" for
                \* one that is received or failed, which nobody tells apart
  row,          \* hercules_software_subscriptions: the status of the subscription
  entitled,     \* hercules_software_entitlements: "none", or rows that are "off" or "on"
  run,          \* the verification run: its status, identifiers and evidence
  recorded,     \* its events
  request,      \* what each slot serves: [ev, at, status, seen]
  faults, reconciles,
  newest,       \* history: age of the newest status a statement wrote
  overtaken,    \* history: an older one was written after it
  slipped       \* history: calls that did not happen after they were noted as made

stripe == <<offered, subscription, refunded, sent>>
grants == <<row, entitled, newest, overtaken>>
runs == <<run, recorded>>
bounds == <<faults, reconciles>>
vars == <<kind, stripe, answered, receipt, grants, runs, request, bounds, slipped>>

NoRun == [status |-> "none", subscription |-> FALSE, invoice |-> FALSE, intent |-> FALSE,
          refund |-> FALSE, cancelAsked |-> FALSE, refundAsked |-> FALSE]

\* What certification needs: of a run that has all of these events, Titan's charge and
\* balance transaction are known, as a subscription's checkout session always is.
Required ==
  IF kind = "titan" THEN {"checkout", "refunded", "payout"}
  ELSE {"checkout", "created", "invoice", "deleted", "refunded"}

Identified(r) ==
  r.intent /\ r.refund /\ (kind = "titan" \/ (r.subscription /\ r.invoice))

\* The evidence a request has read from a run: what was asked of Stripe.
Evidence(r) == [cancel |-> r.cancelAsked, refund |-> r.refundAsked]
NoEvidence == [cancel |-> FALSE, refund |-> FALSE]

NoRequest == [ev |-> "none", at |-> "idle", status |-> "none", seen |-> NoEvidence]

At(k, s) == request[k].at = s
Goto(k, s) == request' = [request EXCEPT ![k].at = s]
Done(k) == request' = [request EXCEPT ![k] = NoRequest]

\* A customer has the address of the checkout; that of a run is to be prepared.
Init ==
  /\ kind \in {"customer", "verification", "titan"}
  /\ offered = (kind = "customer")
  /\ subscription = "none" /\ refunded = FALSE /\ sent = {} /\ answered = {}
  /\ receipt = [e \in Events |-> "none"]
  /\ row = "none" /\ entitled = "none"
  /\ run = NoRun /\ recorded = {}
  /\ request = [k \in Slots |-> NoRequest]
  /\ faults = 0 /\ reconciles = 0
  /\ newest = 0 /\ overtaken = FALSE /\ slipped = {}

NoStripe == UNCHANGED <<stripe, answered>>
NoTables == UNCHANGED <<receipt, grants, runs>>
NoBounds == UNCHANGED <<bounds, slipped>>

-----------------------------------------------------------------------------
\* Stripe

\* The checkout is completed: subscription and first payment, or one payment.
Pay ==
  /\ offered /\ subscription = "none"
  /\ subscription' = "active"
  /\ sent' = CASE kind = "customer" -> {"checkout", "created", "updated"}
               [] kind = "verification" -> {"checkout", "created", "invoice"}
               [] kind = "titan" -> {"checkout"}
  /\ UNCHANGED <<offered, refunded, answered, request>> /\ NoTables /\ NoBounds

\* DELETE of the subscription, and a refund of the whole payment.
Canceled ==
  /\ subscription' = IF subscription = "active" THEN "canceled" ELSE subscription
  /\ sent' = IF subscription = "active" THEN sent \cup {"deleted"} ELSE sent
  /\ UNCHANGED <<offered, refunded>>

Refunded ==
  /\ refunded' = TRUE
  /\ sent' = sent \cup {"refunded"}
  /\ UNCHANGED <<offered, subscription>>

\* Customer or owner cancel at Stripe.
BuyerCancels ==
  /\ kind # "titan" /\ subscription = "active"
  /\ Canceled
  /\ UNCHANGED <<answered, request>> /\ NoTables /\ NoBounds

\* Requests are alike: a new one takes the first slot that is idle.
Accepts(k) == At(k, "idle") /\ \A j \in 1..(k - 1) : ~At(j, "idle")

-----------------------------------------------------------------------------
\* The report of an event, and its receipt

\* The first step after the receipt.
Begin(e) ==
  IF e = "refunded" THEN "find"
  ELSE IF kind # "customer" THEN "identify"
  ELSE IF e = "checkout" THEN "fetch" ELSE "upsert"

\* The work on event e, whose payload may have the status.
Work(e) ==
  [NoRequest EXCEPT !.ev = e, !.at = Begin(e),
     !.status = IF e \in DOMAIN Payload /\ kind = "customer" THEN Payload[e] ELSE "none"]

\* insert() of the receipt fails if there is one.
Arrive(k, e) ==
  /\ Accepts(k)
  /\ IF receipt[e] = "none"
     THEN /\ receipt' = [receipt EXCEPT ![e] = "open"]
          /\ request' = [request EXCEPT ![k] = Work(e)]
     ELSE /\ request' = [request EXCEPT ![k] = [NoRequest EXCEPT !.ev = e, !.at = "lookup"]]
          /\ UNCHANGED receipt
  /\ NoStripe /\ UNCHANGED <<grants, runs, slipped>>

\* An event without an answer is reported; one more time than needed.
Deliver(k, e) ==
  /\ e \in sent \ answered
  /\ \A j \in Slots : request[j].ev # e
  /\ Arrive(k, e) /\ UNCHANGED bounds

DeliverAgain(k, e) ==
  /\ e \in sent /\ faults < MaxFaults
  /\ faults' = faults + 1
  /\ Arrive(k, e) /\ UNCHANGED reconciles

\* A bug the properties catch: every event with a receipt is a duplicate.
LookupAny(k) ==
  /\ At(k, "lookup")
  /\ Done(k) /\ answered' = answered \cup {request[k].ev}
  /\ UNCHANGED stripe /\ NoTables /\ NoBounds

\* A duplicate of a processed event is answered.
Lookup(k) ==
  /\ At(k, "lookup")
  /\ IF receipt[request[k].ev] = "processed"
     THEN Done(k) /\ answered' = answered \cup {request[k].ev}
     ELSE Goto(k, "reset") /\ UNCHANGED answered
  /\ UNCHANGED stripe /\ NoTables /\ NoBounds

Reset(k) ==
  /\ At(k, "reset")
  /\ receipt' = [receipt EXCEPT ![request[k].ev] = "open"]
  /\ request' = [request EXCEPT ![k] = Work(request[k].ev)]
  /\ NoStripe /\ UNCHANGED <<grants, runs>> /\ NoBounds

\* The catch block: the receipt of an event is failed, unless the request ended or that fails
\* too.  The answer, if any, is an error.
Catch(k) ==
  /\ \/ /\ request[k].ev \in Events
        /\ receipt' = [receipt EXCEPT ![request[k].ev] = "open"]
     \/ UNCHANGED receipt
  /\ Done(k)

-----------------------------------------------------------------------------
\* saveSoftwareSubscription()

\* The subscription as it is at Stripe.
Fetch(k) ==
  /\ At(k, "fetch")
  /\ request' = [request EXCEPT ![k].at = "upsert", ![k].status = subscription]
  /\ NoStripe /\ NoTables /\ NoBounds

\* A statement writes the status of k.
Writes(k) ==
  LET age == Age[request[k].status] IN
  /\ newest' = IF age > newest THEN age ELSE newest
  /\ overtaken' = (overtaken \/ age < newest)

Upsert(k) ==
  /\ At(k, "upsert")
  /\ row' = request[k].status
  /\ Writes(k) /\ Goto(k, "delete")
  /\ NoStripe /\ UNCHANGED <<receipt, entitled, runs>> /\ NoBounds

Delete(k) ==
  /\ At(k, "delete")
  /\ entitled' = "none"
  /\ Writes(k) /\ Goto(k, "insert")
  /\ NoStripe /\ UNCHANGED <<receipt, row, runs>> /\ NoBounds

\* A bug the properties catch: an error of the insertion is not looked at.
InsertUnchecked(k) ==
  /\ At(k, "insert")
  /\ Goto(k, "close")
  /\ entitled' \in {entitled, IF request[k].status = "active" THEN "on" ELSE "off"}
  /\ Writes(k)
  /\ NoStripe /\ UNCHANGED <<receipt, row, runs>> /\ NoBounds

\* Rows another request inserted in between are an error.  A customer's purchase has no
\* run: nothing is left but the receipt.
Insert(k) ==
  /\ At(k, "insert")
  /\ IF entitled = "none"
     THEN /\ entitled' = IF request[k].status = "active" THEN "on" ELSE "off"
          /\ Writes(k) /\ UNCHANGED receipt
          /\ request' = [request EXCEPT ![k].at = "close", ![k].status = "none"]
     ELSE Catch(k) /\ UNCHANGED <<entitled, newest, overtaken>>
  /\ NoStripe /\ UNCHANGED <<row, runs>> /\ NoBounds

-----------------------------------------------------------------------------
\* The verification run

\* charge.refunded: the run that has the payment.  Without one there is nothing to
\* do, also if the statement failed: its error is not looked at.
Find(k) ==
  /\ At(k, "find")
  /\ \/ Goto(k, IF run.intent THEN "identify" ELSE "close") /\ UNCHANGED <<faults, slipped>>
     \/ /\ faults < MaxFaults /\ faults' = faults + 1
        /\ slipped' = slipped \cup {"find"}
        /\ Goto(k, "close")
  /\ NoStripe /\ NoTables /\ UNCHANGED reconciles

\* updateVerificationRun() with what the event says.
Identify(k) ==
  LET e == request[k].ev IN
  /\ At(k, "identify")
  /\ run' = [run EXCEPT
       !.refund = @ \/ e = "refunded",
       !.subscription = @ \/ (kind = "verification" /\ e # "refunded"),
       !.invoice = @ \/ e = "invoice",
       !.intent = @ \/ e = (IF kind = "titan" THEN "checkout" ELSE "invoice")]
  /\ Goto(k, "record")
  /\ NoStripe /\ UNCHANGED <<receipt, grants, recorded>> /\ NoBounds

\* hercules_software_record_verification_event(), and that of Titan
Recorded(e) ==
  /\ recorded' = recorded \cup {e}
  /\ run' = IF run.status = "prepared" THEN [run EXCEPT !.status = "in_progress"] ELSE run

Record(k) ==
  LET e == request[k].ev IN
  /\ At(k, "record")
  /\ Recorded(e)
  /\ Goto(k, IF e = "invoice" \/ (kind = "titan" /\ e = "checkout") THEN "read" ELSE "certify")
  /\ NoStripe /\ UNCHANGED <<receipt, grants>> /\ NoBounds

\* A bug the properties catch: the refund is not among the events.
CertifyUnrefunded(k) ==
  /\ At(k, "certify")
  /\ run' = IF Required \ {"refunded"} \subseteq recorded /\ run.intent
            THEN [run EXCEPT !.status = "verified"] ELSE run
  /\ IF request[k].ev = "reconcile" THEN Done(k) ELSE Goto(k, "close")
  /\ NoStripe /\ UNCHANGED <<receipt, grants, recorded>> /\ NoBounds

\* A bug the properties catch: a reconcile request ends like a report.
CertifyAndClose(k) ==
  /\ At(k, "certify")
  /\ run' = IF Required \subseteq recorded /\ Identified(run)
            THEN [run EXCEPT !.status = "verified"] ELSE run
  /\ Goto(k, "close")
  /\ NoStripe /\ UNCHANGED <<receipt, grants, recorded>> /\ NoBounds

\* hercules_software_certify_payment_path(), and that of Titan: all events, and all
\* identifiers.  What is missing is not an error.
Certify(k) ==
  /\ At(k, "certify")
  /\ run' = IF Required \subseteq recorded /\ Identified(run)
            THEN [run EXCEPT !.status = "verified"] ELSE run
  /\ IF request[k].ev = "reconcile" THEN Done(k) ELSE Goto(k, "close")
  /\ NoStripe /\ UNCHANGED <<receipt, grants, recorded>> /\ NoBounds

\* The receipt is processed, unless the statement fails, and the event answered.
Close(k) ==
  /\ At(k, "close")
  /\ \/ receipt' = [receipt EXCEPT ![request[k].ev] = "processed"] /\ UNCHANGED faults
     \/ faults < MaxFaults /\ faults' = faults + 1 /\ UNCHANGED receipt
  /\ answered' = answered \cup {request[k].ev}
  /\ Done(k)
  /\ UNCHANGED <<stripe, grants, runs, reconciles, slipped>>

-----------------------------------------------------------------------------
\* autoCancelAndRefund(), and autoRefundTitanVerification(), which reads the run once

\* The evidence is read, and written back with one note more.
Noted(seen, note) ==
  [run EXCEPT !.cancelAsked = seen.cancel \/ note = "cancel",
              !.refundAsked = seen.refund \/ note = "refund"]

\* Where a request goes on with the run r it has read before a refund.
Reread(r) == IF r.refund \/ r.refundAsked THEN "certify" ELSE "noteRefund"

ReadRun(k) ==
  /\ At(k, "read")
  /\ request' = [request EXCEPT
       ![k].at = CASE run.status = "verified" -> "certify"
                   [] kind = "titan" /\ run.status # "verified" -> Reread(run)
                   [] OTHER -> IF run.cancelAsked THEN "reread" ELSE "noteCancel",
       ![k].seen = Evidence(run)]
  /\ NoStripe /\ NoTables /\ NoBounds

NoteCancel(k) ==
  /\ At(k, "noteCancel")
  /\ run' = [Noted(request[k].seen, "cancel") EXCEPT !.subscription = TRUE, !.intent = TRUE]
  /\ Goto(k, "cancel")
  /\ NoStripe /\ UNCHANGED <<receipt, grants, recorded>> /\ NoBounds

\* A subscription that is canceled already is as good.
Cancel(k) ==
  /\ At(k, "cancel")
  /\ Canceled
  /\ Goto(k, "reread")
  /\ UNCHANGED answered /\ NoTables /\ NoBounds

\* A bug the properties catch: the note of the cancellation is taken for that of the refund.
RereadRunMixed(k) ==
  /\ At(k, "reread")
  /\ request' = [request EXCEPT
       ![k].at = IF run.refund \/ run.cancelAsked THEN "certify" ELSE "noteRefund",
       ![k].seen = Evidence(run)]
  /\ NoStripe /\ NoTables /\ NoBounds

RereadRun(k) ==
  /\ At(k, "reread")
  /\ request' = [request EXCEPT ![k].at = Reread(run), ![k].seen = Evidence(run)]
  /\ NoStripe /\ NoTables /\ NoBounds

NoteRefund(k) ==
  /\ At(k, "noteRefund")
  /\ run' = [Noted(request[k].seen, "refund") EXCEPT !.intent = TRUE]
  /\ Goto(k, "refund")
  /\ NoStripe /\ UNCHANGED <<receipt, grants, recorded>> /\ NoBounds

\* A payment that was given back already is an error.
Refund(k) ==
  /\ At(k, "refund")
  /\ IF refunded
     THEN Catch(k) /\ UNCHANGED stripe
     ELSE Goto(k, "saveRefund") /\ Refunded /\ UNCHANGED receipt
  /\ UNCHANGED <<answered, grants, runs>> /\ NoBounds

SaveRefund(k) ==
  /\ At(k, "saveRefund")
  /\ run' = [Noted(request[k].seen, "refund") EXCEPT !.refund = TRUE]
  /\ request' = [request EXCEPT ![k].at = "certify", ![k].seen = NoEvidence]
  /\ NoStripe /\ UNCHANGED <<receipt, grants, recorded>> /\ NoBounds

-----------------------------------------------------------------------------
\* reconcileSoftwareVerificationRun() and reconcileTitanVerificationRun()

\* Where a reconcile request goes on with the run r it has read.
AfterCancel(r) ==
  IF r.intent /\ ~r.refund /\ ~r.refundAsked THEN "refundNow" ELSE "certify"

\* The latest run is read; one that is verified is shown as it is.
Reconcile(k) ==
  /\ Accepts(k) /\ reconciles < MaxReconciles
  /\ reconciles' = reconciles + 1
  /\ run.status \notin {"none", "verified"}
  /\ request' = [request EXCEPT ![k] = [NoRequest EXCEPT !.ev = "reconcile", !.seen = Evidence(run),
       !.at = IF kind = "titan" THEN (IF run.intent THEN "savePayout" ELSE "certify")
              ELSE IF run.subscription /\ ~run.cancelAsked THEN "cancelNow" ELSE AfterCancel(run)]]
  /\ NoStripe /\ NoTables /\ UNCHANGED <<faults, slipped>>

CancelNow(k) ==
  /\ At(k, "cancelNow")
  /\ Canceled
  /\ Goto(k, "saveCanceled")
  /\ UNCHANGED answered /\ NoTables /\ NoBounds

\* update() returns the row it wrote.
SaveCanceled(k) ==
  /\ At(k, "saveCanceled")
  /\ run' = Noted(request[k].seen, "cancel")
  /\ request' = [request EXCEPT ![k].at = AfterCancel(run'), ![k].seen = Evidence(run')]
  /\ NoStripe /\ UNCHANGED <<receipt, grants, recorded>> /\ NoBounds

RefundNow(k) ==
  /\ At(k, "refundNow")
  /\ IF refunded
     THEN Catch(k) /\ UNCHANGED stripe
     ELSE Goto(k, "saveRefund") /\ Refunded /\ UNCHANGED receipt
  /\ UNCHANGED <<answered, grants, runs>> /\ NoBounds

\* Account, charge and balance transaction are read from Stripe and saved, with the
\* evidence that was read before; the payout may not be ready yet.
SavePayout(k) ==
  /\ At(k, "savePayout")
  /\ run' = Noted(request[k].seen, "payout")
  /\ \E next \in {"recordPayout", "certify"} : Goto(k, next)
  /\ NoStripe /\ UNCHANGED <<receipt, grants, recorded>> /\ NoBounds

RecordPayout(k) ==
  /\ At(k, "recordPayout")
  /\ Recorded("payout")
  /\ Goto(k, "certify")
  /\ NoStripe /\ UNCHANGED <<receipt, grants>> /\ NoBounds

-----------------------------------------------------------------------------
\* prepare_software_payment_verification and prepare_titan_payment_verification

\* The owner asks again only if the answer was an error: one run is prepared at a time.
Prepare(k) ==
  /\ Accepts(k) /\ ~offered
  /\ \A j \in Slots : request[j].ev # "prepare"
  /\ request' = [request EXCEPT ![k] = [NoRequest EXCEPT !.ev = "prepare", !.at = "insertRun"]]
  /\ NoStripe /\ NoTables /\ NoBounds

\* The new run is the latest from now on.
InsertRun(k) ==
  /\ At(k, "insertRun")
  /\ run' = [NoRun EXCEPT !.status = "prepared"]
  /\ Goto(k, "saveSession")
  /\ NoStripe /\ UNCHANGED <<receipt, grants, recorded>> /\ NoBounds

\* The evidence is written from nothing, with the checkout session Stripe opened.
SaveSession(k) ==
  /\ At(k, "saveSession")
  /\ run' = Noted(NoEvidence, "session")
  /\ offered' = TRUE
  /\ Done(k)
  /\ UNCHANGED <<subscription, refunded, sent, answered, receipt, grants, recorded>> /\ NoBounds

-----------------------------------------------------------------------------
\* Failures

\* Nobody is left to report the event of k again: it is answered, or a report of it that
\* may still be is under way.
Repeats(k) ==
  request[k].ev \in answered \/ \E j \in Slots \ {k} : request[j].ev = request[k].ev

\* What a failure leaves undone that was noted or answered as done.
Slip(k) ==
  slipped' = slipped \cup
    ({request[k].at} \cap ({"cancel", "refund"} \cup IF Repeats(k) THEN {"insert"} ELSE {}))

\* A step throws, or the request ends in it; of two steps the code ignores the errors, and
\* only the latter is possible.
Fail(k) ==
  /\ ~At(k, "idle") /\ faults < MaxFaults
  /\ faults' = faults + 1
  /\ Slip(k)
  /\ IF request[k].at \in {"find", "close"} THEN Done(k) /\ UNCHANGED receipt ELSE Catch(k)
  /\ NoStripe /\ UNCHANGED <<grants, runs, reconciles>>

Step(k) ==
  \/ Lookup(k) \/ Reset(k)
  \/ Fetch(k) \/ Upsert(k) \/ Delete(k) \/ Insert(k)
  \/ Find(k) \/ Identify(k) \/ Record(k) \/ Certify(k) \/ Close(k)
  \/ ReadRun(k) \/ NoteCancel(k) \/ Cancel(k) \/ RereadRun(k) \/ NoteRefund(k) \/ Refund(k)
  \/ SaveRefund(k) \/ CancelNow(k) \/ SaveCanceled(k) \/ RefundNow(k)
  \/ SavePayout(k) \/ RecordPayout(k) \/ InsertRun(k) \/ SaveSession(k)

Reported == \E k \in Slots, e \in Events : Deliver(k, e)

Next ==
  /\ UNCHANGED kind
  /\ \/ Pay \/ BuyerCancels
     \/ Reported
     \/ \E k \in Slots : Step(k) \/ Prepare(k) \/ Reconcile(k) \/ Fail(k)
     \/ \E k \in Slots, e \in Events : DeliverAgain(k, e)

Spec == Init /\ [][Next]_vars

\* Stripe reports what was not answered, and requests that do not end go on.
FairSpec ==
  /\ Spec
  /\ WF_vars(Reported /\ UNCHANGED kind)
  /\ WF_vars((\E k \in Slots : Step(k)) /\ UNCHANGED kind)

-----------------------------------------------------------------------------

TypeOK ==
  /\ offered \in BOOLEAN /\ refunded \in BOOLEAN
  /\ subscription \in {"none", "active", "canceled"}
  /\ sent \subseteq Events /\ answered \subseteq sent /\ recorded \subseteq sent \cup {"payout"}
  /\ receipt \in [Events -> {"none", "open", "processed"}]
  /\ row \in DOMAIN Age /\ entitled \in {"none", "off", "on"}
  /\ run.status \in {"none", "prepared", "in_progress", "verified"}
  /\ \A k \in Slots : request[k].ev \in sent \cup {"none", "reconcile", "prepare"}
  /\ faults \in 0..MaxFaults /\ reconciles \in 0..MaxReconciles
  /\ slipped \subseteq {"cancel", "refund", "find", "insert"}

\* A payment path is certified only when the payment was given back at Stripe, the
\* subscription canceled, and every required event was reported, whatever the requests
\* noted, failed to do or did twice.
CertifiedIsReal ==
  run.status = "verified" =>
    /\ refunded /\ Required \subseteq recorded
    /\ subscription = "canceled" \/ kind = "titan"

\* An event answered with success has left its record: concurrent and repeated reports do
\* not answer for one that failed, and the refund finds the run of its payment, since
\* the payment is saved before it is given back.
AnsweredIsRecorded ==
  kind # "customer" =>
    \A e \in answered : e \in recorded \/ (e = "refunded" /\ "find" \in slipped)

\* When every event has been answered, rows and entitlements are those of the subscription
\* at Stripe, whatever failed in between, unless an older status overtook a newer, or a
\* repeated report failed to insert what it had deleted.
Settled == sent \subseteq answered /\ \A k \in Slots : At(k, "idle")

EntitledIsPaid ==
  kind = "customer" /\ Settled /\ ~overtaken /\ slipped = {} =>
    /\ row = subscription
    /\ entitled = "on" <=> subscription = "active"

\* Once it is paid, the verification comes to its end, unless a request failed between
\* noting a call and making it: a subscription is canceled, refunded and certified, a
\* Titan purchase refunded, and what is left of it is for the owner to ask.
Certifies ==
  kind # "customer" /\ subscription # "none" ~>
    \/ run.status = "verified" \/ slipped # {}
    \/ kind = "titan" /\ run.refund
=============================================================================
