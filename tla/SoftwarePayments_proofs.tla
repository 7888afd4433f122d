------------------------- MODULE SoftwarePayments_proofs -------------------------
(***************************************************************************)
(* The purchase for any number of requests, repeated reports and failures: *)
(* a certified payment was given back, and an event that was answered has  *)
(* left its record.                                                        *)
(***************************************************************************)
EXTENDS SoftwarePayments, TLAPS

\* What a request can be, and a verification run.
Points == {"idle", "lookup", "reset", "fetch", "upsert", "delete", "insert", "find", "identify",
           "record", "certify", "close", "read", "noteCancel", "cancel", "reread", "noteRefund",
           "refund", "saveRefund", "cancelNow", "saveCanceled", "refundNow", "savePayout",
           "recordPayout", "insertRun", "saveSession"}
Statuses == {"none", "incomplete", "active", "canceled"}
Notes == [cancel : BOOLEAN, refund : BOOLEAN]
Requests == [ev : Events \cup {"none", "reconcile", "prepare"}, at : Points,
             status : Statuses, seen : Notes]
Runs == [status : {"none", "prepared", "in_progress", "verified"},
         subscription : BOOLEAN, invoice : BOOLEAN, intent : BOOLEAN, refund : BOOLEAN,
         cancelAsked : BOOLEAN, refundAsked : BOOLEAN]

\* The steps that grant a customer's purchase; those of reports only; those that follow
\* the record of the event; those of
\* the preparation; those of reconcile requests only.
GrantPoints == {"fetch", "upsert", "delete", "insert"}
ReportPoints == GrantPoints \cup
  {"lookup", "reset", "find", "identify", "record", "close", "read", "noteCancel", "cancel",
   "reread", "noteRefund", "refund"}
LaterPoints == {"certify", "close", "read", "noteCancel", "cancel", "reread", "noteRefund",
                "refund", "saveRefund"}
PreparePoints == {"insertRun", "saveSession"}
OwnerPoints == {"cancelNow", "saveCanceled", "refundNow", "savePayout", "recordPayout"}

\* An event left its record, or was lost in the statement whose error is not looked at.
Left(e) == e \in recorded \/ (e = "refunded" /\ "find" \in slipped)

-----------------------------------------------------------------------------

Types ==
  /\ run \in Runs /\ request \in [Slots -> Requests]
  /\ kind \in {"customer", "verification", "titan"}
  /\ offered \in BOOLEAN /\ refunded \in BOOLEAN /\ subscription \in {"none", "active", "canceled"}
  /\ receipt \in [Events -> {"none", "open", "processed"}]
  /\ row \in Statuses /\ entitled \in {"none", "off", "on"}
  /\ faults \in 0..MaxFaults /\ reconciles \in 0..MaxReconciles

\* What Stripe reports has happened, nothing is reported before the payment, and only
\* what was reported is answered and recorded.
Reports ==
  /\ sent \subseteq Events /\ answered \subseteq sent /\ recorded \subseteq sent \cup {"payout"}
  /\ slipped \subseteq {"cancel", "refund", "find", "insert"}
  /\ sent # {} => subscription # "none"
  /\ subscription # "none" => offered
  /\ "refunded" \in sent => refunded
  /\ "deleted" \in sent => subscription = "canceled"

\* The payment is saved after it was made and before it is given back.
PaymentKnown ==
  /\ run.intent => sent # {}
  /\ refunded => run.intent

\* An event is recorded before its receipt is processed and it is answered.
RecordFirst ==
  kind # "customer" => \A e \in Events : receipt[e] = "processed" \/ e \in answered => Left(e)

\* What the step of a request tells of the request and the tables.
Fits(k) ==
  LET e == request[k].ev
      s == request[k].at IN
  /\ e \in sent \cup {"none", "reconcile", "prepare"}
  /\ s \in ReportPoints => e \in Events
  /\ s \in {"certify", "saveRefund"} => e \in Events \cup {"reconcile"}
  /\ s \in OwnerPoints => e = "reconcile"
  /\ s = "find" => e = "refunded"
  /\ s \in {"refund", "refundNow"} => run.intent
  /\ s \in PreparePoints <=> e = "prepare"
  /\ e = "prepare" => ~offered
  /\ kind # "customer" => s \notin GrantPoints /\ (e \in Events /\ s \in LaterPoints => Left(e))

AllFit == \A k \in Slots : Fits(k)

\* A run is prepared by one request at a time.
OnePrepares ==
  \A j, k \in Slots : request[j].ev = "prepare" /\ request[k].ev = "prepare" => j = k

Inv ==
  /\ Types /\ Reports /\ PaymentKnown /\ RecordFirst /\ CertifiedIsReal
  /\ AllFit /\ OnePrepares

USE PaymentsAssumption
USE DEF ReportPoints, GrantPoints, LaterPoints, PreparePoints, OwnerPoints

-----------------------------------------------------------------------------
\* How a step changes the requests

\* Only that of k.
Only(k) ==
  /\ request' \in [Slots -> Requests]
  /\ \A j \in Slots \ {k} : request'[j] = request[j]

LEMMA GotoOnly ==
  ASSUME request \in [Slots -> Requests], NEW k \in Slots, NEW s \in Points, Goto(k, s)
  PROVE  Only(k) /\ request'[k].ev = request[k].ev /\ request'[k].at = s
BY DEF Goto, Only, Requests

LEMMA DoneOnly ==
  ASSUME request \in [Slots -> Requests], NEW k \in Slots, Done(k)
  PROVE  Only(k) /\ request'[k].ev = "none" /\ request'[k].at = "idle"
BY DEF Done, Only, Requests, Notes, NoRequest, NoEvidence, Points, Statuses

LEMMA SeenOnly ==
  ASSUME request \in [Slots -> Requests], NEW k \in Slots, NEW s \in Points, NEW n \in Notes,
         request' = [request EXCEPT ![k].at = s, ![k].seen = n]
  PROVE  Only(k) /\ request'[k].ev = request[k].ev /\ request'[k].at = s
BY DEF Only, Requests, Notes

LEMMA StatusOnly ==
  ASSUME request \in [Slots -> Requests], NEW k \in Slots, NEW s \in Points, NEW t \in Statuses,
         request' = [request EXCEPT ![k].at = s, ![k].status = t]
  PROVE  Only(k) /\ request'[k].ev = request[k].ev /\ request'[k].at = s
BY DEF Only, Requests

LEMMA SetOnly ==
  ASSUME request \in [Slots -> Requests], NEW k \in Slots, NEW r \in Requests,
         request' = [request EXCEPT ![k] = r]
  PROVE  Only(k) /\ request'[k] = r
BY DEF Only

\* The work on an event is a request.
LEMMA WorkIsRequest ==
  ASSUME NEW e \in Events
  PROVE  /\ Work(e) \in Requests /\ Work(e).ev = e
         /\ Work(e).at \in {"find", "identify", "fetch", "upsert"}
         /\ Work(e).at = "find" => e = "refunded"
         /\ kind # "customer" => Work(e).at \in {"find", "identify"}
<1> DEFINE t == IF e \in DOMAIN Payload /\ kind = "customer" THEN Payload[e] ELSE "none"
<1>1. t \in Statuses
  BY DEF Payload, Statuses
<1>2. Begin(e) \in Points
  BY DEF Begin, Points
<1>3. Work(e) = [NoRequest EXCEPT !.ev = e, !.at = Begin(e), !.status = t]
  BY DEF Work
<1> HIDE DEF t
<1>4. NoRequest \in Requests
  BY DEF NoRequest, NoEvidence, Requests, Notes, Points, Statuses
<1>5. /\ Work(e) \in Requests /\ Work(e).ev = e /\ Work(e).at = Begin(e)
  BY <1>1, <1>2, <1>3, <1>4 DEF Requests
<1> QED  BY <1>5 DEF Begin

LEMMA EvidenceIsNotes == \A r \in Runs : Evidence(r) \in Notes
BY DEF Runs, Notes, Evidence

LEMMA IdentifyIsRun ==
  ASSUME run \in Runs, NEW k \in Slots, Identify(k)
  PROVE  run' \in Runs /\ run'.status = run.status /\ (run.intent => run'.intent)
<1> DEFINE e == request[k].ev
           a == run.refund \/ e = "refunded"
           b == run.subscription \/ (kind = "verification" /\ e # "refunded")
           c == run.invoice \/ e = "invoice"
           d == run.intent \/ e = (IF kind = "titan" THEN "checkout" ELSE "invoice")
<1>1. a \in BOOLEAN /\ b \in BOOLEAN /\ c \in BOOLEAN /\ d \in BOOLEAN /\ (run.intent => d)
  OBVIOUS
<1>2. run' = [run EXCEPT !.refund = a, !.subscription = b, !.invoice = c, !.intent = d]
  BY DEF Identify
<1> HIDE DEF a, b, c, d
<1> QED  BY <1>1, <1>2 DEF Runs

LEMMA NotedIsRun ==
  ASSUME run \in Runs, NEW n \in Notes, NEW x
  PROVE  Noted(n, x) \in Runs /\ Noted(n, x).status = run.status /\ Noted(n, x).intent = run.intent
BY DEF Noted, Notes, Runs

\* What other requests rely on only grows, but for an offer, which the one that prepares
\* makes.
Grows(k) ==
  /\ sent \subseteq sent' /\ recorded \subseteq recorded' /\ slipped \subseteq slipped'
  /\ run.intent => run'.intent
  /\ offered' = offered \/ request[k].ev = "prepare"
  /\ UNCHANGED kind

LEMMA OthersFit ==
  ASSUME Inv, NEW k \in Slots, Only(k), Grows(k), Fits(k)',
         request'[k].ev = "prepare" => \A j \in Slots \ {k} : request[j].ev # "prepare"
  PROVE  AllFit' /\ OnePrepares'
<1>1. ASSUME NEW j \in Slots, j # k PROVE Fits(j)'
  <2>1. request'[j] = request[j]
    BY <1>1 DEF Only
  <2>2. request[j].ev = "prepare" => offered' = offered
    BY <1>1 DEF Grows, Inv, OnePrepares
  <2> QED  BY <1>1, <2>1, <2>2 DEF Inv, AllFit, Fits, Grows, Left
<1>2. AllFit'
  BY <1>1 DEF AllFit
<1>3. OnePrepares'
  BY DEF OnePrepares, Inv, Only
<1> QED  BY <1>2, <1>3

-----------------------------------------------------------------------------

LEMMA InitInv == Init => Inv
<1> SUFFICES ASSUME Init PROVE Inv
  OBVIOUS
<1> USE DEF Init
<1>1. NoRequest \in Requests /\ NoRequest.ev = "none" /\ NoRequest.at = "idle" /\ NoRun \in Runs
  BY DEF NoRequest, NoEvidence, NoRun, Requests, Notes, Runs, Points, Statuses
<1>2. Types
  <2>1. kind \in {"customer", "verification", "titan"} /\ offered \in BOOLEAN
    OBVIOUS
  <2>2. faults \in 0..MaxFaults /\ reconciles \in 0..MaxReconciles
    OBVIOUS
  <2>3. request \in [Slots -> Requests] /\ run \in Runs
    BY <1>1
  <2> QED  BY <2>1, <2>2, <2>3 DEF Types, Statuses
<1>3. Reports /\ PaymentKnown /\ RecordFirst /\ CertifiedIsReal
  BY DEF Reports, PaymentKnown, RecordFirst, CertifiedIsReal, NoRun
<1>4. AllFit /\ OnePrepares
  BY <1>1 DEF AllFit, Fits, OnePrepares
<1> QED  BY <1>2, <1>3, <1>4 DEF Inv

-----------------------------------------------------------------------------
\* Two kinds of steps

\* No request begins to prepare a run while another does.
Alone(k) == request'[k].ev = "prepare" => \A j \in Slots \ {k} : request[j].ev # "prepare"

\* A step that records nothing and leaves the run and Stripe alone.
LEMMA QuietStep ==
  ASSUME Inv, NEW k \in Slots, Only(k), Fits(k)', Alone(k),
         UNCHANGED <<kind, stripe, answered, runs>>,
         receipt' \in [Events -> {"none", "open", "processed"}],
         \A e \in Events : receipt'[e] = "processed" => receipt[e] = "processed",
         slipped \subseteq slipped', slipped' \subseteq {"cancel", "refund", "find", "insert"},
         row' \in Statuses, entitled' \in {"none", "off", "on"},
         faults' \in 0..MaxFaults, reconciles' \in 0..MaxReconciles
  PROVE  Inv'
<1> USE DEF Inv, stripe, runs
<1>1. Types'
  BY DEF Types, Only
<1>2. Reports' /\ PaymentKnown'
  BY DEF Reports, PaymentKnown
<1>3. RecordFirst'
  BY DEF RecordFirst, Left
<1>4. CertifiedIsReal'
  BY DEF CertifiedIsReal, Required
<1>5. Grows(k)
  BY DEF Grows
<1> QED  BY <1>1, <1>2, <1>3, <1>4, <1>5, OthersFit DEF Alone

\* A step that writes the run without certifying it, or records an event.
LEMMA RunStep ==
  ASSUME Inv, NEW k \in Slots, Only(k), Fits(k)', Alone(k),
         UNCHANGED <<kind, subscription, refunded, sent, answered, receipt, row, entitled,
                     bounds, slipped>>,
         offered' = offered \/ (request[k].ev = "prepare" /\ offered' = TRUE),
         run' \in Runs, run'.status = "verified" => run.status = "verified",
         run.intent => run'.intent, run'.intent => run.intent \/ sent # {},
         recorded \subseteq recorded', recorded' \subseteq sent \cup {"payout"}
  PROVE  Inv'
<1> USE DEF Inv, bounds
<1>1. Types'
  BY DEF Types, Only
<1>2. Reports' /\ PaymentKnown'
  BY DEF Reports, PaymentKnown
<1>3. RecordFirst'
  BY DEF RecordFirst, Left
<1>4. CertifiedIsReal'
  BY DEF CertifiedIsReal, Required
<1>5. Grows(k)
  BY DEF Grows
<1> QED  BY <1>1, <1>2, <1>3, <1>4, <1>5, OthersFit DEF Alone

-----------------------------------------------------------------------------
\* Reports and their receipts

USE DEF Inv, Types, AllFit

\* A report is served only of an event Stripe sent, which is none of the other requests.
LEMMA ReportIsSent ==
  ASSUME Inv, NEW k \in Slots, request[k].at \in ReportPoints
  PROVE  /\ request[k].ev \in Events /\ request[k].ev \in sent
         /\ request[k].ev \notin {"none", "reconcile", "prepare"}
BY DEF Fits, Events

\* A report arrives, or arrives again.
LEMMA ArriveInv ==
  ASSUME Inv, NEW k \in Slots, NEW e \in sent, Arrive(k, e), UNCHANGED kind,
         faults' \in 0..MaxFaults, UNCHANGED reconciles
  PROVE  Inv'
<1>1. e \in Events /\ e # "prepare"
  BY DEF Reports, Events
<1> DEFINE again == [NoRequest EXCEPT !.ev = e, !.at = "lookup"]
<1>2. again \in Requests /\ again.ev = e /\ again.at = "lookup"
  BY <1>1 DEF NoRequest, NoEvidence, Requests, Notes, Points, Statuses
<1> HIDE DEF again
<1>3. /\ Only(k) /\ request'[k].ev = e
      /\ request'[k].at \in {"lookup", "find", "identify", "fetch", "upsert"}
      /\ request'[k].at = "find" => e = "refunded"
      /\ kind # "customer" => request'[k].at \in {"lookup", "find", "identify"}
  <2>1. CASE receipt[e] = "none"
    BY <1>1, <2>1, SetOnly, WorkIsRequest DEF Arrive
  <2>2. CASE receipt[e] # "none"
    BY <1>1, <1>2, <2>2, SetOnly DEF Arrive, again
  <2> QED  BY <2>1, <2>2
<1>4. Fits(k)' /\ Alone(k)
  BY <1>1, <1>3 DEF Fits, Alone, Arrive, NoStripe, stripe
<1> QED  BY <1>3, <1>4, QuietStep DEF Arrive, NoStripe, grants, Reports

\* The receipt of a duplicate is looked up, and the event answered if it is processed.
LEMMA LookupInv ==
  ASSUME Inv, NEW k \in Slots, Lookup(k), UNCHANGED kind
  PROVE  Inv'
<1>1. request[k].ev \in Events /\ request[k].ev \in sent /\ request[k].ev # "prepare"
  BY ReportIsSent DEF Lookup, At
<1>2. CASE receipt[request[k].ev] = "processed"
  <2>1. Only(k) /\ request'[k].ev = "none" /\ request'[k].at = "idle"
    BY <1>2, DoneOnly DEF Lookup
  <2>2. answered' = answered \cup {request[k].ev} /\ UNCHANGED <<stripe, receipt, grants, runs, bounds, slipped>>
    BY <1>2 DEF Lookup, NoTables, NoBounds
  <2>3. Fits(k)' /\ Alone(k)
    BY <2>1 DEF Fits, Alone
  <2> USE DEF stripe, grants, runs, bounds
  <2>4. Types' /\ Reports' /\ PaymentKnown'
    BY <1>1, <2>1, <2>2 DEF Only, Reports, PaymentKnown
  <2>5. RecordFirst'
    BY <1>1, <1>2, <2>2 DEF RecordFirst, Left
  <2>6. CertifiedIsReal' /\ Grows(k)
    BY <2>2 DEF CertifiedIsReal, Required, Grows
  <2> QED  BY <2>1, <2>3, <2>4, <2>5, <2>6, OthersFit DEF Alone
<1>3. CASE receipt[request[k].ev] # "processed"
  <2>1. Only(k) /\ request'[k].ev = request[k].ev /\ request'[k].at = "reset"
    BY <1>3, GotoOnly DEF Lookup, Points
  <2>2. UNCHANGED answered
    BY <1>3 DEF Lookup
  <2>3. Fits(k)' /\ Alone(k)
    BY <1>1, <2>1 DEF Fits, Alone, Lookup, stripe
  <2> QED  BY <2>1, <2>2, <2>3, QuietStep DEF Lookup, NoTables, NoBounds, grants, bounds, Reports
<1> QED  BY <1>2, <1>3

\* The work on a duplicate begins.
LEMMA ResetInv ==
  ASSUME Inv, NEW k \in Slots, Reset(k), UNCHANGED kind
  PROVE  Inv'
<1>1. request[k].ev \in Events /\ request[k].ev \in sent /\ request[k].ev # "prepare"
  BY ReportIsSent DEF Reset, At
<1>2. /\ Only(k) /\ request'[k].ev = request[k].ev
      /\ request'[k].at \in {"find", "identify", "fetch", "upsert"}
      /\ request'[k].at = "find" => request'[k].ev = "refunded"
      /\ kind # "customer" => request'[k].at \in {"find", "identify"}
  BY <1>1, SetOnly, WorkIsRequest DEF Reset
<1>3. Fits(k)' /\ Alone(k)
  BY <1>1, <1>2 DEF Fits, Alone, Reset, NoStripe, stripe
<1> QED  BY <1>2, <1>3, QuietStep DEF Reset, NoStripe, NoBounds, grants, bounds, Reports

\* What the catch block, or the end of a request, leaves.
LEMMA CatchOnly ==
  ASSUME Inv, NEW k \in Slots, Catch(k)
  PROVE  /\ Only(k) /\ request'[k].ev = "none" /\ request'[k].at = "idle"
         /\ receipt' \in [Events -> {"none", "open", "processed"}]
         /\ \A e \in Events : receipt'[e] = "processed" => receipt[e] = "processed"
BY DoneOnly DEF Catch

LEMMA IdleFits ==
  ASSUME NEW k \in Slots, request'[k].ev = "none", request'[k].at = "idle"
  PROVE  Fits(k)' /\ Alone(k)
BY DEF Fits, Alone

-----------------------------------------------------------------------------
\* The grant to a customer

LEMMA FetchInv ==
  ASSUME Inv, NEW k \in Slots, Fetch(k), UNCHANGED kind
  PROVE  Inv'
<1>1. Only(k) /\ request'[k].ev = request[k].ev /\ request'[k].at = "upsert"
  BY StatusOnly DEF Fetch, Points, Statuses
<1>2. Fits(k)' /\ Alone(k)
  BY <1>1 DEF Fits, Alone, Fetch, At, NoStripe, stripe
<1> QED  BY <1>1, <1>2, QuietStep DEF Fetch, NoStripe, NoTables, NoBounds, grants, bounds, Reports

LEMMA UpsertInv ==
  ASSUME Inv, NEW k \in Slots, Upsert(k), UNCHANGED kind
  PROVE  Inv'
<1>1. Only(k) /\ request'[k].ev = request[k].ev /\ request'[k].at = "delete"
  BY GotoOnly DEF Upsert, Points
<1>2. Fits(k)' /\ Alone(k)
  BY <1>1 DEF Fits, Alone, Upsert, At, NoStripe, stripe
<1>3. row' \in Statuses
  BY DEF Upsert, Requests
<1> QED  BY <1>1, <1>2, <1>3, QuietStep DEF Upsert, NoStripe, NoBounds, bounds, Reports

LEMMA DeleteInv ==
  ASSUME Inv, NEW k \in Slots, Delete(k), UNCHANGED kind
  PROVE  Inv'
<1>1. Only(k) /\ request'[k].ev = request[k].ev /\ request'[k].at = "insert"
  BY GotoOnly DEF Delete, Points
<1>2. Fits(k)' /\ Alone(k)
  BY <1>1 DEF Fits, Alone, Delete, At, NoStripe, stripe
<1> QED  BY <1>1, <1>2, QuietStep DEF Delete, NoStripe, NoBounds, bounds, Reports

LEMMA InsertInv ==
  ASSUME Inv, NEW k \in Slots, Insert(k), UNCHANGED kind
  PROVE  Inv'
<1>1. CASE entitled = "none"
  <2>1. Only(k) /\ request'[k].ev = request[k].ev /\ request'[k].at = "close"
    BY <1>1, StatusOnly DEF Insert, Points, Statuses
  <2>2. Fits(k)' /\ Alone(k)
    BY <2>1 DEF Fits, Alone, Insert, At, NoStripe, stripe
  <2> QED  BY <1>1, <2>1, <2>2, QuietStep DEF Insert, NoStripe, NoBounds, bounds, Reports
<1>2. CASE entitled # "none"
  <2>1. Catch(k) /\ UNCHANGED entitled
    BY <1>2 DEF Insert
  <2> QED  BY <2>1, CatchOnly, IdleFits, QuietStep DEF Insert, NoStripe, NoBounds, bounds, Reports
<1> QED  BY <1>1, <1>2

-----------------------------------------------------------------------------
\* The verification run

\* The run of a refund is there, as the payment is saved before it is given back.
LEMMA FindInv ==
  ASSUME Inv, NEW k \in Slots, Find(k), UNCHANGED kind
  PROVE  Inv'
<1>1. request[k].ev = "refunded" /\ run.intent
  BY DEF Find, At, Fits, Reports, PaymentKnown
<1>2. /\ Only(k) /\ request'[k].ev = request[k].ev
      /\ \/ request'[k].at = "identify" /\ UNCHANGED <<faults, slipped>>
         \/ request'[k].at = "close" /\ faults' \in 0..MaxFaults /\ slipped' = slipped \cup {"find"}
  <2>1. CASE Goto(k, "identify") /\ UNCHANGED <<faults, slipped>>
    BY <2>1, GotoOnly DEF Points
  <2>2. CASE Goto(k, "close") /\ faults < MaxFaults /\ faults' = faults + 1
             /\ slipped' = slipped \cup {"find"}
    <3>1. Only(k) /\ request'[k].ev = request[k].ev /\ request'[k].at = "close"
      BY <2>2, GotoOnly DEF Points
    <3> QED  BY <2>2, <3>1
  <2> QED  BY <1>1, <2>1, <2>2 DEF Find
<1>3. Fits(k)' /\ Alone(k)
  BY <1>1, <1>2 DEF Fits, Alone, Left, Find, At, NoStripe, stripe
<1>4. faults' \in 0..MaxFaults /\ slipped \subseteq slipped' /\ slipped' \subseteq {"cancel", "refund", "find", "insert"}
  BY <1>2 DEF Reports
<1> QED  BY <1>2, <1>3, <1>4, QuietStep DEF Find, NoStripe, NoTables, grants, runs

\* The identifiers of a report are saved.
LEMMA IdentifyInv ==
  ASSUME Inv, NEW k \in Slots, Identify(k), UNCHANGED kind
  PROVE  Inv'
<1>1. Only(k) /\ request'[k].ev = request[k].ev /\ request'[k].at = "record"
  BY GotoOnly DEF Identify, Points
<1>2. sent # {}
  BY ReportIsSent DEF Identify, At
<1>3. Fits(k)' /\ Alone(k)
  BY <1>1 DEF Fits, Alone, Identify, At, NoStripe, stripe
<1> QED  BY <1>1, <1>2, <1>3, IdentifyIsRun, RunStep
         DEF Identify, NoStripe, NoBounds, stripe, grants, Reports

\* A recorded event changes nothing else of a run than its status.
LEMMA RecordedIsRun ==
  ASSUME run \in Runs, NEW e, Recorded(e)
  PROVE  /\ run' \in Runs /\ run'.intent = run.intent
         /\ run'.status = "verified" => run.status = "verified"
BY DEF Recorded, Runs

LEMMA RecordInv ==
  ASSUME Inv, NEW k \in Slots, Record(k), UNCHANGED kind
  PROVE  Inv'
<1>1. request[k].ev \in Events /\ request[k].ev \in sent /\ request[k].ev # "prepare"
  BY ReportIsSent DEF Record, At
<1>2. Only(k) /\ request'[k].ev = request[k].ev /\ request'[k].at \in {"read", "certify"}
  BY GotoOnly DEF Record, Points
<1>3. recorded' = recorded \cup {request[k].ev}
  BY DEF Record, Recorded
<1>4. Fits(k)' /\ Alone(k)
  BY <1>1, <1>2, <1>3 DEF Fits, Alone, Left, Record, NoStripe, stripe
<1> QED  BY <1>1, <1>2, <1>3, <1>4, RecordedIsRun, RunStep
         DEF Record, NoStripe, NoBounds, stripe, grants, Reports

\* A run is certified when all is recorded, and by this happened.
LEMMA CertifyInv ==
  ASSUME Inv, NEW k \in Slots, Certify(k), UNCHANGED kind
  PROVE  Inv'
<1>1. /\ Only(k)
      /\ \/ request[k].ev = "reconcile" /\ request'[k].ev = "none" /\ request'[k].at = "idle"
         \/ /\ request[k].ev # "reconcile" /\ request'[k].ev = request[k].ev
            /\ request'[k].at = "close"
  BY GotoOnly, DoneOnly DEF Certify, Points
<1>2. run' \in Runs /\ run'.intent = run.intent
  BY DEF Certify, Runs
<1>3. UNCHANGED <<stripe, answered, receipt, grants, recorded, bounds, slipped>>
  BY DEF Certify, NoStripe, NoBounds
<1> USE DEF stripe, grants, bounds
<1>4. Fits(k)' /\ Alone(k)
  BY <1>1, <1>2, <1>3 DEF Fits, Alone, Left, Certify, At
<1>5. Types' /\ Reports' /\ PaymentKnown'
  BY <1>1, <1>2, <1>3 DEF Only, Reports, PaymentKnown
<1>6. RecordFirst' /\ Grows(k)
  BY <1>2, <1>3 DEF RecordFirst, Left, Grows
<1>7. CertifiedIsReal'
  BY <1>3 DEF CertifiedIsReal, Required, Certify, Reports
<1> QED  BY <1>1, <1>4, <1>5, <1>6, <1>7, OthersFit DEF Alone

\* An event is answered after its record.
LEMMA CloseInv ==
  ASSUME Inv, NEW k \in Slots, Close(k), UNCHANGED kind
  PROVE  Inv'
<1>1. /\ request[k].ev \in Events /\ request[k].ev \in sent
      /\ kind # "customer" => Left(request[k].ev)
  BY ReportIsSent DEF Close, At, Fits
<1>2. Only(k) /\ request'[k].ev = "none" /\ request'[k].at = "idle"
  BY DoneOnly DEF Close
<1>3. /\ UNCHANGED <<stripe, row, entitled, runs, reconciles, slipped>>
      /\ receipt' \in {receipt, [receipt EXCEPT ![request[k].ev] = "processed"]}
      /\ answered' = answered \cup {request[k].ev} /\ faults' \in 0..MaxFaults
  BY DEF Close, grants
<1> USE DEF stripe, runs
<1>4. Types' /\ Reports' /\ PaymentKnown'
  BY <1>1, <1>2, <1>3 DEF Only, Reports, PaymentKnown
<1>5. RecordFirst'
  BY <1>1, <1>3 DEF RecordFirst, Left
<1>6. CertifiedIsReal' /\ Grows(k)
  BY <1>3 DEF CertifiedIsReal, Required, Grows
<1> QED  BY <1>2, <1>4, <1>5, <1>6, IdleFits, OthersFit DEF Alone

-----------------------------------------------------------------------------
\* Cancellation and refund

\* A buyer, or the owner, cancels at Stripe.
LEMMA CanceledTables ==
  ASSUME Inv, Canceled, subscription # "none" \/ sent = {},
         UNCHANGED <<kind, answered, receipt, grants, runs, bounds, slipped>>
  PROVE  /\ Reports' /\ PaymentKnown' /\ RecordFirst' /\ CertifiedIsReal'
         /\ offered' = offered /\ sent \subseteq sent'
         /\ subscription' \in {"none", "active", "canceled"} /\ refunded' = refunded
<1> USE DEF Canceled, runs
<1>1. Reports' /\ PaymentKnown'
  BY DEF Reports, PaymentKnown, Events
<1>2. RecordFirst' /\ CertifiedIsReal'
  BY DEF RecordFirst, Left, CertifiedIsReal, Required
<1> QED  BY <1>1, <1>2

LEMMA CancelInv ==
  ASSUME Inv, NEW k \in Slots, Cancel(k) \/ CancelNow(k), UNCHANGED kind
  PROVE  Inv'
<1>1. Canceled /\ UNCHANGED <<answered, receipt, grants, runs, bounds, slipped>>
  BY DEF Cancel, CancelNow, NoTables, NoBounds
<1>2. subscription # "none" \/ sent = {}
  BY DEF Reports
<1>3. /\ Only(k) /\ request'[k].ev = request[k].ev
      /\ \/ request[k].at = "cancel" /\ request'[k].at = "reread"
         \/ request[k].at = "cancelNow" /\ request'[k].at = "saveCanceled"
  BY GotoOnly DEF Cancel, CancelNow, At, Points
<1>4. Fits(k)' /\ Grows(k)
  BY <1>1, <1>2, <1>3, CanceledTables DEF Fits, Left, runs, Grows
<1>5. Types'
  BY <1>1, <1>2, <1>3, CanceledTables DEF Only, grants, runs, bounds
<1>6. request'[k].ev # "prepare"
  BY <1>3 DEF Fits
<1> QED  BY <1>1, <1>2, <1>3, <1>4, <1>5, <1>6, CanceledTables, OthersFit

LEMMA ReadRunInv ==
  ASSUME Inv, NEW k \in Slots, ReadRun(k) \/ RereadRun(k), UNCHANGED kind
  PROVE  Inv'
<1>1. \E s \in {"certify", "noteRefund", "reread", "noteCancel"} :
        request' = [request EXCEPT ![k].at = s, ![k].seen = Evidence(run)]
  BY DEF ReadRun, RereadRun, Reread
<1>2. /\ Only(k) /\ request'[k].ev = request[k].ev
      /\ request'[k].at \in {"certify", "noteRefund", "reread", "noteCancel"}
  <2>1. Evidence(run) \in Notes
    BY EvidenceIsNotes
  <2>2. PICK s \in {"certify", "noteRefund", "reread", "noteCancel"} :
          request' = [request EXCEPT ![k].at = s, ![k].seen = Evidence(run)]
    BY <1>1
  <2>3. s \in Points
    BY DEF Points
  <2> QED  BY <2>1, <2>2, <2>3, SeenOnly
<1>3. request[k].at \in {"read", "reread"} /\ UNCHANGED <<stripe, answered, receipt, grants, runs, bounds, slipped>>
  BY DEF ReadRun, RereadRun, At, NoStripe, NoTables, NoBounds
<1>4. Fits(k)' /\ Alone(k)
  BY <1>2, <1>3, ReportIsSent DEF Fits, Alone, Left, stripe, runs
<1> QED  BY <1>2, <1>3, <1>4, QuietStep DEF grants, bounds, Reports

\* What is noted is nothing but a note.
LEMMA NoteInv ==
  ASSUME Inv, NEW k \in Slots, NoteCancel(k) \/ NoteRefund(k), UNCHANGED kind
  PROVE  Inv'
<1>1. request[k].at \in {"noteCancel", "noteRefund"} /\ request[k].seen \in Notes
  BY DEF NoteCancel, NoteRefund, At, Requests
<1>2. request[k].ev \in Events /\ sent # {} /\ request[k].ev # "prepare"
  BY <1>1, ReportIsSent
<1>3. Only(k) /\ request'[k].ev = request[k].ev /\ request'[k].at \in {"cancel", "refund"}
  BY GotoOnly DEF NoteCancel, NoteRefund, Points
<1>4. run' \in Runs /\ run'.status = run.status /\ run'.intent = TRUE
  <2>1. \A x : Noted(request[k].seen, x) \in Runs /\ Noted(request[k].seen, x).status = run.status
    BY <1>1, NotedIsRun
  <2>2. CASE NoteCancel(k)
    BY <2>1, <2>2 DEF NoteCancel, Runs
  <2>3. CASE NoteRefund(k)
    BY <2>1, <2>3 DEF NoteRefund, Runs
  <2> QED  BY <2>2, <2>3
<1>5. UNCHANGED <<stripe, answered, receipt, grants, recorded, bounds, slipped>>
  BY DEF NoteCancel, NoteRefund, NoStripe, NoBounds
<1>6. Fits(k)' /\ Alone(k)
  BY <1>1, <1>2, <1>3, <1>4, <1>5 DEF Fits, Alone, Left, stripe
<1> QED  BY <1>2, <1>3, <1>4, <1>5, <1>6, RunStep DEF stripe, grants, Reports

\* The payment is given back, with the run that has it; or it was before.
LEMMA RefundInv ==
  ASSUME Inv, NEW k \in Slots, Refund(k) \/ RefundNow(k), UNCHANGED kind
  PROVE  Inv'
<1>1. request[k].at \in {"refund", "refundNow"} /\ run.intent
  BY DEF Refund, RefundNow, At, Fits
<1>2. UNCHANGED <<answered, grants, runs, bounds, slipped>>
  BY DEF Refund, RefundNow, NoBounds
<1>3. CASE refunded
  <2>1. Catch(k) /\ UNCHANGED stripe
    BY <1>3 DEF Refund, RefundNow
  <2> QED  BY <1>2, <2>1, CatchOnly, IdleFits, QuietStep DEF grants, bounds, Reports
<1>4. CASE ~refunded
  <2>1. Refunded /\ UNCHANGED receipt
    BY <1>4 DEF Refund, RefundNow
  <2>2. Only(k) /\ request'[k].ev = request[k].ev /\ request'[k].at = "saveRefund"
    BY <1>4, GotoOnly DEF Refund, RefundNow, Points
  <2>3. request[k].ev # "prepare"
    BY <1>1, ReportIsSent DEF Fits
  <2> USE DEF Refunded, runs, grants, bounds
  <2>4. Fits(k)' /\ Grows(k)
    BY <1>1, <1>2, <2>1, <2>2, <2>3, ReportIsSent DEF Fits, Left, Grows, Events
  <2>5. Types' /\ Reports' /\ PaymentKnown'
    BY <1>1, <1>2, <2>1, <2>2 DEF Only, Reports, PaymentKnown, Events
  <2>6. RecordFirst' /\ CertifiedIsReal'
    BY <1>2, <2>1 DEF RecordFirst, Left, CertifiedIsReal, Required
  <2> QED  BY <2>2, <2>3, <2>4, <2>5, <2>6, OthersFit
<1> QED  BY <1>3, <1>4

LEMMA SaveRefundInv ==
  ASSUME Inv, NEW k \in Slots, SaveRefund(k), UNCHANGED kind
  PROVE  Inv'
<1>1. Only(k) /\ request'[k].ev = request[k].ev /\ request'[k].at = "certify"
  <2>1. NoEvidence \in Notes /\ "certify" \in Points
    BY DEF NoEvidence, Notes, Points
  <2> QED  BY <2>1, SeenOnly DEF SaveRefund
<1>2. run' \in Runs /\ run'.status = run.status /\ run'.intent = run.intent
  <2>1. /\ Noted(request[k].seen, "refund") \in Runs
        /\ Noted(request[k].seen, "refund").status = run.status
        /\ Noted(request[k].seen, "refund").intent = run.intent
    BY NotedIsRun DEF Requests
  <2> QED  BY <2>1 DEF SaveRefund, Runs
<1>3. Fits(k)' /\ Alone(k)
  BY <1>1, <1>2 DEF Fits, Alone, Left, SaveRefund, At, NoStripe, stripe, NoBounds, Events
<1> QED  BY <1>1, <1>2, <1>3, RunStep DEF SaveRefund, NoStripe, NoBounds, stripe, grants, Reports

-----------------------------------------------------------------------------
\* What the owner asks for

LEMMA ReconcileInv ==
  ASSUME Inv, NEW k \in Slots, Reconcile(k), UNCHANGED kind
  PROVE  Inv'
<1>1. \E s \in {"savePayout", "certify", "cancelNow", "refundNow"} :
        /\ request' = [request EXCEPT ![k] =
                         [NoRequest EXCEPT !.ev = "reconcile", !.seen = Evidence(run), !.at = s]]
        /\ s = "refundNow" => run.intent
  BY DEF Reconcile, AfterCancel
<1>2. PICK s \in {"savePayout", "certify", "cancelNow", "refundNow"} :
        /\ request' = [request EXCEPT ![k] =
                         [NoRequest EXCEPT !.ev = "reconcile", !.seen = Evidence(run), !.at = s]]
        /\ s = "refundNow" => run.intent
  BY <1>1
<1> DEFINE r == [NoRequest EXCEPT !.ev = "reconcile", !.seen = Evidence(run), !.at = s]
<1>3. r \in Requests /\ r.ev = "reconcile" /\ r.at = s
  BY EvidenceIsNotes DEF NoRequest, Requests, Points, Statuses
<1> HIDE DEF r
<1>4. Only(k) /\ request'[k].ev = "reconcile" /\ request'[k].at = s
  BY <1>2, <1>3, SetOnly DEF r
<1>5. UNCHANGED <<stripe, answered, receipt, grants, runs, faults, slipped>> /\ reconciles' \in 0..MaxReconciles
  BY DEF Reconcile, NoStripe, NoTables
<1>6. Fits(k)' /\ Alone(k)
  BY <1>2, <1>4, <1>5 DEF Fits, Alone, runs, Events
<1> QED  BY <1>4, <1>5, <1>6, QuietStep DEF grants, Reports

LEMMA SaveCanceledInv ==
  ASSUME Inv, NEW k \in Slots, SaveCanceled(k), UNCHANGED kind
  PROVE  Inv'
<1>1. run' \in Runs /\ run'.status = run.status /\ run'.intent = run.intent
  BY NotedIsRun DEF SaveCanceled, Requests
<1>2. /\ Only(k) /\ request'[k].ev = request[k].ev
      /\ request'[k].at \in {"refundNow", "certify"}
      /\ request'[k].at = "refundNow" => run'.intent
  <2>1. \E s \in {"refundNow", "certify"} :
          /\ request' = [request EXCEPT ![k].at = s, ![k].seen = Evidence(run')]
          /\ s = "refundNow" => run'.intent
    BY DEF SaveCanceled, AfterCancel
  <2>2. Evidence(run') \in Notes
    BY <1>1, EvidenceIsNotes
  <2>3. PICK s \in {"refundNow", "certify"} :
          /\ request' = [request EXCEPT ![k].at = s, ![k].seen = Evidence(run')]
          /\ s = "refundNow" => run'.intent
    BY <2>1
  <2>4. s \in Points
    BY DEF Points
  <2> QED  BY <2>2, <2>3, <2>4, SeenOnly
<1>3. request[k].ev = "reconcile"
  BY DEF SaveCanceled, At, Fits
<1>4. Fits(k)' /\ Alone(k)
  BY <1>2, <1>3 DEF Fits, Alone, SaveCanceled, NoStripe, stripe, Events
<1> QED  BY <1>1, <1>2, <1>4, RunStep DEF SaveCanceled, NoStripe, NoBounds, stripe, grants, Reports

LEMMA SavePayoutInv ==
  ASSUME Inv, NEW k \in Slots, SavePayout(k), UNCHANGED kind
  PROVE  Inv'
<1>1. run' \in Runs /\ run'.status = run.status /\ run'.intent = run.intent
  BY NotedIsRun DEF SavePayout, Requests
<1>2. Only(k) /\ request'[k].ev = request[k].ev /\ request'[k].at \in {"recordPayout", "certify"}
  BY GotoOnly DEF SavePayout, Points
<1>3. request[k].ev = "reconcile"
  BY DEF SavePayout, At, Fits
<1>4. Fits(k)' /\ Alone(k)
  BY <1>2, <1>3 DEF Fits, Alone, SavePayout, NoStripe, stripe, Events
<1> QED  BY <1>1, <1>2, <1>4, RunStep DEF SavePayout, NoStripe, NoBounds, stripe, grants, Reports

LEMMA RecordPayoutInv ==
  ASSUME Inv, NEW k \in Slots, RecordPayout(k), UNCHANGED kind
  PROVE  Inv'
<1>1. recorded' = recorded \cup {"payout"}
  BY DEF RecordPayout, Recorded
<1>2. Only(k) /\ request'[k].ev = request[k].ev /\ request'[k].at = "certify"
  BY GotoOnly DEF RecordPayout, Points
<1>3. request[k].ev = "reconcile"
  BY DEF RecordPayout, At, Fits
<1>4. Fits(k)' /\ Alone(k)
  BY <1>2, <1>3 DEF Fits, Alone, RecordPayout, NoStripe, stripe, Events
<1> QED  BY <1>1, <1>2, <1>4, RecordedIsRun, RunStep
         DEF RecordPayout, NoStripe, NoBounds, stripe, grants, Reports

\* The first request to prepare a run.
LEMMA PrepareInv ==
  ASSUME Inv, NEW k \in Slots, Prepare(k), UNCHANGED kind
  PROVE  Inv'
<1> DEFINE r == [NoRequest EXCEPT !.ev = "prepare", !.at = "insertRun"]
<1>1. r \in Requests /\ r.ev = "prepare" /\ r.at = "insertRun"
  BY DEF NoRequest, NoEvidence, Requests, Notes, Points, Statuses
<1>2. request' = [request EXCEPT ![k] = r]
  BY DEF Prepare
<1> HIDE DEF r
<1>3. Only(k) /\ request'[k].ev = "prepare" /\ request'[k].at = "insertRun"
  BY <1>1, <1>2, SetOnly
<1>4. Fits(k)' /\ Alone(k)
  BY <1>3 DEF Fits, Alone, Prepare, NoStripe, stripe, Events
<1> QED  BY <1>3, <1>4, QuietStep DEF Prepare, NoStripe, NoTables, NoBounds, grants, bounds, Reports

\* No payment was made when a run takes the place of another.
LEMMA InsertRunInv ==
  ASSUME Inv, NEW k \in Slots, InsertRun(k), UNCHANGED kind
  PROVE  Inv'
<1>1. request[k].ev = "prepare" /\ ~offered
  BY DEF InsertRun, At, Fits
<1>2. ~run.intent /\ run' \in Runs /\ run'.status = "prepared" /\ run'.intent = FALSE
  BY <1>1 DEF InsertRun, NoRun, Runs, Reports, PaymentKnown
<1>3. Only(k) /\ request'[k].ev = request[k].ev /\ request'[k].at = "saveSession"
  BY GotoOnly DEF InsertRun, Points
<1>4. Fits(k)' /\ Alone(k)
  BY <1>1, <1>3 DEF Fits, Alone, InsertRun, NoStripe, stripe, Events, OnePrepares
<1> QED  BY <1>2, <1>3, <1>4, RunStep DEF InsertRun, NoStripe, NoBounds, stripe, grants, Reports

LEMMA SaveSessionInv ==
  ASSUME Inv, NEW k \in Slots, SaveSession(k), UNCHANGED kind
  PROVE  Inv'
<1>1. request[k].ev = "prepare" /\ ~offered
  BY DEF SaveSession, At, Fits
<1>2. run' \in Runs /\ run'.status = run.status /\ run'.intent = run.intent
  BY NotedIsRun DEF SaveSession, NoEvidence, Notes
<1>3. Only(k) /\ request'[k].ev = "none" /\ request'[k].at = "idle"
  BY DoneOnly DEF SaveSession
<1> QED  BY <1>1, <1>2, <1>3, IdleFits, RunStep DEF SaveSession, NoBounds, grants, Reports

-----------------------------------------------------------------------------

\* A request that fails records nothing.
LEMMA FailInv ==
  ASSUME Inv, NEW k \in Slots, Fail(k), UNCHANGED kind
  PROVE  Inv'
<1>1. /\ Only(k) /\ request'[k].ev = "none" /\ request'[k].at = "idle"
      /\ receipt' \in [Events -> {"none", "open", "processed"}]
      /\ \A e \in Events : receipt'[e] = "processed" => receipt[e] = "processed"
  BY DoneOnly, CatchOnly DEF Fail
<1>2. slipped \subseteq slipped' /\ slipped' \subseteq {"cancel", "refund", "find", "insert"}
  BY DEF Fail, Slip, Reports
<1> QED  BY <1>1, <1>2, IdleFits, QuietStep DEF Fail, NoStripe, grants

\* Payment and cancellation at Stripe, of which no request knows.
LEMMA StripeInv ==
  ASSUME Inv, Pay \/ BuyerCancels, UNCHANGED kind
  PROVE  Inv'
<1>1. UNCHANGED <<offered, refunded, answered, request, receipt, grants, runs, bounds, slipped>>
  BY DEF Pay, BuyerCancels, Canceled, NoTables, NoBounds
<1>2. Reports' /\ PaymentKnown' /\ RecordFirst' /\ CertifiedIsReal' /\ sent \subseteq sent'
      /\ subscription' \in {"none", "active", "canceled"}
  <2>1. CASE Pay
    <3>1. sent = {} /\ subscription' = "active" /\ offered
      BY <2>1 DEF Pay, Reports
    <3>2. sent' \subseteq {"checkout", "created", "updated", "invoice"}
      BY <2>1 DEF Pay
    <3> USE DEF runs
    <3>3. Reports' /\ PaymentKnown'
      BY <1>1, <3>1, <3>2 DEF Reports, PaymentKnown, Events
    <3>4. RecordFirst' /\ CertifiedIsReal'
      BY <1>1, <3>1 DEF RecordFirst, Left, CertifiedIsReal, Required, Reports
    <3> QED  BY <3>1, <3>3, <3>4
  <2>2. CASE BuyerCancels
    BY <1>1, <2>2, CanceledTables DEF BuyerCancels
  <2> QED  BY <2>1, <2>2
<1>3. Types' /\ AllFit' /\ OnePrepares'
  BY <1>1, <1>2 DEF grants, runs, bounds, Fits, Left, OnePrepares
<1> QED  BY <1>2, <1>3

-----------------------------------------------------------------------------

LEMMA StepInv ==
  ASSUME Inv, NEW k \in Slots, Step(k), UNCHANGED kind
  PROVE  Inv'
BY LookupInv, ResetInv, FetchInv, UpsertInv, DeleteInv, InsertInv, FindInv, IdentifyInv,
   RecordInv, CertifyInv, CloseInv, ReadRunInv, NoteInv, CancelInv, RefundInv, SaveRefundInv,
   SaveCanceledInv, SavePayoutInv, RecordPayoutInv, InsertRunInv, SaveSessionInv DEF Step

LEMMA NextInv ==
  ASSUME Inv, [Next]_vars
  PROVE  Inv'
<1>1. ASSUME UNCHANGED vars PROVE Inv'
  BY <1>1 DEF vars, stripe, grants, runs, bounds, Reports, PaymentKnown, RecordFirst, Left,
     CertifiedIsReal, Required, Fits, OnePrepares
<1>2. ASSUME Pay \/ BuyerCancels, UNCHANGED kind PROVE Inv'
  BY <1>2, StripeInv
<1>3. ASSUME NEW k \in Slots, Step(k) \/ Prepare(k) \/ Reconcile(k) \/ Fail(k), UNCHANGED kind
      PROVE  Inv'
  BY <1>3, StepInv, PrepareInv, ReconcileInv, FailInv
<1>4. ASSUME NEW k \in Slots, NEW e \in Events, Deliver(k, e) \/ DeliverAgain(k, e), UNCHANGED kind
      PROVE  Inv'
  <2>1. faults' \in 0..MaxFaults /\ UNCHANGED reconciles /\ e \in sent /\ Arrive(k, e)
    BY <1>4 DEF Deliver, DeliverAgain, bounds
  <2> QED  BY <1>4, <2>1, ArriveInv
<1> QED  BY <1>1, <1>2, <1>3, <1>4 DEF Next, Reported

LEMMA SpecInv == Spec => []Inv
<1> USE DEF vars
<1> QED  BY InitInv, NextInv, PTL DEF Spec

\* The tables, requests and history keep their types, and only what Stripe sent is answered
\* and recorded (hercules-stripe-webhook, hercules-provider-connect).
THEOREM PaymentsTypeCorrect == Spec => []TypeOK
<1>1. Inv => TypeOK
  BY DEF TypeOK, Reports, Runs, Statuses, Age, Fits
<1> QED  BY <1>1, SpecInv, PTL

\* A payment path is certified only of a payment that was given back at Stripe and a
\* subscription that was canceled (hercules_software_certify_payment_path).
THEOREM CertificateIsReal == Spec => []CertifiedIsReal
<1>1. Inv => CertifiedIsReal
  OBVIOUS
<1> QED  BY <1>1, SpecInv, PTL

\* An event that is answered with success is recorded, however its reports overlapped or
\* failed (the receipts of hercules-stripe-webhook).
THEOREM AnswerIsRecorded == Spec => []AnsweredIsRecorded
<1>1. Inv => AnsweredIsRecorded
  BY DEF AnsweredIsRecorded, RecordFirst, Left, Reports
<1> QED  BY <1>1, SpecInv, PTL

-----------------------------------------------------------------------------
(***************************************************************************)
(* The grant to a customer.  What was answered was written, and what one   *)
(* report takes back another, or the same one repeated, brings.            *)
(***************************************************************************)

\* What Stripe has sent of a customer's purchase, which needs no run.
Sold ==
  /\ run.status = "none" /\ ~run.intent /\ offered
  /\ sent \subseteq {"checkout", "created", "updated", "deleted"}
  /\ subscription # "none" => {"checkout", "created", "updated"} \subseteq sent
  /\ subscription = "canceled" => "deleted" \in sent

\* The steps of a report of it, those that are about to write, and those after the first write.
SalePoints == GrantPoints \cup {"idle", "lookup", "reset", "find", "close"}
WritePoints == {"upsert", "delete", "insert"}

\* A request writes the status of its event, which the subscription has had.
Serves(k) ==
  LET e == request[k].ev
      t == request[k].status IN
  /\ request[k].at \in SalePoints
  /\ request[k].at = "fetch" => e = "checkout"
  /\ request[k].at \in WritePoints =>
       /\ Age[t] <= Age[subscription]
       /\ e \in DOMAIN Payload => t = Payload[e]
       /\ e = "checkout" => t \in {"active", "canceled"}
  /\ request[k].at \in {"delete", "insert"} => Age[t] <= newest

\* The work on event e has been done, and not begun again.
Reached(e) ==
  \/ receipt[e] = "processed" \/ e \in answered
  \/ \E k \in Slots : request[k].ev = e /\ At(k, "close")

\* What has been written is what is there, and what was reached was written.
Written ==
  /\ newest \in 0..Age[subscription]
  /\ overtaken \in BOOLEAN
  /\ ~overtaken => Age[row] = newest
  /\ entitled = "on" => newest >= 2
  /\ \A e \in {"checkout", "updated"} : Reached(e) => newest >= 2
  /\ Reached("deleted") => newest = 3

ProcessedIsAnswered == \A e \in Events : receipt[e] = "processed" => e \in answered

\* Request k has deleted the entitlements, to insert those of status t.
Renews(k, t) == At(k, "insert") /\ request[k].status = t

\* While nothing is overtaken the entitlements of the newest status are there, or on their
\* way, or an event that brings them is still to be reported.
Granted ==
  ~overtaken =>
    /\ Reached("deleted") \/ (\E k \in Slots : Renews(k, "canceled")) => entitled # "on"
    /\ newest = 2 /\ (\E k \in Slots : Renews(k, "active")) => entitled # "off"
    /\ newest = 2 /\ slipped = {} /\ entitled # "on" =>
         \/ \E k \in Slots : Renews(k, "active")
         \/ \E e \in {"checkout", "updated"} : ~Reached(e)

SaleInv ==
  kind = "customer" =>
    /\ Sold /\ (\A k \in Slots : Serves(k)) /\ Written /\ ProcessedIsAnswered /\ Granted

-----------------------------------------------------------------------------

LEMMA AgeFacts ==
  /\ Age["none"] = 0 /\ Age["incomplete"] = 1 /\ Age["active"] = 2 /\ Age["canceled"] = 3
  /\ \A t \in Statuses : Age[t] \in 0..3
  /\ \A t, u \in Statuses : Age[t] = Age[u] => t = u
BY DEF Age, Statuses

LEMMA InitSale == Init => SaleInv
<1> SUFFICES ASSUME Init, kind = "customer" PROVE SaleInv
  BY DEF SaleInv
<1> USE DEF Init
<1>1. \A k \in Slots : request[k].at = "idle" /\ request[k].ev = "none"
  BY DEF NoRequest
<1>2. Sold /\ \A k \in Slots : Serves(k)
  BY <1>1 DEF Sold, Serves, NoRun, SalePoints, WritePoints
<1>3. \A e \in Events : ~Reached(e)
  BY <1>1 DEF Reached, At
<1>4. Written
  <2>1. newest = 0 /\ row = "none" /\ subscription = "none" /\ Age["none"] = 0
    BY AgeFacts
  <2>2. newest \in 0..Age[subscription] /\ Age[row] = newest
    BY <2>1
  <2>3. overtaken \in BOOLEAN /\ entitled # "on"
    OBVIOUS
  <2>4. \A e \in {"checkout", "updated", "deleted"} : ~Reached(e)
    BY <1>3 DEF Events
  <2> QED  BY <2>2, <2>3, <2>4 DEF Written
<1>5. ProcessedIsAnswered
  BY DEF ProcessedIsAnswered
<1>6. Granted
  BY <1>1, <1>3 DEF Granted, Renews, At, Events
<1> QED  BY <1>2, <1>4, <1>5, <1>6 DEF SaleInv

\* A step of request k that writes nothing, and after which it does not insert.
LEMMA QuietSale ==
  ASSUME kind = "customer", Inv, SaleInv, NEW k \in Slots, Only(k),
         UNCHANGED <<kind, stripe, grants, runs>>, slipped \subseteq slipped',
         Serves(k)', request'[k].at # "insert", ProcessedIsAnswered',
         \A e \in {"checkout", "updated", "deleted"} : Reached(e)' => Reached(e),
         Renews(k, "active") /\ ~overtaken /\ newest = 2 =>
           \/ slipped' # {} \/ entitled = "on"
           \/ \E e \in {"checkout", "updated"} : ~Reached(e)'
  PROVE  SaleInv'
<1> USE DEF stripe, grants, runs
<1>1. Sold' /\ Written'
  BY DEF SaleInv, Sold, Written
<1>2. \A j \in Slots : Serves(j)'
  BY DEF SaleInv, Serves, Only
<1>3. \A j \in Slots \ {k}, t \in {"active", "canceled"} : Renews(j, t)' <=> Renews(j, t)
  BY DEF Renews, At, Only
<1>4. \A t \in {"active", "canceled"} : ~Renews(k, t)'
  BY DEF Renews, At
<1>5. Granted'
  <2>1. ASSUME ~overtaken, Reached("deleted")' \/ \E j \in Slots : Renews(j, "canceled")'
        PROVE  entitled # "on"
    BY <1>3, <1>4, <2>1 DEF SaleInv, Granted
  <2>2. ASSUME ~overtaken, newest = 2, \E j \in Slots : Renews(j, "active")'
        PROVE  entitled # "off"
    BY <1>3, <1>4, <2>2 DEF SaleInv, Granted
  <2>3. ASSUME ~overtaken, newest = 2, slipped' = {}, entitled # "on"
        PROVE  \/ \E j \in Slots : Renews(j, "active")'
               \/ \E e \in {"checkout", "updated"} : ~Reached(e)'
    BY <1>3, <2>3 DEF SaleInv, Granted
  <2> QED  BY <2>1, <2>2, <2>3 DEF Granted
<1> QED  BY <1>1, <1>2, <1>5 DEF SaleInv

\* What is reached by a step of request k.
LEMMA ReachedBefore ==
  ASSUME NEW k \in Slots, NEW e, Only(k), Reached(e)',
         receipt'[e] = "processed" => Reached(e), e \in answered' => Reached(e),
         request'[k].at = "close" /\ request'[k].ev = e => Reached(e)
  PROVE  Reached(e)
BY DEF Reached, Only, At

LEMMA WorkServes ==
  ASSUME kind = "customer", Reports, Sold, Types, NEW k \in Slots, NEW e \in sent,
         request'[k] = Work(e), UNCHANGED subscription
  PROVE  Serves(k)' /\ request'[k].at \in {"fetch", "upsert", "find"}
<1>1. subscription \in {"active", "canceled"} /\ (e = "deleted" => subscription = "canceled")
  BY DEF Reports
<1>2. /\ Work(e).ev = e /\ Work(e).at = Begin(e)
      /\ Work(e).status = IF e \in DOMAIN Payload THEN Payload[e] ELSE "none"
  BY DEF Work, NoRequest
<1>3. e \in {"checkout", "created", "updated", "deleted"}
  BY DEF Sold
<1>4. DOMAIN Payload = {"created", "updated", "deleted"}
  BY DEF Payload
<1>5. e \in DOMAIN Payload => Age[Payload[e]] <= Age[subscription]
  BY <1>1, <1>3, <1>4, AgeFacts DEF Payload
<1>6. /\ e = "checkout" => Begin(e) = "fetch"
      /\ e # "checkout" => Begin(e) = "upsert" /\ e \in DOMAIN Payload
  BY <1>3, <1>4 DEF Begin
<1> QED  BY <1>2, <1>5, <1>6 DEF Serves, SalePoints, WritePoints

\* Nothing is served at a step that writes nothing.
LEMMA IdleServes ==
  ASSUME NEW k \in Slots,
         request'[k].at \in {"idle", "lookup", "reset", "find", "close"}
  PROVE  Serves(k)'
BY DEF Serves, SalePoints, WritePoints

LEMMA ArriveSale ==
  ASSUME kind = "customer", Inv, SaleInv, NEW k \in Slots, NEW e \in sent, Arrive(k, e),
         UNCHANGED kind
  PROVE  SaleInv'
<1>1. e \in Events /\ UNCHANGED <<stripe, answered, grants, runs, slipped>> /\ request[k].at = "idle"
  BY DEF Arrive, NoStripe, Accepts, At, Reports
<1>2. receipt' \in {receipt, [receipt EXCEPT ![e] = "open"]}
  BY DEF Arrive
<1> DEFINE again == [NoRequest EXCEPT !.ev = e, !.at = "lookup"]
<1>3. again \in Requests /\ again.at = "lookup"
  BY <1>1 DEF NoRequest, NoEvidence, Requests, Notes, Points, Statuses
<1> HIDE DEF again
<1>4. Only(k) /\ (request'[k] = Work(e) \/ request'[k] = again)
  BY <1>1, <1>3, SetOnly, WorkIsRequest DEF Arrive, again
<1>5. Serves(k)' /\ request'[k].at \in {"fetch", "upsert", "find", "lookup"}
  BY <1>1, <1>3, <1>4, WorkServes, IdleServes DEF stripe, SaleInv
<1>6. ProcessedIsAnswered' /\ \A f \in Events : receipt'[f] = "processed" => receipt[f] = "processed"
  BY <1>1, <1>2 DEF SaleInv, ProcessedIsAnswered
<1>7. \A f \in {"checkout", "updated", "deleted"} : Reached(f)' => Reached(f)
  BY <1>1, <1>4, <1>5, <1>6, ReachedBefore DEF Reached, Events
<1>8. ~Renews(k, "active")
  BY <1>1 DEF Renews, At
<1> QED  BY <1>1, <1>4, <1>5, <1>6, <1>7, <1>8, QuietSale

LEMMA LookupSale ==
  ASSUME kind = "customer", Inv, SaleInv, NEW k \in Slots, Lookup(k) \/ Reset(k), UNCHANGED kind
  PROVE  SaleInv'
<1> DEFINE e == request[k].ev
<1>1. /\ UNCHANGED <<stripe, grants, runs, slipped>> /\ request[k].at \in {"lookup", "reset"}
      /\ e \in Events /\ e \in sent
  BY ReportIsSent DEF Lookup, Reset, NoStripe, NoTables, NoBounds, At
<1>2. /\ Only(k) /\ Serves(k)'
      /\ request'[k].at \notin {"insert", "close"}
  <2>1. CASE Lookup(k)
    BY <2>1, DoneOnly, GotoOnly, IdleServes DEF Lookup, Points
  <2>2. CASE Reset(k)
    BY <1>1, <2>2, WorkIsRequest, WorkServes, SetOnly DEF Reset, stripe, SaleInv
  <2> QED  BY <2>1, <2>2
<1>3. /\ receipt' \in {receipt, [receipt EXCEPT ![e] = "open"]}
      /\ answered' = answered \/ (receipt[e] = "processed" /\ answered' = answered \cup {e})
  BY DEF Lookup, Reset, NoStripe, NoTables
<1>4. ProcessedIsAnswered' /\ \A f \in Events : receipt'[f] = "processed" => receipt[f] = "processed"
  BY <1>1, <1>3 DEF SaleInv, ProcessedIsAnswered
<1>5. \A f \in {"checkout", "updated", "deleted"} : Reached(f)' => Reached(f)
  BY <1>2, <1>3, <1>4, ReachedBefore DEF Reached, Events
<1>6. ~Renews(k, "active")
  BY <1>1 DEF Renews, At
<1> QED  BY <1>1, <1>2, <1>4, <1>5, <1>6, QuietSale

LEMMA FetchSale ==
  ASSUME kind = "customer", Inv, SaleInv, NEW k \in Slots, Fetch(k), UNCHANGED kind
  PROVE  SaleInv'
<1>1. /\ UNCHANGED <<stripe, answered, receipt, grants, runs, slipped>>
      /\ request[k].at = "fetch" /\ request[k].ev = "checkout"
  BY DEF Fetch, NoStripe, NoTables, NoBounds, At, SaleInv, Serves
<1>2. /\ Only(k) /\ request'[k].ev = "checkout" /\ request'[k].at = "upsert"
      /\ request'[k].status = subscription
  <2>1. subscription \in Statuses /\ "upsert" \in Points
    BY DEF Statuses, Points
  <2>2. Only(k) /\ request'[k].ev = "checkout" /\ request'[k].at = "upsert"
    BY <1>1, <2>1, StatusOnly DEF Fetch
  <2> QED  BY <2>2 DEF Fetch, Requests
<1>3. subscription \in {"active", "canceled"}
  BY <1>1, ReportIsSent DEF Reports
<1>4. Serves(k)'
  <2>1. "checkout" \notin DOMAIN Payload /\ Age[subscription] <= Age[subscription]
    BY <1>3, AgeFacts DEF Payload
  <2> QED  BY <1>1, <1>2, <1>3, <2>1 DEF Serves, SalePoints, stripe
<1>5. \A f : Reached(f)' => Reached(f)
  BY <1>1, <1>2, ReachedBefore DEF Reached
<1>6. ~Renews(k, "active") /\ ProcessedIsAnswered'
  BY <1>1 DEF Renews, At, SaleInv, ProcessedIsAnswered
<1> QED  BY <1>1, <1>2, <1>4, <1>5, <1>6, QuietSale

\* A refund is not a customer's.
LEMMA FindSale ==
  ASSUME kind = "customer", Inv, SaleInv, NEW k \in Slots, Find(k)
  PROVE  FALSE
BY ReportIsSent DEF Find, At, Fits, SaleInv, Sold

LEMMA CloseSale ==
  ASSUME kind = "customer", Inv, SaleInv, NEW k \in Slots, Close(k), UNCHANGED kind
  PROVE  SaleInv'
<1> DEFINE e == request[k].ev
<1>1. /\ UNCHANGED <<stripe, grants, runs, slipped>> /\ request[k].at = "close" /\ Reached(e)
      /\ e \in Events
  BY ReportIsSent DEF Close, At, Reached
<1>2. Only(k) /\ request'[k].at = "idle" /\ Serves(k)'
  BY DoneOnly, IdleServes DEF Close
<1>3. /\ receipt' \in {receipt, [receipt EXCEPT ![e] = "processed"]}
      /\ answered' = answered \cup {e}
  BY DEF Close
<1>4. ProcessedIsAnswered'
  BY <1>1, <1>3 DEF SaleInv, ProcessedIsAnswered
<1>5. \A f \in {"checkout", "updated", "deleted"} : Reached(f)' => Reached(f)
  BY <1>1, <1>2, <1>3, ReachedBefore DEF Reached, Events
<1>6. ~Renews(k, "active")
  BY <1>1 DEF Renews, At
<1> QED  BY <1>1, <1>2, <1>4, <1>5, <1>6, QuietSale

\* A request that ends in an error leaves receipts that are processed as they are.
LEMMA CatchSale ==
  ASSUME kind = "customer", Inv, SaleInv, NEW k \in Slots, Catch(k) \/ (Done(k) /\ UNCHANGED receipt),
         UNCHANGED answered
  PROVE  /\ Only(k) /\ request'[k].at = "idle" /\ Serves(k)' /\ ProcessedIsAnswered'
         /\ \A f \in Events : Reached(f)' => Reached(f)
<1>1. Only(k) /\ request'[k].at = "idle" /\ Serves(k)'
  BY DoneOnly, IdleServes DEF Catch
<1>2. \A f \in Events : receipt'[f] = "processed" => receipt[f] = "processed"
  BY CatchOnly
<1>3. ProcessedIsAnswered'
  BY <1>2 DEF SaleInv, ProcessedIsAnswered
<1>4. \A f \in Events : Reached(f)' => Reached(f)
  BY <1>1, <1>2, ReachedBefore DEF Reached
<1> QED  BY <1>1, <1>3, <1>4

\* If an insertion fails and its event will not be reported again, it is noted.
LEMMA FailSale ==
  ASSUME kind = "customer", Inv, SaleInv, NEW k \in Slots, Fail(k), UNCHANGED kind
  PROVE  SaleInv'
<1> DEFINE e == request[k].ev
<1>1. UNCHANGED <<stripe, answered, grants, runs>> /\ slipped \subseteq slipped'
  BY DEF Fail, NoStripe, Slip
<1>2. /\ Only(k) /\ request'[k].at = "idle" /\ Serves(k)' /\ ProcessedIsAnswered'
      /\ \A f \in Events : Reached(f)' => Reached(f)
  BY <1>1, CatchSale DEF Fail
<1>3. ASSUME Renews(k, "active"), slipped' = {}
      PROVE  \E f \in {"checkout", "updated"} : ~Reached(f)'
  <2>1. request[k].at = "insert" /\ request[k].status = "active"
    BY <1>3 DEF Renews, At
  <2>2. e \in {"checkout", "updated"}
    <3>1. e \in sent
      BY <2>1, ReportIsSent
    <3> QED  BY <2>1, <3>1 DEF SaleInv, Serves, Sold, WritePoints, Payload
  <2>3. ~Repeats(k)
    BY <1>3, <2>1 DEF Fail, Slip
  <2>4. receipt'[e] # "processed" /\ e \notin answered'
    BY <1>1, <1>2, <2>2, <2>3 DEF Repeats, ProcessedIsAnswered, Events
  <2>5. \A j \in Slots : ~(request'[j].ev = e /\ At(j, "close")')
    BY <1>2, <2>3 DEF Repeats, At, Only
  <2> QED  BY <2>2, <2>4, <2>5 DEF Reached
<1> QED  BY <1>1, <1>2, <1>3, QuietSale DEF Events

-----------------------------------------------------------------------------
\* The statements

\* The age of what was written last.
LEMMA WritesAge ==
  ASSUME Inv, SaleInv, kind = "customer", NEW k \in Slots, request[k].at \in WritePoints, Writes(k),
         UNCHANGED subscription
  PROVE  /\ newest \in 0..3 /\ newest' \in newest..Age[subscription'] /\ overtaken' \in BOOLEAN
         /\ Age[request[k].status] <= newest' /\ newest' \in {newest, Age[request[k].status]}
         /\ ~overtaken' => ~overtaken /\ newest' = Age[request[k].status]
<1>1. request[k].status \in Statuses /\ subscription \in Statuses
  BY DEF Requests, Statuses
<1>2. Age[request[k].status] \in 0..3 /\ Age[subscription] \in 0..3
  BY <1>1, AgeFacts
<1>3. newest \in 0..Age[subscription] /\ overtaken \in BOOLEAN
      /\ Age[request[k].status] <= Age[subscription]
  BY DEF SaleInv, Written, Serves
<1> DEFINE age == Age[request[k].status]
<1>4. /\ newest' = IF age > newest THEN age ELSE newest
      /\ overtaken' = (overtaken \/ age < newest)
  BY DEF Writes
<1>5. newest \in 0..3 /\ age \in 0..3
  BY <1>2, <1>3
<1> HIDE DEF age
<1>6. newest' \in newest..Age[subscription'] /\ age <= newest' /\ newest' \in {newest, age}
  BY <1>2, <1>3, <1>4, <1>5 DEF age
<1>7. overtaken' \in BOOLEAN
  BY <1>4
<1>8. ~overtaken' => ~overtaken /\ ~(age < newest)
  BY <1>3, <1>4
<1>9. ~(age < newest) => newest' = age
  BY <1>4, <1>5
<1> QED  BY <1>5, <1>6, <1>7, <1>8, <1>9 DEF age

\* What the others are at stays true, and so it does of k.
LEMMA WriteServes ==
  ASSUME Inv, SaleInv, kind = "customer", NEW k \in Slots, request[k].at \in WritePoints, Writes(k),
         Only(k), UNCHANGED <<kind, stripe, runs>>,
         request'[k].ev = request[k].ev,
         \/ request'[k].at = "close"
         \/ request'[k].at \in {"delete", "insert"} /\ request'[k].status = request[k].status
  PROVE  Sold' /\ \A j \in Slots : Serves(j)'
<1> USE DEF stripe, runs
<1>1. newest \in 0..3 /\ newest' \in Int /\ newest <= newest' /\ Age[request[k].status] <= newest'
  <2>1. Age[subscription'] \in 0..3
    BY AgeFacts DEF Statuses
  <2> QED  BY <2>1, WritesAge
<1>2. Serves(k)'
  BY <1>1 DEF SaleInv, Serves, WritePoints, SalePoints
<1>3. ASSUME NEW j \in Slots, j # k PROVE Serves(j)'
  <2>1. request'[j] = request[j] /\ request[j].status \in Statuses
    BY <1>3 DEF Only, Requests
  <2>2. Age[request[j].status] \in 0..3
    BY <2>1, AgeFacts
  <2> QED  BY <1>1, <2>1, <2>2 DEF SaleInv, Serves
<1> QED  BY <1>2, <1>3 DEF SaleInv, Sold

LEMMA UpsertSale ==
  ASSUME kind = "customer", Inv, Inv', SaleInv, NEW k \in Slots, Upsert(k), UNCHANGED kind
  PROVE  SaleInv'
<1> DEFINE t == request[k].status
<1>1. /\ request[k].at = "upsert" /\ Writes(k) /\ row' = t
      /\ UNCHANGED <<stripe, answered, receipt, entitled, runs, slipped>>
  BY DEF Upsert, At, NoStripe, NoBounds
<1>2. /\ Only(k) /\ request'[k].ev = request[k].ev /\ request'[k].at = "delete"
      /\ request'[k].status = t
  <2>1. Only(k) /\ request'[k].ev = request[k].ev /\ request'[k].at = "delete"
    BY GotoOnly DEF Upsert, Points
  <2> QED  BY <2>1 DEF Upsert, Goto, Requests
<1>3. Sold' /\ \A j \in Slots : Serves(j)'
  BY <1>1, <1>2, WriteServes DEF WritePoints
<1>4. /\ newest \in 0..3 /\ newest' \in newest..Age[subscription'] /\ overtaken' \in BOOLEAN
      /\ ~overtaken' => ~overtaken /\ newest' = Age[t]
  BY <1>1, WritesAge DEF stripe, WritePoints
<1>5. \A f : Reached(f)' => Reached(f)
  BY <1>1, <1>2, ReachedBefore DEF Reached
<1>6. Age[subscription'] \in 0..3 /\ t \in Statuses
  BY AgeFacts DEF Statuses, Requests
<1>7. Written' /\ ProcessedIsAnswered'
  <2>1. newest' \in 0..Age[subscription'] /\ newest <= newest' /\ newest' \in 0..3
    BY <1>4, <1>6
  <2>2. (entitled' = "on" => newest' >= 2) /\ (~overtaken' => Age[row'] = newest')
    BY <1>1, <1>4, <2>1 DEF SaleInv, Written
  <2>3. /\ \A e \in {"checkout", "updated"} : Reached(e)' => newest' >= 2
        /\ Reached("deleted")' => newest' = 3
    BY <1>4, <1>5, <2>1 DEF SaleInv, Written
  <2> QED  BY <1>1, <1>4, <2>1, <2>2, <2>3 DEF Written, SaleInv, ProcessedIsAnswered
<1>8. \A j \in Slots, u \in Statuses : Renews(j, u)' <=> Renews(j, u)
  BY <1>1, <1>2 DEF Renews, At, Only
<1>9. Granted'
  <2> SUFFICES ASSUME ~overtaken' PROVE Granted'
    BY DEF Granted
  <2>1. ~overtaken /\ newest' = Age[t]
    BY <1>4
  <2>2. Reached("deleted")' \/ (\E j \in Slots : Renews(j, "canceled")') => entitled' # "on"
    BY <1>1, <1>5, <1>8, <2>1 DEF SaleInv, Granted, Statuses
  <2>3. \A j \in Slots : Renews(j, "active") => newest >= 2
    BY AgeFacts DEF SaleInv, Serves, Renews, At
  <2>4. ASSUME newest' = 2 PROVE newest = 2 \/ newest < 2
    BY <1>4, <1>6, <2>4
  <2>5. newest' = 2 /\ (\E j \in Slots : Renews(j, "active")') => entitled' # "off"
    BY <1>1, <1>4, <1>8, <2>1, <2>3, <2>4 DEF SaleInv, Granted, Statuses
  <2>6. ASSUME newest' = 2, slipped' = {}, entitled' # "on"
        PROVE  \/ \E j \in Slots : Renews(j, "active")'
               \/ \E e \in {"checkout", "updated"} : ~Reached(e)'
    <3>1. CASE newest = 2
      BY <1>1, <1>5, <1>8, <2>1, <2>6, <3>1 DEF SaleInv, Granted, Statuses
    <3>2. CASE newest < 2
      <4>1. ~Reached("updated")
        BY <1>4, <3>2 DEF SaleInv, Written
      <4> QED  BY <1>5, <4>1
    <3> QED  BY <2>4, <2>6, <3>1, <3>2
  <2> QED  BY <2>2, <2>5, <2>6 DEF Granted
<1> QED  BY <1>3, <1>7, <1>9 DEF SaleInv

\* After its first write request k writes the newest status, or overtakes.
LEMMA WritesAgain ==
  ASSUME kind = "customer", Inv, SaleInv, NEW k \in Slots, request[k].at \in {"delete", "insert"},
         Writes(k), UNCHANGED <<row, subscription>>
  PROVE  /\ newest' = newest /\ newest \in 0..3 /\ newest <= Age[subscription]
         /\ overtaken' \in BOOLEAN
         /\ ~overtaken' => ~overtaken /\ newest = Age[request[k].status] /\ Age[row'] = newest
<1> DEFINE age == Age[request[k].status]
<1>1. age <= newest /\ request[k].status \in Statuses
  BY DEF SaleInv, Serves, Requests
<1>2. age \in 0..3 /\ newest \in 0..3 /\ Age[subscription] \in 0..3
  BY <1>1, WritesAge, AgeFacts DEF WritePoints, Statuses
<1>3. /\ newest' \in {newest, age} /\ newest' \in newest..Age[subscription']
      /\ overtaken' \in BOOLEAN
      /\ ~overtaken' => ~overtaken /\ newest' = age
  BY WritesAge DEF WritePoints
<1> HIDE DEF age
<1>4. newest' = newest
  BY <1>1, <1>2, <1>3
<1>5. newest <= Age[subscription] /\ (~overtaken => Age[row'] = newest)
  BY <1>2 DEF SaleInv, Written
<1> QED  BY <1>2, <1>3, <1>4, <1>5 DEF age

LEMMA DeleteSale ==
  ASSUME kind = "customer", Inv, SaleInv, NEW k \in Slots, Delete(k), UNCHANGED kind
  PROVE  SaleInv'
<1> DEFINE t == request[k].status
<1>1. /\ request[k].at = "delete" /\ Writes(k) /\ entitled' = "none"
      /\ UNCHANGED <<stripe, answered, receipt, row, runs, slipped>>
  BY DEF Delete, At, NoStripe, NoBounds
<1>2. /\ Only(k) /\ request'[k].ev = request[k].ev /\ request'[k].at = "insert"
      /\ request'[k].status = t
  <2>1. Only(k) /\ request'[k].ev = request[k].ev /\ request'[k].at = "insert"
    BY GotoOnly DEF Delete, Points
  <2> QED  BY <2>1 DEF Delete, Goto, Requests
<1>3. Sold' /\ \A j \in Slots : Serves(j)'
  BY <1>1, <1>2, WriteServes DEF WritePoints
<1>4. /\ newest' = newest /\ newest \in 0..3 /\ newest <= Age[subscription]
      /\ overtaken' \in BOOLEAN
      /\ ~overtaken' => ~overtaken /\ newest = Age[t] /\ Age[row'] = newest
  BY <1>1, WritesAgain DEF stripe
<1>5. \A f : Reached(f)' => Reached(f)
  BY <1>1, <1>2, ReachedBefore DEF Reached
<1>6. Written' /\ ProcessedIsAnswered'
  BY <1>1, <1>4, <1>5 DEF SaleInv, Written, ProcessedIsAnswered, stripe
<1>7. Granted'
  <2>1. t \in Statuses
    BY DEF Requests
  <2>2. ~overtaken' /\ newest' = 2 => Renews(k, "active")'
    BY <1>2, <1>4, <2>1, AgeFacts DEF Renews, At, Statuses
  <2> QED  BY <1>1, <2>2 DEF Granted
<1> QED  BY <1>3, <1>6, <1>7 DEF SaleInv

LEMMA InsertSale ==
  ASSUME kind = "customer", Inv, SaleInv, NEW k \in Slots, Insert(k), UNCHANGED kind
  PROVE  SaleInv'
<1> DEFINE t == request[k].status
           e == request[k].ev
<1>1. request[k].at = "insert" /\ UNCHANGED <<stripe, answered, row, runs, slipped>>
  BY DEF Insert, At, NoStripe, NoBounds
<1>2. CASE entitled # "none"
  <2>1. Catch(k) /\ UNCHANGED grants
    BY <1>1, <1>2 DEF Insert, grants
  <2>2. /\ Only(k) /\ request'[k].at = "idle" /\ Serves(k)' /\ ProcessedIsAnswered'
        /\ \A f \in Events : Reached(f)' => Reached(f)
    BY <1>1, <2>1, CatchSale
  <2>3. Renews(k, "active") /\ ~overtaken /\ newest = 2 => entitled = "on"
    BY <1>2 DEF SaleInv, Granted
  <2> QED  BY <1>1, <2>1, <2>2, <2>3, QuietSale DEF Events
<1>3. CASE entitled = "none"
  <2>1. /\ Writes(k) /\ UNCHANGED receipt
        /\ entitled' = IF t = "active" THEN "on" ELSE "off"
        /\ request' = [request EXCEPT ![k].at = "close", ![k].status = "none"]
    BY <1>3 DEF Insert
  <2>2. Only(k) /\ request'[k].ev = e /\ request'[k].at = "close"
    BY <2>1, StatusOnly DEF Points, Statuses
  <2>3. Sold' /\ \A j \in Slots : Serves(j)'
    BY <1>1, <2>1, <2>2, WriteServes DEF WritePoints
  <2>4. /\ newest' = newest /\ newest \in 0..3 /\ newest <= Age[subscription]
        /\ overtaken' \in BOOLEAN
        /\ ~overtaken' => ~overtaken /\ newest = Age[t] /\ Age[row'] = newest
    BY <1>1, <2>1, WritesAgain DEF stripe
  <2>5. \A f : Reached(f)' => f = e \/ Reached(f)
    BY <1>1, <2>1, <2>2, ReachedBefore DEF Reached
  <2>6. /\ t \in Statuses /\ Age[t] <= newest
        /\ e \in {"checkout", "updated"} => newest >= 2
        /\ e = "deleted" => newest = 3 /\ t = "canceled"
    <3>1. t \in Statuses /\ Age[t] <= newest
      BY <1>1 DEF SaleInv, Serves, Requests
    <3>2. /\ e = "updated" => t = "active"
          /\ e = "deleted" => t = "canceled"
          /\ e = "checkout" => t \in {"active", "canceled"}
      BY <1>1 DEF SaleInv, Serves, WritePoints, Payload
    <3>3. t = "active" => newest >= 2
      BY <2>4, <3>1, AgeFacts
    <3>4. t = "canceled" => newest = 3 /\ newest >= 2
      BY <2>4, <3>1, AgeFacts
    <3> QED  BY <3>1, <3>2, <3>3, <3>4
  <2>7. entitled' = "on" => newest >= 2
    BY <2>1, <2>4, <2>6, AgeFacts
  <2>8. Written' /\ ProcessedIsAnswered'
    BY <1>1, <2>1, <2>4, <2>5, <2>6, <2>7 DEF SaleInv, Written, ProcessedIsAnswered, stripe
  <2>9. Granted'
    <3> SUFFICES ASSUME ~overtaken' PROVE Granted'
      BY DEF Granted
    <3>1. newest = Age[t] /\ newest' = newest
      BY <2>4
    <3>2. newest = 2 => entitled' = "on"
      BY <2>1, <2>6, <3>1, AgeFacts DEF Statuses
    <3>3. \A j \in Slots : Renews(j, "canceled")' => newest >= 3
      <4>1. ASSUME NEW j \in Slots, Renews(j, "canceled")' PROVE Renews(j, "canceled")
        BY <2>2, <4>1 DEF Renews, At, Only
      <4> QED  BY <4>1, AgeFacts DEF SaleInv, Serves, Renews, At
    <3>4. Reached("deleted")' => newest = 3
      BY <2>4, <2>8 DEF Written
    <3>5. newest >= 3 => entitled' # "on"
      BY <2>1, <2>4, <3>1, AgeFacts
    <3> QED  BY <2>4, <3>1, <3>2, <3>3, <3>4, <3>5 DEF Granted
  <2> QED  BY <2>3, <2>8, <2>9 DEF SaleInv
<1> QED  BY <1>2, <1>3

\* Payment and cancellation at Stripe make the subscription older.
LEMMA StripeSale ==
  ASSUME kind = "customer", Inv, SaleInv, Pay \/ BuyerCancels, UNCHANGED kind
  PROVE  SaleInv'
<1>1. UNCHANGED <<offered, answered, request, receipt, grants, runs, slipped>>
  BY DEF Pay, BuyerCancels, Canceled, NoTables, NoBounds
<1>2. /\ Age[subscription] <= Age[subscription'] /\ Age[subscription] \in 0..3
      /\ Age[subscription'] \in 0..3
  BY AgeFacts DEF Pay, BuyerCancels, Canceled
<1>3. Sold'
  <2>1. CASE Pay
    BY <1>1, <2>1 DEF Pay, SaleInv, Sold, runs
  <2>2. CASE BuyerCancels
    BY <1>1, <2>2 DEF BuyerCancels, Canceled, SaleInv, Sold, runs
  <2> QED  BY <2>1, <2>2
<1>4. \A k \in Slots : Serves(k)'
  <2> SUFFICES ASSUME NEW k \in Slots PROVE Serves(k)'
    OBVIOUS
  <2>1. request[k].status \in Statuses /\ Age[request[k].status] \in 0..3
    BY AgeFacts DEF Requests
  <2> QED  BY <1>1, <1>2, <2>1 DEF SaleInv, Serves, grants
<1>5. Written' /\ ProcessedIsAnswered' /\ Granted'
  BY <1>1, <1>2 DEF SaleInv, Written, ProcessedIsAnswered, Granted, Reached, Renews, At, grants
<1> QED  BY <1>3, <1>4, <1>5 DEF SaleInv

LEMMA NextSale ==
  ASSUME Inv, SaleInv, [Next]_vars
  PROVE  SaleInv'
<1> SUFFICES ASSUME kind' = "customer" PROVE SaleInv'
  BY DEF SaleInv
<1>0. kind = "customer" /\ UNCHANGED kind /\ Inv'
  BY NextInv DEF Next, vars
<1>1. CASE UNCHANGED vars
  BY <1>0, <1>1 DEF vars, stripe, grants, runs, SaleInv, Sold, Serves, Written, ProcessedIsAnswered,
     Granted, Reached, Renews, At
<1>2. CASE Pay \/ BuyerCancels
  BY <1>0, <1>2, StripeSale
<1>3. ASSUME NEW k \in Slots, Step(k) PROVE SaleInv'
  <2>1. request[k].at \in SalePoints
    BY <1>0 DEF SaleInv, Serves
  <2>2. CASE Lookup(k) \/ Reset(k) \/ Fetch(k) \/ Upsert(k) \/ Delete(k) \/ Insert(k)
             \/ Find(k) \/ Close(k)
    BY <1>0, <2>2, LookupSale, FetchSale, UpsertSale, DeleteSale, InsertSale, FindSale, CloseSale
  <2> QED
    BY <1>3, <2>1, <2>2 DEF Step, SalePoints, At, Identify, Record, Certify, ReadRun, NoteCancel,
       Cancel, RereadRun, NoteRefund, Refund, SaveRefund, CancelNow, SaveCanceled, RefundNow,
       SavePayout, RecordPayout, InsertRun, SaveSession
<1>4. ASSUME NEW k \in Slots, Prepare(k) \/ Reconcile(k) PROVE SaleInv'
  BY <1>0, <1>4 DEF Prepare, Reconcile, SaleInv, Sold
<1>5. ASSUME NEW k \in Slots, Fail(k) PROVE SaleInv'
  BY <1>0, <1>5, FailSale
<1>6. ASSUME NEW k \in Slots, NEW e \in Events, Deliver(k, e) \/ DeliverAgain(k, e) PROVE SaleInv'
  <2>1. e \in sent /\ Arrive(k, e)
    BY <1>6 DEF Deliver, DeliverAgain
  <2> QED  BY <1>0, <2>1, ArriveSale
<1> QED  BY <1>1, <1>2, <1>3, <1>4, <1>5, <1>6 DEF Next, Reported

\* When every report of a customer's purchase has been answered, rows and entitlements are
\* those of the subscription, however reports overlapped, came late or failed, unless an older
\* status overtook a newer one or a repeated report failed to insert what it had
\* deleted (saveSoftwareSubscription of hercules-stripe-webhook).
THEOREM EntitlementIsPaid == Spec => []EntitledIsPaid
<1>1. Inv /\ SaleInv => EntitledIsPaid
  <2> SUFFICES ASSUME Inv, SaleInv, kind = "customer", Settled, ~overtaken, slipped = {}
               PROVE  row = subscription /\ (entitled = "on" <=> subscription = "active")
    BY DEF EntitledIsPaid
  <2>1. /\ row \in Statuses /\ subscription \in {"none", "active", "canceled"}
        /\ Age[row] = newest /\ newest \in 0..Age[subscription]
    BY DEF SaleInv, Written
  <2>2. \A k \in Slots, t \in Statuses : ~Renews(k, t)
    BY DEF Settled, Renews, At
  <2>3. \A e \in sent : Reached(e)
    BY DEF Settled, Reached
  <2>4. CASE subscription = "none"
    BY <2>1, <2>4, AgeFacts DEF SaleInv, Written, Statuses
  <2>5. CASE subscription = "active"
    <3>1. Reached("checkout") /\ Reached("updated")
      BY <2>3, <2>5 DEF SaleInv, Sold
    <3>2. newest = 2
      BY <2>1, <2>5, <3>1, AgeFacts DEF SaleInv, Written
    <3> QED  BY <2>1, <2>2, <2>5, <3>1, <3>2, AgeFacts DEF SaleInv, Granted, Statuses
  <2>6. CASE subscription = "canceled"
    <3>1. Reached("deleted")
      BY <2>3, <2>6 DEF SaleInv, Sold
    <3>2. newest = 3
      BY <3>1 DEF SaleInv, Written
    <3> QED  BY <2>1, <2>6, <3>1, <3>2, AgeFacts DEF SaleInv, Granted, Statuses
  <2> QED  BY <2>1, <2>4, <2>5, <2>6
<1>2. Init => Inv /\ SaleInv
  BY InitInv, InitSale
<1>3. Inv /\ SaleInv /\ [Next]_vars => Inv' /\ SaleInv'
  BY NextInv, NextSale
<1> QED  BY <1>1, <1>2, <1>3, PTL DEF Spec
=============================================================================
