---------------------------- MODULE FlightRecorder ----------------------------
(***************************************************************************)
(* The deployment flight recorder and the release admission gate in front  *)
(* of it (hercules-deploy/admission.mjs).  The recorder keeps two files:   *)
(* an append-only, hash-chained events.jsonl and a head.json that names    *)
(* the last event.  A release is admitted by checking that the two files   *)
(* agree and then appending one event.                                     *)
(*                                                                         *)
(* Appends run one at a time (the promise chain this.queue); the check of  *)
(* verify() does not enter that queue and reads the two files in two       *)
(* steps.  An event is identified by the job it admits, a deployment and   *)
(* one attempt of it; head is the number of the last event, 0 while        *)
(* head.json is missing.  The chain is append-only, so the number of the   *)
(* last event determines its hash.                                         *)
(***************************************************************************)
EXTENDS Integers, Sequences, FiniteSets

CONSTANTS
  Clients,   \* the asynchronous activities of the process that may call admit()
  Jobs       \* what may be admitted

VARIABLES
  events,    \* events.jsonl: the jobs admitted, in order
  head,      \* head.json: the sequence number of the last event
  pass       \* for each client, where its admit() call stands

recorder == <<events, head, pass>>

\* Where a call of admit() stands: reading the events, comparing them with
\* the head, waiting for the append queue, between the two writes of an append,
\* or settled and not yet seen by the caller.
Stages == {"none", "asked", "checking", "waiting", "written", "granted", "refused"}

NoPass == [at |-> "none"]

Passes == {NoPass}
          \cup [at : Stages \ {"none", "checking"}, job : Jobs]
          \cup [at : {"checking"}, job : Jobs, seen : Nat]

\* The caller c is at stage s of its call.
PassAt(c, s) == pass[c].at = s

\* The call of c goes on to stage s.
PassTo(c, s) == pass' = [pass EXCEPT ![c] = [at |-> s, job |-> pass[c].job]]

RecorderInit ==
  /\ events = << >>
  /\ head = 0
  /\ pass = [c \in Clients |-> NoPass]

\* admit(deployment): the arguments are valid and the deployment is running.
Admit(c, job) ==
  /\ PassAt(c, "none")
  /\ pass' = [pass EXCEPT ![c] = [at |-> "asked", job |-> job]]
  /\ UNCHANGED <<events, head>>

\* verify() reads the events ...
VerifyEvents(c) ==
  /\ PassAt(c, "asked")
  /\ pass' = [pass EXCEPT ![c] =
                [at |-> "checking", job |-> pass[c].job, seen |-> Len(events)]]
  /\ UNCHANGED <<events, head>>

\* A bug the properties catch: the head is not compared.
VerifyHeadIgnored(c) ==
  /\ PassAt(c, "checking")
  /\ PassTo(c, "waiting")
  /\ UNCHANGED <<events, head>>

\* ... and, after an await, the head, which must name the last event it read.
VerifyHead(c) ==
  /\ PassAt(c, "checking")
  /\ PassTo(c, IF head = pass[c].seen THEN "waiting" ELSE "refused")
  /\ UNCHANGED <<events, head>>

\* A bug the properties catch: the append does not go through the queue.
AppendEventUnqueued(c) ==
  /\ PassAt(c, "waiting")
  /\ PassTo(c, "written")
  /\ events' = Append(events, pass[c].job)
  /\ UNCHANGED head

\* append() of the client at the front of the queue: the chain it reads cannot
\* change until its own appendFile, which adds one line.
AppendEvent(c) ==
  /\ PassAt(c, "waiting")
  /\ \A d \in Clients : ~PassAt(d, "written")
  /\ PassTo(c, "written")
  /\ events' = Append(events, pass[c].job)
  /\ UNCHANGED head

\* The head moves to the event just appended (temporary file and rename).
AppendHead(c) ==
  /\ PassAt(c, "written")
  /\ PassTo(c, "granted")
  /\ head' = Len(events)
  /\ UNCHANGED events

\* A file operation fails: admit() throws, an append leaves the queue to the
\* next caller, and what was written stays.
AdmitFails(c) ==
  /\ pass[c].at \in {"asked", "checking", "waiting", "written"}
  /\ PassAt(c, "waiting") => \A d \in Clients : ~PassAt(d, "written")
  /\ PassTo(c, "refused")
  /\ UNCHANGED <<events, head>>

\* The caller's await of admit() returns.
Settle(c) ==
  /\ pass[c].at \in {"granted", "refused"}
  /\ pass' = [pass EXCEPT ![c] = NoPass]
  /\ UNCHANGED <<events, head>>

RecorderStep(c) ==
  VerifyEvents(c) \/ VerifyHead(c) \/ AppendEvent(c) \/ AppendHead(c)

-----------------------------------------------------------------------------

RecorderTypeOK ==
  /\ events \in Seq(Jobs)
  /\ head \in Nat
  /\ pass \in [Clients -> Passes]

\* The head never names an event that is not in the chain, and it lags behind
\* only while an append is between its two writes: when no write has failed and
\* the process has not been stopped, the files agree whenever nobody writes.
HeadFollowsChain ==
  IF \E c \in Clients : PassAt(c, "written")
  THEN head = Len(events) - 1
  ELSE head = Len(events)

\* Nobody is past the comparison of the two files, or will pass it.
NobodyInside ==
  \A c \in Clients :
    \/ pass[c].at \in {"none", "asked", "refused"}
    \/ PassAt(c, "checking") /\ pass[c].seen = Len(events)

\* A write was lost: the chain is longer than the head says and nobody is left
\* who will write the head.
Sealed == head # Len(events) /\ NobodyInside

\* admit() fails closed: from the moment a lost write leaves the two files
\* apart nothing is admitted any more, across restarts, until the files are
\* repaired by hand (verify() throws "flight head checkpoint mismatch").
FailsClosed ==
  [][Sealed => Sealed' /\ events' = events /\ head' = head]_recorder

\* A chain that nothing damaged is never reported as damaged: without a failed
\* write or a crash no release is refused.
NoFalseAlarm == \A c \in Clients : ~PassAt(c, "refused")
=============================================================================
