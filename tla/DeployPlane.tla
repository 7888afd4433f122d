------------------------------ MODULE DeployPlane ------------------------------
(***************************************************************************)
(* The Hercules deploy plane: the persistent job store (store.mjs), the    *)
(* worker that runs the jobs (worker.mjs) and the HTTP operations that     *)
(* reach them (control-api.mjs), on top of the flight recorder.            *)
(*                                                                         *)
(* A runner is one asynchronous activity of the process: the polling tick  *)
(* or one HTTP request in progress.  Every await is a point where another  *)
(* runner may go on.  The store's per-deployment lock makes one transition *)
(* (read state.json, check, write, rename) a single step.  Adapters are    *)
(* the providers' business: a call may succeed, fail, or fail after it     *)
(* changed the target.                                                     *)
(***************************************************************************)
EXTENDS FlightRecorder

CONSTANTS
  Ids,          \* deployment ids
  Runners,      \* concurrent activities of the process
  Tick,         \* the one of them that is the worker's polling loop
  MaxAttempts,  \* bound: a deployment is retried while it had fewer attempts
  MaxCrashes,   \* bound: how often the process dies
  IoFails       \* whether file operations may fail

ASSUME DeployAssumption ==
  /\ Clients = Runners
  /\ Tick \in Runners
  /\ MaxAttempts \in Nat \ {0}
  /\ Jobs = Ids \X (1..MaxAttempts)
  /\ MaxCrashes \in Nat
  /\ IoFails \in BOOLEAN

VARIABLES
  status,    \* what is on disk for each id: nothing, an unfinished creation, a state
  attempts,  \* state.attempts of each id
  newer,     \* of each id those that were created after it, by createdAt
  runner,    \* what each runner is doing
  deployed,  \* history: the jobs whose adapter.deploy() was called
  crashes    \* history: how often the process died

vars == <<events, head, pass, status, attempts, newer, runner, deployed,
          crashes>>

\* Before state.json is complete: no directory, a directory with request.json,
\* a state.json that is created and not yet written.
Unborn == {"none", "made", "torn"}

Transitions ==
  [queued       |-> {"running"},
   running      |-> {"verifying", "failed"},
   verifying    |-> {"verified", "failed"},
   verified     |-> {"rolling_back"},
   rolling_back |-> {"rolled_back", "failed"},
   failed       |-> {"queued"},
   rolled_back  |-> {}]

States == DOMAIN Transitions

Steps == {"create", "write", "picked", "claim", "claimed", "admit", "admitted",
          "deployed", "verifying", "verified", "failing", "failed", "rollback",
          "rolling", "rolled", "unrolled"}

Idle == [at |-> "idle"]

RunnerStates == {Idle} \cup [at : Steps, id : Ids]

At(r, s) == runner[r].at = s

Goto(r, s) == runner' = [runner EXCEPT ![r] = [at |-> s, id |-> runner[r].id]]

Start(r, s, id) ==
  /\ At(r, "idle")
  /\ runner' = [runner EXCEPT ![r] = [at |-> s, id |-> id]]

Stop(r) == runner' = [runner EXCEPT ![r] = Idle]

\* The attempt of its deployment that runner r works on.
Job(r) == <<runner[r].id, attempts[runner[r].id]>>

Allowed(id, next) == status[id] \in States /\ next \in Transitions[status[id]]

\* transition(id, next) under the lock of id: the attempt counts when it starts.
Move(id, next) ==
  /\ status' = [status EXCEPT ![id] = next]
  /\ attempts' = [attempts EXCEPT ![id] = IF next = "running" THEN @ + 1 ELSE @]

\* A bug the properties catch: the transition is written without the check.
TransitionUnchecked(r, next, s, t) ==
  Move(runner[r].id, next) /\ (IF s = "idle" THEN Stop(r) ELSE Goto(r, s))

\* Runner r asks for the transition of its deployment to next: it continues at
\* step s when the table allows it and at step t when transition() throws.
Transition(r, next, s, t) ==
  LET id == runner[r].id IN
  IF Allowed(id, next)
  THEN Move(id, next) /\ (IF s = "idle" THEN Stop(r) ELSE Goto(r, s))
  ELSE UNCHANGED <<status, attempts>> /\ (IF t = "idle" THEN Stop(r) ELSE Goto(r, t))

NoRecord == UNCHANGED recorder
NoStore == UNCHANGED <<status, attempts, newer>>

Init ==
  /\ RecorderInit
  /\ status = [id \in Ids |-> "none"]
  /\ attempts = [id \in Ids |-> 0]
  /\ newer = [id \in Ids |-> {}]
  /\ runner = [r \in Runners |-> Idle]
  /\ deployed = {}
  /\ crashes = 0

-----------------------------------------------------------------------------
\* create()

\* POST /v1/deployments: mkdir without "recursive" is the test for a new id, and
\* a second request for the same id is refused there, before its catch block
\* would remove the directory.
Create(r, id) ==
  /\ r # Tick
  /\ status[id] = "none"
  /\ Start(r, "create", id)
  /\ status' = [status EXCEPT ![id] = "made"]
  /\ newer' = [x \in Ids |-> IF x # id /\ status[x] # "none" THEN newer[x] \cup {id} ELSE newer[x]]
  /\ NoRecord /\ UNCHANGED <<attempts, deployed>>

\* state.json is opened with "wx": it must not exist.
OpenState(r) ==
  /\ At(r, "create")
  /\ status[runner[r].id] = "made"
  /\ Goto(r, "write")
  /\ status' = [status EXCEPT ![runner[r].id] = "torn"]
  /\ NoRecord /\ UNCHANGED <<attempts, newer, deployed>>

\* Its content arrives: the deployment is queued.
WriteState(r) ==
  /\ At(r, "write")
  /\ Stop(r)
  /\ status' = [status EXCEPT ![runner[r].id] = "queued"]
  /\ NoRecord /\ UNCHANGED <<attempts, newer, deployed>>

\* A write of create() fails, or the file is there already: the directory goes.
CreateFails(r) ==
  /\ \/ runner[r].at \in {"create", "write"} /\ IoFails
     \/ At(r, "create") /\ status[runner[r].id] # "made"
  /\ Stop(r)
  /\ status' = [status EXCEPT ![runner[r].id] = "none"]
  /\ attempts' = [attempts EXCEPT ![runner[r].id] = 0]
  /\ newer' = [x \in Ids |-> IF x = runner[r].id THEN {} ELSE newer[x] \ {runner[r].id}]
  /\ NoRecord /\ UNCHANGED deployed

-----------------------------------------------------------------------------
\* process()

\* list() parses every state.json, so one that is not complete makes it throw.
Readable == \A id \in Ids : status[id] # "torn"

\* The newest queued deployment: list({status: "queued", limit: 1}).
NewestQueued ==
  {id \in Ids : status[id] = "queued" /\ \A x \in newer[id] : status[x] # "queued"}

\* runOnce() of the tick, or of POST /v1/worker/run-once.
RunOnce(r) ==
  /\ Readable
  /\ \E id \in NewestQueued : Start(r, "picked", id)
  /\ NoRecord /\ NoStore /\ UNCHANGED deployed

\* process() reads the deployment again and wants it queued.
CheckQueued(r) ==
  /\ At(r, "picked")
  /\ IF status[runner[r].id] = "queued" THEN Goto(r, "claim") ELSE Stop(r)
  /\ NoRecord /\ NoStore /\ UNCHANGED deployed

\* The transition to running: of two runners that read "queued" one throws.
Claim(r) ==
  /\ At(r, "claim")
  /\ Transition(r, "running", "claimed", "idle")
  /\ NoRecord /\ UNCHANGED <<newer, deployed>>

\* The deployment is read once more; a missing adapter or another status throws.
Load(r) ==
  /\ At(r, "claimed")
  /\ \/ /\ status[runner[r].id] = "running"
        /\ Goto(r, "admit")
        /\ Admit(r, Job(r))
     \/ Goto(r, "failing") /\ NoRecord
  /\ NoStore /\ UNCHANGED deployed

\* A bug the properties catch: a refusal of the gate is not an error.
AdmittedAnyway(r) ==
  /\ At(r, "admit")
  /\ Settle(r)
  /\ Goto(r, "admitted")
  /\ NoStore /\ UNCHANGED deployed

\* admit() returned or threw.
Admitted(r) ==
  /\ At(r, "admit")
  /\ Settle(r)
  /\ Goto(r, IF PassAt(r, "granted") THEN "admitted" ELSE "failing")
  /\ NoStore /\ UNCHANGED deployed

\* adapter.deploy() changes the target and answers, or fails on either side of
\* the change.
Deploy(r) ==
  /\ At(r, "admitted")
  /\ \/ Goto(r, "deployed") /\ deployed' = deployed \cup {Job(r)}
     \/ Goto(r, "failing") /\ deployed' \in {deployed, deployed \cup {Job(r)}}
  /\ NoRecord /\ NoStore

MarkVerifying(r) ==
  /\ At(r, "deployed")
  /\ Transition(r, "verifying", "verifying", "failing")
  /\ NoRecord /\ UNCHANGED <<newer, deployed>>

\* adapter.verify()
Verify(r) ==
  /\ At(r, "verifying")
  /\ \/ Goto(r, "verified")
     \/ Goto(r, "failing")
  /\ NoRecord /\ NoStore /\ UNCHANGED deployed

MarkVerified(r) ==
  /\ At(r, "verified")
  /\ Transition(r, "verified", "idle", "failing")
  /\ NoRecord /\ UNCHANGED <<newer, deployed>>

\* A bug the properties catch: the catch block forgets a failed verification.
CatchRunningOnly(r) ==
  /\ At(r, "failing")
  /\ IF status[runner[r].id] = "running" THEN Goto(r, "failed") ELSE Stop(r)
  /\ NoRecord /\ NoStore /\ UNCHANGED deployed

\* The catch block reads the status and marks the job failed only from running
\* or verifying.
Catch(r) ==
  /\ At(r, "failing")
  /\ IF status[runner[r].id] \in {"running", "verifying"}
     THEN Goto(r, "failed")
     ELSE Stop(r)
  /\ NoRecord /\ NoStore /\ UNCHANGED deployed

MarkFailed(r) ==
  /\ At(r, "failed")
  /\ Transition(r, "failed", "idle", "idle")
  /\ NoRecord /\ UNCHANGED <<newer, deployed>>

-----------------------------------------------------------------------------
\* rollback() and retry()

\* POST /v1/deployments/:id/rollback reads the status ...
Rollback(r, id) ==
  /\ r # Tick
  /\ status[id] = "verified"
  /\ Start(r, "rollback", id)
  /\ NoRecord /\ NoStore /\ UNCHANGED deployed

\* ... and then makes the transition.
MarkRollingBack(r) ==
  /\ At(r, "rollback")
  /\ Transition(r, "rolling_back", "rolling", "idle")
  /\ NoRecord /\ UNCHANGED <<newer, deployed>>

\* adapter.rollback()
AdapterRollback(r) ==
  /\ At(r, "rolling")
  /\ \/ Goto(r, "rolled")
     \/ Goto(r, "unrolled")
  /\ NoRecord /\ NoStore /\ UNCHANGED deployed

MarkRolledBack(r) ==
  /\ At(r, "rolled")
  /\ Transition(r, "rolled_back", "idle", "unrolled")
  /\ NoRecord /\ UNCHANGED <<newer, deployed>>

MarkUnrolled(r) ==
  /\ At(r, "unrolled")
  /\ Transition(r, "failed", "idle", "idle")
  /\ NoRecord /\ UNCHANGED <<newer, deployed>>

\* POST /v1/deployments/:id/retry: one transition, made while no await is open.
Retry(r, id) ==
  /\ r # Tick /\ At(r, "idle")
  /\ attempts[id] < MaxAttempts
  /\ Allowed(id, "queued")
  /\ Move(id, "queued")
  /\ NoRecord /\ UNCHANGED <<newer, runner, deployed>>

-----------------------------------------------------------------------------
\* Failures of the machine

\* Where a runner goes when the file operation of its step fails.  The read
\* after the transition to running is not inside the try block.
AfterIoError ==
  [picked   |-> "idle",    claim    |-> "idle",    claimed |-> "idle",
   deployed |-> "failing", verified |-> "failing", failing |-> "idle",
   failed   |-> "idle",    rollback |-> "idle",    rolled  |-> "unrolled",
   unrolled |-> "idle"]

\* A read or a write of the job store fails; the rename did not happen.
StoreFails(r) ==
  /\ IoFails
  /\ runner[r].at \in DOMAIN AfterIoError
  /\ LET s == AfterIoError[runner[r].at]
     IN  IF s = "idle" THEN Stop(r) ELSE Goto(r, s)
  /\ NoRecord /\ NoStore /\ UNCHANGED deployed

\* A read or a write of the flight recorder fails.
RecorderFails(r) ==
  /\ IoFails
  /\ AdmitFails(r)
  /\ NoStore /\ UNCHANGED <<runner, deployed>>

\* The process dies and is started again: every activity is gone, the files stay.
Crash ==
  /\ crashes < MaxCrashes
  /\ crashes' = crashes + 1
  /\ runner' = [r \in Runners |-> Idle]
  /\ pass' = [r \in Runners |-> NoPass]
  /\ UNCHANGED <<events, head, status, attempts, newer, deployed>>

Advance(r) ==
  \/ OpenState(r) \/ WriteState(r) \/ CreateFails(r)
  \/ CheckQueued(r) \/ Claim(r) \/ Load(r) \/ Admitted(r)
  \/ Deploy(r) \/ MarkVerifying(r) \/ Verify(r) \/ MarkVerified(r)
  \/ Catch(r) \/ MarkFailed(r)
  \/ MarkRollingBack(r) \/ AdapterRollback(r) \/ MarkRolledBack(r) \/ MarkUnrolled(r)
  \/ RecorderStep(r) /\ UNCHANGED <<status, attempts, newer, runner, deployed>>

Step(r) ==
  /\ Advance(r) \/ RunOnce(r) \/ StoreFails(r) \/ RecorderFails(r)
  /\ UNCHANGED crashes

Request(r, id) ==
  /\ Create(r, id) \/ Rollback(r, id) \/ Retry(r, id)
  /\ UNCHANGED crashes

Next ==
  \/ \E r \in Runners : Step(r)
  \/ \E r \in Runners, id \in Ids : Request(r, id)
  \/ Crash

Spec == Init /\ [][Next]_vars

\* The event loop runs every callback that is due, file operations and adapter
\* calls settle (fetch gives up by itself), and the timer fires again and
\* again: the tick's runOnce is taken when it stays possible.
Fairness ==
  /\ \A r \in Runners : WF_vars(Advance(r) /\ UNCHANGED crashes)
  /\ WF_vars(RunOnce(Tick) /\ UNCHANGED crashes)

FairSpec == Spec /\ Fairness

-----------------------------------------------------------------------------

TypeOK ==
  /\ RecorderTypeOK
  /\ status \in [Ids -> Unborn \cup States]
  /\ attempts \in [Ids -> 0..MaxAttempts]
  /\ newer \in [Ids -> SUBSET Ids]
  /\ runner \in [Runners -> RunnerStates]
  /\ deployed \subseteq Jobs
  /\ crashes \in 0..MaxCrashes

\* Nothing failed below the program.
Healthy == ~IoFails /\ crashes = 0

\* The status a deployment must have while a runner is at each step of its own.
Holding ==
  [create    |-> {"made"},               write    |-> {"torn"},
   claimed   |-> {"running"},            admit    |-> {"running"},
   admitted  |-> {"running"},            deployed |-> {"running"},
   verifying |-> {"verifying"},          verified |-> {"verifying"},
   failing   |-> {"running", "verifying"}, failed |-> {"running", "verifying"},
   rolling   |-> {"rolling_back"},       rolled   |-> {"rolling_back"},
   unrolled  |-> {"rolling_back"}]

Holds(r) == runner[r].at \in DOMAIN Holding

\* However the tick, run-once requests, retries and rollbacks interleave, a
\* deployment is worked on by one runner at a time, and its status on disk is
\* the one that runner's step expects.
OneRunnerPerJob ==
  \A r \in Runners : Holds(r) =>
    /\ status[runner[r].id] \in Holding[runner[r].at]
    /\ \A q \in Runners \ {r} : Holds(q) => runner[q].id # runner[r].id

\* A target is changed only for an attempt the flight recorder has admitted, and once,
\* whatever is retried or created again, and a deployment is verified only if this very
\* attempt was deployed.
AdmittedBeforeDeployed ==
  /\ deployed \subseteq {events[i] : i \in 1..Len(events)}
  /\ \A i, j \in 1..Len(events) : events[i] = events[j] => i = j
  /\ \A id \in Ids : status[id] \in {"verifying", "verified", "rolling_back", "rolled_back"} =>
       <<id, attempts[id]>> \in deployed

\* Without failures below the program the files of the recorder agree.
HeadIsCurrent == Healthy => HeadFollowsChain

\* A job that is queued or under way reaches an outcome: later jobs, retries and
\* rollbacks go first but, being finitely many, do not hold it up for ever.
EveryJobSettles ==
  \A id \in Ids :
    status[id] \in {"queued", "running", "verifying"} ~> status[id] \in {"verified", "failed"}
=============================================================================
