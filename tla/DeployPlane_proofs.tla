---------------------------- MODULE DeployPlane_proofs ----------------------------
(***************************************************************************)
(* The deploy plane for every set of deployments, runners, attempts and    *)
(* crashes: one runner per job, one admission before each deployment, and  *)
(* a flight recorder that fails closed and otherwise keeps its files in    *)
(* agreement.                                                              *)
(***************************************************************************)
EXTENDS DeployPlane, SequenceTheorems, TLAPS

\* The admissions in the chain.
Recorded == {events[i] : i \in 1..Len(events)}

\* Before it is queued a deployment has no attempt, while it waits it has one left,
\* and from running on it has had one.
AttemptsFit ==
  \A id \in Ids :
    /\ status[id] \in Unborn => attempts[id] = 0
    /\ status[id] = "queued" => attempts[id] < MaxAttempts
    /\ status[id] = "running" => attempts[id] # 0

\* A runner asks the gate for the job it works on, and for nothing otherwise.
AsksForItsJob ==
  \A r \in Runners :
    /\ pass[r].at # "none" => At(r, "admit") /\ pass[r].job = Job(r)
    /\ At(r, "admitted") => Job(r) \in Recorded
    /\ runner[r].at \in {"deployed", "verifying", "verified"} => Job(r) \in deployed
    /\ pass[r].at \in {"written", "granted"} => pass[r].job \in Recorded

\* No attempt is in the chain before its turn has come: the running one only
\* after its runner has appended it.
NotYetRecorded ==
  /\ \A e \in Recorded : e[2] <= attempts[e[1]]
  /\ \A r \in Runners :
       /\ At(r, "claimed") => Job(r) \notin Recorded
       /\ pass[r].at \in {"asked", "checking", "waiting"} => Job(r) \notin Recorded

\* With no failure and no crash, one append at most is between its two writes, and
\* the head tells.
OneWriter ==
  Healthy =>
    /\ HeadFollowsChain
    /\ \A c, d \in Clients : PassAt(c, "written") /\ PassAt(d, "written") => c = d

Inv ==
  TypeOK /\ OneRunnerPerJob /\ AttemptsFit /\ AsksForItsJob /\ NotYetRecorded
  /\ AdmittedBeforeDeployed /\ OneWriter

USE DeployAssumption

-----------------------------------------------------------------------------

LEMMA StatesAre ==
  States = {"queued", "running", "verifying", "verified", "rolling_back", "failed", "rolled_back"}
  BY DEF Transitions, States

LEMMA TransitionsAre ==
  ASSUME NEW id \in Ids
  PROVE  /\ Allowed(id, "queued") => status[id] = "failed"
         /\ Allowed(id, "running") => status[id] = "queued"
         /\ Allowed(id, "verifying") => status[id] = "running"
         /\ Allowed(id, "verified") => status[id] = "verifying"
         /\ Allowed(id, "rolling_back") => status[id] = "verified"
         /\ Allowed(id, "rolled_back") => status[id] = "rolling_back"
         /\ Allowed(id, "failed") => status[id] \in {"running", "verifying", "rolling_back"}
  BY DEF Allowed, Transitions, States

\* The steps at which a runner holds its deployment, and the status it has then.
LEMMA HoldingIs ==
  /\ DOMAIN Holding = {"create", "write", "claimed", "admit", "admitted", "deployed", "verifying",
                       "verified", "failing", "failed", "rolling", "rolled", "unrolled"}
  /\ Holding["create"] = {"made"} /\ Holding["write"] = {"torn"}
  /\ \A s \in {"claimed", "admit", "admitted", "deployed"} : Holding[s] = {"running"}
  /\ \A s \in {"verifying", "verified"} : Holding[s] = {"verifying"}
  /\ \A s \in {"failing", "failed"} : Holding[s] = {"running", "verifying"}
  /\ \A s \in {"rolling", "rolled", "unrolled"} : Holding[s] = {"rolling_back"}
  BY DEF Holding

LEMMA InitInv == Init => Inv
<1> SUFFICES ASSUME Init PROVE Inv
  OBVIOUS
<1> USE DEF Init, RecorderInit
<1>1. TypeOK
  BY DEF TypeOK, RecorderTypeOK, Unborn, RunnerStates, Passes, NoPass, Idle
<1>2. OneRunnerPerJob /\ AttemptsFit
  BY HoldingIs DEF OneRunnerPerJob, Holds, AttemptsFit, Idle
<1>3. AsksForItsJob /\ NotYetRecorded /\ AdmittedBeforeDeployed
  BY DEF AsksForItsJob, NotYetRecorded, AdmittedBeforeDeployed, Recorded, At, PassAt, Idle, NoPass
<1>4. OneWriter
  BY DEF OneWriter, HeadFollowsChain, PassAt, NoPass
<1> QED  BY <1>1, <1>2, <1>3, <1>4 DEF Inv

-----------------------------------------------------------------------------
\* A runner that goes on without touching a file: to a step at which it holds nothing, or
\* from one at which it holds its deployment to another that fits the status.
Walks(r, w) ==
  /\ UNCHANGED <<recorder, status, attempts, newer, deployed, crashes>>
  /\ w \in RunnerStates /\ runner' = [runner EXCEPT ![r] = w]
  /\ w.at \notin {"claimed", "admit", "admitted"}
  /\ w.at \in DOMAIN Holding =>
       Holds(r) /\ w.id = runner[r].id /\ status[w.id] \in Holding[w.at]
  /\ w.at \in {"deployed", "verifying", "verified"} => <<w.id, attempts[w.id]>> \in deployed

LEMMA WalksInv ==
  ASSUME Inv, NEW r \in Runners, NEW w, Walks(r, w), PassAt(r, "none")
  PROVE  Inv'
<1> USE DEF Inv, Walks
<1>1. TypeOK'
  BY DEF TypeOK, RecorderTypeOK, recorder
<1>2. OneRunnerPerJob'
  BY DEF OneRunnerPerJob, Holds, TypeOK
<1>3. AttemptsFit'
  BY DEF AttemptsFit
<1>4. AsksForItsJob' /\ NotYetRecorded'
  <2>1. \A q \in Runners : runner'[q] = IF q = r THEN w ELSE runner[q]
    BY DEF TypeOK
  <2>2. \A q \in Runners \ {r} : Job(q)' = Job(q)
    BY <2>1 DEF Job
  <2>3. Recorded' = Recorded /\ pass' = pass
    BY DEF Recorded, recorder
  <2>4. AsksForItsJob'
    BY <2>1, <2>2, <2>3 DEF AsksForItsJob, At, PassAt, Job
  <2>5. NotYetRecorded'
    BY <2>1, <2>2, <2>3 DEF NotYetRecorded, At, PassAt
  <2> QED  BY <2>4, <2>5
<1>5. AdmittedBeforeDeployed' /\ OneWriter'
  BY DEF AdmittedBeforeDeployed, OneWriter, HeadFollowsChain, Healthy, PassAt, recorder
<1> QED  BY <1>1, <1>2, <1>3, <1>4, <1>5

-----------------------------------------------------------------------------
\* Runner r, alone with deployment id, gives it the status next and goes on with w.
Shifts(r, id, next, w) ==
  /\ UNCHANGED <<recorder, attempts, deployed, crashes>>
  /\ newer' \in [Ids -> SUBSET Ids]
  /\ next \in (Unborn \cup States) \ {"running"} /\ status' = [status EXCEPT ![id] = next]
  /\ w \in RunnerStates /\ runner' = [runner EXCEPT ![r] = w]
  /\ \A q \in Runners \ {r} : Holds(q) => runner[q].id # id
  /\ w.at \notin {"claimed", "admit", "admitted", "deployed", "verified"}
  /\ w.at \in DOMAIN Holding => w.id = id /\ next \in Holding[w.at]
  /\ next \in Unborn => attempts[id] = 0
  /\ next = "queued" => attempts[id] < MaxAttempts
  /\ w.at = "verifying" \/ next \in {"verifying", "verified", "rolling_back", "rolled_back"} =>
       <<id, attempts[id]>> \in deployed

LEMMA ShiftsInv ==
  ASSUME Inv, NEW r \in Runners, NEW id \in Ids, NEW next, NEW w, Shifts(r, id, next, w),
         PassAt(r, "none")
  PROVE  Inv'
<1> USE DEF Inv, Shifts
<1>0. \A q \in Runners : runner'[q] = IF q = r THEN w ELSE runner[q]
  BY DEF TypeOK
<1>1. TypeOK'
  BY DEF TypeOK, RecorderTypeOK, recorder
<1>2. OneRunnerPerJob'
  <2> SUFFICES ASSUME NEW p \in Runners, Holds(p)'
               PROVE  /\ status'[runner'[p].id] \in Holding[runner'[p].at]
                      /\ \A q \in Runners \ {p} : Holds(q)' => runner'[q].id # runner'[p].id
    BY DEF OneRunnerPerJob
  <2>1. CASE p = r
    BY <1>0, <2>1 DEF Holds, TypeOK
  <2>2. CASE p # r
    BY <1>0, <2>2 DEF Holds, OneRunnerPerJob, TypeOK
  <2> QED  BY <2>1, <2>2
<1>3. AttemptsFit'
  BY DEF AttemptsFit, TypeOK
<1>4. Recorded' = Recorded /\ pass' = pass
  BY DEF Recorded, recorder
<1>5. \A q \in Runners \ {r} : Job(q)' = Job(q)
  BY <1>0 DEF Job
<1>6. AsksForItsJob'
  <2>1. w.at = "verifying" => Job(r)' \in deployed
    BY <1>0, HoldingIs DEF Job
  <2> QED
    BY <1>0, <1>4, <1>5, <2>1 DEF AsksForItsJob, At, PassAt
<1>7. NotYetRecorded'
  BY <1>0, <1>4, <1>5 DEF NotYetRecorded, At, PassAt
<1>8. AdmittedBeforeDeployed'
  <2>1. events' = events /\ deployed' = deployed /\ attempts' = attempts
    BY DEF recorder
  <2>2. \A x \in Ids : status'[x] = IF x = id THEN next ELSE status[x]
    BY DEF TypeOK
  <2> QED
    BY <2>1, <2>2 DEF AdmittedBeforeDeployed
<1>9. OneWriter'
  BY DEF OneWriter, HeadFollowsChain, Healthy, PassAt, recorder
<1> QED  BY <1>1, <1>2, <1>3, <1>6, <1>7, <1>8, <1>9

\* A transition to anything but running changes the status only.
LEMMA MoveKeepsAttempts ==
  ASSUME TypeOK, NEW id \in Ids, NEW next, next # "running", Move(id, next)
  PROVE  attempts' = attempts /\ status' = [status EXCEPT ![id] = next]
  BY DEF Move, TypeOK

\* The transition to running counts the attempt that nothing has recorded yet.
LEMMA ClaimInv ==
  ASSUME Inv, NEW r \in Runners, Claim(r), Allowed(runner[r].id, "running"), UNCHANGED crashes
  PROVE  Inv'
<1> DEFINE id == runner[r].id
<1> USE DEF Inv
<1>0. /\ At(r, "claim") /\ id \in Ids /\ status[id] = "queued"
      /\ status' = [status EXCEPT ![id] = "running"]
      /\ attempts' = [attempts EXCEPT ![id] = @ + 1]
      /\ runner' = [runner EXCEPT ![r] = [at |-> "claimed", id |-> id]]
      /\ UNCHANGED <<recorder, newer, deployed, crashes>>
  <2>1. id \in Ids
    BY DEF Claim, At, TypeOK, RunnerStates, Idle
  <2> QED
    BY <2>1, TransitionsAre DEF Claim, Transition, Move, Goto, NoRecord
<1>1. TypeOK'
  BY <1>0, StatesAre DEF TypeOK, RecorderTypeOK, recorder, RunnerStates, Steps, AttemptsFit
<1>2. \A q \in Runners : runner'[q] = IF q = r THEN [at |-> "claimed", id |-> id] ELSE runner[q]
  BY <1>0 DEF TypeOK
<1>3. \A q \in Runners \ {r} : Holds(q) => runner[q].id # id
  BY <1>0, HoldingIs DEF OneRunnerPerJob, Holds
<1>4. OneRunnerPerJob'
  BY <1>0, <1>2, <1>3, HoldingIs DEF OneRunnerPerJob, Holds, TypeOK
<1>5. AttemptsFit'
  BY <1>0 DEF AttemptsFit, TypeOK, Unborn
<1>6. Recorded' = Recorded /\ pass' = pass /\ pass[r].at = "none"
  BY <1>0 DEF Recorded, recorder, AsksForItsJob, At
<1>7. \A q \in Runners \ {r} : Holds(q) => Job(q)' = Job(q)
  BY <1>0, <1>2, <1>3 DEF Job, TypeOK
<1>8. AsksForItsJob'
  BY <1>0, <1>2, <1>6, <1>7, HoldingIs DEF AsksForItsJob, At, PassAt, Holds
<1>9. <<id, attempts[id] + 1>> \notin Recorded
  BY <1>0 DEF NotYetRecorded, TypeOK
<1>10. NotYetRecorded'
  <2>1. \A e \in Recorded : e \in Ids \X (1..MaxAttempts)
    BY DEF Recorded, TypeOK, RecorderTypeOK
  <2>2. \A e \in Recorded' : e[2] <= attempts'[e[1]]
    BY <1>0, <1>6, <2>1 DEF NotYetRecorded, TypeOK
  <2>3. Job(r)' = <<id, attempts[id] + 1>>
    BY <1>0, <1>2 DEF Job, TypeOK
  <2> QED
    BY <1>2, <1>6, <1>7, <1>9, <2>2, <2>3, HoldingIs DEF NotYetRecorded, AsksForItsJob, At, Holds
<1>11. AdmittedBeforeDeployed'
  BY <1>0 DEF AdmittedBeforeDeployed, recorder, TypeOK
<1>12. OneWriter'
  BY <1>0 DEF OneWriter, HeadFollowsChain, Healthy, PassAt, recorder
<1> QED  BY <1>1, <1>4, <1>5, <1>8, <1>10, <1>11, <1>12

-----------------------------------------------------------------------------
\* The steps around the gate and the provider: the statuses stay as they are, and the
\* runner keeps its deployment, whose status it still expects.
Stays(r, s) ==
  /\ UNCHANGED <<status, attempts, newer, crashes>>
  /\ runner' = [runner EXCEPT ![r] = [at |-> s, id |-> runner[r].id]]
  /\ s \in Steps /\ s \in DOMAIN Holding /\ Holding[runner[r].at] \subseteq Holding[s]

\* What such a step keeps.
Kept(r, s) ==
  /\ OneRunnerPerJob' /\ AttemptsFit'
  /\ \A q \in Runners : Job(q)' = Job(q)
  /\ \A q \in Runners : runner'[q] = IF q = r THEN [at |-> s, id |-> runner[r].id] ELSE runner[q]
  /\ runner' \in [Runners -> RunnerStates]
  /\ runner[r].id \in Ids

LEMMA StaysInv ==
  ASSUME Inv, NEW r \in Runners, NEW s, Stays(r, s), Holds(r)
  PROVE  Kept(r, s)
<1> USE DEF Inv, Stays
<1>1. \A q \in Runners : runner'[q] = IF q = r THEN [at |-> s, id |-> runner[r].id] ELSE runner[q]
  BY DEF TypeOK
<1>2. runner[r].id \in Ids
  BY HoldingIs DEF TypeOK, RunnerStates, Idle, Holds
<1>3. runner' \in [Runners -> RunnerStates]
  BY <1>2 DEF TypeOK, RunnerStates
<1>4. OneRunnerPerJob'
  BY <1>1 DEF OneRunnerPerJob, Holds
<1>5. AttemptsFit'
  BY DEF AttemptsFit
<1>6. \A q \in Runners : Job(q)' = Job(q)
  BY <1>1 DEF Job
<1> QED  BY <1>1, <1>2, <1>3, <1>4, <1>5, <1>6 DEF Kept

LEMMA LoadInv ==
  ASSUME Inv, NEW r \in Runners, Load(r), UNCHANGED crashes
  PROVE  Inv'
<1> USE DEF Inv
<1>1. At(r, "claimed") /\ Holds(r) /\ PassAt(r, "none") /\ Job(r) \notin Recorded
      /\ status[runner[r].id] = "running"
  BY HoldingIs DEF Load, At, Holds, AsksForItsJob, NotYetRecorded, PassAt, OneRunnerPerJob
<1>2. CASE Goto(r, "failing") /\ NoRecord
  <2>1. runner[r].id \in Ids
    BY <1>1 DEF TypeOK, RunnerStates, Idle, At
  <2>2. Walks(r, [at |-> "failing", id |-> runner[r].id])
    BY <1>1, <1>2, <2>1, HoldingIs DEF Walks, Load, Goto, NoRecord, NoStore, RunnerStates, Steps
  <2> QED  BY <1>1, <2>2, WalksInv
<1>3. CASE Goto(r, "admit") /\ Admit(r, Job(r))
  <2>1. Stays(r, "admit")
    BY <1>1, <1>3, HoldingIs DEF Stays, Load, Goto, NoStore, Steps, At
  <2>s. Kept(r, "admit")
    BY <1>1, <2>1, StaysInv
  <2>2. Job(r) \in Jobs
    <3>1. runner[r].id \in Ids /\ attempts[runner[r].id] \in 1..MaxAttempts
      BY <1>1, <2>s DEF TypeOK, AttemptsFit, Kept
    <3> QED  BY <3>1 DEF Job
  <2>3. /\ pass' = [pass EXCEPT ![r] = [at |-> "asked", job |-> Job(r)]]
        /\ UNCHANGED <<events, head, deployed>>
    BY <1>3 DEF Load, Admit
  <2>4. TypeOK'
    <3>1. [at |-> "asked", job |-> Job(r)] \in Passes
      BY <2>2 DEF Passes, Stages
    <3>2. pass' \in [Runners -> Passes]
      BY <2>3, <3>1 DEF TypeOK, RecorderTypeOK
    <3> QED
      BY <2>1, <2>s, <2>3, <3>2 DEF TypeOK, RecorderTypeOK, Stays, Kept
  <2>5. \A q \in Runners : pass'[q] = IF q = r THEN [at |-> "asked", job |-> Job(r)] ELSE pass[q]
    BY <2>3 DEF TypeOK, RecorderTypeOK
  <2>6. Recorded' = Recorded
    BY <2>3 DEF Recorded
  <2>7. AsksForItsJob'
    BY <2>s, <2>3, <2>5, <2>6 DEF AsksForItsJob, At, Kept
  <2>8. NotYetRecorded'
    BY <1>1, <2>1, <2>s, <2>5, <2>6 DEF NotYetRecorded, At, Stays, Kept
  <2>9. AdmittedBeforeDeployed'
    BY <2>1, <2>3 DEF AdmittedBeforeDeployed, Stays
  <2>10. OneWriter'
    BY <1>1, <2>1, <2>3, <2>5 DEF OneWriter, HeadFollowsChain, Healthy, PassAt, Stays
  <2> QED  BY <2>s, <2>4, <2>7, <2>8, <2>9, <2>10 DEF Kept
<1> QED  BY <1>2, <1>3 DEF Load

LEMMA AdmittedInv ==
  ASSUME Inv, NEW r \in Runners, Admitted(r), UNCHANGED crashes
  PROVE  Inv'
<1> USE DEF Inv
<1> DEFINE s == IF PassAt(r, "granted") THEN "admitted" ELSE "failing"
<1>1. At(r, "admit") /\ Holds(r) /\ pass[r].at \in {"granted", "refused"}
  BY HoldingIs DEF Admitted, At, Holds, Settle
<1>2. Stays(r, s)
  BY <1>1, HoldingIs DEF Stays, Admitted, Goto, NoStore, Steps, At
<1>s. Kept(r, s)
  BY <1>1, <1>2, StaysInv
<1>3. /\ pass' = [pass EXCEPT ![r] = NoPass]
      /\ UNCHANGED <<events, head, deployed>>
  BY DEF Admitted, Settle
<1>4. TypeOK'
  <2>1. pass' \in [Runners -> Passes]
    BY <1>3 DEF TypeOK, RecorderTypeOK, Passes
  <2> QED
    BY <1>2, <1>s, <1>3, <2>1 DEF TypeOK, RecorderTypeOK, Stays, Kept
<1>5. \A q \in Runners : pass'[q] = IF q = r THEN NoPass ELSE pass[q]
  BY <1>3 DEF TypeOK, RecorderTypeOK
<1>6. Recorded' = Recorded
  BY <1>3 DEF Recorded
<1>7. PassAt(r, "granted") => Job(r) \in Recorded
  BY <1>1 DEF AsksForItsJob, PassAt
<1>8. AsksForItsJob'
  BY <1>s, <1>3, <1>5, <1>6, <1>7 DEF AsksForItsJob, At, NoPass, Kept
<1>9. NotYetRecorded'
  BY <1>2, <1>s, <1>5, <1>6 DEF NotYetRecorded, At, Stays, NoPass, Kept
<1>10. AdmittedBeforeDeployed'
  BY <1>2, <1>3 DEF AdmittedBeforeDeployed, Stays
<1>11. OneWriter'
  BY <1>1, <1>2, <1>3, <1>5 DEF OneWriter, HeadFollowsChain, Healthy, PassAt, Stays, NoPass
<1> QED  BY <1>s, <1>4, <1>8, <1>9, <1>10, <1>11 DEF Kept

LEMMA DeployInv ==
  ASSUME Inv, NEW r \in Runners, Deploy(r), UNCHANGED crashes
  PROVE  Inv'
<1> USE DEF Inv
<1>1. /\ At(r, "admitted") /\ Holds(r) /\ PassAt(r, "none") /\ Job(r) \in Recorded
      /\ UNCHANGED recorder
  BY HoldingIs DEF Deploy, At, Holds, AsksForItsJob, PassAt, NoRecord
<1>2. PICK s \in {"deployed", "failing"} :
        /\ Stays(r, s)
        /\ deployed' \in {deployed, deployed \cup {Job(r)}}
        /\ s = "deployed" => Job(r) \in deployed'
  BY <1>1, HoldingIs DEF Deploy, Stays, Goto, NoStore, Steps, At
<1>s. Kept(r, s)
  BY <1>1, <1>2, StaysInv
<1>3. Recorded' = Recorded /\ pass' = pass /\ deployed \subseteq deployed'
  BY <1>1, <1>2 DEF Recorded, recorder
<1>4. deployed' \subseteq Recorded
  BY <1>1, <1>2 DEF AdmittedBeforeDeployed, Recorded
<1>5. TypeOK'
  <2>1. deployed' \subseteq Jobs
    BY <1>4 DEF TypeOK, RecorderTypeOK, Recorded
  <2> QED
    BY <1>1, <1>2, <1>s, <2>1 DEF TypeOK, RecorderTypeOK, recorder, Stays, Kept
<1>6. AsksForItsJob'
  <2>1. \A q \in Runners : (pass'[q].at # "none" => pass[q].at # "none" /\ q # r)
    BY <1>1, <1>3 DEF PassAt
  <2> QED
    BY <1>2, <1>s, <1>3, <2>1 DEF AsksForItsJob, At, Kept
<1>7. NotYetRecorded'
  BY <1>1, <1>2, <1>s, <1>3 DEF NotYetRecorded, At, Stays, Kept
<1>8. AdmittedBeforeDeployed'
  BY <1>1, <1>2, <1>3, <1>4 DEF AdmittedBeforeDeployed, Stays, recorder, Recorded
<1>9. OneWriter'
  BY <1>1, <1>2 DEF OneWriter, HeadFollowsChain, Healthy, PassAt, Stays, recorder
<1> QED  BY <1>s, <1>5, <1>6, <1>7, <1>8, <1>9 DEF Kept

-----------------------------------------------------------------------------
\* The steps inside admit(): the caller waits, its call alone goes on, to p.
Waits(r, p) ==
  /\ UNCHANGED <<status, attempts, newer, runner, deployed, crashes>>
  /\ pass' = [pass EXCEPT ![r] = p]
  /\ p \in Passes /\ p.at # "none" /\ p.job = pass[r].job

LEMMA WaitsInv ==
  ASSUME Inv, NEW r \in Runners, NEW p, Waits(r, p), At(r, "admit")
  PROVE  /\ OneRunnerPerJob' /\ AttemptsFit'
         /\ \A q \in Runners : Job(q)' = Job(q)
         /\ \A q \in Runners : pass'[q] = IF q = r THEN p ELSE pass[q]
         /\ pass' \in [Runners -> Passes]
<1> USE DEF Inv, Waits
<1>1. OneRunnerPerJob' /\ AttemptsFit'
  BY DEF OneRunnerPerJob, AttemptsFit, Holds
<1>2. \A q \in Runners : Job(q)' = Job(q)
  BY DEF Job
<1>3. \A q \in Runners : pass'[q] = IF q = r THEN p ELSE pass[q]
  BY DEF TypeOK, RecorderTypeOK
<1>4. pass' \in [Runners -> Passes]
  BY DEF TypeOK, RecorderTypeOK
<1> QED  BY <1>1, <1>2, <1>3, <1>4

\* A call of admit() that goes on without touching the two files.
LEMMA ReadsInv ==
  ASSUME Inv, NEW r \in Runners, NEW p, Waits(r, p), UNCHANGED <<events, head>>,
         At(r, "admit"), pass[r].job = Job(r),
         p.at \in {"checking", "waiting", "refused"},
         p.at # "refused" => pass[r].at \in {"asked", "checking"},
         PassAt(r, "written") => ~Healthy
  PROVE  Inv'
<1> USE DEF Inv
<1>1. /\ OneRunnerPerJob' /\ AttemptsFit'
      /\ \A q \in Runners : Job(q)' = Job(q)
      /\ \A q \in Runners : pass'[q] = IF q = r THEN p ELSE pass[q]
      /\ pass' \in [Runners -> Passes]
  BY WaitsInv
<1>2. TypeOK'
  BY <1>1 DEF TypeOK, RecorderTypeOK, Waits
<1>3. Recorded' = Recorded /\ runner' = runner /\ deployed' = deployed /\ attempts' = attempts
  BY DEF Recorded, Waits
<1>4. AsksForItsJob'
  BY <1>1, <1>3 DEF AsksForItsJob, At, Waits
<1>5. NotYetRecorded'
  BY <1>1, <1>3 DEF NotYetRecorded, At
<1>6. AdmittedBeforeDeployed'
  BY DEF AdmittedBeforeDeployed, Waits
<1>7. OneWriter'
  BY <1>1 DEF OneWriter, HeadFollowsChain, Healthy, PassAt, Waits
<1> QED  BY <1>1, <1>2, <1>4, <1>5, <1>6, <1>7

LEMMA VerifyEventsInv ==
  ASSUME Inv, NEW r \in Runners, VerifyEvents(r),
         UNCHANGED <<status, attempts, newer, runner, deployed, crashes>>
  PROVE  Inv'
<1> DEFINE p == [at |-> "checking", job |-> pass[r].job, seen |-> Len(events)]
<1>1. At(r, "admit") /\ pass[r].job = Job(r) /\ PassAt(r, "asked") /\ pass[r].job \in Jobs
  BY DEF VerifyEvents, PassAt, Inv, AsksForItsJob, TypeOK, RecorderTypeOK, Passes, NoPass
<1>2. Len(events) \in Nat
  BY DEF Inv, TypeOK, RecorderTypeOK
<1>3. p \in Passes
  BY <1>1, <1>2 DEF Passes
<1>4. Waits(r, p)
  BY <1>3 DEF Waits, VerifyEvents
<1>5. UNCHANGED <<events, head>>
  BY DEF VerifyEvents
<1> QED  BY <1>1, <1>4, <1>5, ReadsInv DEF PassAt

LEMMA VerifyHeadInv ==
  ASSUME Inv, NEW r \in Runners, VerifyHead(r),
         UNCHANGED <<status, attempts, newer, runner, deployed, crashes>>
  PROVE  Inv'
<1> DEFINE p == [at |-> IF head = pass[r].seen THEN "waiting" ELSE "refused", job |-> pass[r].job]
<1>1. At(r, "admit") /\ pass[r].job = Job(r) /\ PassAt(r, "checking") /\ pass[r].job \in Jobs
  BY DEF VerifyHead, PassAt, Inv, AsksForItsJob, TypeOK, RecorderTypeOK, Passes, NoPass
<1>2. p \in Passes
  BY <1>1 DEF Passes, Stages
<1>3. Waits(r, p)
  BY <1>2 DEF Waits, VerifyHead, PassTo
<1>4. UNCHANGED <<events, head>>
  BY DEF VerifyHead
<1> QED  BY <1>1, <1>3, <1>4, ReadsInv DEF PassAt

LEMMA RecorderFailsInv ==
  ASSUME Inv, NEW r \in Runners, RecorderFails(r), UNCHANGED crashes
  PROVE  Inv'
<1> DEFINE p == [at |-> "refused", job |-> pass[r].job]
<1>1. At(r, "admit") /\ pass[r].job = Job(r) /\ pass[r].job \in Jobs
  BY DEF RecorderFails, AdmitFails, Inv, AsksForItsJob, TypeOK, RecorderTypeOK, Passes, NoPass
<1>2. p \in Passes
  BY <1>1 DEF Passes, Stages
<1>3. Waits(r, p)
  BY <1>2 DEF Waits, RecorderFails, AdmitFails, PassTo, NoStore
<1>4. UNCHANGED <<events, head>> /\ ~Healthy
  BY DEF RecorderFails, AdmitFails, Healthy
<1> QED  BY <1>1, <1>3, <1>4, ReadsInv DEF PassAt

\* The append: the job of the caller, which is nobody else's, joins the chain.
LEMMA AppendEventInv ==
  ASSUME Inv, NEW r \in Runners, AppendEvent(r),
         UNCHANGED <<status, attempts, newer, runner, deployed, crashes>>
  PROVE  Inv'
<1> USE DEF Inv
<1> DEFINE p == [at |-> "written", job |-> pass[r].job]
<1>1. /\ At(r, "admit") /\ pass[r].job = Job(r) /\ PassAt(r, "waiting")
      /\ pass[r].job \in Jobs /\ Job(r) \notin Recorded
  BY DEF AppendEvent, PassAt, AsksForItsJob, NotYetRecorded, TypeOK, RecorderTypeOK, Passes, NoPass
<1>2. Waits(r, p)
  BY <1>1 DEF Waits, AppendEvent, PassTo, Passes, Stages
<1>3. /\ OneRunnerPerJob' /\ AttemptsFit'
      /\ \A q \in Runners : Job(q)' = Job(q)
      /\ \A q \in Runners : pass'[q] = IF q = r THEN p ELSE pass[q]
      /\ pass' \in [Runners -> Passes]
  BY <1>1, <1>2, WaitsInv
<1>4. events \in Seq(Jobs) /\ events' = Append(events, Job(r)) /\ head' = head
  BY <1>1 DEF AppendEvent, TypeOK, RecorderTypeOK
<1>5. /\ events' \in Seq(Jobs) /\ Len(events') = Len(events) + 1 /\ Len(events) \in Nat
      /\ \A i \in 1..Len(events) : events'[i] = events[i]
      /\ events'[Len(events) + 1] = Job(r)
  BY <1>1, <1>4
<1>6. Recorded' = Recorded \cup {Job(r)}
  <2>1. 1..Len(events') = 1..Len(events) \cup {Len(events) + 1}
    BY <1>5
  <2>2. Recorded' = {events'[i] : i \in 1..Len(events')}
    BY DEF Recorded
  <2>3. \A e : e \in Recorded' <=> e \in Recorded \/ e = Job(r)
    BY <1>5, <2>1, <2>2 DEF Recorded
  <2> QED  BY <2>3
<1>7. TypeOK'
  BY <1>2, <1>3, <1>4, <1>5 DEF TypeOK, RecorderTypeOK, Waits
<1>8. runner' = runner /\ deployed' = deployed /\ attempts' = attempts
  BY <1>2 DEF Waits
<1>9. AsksForItsJob'
  BY <1>1, <1>3, <1>6, <1>8 DEF AsksForItsJob, At
<1>10. NotYetRecorded'
  <2>1. Job(r)[2] <= attempts[Job(r)[1]]
    <3>1. Job(r) = <<runner[r].id, attempts[runner[r].id]>> /\ runner[r].id \in Ids
      BY <1>1 DEF Job, At, TypeOK, RunnerStates, Idle
    <3> QED  BY <3>1 DEF TypeOK
  <2>2. \A e \in Recorded' : e[2] <= attempts'[e[1]]
    BY <1>6, <1>8, <2>1 DEF NotYetRecorded
  <2>3. \A q \in Runners \ {r} : At(q, "claimed") \/ At(q, "admit") => Job(q) # Job(r)
    BY <1>1, HoldingIs DEF OneRunnerPerJob, Holds, At, Job
  <2> QED
    BY <1>1, <1>3, <1>6, <1>8, <2>2, <2>3 DEF NotYetRecorded, AsksForItsJob, At
<1>11. AdmittedBeforeDeployed'
  <2>1. deployed' \subseteq Recorded'
    BY <1>6, <1>8 DEF AdmittedBeforeDeployed, Recorded
  <2>2. \A i, j \in 1..Len(events') : events'[i] = events'[j] => i = j
    <3>1. \A i \in 1..Len(events) : events[i] # Job(r)
      BY <1>1 DEF Recorded
    <3> QED  BY <1>5, <3>1 DEF AdmittedBeforeDeployed
  <2> QED  BY <2>1, <2>2, <1>2 DEF AdmittedBeforeDeployed, Waits, Recorded
<1>12. OneWriter'
  <2>1. \A d \in Runners : ~PassAt(d, "written")
    BY DEF AppendEvent
  <2>2. Healthy' = Healthy
    BY <1>2 DEF Healthy, Waits
  <2>3. \A d \in Runners : PassAt(d, "written")' <=> d = r
    BY <1>3, <2>1 DEF PassAt
  <2>4. Healthy => head = Len(events)
    BY <2>1 DEF OneWriter, HeadFollowsChain
  <2>5. Healthy => head' = Len(events') - 1
    BY <1>4, <1>5, <2>4
  <2> QED  BY <2>2, <2>3, <2>5 DEF OneWriter, HeadFollowsChain
<1> QED  BY <1>3, <1>7, <1>9, <1>10, <1>11, <1>12

LEMMA AppendHeadInv ==
  ASSUME Inv, NEW r \in Runners, AppendHead(r),
         UNCHANGED <<status, attempts, newer, runner, deployed, crashes>>
  PROVE  Inv'
<1> USE DEF Inv
<1> DEFINE p == [at |-> "granted", job |-> pass[r].job]
<1>1. /\ At(r, "admit") /\ pass[r].job = Job(r) /\ PassAt(r, "written")
      /\ pass[r].job \in Jobs /\ Job(r) \in Recorded
  BY DEF AppendHead, PassAt, AsksForItsJob, TypeOK, RecorderTypeOK, Passes, NoPass
<1>2. Waits(r, p)
  BY <1>1 DEF Waits, AppendHead, PassTo, Passes, Stages
<1>3. /\ OneRunnerPerJob' /\ AttemptsFit'
      /\ \A q \in Runners : Job(q)' = Job(q)
      /\ \A q \in Runners : pass'[q] = IF q = r THEN p ELSE pass[q]
      /\ pass' \in [Runners -> Passes]
  BY <1>1, <1>2, WaitsInv
<1>4. events' = events /\ head' = Len(events)
  BY DEF AppendHead
<1>5. Recorded' = Recorded
  BY <1>4 DEF Recorded
<1>6. TypeOK'
  BY <1>2, <1>3, <1>4 DEF TypeOK, RecorderTypeOK, Waits
<1>7. runner' = runner /\ deployed' = deployed /\ attempts' = attempts
  BY <1>2 DEF Waits
<1>8. AsksForItsJob'
  BY <1>1, <1>3, <1>5, <1>7 DEF AsksForItsJob, At
<1>9. NotYetRecorded'
  BY <1>3, <1>5, <1>7 DEF NotYetRecorded, At
<1>10. AdmittedBeforeDeployed'
  BY <1>2, <1>4 DEF AdmittedBeforeDeployed, Waits
<1>11. OneWriter'
  <2>1. Healthy' = Healthy
    BY <1>2 DEF Healthy, Waits
  <2> QED  BY <1>1, <1>3, <1>4, <2>1 DEF OneWriter, HeadFollowsChain, PassAt
<1> QED  BY <1>3, <1>6, <1>8, <1>9, <1>10, <1>11

\* Every activity and every call is gone, what is on disk stays.
LEMMA CrashInv ==
  ASSUME Inv, Crash
  PROVE  Inv'
<1> USE DEF Inv, Crash
<1>1. \A r \in Runners : runner'[r] = Idle /\ pass'[r] = NoPass
  OBVIOUS
<1>2. TypeOK'
  BY DEF TypeOK, RecorderTypeOK, RunnerStates, Passes
<1>3. OneRunnerPerJob' /\ AttemptsFit'
  BY <1>1, HoldingIs DEF OneRunnerPerJob, Holds, AttemptsFit, Idle
<1>4. Recorded' = Recorded
  BY DEF Recorded
<1>5. AsksForItsJob' /\ NotYetRecorded'
  BY <1>1, <1>4 DEF AsksForItsJob, NotYetRecorded, At, Idle, NoPass
<1>6. AdmittedBeforeDeployed'
  BY DEF AdmittedBeforeDeployed
<1>7. OneWriter'
  BY DEF OneWriter, Healthy, TypeOK
<1> QED  BY <1>2, <1>3, <1>5, <1>6, <1>7

-----------------------------------------------------------------------------
\* The steps that touch no file.

\* A runner that is not at the gate has no call of admit() open.
LEMMA NoCall ==
  ASSUME Inv, NEW r \in Runners, ~At(r, "admit")
  PROVE  PassAt(r, "none")
  BY DEF Inv, AsksForItsJob, PassAt

LEMMA RunnerHasId ==
  ASSUME TypeOK, NEW r \in Runners, ~At(r, "idle")
  PROVE  runner[r].id \in Ids /\ runner[r] \in [at : Steps, id : Ids]
  BY DEF TypeOK, RunnerStates, Idle, At

\* To stop, or to go on at a step that holds nothing.
LEMMA LetsGo ==
  ASSUME Inv, NEW r \in Runners, ~At(r, "admit"),
         UNCHANGED <<recorder, status, attempts, newer, deployed, crashes>>,
         \/ Stop(r)
         \/ \E s \in {"picked", "claim", "rollback"}, id \in Ids :
              runner' = [runner EXCEPT ![r] = [at |-> s, id |-> id]]
  PROVE  Inv'
<1>1. CASE Stop(r)
  <2>1. Walks(r, Idle)
    BY <1>1, HoldingIs DEF Walks, Stop, Idle, RunnerStates
  <2> QED  BY <2>1, NoCall, WalksInv
<1>2. CASE \E s \in {"picked", "claim", "rollback"}, id \in Ids :
             runner' = [runner EXCEPT ![r] = [at |-> s, id |-> id]]
  <2>1. PICK s \in {"picked", "claim", "rollback"}, id \in Ids :
             runner' = [runner EXCEPT ![r] = [at |-> s, id |-> id]]
    BY <1>2
  <2>2. Walks(r, [at |-> s, id |-> id])
    BY <2>1, HoldingIs DEF Walks, RunnerStates, Steps
  <2> QED  BY <2>2, NoCall, WalksInv
<1> QED  BY <1>1, <1>2

\* To go on with the deployment it holds, which has the status of the next step.
LEMMA GoesOn ==
  ASSUME Inv, NEW r \in Runners, ~At(r, "admit"), Holds(r), NEW s \in Steps, Goto(r, s),
         UNCHANGED <<recorder, status, attempts, newer, deployed, crashes>>,
         s \in {"verified", "failing", "failed", "rolled", "unrolled"},
         status[runner[r].id] \in Holding[s],
         s = "verified" => At(r, "verifying")
  PROVE  Inv'
<1>1. runner[r].id \in Ids
  BY RunnerHasId, HoldingIs DEF Holds, At, Inv
<1>2. s = "verified" => <<runner[r].id, attempts[runner[r].id]>> \in deployed
  BY DEF Inv, AsksForItsJob, At, Job
<1>3. Walks(r, [at |-> s, id |-> runner[r].id])
  BY <1>1, <1>2, HoldingIs DEF Walks, Goto, RunnerStates
<1> QED  BY <1>3, NoCall, WalksInv

LEMMA QuietSteps ==
  ASSUME Inv, NEW r \in Runners, UNCHANGED crashes,
         \/ RunOnce(r) \/ CheckQueued(r) \/ Verify(r) \/ Catch(r) \/ AdapterRollback(r)
         \/ StoreFails(r) \/ \E id \in Ids : Rollback(r, id)
  PROVE  Inv'
<1>1. CASE RunOnce(r)
  BY <1>1, LetsGo DEF RunOnce, NewestQueued, Start, At, NoRecord, NoStore
<1>2. CASE CheckQueued(r)
  <2>1. runner[r].id \in Ids
    BY <1>2, RunnerHasId DEF CheckQueued, At, Inv
  <2> QED  BY <1>2, <2>1, LetsGo DEF CheckQueued, Goto, At, NoRecord, NoStore
<1>3. CASE Verify(r)
  <2>1. Holds(r) /\ status[runner[r].id] = "verifying" /\ ~At(r, "admit")
    BY <1>3, HoldingIs DEF Verify, At, Holds, Inv, OneRunnerPerJob
  <2> QED  BY <1>3, <2>1, GoesOn, HoldingIs DEF Verify, NoRecord, NoStore, Steps
<1>4. CASE Catch(r)
  <2>1. Holds(r) /\ ~At(r, "admit")
    BY <1>4, HoldingIs DEF Catch, At, Holds
  <2>2. CASE Goto(r, "failed") /\ status[runner[r].id] \in {"running", "verifying"}
    BY <1>4, <2>1, <2>2, GoesOn, HoldingIs DEF Catch, NoRecord, NoStore, Steps
  <2>3. CASE Stop(r)
    BY <1>4, <2>1, <2>3, LetsGo DEF Catch, NoRecord, NoStore
  <2> QED  BY <1>4, <2>2, <2>3 DEF Catch
<1>5. CASE AdapterRollback(r)
  <2>1. Holds(r) /\ status[runner[r].id] = "rolling_back" /\ ~At(r, "admit")
    BY <1>5, HoldingIs DEF AdapterRollback, At, Holds, Inv, OneRunnerPerJob
  <2> QED  BY <1>5, <2>1, GoesOn, HoldingIs DEF AdapterRollback, NoRecord, NoStore, Steps
<1>6. CASE StoreFails(r)
  <2>1. /\ runner[r].at \in DOMAIN AfterIoError
        /\ LET s == AfterIoError[runner[r].at] IN IF s = "idle" THEN Stop(r) ELSE Goto(r, s)
        /\ NoRecord /\ NoStore /\ UNCHANGED deployed
    BY <1>6 DEF StoreFails
  <2>2. ~At(r, "admit")
    BY <2>1 DEF AfterIoError, At
  <2>3. CASE Stop(r)
    BY <2>1, <2>2, <2>3, LetsGo DEF NoRecord, NoStore
  <2>4. CASE runner[r].at \in {"deployed", "verified"} /\ Goto(r, "failing")
    <3>1. Holds(r) /\ status[runner[r].id] \in Holding["failing"]
      BY <2>4, HoldingIs DEF Holds, Inv, OneRunnerPerJob
    <3> QED  BY <2>1, <2>2, <2>4, <3>1, GoesOn DEF NoRecord, NoStore, Steps
  <2>5. CASE runner[r].at = "rolled" /\ Goto(r, "unrolled")
    <3>1. Holds(r) /\ status[runner[r].id] \in Holding["unrolled"]
      BY <2>5, HoldingIs DEF Holds, Inv, OneRunnerPerJob
    <3> QED  BY <2>1, <2>2, <2>5, <3>1, GoesOn DEF NoRecord, NoStore, Steps
  <2> QED  BY <2>1, <2>3, <2>4, <2>5 DEF AfterIoError
<1>7. CASE \E id \in Ids : Rollback(r, id)
  BY <1>7, LetsGo DEF Rollback, Start, At, NoRecord, NoStore
<1> QED  BY <1>1, <1>2, <1>3, <1>4, <1>5, <1>6, <1>7

-----------------------------------------------------------------------------
\* The steps that change a status.

LEMMA OthersElsewhere ==
  ASSUME Inv, NEW r \in Runners, Holds(r)
  PROVE  \A q \in Runners \ {r} : Holds(q) => runner[q].id # runner[r].id
  BY DEF Inv, OneRunnerPerJob

\* A status outside Holding[s] for every s: nobody holds the deployment.
LEMMA Unheld ==
  ASSUME Inv, NEW id \in Ids, status[id] \in {"none", "queued", "verified", "failed", "rolled_back"}
  PROVE  \A q \in Runners : Holds(q) => runner[q].id # id
  BY HoldingIs DEF Inv, OneRunnerPerJob, Holds

LEMMA CreationSteps ==
  ASSUME Inv, NEW r \in Runners, UNCHANGED crashes,
         \/ \E id \in Ids : Create(r, id)
         \/ OpenState(r) \/ WriteState(r) \/ CreateFails(r)
  PROVE  Inv'
<1> USE DEF NoRecord
<1>1. ASSUME NEW id \in Ids, Create(r, id) PROVE Inv'
  <2>1. newer' \in [Ids -> SUBSET Ids]
    BY <1>1 DEF Create, Inv, TypeOK
  <2>2. attempts[id] = 0
    BY <1>1 DEF Create, Inv, AttemptsFit, Unborn
  <2>3. \A q \in Runners : Holds(q) => runner[q].id # id
    BY <1>1, Unheld DEF Create
  <2>4. Shifts(r, id, "made", [at |-> "create", id |-> id])
    BY <1>1, <2>1, <2>2, <2>3, HoldingIs DEF Shifts, Create, Start, Unborn, RunnerStates, Steps
  <2> QED  BY <1>1, <2>4, NoCall, ShiftsInv DEF Create, Start, At
<1>2. CASE OpenState(r)
  <2> DEFINE id == runner[r].id
  <2>1. id \in Ids /\ Holds(r) /\ ~At(r, "admit")
    BY <1>2, RunnerHasId, HoldingIs DEF OpenState, At, Holds, Inv
  <2>2. attempts[id] = 0
    BY <1>2, <2>1 DEF OpenState, Inv, AttemptsFit, Unborn
  <2>3. Shifts(r, id, "torn", [at |-> "write", id |-> id])
    BY <1>2, <2>1, <2>2, OthersElsewhere, HoldingIs
       DEF Shifts, OpenState, Goto, Unborn, RunnerStates, Steps, Inv, TypeOK
  <2> QED  BY <2>1, <2>3, NoCall, ShiftsInv
<1>3. CASE WriteState(r)
  <2> DEFINE id == runner[r].id
  <2>1. id \in Ids /\ Holds(r) /\ ~At(r, "admit") /\ status[id] = "torn"
    BY <1>3, RunnerHasId, HoldingIs DEF WriteState, At, Holds, Inv, OneRunnerPerJob
  <2>2. attempts[id] < MaxAttempts
    BY <2>1 DEF Inv, AttemptsFit, Unborn
  <2>3. Shifts(r, id, "queued", Idle)
    BY <1>3, <2>1, <2>2, OthersElsewhere, HoldingIs, StatesAre
       DEF Shifts, WriteState, Stop, Unborn, RunnerStates, Idle, Inv, TypeOK
  <2> QED  BY <2>1, <2>3, NoCall, ShiftsInv
<1>4. CASE CreateFails(r)
  <2> DEFINE id == runner[r].id
  <2>1. id \in Ids /\ Holds(r) /\ ~At(r, "admit") /\ status[id] \in Unborn
    BY <1>4, RunnerHasId, HoldingIs DEF CreateFails, At, Holds, Inv, OneRunnerPerJob, Unborn
  <2>2. attempts' = attempts /\ attempts[id] = 0
    BY <1>4, <2>1 DEF CreateFails, Inv, AttemptsFit, TypeOK
  <2>3. newer' \in [Ids -> SUBSET Ids]
    BY <1>4 DEF CreateFails, Inv, TypeOK
  <2>4. Shifts(r, id, "none", Idle)
    BY <1>4, <2>1, <2>2, <2>3, OthersElsewhere, HoldingIs
       DEF Shifts, CreateFails, Stop, Unborn, RunnerStates, Idle
  <2> QED  BY <2>1, <2>4, NoCall, ShiftsInv
<1> QED  BY <1>1, <1>2, <1>3, <1>4

\* A runner that holds its deployment moves it on: the table allows it.
LEMMA HeldMoves ==
  ASSUME Inv, NEW r \in Runners, UNCHANGED crashes,
         \/ MarkVerifying(r) \/ MarkVerified(r) \/ MarkFailed(r)
         \/ MarkRolledBack(r) \/ MarkUnrolled(r)
  PROVE  Inv'
<1> DEFINE id == runner[r].id
<1>1. id \in Ids /\ Holds(r) /\ ~At(r, "admit")
  BY RunnerHasId, HoldingIs
     DEF MarkVerifying, MarkVerified, MarkFailed, MarkRolledBack, MarkUnrolled, At, Holds, Inv
<1>2. status[id] \in Holding[runner[r].at]
  BY <1>1 DEF Inv, OneRunnerPerJob
<1>3. /\ runner[r].at \in {"deployed", "verifying", "verified"} => <<id, attempts[id]>> \in deployed
      /\ status[id] \in {"verifying", "verified", "rolling_back"} => <<id, attempts[id]>> \in deployed
  BY <1>1 DEF Inv, AsksForItsJob, AdmittedBeforeDeployed, Job
<1>4. newer \in [Ids -> SUBSET Ids] /\ TypeOK
  BY DEF Inv, TypeOK
<1>5. ASSUME NEW next \in {"verifying", "verified", "failed", "rolled_back"},
             NEW w \in RunnerStates, runner' = [runner EXCEPT ![r] = w],
             Move(id, next), UNCHANGED <<recorder, newer, deployed>>,
             w.at \in {"idle", "verifying"},
             w.at = "verifying" => w.id = id /\ next = "verifying",
             next \in {"verifying", "verified", "rolled_back"} => <<id, attempts[id]>> \in deployed
      PROVE  Inv'
  <2>1. attempts' = attempts /\ status' = [status EXCEPT ![id] = next]
    BY <1>1, <1>4, <1>5, MoveKeepsAttempts
  <2>2. Shifts(r, id, next, w)
    BY <1>1, <1>4, <1>5, <2>1, OthersElsewhere, HoldingIs, StatesAre DEF Shifts, Unborn
  <2> QED  BY <1>1, <2>2, NoCall, ShiftsInv
<1>6. Idle \in RunnerStates /\ Idle.at = "idle"
      /\ [at |-> "verifying", id |-> id] \in RunnerStates
  BY <1>1 DEF Idle, RunnerStates, Steps
<1>7. CASE MarkVerifying(r)
  <2>1. At(r, "deployed") /\ Allowed(id, "verifying")
    BY <1>2, <1>7, HoldingIs, StatesAre DEF MarkVerifying, At, Allowed, Transitions
  <2>2. Move(id, "verifying") /\ Goto(r, "verifying") /\ UNCHANGED <<recorder, newer, deployed>>
    BY <1>7, <2>1 DEF MarkVerifying, Transition, NoRecord
  <2> QED  BY <1>3, <1>5, <1>6, <2>1, <2>2 DEF At, Goto
<1>8. CASE MarkVerified(r)
  <2>1. At(r, "verified") /\ Allowed(id, "verified")
    BY <1>2, <1>8, HoldingIs, StatesAre DEF MarkVerified, At, Allowed, Transitions
  <2>2. Move(id, "verified") /\ Stop(r) /\ UNCHANGED <<recorder, newer, deployed>>
    BY <1>8, <2>1 DEF MarkVerified, Transition, NoRecord
  <2> QED  BY <1>3, <1>5, <1>6, <2>1, <2>2 DEF At, Stop
<1>9. CASE MarkFailed(r) \/ MarkUnrolled(r)
  <2>1. Allowed(id, "failed")
    BY <1>2, <1>9, HoldingIs, StatesAre DEF MarkFailed, MarkUnrolled, At, Allowed, Transitions
  <2>2. Move(id, "failed") /\ Stop(r) /\ UNCHANGED <<recorder, newer, deployed>>
    BY <1>9, <2>1 DEF MarkFailed, MarkUnrolled, Transition, NoRecord
  <2> QED  BY <1>5, <1>6, <2>2 DEF Stop
<1>10. CASE MarkRolledBack(r)
  <2>1. status[id] = "rolling_back" /\ Allowed(id, "rolled_back")
    BY <1>2, <1>10, HoldingIs, StatesAre DEF MarkRolledBack, At, Allowed, Transitions
  <2>2. Move(id, "rolled_back") /\ Stop(r) /\ UNCHANGED <<recorder, newer, deployed>>
    BY <1>10, <2>1 DEF MarkRolledBack, Transition, NoRecord
  <2> QED  BY <1>3, <1>5, <1>6, <2>1, <2>2 DEF Stop
<1> QED  BY <1>7, <1>8, <1>9, <1>10

\* The first transition of a worker: the one that is too late leaves.
LEMMA ClaimStep ==
  ASSUME Inv, NEW r \in Runners, Claim(r), UNCHANGED crashes
  PROVE  Inv'
<1>1. CASE Allowed(runner[r].id, "running")
  BY <1>1, ClaimInv
<1>2. CASE ~Allowed(runner[r].id, "running")
  BY <1>2, LetsGo DEF Claim, Transition, NoRecord, At
<1> QED  BY <1>1, <1>2

\* The first transition of a rollback.
LEMMA MarkRollingBackInv ==
  ASSUME Inv, NEW r \in Runners, MarkRollingBack(r), UNCHANGED crashes
  PROVE  Inv'
<1> DEFINE id == runner[r].id
<1>1. id \in Ids /\ ~At(r, "admit") /\ TypeOK
  BY RunnerHasId DEF MarkRollingBack, At, Inv
<1>2. CASE Allowed(id, "rolling_back")
  <2>1. status[id] = "verified" /\ <<id, attempts[id]>> \in deployed
    BY <1>1, <1>2, TransitionsAre DEF Inv, AdmittedBeforeDeployed
  <2>2. Move(id, "rolling_back") /\ Goto(r, "rolling") /\ UNCHANGED <<recorder, newer, deployed>>
    BY <1>2 DEF MarkRollingBack, Transition, NoRecord
  <2>3. attempts' = attempts /\ status' = [status EXCEPT ![id] = "rolling_back"]
    BY <1>1, <2>2, MoveKeepsAttempts
  <2>4. \A q \in Runners : Holds(q) => runner[q].id # id
    BY <1>1, <2>1, Unheld
  <2>5. Shifts(r, id, "rolling_back", [at |-> "rolling", id |-> id])
    BY <1>1, <2>1, <2>2, <2>3, <2>4, HoldingIs, StatesAre
       DEF Shifts, Goto, Unborn, RunnerStates, Steps, TypeOK
  <2> QED  BY <1>1, <2>5, NoCall, ShiftsInv
<1>3. CASE ~Allowed(id, "rolling_back")
  BY <1>1, <1>3, LetsGo DEF MarkRollingBack, Transition, NoRecord
<1> QED  BY <1>2, <1>3

LEMMA RetryInv ==
  ASSUME Inv, NEW r \in Runners, NEW id \in Ids, Retry(r, id), UNCHANGED crashes
  PROVE  Inv'
<1>1. status[id] = "failed" /\ At(r, "idle") /\ attempts[id] < MaxAttempts /\ TypeOK
  BY TransitionsAre DEF Retry, Inv
<1>2. attempts' = attempts /\ status' = [status EXCEPT ![id] = "queued"]
  BY <1>1, MoveKeepsAttempts DEF Retry
<1>3. \A q \in Runners : Holds(q) => runner[q].id # id
  BY <1>1, Unheld
<1>4. runner' = [runner EXCEPT ![r] = runner[r]] /\ runner[r] \in RunnerStates
  BY <1>1 DEF Retry, TypeOK
<1>5. Shifts(r, id, "queued", runner[r])
  BY <1>1, <1>2, <1>3, <1>4, HoldingIs, StatesAre DEF Shifts, Retry, NoRecord, Unborn, TypeOK, At
<1> QED  BY <1>1, <1>5, NoCall, ShiftsInv DEF At

-----------------------------------------------------------------------------

LEMMA NextInv == Inv /\ [Next]_vars => Inv'
<1> SUFFICES ASSUME Inv, [Next]_vars PROVE Inv'
  OBVIOUS
<1>1. ASSUME NEW r \in Runners, Step(r) PROVE Inv'
  <2>1. UNCHANGED crashes
    BY <1>1 DEF Step
  <2>2. CASE OpenState(r) \/ WriteState(r) \/ CreateFails(r)
    BY <2>1, <2>2, CreationSteps
  <2>3. CASE RunOnce(r) \/ CheckQueued(r) \/ Verify(r) \/ Catch(r) \/ AdapterRollback(r)
             \/ StoreFails(r)
    BY <2>1, <2>3, QuietSteps
  <2>4. CASE MarkVerifying(r) \/ MarkVerified(r) \/ MarkFailed(r) \/ MarkRolledBack(r)
             \/ MarkUnrolled(r)
    BY <2>1, <2>4, HeldMoves
  <2>5. CASE Claim(r) \/ Load(r) \/ Admitted(r) \/ Deploy(r) \/ MarkRollingBack(r)
             \/ RecorderFails(r)
    BY <2>1, <2>5, ClaimStep, LoadInv, AdmittedInv, DeployInv, MarkRollingBackInv, RecorderFailsInv
  <2>6. CASE RecorderStep(r) /\ UNCHANGED <<status, attempts, newer, runner, deployed>>
    BY <2>1, <2>6, VerifyEventsInv, VerifyHeadInv, AppendEventInv, AppendHeadInv DEF RecorderStep
  <2> QED  BY <1>1, <2>2, <2>3, <2>4, <2>5, <2>6 DEF Step, Advance
<1>2. ASSUME NEW r \in Runners, NEW id \in Ids, Request(r, id) PROVE Inv'
  BY <1>2, CreationSteps, QuietSteps, RetryInv DEF Request
<1>3. CASE Crash
  BY <1>3, CrashInv
<1>4. CASE UNCHANGED vars
  <2> USE <1>4 DEF vars, Inv
  <2>1. TypeOK'
    BY DEF TypeOK, RecorderTypeOK
  <2>2. OneRunnerPerJob' /\ AttemptsFit'
    BY DEF OneRunnerPerJob, AttemptsFit, Holds
  <2>3. Recorded' = Recorded /\ \A r \in Runners : Job(r)' = Job(r)
    BY DEF Recorded, Job
  <2>4. AsksForItsJob' /\ NotYetRecorded'
    BY <2>3 DEF AsksForItsJob, NotYetRecorded, At
  <2>5. AdmittedBeforeDeployed' /\ OneWriter'
    BY DEF AdmittedBeforeDeployed, OneWriter, HeadFollowsChain, Healthy, PassAt
  <2> QED  BY <2>1, <2>2, <2>4, <2>5
<1> QED  BY <1>1, <1>2, <1>3, <1>4 DEF Next

LEMMA SpecInv == Spec => []Inv
  BY InitInv, NextInv, PTL DEF Spec

\* The variables of the job store and of the recorder stay of their types.
THEOREM DeployTypeCorrect == Spec => []TypeOK
<1>1. Inv => TypeOK
  BY DEF Inv
<1> QED  BY <1>1, SpecInv, PTL

\* However the tick, run-once requests, retries and rollbacks interleave, a deployment
\* is worked on by one runner at a time, and its status is the one that runner expects.
THEOREM OneRunner == Spec => []OneRunnerPerJob
<1>1. Inv => OneRunnerPerJob
  BY DEF Inv
<1> QED  BY <1>1, SpecInv, PTL

\* Only admitted attempts are deployed, each is admitted once, and what is verified or
\* rolled back was deployed, across crashes and failing files.
THEOREM AdmissionFirst == Spec => []AdmittedBeforeDeployed
<1>1. Inv => AdmittedBeforeDeployed
  BY DEF Inv
<1> QED  BY <1>1, SpecInv, PTL

\* While no file operation has failed and the process has not died, head.json names the
\* last event, or the one before it during an append.
THEOREM HeadAgrees == Spec => []HeadIsCurrent
<1>1. Inv => HeadIsCurrent
  BY DEF Inv, OneWriter, HeadIsCurrent
<1> QED  BY <1>1, SpecInv, PTL

\* A step of the recorder that finds the files apart, with nobody inside an append,
\* appends nothing and leaves them apart.
LEMMA SealHolds ==
  ASSUME TypeOK, Sealed, [Next]_vars
  PROVE  Sealed' /\ events' = events /\ head' = head
<1>1. ASSUME NEW r \in Runners, RecorderStep(r) PROVE Sealed' /\ events' = events /\ head' = head
  <2>1. pass \in [Runners -> Passes] /\ events \in Seq(Jobs)
    BY DEF TypeOK, RecorderTypeOK
  <2>2. CASE VerifyEvents(r)
    BY <2>1, <2>2 DEF VerifyEvents, Sealed, NobodyInside, PassAt
  <2>3. CASE VerifyHead(r)
    BY <2>1, <2>3 DEF VerifyHead, PassTo, Sealed, NobodyInside, PassAt
  <2>4. CASE AppendEvent(r) \/ AppendHead(r)
    BY <2>4 DEF AppendEvent, AppendHead, Sealed, NobodyInside, PassAt
  <2> QED  BY <1>1, <2>2, <2>3, <2>4 DEF RecorderStep
<1>2. ASSUME NEW r \in Runners, UNCHANGED <<events, head>>,
             \A q \in Runners \ {r} : pass'[q] = pass[q],
             pass'[r].at \in {"none", "asked", "refused"}
      PROVE  Sealed' /\ events' = events /\ head' = head
  BY <1>2 DEF Sealed, NobodyInside, PassAt, TypeOK, RecorderTypeOK
<1>3. CASE UNCHANGED recorder
  BY <1>3 DEF recorder, Sealed, NobodyInside, PassAt
<1>4. ASSUME NEW r \in Runners, Step(r) PROVE Sealed' /\ events' = events /\ head' = head
  <2>1. pass \in [Runners -> Passes]
    BY DEF TypeOK, RecorderTypeOK
  <2>2. CASE Load(r)
    <3>1. CASE Admit(r, Job(r))
      <4>1. UNCHANGED <<events, head>> /\ pass'[r].at = "asked"
            /\ \A q \in Runners \ {r} : pass'[q] = pass[q]
        BY <2>1, <3>1 DEF Admit
      <4> QED  BY <1>2, <4>1
    <3> QED  BY <1>3, <2>2, <3>1 DEF Load, NoRecord
  <2>3. CASE Admitted(r) \/ RecorderFails(r)
    <3>1. UNCHANGED <<events, head>> /\ pass'[r].at \in {"none", "refused"}
          /\ \A q \in Runners \ {r} : pass'[q] = pass[q]
      BY <2>1, <2>3 DEF Admitted, Settle, NoPass, RecorderFails, AdmitFails, PassTo
    <3> QED  BY <1>2, <3>1
  <2>4. CASE RecorderStep(r)
    BY <1>1, <2>4
  <2>5. CASE NoRecord
    BY <1>3, <2>5 DEF NoRecord
  <2> QED
    BY <1>4, <2>2, <2>3, <2>4, <2>5
       DEF Step, Advance, RunOnce, StoreFails, OpenState, WriteState, CreateFails, CheckQueued,
           Claim, Deploy, MarkVerifying, Verify, MarkVerified, Catch, MarkFailed,
           MarkRollingBack, AdapterRollback, MarkRolledBack, MarkUnrolled
<1>5. ASSUME NEW r \in Runners, NEW id \in Ids, Request(r, id)
      PROVE  Sealed' /\ events' = events /\ head' = head
  BY <1>3, <1>5 DEF Request, Create, Rollback, Retry, NoRecord
<1>6. CASE Crash
  BY <1>6 DEF Crash, Sealed, NobodyInside, PassAt, NoPass
<1>7. CASE UNCHANGED vars
  BY <1>3, <1>7 DEF vars, recorder
<1> QED  BY <1>4, <1>5, <1>6, <1>7 DEF Next

\* admit() fails closed, across restarts: once a lost write has left events.jsonl ahead of
\* head.json, nothing is ever appended again.
THEOREM RecorderFailsClosed == Spec => FailsClosed
<1>1. TypeOK /\ [Next]_vars => [Sealed => Sealed' /\ events' = events /\ head' = head]_recorder
  BY SealHolds
<1> QED  BY <1>1, DeployTypeCorrect, PTL DEF Spec, FailsClosed
=============================================================================
