---------------------------- MODULE VideoLaunch_proofs ----------------------------
(***************************************************************************)
(* A launch for every number of shots, failed renders and processes that   *)
(* end: what it saved can be trusted, a film with evidence is judged, and  *)
(* nothing that is recorded is done again.                                 *)
(***************************************************************************)
EXTENDS VideoLaunch, WellFoundedInduction, TLAPS

\* What is completed has the clip that was recorded, until an orphan writes over it.
RendersRecorded ==
  ~spoiled => \A s \in Shots :
    /\ s \in Completed(jobs) => clips[s] = jobs[s].art
    /\ s \in Completed(remote) => clips[s] = remote[s].art
    /\ s \in Completed(saved.jobs) => clips[s] = saved.jobs[s].art

\* A shot is given to the runtime by the session, and not while it is recorded as
\* completed anywhere.
RendersOnce ==
  \A s \in Shots :
    /\ jobs[s].status = "pending" => remote[s].status = "pending"
    /\ remote[s].status = "running" => s \notin Completed(jobs) /\ s \notin Completed(saved.jobs)

\* A session has everything the state file has, and begins and ends with nothing else.
SessionKeeps ==
  /\ pc = "off" => jobs = NoJobs /\ remote = NoJobs /\ evals = NoVerdicts
  /\ pc # "off" => \A s \in Shots :
       /\ s \in Completed(saved.jobs) => jobs[s] = saved.jobs[s]
       /\ s \in Judged(saved.evals) => evals[s] = saved.evals[s]
  /\ saved.stage = "none" => saved.jobs = NoJobs /\ saved.evals = NoVerdicts
  /\ saved.stage = "completed" => pc = "off"

\* Only completed renders are judged.
EvaluationsFit ==
  \A s \in Shots :
    /\ s \in Judged(evals) => s \in Completed(jobs) /\ evals[s].art = jobs[s].art
    /\ s \in Judged(saved.evals) =>
         s \in Completed(saved.jobs) /\ saved.evals[s].art = saved.jobs[s].art

\* What the finalization knows at each of its steps.
FinalSteps ==
  /\ pc \in {"finalize", "evaluate", "keep", "assemble", "assembling", "evidence", "close"} =>
       \A s \in Shots : s \in Completed(jobs)
  /\ pc \in {"assemble", "assembling", "evidence", "close"} =>
       \A s \in Shots : evals[s] = [art |-> jobs[s].art, verdict |-> "good"]
  /\ pc = "evidence" =>
       film \in [Shots -> Nat] /\ (~spoiled => \A s \in Shots : film[s] = jobs[s].art)
  /\ pc \notin {"off", "close"} => evidence = Absent
  /\ pc = "close" => evidence \notin {Absent, Torn}

Inv ==
  TypeOK /\ RendersRecorded /\ RendersOnce /\ SessionKeeps /\ EvaluationsFit /\ FinalSteps
  /\ FilmIsJudged

USE LaunchAssumption DEF Completed, Judged

-----------------------------------------------------------------------------

\* A set of shots has a first one.
LEMMA FirstIsIn ==
  ASSUME NEW S \in SUBSET Shots, S # {}
  PROVE  First(S) \in S
<1>1. S \subseteq Nat
  BY DEF Shots
<1>2. \E s \in S : \A t \in S : ~(<<t, s>> \in OpToRel(<, Nat))
  BY <1>1, NatLessThanWellFounded, WFMin
<1>3. ASSUME NEW s \in S, NEW t \in S, ~(<<t, s>> \in OpToRel(<, Nat))
      PROVE  s <= t
  BY <1>1, <1>3 DEF OpToRel
<1>4. \E s \in S : \A t \in S : s <= t
  BY <1>2, <1>3
<1> QED  BY <1>4 DEF First

\* There is another content than those that are known.
LEMMA FreshIsNew ==
  ASSUME NEW s \in Shots
  PROVE  Fresh(s) \in Nat /\ Fresh(s) > 0 /\ Fresh(s) # clips[s]
<1> DEFINE a == jobs[s].art
           b == evals[s].art
           c == remote[s].art
           d == saved.jobs[s].art
           e == saved.evals[s].art
<1>1. Known(s) = {clips[s], a, b, c, d, e}
  BY DEF Known
<1> HIDE DEF a, b, c, d, e
<1>2. \E n \in 1..7 : n # clips[s] /\ n # a /\ n # b /\ n # c /\ n # d /\ n # e
  OBVIOUS
<1>3. \E n \in 1..7 : n \notin Known(s)
  BY <1>1, <1>2
<1>4. Fresh(s) \in 1..7 /\ Fresh(s) \notin Known(s)
  BY <1>3 DEF Fresh
<1> QED  BY <1>1, <1>4

LEMMA InitInv == Init => Inv
<1> SUFFICES ASSUME Init PROVE Inv
  OBVIOUS
<1>1. NoJobs \in [Shots -> Jobs] /\ NoVerdicts \in [Shots -> Evaluations]
  BY DEF NoJobs, NoJob, NoVerdicts, NoVerdict, Jobs, Evaluations
<1>2. \A s \in Shots : NoJobs[s] = NoJob /\ NoVerdicts[s] = NoVerdict
  BY DEF NoJobs, NoVerdicts
<1>3. /\ jobs = NoJobs /\ remote = NoJobs /\ saved.jobs = NoJobs
      /\ evals = NoVerdicts /\ saved.evals = NoVerdicts
      /\ pc = "off" /\ saved.stage = "none" /\ film = Absent /\ evidence = Absent
      /\ clips \in [Shots -> Nat] /\ orphans = {} /\ faults = 0 /\ spoiled = FALSE
  BY DEF Init
<1>4. TypeOK
  <2>1. \A s \in Shots : NoJobs[s].art = 0 /\ NoJobs[s].status = "pending"
    BY <1>2 DEF NoJob
  <2>2. \A js \in {jobs, remote, saved.jobs} :
          \A s \in Shots : js[s].art > 0 <=> s \in Completed(js)
    BY <1>3, <2>1
  <2>3. faults \in 0..MaxFaults
    BY <1>3
  <2>4. /\ jobs \in [Shots -> Jobs] /\ remote \in [Shots -> Jobs] /\ saved.jobs \in [Shots -> Jobs]
        /\ evals \in [Shots -> Evaluations] /\ saved.evals \in [Shots -> Evaluations]
    BY <1>1, <1>3
  <2> QED  BY <1>3, <2>2, <2>3, <2>4 DEF TypeOK
<1>5. RendersRecorded /\ RendersOnce /\ EvaluationsFit
  BY <1>2, <1>3 DEF RendersRecorded, RendersOnce, EvaluationsFit, NoJob, NoVerdict
<1>6. SessionKeeps /\ FinalSteps /\ FilmIsJudged
  BY <1>3 DEF SessionKeeps, FinalSteps, FilmIsJudged
<1> QED  BY <1>4, <1>5, <1>6 DEF Inv

\* A launch begins on nothing.
LEMMA StartInv ==
  ASSUME Inv, Start
  PROVE  Inv'
<1> USE DEF Inv, Start, NoFault, disk, renders
<1>1. TypeOK'
  BY DEF TypeOK, Jobs
<1>2. RendersRecorded'
  BY DEF RendersRecorded
<1>3. RendersOnce'
  BY DEF RendersOnce
<1>4. SessionKeeps'
  BY DEF SessionKeeps, NoJobs, NoJob, NoVerdicts, NoVerdict
<1>5. EvaluationsFit'
  BY DEF EvaluationsFit
<1>6. FinalSteps'
  BY DEF FinalSteps
<1>7. FilmIsJudged'
  BY DEF FilmIsJudged
<1> QED  BY <1>1, <1>2, <1>3, <1>4, <1>5, <1>6, <1>7

\* A launch is resumed: what was completed is taken over.
LEMMA ResumeInv ==
  ASSUME Inv, Resume
  PROVE  Inv'
<1> USE DEF Inv, Resume, NoFault, disk, renders, NoJob
<1>1. TypeOK'
  BY DEF TypeOK, Jobs, Evaluations
<1>2. RendersRecorded'
  BY DEF RendersRecorded
<1>3. RendersOnce'
  BY DEF RendersOnce, SessionKeeps, NoJobs
<1>4. SessionKeeps'
  BY DEF SessionKeeps, EvaluationsFit
<1>5. EvaluationsFit'
  BY DEF EvaluationsFit
<1>6. FinalSteps'
  BY DEF FinalSteps
<1>7. FilmIsJudged'
  BY DEF FilmIsJudged
<1> QED  BY <1>1, <1>2, <1>3, <1>4, <1>5, <1>6, <1>7

\* The next shot is submitted, or the loop ends.
LEMMA SubmitInv ==
  ASSUME Inv, Submit
  PROVE  Inv'
<1> USE DEF Inv, disk, renders
<1> DEFINE todo == {s \in Shots : jobs[s].status = "pending"}
<1>1. todo # {} => First(todo) \in todo
  BY FirstIsIn
<1>2. pc = "submit" /\ UNCHANGED <<evals, disk, renders, faults>>
  BY DEF Submit, NoFault
<1>3. CASE todo = {}
  <2>1. pc' = "begin" /\ UNCHANGED <<jobs, remote>>
    BY <1>3 DEF Submit
  <2>2. TypeOK'
    BY <1>2, <2>1 DEF TypeOK, Jobs
  <2>3. RendersRecorded'
    BY <1>2, <2>1 DEF RendersRecorded
  <2>4. RendersOnce'
    BY <1>2, <2>1 DEF RendersOnce
  <2>5. SessionKeeps'
    BY <1>2, <2>1 DEF SessionKeeps
  <2>6. EvaluationsFit'
    BY <1>2, <2>1 DEF EvaluationsFit
  <2>7. FinalSteps'
    BY <1>2, <2>1 DEF FinalSteps
  <2>8. FilmIsJudged'
    BY <1>2, <2>1 DEF FilmIsJudged
  <2> QED  BY <2>2, <2>3, <2>4, <2>5, <2>6, <2>7, <2>8
<1>4. CASE todo # {}
  <2>1. PICK s \in Shots : /\ jobs[s].status = "pending" /\ pc' = pc
                          /\ jobs' = [jobs EXCEPT ![s].status = "running"]
                          /\ remote' = [remote EXCEPT ![s].status = "running"]
    BY <1>1, <1>4 DEF Submit
  <2>2. TypeOK'
    BY <1>2, <2>1 DEF TypeOK, Jobs, RendersOnce
  <2>3. RendersRecorded'
    BY <1>2, <2>1 DEF RendersRecorded, TypeOK
  <2>4. RendersOnce'
    BY <1>2, <2>1 DEF RendersOnce, TypeOK, SessionKeeps
  <2>5. SessionKeeps'
    BY <1>2, <2>1 DEF SessionKeeps, TypeOK
  <2>6. EvaluationsFit'
    BY <1>2, <2>1 DEF EvaluationsFit, TypeOK
  <2>7. FinalSteps'
    BY <1>2, <2>1 DEF FinalSteps
  <2>8. FilmIsJudged'
    BY <1>2, <2>1 DEF FilmIsJudged
  <2> QED  BY <2>2, <2>3, <2>4, <2>5, <2>6, <2>7, <2>8
<1> QED  BY <1>3, <1>4

\* The session learns what its runtime knows.
LEMMA RefreshInv ==
  ASSUME Inv, Refresh
  PROVE  Inv'
<1> USE DEF Inv, Refresh, NoFault, disk, renders
<1>1. TypeOK'
  BY DEF TypeOK, Jobs
<1>2. RendersRecorded'
  BY DEF RendersRecorded, TypeOK
<1>3. RendersOnce'
  BY DEF RendersOnce
<1>4. SessionKeeps'
  BY DEF SessionKeeps
<1>5. EvaluationsFit'
  BY DEF EvaluationsFit, SessionKeeps
<1>6. FinalSteps'
  BY DEF FinalSteps
<1>7. FilmIsJudged'
  BY DEF FilmIsJudged
<1> QED  BY <1>1, <1>2, <1>3, <1>4, <1>5, <1>6, <1>7

\* The state file has what the session has.
LEMMA SaveInv ==
  ASSUME Inv, Save
  PROVE  Inv'
<1> USE DEF Inv, Save, NoFault, renders, Persist
<1>1. TypeOK'
  BY DEF TypeOK, Jobs, Evaluations
<1>2. RendersRecorded'
  BY DEF RendersRecorded
<1>3. RendersOnce'
  BY DEF RendersOnce
<1>4. SessionKeeps'
  BY DEF SessionKeeps
<1>5. EvaluationsFit'
  BY DEF EvaluationsFit
<1>6. FinalSteps'
  BY DEF FinalSteps
<1>7. FilmIsJudged'
  BY DEF FilmIsJudged, SessionKeeps, FinalSteps
<1> QED  BY <1>1, <1>2, <1>3, <1>4, <1>5, <1>6, <1>7

\* So it has when the renders are done.
LEMMA FinalizeInv ==
  ASSUME Inv, Finalize
  PROVE  Inv'
<1> USE DEF Inv, Finalize, NoFault, renders, Persist
<1>1. TypeOK'
  BY DEF TypeOK, Jobs, Evaluations
<1>2. RendersRecorded'
  BY DEF RendersRecorded
<1>3. RendersOnce'
  BY DEF RendersOnce
<1>4. SessionKeeps'
  BY DEF SessionKeeps
<1>5. EvaluationsFit'
  BY DEF EvaluationsFit
<1>6. FinalSteps'
  BY DEF FinalSteps
<1>7. FilmIsJudged'
  BY DEF FilmIsJudged, SessionKeeps, FinalSteps
<1> QED  BY <1>1, <1>2, <1>3, <1>4, <1>5, <1>6, <1>7

\* A render is judged that was not.
LEMMA EvaluateInv ==
  ASSUME Inv, Evaluate
  PROVE  Inv'
<1> USE DEF Inv, disk, renders
<1> DEFINE due == {t \in Shots : evals[t].art # jobs[t].art}
<1>1. due # {} => First(due) \in due
  BY FirstIsIn
<1>2. pc = "evaluate" /\ UNCHANGED <<jobs, remote, disk, renders, faults>>
  BY DEF Evaluate, NoFault
<1>3. CASE First(due) \in Judged(evals)
  <2>1. pc' = "stop" /\ UNCHANGED evals
    BY <1>3 DEF Evaluate
  <2>2. TypeOK'
    BY <1>2, <2>1 DEF TypeOK, Jobs
  <2>3. RendersRecorded'
    BY <1>2, <2>1 DEF RendersRecorded
  <2>4. RendersOnce'
    BY <1>2, <2>1 DEF RendersOnce
  <2>5. SessionKeeps'
    BY <1>2, <2>1 DEF SessionKeeps
  <2>6. EvaluationsFit'
    BY <1>2, <2>1 DEF EvaluationsFit
  <2>7. FinalSteps'
    BY <1>2, <2>1 DEF FinalSteps
  <2>8. FilmIsJudged'
    BY <1>2, <2>1 DEF FilmIsJudged
  <2> QED  BY <2>2, <2>3, <2>4, <2>5, <2>6, <2>7, <2>8
<1>4. CASE First(due) \notin Judged(evals)
  <2>1. PICK s \in Shots, v \in {"good", "bad"} :
          /\ s \notin Judged(evals) /\ pc' = "keep"
          /\ evals' = [evals EXCEPT ![s] = [art |-> jobs[s].art, verdict |-> v]]
    BY <1>1, <1>4 DEF Evaluate
  <2>2. TypeOK'
    BY <1>2, <2>1 DEF TypeOK, Jobs, Evaluations
  <2>3. RendersRecorded'
    BY <1>2, <2>1 DEF RendersRecorded
  <2>4. RendersOnce'
    BY <1>2, <2>1 DEF RendersOnce
  <2>5. SessionKeeps'
    BY <1>2, <2>1 DEF SessionKeeps, TypeOK, Evaluations
  <2>6. EvaluationsFit'
    BY <1>2, <2>1 DEF EvaluationsFit, FinalSteps, TypeOK, Evaluations
  <2>7. FinalSteps'
    BY <1>2, <2>1 DEF FinalSteps
  <2>8. FilmIsJudged'
    BY <1>2, <2>1 DEF FilmIsJudged
  <2> QED  BY <2>2, <2>3, <2>4, <2>5, <2>6, <2>7, <2>8
<1> QED  BY <1>3, <1>4

\* The judgement is saved.
LEMMA KeepEvaluationInv ==
  ASSUME Inv, KeepEvaluation
  PROVE  Inv'
<1> USE DEF Inv, KeepEvaluation, NoFault, renders, Persist
<1>1. TypeOK'
  BY DEF TypeOK, Jobs, Evaluations
<1>2. RendersRecorded'
  BY DEF RendersRecorded
<1>3. RendersOnce'
  BY DEF RendersOnce
<1>4. SessionKeeps'
  BY DEF SessionKeeps
<1>5. EvaluationsFit'
  BY DEF EvaluationsFit
<1>6. FinalSteps'
  BY DEF FinalSteps
<1>7. FilmIsJudged'
  BY DEF FilmIsJudged, SessionKeeps, FinalSteps
<1> QED  BY <1>1, <1>2, <1>3, <1>4, <1>5, <1>6, <1>7

\* All are judged, and by this the film is begun or not.
LEMMA CollectInv ==
  ASSUME Inv, Collect
  PROVE  Inv'
<1> USE DEF Inv, Collect, NoFault, disk, renders
<1>1. TypeOK'
  BY DEF TypeOK, Jobs
<1>2. RendersRecorded'
  BY DEF RendersRecorded
<1>3. RendersOnce'
  BY DEF RendersOnce
<1>4. SessionKeeps'
  BY DEF SessionKeeps
<1>5. EvaluationsFit'
  BY DEF EvaluationsFit
<1>6. FinalSteps'
  BY DEF FinalSteps, TypeOK, Evaluations
<1>7. FilmIsJudged'
  BY DEF FilmIsJudged
<1> QED  BY <1>1, <1>2, <1>3, <1>4, <1>5, <1>6, <1>7

\* The output is begun.
LEMMA AssembleInv ==
  ASSUME Inv, Assemble
  PROVE  Inv'
<1> USE DEF Inv, Assemble, NoFault, renders
<1>1. TypeOK'
  BY DEF TypeOK, Jobs
<1>2. RendersRecorded'
  BY DEF RendersRecorded
<1>3. RendersOnce'
  BY DEF RendersOnce
<1>4. SessionKeeps'
  BY DEF SessionKeeps
<1>5. EvaluationsFit'
  BY DEF EvaluationsFit
<1>6. FinalSteps'
  BY DEF FinalSteps
<1>7. FilmIsJudged'
  BY DEF FilmIsJudged, SessionKeeps, FinalSteps
<1> QED  BY <1>1, <1>2, <1>3, <1>4, <1>5, <1>6, <1>7

\* The film is made of the recorded clips.
LEMMA AssembledInv ==
  ASSUME Inv, Assembled
  PROVE  Inv'
<1> USE DEF Inv, Assembled, NoFault, renders
<1>1. TypeOK'
  BY DEF TypeOK, Jobs
<1>2. RendersRecorded'
  BY DEF RendersRecorded
<1>3. RendersOnce'
  BY DEF RendersOnce
<1>4. SessionKeeps'
  BY DEF SessionKeeps
<1>5. EvaluationsFit'
  BY DEF EvaluationsFit
<1>6. FinalSteps'
  BY DEF FinalSteps, TypeOK, RendersRecorded
<1>7. FilmIsJudged'
  BY DEF FilmIsJudged, SessionKeeps, FinalSteps
<1> QED  BY <1>1, <1>2, <1>3, <1>4, <1>5, <1>6, <1>7

\* The evidence is of this film.
LEMMA WriteEvidenceInv ==
  ASSUME Inv, WriteEvidence
  PROVE  Inv'
<1> USE DEF Inv, WriteEvidence, NoFault, renders
<1>1. TypeOK'
  BY DEF TypeOK, Jobs
<1>2. RendersRecorded'
  BY DEF RendersRecorded
<1>3. RendersOnce'
  BY DEF RendersOnce
<1>4. SessionKeeps'
  BY DEF SessionKeeps
<1>5. EvaluationsFit'
  BY DEF EvaluationsFit
<1>6. FinalSteps'
  BY DEF FinalSteps, TypeOK
<1>7. FilmIsJudged'
  BY DEF FilmIsJudged, TypeOK, SessionKeeps, FinalSteps
<1> QED  BY <1>1, <1>2, <1>3, <1>4, <1>5, <1>6, <1>7

\* The launch is completed, with film and evidence.
LEMMA CloseInv ==
  ASSUME Inv, Close
  PROVE  Inv'
<1> USE DEF Inv, Close, NoFault, End, NoJobs, NoJob, NoVerdicts, NoVerdict
<1>1. TypeOK'
  BY DEF TypeOK, Jobs, Evaluations
<1>2. RendersRecorded'
  BY DEF RendersRecorded
<1>3. RendersOnce'
  BY DEF RendersOnce
<1>4. SessionKeeps'
  BY DEF SessionKeeps
<1>5. EvaluationsFit'
  BY DEF EvaluationsFit
<1>6. FinalSteps'
  BY DEF FinalSteps
<1>7. FilmIsJudged'
  BY DEF FilmIsJudged, FinalSteps
<1> QED  BY <1>1, <1>2, <1>3, <1>4, <1>5, <1>6, <1>7

\* The polls are used up.
LEMMA PollLimitInv ==
  ASSUME Inv, PollLimit
  PROVE  Inv'
<1> USE DEF Inv, PollLimit, NoFault, disk, renders
<1>1. TypeOK'
  BY DEF TypeOK, Jobs
<1>2. RendersRecorded'
  BY DEF RendersRecorded
<1>3. RendersOnce'
  BY DEF RendersOnce
<1>4. SessionKeeps'
  BY DEF SessionKeeps
<1>5. EvaluationsFit'
  BY DEF EvaluationsFit
<1>6. FinalSteps'
  BY DEF FinalSteps
<1>7. FilmIsJudged'
  BY DEF FilmIsJudged
<1> QED  BY <1>1, <1>2, <1>3, <1>4, <1>5, <1>6, <1>7

\* The launch gives up.
LEMMA ThrowInv ==
  ASSUME Inv, Throw
  PROVE  Inv'
<1> USE DEF Inv, Throw, NoFault, End, disk, NoJobs, NoJob, NoVerdicts, NoVerdict
<1>1. TypeOK'
  BY DEF TypeOK, Jobs, Evaluations
<1>2. RendersRecorded'
  BY DEF RendersRecorded
<1>3. RendersOnce'
  BY DEF RendersOnce
<1>4. SessionKeeps'
  BY DEF SessionKeeps
<1>5. EvaluationsFit'
  BY DEF EvaluationsFit
<1>6. FinalSteps'
  BY DEF FinalSteps
<1>7. FilmIsJudged'
  BY DEF FilmIsJudged
<1> QED  BY <1>1, <1>2, <1>3, <1>4, <1>5, <1>6, <1>7

\* The process ends at any step.
LEMMA CrashInv ==
  ASSUME Inv, Crash
  PROVE  Inv'
<1> USE DEF Inv, Crash, Fault, End, NoJobs, NoJob, NoVerdicts, NoVerdict
<1>1. TypeOK'
  BY DEF TypeOK, Jobs, Evaluations
<1>2. RendersRecorded'
  BY DEF RendersRecorded
<1>3. RendersOnce'
  BY DEF RendersOnce
<1>4. SessionKeeps'
  BY DEF SessionKeeps
<1>5. EvaluationsFit'
  BY DEF EvaluationsFit
<1>6. FinalSteps'
  BY DEF FinalSteps
<1>7. FilmIsJudged'
  BY DEF FilmIsJudged, SessionKeeps
<1> QED  BY <1>1, <1>2, <1>3, <1>4, <1>5, <1>6, <1>7

\* A render is done: only a shot nobody has recorded.
LEMMA RenderedInv ==
  ASSUME Inv, NEW s \in Shots, Rendered(s)
  PROVE  Inv'
<1> USE FreshIsNew DEF Inv, Rendered, NoFault, disk, Written
<1>1. TypeOK'
  BY DEF TypeOK, Jobs
<1>2. RendersRecorded'
  BY DEF RendersRecorded, TypeOK, RendersOnce
<1>3. RendersOnce'
  BY DEF RendersOnce, TypeOK
<1>4. SessionKeeps'
  BY DEF SessionKeeps, NoJobs, NoJob
<1>5. EvaluationsFit'
  BY DEF EvaluationsFit
<1>6. FinalSteps'
  BY DEF FinalSteps
<1>7. FilmIsJudged'
  BY DEF FilmIsJudged
<1> QED  BY <1>1, <1>2, <1>3, <1>4, <1>5, <1>6, <1>7

\* A render fails.
LEMMA RenderFailsInv ==
  ASSUME Inv, NEW s \in Shots, RenderFails(s)
  PROVE  Inv'
<1> USE DEF Inv, RenderFails, Fault, disk
<1>1. TypeOK'
  BY DEF TypeOK, Jobs
<1>2. RendersRecorded'
  BY DEF RendersRecorded, TypeOK
<1>3. RendersOnce'
  BY DEF RendersOnce, TypeOK
<1>4. SessionKeeps'
  BY DEF SessionKeeps, NoJobs, NoJob
<1>5. EvaluationsFit'
  BY DEF EvaluationsFit
<1>6. FinalSteps'
  BY DEF FinalSteps
<1>7. FilmIsJudged'
  BY DEF FilmIsJudged
<1> QED  BY <1>1, <1>2, <1>3, <1>4, <1>5, <1>6, <1>7

\* An orphan writes over what is not recorded, or spoils it.
LEMMA OrphanWritesInv ==
  ASSUME Inv, NEW s \in Shots, OrphanWrites(s)
  PROVE  Inv'
<1> USE FreshIsNew DEF Inv, OrphanWrites, NoFault, process, disk, Written
<1>1. spoiled' \in BOOLEAN /\ (spoiled => spoiled')
  <2>1. spoiled \in BOOLEAN
    BY DEF TypeOK
  <2> DEFINE recorded == s \in Completed(remote) \cup Completed(jobs) \cup Completed(saved.jobs)
  <2>2. spoiled' = (spoiled \/ recorded) \/ spoiled' = spoiled
    BY DEF renders
  <2> QED  BY ONLY <2>1, <2>2, Zenon
<1>2. s \in Completed(remote) \cup Completed(jobs) \cup Completed(saved.jobs) =>
        spoiled' \/ clips' = clips
  OBVIOUS
<1>3. TypeOK'
  BY <1>1, <1>2 DEF TypeOK, Jobs
<1>4. RendersRecorded'
  BY <1>1, <1>2 DEF RendersRecorded, TypeOK
<1>5. RendersOnce'
  BY <1>1, <1>2 DEF RendersOnce
<1>6. SessionKeeps'
  BY <1>1, <1>2 DEF SessionKeeps
<1>7. EvaluationsFit'
  BY <1>1, <1>2 DEF EvaluationsFit
<1>8. FinalSteps'
  BY <1>1, <1>2 DEF FinalSteps
<1>9. FilmIsJudged'
  BY <1>1, <1>2 DEF FilmIsJudged
<1> QED  BY <1>3, <1>4, <1>5, <1>6, <1>7, <1>8, <1>9

-----------------------------------------------------------------------------

LEMMA NextInv ==
  ASSUME Inv, [Next]_vars
  PROVE  Inv'
<1>1. CASE Run
  BY <1>1, StartInv, ResumeInv DEF Run
<1>2. CASE Step
  BY <1>2, SubmitInv, RefreshInv, SaveInv, PollLimitInv, FinalizeInv, EvaluateInv, KeepEvaluationInv,
     CollectInv, AssembleInv, AssembledInv, WriteEvidenceInv, CloseInv, ThrowInv DEF Step
<1>3. CASE Crash
  BY <1>3, CrashInv
<1>4. ASSUME NEW s \in Shots, Rendered(s) \/ RenderFails(s) \/ OrphanWrites(s)
      PROVE  Inv'
  BY <1>4, RenderedInv, RenderFailsInv, OrphanWritesInv
<1>5. CASE UNCHANGED vars
  BY <1>5 DEF Inv, vars, process, disk, renders, TypeOK, RendersRecorded, RendersOnce,
     SessionKeeps, EvaluationsFit, FinalSteps, FilmIsJudged
<1> QED  BY <1>1, <1>2, <1>3, <1>4, <1>5 DEF Next

LEMMA SpecInv == Spec => []Inv
<1> QED  BY InitInv, NextInv, PTL DEF Spec

\* A launch, its state file and its outputs keep their types (launch-bootstrap.mjs).
THEOREM VideoTypeCorrect == Spec => []TypeOK
<1>1. Inv => TypeOK
  BY DEF Inv
<1> QED  BY <1>1, SpecInv, PTL

\* What a launch saved can be trusted again wherever it ended: verifyLaunchRunStateArtifacts()
\* refuses a state file only when an orphaned renderer wrote over a recorded render.
THEOREM SavedStateIsSound == Spec => []StateIsSound
<1>1. Inv => StateIsSound
  BY DEF Inv, StateIsSound, Verified, RendersRecorded, EvaluationsFit
<1> QED  BY <1>1, SpecInv, PTL

\* A film with evidence is the one the evidence is of.  It is made of clips that passed the
\* quality gate, unless a renderer that outlived its launch wrote over one: runFfmpegAssembly()
\* looks only whether there is a file.
THEOREM JudgedFilm == Spec => []FilmIsJudged
<1>1. Inv => FilmIsJudged
  BY DEF Inv
<1> QED  BY <1>1, SpecInv, PTL

-----------------------------------------------------------------------------

\* What no step does again.
Kept ==
  /\ \A s \in Shots :
       /\ s \in Completed(saved.jobs) =>
            (saved'.jobs[s] = saved.jobs[s]) /\ (remote'[s] = NoJob \/ remote[s] # NoJob)
       /\ s \in Judged(saved.evals) => saved'.evals[s] = saved.evals[s]
  /\ evidence # Absent => UNCHANGED <<film, evidence>>
  /\ saved.stage = "completed" => UNCHANGED saved

\* A step that leaves the disk alone and gives no recorded shot to the runtime.
LEMMA KeptByIdleDisk ==
  ASSUME UNCHANGED disk,
         \A s \in Completed(saved.jobs) : remote'[s] = NoJob \/ remote[s] # NoJob
  PROVE  Kept
BY DEF Kept, disk

\* A step that saves the session.
LEMMA KeptBySaving ==
  ASSUME Inv, pc # "off", NEW stage, NEW done, remote' \in {remote, NoJobs},
         saved' = [stage |-> stage, jobs |-> jobs, evals |-> evals, film |-> done],
         UNCHANGED <<film, evidence>>
  PROVE  Kept
BY DEF Kept, Inv, SessionKeeps, NoJobs

LEMMA NextKeeps ==
  ASSUME Inv, Next
  PROVE  Kept
<1>1. CASE Run
  BY <1>1, KeptByIdleDisk DEF Run, Start, Resume, Inv, SessionKeeps, NoJobs
<1>2. CASE Submit
  <2> DEFINE todo == {s \in Shots : jobs[s].status = "pending"}
  <2>1. todo # {} => First(todo) \in todo
    BY FirstIsIn
  <2>2. \A s \in Completed(saved.jobs) : s \notin todo
    BY <1>2 DEF Submit, Inv, SessionKeeps
  <2>3. \A s \in Completed(saved.jobs) : remote'[s] = remote[s]
    BY <1>2, <2>1, <2>2 DEF Submit, Inv, TypeOK
  <2> QED  BY <1>2, <2>3, KeptByIdleDisk DEF Submit
<1>3. CASE Refresh \/ PollLimit \/ Evaluate \/ Collect
  BY <1>3, KeptByIdleDisk DEF Refresh, PollLimit, Evaluate, Collect
<1>4. CASE Save \/ Finalize \/ KeepEvaluation
  BY <1>4, KeptBySaving DEF Save, Finalize, KeepEvaluation, Persist
<1>5. CASE Close
  BY <1>5, KeptBySaving DEF Close, End
<1>6. CASE Assemble \/ Assembled \/ WriteEvidence
  BY <1>6 DEF Kept, Assemble, Assembled, WriteEvidence, Inv, FinalSteps
<1>7. CASE Throw
  BY <1>7, KeptByIdleDisk DEF Throw, End, NoJobs
<1>8. CASE Crash
  BY <1>8 DEF Kept, Crash, End, NoJobs
<1>9. ASSUME NEW s \in Shots, Rendered(s) \/ RenderFails(s) \/ OrphanWrites(s)
      PROVE  Kept
  BY <1>9, KeptByIdleDisk DEF Rendered, RenderFails, OrphanWrites, process, NoJob, Inv, TypeOK
<1> QED  BY <1>1, <1>2, <1>3, <1>4, <1>5, <1>6, <1>7, <1>8, <1>9 DEF Next, Step

\* However often a launch is run: no recorded render is submitted again, no judgement lost,
\* and no film with evidence made again (executeWan22Launch with resume).
THEOREM WorkIsKept == Spec => NothingRedone
<1>1. Inv /\ [Next]_vars => [Kept]_vars
  BY NextKeeps
<1> QED  BY <1>1, SpecInv, PTL DEF Spec, NothingRedone, Kept
=============================================================================
