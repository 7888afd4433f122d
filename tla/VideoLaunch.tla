------------------------------ MODULE VideoLaunch ------------------------------
(***************************************************************************)
(* A launch of Hercules Video (executeWan22Launch of                       *)
(* hercules-video/launch-bootstrap.mjs, with the execution service, the    *)
(* runtime that renders in the same process and the state file): every     *)
(* shot is rendered, judged by the quality gate, and the clips assembled   *)
(* into a film, of which an evidence file is written.  The process may end *)
(* at any step, by an error of the step or from outside; the launch is     *)
(* then run again with resume.  Renderers are child processes: one may     *)
(* outlive the process or its own timeout and write its file later.        *)
(*                                                                         *)
(* A launch polls for so long and then gives up, with renders under way.   *)
(*                                                                         *)
(* The content of a clip stands for its checksum; it is a number, another  *)
(* one every time the file is written.                                     *)
(***************************************************************************)
EXTENDS Integers, FiniteSets

CONSTANTS
  NShots,        \* shots of the storyboard
  Absent, Torn,  \* no file; a file that is not complete
  MaxFaults      \* bound: renders that fail and processes that end before their time

Shots == 1..NShots

\* What a session knows of a shot, and what the evaluator says of its clip.
Jobs == [status : {"pending", "running", "completed", "failed"}, art : Nat]
Evaluations == [art : Nat, verdict : {"none", "good", "bad"}]

ASSUME LaunchAssumption ==
  /\ NShots \in Nat \ {0} /\ MaxFaults \in Nat
  /\ {Absent, Torn} \cap [film : [Shots -> Nat], evals : [Shots -> Evaluations]] = {}

VARIABLES
  pc,        \* what the process is about to do, or "off"
  jobs,      \* the jobs of its session: [status, art]
  evals,     \* its evaluations: [art, verdict]
  remote,    \* the jobs of its runtime: [status, art]
  saved,     \* the state file: [stage, jobs, evals, film]
  clips,     \* the file of each shot
  film,      \* the final output
  evidence,  \* the evidence file: [film, evals]
  orphans,   \* shots whose renderer goes on without anybody waiting for it
  faults,    \* renders that failed and processes that ended
  spoiled    \* history: an orphan wrote over a render that had been accepted

process == <<pc, jobs, evals, remote>>
disk == <<saved, film, evidence>>
renders == <<clips, orphans, spoiled>>
vars == <<process, disk, renders, faults>>

NoJob == [status |-> "pending", art |-> 0]
NoJobs == [s \in Shots |-> NoJob]
NoVerdict == [art |-> 0, verdict |-> "none"]
NoVerdicts == [s \in Shots |-> NoVerdict]
Completed(js) == {s \in Shots : js[s].status = "completed"}
Judged(es) == {s \in Shots : es[s].verdict # "none"}
First(S) == CHOOSE s \in S : \A t \in S : s <= t

Init ==
  /\ pc = "off" /\ jobs = NoJobs /\ evals = NoVerdicts /\ remote = NoJobs
  /\ saved = [stage |-> "none", jobs |-> NoJobs, evals |-> NoVerdicts, film |-> Absent]
  /\ film = Absent /\ evidence = Absent
  /\ clips = [s \in Shots |-> 0]
  /\ orphans = {} /\ faults = 0 /\ spoiled = FALSE

Fault == faults < MaxFaults /\ faults' = faults + 1
NoFault == UNCHANGED faults

\* persistState()
Persist(stage) ==
  saved' = [stage |-> stage, jobs |-> jobs, evals |-> evals, film |-> Absent]

\* The process is gone, with its runtime; renderers may go on.
End ==
  /\ pc' = "off" /\ jobs' = NoJobs /\ evals' = NoVerdicts /\ remote' = NoJobs
  /\ \E S \in SUBSET {s \in Shots : remote[s].status = "running"} : orphans' = orphans \cup S
  /\ UNCHANGED <<clips, spoiled>>

-----------------------------------------------------------------------------
\* Start, resume and submission

\* Without resume: none of the files may exist.
Start ==
  /\ pc = "off"
  /\ saved.stage = "none" /\ film = Absent /\ evidence = Absent
  /\ pc' = "submit"
  /\ UNCHANGED <<jobs, evals, remote, disk, renders>> /\ NoFault

\* verifyLaunchRunStateArtifacts()
Verified ==
  /\ \A s \in Completed(saved.jobs) : clips[s] = saved.jobs[s].art
  /\ \A s \in Judged(saved.evals) :
       s \in Completed(saved.jobs) /\ saved.evals[s].art = saved.jobs[s].art

\* A bug the properties catch: every shot is rendered again.
ResumeAll ==
  /\ pc = "off"
  /\ saved.stage \in {"rendering", "finalizing"} /\ Verified
  /\ film = Absent /\ evidence = Absent
  /\ pc' = "submit" /\ evals' = saved.evals /\ jobs' = NoJobs
  /\ UNCHANGED <<remote, disk, renders>> /\ NoFault

\* A bug the properties catch: a job that failed is kept like one that completed.
ResumeFailed ==
  /\ pc = "off"
  /\ saved.stage \in {"rendering", "finalizing"} /\ Verified
  /\ film = Absent /\ evidence = Absent
  /\ pc' = "submit" /\ evals' = saved.evals
  /\ jobs' = [s \in Shots |->
                IF saved.jobs[s].status \in {"completed", "failed"} THEN saved.jobs[s] ELSE NoJob]
  /\ UNCHANGED <<remote, disk, renders>> /\ NoFault

\* With resume: the state file, its completed renders as they were recorded, and
\* no output.  Jobs that did not complete begin anew.
Resume ==
  /\ pc = "off"
  /\ saved.stage \in {"rendering", "finalizing"} /\ Verified
  /\ film = Absent /\ evidence = Absent
  /\ pc' = "submit" /\ evals' = saved.evals
  /\ jobs' = [s \in Shots |-> IF s \in Completed(saved.jobs) THEN saved.jobs[s] ELSE NoJob]
  /\ UNCHANGED <<remote, disk, renders>> /\ NoFault

\* The loop of start() and resume() over the shots; the runtime begins at once.
Submit ==
  LET todo == {s \in Shots : jobs[s].status = "pending"} IN
  /\ pc = "submit"
  /\ IF todo = {}
     THEN pc' = "begin" /\ UNCHANGED <<jobs, remote>>
     ELSE /\ jobs' = [jobs EXCEPT ![First(todo)].status = "running"]
          /\ remote' = [remote EXCEPT ![First(todo)].status = "running"]
          /\ UNCHANGED pc
  /\ UNCHANGED <<evals, disk, renders>> /\ NoFault

-----------------------------------------------------------------------------
\* Rendering

\* The contents of the clip of s that are recorded somewhere, and another one.
Known(s) == {clips[s]} \cup {f[s].art : f \in {jobs, evals, remote, saved.jobs, saved.evals}}
Fresh(s) == CHOOSE n \in 1..7 : n \notin Known(s)

Written(s) == clips' = [clips EXCEPT ![s] = Fresh(s)]

\* A bug the properties catch: the checksum is that of the file before the render.
RenderedBefore(s) ==
  /\ remote[s].status = "running"
  /\ Written(s)
  /\ remote' = [remote EXCEPT ![s] = [status |-> "completed", art |-> clips[s]]]
  /\ UNCHANGED <<pc, jobs, evals, disk, orphans, spoiled>> /\ NoFault

\* #execute() and render(): the renderer is done and its file is hashed.
Rendered(s) ==
  /\ remote[s].status = "running"
  /\ Written(s)
  /\ remote' = [remote EXCEPT ![s] = [status |-> "completed", art |-> clips'[s]]]
  /\ UNCHANGED <<pc, jobs, evals, disk, orphans, spoiled>> /\ NoFault

\* It fails, or runs into its timeout and may go on all the same.
RenderFails(s) ==
  /\ remote[s].status = "running"
  /\ Fault
  /\ remote' = [remote EXCEPT ![s].status = "failed"]
  /\ orphans' \in {orphans, orphans \cup {s}}
  /\ UNCHANGED <<pc, jobs, evals, disk, clips, spoiled>>

\* A renderer nobody waits for writes its file; or it ends without.
OrphanWrites(s) ==
  /\ s \in orphans
  /\ orphans' = orphans \ {s}
  /\ \/ /\ Written(s)
        /\ spoiled' = (spoiled \/ s \in Completed(remote) \cup Completed(jobs)
                                        \cup Completed(saved.jobs))
     \/ UNCHANGED <<clips, spoiled>>
  /\ UNCHANGED <<process, disk>> /\ NoFault

\* A bug the properties catch: a job of the runtime is taken for completed.
RefreshUnchecked ==
  /\ pc \in {"poll", "again"}
  /\ pc' = "save"
  /\ jobs' = [s \in Shots |->
       IF s \in Completed(jobs) THEN jobs[s] ELSE [remote[s] EXCEPT !.status = "completed"]]
  /\ UNCHANGED <<evals, remote, disk, renders>> /\ NoFault

\* refresh(): the runtime is asked for every job that is not over.
Refresh ==
  /\ pc \in {"poll", "again"}
  /\ pc' = "save"
  /\ jobs' = [s \in Shots |-> IF jobs[s].status = "running" THEN remote[s] ELSE jobs[s]]
  /\ UNCHANGED <<evals, remote, disk, renders>> /\ NoFault

\* The session is saved, before the first poll and after each; the loop ends when all is
\* rendered, or something failed.
Save ==
  /\ pc \in {"begin", "save"}
  /\ Persist("rendering")
  /\ pc' = IF \E s \in Shots : jobs[s].status = "failed" THEN "stop"
           ELSE IF Completed(jobs) = Shots THEN "finalize"
           ELSE IF pc = "begin" THEN "poll" ELSE "again"
  /\ UNCHANGED <<jobs, evals, remote, film, evidence, renders>> /\ NoFault

\* The polls are used up with renders under way: the launch throws.
PollLimit ==
  /\ pc = "again"
  /\ pc' = "stop"
  /\ UNCHANGED <<jobs, evals, remote, disk, renders>> /\ NoFault

-----------------------------------------------------------------------------
\* Finalization

Finalize ==
  /\ pc = "finalize"
  /\ Persist("finalizing")
  /\ pc' = "evaluate"
  /\ UNCHANGED <<jobs, evals, remote, film, evidence, renders>> /\ NoFault

\* buildEvaluatedRounds(): the first shot without an evaluation of its artifact.  One
\* of another artifact is an error.
Evaluate ==
  LET s == First({t \in Shots : evals[t].art # jobs[t].art}) IN
  /\ pc = "evaluate"
  /\ \E t \in Shots : evals[t].art # jobs[t].art
  /\ IF s \in Judged(evals)
     THEN pc' = "stop" /\ UNCHANGED evals
     ELSE /\ \E v \in {"good", "bad"} :
               evals' = [evals EXCEPT ![s] = [art |-> jobs[s].art, verdict |-> v]]
          /\ pc' = "keep"
  /\ UNCHANGED <<jobs, remote, disk, renders>> /\ NoFault

\* The evaluation is saved before the next one.
KeepEvaluation ==
  /\ pc = "keep"
  /\ Persist("finalizing")
  /\ pc' = "evaluate"
  /\ UNCHANGED <<jobs, evals, remote, film, evidence, renders>> /\ NoFault

\* A bug the properties catch: the minimum score is not asked for.
CollectAnyway ==
  /\ pc = "evaluate"
  /\ \A s \in Shots : evals[s].art = jobs[s].art
  /\ pc' = "assemble"
  /\ UNCHANGED <<jobs, evals, remote, disk, renders>> /\ NoFault

\* collectCampaignWinners(): a shot below the minimum score ends the launch.
Collect ==
  /\ pc = "evaluate"
  /\ \A s \in Shots : evals[s].art = jobs[s].art
  /\ pc' = IF \A s \in Shots : evals[s].verdict = "good" THEN "assemble" ELSE "stop"
  /\ UNCHANGED <<jobs, evals, remote, disk, renders>> /\ NoFault

\* runFfmpegAssembly(): begins the output file, whatever was there.
Assemble ==
  /\ pc = "assemble"
  /\ film' = Torn
  /\ pc' = "assembling"
  /\ UNCHANGED <<jobs, evals, remote, saved, evidence, renders>> /\ NoFault

\* It is made of the clips as they are now.
Assembled ==
  /\ pc = "assembling"
  /\ film' = clips
  /\ pc' = "evidence"
  /\ UNCHANGED <<jobs, evals, remote, saved, evidence, renders>> /\ NoFault

\* writeLaunchEvidenceBundle(): with "wx".
WriteEvidence ==
  /\ pc = "evidence"
  /\ IF evidence = Absent
     THEN evidence' = [film |-> film, evals |-> evals] /\ pc' = "close"
     ELSE pc' = "stop" /\ UNCHANGED evidence
  /\ UNCHANGED <<jobs, evals, remote, saved, film, renders>> /\ NoFault

\* The state is completed, and so is the launch.
Close ==
  /\ pc = "close"
  /\ saved' = [stage |-> "completed", jobs |-> jobs, evals |-> evals, film |-> film]
  /\ End
  /\ UNCHANGED <<film, evidence>> /\ NoFault

\* The launch throws.
Throw == pc = "stop" /\ End /\ UNCHANGED disk /\ NoFault

\* The process ends before its time: a submission, a health check, the evaluator,
\* ffmpeg or a write fails, it is killed or the power goes.
Crash ==
  /\ pc # "off"
  /\ Fault
  /\ End
  /\ evidence' \in IF pc = "evidence" /\ evidence = Absent THEN {Absent, Torn} ELSE {evidence}
  /\ UNCHANGED <<saved, film>>

Step ==
  \/ Submit \/ Refresh \/ Save \/ PollLimit
  \/ Finalize \/ Evaluate \/ KeepEvaluation \/ Collect
  \/ Assemble \/ Assembled \/ WriteEvidence \/ Close \/ Throw

Run == Start \/ Resume

Next ==
  \/ Run \/ Step \/ Crash
  \/ \E s \in Shots : Rendered(s) \/ RenderFails(s) \/ OrphanWrites(s)

Spec == Init /\ [][Next]_vars

\* The process goes on, a renderer ends or runs into its timeout, and the launch is
\* run again as long as it accepts it.
FairSpec ==
  /\ Spec
  /\ WF_vars(Step) /\ WF_vars(Run)
  /\ \A s \in Shots : WF_vars(Rendered(s))

-----------------------------------------------------------------------------

TypeOK ==
  /\ pc \in {"off", "submit", "begin", "poll", "save", "again", "finalize", "evaluate", "keep",
             "assemble", "assembling", "evidence", "close", "stop"}
  /\ jobs \in [Shots -> Jobs] /\ remote \in [Shots -> Jobs] /\ saved.jobs \in [Shots -> Jobs]
  /\ evals \in [Shots -> Evaluations] /\ saved.evals \in [Shots -> Evaluations]
  /\ saved.stage \in {"none", "rendering", "finalizing", "completed"}
  /\ \A js \in {jobs, remote, saved.jobs} : \A s \in Shots : js[s].art > 0 <=> s \in Completed(js)
  /\ clips \in [Shots -> Nat]
  /\ film \in {Absent, Torn} \/ film \in [Shots -> Nat]
  /\ orphans \subseteq Shots /\ faults \in 0..MaxFaults /\ spoiled \in BOOLEAN

\* Wherever the process ended, what it saved can be trusted again: as long as no orphan
\* wrote over it every completed render is the one that was recorded, and every
\* evaluation is of such a render.  No resume is refused for them.
StateIsSound == saved.stage # "none" /\ ~spoiled => Verified

\* A film with evidence is the one the evidence is of, and made of clips all of which
\* passed the quality gate, as long as no orphan wrote over one; a launch is completed
\* only with both.
FilmIsJudged ==
  /\ evidence \notin {Absent, Torn} =>
       /\ evidence.film = film
       /\ ~spoiled => \A s \in Shots : evidence.evals[s] = [art |-> film[s], verdict |-> "good"]
  /\ saved.stage = "completed" => evidence \notin {Absent, Torn} /\ saved.film = evidence.film

\* However often the launch is run, a render the state file has as completed is never
\* submitted again, nor an evaluation made again or lost, a film of which there is evidence
\* is not made again, nor the evidence, and a launch that was completed is left alone.
NothingRedone ==
  [][/\ \A s \in Shots :
          /\ s \in Completed(saved.jobs) =>
               (saved'.jobs[s] = saved.jobs[s]) /\ (remote'[s] = NoJob \/ remote[s] # NoJob)
          /\ s \in Judged(saved.evals) => saved'.evals[s] = saved.evals[s]
     /\ evidence # Absent => UNCHANGED <<film, evidence>>
     /\ saved.stage = "completed" => UNCHANGED saved]_vars

\* What can be the end of it: the launch is completed; a shot was rejected; an orphan wrote
\* over a render; or a process ended between the start of the assembly and the last write
\* of the state, and what it left is in the way of every other.
Settled ==
  \/ saved.stage = "completed"
  \/ \E s \in Shots : saved.evals[s].verdict = "bad"
  \/ spoiled
  \/ pc = "off" /\ (film # Absent \/ evidence # Absent)

\* A launch that is run again as often as it fails comes to such an end, unless its polls
\* are used up before a render is done again and again: every resume submits anew what was
\* not completed, so that nothing but the time the renderers take ends this.
Settles == <>[]Settled \/ []<><<PollLimit>>_vars
=============================================================================
