---------------------------- MODULE SetupWizard ----------------------------
(***************************************************************************)
(* The first-run wizard: the pages that drive it (utteran_gui/web/app.js), *)
(* the service that runs one child after the other and remembers in        *)
(* settings.json which stages were completed (utteran_gui/setup_wizard.py, *)
(* settings.py), and what a new page does to resume.                       *)
(*                                                                         *)
(* The queue of operations hands out one job at a time.  save_state and    *)
(* record_preflight are one step each; recording the stage of a finished   *)
(* job reads settings.json in one step and writes it in the next.  The     *)
(* model of a page is the one its profile offers.                          *)
(***************************************************************************)
EXTENDS Naturals, Sequences, FiniteSets

CONSTANTS
    Pages,
    Profiles, Native,   \* profiles, and those with models for whisper.cpp
    MaxJobs,
    MaxMishaps          \* bound on failures, cancellations, pages left and restarts

VARIABLES
    settings,   \* settings.json
    tasks,      \* the jobs of this process, in the order of submission
    page,       \* what each page shows and remembers
    venvs,      \* profiles whose environment exists
    smoked,     \* whether a smoke test has passed in this process
    earned,     \* profiles and the stages that a job or a preflight of theirs completed
    strays,     \* stages in settings.json that were recorded under another profile
    mishaps

wizard == <<settings, tasks, page, venvs, smoked, earned, strays, mishaps>>

NoProfile == "none"
Tasks == <<"venv", "preflight", "vad_model", "diarization_model", "asr_model", "native", "smoke">>
TaskTerminal == {"completed", "failed", "cancelled"}

\* What _record_stage reads before it writes: the stages, whose they are and which
\* of them are strays.
NoMemo == [stages |-> {}, profile |-> NoProfile, strays |-> {}]

FreshPage == [at |-> "away", profile |-> NoProfile, diarize |-> TRUE, stages |-> {},
          resume |-> FALSE, job |-> 0]

WizardInit ==
    /\ settings = [started |-> FALSE, completed |-> FALSE, step |-> "welcome",
                   profile |-> NoProfile, diarize |-> TRUE, stages |-> {}]
    /\ tasks = <<>>
    /\ page = [p \in Pages |-> FreshPage]
    /\ venvs = {} /\ smoked = FALSE /\ earned = {} /\ strays = {}
    /\ mishaps = 0

(***************************************************************************)
(* settings.json.                                                          *)
(***************************************************************************)
\* status: without a profile the wizard resumes where one is chosen.
Status ==
    IF settings.profile = NoProfile /\ settings.step \notin {"welcome", "profile"}
    THEN [settings EXCEPT !.step = "profile", !.stages = {}] ELSE settings

\* start: only a wizard that was completed starts from nothing.
Started ==
    IF settings.completed
    THEN [settings EXCEPT !.started = TRUE, !.completed = FALSE, !.step = "profile",
                          !.profile = NoProfile, !.stages = {}]
    ELSE IF ~settings.started
    THEN [settings EXCEPT !.started = TRUE, !.step = "profile"]
    ELSE settings

\* save_state: the stages belong to the profile.
SavedState(step, pg) ==
    LET profile == IF pg.profile # NoProfile THEN pg.profile ELSE settings.profile IN
    [settings EXCEPT
        !.step = IF profile = NoProfile /\ step \notin {"welcome", "profile"} THEN "profile"
                 ELSE step,
        !.profile = profile, !.diarize = pg.diarize,
        !.stages = IF profile # settings.profile \/ profile = NoProfile THEN {} ELSE @]

(***************************************************************************)
(* Pages.                                                                  *)
(***************************************************************************)
Show(p, pg) == page' = [page EXCEPT ![p] = pg]
KeepsServer ==
    /\ UNCHANGED <<tasks, venvs, smoked, earned, mishaps>>
    /\ strays' = strays \cap settings'.stages

\* What goes wrong is counted.
Mishap      == mishaps < MaxMishaps /\ mishaps' = mishaps + 1
MayFail(ok) == IF ok THEN UNCHANGED mishaps ELSE Mishap

\* Opened from the settings, a completed wizard is started again; otherwise the page
\* resumes at the step that was saved, and an execution runs at once.
OpenPage(p) ==
    /\ page[p].at = "away"
    /\ IF settings.completed
       THEN settings' = Started /\ Show(p, [page[p] EXCEPT !.at = "welcome"])
       ELSE /\ UNCHANGED settings
            /\ Show(p, [at |-> IF Status.step = "execution" THEN "run" ELSE Status.step,
                        profile |-> Status.profile, diarize |-> Status.diarize,
                        stages |-> Status.stages, resume |-> "venv" \in Status.stages, job |-> 0])
    /\ KeepsServer

WizardBegin(p) ==
    /\ page[p].at = "welcome"
    /\ settings' = Started
    /\ Show(p, [page[p] EXCEPT !.at = "profile"])
    /\ KeepsServer

Save(p, step, pg) ==
    /\ settings' = SavedState(step, pg)
    /\ Show(p, [pg EXCEPT !.at = IF step = "execution" THEN "run" ELSE step])
    /\ KeepsServer

ProfileNext(p, profile) ==
    page[p].at = "profile" /\ Save(p, "diarization", [page[p] EXCEPT !.profile = profile])

DiarizationNext(p, want) ==
    /\ page[p].at = "diarization"
    /\ Save(p, IF want THEN "token" ELSE "model", [page[p] EXCEPT !.diarize = want])

\* The token is there, or diarization is given up; a resumed execution goes on.
TokenNext(p, want) ==
    /\ page[p].at = "token"
    /\ Save(p, IF page[p].resume THEN "execution" ELSE "model", [page[p] EXCEPT !.diarize = want])

ModelChoiceNext(p) == page[p].at = "model" /\ Save(p, "confirm", page[p])
ConfirmStart(p)    == page[p].at = "confirm" /\ Save(p, "execution", page[p])

ConfirmBack(p) ==
    /\ page[p].at = "confirm"
    /\ Show(p, [page[p] EXCEPT !.at = "model"])
    /\ UNCHANGED settings /\ KeepsServer

\* wizardRunUnattended asks for the stages once, when it begins.
RunUnattended(p) ==
    /\ page[p].at = "run"
    /\ IF page[p].profile = NoProfile
       THEN settings' = SavedState("profile", page[p]) /\ Show(p, [page[p] EXCEPT !.at = "profile"])
       ELSE UNCHANGED settings
            /\ Show(p, [page[p] EXCEPT !.at = "progress", !.stages = Status.stages])
    /\ KeepsServer

Applies(task, pg) ==
    /\ task \notin pg.stages
    /\ task \in {"preflight", "diarization_model"} => pg.diarize
    /\ task = "native" => pg.profile \in Native

\* The stages that are left, and the first of them.
Remaining(pg) == {n \in DOMAIN Tasks : Applies(Tasks[n], pg)}
NextTask(pg)  == Tasks[CHOOSE n \in Remaining(pg) : \A k \in Remaining(pg) : n <= k]

AtWork(p) == page[p].at = "progress" /\ page[p].job = 0

\* The next job is submitted; without the environment only its build is accepted.
NextJob(p) ==
    /\ AtWork(p) /\ Remaining(page[p]) # {}
    /\ LET task == NextTask(page[p]) IN
       /\ task # "preflight"
       /\ IF task # "venv" /\ page[p].profile \notin venvs
          THEN Show(p, [page[p] EXCEPT !.at = "error"]) /\ UNCHANGED tasks
          ELSE /\ Len(tasks) < MaxJobs
               /\ tasks' = Append(tasks, [task |-> task, profile |-> page[p].profile,
                                       status |-> "waiting", cancelled |-> FALSE, ok |-> FALSE,
                                       memo |-> NoMemo])
               /\ Show(p, [page[p] EXCEPT !.job = Len(tasks) + 1])
    /\ UNCHANGED <<settings, venvs, smoked, earned, strays, mishaps>>

\* record_preflight, and the answer that makes the page go on or ask for the token.
Preflight(p, available) ==
    /\ AtWork(p) /\ Remaining(page[p]) # {} /\ NextTask(page[p]) = "preflight"
    /\ available => page[p].profile \in venvs
    /\ settings' = IF available THEN [settings EXCEPT !.stages = @ \cup {"preflight"}]
                   ELSE [settings EXCEPT !.stages = @ \ {"preflight"}, !.step = "token"]
    /\ Show(p, IF available THEN [page[p] EXCEPT !.stages = @ \cup {"preflight"}]
               ELSE [page[p] EXCEPT !.at = "token", !.resume = TRUE])
    /\ earned' = IF available THEN earned \cup {<<page[p].profile, "preflight">>} ELSE earned
    /\ strays' = IF available /\ "preflight" \notin settings.stages
                            /\ page[p].profile # settings.profile
                 THEN strays \cup {"preflight"} ELSE strays \cap settings'.stages
    /\ MayFail(available)
    /\ UNCHANGED <<tasks, venvs, smoked>>

\* The poller sees the end of the job; a failure over the token leads to its step.
JobSeen(p) ==
    /\ page[p].at = "progress" /\ page[p].job # 0
    /\ LET job == tasks[page[p].job] IN
       \/ /\ job.status = "completed"
          /\ Show(p, [page[p] EXCEPT !.stages = @ \cup {job.task}, !.job = 0])
          /\ UNCHANGED settings
       \/ /\ job.status \in TaskTerminal \ {"completed"}
          /\ Show(p, [page[p] EXCEPT !.at = "error", !.job = 0])
          /\ UNCHANGED settings
       \/ /\ job.status = "failed" /\ page[p].diarize /\ job.task \notin {"venv", "native"}
          /\ settings' = SavedState("token", page[p])
          /\ Show(p, [page[p] EXCEPT !.at = "token", !.resume = TRUE, !.job = 0])
    /\ KeepsServer

Retry(p) ==
    /\ page[p].at = "error"
    /\ Show(p, [page[p] EXCEPT !.at = "run"])
    /\ UNCHANGED settings /\ KeepsServer

AllDone(p) ==
    /\ AtWork(p) /\ Remaining(page[p]) = {}
    /\ Show(p, [page[p] EXCEPT !.at = "done"])
    /\ UNCHANGED settings /\ KeepsServer

\* complete: refused unless a smoke test has passed in this process.
FinishSetup(p) ==
    /\ page[p].at = "done" /\ (settings.completed \/ smoked)
    /\ settings' = [settings EXCEPT !.completed = TRUE]
    /\ Show(p, [page[p] EXCEPT !.at = "away"])
    /\ KeepsServer

\* "Later", another view, a closed or reloaded page: the service goes on.
LeaveWizard(p) ==
    /\ page[p].at # "away" /\ Mishap
    /\ Show(p, FreshPage)
    /\ UNCHANGED <<settings, tasks, venvs, smoked, earned, strays>>

(***************************************************************************)
(* Jobs.                                                                   *)
(***************************************************************************)
TaskBecomes(i, status) == tasks' = [tasks EXCEPT ![i].status = status, ![i].memo = NoMemo]
KeepsRest == UNCHANGED <<page, smoked>>

\* The queue hands out the first that waits when nothing runs; a job cancelled before
\* its child was started is not started.
RunTask(i) ==
    /\ tasks[i].status = "waiting"
    /\ \A k \in 1 .. i - 1 : tasks[k].status \in TaskTerminal
    /\ \E status \in {"running", "failed"} : TaskBecomes(i, status) /\ MayFail(status = "running")
    /\ UNCHANGED <<settings, venvs, earned, strays>> /\ KeepsRest

TaskEnds(i, ok) ==
    /\ tasks[i].status = "running"
    /\ tasks' = [tasks EXCEPT ![i].status = "ended", ![i].ok = ok]
    /\ venvs' = IF ok /\ tasks[i].task = "venv" THEN venvs \cup {tasks[i].profile} ELSE venvs
    /\ MayFail(ok)
    /\ UNCHANGED <<settings, earned, strays>> /\ KeepsRest

\* cancel: the child is killed if it still runs; it may have ended by itself.
CancelTask(p) ==
    /\ page[p].at = "progress" /\ page[p].job # 0
    /\ LET i == page[p].job IN
       /\ tasks[i].status \in {"waiting", "running", "ended"} /\ ~tasks[i].cancelled
       /\ tasks' = [tasks EXCEPT ![i].cancelled = TRUE,
                                 ![i].status = IF @ = "waiting" THEN "cancelled"
                                               ELSE IF @ = "running" THEN "ended" ELSE @]
    /\ Mishap
    /\ UNCHANGED <<settings, venvs, earned, strays>> /\ KeepsRest

\* A plausible slip: the exit code decides, also for a job that was cancelled.
ExitDecides(i) == IF tasks[i].ok THEN "recording" ELSE "failed"

Outcome(i) ==
    IF tasks[i].cancelled THEN "cancelled"
    ELSE IF tasks[i].ok THEN "recording" ELSE "failed"

\* _finish, and the stages that _record_stage reads.
Finish(i) ==
    /\ tasks[i].status = "ended"
    /\ tasks' = [tasks EXCEPT ![i].status = Outcome(i), ![i].cancelled = FALSE,
                              ![i].memo = [stages |-> settings.stages, profile |-> settings.profile,
                                           strays |-> strays]]
    /\ earned' = IF tasks[i].ok /\ ~tasks[i].cancelled
                 THEN earned \cup {<<tasks[i].profile, tasks[i].task>>} ELSE earned
    /\ UNCHANGED <<settings, strays, venvs, mishaps>> /\ KeepsRest

\* What is recorded while settings.json has another profile than the job, or than when
\* its stages were read: nothing keeps the profile from being changed under a job.
Strayed(i) ==
    (IF tasks[i].profile = settings.profile THEN {} ELSE {tasks[i].task}) \cup
    (IF tasks[i].memo.profile = settings.profile THEN tasks[i].memo.strays ELSE tasks[i].memo.stages)

\* _record_stage writes what it read with its stage; a smoke test also completes the
\* wizard, in a second write.
RecordStage(i) ==
    /\ tasks[i].status = "recording"
    /\ IF tasks[i].task \in tasks[i].memo.stages
       THEN UNCHANGED <<settings, strays>>
       ELSE /\ settings' = [settings EXCEPT !.stages = tasks[i].memo.stages \cup {tasks[i].task}]
            /\ strays' = Strayed(i)
    /\ TaskBecomes(i, IF tasks[i].task = "smoke" THEN "completing" ELSE "completed")
    /\ smoked' = (smoked \/ tasks[i].task = "smoke")
    /\ UNCHANGED <<page, venvs, earned, mishaps>>

Complete(i) ==
    /\ tasks[i].status = "completing"
    /\ settings' = [settings EXCEPT !.completed = TRUE, !.step = "done"]
    /\ TaskBecomes(i, "completed")
    /\ UNCHANGED <<venvs, earned, strays, mishaps>> /\ KeepsRest

\* The process ends, with its children and its pages, and is started again.
RestartServer ==
    /\ Mishap
    /\ tasks' = <<>> /\ smoked' = FALSE
    /\ page' = [p \in Pages |-> FreshPage]
    /\ UNCHANGED <<settings, venvs, earned, strays>>

PageStep(p) ==
    \/ OpenPage(p) \/ WizardBegin(p)
    \/ \E profile \in Profiles : ProfileNext(p, profile)
    \/ \E want \in BOOLEAN : DiarizationNext(p, want) \/ TokenNext(p, want) \/ Preflight(p, want)
    \/ ModelChoiceNext(p) \/ ConfirmStart(p) \/ ConfirmBack(p)
    \/ RunUnattended(p) \/ NextJob(p) \/ JobSeen(p) \/ Retry(p) \/ AllDone(p) \/ FinishSetup(p)
    \/ CancelTask(p) \/ LeaveWizard(p)

JobStep(i) ==
    \/ RunTask(i) \/ Finish(i) \/ RecordStage(i) \/ Complete(i)
    \/ \E ok \in BOOLEAN : TaskEnds(i, ok)

WizardNext ==
    \/ \E p \in Pages : PageStep(p)
    \/ \E i \in DOMAIN tasks : JobStep(i)
    \/ RestartServer

WizardSpec == WizardInit /\ [][WizardNext]_wizard

EarnedStages == {done[2] : done \in earned}

(***************************************************************************)
(* Properties.                                                             *)
(***************************************************************************)
\* However pages are reloaded, jobs cancelled, profiles changed and the process restarted,
\* a stage counts as completed only if a job that was not cancelled, or a preflight,
\* completed it for the profile of the settings, but for a stray one, which a job completed
\* for some profile (setup_wizard.py:617 asks for none); the wizard counts as completed only
\* if a smoke test passed (complete: "only once a smoke test has actually passed"); and
\* never do two children run.
DoneIsEarned ==
    /\ \A stage \in settings.stages \ strays : <<settings.profile, stage>> \in earned
    /\ settings.stages \subseteq EarnedStages
    /\ settings.completed => "smoke" \in EarnedStages
    /\ Cardinality({i \in DOMAIN tasks : tasks[i].status \notin TaskTerminal \cup {"waiting"}}) <= 1
=============================================================================
