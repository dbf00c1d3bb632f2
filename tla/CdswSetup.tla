-------------------------------- MODULE CdswSetup --------------------------------
(***************************************************************************)
(* cdsw_setup.py: the program setup.sh leaves in the background to deploy   *)
(* the IoT model and the VizApps server on CDSW.  main() runs the whole of  *)
(* deploy() again after any exception, so every step must cope with what    *)
(* the earlier attempts left on the server.  CDSW and VizApps are modelled  *)
(* by the state the calls read and write.                                   *)
(***************************************************************************)
EXTENDS Naturals, Sequences, Faults

CONSTANTS
  Releases,     \* the CDSW releases considered: the x of 1.x
  Attempts,     \* the retries of main()
  Phases,       \* how many outputs `cdsw status` shows while CDSW starts
  PhaseTime,    \* the longest a start that goes well shows one of them
  IdleTimeout,  \* idle_timeout_secs, in the same unit
  AppRestarts   \* the retries of wait_for_application_to_start

ASSUME CdswAssumption ==
  /\ Releases \subseteq Nat /\ Attempts \in Nat /\ AppRestarts \in Nat
  /\ Phases \in Nat \ {0} /\ PhaseTime \in Nat /\ IdleTimeout \in Nat
  /\ IdleTimeout >= Phases * PhaseTime

VARIABLES
  release,    \* the release of CDSW, 0 before it is installed
  phase,      \* how far CDSW has started: it is up beyond Phases
  hung,       \* its start will not go any further
  quiet,      \* time since phase changed
  made,       \* what exists there: users, settings, projects, files
  models,     \* the models of DEFAULT_MODEL_NAME, by status
  job,        \* the set-up job that was started last
  app,        \* the VizApps application
  admin,      \* the password of vizapps_admin
  vizUser,    \* the password of the VizApps user admin, or "none"
  deployer,   \* the step of deploy()
  retries,    \* main()'s retries left
  seen,       \* cdsw_outputs
  idle,       \* time since latest_change_timestamp
  unheard,    \* history: CDSW was restarted and the answer was lost: not in idle
  appTries,   \* wait_for_application_to_start's retries left
  anonymous   \* a log-in to VizApps was refused in this attempt and nobody noticed

serviceVars == <<release, phase, hung, quiet>>
serverVars  == <<made, models, job, app>>
vizVars     == <<admin, vizUser>>
attemptVars == <<retries, seen, idle, unheard, appTries, anonymous>>
cdswVars    == <<serviceVars, serverVars, vizVars, deployer, attemptVars>>

Things == {"user", "profile", "environment", "unauthenticated", "project", "files",
           "viz_project", "viz_engine"}

ModelStatuses == {"building", "deployed", "unhealthy"}

Steps == {"off", "startup", "api", "user", "profile", "environment", "unauthenticated",
          "model", "delete", "project", "upload", "runtime", "job", "start_job", "poll_job",
          "create_model", "app", "delete_app", "viz_project", "viz_engine", "create_app",
          "wait_model", "wait_app", "settings", "password", "change", "viz_user",
          "user_password", "done", "gave_up"}

\* The steps that only call the API: a call may be refused at each of them.
ApiSteps == Steps \ {"off", "startup", "done", "gave_up"}

CdswInit ==
  /\ release = 0
  /\ phase = 1 /\ hung = FALSE /\ quiet = 0
  /\ made = {} /\ models = <<>> /\ job = "none" /\ app = "none"
  /\ admin = "default" /\ vizUser = "none"
  /\ deployer = "off" /\ retries = Attempts
  /\ seen = {} /\ idle = 0 /\ unheard = FALSE
  /\ appTries = AppRestarts /\ anonymous = FALSE

\* is_cdsw_model_deployed and is_cdsw_model_healthy, on the status of a model.
IsDeployed(m) == m = "deployed"

IsHealthy(m) == m \in {"building", "deployed"}

\* Mutant: the last retry is the first to be counted.
RaiseTwice ==
  /\ IF retries > 1 THEN deployer' = "startup" /\ retries' = retries - 2
                    ELSE deployer' = "gave_up" /\ retries' = retries
  /\ seen' = {} /\ idle' = 0 /\ unheard' = FALSE
  /\ appTries' = AppRestarts /\ anonymous' = FALSE

\* main(): an exception ends the attempt; the next one is a new CdswDeployer.
Raise ==
  /\ IF retries > 0 THEN deployer' = "startup" /\ retries' = retries - 1
                    ELSE deployer' = "gave_up" /\ retries' = retries
  /\ seen' = {} /\ idle' = 0 /\ unheard' = FALSE
  /\ appTries' = AppRestarts /\ anonymous' = FALSE

\* The call has had its effect: go on, or its answer is lost and the client
\* raises.
Return(next) ==
  \/ deployer' = next /\ UNCHANGED <<attemptVars, faults>>
  \/ Fault /\ Raise

\* _api_call: an unexpected status code raises, and nothing has happened.
CallRefused ==
  /\ deployer \in ApiSteps
  /\ Fault /\ Raise
  /\ UNCHANGED <<serviceVars, serverVars, vizVars>>

-----------------------------------------------------------------------------
(* CDSW starts.  What it did before the program runs is of no interest.    *)

Progress ==
  /\ deployer # "off" /\ phase <= Phases /\ ~hung
  /\ phase' = phase + 1 /\ quiet' = 0
  /\ UNCHANGED <<release, hung, serverVars, vizVars, deployer, attemptVars, faults>>

Hang ==
  /\ deployer # "off" /\ phase <= Phases /\ ~hung
  /\ Fault /\ hung' = TRUE
  /\ UNCHANGED <<release, phase, quiet, serverVars, vizVars, deployer, attemptVars>>

\* Time passes while the watcher watches; it is counted up to the timeout.
Tick ==
  /\ deployer = "startup" /\ idle <= IdleTimeout
  /\ hung \/ (phase <= Phases /\ quiet < PhaseTime)
  /\ idle' = idle + 1 /\ quiet' = IF hung THEN quiet ELSE quiet + 1
  /\ UNCHANGED <<release, phase, hung, serverVars, vizVars, deployer, retries, seen,
                 unheard, appTries, anonymous, faults>>

\* The service is restarted: CDSW starts from the beginning.
Restarted == phase' = 1 /\ hung' = FALSE /\ quiet' = 0 /\ UNCHANGED release

\* Mutant: a restart does not count as a change.
RestartCdswUncounted == Restarted /\ UNCHANGED <<idle, unheard, faults>>

\* restart_cdsw: the watcher counts from a restart it has an answer to.  When the
\* answer is lost CDSW restarts all the same, but the exception is caught and the
\* time of the last change stays; when the request is refused nothing happens.
\* Either way the next turn asks again, unless it finds a new output.
RestartCdsw ==
  \/ Restarted /\ idle' = 0 /\ unheard' = FALSE /\ UNCHANGED faults
  \/ Restarted /\ Fault /\ unheard' = TRUE /\ UNCHANGED idle
  \/ Fault /\ UNCHANGED <<serviceVars, idle, unheard>>

\* wait_for_cdsw_startup, one turn: an output never seen before is a change, one
\* that came back (after a restart) is not.
PollStartup ==
  /\ deployer = "startup"
  /\ seen' = seen \cup {phase}
  /\ LET elapsed == IF phase \in seen THEN idle ELSE 0
         Counted == /\ idle' = elapsed /\ unheard' = (unheard /\ phase \in seen)
                    /\ UNCHANGED <<serviceVars, faults>>
     IN  \/ phase > Phases /\ deployer' = "api" /\ Counted
         \/ /\ phase <= Phases /\ UNCHANGED deployer
            /\ IF elapsed > IdleTimeout THEN RestartCdsw ELSE Counted
  /\ UNCHANGED <<serverVars, vizVars, retries, appTries, anonymous>>

\* Anything else that `cdsw status` prints, an error too, ends the watch.
MisreadStatus ==
  /\ deployer = "startup" /\ Fault /\ deployer' = "api"
  /\ UNCHANGED <<serviceVars, serverVars, vizVars, attemptVars>>

\* wait_for_cdsw_api: time-outs and refused connections are waited out.
ApiAnswers ==
  /\ deployer = "api" /\ phase > Phases
  /\ Return("user")
  /\ UNCHANGED <<serviceVars, serverVars, vizVars>>

-----------------------------------------------------------------------------
(* The user and the site.                                                  *)

\* The ensure_ and set_ methods: the thing is there when the call returns.
Ensure(at, thing, next) ==
  /\ deployer = at /\ made' = made \cup {thing} /\ Return(next)
  /\ UNCHANGED <<serviceVars, models, job, app, vizVars>>

\* cdsw_ensure_user: "unprocessable" means that the user exists.
EnsureUser == Ensure("user", "user", "profile")

EnsureEngineProfile == Ensure("profile", "profile", "environment")

SetEnvVariable ==
  Ensure("environment", "environment", IF release >= 7 THEN "unauthenticated" ELSE "model")

PatchSiteConfig == Ensure("unauthenticated", "unauthenticated", "model")

-----------------------------------------------------------------------------
(* deploy_model.                                                           *)

\* deploy(): what follows the model.
AfterModel == IF release >= 7 THEN "app" ELSE "wait_model"

\* Mutant: only a deployed model is left alone.
CheckModelStrict ==
  /\ deployer = "model"
  /\ Return(IF models = <<>> THEN "project"
            ELSE IF IsDeployed(models[1]) THEN AfterModel ELSE "delete")
  /\ UNCHANGED <<serviceVars, serverVars, vizVars>>

\* Mutant: a model is never looked for.
CheckModelNot ==
  /\ deployer = "model" /\ Return("project")
  /\ UNCHANGED <<serviceVars, serverVars, vizVars>>

\* A model that is deployed or on its way is left alone, one that is not is
\* deleted with its project.
CheckModel ==
  /\ deployer = "model"
  /\ Return(IF models = <<>> THEN "project"
            ELSE IF IsHealthy(models[1]) THEN AfterModel ELSE "delete")
  /\ UNCHANGED <<serviceVars, serverVars, vizVars>>

DeleteProject ==
  /\ deployer = "delete" /\ Return("project")
  /\ made' = made \ {"project", "files"} /\ models' = <<>> /\ job' = "none"
  /\ UNCHANGED <<serviceVars, app, vizVars>>

EnsureProject == Ensure("project", "project", "upload")

\* The set-up script and the model, uploaded over what is there.
UploadFiles ==
  Ensure("upload", "files", IF release >= 10 THEN "runtime" ELSE "job")

\* cdsw_find_runtime asks every second, 600 times, then raises.
FindRuntime ==
  /\ deployer = "runtime" /\ Return("job")
  /\ UNCHANGED <<serviceVars, serverVars, vizVars>>

\* A job of its own in every attempt.
CreateJob ==
  /\ deployer = "job" /\ Return("start_job")
  /\ job' = "created" /\ UNCHANGED <<serviceVars, made, models, app, vizVars>>

StartJob ==
  /\ deployer = "start_job" /\ Return("poll_job")
  /\ job' = "running" /\ UNCHANGED <<serviceVars, made, models, app, vizVars>>

\* A job that failed is started again; any other end is waited on for ever.
PollJob ==
  /\ deployer = "poll_job" /\ job \in {"succeeded", "failed"}
  /\ Return(IF job = "succeeded" THEN "create_model" ELSE "start_job")
  /\ UNCHANGED <<serviceVars, serverVars, vizVars>>

\* cdsw_get_project_engine_image and cdsw_create_model.
CreateModel ==
  /\ deployer = "create_model" /\ Return(AfterModel)
  /\ models' = Append(models, "building")
  /\ UNCHANGED <<serviceVars, made, job, app, vizVars>>

\* The set-up job and the model's build and deployment, on the server.
JobEnds ==
  /\ job = "running"
  /\ \/ job' = "succeeded" /\ UNCHANGED faults
     \/ job' \in {"failed", "stopped"} /\ Fault
  /\ UNCHANGED <<serviceVars, made, models, app, vizVars, deployer, attemptVars>>

ModelEnds ==
  /\ \E i \in DOMAIN models :
       /\ models[i] = "building"
       /\ \/ models' = [models EXCEPT ![i] = "deployed"] /\ UNCHANGED faults
          \/ models' = [models EXCEPT ![i] = "unhealthy"] /\ Fault
  /\ UNCHANGED <<serviceVars, made, job, app, vizVars, deployer, attemptVars>>

-----------------------------------------------------------------------------
(* deploy_app.                                                             *)

CheckApp ==
  /\ deployer = "app"
  /\ Return(IF app = "none" THEN "viz_project"
            ELSE IF app \in {"starting", "running"} THEN "wait_model" ELSE "delete_app")
  /\ UNCHANGED <<serviceVars, serverVars, vizVars>>

\* VizApps keeps its users in the project.
DeleteVizProject ==
  /\ deployer = "delete_app" /\ Return("viz_project")
  /\ made' = made \ {"viz_project", "viz_engine"} /\ app' = "none"
  /\ admin' = "default" /\ vizUser' = "none"
  /\ UNCHANGED <<serviceVars, models, job>>

EnsureVizProject ==
  Ensure("viz_project", "viz_project", IF release < 10 THEN "viz_engine" ELSE "create_app")

\* Before the runtimes: an engine image, made the default of the project.
EnsureVizEngine == Ensure("viz_engine", "viz_engine", "create_app")

CreateApplication ==
  /\ deployer = "create_app" /\ Return("wait_model")
  /\ app' = "starting"
  /\ UNCHANGED <<serviceVars, made, models, job, vizVars>>

AppEnds ==
  /\ app = "starting"
  /\ \/ app' = "running" /\ UNCHANGED faults
     \/ app' = "failed" /\ Fault
  /\ UNCHANGED <<serviceVars, made, models, job, vizVars, deployer, attemptVars>>

-----------------------------------------------------------------------------
(* wait_for_model_to_start and wait_for_application_to_start.              *)

\* Mutant: a healthy model is good enough.
WaitForModelHealthy ==
  /\ deployer = "wait_model" /\ Len(models) = 1
  /\ \/ IsHealthy(models[1]) /\ Return(IF release >= 7 THEN "wait_app" ELSE "done")
     \/ ~IsHealthy(models[1]) /\ Raise /\ UNCHANGED faults
  /\ UNCHANGED <<serviceVars, serverVars, vizVars>>

\* cdsw_get_model asserts that there is one model, and raises if there is none;
\* an unhealthy one raises, and so does one that takes too long (a fault).
WaitForModel ==
  /\ deployer = "wait_model"
  /\ \/ Len(models) = 1 /\ IsDeployed(models[1])
        /\ Return(IF release >= 7 THEN "wait_app" ELSE "done")
     \/ (Len(models) # 1 \/ ~IsHealthy(models[1])) /\ Raise /\ UNCHANGED faults
  /\ UNCHANGED <<serviceVars, serverVars, vizVars>>

\* A failed application is restarted while retries are left.
WaitForApplication ==
  /\ deployer = "wait_app"
  /\ \/ app = "running" /\ Return("settings") /\ app' = app
     \/ /\ app = "failed" /\ appTries > 0
        /\ app' = "starting" /\ appTries' = appTries - 1
        /\ UNCHANGED <<deployer, retries, seen, idle, unheard, anonymous, faults>>
     \/ app \in {"none", "failed"} /\ (app = "failed" => appTries = 0)
        /\ Raise /\ UNCHANGED <<app, faults>>
  /\ UNCHANGED <<serviceVars, made, models, job, vizVars>>

-----------------------------------------------------------------------------
(* VizApps: the settings, the password of its administrator, a user.       *)

\* configure_vizapps logs in with the default password and with no other.
ConfigureVizApps ==
  /\ deployer = "settings"
  /\ IF admin = "default" THEN Return("password") ELSE Raise /\ UNCHANGED faults
  /\ UNCHANGED <<serviceVars, serverVars, vizVars>>

\* viz_api: only an invalid log-in is noticed.  After any other answer the session
\* is anonymous, and what it asks for is answered with the log-in page.
Unnoticed(next) ==
  /\ Fault /\ anonymous' = TRUE /\ deployer' = next
  /\ UNCHANGED <<retries, seen, idle, unheard, appTries>>

\* change_default_vizapps_admin_password logs in with the password to set; to an
\* anonymous session it seems to be set.
CheckAdminPassword ==
  /\ deployer = "password"
  /\ \/ Return(IF admin = "default" THEN "change" ELSE "viz_user")
     \/ Unnoticed("viz_user")
  /\ UNCHANGED <<serviceVars, serverVars, vizVars>>

\* viz_change_user_password logs in with the old password; the PUT of an anonymous
\* session has no effect.
ChangeAdminPassword ==
  /\ deployer = "change"
  /\ \/ Return("viz_user") /\ admin' = "the_pwd"
     \/ Unnoticed("viz_user") /\ UNCHANGED admin
  /\ UNCHANGED <<serviceVars, serverVars, vizUser>>

\* create_vizapps_admin_user and viz_create_user: an existing user is left as it
\* is; from 1.10 on a new one gets a temporary password first.  It cannot
\* list the users when the log-in failed, or the password was not set, before.
CreateVizUser ==
  /\ deployer = "viz_user"
  /\ CASE anonymous -> Raise /\ UNCHANGED <<vizUser, faults>>
       [] ~anonymous /\ vizUser # "none" -> Return("done") /\ UNCHANGED vizUser
       [] OTHER -> /\ vizUser' = IF release >= 10 THEN "temporary" ELSE "the_pwd"
                   /\ Return(IF release >= 10 THEN "user_password" ELSE "done")
  /\ UNCHANGED <<serviceVars, serverVars, admin>>

\* viz_change_user_password, as the user itself.
ChangeUserPassword ==
  /\ deployer = "user_password"
  /\ \/ Return("done") /\ vizUser' = "the_pwd"
     \/ Unnoticed("done") /\ UNCHANGED vizUser
  /\ UNCHANGED <<serviceVars, serverVars, admin>>

-----------------------------------------------------------------------------
ConfigureSite == EnsureEngineProfile \/ SetEnvVariable \/ PatchSiteConfig

DeployModel ==
  \/ CheckModel \/ DeleteProject \/ EnsureProject \/ UploadFiles \/ FindRuntime
  \/ CreateJob \/ StartJob \/ PollJob \/ CreateModel

DeployApp ==
  CheckApp \/ DeleteVizProject \/ EnsureVizProject \/ EnsureVizEngine \/ CreateApplication

ConfigureUsers ==
  ConfigureVizApps \/ CheckAdminPassword \/ ChangeAdminPassword \/ CreateVizUser
  \/ ChangeUserPassword

\* A step of the program.
Deploy ==
  \/ PollStartup \/ MisreadStatus \/ ApiAnswers \/ EnsureUser \/ ConfigureSite
  \/ DeployModel \/ DeployApp \/ WaitForModel \/ WaitForApplication \/ ConfigureUsers
  \/ CallRefused

\* A step of the server.
Serve == Progress \/ JobEnds \/ ModelEnds \/ AppEnds

CdswNext == Deploy \/ Serve \/ Hang \/ Tick

-----------------------------------------------------------------------------
\* The variables hold what their comments say.
CdswTypeOK ==
  /\ release \in Releases \cup {0} /\ phase \in 1..Phases + 1 /\ hung \in BOOLEAN
  /\ quiet \in 0..PhaseTime
  /\ made \subseteq Things /\ models \in Seq(ModelStatuses)
  /\ job \in {"none", "created", "running", "succeeded", "failed", "stopped"}
  /\ app \in {"none", "starting", "running", "failed"}
  /\ admin \in {"default", "the_pwd"} /\ vizUser \in {"none", "temporary", "the_pwd"}
  /\ deployer \in Steps /\ retries \in 0..Attempts /\ seen \subseteq 1..Phases + 1
  /\ idle \in 0..IdleTimeout + 1 /\ unheard \in BOOLEAN
  /\ appTries \in 0..AppRestarts /\ anonymous \in BOOLEAN
=============================================================================
