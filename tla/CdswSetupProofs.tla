---------------------------- MODULE CdswSetupProofs ----------------------------
(***************************************************************************)
(* What holds of cdsw_setup.py for any number of attempts, faults, restarts *)
(* and any time-out that a start of CDSW can meet.                          *)
(***************************************************************************)
EXTENDS ClusterCreationProofs

-----------------------------------------------------------------------------
(* The inductive invariant.                                                *)

\* The steps of an attempt by what it must have found or done before them.
VizSteps == {"settings", "password", "change", "viz_user", "user_password"}

AppSteps == {"app", "delete_app", "viz_project", "viz_engine", "create_app"}

AfterModelSteps == AppSteps \cup {"wait_model"}

MakingModel == {"project", "upload", "runtime", "job", "start_job", "poll_job", "create_model"}

ModelSteps == {"model", "delete"} \cup MakingModel

LateSteps == AfterModelSteps \cup {"wait_app"} \cup VizSteps \cup {"done"}

\* Before the program starts nothing is there; it is started at the end of setup.sh.
Untouched ==
  /\ deployer = "off" =>
       /\ models = <<>> /\ app = "none" /\ admin = "default" /\ vizUser = "none"
       /\ idle = 0 /\ phase = 1 /\ ~unheard /\ ~anonymous /\ retries = Attempts
  /\ deployer # "off" => stage = "end" /\ result # "failed"

\* The one model by what the attempt knows of it.
ModelKnown ==
  /\ models \in {<<>>, <<"building">>, <<"deployed">>, <<"unhealthy">>}
  /\ deployer \in MakingModel => models = <<>>
  /\ deployer = "delete" => models = <<"unhealthy">>
  /\ deployer \in AfterModelSteps => models # <<>>
  /\ deployer \in {"wait_app", "done"} \cup VizSteps => models = <<"deployed">>

\* What the attempt has ensured is there; a model has a project with its files.
ThingsMade ==
  /\ deployer \in {"profile", "environment", "unauthenticated"} \cup ModelSteps \cup LateSteps
       => "user" \in made
  /\ deployer \in {"environment", "unauthenticated"} \cup ModelSteps \cup LateSteps
       => "profile" \in made
  /\ deployer \in {"unauthenticated"} \cup ModelSteps \cup LateSteps => "environment" \in made
  /\ deployer \in MakingModel \ {"project"} => "project" \in made
  /\ deployer \in MakingModel \ {"project", "upload"} => "files" \in made
  /\ models # <<>> => {"project", "files"} \subseteq made

\* The application by what the attempt knows of it.
AppKnown ==
  /\ app # "none" => release >= 7
  /\ deployer = "delete_app" => app = "failed"
  /\ deployer \in {"viz_project", "viz_engine", "create_app"} => app = "none"
  /\ deployer \in AppSteps \cup {"wait_app"} \cup VizSteps => release >= 7
  /\ deployer \in {"wait_model", "wait_app"} /\ release >= 7 => app # "none"
  /\ deployer \in VizSteps => app = "running"
  /\ deployer = "done" /\ release >= 7 => app = "running"

\* The passwords: the administrator's is changed once, first.
PasswordsKnown ==
  /\ admin = "the_pwd" => app = "running"
  /\ vizUser # "none" => admin = "the_pwd"
  /\ deployer \in {"password", "change"} => admin = "default"
  /\ deployer = "viz_user" => vizUser = "none" /\ (anonymous \/ admin = "the_pwd")
  /\ deployer = "user_password" => admin = "the_pwd" /\ vizUser = "temporary"
  /\ anonymous => deployer \in {"viz_user", "done"}
  /\ vizUser = "temporary" => release >= 10
  /\ deployer = "done" /\ release >= 7 =>
       admin = "the_pwd" /\ (vizUser = "the_pwd" \/ (vizUser = "temporary" /\ anonymous))

\* What will make the attempt raise without another fault; a session that nobody
\* noticed to be anonymous cannot list the users.
Debt ==
  (IF models = <<"unhealthy">> /\ deployer \in AfterModelSteps THEN 1 ELSE 0)
  + (IF app = "failed" /\ deployer \in {"wait_model", "wait_app"} THEN 1 ELSE 0)
  + (IF anonymous /\ deployer = "viz_user" THEN 1 ELSE 0)

Spent == (Attempts - retries) + (IF deployer = "gave_up" THEN 1 ELSE 0)

\* Every attempt that failed, or is bound to fail, is paid for by a fault, as
\* long as the administrator's password is the default.
FaultsPay ==
  /\ admin = "default" => faults >= Spent + Debt
  /\ deployer = "gave_up" => retries = 0

\* The watcher has counted no more than a start that goes well may take, if it
\* knows when the start began.
Timely ==
  deployer = "startup" /\ ~hung /\ ~unheard => idle <= PhaseTime * (phase - 1) + quiet

CdswInv ==
  /\ CdswTypeOK /\ faults \in Nat /\ stage \in Stages
  /\ Untouched /\ ModelKnown /\ ThingsMade /\ AppKnown /\ PasswordsKnown /\ FaultsPay /\ Timely

-----------------------------------------------------------------------------
(* The initial states.                                                     *)

LEMMA ConstantsTyped ==
  /\ Attempts \in Nat /\ Phases \in Nat /\ PhaseTime \in Nat /\ IdleTimeout \in Nat
  /\ AppRestarts \in Nat /\ Phases >= 1 /\ Releases \subseteq Nat
BY CdswAssumption

LEMMA CdswInitially == Init => CdswInv
<1> SUFFICES ASSUME Init PROVE CdswInv
  OBVIOUS
<1> USE ConstantsTyped DEF Init, CdswInit
<1>1. CdswTypeOK
  <2>1. models \in Seq(ModelStatuses) /\ made \subseteq Things /\ seen \subseteq 1..Phases + 1
    OBVIOUS
  <2>2. phase \in 1..Phases + 1 /\ quiet \in 0..PhaseTime /\ retries \in 0..Attempts
    OBVIOUS
  <2>3. idle \in 0..IdleTimeout + 1 /\ appTries \in 0..AppRestarts
    OBVIOUS
  <2> QED
    BY <2>1, <2>2, <2>3 DEF CdswTypeOK, Steps
<1>2. FaultsPay /\ Timely
  BY DEF FaultsPay, Timely, Spent, Debt, AfterModelSteps, AppSteps
<1>3. ModelKnown /\ ThingsMade
  BY DEF ModelKnown, ThingsMade, MakingModel, ModelSteps, LateSteps, AfterModelSteps, AppSteps,
         VizSteps
<1>4. Untouched /\ AppKnown /\ PasswordsKnown /\ stage \in Stages /\ faults \in Nat
  BY DEF Untouched, AppKnown, PasswordsKnown, AppSteps, VizSteps, Stages
<1> QED
  BY <1>1, <1>2, <1>3, <1>4 DEF CdswInv

-----------------------------------------------------------------------------
(* The steps of cdsw_setup.py and of CDSW, one lemma per part of the         *)
(* invariant.  In each the cases are the groups of deploy()'s steps.        *)

\* A server with one model, or none, is well typed.
LEMMA OneModelTyped ==
  ASSUME NEW m \in {<<>>, <<"building">>, <<"deployed">>, <<"unhealthy">>}
  PROVE  m \in Seq(ModelStatuses)
<1>1. \A x \in ModelStatuses : <<x>> \in Seq(ModelStatuses)
  OBVIOUS
<1>2. <<>> \in Seq(ModelStatuses)
  OBVIOUS
<1> QED
  BY <1>1, <1>2 DEF ModelStatuses

\* No step forgets what kind of value a variable holds; the models are typed by
\* ModelKnown.
LEMMA CdswTypesKept ==
  ASSUME CdswInv, CdswNext, ModelKnown'
  PROVE  CdswTypeOK'
<1> USE ConstantsTyped DEF CdswInv, CdswTypeOK, CdswNext, Deploy, Serve, PollStartup,
        MisreadStatus, ApiAnswers, CallRefused, RestartCdsw, EnsureUser, ConfigureSite,
        EnsureEngineProfile, SetEnvVariable, PatchSiteConfig, DeployModel, CheckModel,
        DeleteProject, EnsureProject, UploadFiles, FindRuntime, CreateJob, StartJob, PollJob,
        CreateModel, DeployApp, CheckApp, DeleteVizProject, EnsureVizProject, EnsureVizEngine,
        CreateApplication, WaitForModel, WaitForApplication, ConfigureUsers, ConfigureVizApps,
        Unnoticed, CheckAdminPassword, ChangeAdminPassword, CreateVizUser, ChangeUserPassword,
        Restarted, Progress,
        JobEnds, ModelEnds, AppEnds, Hang, Tick, Ensure, Return, Raise, AfterModel,
        serviceVars, serverVars, vizVars, attemptVars
<1>1. (release \in Releases \cup {0})'
  OBVIOUS
<1>2. (phase \in 1..Phases + 1)'
  OBVIOUS
<1>3. (hung \in BOOLEAN)'
  OBVIOUS
<1>4. (quiet \in 0..PhaseTime)'
  OBVIOUS
<1>5. (made \subseteq Things)'
  BY DEF Things
<1>6. (models \in Seq(ModelStatuses))'
  <2> HIDE DEF CdswNext, CdswInv
  <2> QED
    BY OneModelTyped DEF ModelKnown
<1>7. (job \in {"none", "created", "running", "succeeded", "failed", "stopped"})'
  OBVIOUS
<1>8. (app \in {"none", "starting", "running", "failed"})'
  OBVIOUS
<1>9. (admin \in {"default", "the_pwd"} /\ vizUser \in {"none", "temporary", "the_pwd"})'
  OBVIOUS
<1>10. (deployer \in Steps)'
  BY DEF Steps
<1>11. (retries \in 0..Attempts /\ seen \subseteq 1..Phases + 1)'
  OBVIOUS
<1>12. (idle \in 0..IdleTimeout + 1)'
  <2>1. CASE PollStartup
    <3>1. idle' = 0 \/ idle' = idle
      BY <2>1
    <3> HIDE DEF CdswNext, PollStartup
    <3> QED
      BY <3>1
  <2>2. CASE Tick
    <3>1. idle' = idle + 1 /\ idle <= IdleTimeout
      BY <2>2
    <3> HIDE DEF CdswNext
    <3> QED
      BY <3>1
  <2>3. CASE (Deploy /\ ~PollStartup) \/ Serve \/ Hang
    <3>1. idle' = 0 \/ idle' = idle
      BY <2>3
    <3> HIDE DEF CdswNext
    <3> QED
      BY <3>1
  <2> QED
    BY <2>1, <2>2, <2>3
<1>13. (appTries \in 0..AppRestarts)'
  OBVIOUS
<1>14. (anonymous \in BOOLEAN /\ unheard \in BOOLEAN)'
  OBVIOUS
<1> QED
  BY <1>1, <1>2, <1>3, <1>4, <1>5, <1>6, <1>7, <1>8, <1>9, <1>10, <1>11, <1>12, <1>13, <1>14

\* What is off is only touched by setup.sh.
LEMMA UntouchedKept ==
  ASSUME CdswInv, CdswNext, UNCHANGED <<stage, result>>
  PROVE  Untouched'
<1> USE DEF CdswInv, CdswTypeOK, Ensure, Return, Raise, AfterModel,
        serviceVars, serverVars, vizVars, attemptVars, Untouched, ModelKnown, ModelStatuses
<1>1. CASE PollStartup \/ MisreadStatus \/ ApiAnswers \/ CallRefused
  BY <1>1 DEF PollStartup, MisreadStatus, ApiAnswers, CallRefused, ApiSteps, Steps, RestartCdsw,
     Restarted
<1>2. CASE EnsureUser
  BY <1>2 DEF EnsureUser
<1>3. CASE ConfigureSite
  BY <1>3 DEF ConfigureSite, EnsureEngineProfile, SetEnvVariable, PatchSiteConfig
<1>4. CASE DeployModel
  BY <1>4 DEF DeployModel, CheckModel, DeleteProject, EnsureProject, UploadFiles, FindRuntime,
              CreateJob, StartJob, PollJob, CreateModel, IsHealthy
<1>5. CASE DeployApp
  BY <1>5 DEF DeployApp, CheckApp, DeleteVizProject, EnsureVizProject, EnsureVizEngine,
              CreateApplication
<1>6. CASE WaitForModel \/ WaitForApplication
  BY <1>6 DEF WaitForModel, WaitForApplication, IsDeployed, IsHealthy
<1>7. CASE ConfigureUsers
  BY <1>7 DEF ConfigureUsers, ConfigureVizApps, CheckAdminPassword, ChangeAdminPassword,
              CreateVizUser, ChangeUserPassword, Unnoticed
<1>8. CASE Serve
  BY <1>8 DEF Serve, Progress, JobEnds, ModelEnds, AppEnds
<1>9. CASE Hang \/ Tick
  BY <1>9 DEF Hang, Tick
<1> QED
  BY <1>1, <1>2, <1>3, <1>4, <1>5, <1>6, <1>7, <1>8, <1>9 DEF CdswNext, Deploy

\* A model is only made where there is none, and only a healthy one is kept.
LEMMA ModelKept ==
  ASSUME CdswInv, CdswNext
  PROVE  ModelKnown'
<1> USE DEF CdswInv, CdswTypeOK, Ensure, Return, Raise, AfterModel,
        serviceVars, serverVars, vizVars, attemptVars, Untouched, ModelKnown, MakingModel, AfterModelSteps, AppSteps, VizSteps
<1>1. CASE PollStartup \/ MisreadStatus \/ ApiAnswers \/ CallRefused
  BY <1>1 DEF PollStartup, MisreadStatus, ApiAnswers, CallRefused, ApiSteps, Steps, RestartCdsw,
     Restarted
<1>2. CASE EnsureUser
  BY <1>2 DEF EnsureUser
<1>3. CASE ConfigureSite
  BY <1>3 DEF ConfigureSite, EnsureEngineProfile, SetEnvVariable, PatchSiteConfig
<1>4. CASE DeployModel
  <2>1. CASE CheckModel
    BY <2>1 DEF CheckModel, IsHealthy
  <2>2. CASE DeleteProject
    BY <2>2 DEF DeleteProject
  <2>3. CASE EnsureProject \/ UploadFiles
    BY <2>3 DEF EnsureProject, UploadFiles
  <2>4. CASE FindRuntime \/ CreateJob \/ StartJob \/ PollJob
    BY <2>4 DEF FindRuntime, CreateJob, StartJob, PollJob
  <2>5. CASE CreateModel
    <3>1. models' = <<"building">>
      BY <2>5 DEF CreateModel
    <3> QED
      BY <2>5, <3>1 DEF CreateModel
  <2> QED
    BY <1>4, <2>1, <2>2, <2>3, <2>4, <2>5 DEF DeployModel
<1>5. CASE DeployApp
  BY <1>5 DEF DeployApp, CheckApp, DeleteVizProject, EnsureVizProject, EnsureVizEngine,
              CreateApplication
<1>6. CASE WaitForModel \/ WaitForApplication
  BY <1>6 DEF WaitForModel, WaitForApplication, IsDeployed, IsHealthy
<1>7. CASE ConfigureUsers
  BY <1>7 DEF ConfigureUsers, ConfigureVizApps, CheckAdminPassword, ChangeAdminPassword,
              CreateVizUser, ChangeUserPassword, Unnoticed
<1>8. CASE Serve
  BY <1>8 DEF Serve, Progress, JobEnds, ModelEnds, AppEnds
<1>9. CASE Hang \/ Tick
  BY <1>9 DEF Hang, Tick
<1> QED
  BY <1>1, <1>2, <1>3, <1>4, <1>5, <1>6, <1>7, <1>8, <1>9 DEF CdswNext, Deploy

\* A step is only reached when what it needs is there; the project goes with its model.
LEMMA ThingsKept ==
  ASSUME CdswInv, CdswNext
  PROVE  ThingsMade'
<1> USE DEF CdswInv, CdswTypeOK, Ensure, Return, Raise, AfterModel,
        serviceVars, serverVars, vizVars, attemptVars, ModelKnown, ThingsMade, MakingModel, ModelSteps, LateSteps, AfterModelSteps,
        AppSteps, VizSteps
<1>1. CASE PollStartup \/ MisreadStatus \/ ApiAnswers \/ CallRefused
  BY <1>1 DEF PollStartup, MisreadStatus, ApiAnswers, CallRefused, ApiSteps, Steps, RestartCdsw,
     Restarted
<1>2. CASE EnsureUser
  BY <1>2 DEF EnsureUser
<1>3. CASE ConfigureSite
  BY <1>3 DEF ConfigureSite, EnsureEngineProfile, SetEnvVariable, PatchSiteConfig
<1>4. CASE DeployModel
  BY <1>4 DEF DeployModel, CheckModel, DeleteProject, EnsureProject, UploadFiles, FindRuntime,
              CreateJob, StartJob, PollJob, CreateModel, IsHealthy
<1>5. CASE DeployApp
  BY <1>5 DEF DeployApp, CheckApp, DeleteVizProject, EnsureVizProject, EnsureVizEngine,
              CreateApplication
<1>6. CASE WaitForModel \/ WaitForApplication
  BY <1>6 DEF WaitForModel, WaitForApplication, IsDeployed, IsHealthy
<1>7. CASE ConfigureUsers
  BY <1>7 DEF ConfigureUsers, ConfigureVizApps, CheckAdminPassword, ChangeAdminPassword,
              CreateVizUser, ChangeUserPassword, Unnoticed
<1>8. CASE Serve
  BY <1>8 DEF Serve, Progress, JobEnds, ModelEnds, AppEnds
<1>9. CASE Hang \/ Tick
  BY <1>9 DEF Hang, Tick
<1> QED
  BY <1>1, <1>2, <1>3, <1>4, <1>5, <1>6, <1>7, <1>8, <1>9 DEF CdswNext, Deploy

\* An application that starts or runs is never left for one that is not there.
LEMMA AppKept ==
  ASSUME CdswInv, CdswNext
  PROVE  AppKnown'
<1> USE DEF CdswInv, CdswTypeOK, Ensure, Return, Raise, AfterModel,
        serviceVars, serverVars, vizVars, attemptVars, Untouched, AppKnown, AfterModelSteps, AppSteps, VizSteps
<1>1. CASE PollStartup \/ MisreadStatus \/ ApiAnswers \/ CallRefused
  BY <1>1 DEF PollStartup, MisreadStatus, ApiAnswers, CallRefused, ApiSteps, Steps, RestartCdsw,
     Restarted
<1>2. CASE EnsureUser
  BY <1>2 DEF EnsureUser
<1>3. CASE ConfigureSite
  BY <1>3 DEF ConfigureSite, EnsureEngineProfile, SetEnvVariable, PatchSiteConfig
<1>4. CASE DeployModel
  BY <1>4 DEF DeployModel, CheckModel, DeleteProject, EnsureProject, UploadFiles, FindRuntime,
              CreateJob, StartJob, PollJob, CreateModel, IsHealthy
<1>5. CASE DeployApp
  BY <1>5 DEF DeployApp, CheckApp, DeleteVizProject, EnsureVizProject, EnsureVizEngine,
              CreateApplication
<1>6. CASE WaitForModel \/ WaitForApplication
  BY <1>6 DEF WaitForModel, WaitForApplication, IsDeployed, IsHealthy
<1>7. CASE ConfigureUsers
  BY <1>7 DEF ConfigureUsers, ConfigureVizApps, CheckAdminPassword, ChangeAdminPassword,
              CreateVizUser, ChangeUserPassword, Unnoticed
<1>8. CASE Serve
  BY <1>8 DEF Serve, Progress, JobEnds, ModelEnds, AppEnds
<1>9. CASE Hang \/ Tick
  BY <1>9 DEF Hang, Tick
<1> QED
  BY <1>1, <1>2, <1>3, <1>4, <1>5, <1>6, <1>7, <1>8, <1>9 DEF CdswNext, Deploy

\* The user is only made by an administrator with the new password.
LEMMA PasswordsKept ==
  ASSUME CdswInv, CdswNext
  PROVE  PasswordsKnown'
<1> USE DEF CdswInv, CdswTypeOK, Ensure, Return, Raise, AfterModel,
        serviceVars, serverVars, vizVars, attemptVars, Untouched, ModelKnown, AppKnown, PasswordsKnown, AppSteps, VizSteps
<1>1. CASE PollStartup \/ MisreadStatus \/ ApiAnswers \/ CallRefused
  BY <1>1 DEF PollStartup, MisreadStatus, ApiAnswers, CallRefused, ApiSteps, Steps, RestartCdsw,
     Restarted
<1>2. CASE EnsureUser
  BY <1>2 DEF EnsureUser
<1>3. CASE ConfigureSite
  BY <1>3 DEF ConfigureSite, EnsureEngineProfile, SetEnvVariable, PatchSiteConfig
<1>4. CASE DeployModel
  BY <1>4 DEF DeployModel, CheckModel, DeleteProject, EnsureProject, UploadFiles, FindRuntime,
              CreateJob, StartJob, PollJob, CreateModel, IsHealthy
<1>5. CASE DeployApp
  BY <1>5 DEF DeployApp, CheckApp, DeleteVizProject, EnsureVizProject, EnsureVizEngine,
              CreateApplication
<1>6. CASE WaitForModel \/ WaitForApplication
  BY <1>6 DEF WaitForModel, WaitForApplication, IsDeployed, IsHealthy
<1>7. CASE ConfigureUsers
  BY <1>7 DEF ConfigureUsers, ConfigureVizApps, CheckAdminPassword, ChangeAdminPassword,
              CreateVizUser, ChangeUserPassword, Unnoticed
<1>8. CASE Serve
  BY <1>8 DEF Serve, Progress, JobEnds, ModelEnds, AppEnds
<1>9. CASE Hang \/ Tick
  BY <1>9 DEF Hang, Tick
<1> QED
  BY <1>1, <1>2, <1>3, <1>4, <1>5, <1>6, <1>7, <1>8, <1>9 DEF CdswNext, Deploy

\* An attempt only fails for a fault: its own, or one of the model, of the
\* application or of the session that it owes (Debt).
LEMMA FaultsKept ==
  ASSUME CdswInv, CdswNext
  PROVE  FaultsPay'
<1> USE ConstantsTyped DEF CdswInv, CdswTypeOK, Ensure, Return, Raise, Fault, AfterModel,
        serviceVars, serverVars, vizVars, attemptVars, ModelKnown, AppKnown, PasswordsKnown,
        FaultsPay, Spent, Debt, AfterModelSteps, AppSteps, VizSteps, MakingModel
<1>1. CASE PollStartup
  BY <1>1 DEF PollStartup, RestartCdsw, Restarted
<1>2. CASE MisreadStatus
  BY <1>2 DEF MisreadStatus
<1>3. CASE ApiAnswers
  BY <1>3 DEF ApiAnswers
<1>4. CASE CallRefused
  BY <1>4 DEF CallRefused, ApiSteps, Steps
<1>5. CASE EnsureUser
  BY <1>5 DEF EnsureUser
<1>6. CASE EnsureEngineProfile
  BY <1>6 DEF EnsureEngineProfile
<1>7. CASE SetEnvVariable
  BY <1>7 DEF SetEnvVariable
<1>8. CASE PatchSiteConfig
  BY <1>8 DEF PatchSiteConfig
<1>9. CASE CheckModel
  <2>1. CASE models = <<>>
    BY <1>9, <2>1 DEF CheckModel
  <2>2. CASE models # <<>> /\ IsHealthy(models[1])
    BY <1>9, <2>2 DEF CheckModel, IsHealthy
  <2>3. CASE models # <<>> /\ ~IsHealthy(models[1])
    BY <1>9, <2>3 DEF CheckModel, IsHealthy
  <2> QED
    BY <2>1, <2>2, <2>3
<1>10. CASE DeleteProject
  BY <1>10 DEF DeleteProject
<1>11. CASE EnsureProject
  BY <1>11 DEF EnsureProject
<1>12. CASE UploadFiles
  BY <1>12 DEF UploadFiles
<1>13. CASE FindRuntime
  BY <1>13 DEF FindRuntime
<1>14. CASE CreateJob
  BY <1>14 DEF CreateJob
<1>15. CASE StartJob
  BY <1>15 DEF StartJob
<1>16. CASE PollJob
  BY <1>16 DEF PollJob
<1>17. CASE CreateModel
  BY <1>17 DEF CreateModel
<1>18. CASE CheckApp
  BY <1>18 DEF CheckApp
<1>19. CASE DeleteVizProject
  BY <1>19 DEF DeleteVizProject
<1>20. CASE EnsureVizProject
  BY <1>20 DEF EnsureVizProject
<1>21. CASE EnsureVizEngine
  BY <1>21 DEF EnsureVizEngine
<1>22. CASE CreateApplication
  BY <1>22 DEF CreateApplication
<1>23. CASE WaitForModel
  <2>1. CASE models = <<"deployed">>
    BY <1>23, <2>1 DEF WaitForModel, IsDeployed, IsHealthy
  <2>2. CASE models = <<"building">>
    BY <1>23, <2>2 DEF WaitForModel, IsDeployed, IsHealthy
  <2>3. CASE models = <<"unhealthy">>
    BY <1>23, <2>3 DEF WaitForModel, IsDeployed, IsHealthy
  <2> QED
    BY <1>23, <2>1, <2>2, <2>3 DEF WaitForModel
<1>24. CASE WaitForApplication
  BY <1>24 DEF WaitForApplication
<1>25. CASE ConfigureVizApps
  BY <1>25 DEF ConfigureVizApps
<1>26. CASE CheckAdminPassword
  BY <1>26 DEF CheckAdminPassword, Unnoticed
<1>27. CASE ChangeAdminPassword
  BY <1>27 DEF ChangeAdminPassword, Unnoticed
<1>28. CASE CreateVizUser
  <2>1. CASE anonymous
    <3>1. Raise /\ deployer = "viz_user" /\ UNCHANGED <<faults, models, app, admin>>
      BY <1>28, <2>1 DEF CreateVizUser
    <3>2. Debt >= 1 /\ Debt' = 0 /\ Debt \in Nat
      BY <2>1, <3>1
    <3>3. Spent' = Spent + 1 /\ Spent \in Nat
      BY <2>1, <3>1
    <3> HIDE DEF Spent, Debt
    <3> QED
      BY <3>1, <3>2, <3>3
  <2>2. CASE ~anonymous
    BY <1>28, <2>2 DEF CreateVizUser
  <2> QED
    BY <2>1, <2>2
<1>29. CASE ChangeUserPassword
  BY <1>29 DEF ChangeUserPassword, Unnoticed
<1>30. CASE Progress
  BY <1>30 DEF Progress
<1>31. CASE JobEnds
  BY <1>31 DEF JobEnds
<1>32. CASE ModelEnds
  BY <1>32 DEF ModelEnds
<1>33. CASE AppEnds
  BY <1>33 DEF AppEnds
<1>34. CASE Hang
  BY <1>34 DEF Hang
<1>35. CASE Tick
  BY <1>35 DEF Tick
<1> QED
  BY <1>1, <1>2, <1>3, <1>4, <1>5, <1>6, <1>7, <1>8, <1>9, <1>10, <1>11, <1>12, <1>13,
     <1>14, <1>15, <1>16, <1>17, <1>18, <1>19, <1>20, <1>21, <1>22, <1>23, <1>24, <1>25,
     <1>26, <1>27, <1>28, <1>29, <1>30, <1>31, <1>32, <1>33, <1>34, <1>35 DEF CdswNext,
     Deploy, Serve, ConfigureSite, DeployModel, DeployApp, ConfigureUsers

\* What a start that goes well may take.
LEMMA StartTime ==
  ASSUME NEW p \in 1..Phases
  PROVE  /\ PhaseTime * (p - 1) \in Nat
         /\ PhaseTime * ((p + 1) - 1) = PhaseTime * (p - 1) + PhaseTime
         /\ PhaseTime * (p - 1) + PhaseTime <= IdleTimeout
<1>1. PhaseTime * (p - 1) \in Nat /\ PhaseTime * p = PhaseTime * (p - 1) + PhaseTime
  BY ConstantsTyped
<1>2. PhaseTime * p <= PhaseTime * Phases
  BY ConstantsTyped
<1>3. PhaseTime * Phases = Phases * PhaseTime
  BY ConstantsTyped
<1> QED
  BY <1>1, <1>2, <1>3, CdswAssumption

\* CDSW is only restarted when its start hangs, or the watcher does not know that
\* it has begun.
LEMMA OnlyHungRestarted ==
  ASSUME CdswInv, PollStartup
  PROVE  UNCHANGED <<phase, hung, quiet>> \/ hung \/ unheard
<1> SUFFICES ASSUME ~hung, ~unheard, phase <= Phases, idle > IdleTimeout, deployer = "startup"
             PROVE  FALSE
  BY ConstantsTyped DEF CdswInv, CdswTypeOK, PollStartup, serviceVars
<1>1. phase \in 1..Phases /\ idle <= PhaseTime * (phase - 1) + quiet /\ quiet <= PhaseTime
  BY ConstantsTyped DEF CdswInv, CdswTypeOK, Timely
<1>2. PhaseTime * (phase - 1) + PhaseTime <= IdleTimeout /\ PhaseTime * (phase - 1) \in Nat
  BY <1>1, StartTime
<1> QED
  BY <1>1, <1>2, ConstantsTyped DEF CdswInv, CdswTypeOK

\* Neither a new attempt nor a restart of CDSW begins late.
LEMMA TimelyKept ==
  ASSUME CdswInv, CdswNext
  PROVE  Timely'
<1> USE ConstantsTyped DEF CdswInv, CdswTypeOK
<1> DEFINE Due(p) == PhaseTime * (p - 1)
<1>1. /\ phase \in 1..Phases =>
           /\ Due(phase) \in Nat /\ Due(phase + 1) = Due(phase) + PhaseTime
           /\ Due(phase) + PhaseTime <= IdleTimeout
      /\ Due(phase) \in Nat /\ Due(1) = 0
  BY StartTime
<1> HIDE DEF Due
<1>2. SUFFICES ASSUME deployer' = "startup", ~hung', ~unheard' PROVE idle' <= Due(phase') + quiet'
  BY DEF Timely, Due
<1>3. deployer = "startup" /\ ~hung /\ ~unheard => idle <= Due(phase) + quiet
  BY DEF Timely, Due
<1>4. CASE idle' = 0 /\ UNCHANGED <<phase, quiet>>
  BY <1>1, <1>4
<1>5. CASE UNCHANGED <<deployer, phase, hung, idle, unheard, quiet>>
  BY <1>2, <1>3, <1>5
<1>6. CASE PollStartup
  <2>1. CASE UNCHANGED serviceVars /\ idle' = 0
    BY <1>1, <2>1 DEF serviceVars
  <2>2. CASE UNCHANGED serviceVars /\ idle' = idle /\ unheard' = unheard
    BY <1>2, <1>3, <1>6, <2>2 DEF PollStartup, serviceVars
  <2>3. CASE idle' = 0 /\ phase' = 1 /\ quiet' = 0
    BY <1>1, <2>3
  <2> QED
    BY <1>2, <1>6, <2>1, <2>2, <2>3 DEF PollStartup, RestartCdsw, Restarted
<1>7. CASE Progress
  BY <1>1, <1>2, <1>3, <1>7 DEF Progress, attemptVars
<1>8. CASE Tick
  BY <1>1, <1>2, <1>3, <1>8 DEF Tick
<1>9. CASE Raise /\ UNCHANGED <<phase, quiet>>
  BY <1>4, <1>9 DEF Raise
<1>10. CASE Hang \/ MisreadStatus
  BY <1>2, <1>10 DEF Hang, MisreadStatus
<1>11. CASE JobEnds \/ ModelEnds \/ AppEnds
  BY <1>5, <1>11 DEF JobEnds, ModelEnds, AppEnds, serviceVars, attemptVars
<1>12. CASE ApiAnswers \/ CallRefused \/ EnsureUser \/ ConfigureSite
  BY <1>2, <1>9, <1>12 DEF ApiAnswers, CallRefused, EnsureUser, ConfigureSite, Ensure, Return,
     EnsureEngineProfile, SetEnvVariable, PatchSiteConfig, serviceVars
<1>13. CASE DeployModel
  BY <1>2, <1>9, <1>13 DEF DeployModel, CheckModel, DeleteProject, EnsureProject, UploadFiles,
     FindRuntime, CreateJob, StartJob, PollJob, CreateModel, AfterModel, Ensure, Return, serviceVars
<1>14. CASE DeployApp
  BY <1>2, <1>9, <1>14 DEF DeployApp, CheckApp, DeleteVizProject, EnsureVizProject,
     EnsureVizEngine, CreateApplication, Ensure, Return, serviceVars
<1>15. CASE WaitForModel \/ WaitForApplication
  BY <1>2, <1>9, <1>15 DEF WaitForModel, WaitForApplication, Return, serviceVars
<1>16. CASE ConfigureUsers
  BY <1>2, <1>9, <1>16 DEF ConfigureUsers, ConfigureVizApps, CheckAdminPassword,
     ChangeAdminPassword, CreateVizUser, ChangeUserPassword, Return, Unnoticed, serviceVars
<1> QED
  BY <1>6, <1>7, <1>8, <1>10, <1>11, <1>12, <1>13, <1>14, <1>15, <1>16 DEF CdswNext, Deploy, Serve

\* Faults are counted, never forgotten.
LEMMA FaultsGrow ==
  ASSUME faults \in Nat, Next
  PROVE  faults' \in Nat /\ faults' >= faults
<1>1. Fault => faults' \in Nat /\ faults' >= faults
  BY DEF Fault
<1> QED
  BY <1>1, FaultsCounted

\* setup.sh leaves the program alone, but for starting it when it is off.
LEMMA ShellKeeps ==
  ASSUME CdswInv, ScriptRuns, Shell \/ RangerRestarts \/ RunAgain, ~StartCdswSetup
  PROVE  /\ UNCHANGED cdswVars
         /\ stage' \in Stages
         /\ deployer # "off" => stage' = "end" /\ result' # "failed"
<1> USE DEF CdswInv, Untouched, At, Stages
<1>1. CASE StartScript \/ RangerRestarts \/ RunAgain \/ Finish
  BY <1>1 DEF StartScript, RangerRestarts, RunAgain, Finish, shellVars
<1>2. CASE ScriptReturns
  BY <1>2 DEF ScriptReturns, ScriptRuns
<1>3. CASE MakeTemplate \/ RestartCm \/ WaitForCm \/ CreateAccount \/ RestartRanger
           \/ WaitForRanger \/ SetRangerPolicies
  BY <1>3 DEF MakeTemplate, RestartCm, WaitForCm, CreateAccount, RestartRanger, WaitForRanger,
     SetRangerPolicies
<1>4. CASE StartEfm \/ CreateTopics \/ LoadAtlasEntities
  BY <1>4 DEF StartEfm, CreateTopics, LoadAtlasEntities
<1>5. CASE ChownFlinkHome \/ MakeAdminHome \/ ChownAdminHome
  BY <1>5 DEF ChownFlinkHome, MakeAdminHome, ChownAdminHome, TryAgainOr, TryAgain
<1> QED
  BY <1>1, <1>2, <1>3, <1>4, <1>5 DEF Shell

\* What does not touch the program keeps the invariant.
LEMMA OthersKeep ==
  ASSUME CdswInv, UNCHANGED cdswVars, faults' \in Nat, faults' >= faults, stage' \in Stages,
         deployer # "off" => stage' = "end" /\ result' # "failed"
  PROVE  CdswInv'
<1> USE DEF cdswVars, serviceVars, serverVars, vizVars, attemptVars
<1>1. (CdswTypeOK /\ ModelKnown /\ ThingsMade /\ AppKnown /\ PasswordsKnown /\ Timely)'
  BY DEF CdswInv, CdswTypeOK, ModelKnown, ThingsMade, AppKnown, PasswordsKnown, Timely
<1>2. Untouched'
  BY DEF CdswInv, Untouched
<1>3. FaultsPay'
  <2>1. Debt' = Debt /\ Spent' = Spent
    BY DEF Debt, Spent
  <2>2. Debt \in Int /\ Spent \in Int
    BY ConstantsTyped DEF Debt, Spent, CdswInv, CdswTypeOK
  <2> QED
    BY <2>1, <2>2 DEF CdswInv, FaultsPay
<1> QED
  BY <1>1, <1>2, <1>3 DEF CdswInv

\* The program starts on a server nobody has touched.
LEMMA StartKeeps ==
  ASSUME CdswInv, StartCdswSetup
  PROVE  CdswInv'
<1>1. stage = "cdsw" /\ stage' = "end" /\ result = "running" /\ UNCHANGED <<result, faults>>
  BY DEF StartCdswSetup, At
<1>2. deployer = "off"
  BY <1>1 DEF CdswInv, Untouched
<1>3. CASE UNCHANGED cdswVars
  BY <1>1, <1>2, <1>3, OthersKeep DEF CdswInv, Stages
<1>4. CASE /\ deployer' = "startup" /\ release' \in Releases
           /\ UNCHANGED <<phase, hung, quiet, serverVars, vizVars, attemptVars>>
  <2> USE <1>1, <1>2, <1>4, ConstantsTyped
      DEF CdswInv, Untouched, serverVars, vizVars, attemptVars
  <2>1. CdswTypeOK'
    BY DEF CdswTypeOK, Steps
  <2>2. (Untouched /\ stage \in Stages /\ faults \in Nat)'
    BY DEF Stages
  <2>3. (ModelKnown /\ ThingsMade)'
    BY DEF ModelKnown, ThingsMade, MakingModel, ModelSteps, LateSteps, AfterModelSteps, AppSteps,
           VizSteps
  <2>4. (AppKnown /\ PasswordsKnown)'
    BY DEF AppKnown, PasswordsKnown, AppSteps, VizSteps
  <2>5. FaultsPay'
    BY DEF FaultsPay, Spent, Debt, AfterModelSteps, AppSteps
  <2>6. Timely'
    BY DEF Timely, CdswTypeOK
  <2> QED
    BY <2>1, <2>2, <2>3, <2>4, <2>5, <2>6
<1> QED
  BY <1>3, <1>4 DEF StartCdswSetup, cdswVars, serviceVars

\* A step of the program or of CDSW keeps the invariant.
LEMMA ProgramKeeps ==
  ASSUME CdswInv, CdswNext, UNCHANGED shellVars, faults' \in Nat
  PROVE  CdswInv'
<1>1. UNCHANGED <<stage, result>>
  BY DEF shellVars
<1>2. (CdswTypeOK /\ ModelKnown)'
  BY CdswTypesKept, ModelKept
<1>3. (Untouched /\ ThingsMade /\ AppKnown /\ PasswordsKnown /\ FaultsPay /\ Timely)'
  BY <1>1, UntouchedKept, ThingsKept, AppKept, PasswordsKept, FaultsKept, TimelyKept
<1> QED
  BY <1>1, <1>2, <1>3 DEF CdswInv

LEMMA CdswStep == CdswInv /\ ScriptRuns /\ [Next]_vars => CdswInv'
<1> SUFFICES ASSUME CdswInv, ScriptRuns, [Next]_vars PROVE CdswInv'
  OBVIOUS
<1>1. CASE UNCHANGED vars
  BY <1>1, OthersKeep DEF vars, shellVars, CdswInv, Untouched, cdswVars, serviceVars, serverVars,
     vizVars, attemptVars
<1>2. CASE Next
  <2>1. faults' \in Nat /\ faults' >= faults
    BY <1>2, FaultsGrow DEF CdswInv
  <2>2. CASE StartCdswSetup
    BY <2>2, StartKeeps
  <2>3. CASE (Shell \/ RangerRestarts \/ RunAgain) /\ ~StartCdswSetup
    BY <2>1, <2>3, ShellKeeps, OthersKeep
  <2>4. CASE Cluster /\ UNCHANGED <<shellVars, cdswVars>>
    BY <2>1, <2>4, OthersKeep DEF shellVars, CdswInv, Untouched
  <2>5. CASE CdswNext /\ UNCHANGED <<shellVars, clusterVars>>
    BY <2>1, <2>5, ProgramKeeps
  <2> QED
    BY <1>2, <2>2, <2>3, <2>4, <2>5 DEF Next
<1> QED
  BY <1>1, <1>2

\* The inductive invariant of cdsw_setup.py holds in every state.
THEOREM CdswInvariant == Spec => []CdswInv
<1>1. ClusterInv => ScriptRuns
  BY DEF ClusterInv
<1> QED
  BY <1>1, ClusterInvariant, CdswInitially, CdswStep, PTL DEF Spec

-----------------------------------------------------------------------------
(* The results.                                                            *)

\* cdsw_get_model never meets a second model of the name, however many attempts
\* lose the answer of the call that made one.
THEOREM NoSecondModel == Spec => []OneModel
<1>1. /\ Len(<<>>) <= 1 /\ Len(<<"building">>) <= 1
      /\ Len(<<"deployed">>) <= 1 /\ Len(<<"unhealthy">>) <= 1
  OBVIOUS
<1>2. CdswInv => OneModel
  BY <1>1 DEF CdswInv, ModelKnown, OneModel
<1> QED
  BY <1>2, CdswInvariant, PTL

\* A deployer that is done leaves a CDSW that is ready, whatever earlier attempts
\* left half done; only the user's password may still be the temporary one, after
\* a refused log-in that nobody noticed.
THEOREM ReadyWhenDone == Spec => []DoneMeansReady
<1>1. CdswInv => DoneMeansReady
  BY DEF CdswInv, ModelKnown, ThingsMade, AppKnown, PasswordsKnown, DoneMeansReady, LateSteps
<1> QED
  BY <1>1, CdswInvariant, PTL

\* The retries of main() absorb as many faults, unless the administrator's new
\* password locks the later attempts out.
THEOREM RetriesAbsorbFaults == Spec => []OnlyLockOutIsFinal
<1>1. CdswInv => OnlyLockOutIsFinal
  <2> SUFFICES ASSUME CdswInv, deployer = "gave_up", admin = "default"
               PROVE  faults > Attempts
    BY DEF OnlyLockOutIsFinal, CdswInv, CdswTypeOK
  <2>1. Spent = Attempts + 1
    BY ConstantsTyped DEF CdswInv, FaultsPay, Spent
  <2>2. Debt \in Nat
    BY DEF Debt
  <2> QED
    BY <2>1, <2>2, ConstantsTyped DEF CdswInv, FaultsPay
<1> QED
  BY <1>1, CdswInvariant, PTL

\* No attempt throws away a healthy model, an application that starts or runs,
\* or a start of CDSW that still makes progress, unless the answer to the restart
\* that began the start was lost.
THEOREM WorkIsKept == Spec => NothingWorkingIsDestroyed
<1> DEFINE Kept == /\ models # <<>> /\ models' = <<>> => ~IsHealthy(models[1])
                   /\ app' = "none" => app \notin {"starting", "running"}
                   /\ phase' < phase => hung \/ unheard
<1>1. ASSUME CdswInv, ScriptRuns, [Next]_vars PROVE Kept
  <2> USE <1>1, ConstantsTyped DEF CdswInv, CdswTypeOK
  <2>1. CASE UNCHANGED cdswVars
    BY <2>1 DEF cdswVars, serviceVars, serverVars
  <2>2. CASE StartCdswSetup
    BY <2>2 DEF StartCdswSetup, cdswVars, serviceVars, serverVars
  <2>3. CASE PollStartup
    BY <2>3, OnlyHungRestarted DEF PollStartup, serverVars
  <2>4. CASE Progress \/ Hang \/ Tick \/ MisreadStatus
    BY <2>4 DEF Progress, Hang, Tick, MisreadStatus, serviceVars, serverVars
  <2>5. CASE DeleteProject
    BY <2>5 DEF DeleteProject, ModelKnown, IsHealthy, serviceVars
  <2>6. CASE DeleteVizProject
    BY <2>6 DEF DeleteVizProject, AppKnown, serviceVars
  <2>7. CASE CreateModel
    BY <2>7 DEF CreateModel, serviceVars
  <2>8. CASE JobEnds \/ ModelEnds \/ AppEnds
    <3>1. ModelEnds => models' # <<>>
      BY DEF ModelEnds
    <3>2. CASE ModelEnds
      BY <3>1, <3>2 DEF ModelEnds, serviceVars
    <3>3. CASE JobEnds \/ AppEnds
      BY <3>3 DEF JobEnds, AppEnds, serviceVars
    <3> QED
      BY <2>8, <3>2, <3>3
  <2>9. CASE CreateApplication \/ WaitForApplication
    BY <2>9 DEF CreateApplication, WaitForApplication, serviceVars
  <2>10. CASE UNCHANGED <<serviceVars, models, app>>
    BY <2>10 DEF serviceVars
  <2>11. CASE ApiAnswers \/ CallRefused \/ EnsureUser \/ ConfigureSite
    BY <2>10, <2>11 DEF ApiAnswers, CallRefused, EnsureUser, ConfigureSite, EnsureEngineProfile,
       SetEnvVariable, PatchSiteConfig, Ensure, serverVars
  <2>12. CASE CheckModel \/ EnsureProject \/ UploadFiles \/ FindRuntime \/ CreateJob \/ StartJob
              \/ PollJob \/ CheckApp \/ EnsureVizProject \/ EnsureVizEngine
    BY <2>10, <2>12 DEF CheckModel, EnsureProject, UploadFiles, FindRuntime, CreateJob, StartJob,
       PollJob, CheckApp, EnsureVizProject, EnsureVizEngine, Ensure, serverVars
  <2>13. CASE WaitForModel \/ ConfigureUsers
    BY <2>10, <2>13 DEF WaitForModel, ConfigureUsers, ConfigureVizApps, CheckAdminPassword,
       ChangeAdminPassword, CreateVizUser, ChangeUserPassword, serverVars
  <2>14. CASE CdswNext
    BY <2>3, <2>4, <2>5, <2>6, <2>7, <2>8, <2>9, <2>11, <2>12, <2>13, <2>14
       DEF CdswNext, Deploy, Serve, DeployModel, DeployApp
  <2>15. CASE Shell \/ RangerRestarts \/ RunAgain
    BY <2>1, <2>2, <2>15, ShellKeeps
  <2> HIDE DEF CdswInv, CdswTypeOK
  <2> QED
    BY <1>1, <2>1, <2>14, <2>15 DEF Next, vars
<1>2. ClusterInv => ScriptRuns
  BY DEF ClusterInv
<1> QED
  BY <1>1, <1>2, ClusterInvariant, CdswInvariant, PTL DEF Spec, NothingWorkingIsDestroyed

\* Every variable of the provisioning holds what its comment says, for any number
\* of runs, attempts, retries and faults.
THEOREM TypeCorrect == Spec => []TypeOK
<1>1. ClusterInv /\ CdswInv => TypeOK
  BY DEF ClusterInv, ShellTypeOK, CdswInv, TypeOK
<1> QED
  BY <1>1, ClusterInvariant, CdswInvariant, PTL
=============================================================================
