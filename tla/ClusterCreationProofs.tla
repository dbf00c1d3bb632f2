-------------------------- MODULE ClusterCreationProofs --------------------------
(***************************************************************************)
(* What holds of setup.sh and create_cluster.py for any number of runs,     *)
(* retries, polls and faults.                                               *)
(***************************************************************************)
EXTENDS Provisioning, Integers, TLAPS

-----------------------------------------------------------------------------
(* The inductive invariant.                                                *)

\* create_cluster.py only runs while setup.sh waits for it.
ScriptRuns ==
  /\ creator # "off" => stage \in {"setup_cm", "create_cluster"} /\ result = "running"
  /\ creator \in SetupSteps => stage = "setup_cm"
  /\ creator \in CreateSteps => stage = "create_cluster"
  /\ result = "completed" => stage = "end"

\* The counters of the script's retries and waits.
Counting ==
  /\ creator = "bounce" => tries < ImportRetries
  /\ creator \in {"bounce_wait", "health"} =>
       stable >= 1 /\ good + stable = StableFor /\ polls >= 1
  /\ creator = "retry" => good >= StableFor
  /\ creator \in {"knox_wait", "knox_check"} => restarts >= 1

\* The steps of setup_cm by what CM has been told before them.
AfterHost == SetupSteps \ {"trial", "host", "host_wait"}

AfterMgmt == AfterHost \ {"mgmt"}

AfterBanner == AfterMgmt \ {"start_mgmt", "mgmt_wait", "banner"}

AfterHosts == AfterBanner \ {"hosts_config"}

AfterConfiguration == AfterHosts \ {"kerberos"}

AfterCredentials == AfterConfiguration \ {"principal", "principal_wait"}

AfterTls == AfterCredentials \ {"tls"}

\* The stages of setup.sh after create_cluster.py's second run.
LastStages == {"ranger", "ranger_wait", "policies", "efm", "topics", "atlas", "flink_home",
               "admin_home", "admin_owner", "cdsw", "end"}

SetupDone ==
  \/ creator = "ok" /\ stage = "setup_cm"
  \/ stage \in {"restart_cm", "wait_for_cm", "account", "create_cluster"} \cup LastStages

AfterImport == {"reset", "refresh", "refresh_wait", "knox", "knox_wait", "knox_check"}

ImportDone ==
  creator \in AfterImport \/ (creator = "ok" /\ stage = "create_cluster") \/ stage \in LastStages

\* What CM has been told, or has achieved, by then.
CmKnows ==
  /\ creator \in AfterHost \/ SetupDone => "host" \in cm
  /\ creator \in AfterMgmt \/ SetupDone => "mgmt" \in cm
  /\ creator \in AfterBanner \/ SetupDone => "banner" \in cm
  /\ creator \in AfterHosts \/ SetupDone => "hosts_config" \in cm
  /\ UseKerberos /\ (creator \in AfterConfiguration \/ SetupDone) => "kerberos" \in cm
  /\ UseKerberos /\ (creator \in AfterCredentials \/ SetupDone) => "admin_credentials" \in cm
  /\ UseTls /\ (creator \in AfterTls \/ SetupDone) => "tls" \in cm
  /\ ImportDone => "deployed" \in cm
  /\ \A c \in Commands : outcome[c] = "success" => Achieves(c.kind) \subseteq cm

AfterTopics == {"atlas", "flink_home", "admin_home", "admin_owner", "cdsw", "end"}

AfterEfm == AfterTopics \cup {"topics"}

\* What setup.sh has prepared by then.
ServicesReady ==
  /\ stage \in AfterTopics /\ "KAFKA" \in selected => topics
  /\ stage = "admin_owner" /\ ~ErrexitIsOff => homes # "none"
  /\ stage \in {"cdsw", "end"} /\ "FLINK" \in selected /\ ~ErrexitIsOff => homes = "owned"

\* What it has prepared, if nothing has failed.
UnseenReady ==
  faults = 0 =>
    /\ stage \in AfterEfm \cup {"efm"} /\ {"RANGER", "NIFI"} \subseteq selected => policies
    /\ stage \in AfterEfm /\ "CEM" \in selected => efm

\* The import that made the cluster is the first of all; those of later runs are
\* refused.
ImportsKnown ==
  /\ importer <= run
  /\ \A c \in active : c.run <= run /\ (c.kind = "import" => importer # 0 /\ importer <= c.run)
  /\ \A c \in Commands : outcome[c] = "success" /\ c.kind = "import" => importer = c.run
  /\ creator \in {"import_wait", "bounce", "bounce_wait", "health", "retry"} => importer # 0
  /\ creator = "reset" => importer = run /\ Command("import") \notin active

ShellTypeOK ==
  /\ selected \in Selections /\ stage \in Stages
  /\ result \in {"running", "completed", "failed"}
  /\ ranger \in {"none", "active", "ended", "unknown"}
  /\ policies \in BOOLEAN /\ efm \in BOOLEAN /\ topics \in BOOLEAN
  /\ homes \in {"none", "made", "owned"} /\ left \in 0..ShellRetries
  /\ faults \in 0..MaxFaults

ClusterInv ==
  /\ ShellTypeOK /\ ClusterTypeOK /\ ScriptRuns /\ Counting
  /\ CmKnows /\ ServicesReady /\ UnseenReady /\ ImportsKnown

-----------------------------------------------------------------------------
(* Lemmas.                                                                 *)

LEMMA CommandTyped ==
  ASSUME run \in 1..MaxRuns, NEW kind \in Kinds
  PROVE  Command(kind) \in Commands /\ Command(kind).kind = kind /\ Command(kind).run = run
BY DEF Command, Commands

\* Faults are counted, never forgotten.
LEMMA FaultsCounted ==
  ASSUME Next
  PROVE  Fault \/ UNCHANGED faults
<1>1. CASE Shell \/ RangerRestarts \/ RunAgain
  BY <1>1 DEF Shell, MakeTemplate, StartScript, ScriptReturns, RestartCm, WaitForCm,
     CreateAccount, RestartRanger, WaitForRanger, SetRangerPolicies, StartEfm, CreateTopics,
     LoadAtlasEntities, ChownFlinkHome, MakeAdminHome, ChownAdminHome, StartCdswSetup, Finish,
     RangerRestarts, RunAgain
<1>2. CASE SetupCm
  BY <1>2 DEF SetupCm, BeginTrial, InstallHost, WaitForHost, SetupMgmt, StartMgmt, WaitForMgmt,
     UpdateBanner, UpdateHosts, EnableKerberos, ImportAdminCredentials, WaitForCredentials,
     EnableTls, WaitForServiceMonitor, RestartMgmt, WaitForRestart, Tell, Submit, Wait, Proceed
<1>3. CASE CreateCluster("KNOX" \in installed)
  BY <1>3 DEF CreateCluster, ImportPaywallCredentials, ImportTemplate, WaitForImport, Bounce,
     WaitForBounce, PollHealth, RetryImport, ResetPaywallCredentials, RefreshMgmt, WaitForRefresh,
     RestartKnox, WaitForKnox, CheckKnox, Submit, Wait, Proceed
<1>4. CASE CreatorRaises \/ CommandEnds
  BY <1>4 DEF CreatorRaises, CommandEnds
<1>5. CASE PollStartup \/ MisreadStatus \/ ApiAnswers \/ CallRefused \/ EnsureUser \/ ConfigureSite
  BY <1>5 DEF PollStartup, RestartCdsw, MisreadStatus, ApiAnswers, CallRefused, EnsureUser, ConfigureSite,
     EnsureEngineProfile, SetEnvVariable, PatchSiteConfig, Ensure, Return
<1>6. CASE DeployModel \/ DeployApp
  BY <1>6 DEF DeployModel, CheckModel, DeleteProject, EnsureProject, UploadFiles, FindRuntime,
     CreateJob, StartJob, PollJob, CreateModel, DeployApp, CheckApp, DeleteVizProject,
     EnsureVizProject, EnsureVizEngine, CreateApplication, Ensure, Return
<1>7. CASE WaitForModel \/ WaitForApplication \/ ConfigureUsers
  BY <1>7 DEF WaitForModel, WaitForApplication, ConfigureUsers, ConfigureVizApps,
     CheckAdminPassword, ChangeAdminPassword, CreateVizUser, ChangeUserPassword, Return, Unnoticed
<1>8. CASE Serve \/ Hang \/ Tick
  BY <1>8 DEF Serve, Progress, JobEnds, ModelEnds, AppEnds, Hang, Tick
<1> QED
  BY <1>1, <1>2, <1>3, <1>4, <1>5, <1>6, <1>7, <1>8 DEF Next, Cluster, Create, CdswNext, Deploy

\* setup.sh starts at its beginning, with nothing told to CM.
LEMMA ClusterInitially == Init => ClusterInv
<1> SUFFICES ASSUME Init PROVE ClusterInv
  OBVIOUS
<1> USE ClusterAssumption, ShellAssumption, MaxFaultsAssumption DEF Init, ClusterInit
<1>1. ShellTypeOK
  <2>1. left \in 0..ShellRetries /\ faults \in 0..MaxFaults
    OBVIOUS
  <2> QED
    BY <2>1 DEF ShellTypeOK, Stages
<1>2. ClusterTypeOK
  BY DEF ClusterTypeOK, Commands
<1>3. ScriptRuns /\ Counting /\ ServicesReady /\ UnseenReady
  BY DEF ScriptRuns, Counting, ServicesReady, UnseenReady, AfterTopics, AfterEfm, SetupSteps,
         CreateSteps
<1>4. CmKnows
  BY DEF CmKnows, AfterHost, AfterMgmt, AfterBanner, AfterHosts, AfterConfiguration,
         AfterCredentials, AfterTls, LastStages, SetupDone, AfterImport, ImportDone, SetupSteps
<1>5. ImportsKnown
  BY DEF ImportsKnown
<1> QED
  BY <1>1, <1>2, <1>3, <1>4, <1>5 DEF ClusterInv

-----------------------------------------------------------------------------
(* The steps, one lemma per part of the invariant.  The steps of             *)
(* create_cluster.py and of CM leave setup.sh alone.                         *)

\* create_cluster.py and setup.sh wait for each other.
LEMMA ScriptKept ==
  ASSUME ClusterInv, Next
  PROVE  ScriptRuns'
<1> USE ClusterAssumption DEF ClusterInv, ClusterTypeOK, ScriptRuns, Tell, Submit, Wait,
        Proceed, Waits, SetupSteps, CreateSteps, counters, shellVars
<1>1. CASE SetupCm /\ UNCHANGED <<shellVars, cdswVars>>
  BY <1>1 DEF SetupCm, BeginTrial, InstallHost, WaitForHost, SetupMgmt, StartMgmt,
     WaitForMgmt, UpdateBanner, UpdateHosts, EnableKerberos, ImportAdminCredentials,
     WaitForCredentials, EnableTls, WaitForServiceMonitor, RestartMgmt, WaitForRestart,
     AfterKerberos
<1>2. CASE CreateCluster("KNOX" \in installed) /\ UNCHANGED <<shellVars, cdswVars>>
  BY <1>2 DEF CreateCluster, ImportPaywallCredentials, ImportTemplate, WaitForImport,
     Bounce, WaitForBounce, PollHealth, RetryImport, ResetPaywallCredentials, RefreshMgmt,
     WaitForRefresh, RestartKnox, WaitForKnox, CheckKnox
<1>3. CASE CreatorRaises /\ UNCHANGED <<shellVars, cdswVars>>
  BY <1>3 DEF CreatorRaises
<1>4. CASE CommandEnds /\ UNCHANGED <<shellVars, cdswVars>>
  BY <1>4 DEF CommandEnds
<1>5. CASE StartScript
  BY <1>5 DEF At, clusterVars, StartScript
<1>6. CASE ScriptReturns
  BY <1>6 DEF At, clusterVars, ScriptReturns, ScriptForgets
<1>7. CASE MakeTemplate \/ WaitForCm \/ CreateAccount \/ WaitForRanger \/ SetRangerPolicies
           \/ Finish
  BY <1>7 DEF At, clusterVars, MakeTemplate, WaitForCm, CreateAccount, WaitForRanger,
     SetRangerPolicies, Finish
<1>8. CASE RestartCm
  BY <1>8 DEF At, clusterVars, RestartCm
<1>9. CASE RestartRanger
  BY <1>9 DEF At, clusterVars, RestartRanger
<1>10. CASE StartEfm \/ CreateTopics \/ LoadAtlasEntities
  BY <1>10 DEF At, clusterVars, StartEfm, CreateTopics, LoadAtlasEntities, TryAgain
<1>11. CASE ChownFlinkHome \/ MakeAdminHome \/ ChownAdminHome
  BY <1>11 DEF At, clusterVars, ChownFlinkHome, MakeAdminHome, ChownAdminHome, TryAgainOr,
     TryAgain
<1>12. CASE StartCdswSetup
  BY <1>12 DEF At, clusterVars, StartCdswSetup
<1>13. CASE RangerRestarts \/ RunAgain
  BY <1>13 DEF At, clusterVars, RangerRestarts, RunAgain
<1>14. CASE CdswNext /\ UNCHANGED <<shellVars, clusterVars>>
  BY <1>14 DEF clusterVars
<1> QED
  BY <1>1, <1>2, <1>3, <1>4, <1>5, <1>6, <1>7, <1>8, <1>9, <1>10, <1>11, <1>12, <1>13, <1>14
     DEF Next, Shell, Cluster, Create

\* A count starts again with every wait.
LEMMA CountingKept ==
  ASSUME ClusterInv, Next
  PROVE  Counting'
<1> USE ClusterAssumption DEF ClusterInv, ClusterTypeOK, Counting, ScriptRuns, Tell, Submit,
        Wait, Proceed, Waits, SetupSteps, CreateSteps, counters, shellVars
<1>1. CASE SetupCm /\ UNCHANGED <<shellVars, cdswVars>>
  BY <1>1 DEF SetupCm, BeginTrial, InstallHost, WaitForHost, SetupMgmt, StartMgmt,
     WaitForMgmt, UpdateBanner, UpdateHosts, EnableKerberos, ImportAdminCredentials,
     WaitForCredentials, EnableTls, WaitForServiceMonitor, RestartMgmt, WaitForRestart,
     AfterKerberos
<1>2. CASE CreateCluster("KNOX" \in installed) /\ UNCHANGED <<shellVars, cdswVars>>
  BY <1>2 DEF CreateCluster, ImportPaywallCredentials, ImportTemplate, WaitForImport,
     Bounce, WaitForBounce, PollHealth, RetryImport, ResetPaywallCredentials, RefreshMgmt,
     WaitForRefresh, RestartKnox, WaitForKnox, CheckKnox
<1>3. CASE CreatorRaises /\ UNCHANGED <<shellVars, cdswVars>>
  BY <1>3 DEF CreatorRaises
<1>4. CASE CommandEnds /\ UNCHANGED <<shellVars, cdswVars>>
  BY <1>4 DEF CommandEnds
<1>5. CASE StartScript
  BY <1>5 DEF At, clusterVars, StartScript
<1>6. CASE ScriptReturns
  BY <1>6 DEF At, clusterVars, ScriptReturns, ScriptForgets
<1>7. CASE MakeTemplate \/ WaitForCm \/ CreateAccount \/ WaitForRanger \/ SetRangerPolicies
           \/ Finish
  BY <1>7 DEF At, clusterVars, MakeTemplate, WaitForCm, CreateAccount, WaitForRanger,
     SetRangerPolicies, Finish
<1>8. CASE RestartCm
  BY <1>8 DEF At, clusterVars, RestartCm
<1>9. CASE RestartRanger
  BY <1>9 DEF At, clusterVars, RestartRanger
<1>10. CASE StartEfm \/ CreateTopics \/ LoadAtlasEntities
  BY <1>10 DEF At, clusterVars, StartEfm, CreateTopics, LoadAtlasEntities, TryAgain
<1>11. CASE ChownFlinkHome \/ MakeAdminHome \/ ChownAdminHome
  BY <1>11 DEF At, clusterVars, ChownFlinkHome, MakeAdminHome, ChownAdminHome, TryAgainOr,
     TryAgain
<1>12. CASE StartCdswSetup
  BY <1>12 DEF At, clusterVars, StartCdswSetup
<1>13. CASE RangerRestarts \/ RunAgain
  BY <1>13 DEF At, clusterVars, RangerRestarts, RunAgain
<1>14. CASE CdswNext /\ UNCHANGED <<shellVars, clusterVars>>
  BY <1>14 DEF clusterVars
<1> QED
  BY <1>1, <1>2, <1>3, <1>4, <1>5, <1>6, <1>7, <1>8, <1>9, <1>10, <1>11, <1>12, <1>13, <1>14
     DEF Next, Shell, Cluster, Create

\* A stage is only left when it has done its work.
LEMMA ServicesKept ==
  ASSUME ClusterInv, Next
  PROVE  ServicesReady'
<1> USE ClusterAssumption DEF ClusterInv, ClusterTypeOK, ServicesReady, AfterTopics, ErrexitIsOff, ShellTypeOK, ScriptRuns, Tell,
        Submit, Wait, Proceed, Waits, SetupSteps, CreateSteps, counters, shellVars
<1>1. CASE SetupCm /\ UNCHANGED <<shellVars, cdswVars>>
  BY <1>1 DEF SetupCm, BeginTrial, InstallHost, WaitForHost, SetupMgmt, StartMgmt,
     WaitForMgmt, UpdateBanner, UpdateHosts, EnableKerberos, ImportAdminCredentials,
     WaitForCredentials, EnableTls, WaitForServiceMonitor, RestartMgmt, WaitForRestart,
     AfterKerberos
<1>2. CASE CreateCluster("KNOX" \in installed) /\ UNCHANGED <<shellVars, cdswVars>>
  BY <1>2 DEF CreateCluster, ImportPaywallCredentials, ImportTemplate, WaitForImport,
     Bounce, WaitForBounce, PollHealth, RetryImport, ResetPaywallCredentials, RefreshMgmt,
     WaitForRefresh, RestartKnox, WaitForKnox, CheckKnox
<1>3. CASE CreatorRaises /\ UNCHANGED <<shellVars, cdswVars>>
  BY <1>3 DEF CreatorRaises
<1>4. CASE CommandEnds /\ UNCHANGED <<shellVars, cdswVars>>
  BY <1>4 DEF CommandEnds
<1>5. CASE StartScript
  BY <1>5 DEF At, clusterVars, StartScript
<1>6. CASE ScriptReturns
  BY <1>6 DEF At, clusterVars, ScriptReturns, ScriptForgets
<1>7. CASE MakeTemplate \/ WaitForCm \/ CreateAccount \/ WaitForRanger \/ SetRangerPolicies
           \/ Finish
  BY <1>7 DEF At, clusterVars, MakeTemplate, WaitForCm, CreateAccount, WaitForRanger,
     SetRangerPolicies, Finish
<1>8. CASE RestartCm
  BY <1>8 DEF At, clusterVars, RestartCm
<1>9. CASE RestartRanger
  BY <1>9 DEF At, clusterVars, RestartRanger
<1>10. CASE StartEfm \/ CreateTopics \/ LoadAtlasEntities
  BY <1>10 DEF At, clusterVars, StartEfm, CreateTopics, LoadAtlasEntities, TryAgain
<1>11. CASE ChownFlinkHome \/ MakeAdminHome \/ ChownAdminHome
  BY <1>11 DEF At, clusterVars, ChownFlinkHome, MakeAdminHome, ChownAdminHome, TryAgainOr,
     TryAgain
<1>12. CASE StartCdswSetup
  BY <1>12 DEF At, clusterVars, StartCdswSetup
<1>13. CASE RangerRestarts \/ RunAgain
  BY <1>13 DEF At, clusterVars, RangerRestarts, RunAgain
<1>14. CASE CdswNext /\ UNCHANGED <<shellVars, clusterVars>>
  BY <1>14 DEF clusterVars
<1> QED
  BY <1>1, <1>2, <1>3, <1>4, <1>5, <1>6, <1>7, <1>8, <1>9, <1>10, <1>11, <1>12, <1>13, <1>14
     DEF Next, Shell, Cluster, Create

\* Without a fault there is nothing that a stage leaves out unseen.
LEMMA UnseenKept ==
  ASSUME ClusterInv, Next
  PROVE  UnseenReady'
<1>1. SUFFICES ASSUME faults' = 0 PROVE UnseenReady'
  BY DEF UnseenReady
<1>2. faults = 0 /\ ~Fault
  BY <1>1, FaultsCounted DEF Fault, ClusterInv, ShellTypeOK
<1>3. UnseenReady /\ ScriptRuns
  BY DEF ClusterInv
<1>4. CASE UNCHANGED shellVars
  BY <1>2, <1>3, <1>4 DEF UnseenReady, shellVars
<1> USE <1>2, <1>3 DEF UnseenReady, AfterTopics, AfterEfm, At
<1>5. CASE MakeTemplate \/ RestartCm \/ WaitForCm \/ CreateAccount \/ RestartRanger
           \/ WaitForRanger \/ SetRangerPolicies
  BY <1>5 DEF MakeTemplate, RestartCm, WaitForCm, CreateAccount, RestartRanger, WaitForRanger,
     SetRangerPolicies
<1>6. CASE StartEfm \/ CreateTopics \/ LoadAtlasEntities
  BY <1>6 DEF StartEfm, CreateTopics, LoadAtlasEntities
<1>7. CASE ChownFlinkHome \/ MakeAdminHome \/ ChownAdminHome
  BY <1>7 DEF ChownFlinkHome, MakeAdminHome, ChownAdminHome, TryAgainOr, TryAgain
<1>8. CASE ScriptReturns
  BY <1>8 DEF ScriptReturns, ScriptRuns
<1>9. CASE StartCdswSetup \/ Finish \/ RangerRestarts \/ RunAgain
  BY <1>9 DEF StartCdswSetup, Finish, RangerRestarts, RunAgain
<1>10. CASE StartScript
  BY <1>4, <1>10 DEF StartScript
<1> QED
  BY <1>4, <1>5, <1>6, <1>7, <1>8, <1>9, <1>10 DEF Next, Shell

\* CM has been told, or has achieved, what a step relies on; only the credentials are
\* ever removed.
LEMMA CmKnowledgeKept ==
  ASSUME ClusterInv, Next
  PROVE  CmKnows'
<1> USE ClusterAssumption DEF ClusterInv, ClusterTypeOK, CmKnows, ScriptRuns, AfterHost,
        AfterMgmt, AfterBanner, AfterHosts, AfterConfiguration, AfterCredentials, AfterTls,
        LastStages, SetupDone, AfterImport, ImportDone, Achieves, Tell, Submit, Wait,
        Proceed, Waits, SetupSteps, CreateSteps, counters, shellVars
<1>1. CASE SetupCm /\ UNCHANGED <<shellVars, cdswVars>>
  <2>1. CASE BeginTrial
    BY <1>1, <2>1 DEF BeginTrial, AfterKerberos
  <2>2. CASE InstallHost
    BY <1>1, <2>2 DEF InstallHost, AfterKerberos
  <2>3. CASE SetupMgmt
    BY <1>1, <2>3 DEF SetupMgmt, AfterKerberos
  <2>4. CASE StartMgmt
    BY <1>1, <2>4 DEF StartMgmt, AfterKerberos
  <2>5. CASE WaitForMgmt
    BY <1>1, <2>5 DEF WaitForMgmt, AfterKerberos
  <2>6. CASE UpdateBanner
    BY <1>1, <2>6 DEF UpdateBanner, AfterKerberos
  <2>7. CASE UpdateHosts
    BY <1>1, <2>7 DEF UpdateHosts, AfterKerberos
  <2>8. CASE EnableKerberos
    BY <1>1, <2>8 DEF EnableKerberos, AfterKerberos
  <2>9. CASE ImportAdminCredentials
    BY <1>1, <2>9 DEF ImportAdminCredentials, AfterKerberos
  <2>10. CASE EnableTls
    BY <1>1, <2>10 DEF EnableTls, AfterKerberos
  <2>11. CASE WaitForServiceMonitor
    BY <1>1, <2>11 DEF WaitForServiceMonitor, AfterKerberos
  <2>12. CASE RestartMgmt
    BY <1>1, <2>12 DEF RestartMgmt, AfterKerberos
  <2>13. CASE WaitForRestart
    BY <1>1, <2>13 DEF WaitForRestart, AfterKerberos
  <2>14. CASE WaitForHost
    <3>1. Command("install") \in Commands /\ Achieves(Command("install").kind) = {"host"}
      BY CommandTyped DEF Kinds, Achieves
    <3>2. outcome[Command("install")] = "success" => "host" \in cm
      BY <3>1
    <3> QED
      BY <1>1, <2>14, <3>2 DEF WaitForHost
  <2>15. CASE WaitForCredentials
    <3>1. Command("admin_credentials") \in Commands /\ Achieves(Command("admin_credentials").kind) = {"admin_credentials"}
      BY CommandTyped DEF Kinds, Achieves
    <3>2. outcome[Command("admin_credentials")] = "success" => "admin_credentials" \in cm
      BY <3>1
    <3> QED
      BY <1>1, <2>15, <3>2 DEF WaitForCredentials, AfterKerberos
  <2> QED
    BY <1>1, <2>1, <2>2, <2>3, <2>4, <2>5, <2>6, <2>7, <2>8, <2>9, <2>10, <2>11, <2>12,
       <2>13, <2>14, <2>15 DEF SetupCm
<1>2. CASE CreateCluster("KNOX" \in installed) /\ UNCHANGED <<shellVars, cdswVars>>
  <2>1. CASE ImportPaywallCredentials \/ ImportTemplate \/ Bounce
    BY <1>2, <2>1 DEF ImportPaywallCredentials, ImportTemplate, Bounce
  <2>2. CASE WaitForBounce \/ PollHealth \/ RetryImport
    BY <1>2, <2>2 DEF WaitForBounce, PollHealth, RetryImport
  <2>3. CASE ResetPaywallCredentials \/ RefreshMgmt \/ WaitForRefresh
    BY <1>2, <2>3 DEF ResetPaywallCredentials, RefreshMgmt, WaitForRefresh
  <2>4. CASE RestartKnox("KNOX" \in installed) \/ WaitForKnox \/ CheckKnox
    BY <1>2, <2>4 DEF RestartKnox, WaitForKnox, CheckKnox
  <2>5. CASE WaitForImport
    <3>1. Command("import") \in Commands /\ Achieves(Command("import").kind) = {"deployed"}
      BY CommandTyped DEF Kinds, Achieves
    <3>2. outcome[Command("import")] = "success" => "deployed" \in cm
      BY <3>1
    <3> QED
      BY <1>2, <2>5, <3>2 DEF WaitForImport
  <2> QED
    BY <1>2, <2>1, <2>2, <2>3, <2>4, <2>5 DEF CreateCluster
<1>3. CASE CreatorRaises /\ UNCHANGED <<shellVars, cdswVars>>
  BY <1>3 DEF CreatorRaises
<1>4. CASE CommandEnds /\ UNCHANGED <<shellVars, cdswVars>>
  BY <1>4 DEF CommandEnds
<1>5. CASE StartScript
  BY <1>5 DEF At, clusterVars, StartScript
<1>6. CASE ScriptReturns
  BY <1>6 DEF At, clusterVars, ScriptReturns, ScriptForgets
<1>7. CASE MakeTemplate \/ WaitForCm \/ CreateAccount \/ WaitForRanger \/ SetRangerPolicies
           \/ Finish
  BY <1>7 DEF At, clusterVars, MakeTemplate, WaitForCm, CreateAccount, WaitForRanger,
     SetRangerPolicies, Finish
<1>8. CASE RestartCm
  BY <1>8 DEF At, clusterVars, RestartCm
<1>9. CASE RestartRanger
  BY <1>9 DEF At, clusterVars, RestartRanger
<1>10. CASE StartEfm \/ CreateTopics \/ LoadAtlasEntities
  BY <1>10 DEF At, clusterVars, StartEfm, CreateTopics, LoadAtlasEntities, TryAgain
<1>11. CASE ChownFlinkHome \/ MakeAdminHome \/ ChownAdminHome
  BY <1>11 DEF At, clusterVars, ChownFlinkHome, MakeAdminHome, ChownAdminHome, TryAgainOr,
     TryAgain
<1>12. CASE StartCdswSetup
  BY <1>12 DEF At, clusterVars, StartCdswSetup
<1>13. CASE RangerRestarts \/ RunAgain
  BY <1>13 DEF At, clusterVars, RangerRestarts, RunAgain
<1>14. CASE CdswNext /\ UNCHANGED <<shellVars, clusterVars>>
  BY <1>14 DEF clusterVars
<1> QED
  BY <1>1, <1>2, <1>3, <1>4, <1>5, <1>6, <1>7, <1>8, <1>9, <1>10, <1>11, <1>12, <1>13, <1>14
     DEF Next, Shell, Cluster, Create

\* The first import makes the cluster, and the run that goes on is its run.
LEMMA ImportsKept ==
  ASSUME ClusterInv, Next
  PROVE  ImportsKnown'
<1> USE ClusterAssumption DEF ClusterInv, ClusterTypeOK, ImportsKnown, Command, Commands,
        ScriptRuns, Tell, Submit, Wait, Proceed, Waits, SetupSteps, CreateSteps, counters,
        shellVars
<1>1. CASE SetupCm /\ UNCHANGED <<shellVars, cdswVars>>
  BY <1>1 DEF SetupCm, BeginTrial, InstallHost, WaitForHost, SetupMgmt, StartMgmt,
     WaitForMgmt, UpdateBanner, UpdateHosts, EnableKerberos, ImportAdminCredentials,
     WaitForCredentials, EnableTls, WaitForServiceMonitor, RestartMgmt, WaitForRestart,
     AfterKerberos
<1>2. CASE CreateCluster("KNOX" \in installed) /\ UNCHANGED <<shellVars, cdswVars>>
  <2>1. CASE ImportPaywallCredentials \/ ImportTemplate \/ Bounce
    BY <1>2, <2>1 DEF ImportPaywallCredentials, ImportTemplate, Bounce
  <2>2. CASE WaitForBounce \/ PollHealth \/ ResetPaywallCredentials
    BY <1>2, <2>2 DEF WaitForBounce, PollHealth, ResetPaywallCredentials
  <2>3. CASE RefreshMgmt \/ WaitForRefresh \/ RestartKnox("KNOX" \in installed)
    BY <1>2, <2>3 DEF RefreshMgmt, WaitForRefresh, RestartKnox
  <2>4. CASE WaitForKnox \/ CheckKnox
    BY <1>2, <2>4 DEF WaitForKnox, CheckKnox
  <2>5. CASE WaitForImport
    <3>1. Command("import") \in Commands /\ Command("import").kind = "import"
          /\ Command("import").run = run
      BY CommandTyped DEF Kinds
    <3>2. UNCHANGED <<run, importer, outcome, active>>
      BY <1>2, <2>5 DEF WaitForImport
    <3>3. Command("import")' = Command("import")
      BY <3>2
    <3> HIDE DEF Command, Commands
    <3> QED
      BY <1>2, <2>5, <3>1, <3>2, <3>3 DEF WaitForImport
  <2>6. CASE RetryImport
    <3>1. Command("import") \in Commands /\ Command("import").kind = "import"
          /\ Command("import").run = run
      BY CommandTyped DEF Kinds
    <3>2. UNCHANGED <<run, importer>>
      BY <1>2, <2>6 DEF RetryImport
    <3>3. Command("import")' = Command("import")
      BY <3>2
    <3> HIDE DEF Command, Commands
    <3> QED
      BY <1>2, <2>6, <3>1, <3>2, <3>3 DEF RetryImport
  <2> QED
    BY <1>2, <2>1, <2>2, <2>3, <2>4, <2>5, <2>6 DEF CreateCluster
<1>3. CASE CreatorRaises /\ UNCHANGED <<shellVars, cdswVars>>
  BY <1>3 DEF CreatorRaises
<1>4. CASE CommandEnds /\ UNCHANGED <<shellVars, cdswVars>>
  BY <1>4 DEF CommandEnds
<1>5. CASE StartScript
  BY <1>5 DEF At, clusterVars, StartScript
<1>6. CASE ScriptReturns
  BY <1>6 DEF At, clusterVars, ScriptReturns, ScriptForgets
<1>7. CASE MakeTemplate \/ WaitForCm \/ CreateAccount \/ WaitForRanger \/ SetRangerPolicies
           \/ Finish
  BY <1>7 DEF At, clusterVars, MakeTemplate, WaitForCm, CreateAccount, WaitForRanger,
     SetRangerPolicies, Finish
<1>8. CASE RestartCm
  BY <1>8 DEF At, clusterVars, RestartCm
<1>9. CASE RestartRanger
  BY <1>9 DEF At, clusterVars, RestartRanger
<1>10. CASE StartEfm \/ CreateTopics \/ LoadAtlasEntities
  BY <1>10 DEF At, clusterVars, StartEfm, CreateTopics, LoadAtlasEntities, TryAgain
<1>11. CASE ChownFlinkHome \/ MakeAdminHome \/ ChownAdminHome
  BY <1>11 DEF At, clusterVars, ChownFlinkHome, MakeAdminHome, ChownAdminHome, TryAgainOr,
     TryAgain
<1>12. CASE StartCdswSetup
  BY <1>12 DEF At, clusterVars, StartCdswSetup
<1>13. CASE RangerRestarts \/ RunAgain
  BY <1>13 DEF At, clusterVars, RangerRestarts, RunAgain
<1>14. CASE CdswNext /\ UNCHANGED <<shellVars, clusterVars>>
  BY <1>14 DEF clusterVars
<1> QED
  BY <1>1, <1>2, <1>3, <1>4, <1>5, <1>6, <1>7, <1>8, <1>9, <1>10, <1>11, <1>12, <1>13, <1>14
     DEF Next, Shell, Cluster, Create

\* No step forgets what kind of value a variable of create_cluster.py holds.
LEMMA ClusterTypesKept ==
  ASSUME ClusterInv, Next
  PROVE  ClusterTypeOK'
<1> USE ClusterAssumption DEF ClusterInv, ClusterTypeOK, Counting, ScriptRuns, Facts,
        ScriptForgets, Achieves, Tell, Submit, Wait, Proceed, Waits, SetupSteps,
        CreateSteps, counters, shellVars
<1>0. \A kind \in Kinds : Command(kind) \in Commands
  BY CommandTyped
<1> USE <1>0 DEF Kinds
<1>1. CASE SetupCm /\ UNCHANGED <<shellVars, cdswVars>>
  <2>1. CASE BeginTrial \/ InstallHost \/ WaitForHost
    BY <1>1, <2>1 DEF BeginTrial, InstallHost, WaitForHost, AfterKerberos
  <2>2. CASE SetupMgmt \/ StartMgmt \/ WaitForMgmt
    BY <1>1, <2>2 DEF SetupMgmt, StartMgmt, WaitForMgmt, AfterKerberos
  <2>3. CASE UpdateBanner \/ UpdateHosts \/ EnableKerberos
    BY <1>1, <2>3 DEF UpdateBanner, UpdateHosts, EnableKerberos, AfterKerberos
  <2>4. CASE ImportAdminCredentials \/ WaitForCredentials \/ EnableTls
    BY <1>1, <2>4 DEF ImportAdminCredentials, WaitForCredentials, EnableTls, AfterKerberos
  <2>5. CASE WaitForServiceMonitor \/ RestartMgmt \/ WaitForRestart
    BY <1>1, <2>5 DEF WaitForServiceMonitor, RestartMgmt, WaitForRestart, AfterKerberos
  <2> QED
    BY <1>1, <2>1, <2>2, <2>3, <2>4, <2>5 DEF SetupCm
<1>2. CASE CreateCluster("KNOX" \in installed) /\ UNCHANGED <<shellVars, cdswVars>>
  <2>1. CASE ImportPaywallCredentials
    BY <1>2, <2>1 DEF ImportPaywallCredentials
  <2>2. CASE ImportTemplate
    BY <1>2, <2>2 DEF ImportTemplate
  <2>3. CASE WaitForImport
    BY <1>2, <2>3 DEF WaitForImport
  <2>4. CASE Bounce
    BY <1>2, <2>4 DEF Bounce
  <2>5. CASE WaitForBounce
    BY <1>2, <2>5 DEF WaitForBounce
  <2>6. CASE PollHealth
    BY <1>2, <2>6 DEF PollHealth
  <2>7. CASE RetryImport
    BY <1>2, <2>7 DEF RetryImport
  <2>8. CASE ResetPaywallCredentials
    BY <1>2, <2>8 DEF ResetPaywallCredentials
  <2>9. CASE RefreshMgmt
    BY <1>2, <2>9 DEF RefreshMgmt
  <2>10. CASE WaitForRefresh
    BY <1>2, <2>10 DEF WaitForRefresh
  <2>11. CASE RestartKnox("KNOX" \in installed)
    BY <1>2, <2>11 DEF RestartKnox
  <2>12. CASE WaitForKnox
    BY <1>2, <2>12 DEF WaitForKnox
  <2>13. CASE CheckKnox
    BY <1>2, <2>13 DEF CheckKnox
  <2> QED
    BY <1>2, <2>1, <2>2, <2>3, <2>4, <2>5, <2>6, <2>7, <2>8, <2>9, <2>10, <2>11, <2>12,
       <2>13 DEF CreateCluster
<1>3. CASE CreatorRaises /\ UNCHANGED <<shellVars, cdswVars>>
  BY <1>3 DEF CreatorRaises
<1>4. CASE CommandEnds /\ UNCHANGED <<shellVars, cdswVars>>
  BY <1>4 DEF CommandEnds
<1>5. CASE StartScript
  BY <1>5 DEF At, clusterVars, StartScript
<1>6. CASE ScriptReturns
  BY <1>6 DEF At, clusterVars, ScriptReturns, ScriptForgets
<1>7. CASE MakeTemplate \/ WaitForCm \/ CreateAccount \/ WaitForRanger \/ SetRangerPolicies
           \/ Finish
  BY <1>7 DEF At, clusterVars, MakeTemplate, WaitForCm, CreateAccount, WaitForRanger,
     SetRangerPolicies, Finish
<1>8. CASE RestartCm
  BY <1>8 DEF At, clusterVars, RestartCm
<1>9. CASE RestartRanger
  BY <1>9 DEF At, clusterVars, RestartRanger
<1>10. CASE StartEfm \/ CreateTopics \/ LoadAtlasEntities
  BY <1>10 DEF At, clusterVars, StartEfm, CreateTopics, LoadAtlasEntities, TryAgain
<1>11. CASE ChownFlinkHome \/ MakeAdminHome \/ ChownAdminHome
  BY <1>11 DEF At, clusterVars, ChownFlinkHome, MakeAdminHome, ChownAdminHome, TryAgainOr,
     TryAgain
<1>12. CASE StartCdswSetup
  BY <1>12 DEF At, clusterVars, StartCdswSetup
<1>13. CASE RangerRestarts \/ RunAgain
  <2>1. CASE RangerRestarts
    BY <2>1 DEF clusterVars, RangerRestarts
  <2>2. CASE RunAgain
    <3>1. (run \in 1..MaxRuns)'
      BY <2>2 DEF RunAgain
    <3> QED
      BY <2>2, <3>1 DEF RunAgain
  <2> QED
    BY <1>13, <2>1, <2>2
<1>14. CASE CdswNext /\ UNCHANGED <<shellVars, clusterVars>>
  BY <1>14 DEF clusterVars
<1> QED
  BY <1>1, <1>2, <1>3, <1>4, <1>5, <1>6, <1>7, <1>8, <1>9, <1>10, <1>11, <1>12, <1>13, <1>14
     DEF Next, Shell, Cluster, Create

\* Nor one of setup.sh.
LEMMA ShellTypesKept ==
  ASSUME ClusterInv, Next
  PROVE  ShellTypeOK'
<1> USE DEF ClusterInv, ShellTypeOK, At
<1>1. (faults \in 0..MaxFaults)'
  BY FaultsCounted, MaxFaultsAssumption DEF Fault
<1>2. CASE UNCHANGED shellVars
  BY <1>1, <1>2 DEF shellVars
<1>3. CASE MakeTemplate \/ ScriptReturns \/ RestartCm \/ WaitForCm \/ CreateAccount
           \/ RestartRanger \/ WaitForRanger \/ SetRangerPolicies \/ StartCdswSetup \/ Finish
           \/ RangerRestarts
  BY <1>1, <1>3 DEF MakeTemplate, ScriptReturns, RestartCm, WaitForCm, CreateAccount,
     RestartRanger, WaitForRanger, SetRangerPolicies, StartCdswSetup, Finish, RangerRestarts,
     Stages
<1>4. CASE \/ StartEfm \/ CreateTopics \/ LoadAtlasEntities \/ ChownFlinkHome \/ MakeAdminHome
           \/ ChownAdminHome \/ RunAgain
  <2> USE <1>4 DEF StartEfm, CreateTopics, LoadAtlasEntities, ChownFlinkHome, MakeAdminHome,
          ChownAdminHome, RunAgain, TryAgainOr, TryAgain
  <2>1. (left \in 0..ShellRetries)'
    BY ShellAssumption
  <2>2. (policies \in BOOLEAN /\ efm \in BOOLEAN /\ topics \in BOOLEAN)'
    OBVIOUS
  <2>3. (homes \in {"none", "made", "owned"} /\ ranger \in {"none", "active", "ended", "unknown"})'
    OBVIOUS
  <2>4. (selected \in Selections /\ stage \in Stages)'
    BY DEF Stages
  <2>5. (result \in {"running", "completed", "failed"})'
    OBVIOUS
  <2> QED
    BY <1>1, <2>1, <2>2, <2>3, <2>4, <2>5
<1>5. CASE StartScript
  BY <1>2, <1>5 DEF StartScript
<1> QED
  BY <1>2, <1>3, <1>4, <1>5 DEF Next, Shell

LEMMA ClusterStep == ClusterInv /\ [Next]_vars => ClusterInv'
<1> SUFFICES ASSUME ClusterInv, [Next]_vars PROVE ClusterInv'
  OBVIOUS
<1>1. CASE Next
  BY <1>1, ShellTypesKept, ClusterTypesKept, ScriptKept, CountingKept, CmKnowledgeKept,
     ServicesKept, UnseenKept, ImportsKept DEF ClusterInv
<1>2. CASE UNCHANGED vars
  <2> USE <1>2 DEF vars, shellVars, clusterVars, counters
  <2>1. (ShellTypeOK /\ ClusterTypeOK /\ ScriptRuns /\ Counting /\ ServicesReady /\ UnseenReady)'
    BY DEF ClusterInv, ShellTypeOK, ClusterTypeOK, ScriptRuns, Counting, ServicesReady,
           UnseenReady, ErrexitIsOff
  <2>2. CmKnows'
    BY DEF ClusterInv, CmKnows, SetupDone, ImportDone
  <2>3. ImportsKnown'
    BY DEF ClusterInv, ImportsKnown, Command
  <2> QED
    BY <2>1, <2>2, <2>3 DEF ClusterInv
<1> QED
  BY <1>1, <1>2

\* The inductive invariant of setup.sh and create_cluster.py holds in every state.
THEOREM ClusterInvariant == Spec => []ClusterInv
<1> QED
  BY ClusterInitially, ClusterStep, PTL DEF Spec

-----------------------------------------------------------------------------
(* The results.                                                            *)

\* The template is made of what was asked for, and once setup.sh is past it
\* nothing required is missing.
TemplateInv ==
  /\ selected \subseteq installed
  /\ stage # "template" => Missing(installed) = {}

LEMMA TemplateStep == ClusterInv /\ TemplateInv /\ [Next]_vars => TemplateInv'
<1> SUFFICES ASSUME ClusterInv, TemplateInv, [Next]_vars PROVE TemplateInv'
  OBVIOUS
<1> USE DEF TemplateInv
<1>1. CASE MakeTemplate
  BY <1>1 DEF MakeTemplate, At
<1>2. CASE UNCHANGED shellVars
  BY <1>2 DEF shellVars
<1>3. CASE ScriptReturns
  <2>1. stage # "template"
    BY <1>3 DEF ScriptReturns, ClusterInv, ScriptRuns
  <2> QED
    BY <1>3, <2>1 DEF ScriptReturns
<1>4. CASE StartScript
  BY <1>2, <1>4 DEF StartScript
<1>5. CASE \/ RestartCm \/ WaitForCm \/ CreateAccount \/ RestartRanger \/ WaitForRanger
           \/ SetRangerPolicies \/ StartEfm \/ CreateTopics \/ LoadAtlasEntities
           \/ ChownFlinkHome \/ MakeAdminHome \/ ChownAdminHome \/ StartCdswSetup \/ Finish
           \/ RangerRestarts
  <2>1. (stage # "template" \/ stage' = "template") /\ UNCHANGED <<selected, installed>>
    BY <1>5 DEF RestartCm, WaitForCm, CreateAccount, RestartRanger, WaitForRanger,
       SetRangerPolicies, StartEfm, CreateTopics, LoadAtlasEntities, ChownFlinkHome,
       MakeAdminHome, ChownAdminHome, StartCdswSetup, Finish, RangerRestarts, At
  <2> QED
    BY <2>1
<1>6. CASE RunAgain
  BY <1>6 DEF RunAgain
<1> QED
  BY <1>1, <1>2, <1>3, <1>4, <1>5, <1>6 DEF Next, Shell, Cluster, vars

\* "Setup return code: 0" is only written, for any number of runs, retries and
\* faults, when the template was closed under its dependencies and all that
\* Prepared names was done; the policies of Ranger and EFM too if nothing failed.
THEOREM SetupCompletes == Spec => []SetupIsComplete
<1>1. Init => TemplateInv
  BY DEF Init, TemplateInv
<1>2. ClusterInv /\ result = "completed" => Prepared /\ stage # "template"
  BY DEF ClusterInv, ScriptRuns, CmKnows, SetupDone, ImportDone, LastStages, ServicesReady,
         AfterTopics, Prepared
<1>3. ClusterInv /\ result = "completed" /\ faults = 0 => Unseen
  BY DEF ClusterInv, ScriptRuns, UnseenReady, AfterTopics, AfterEfm, Unseen
<1>4. Missing(installed) = {} => {"BASE"} \subseteq installed /\ RequiredBy(installed) \subseteq installed
  <2>1. RequiredBy(installed) \cup {"BASE"} \subseteq RequiredBy(installed \cup {"all"})
    <3>1. Service("all", {"BASE"}) \in Dependencies
      BY DEF Dependencies
    <3> HIDE DEF Dependencies
    <3> QED
      BY <3>1 DEF RequiredBy, Service
  <2> QED
    BY <2>1 DEF Missing
<1>5. ClusterInv /\ TemplateInv => SetupIsComplete
  BY <1>2, <1>3, <1>4 DEF TemplateInv, SetupIsComplete
<1> QED
  BY <1>1, <1>5, TemplateStep, ClusterInvariant, PTL DEF Spec

\* The credentials of the parcel repository are not removed while anybody's
\* import may still need them.
THEOREM CredentialsOutlastImports == Spec => PaywallOutlastsImports
<1> DEFINE Outlasts == cm' # cm /\ ~(cm \subseteq cm') =>
                         "deployed" \in cm /\ \A c \in active : c.kind # "import"
<1>1. ASSUME ClusterInv, [Next]_vars PROVE Outlasts
  <2>1. CASE ResetPaywallCredentials
    <3>1. "deployed" \in cm /\ importer = run /\ Command("import") \notin active
      BY <1>1, <2>1 DEF ResetPaywallCredentials, ClusterInv, CmKnows, ImportDone, AfterImport,
         ImportsKnown
    <3>2. ASSUME NEW c \in active, c.kind = "import" PROVE FALSE
      <4>1. c \in Commands /\ c.run <= run /\ importer <= c.run /\ run \in 1..MaxRuns
        BY <1>1, <3>2 DEF ClusterInv, ClusterTypeOK, ImportsKnown
      <4>2. c.run = run
        BY <3>1, <4>1, ClusterAssumption DEF Commands
      <4>3. c = Command("import")
        BY <3>2, <4>1, <4>2 DEF Commands, Command
      <4> QED
        BY <3>1, <4>3
    <3> QED
      BY <3>1, <3>2
  <2>2. CASE cm \subseteq cm'
    BY <2>2
  <2>3. CASE UNCHANGED cm
    BY <2>3
  <2>4. CASE SetupCm
    BY <2>2, <2>4 DEF SetupCm, BeginTrial, InstallHost, WaitForHost, SetupMgmt, StartMgmt,
       WaitForMgmt, UpdateBanner, UpdateHosts, EnableKerberos, ImportAdminCredentials,
       WaitForCredentials, EnableTls, WaitForServiceMonitor, RestartMgmt, WaitForRestart, Tell,
       Submit, Wait
  <2>5. CASE CreateCluster("KNOX" \in installed)
    BY <2>1, <2>2, <2>5 DEF CreateCluster, ImportPaywallCredentials, ImportTemplate, WaitForImport,
       Bounce, WaitForBounce, PollHealth, RetryImport, RefreshMgmt, WaitForRefresh, RestartKnox,
       WaitForKnox, CheckKnox, Submit, Wait
  <2>6. CASE CreatorRaises \/ CommandEnds
    BY <2>2, <2>6 DEF CreatorRaises, CommandEnds
  <2>7. CASE Shell \/ RangerRestarts \/ RunAgain
    BY <2>3, <2>7 DEF Shell, MakeTemplate, StartScript, ScriptReturns, RestartCm, WaitForCm,
       CreateAccount, RestartRanger, WaitForRanger, SetRangerPolicies, StartEfm, CreateTopics,
       LoadAtlasEntities, ChownFlinkHome, MakeAdminHome, ChownAdminHome, StartCdswSetup, Finish,
       RangerRestarts, RunAgain, clusterVars
  <2> QED
    BY <1>1, <2>3, <2>4, <2>5, <2>6, <2>7 DEF Next, Cluster, Create, vars, clusterVars
<1> QED
  BY <1>1, ClusterInvariant, PTL DEF Spec, PaywallOutlastsImports

\* An import is retried only after as many good answers in a row as asked for.
THEOREM RetriesWait == Spec => []RetryWhenStable
<1>1. ClusterInv => RetryWhenStable
  BY DEF ClusterInv, Counting, RetryWhenStable
<1> QED
  BY <1>1, ClusterInvariant, PTL
=============================================================================
