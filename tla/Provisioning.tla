------------------------------- MODULE Provisioning -------------------------------
(***************************************************************************)
(* setup.sh on a cluster instance, from the cluster template on: it runs    *)
(* create_cluster.py twice with a restart of Cloudera Manager in between,   *)
(* prepares the services, and leaves cdsw_setup.py in the background.  It   *)
(* stops at the first error (errexit), but some errors it does not see, and *)
(* sometimes errexit is off; somebody may run it again after it failed.     *)
(* Left out: MiNiFi, the MQTT broker, the demo files, the test of Flink in  *)
(* the background and install_ecs.                                          *)
(***************************************************************************)
EXTENDS ClusterCreation, CdswSetup, CmTemplate

CONSTANTS
  Selections,  \* the CM_SERVICES considered, with "CEM" for HAS_CEM
  ShellRetries \* the retries of retry_if_needed, of the start of EFM and of the
               \* wait for Atlas: one number for the three

ASSUME ShellAssumption == ShellRetries \in Nat

VARIABLES
  selected,   \* CM_SERVICES, the HAS_ variables of the scripts
  installed,  \* the services of the template, as far as it is made
  stage,      \* where setup.sh is
  result,     \* its return code in setup.log, or "running"
  ranger,     \* the restart of Ranger: JOB_ID and the command behind it
  policies,   \* the Ranger policies are set
  efm,        \* EFM has started
  topics,     \* the Kafka topics exist
  homes,      \* the HDFS home of admin: "none", "made", or "owned" by admin
  left        \* retries left

shellVars == <<selected, installed, stage, result, ranger, policies, efm, topics, homes, left>>

vars == <<shellVars, clusterVars, cdswVars, faults>>

Stages == {"template", "setup_cm", "restart_cm", "wait_for_cm", "account", "create_cluster",
           "ranger", "ranger_wait", "policies", "efm", "topics", "atlas", "flink_home",
           "admin_home", "admin_owner", "cdsw", "end"}

Init ==
  /\ ClusterInit /\ CdswInit /\ faults = 0
  /\ selected \in Selections /\ installed = selected
  /\ stage = "template" /\ result = "running" /\ ranger = "none"
  /\ policies = FALSE /\ efm = FALSE /\ topics = FALSE /\ homes = "none"
  /\ left = ShellRetries

At(s) == stage = s /\ result = "running"

\* cm_template.py: what is required is added until nothing is missing.
MakeTemplate ==
  /\ At("template")
  /\ IF Missing(installed) = {}
     THEN stage' = "setup_cm" /\ UNCHANGED installed
     ELSE installed' = installed \cup Missing(installed) /\ UNCHANGED stage
  /\ UNCHANGED <<selected, result, ranger, policies, efm, topics, homes, left, clusterVars,
                 cdswVars, faults>>

\* setup.sh starts create_cluster.py, first with --setup-cm.
StartScript ==
  /\ creator = "off"
  /\ \/ At("setup_cm") /\ creator' = "trial"
     \/ At("create_cluster") /\ creator' = "paywall"
  /\ UNCHANGED <<shellVars, run, cm, importer, active, outcome, counters, cdswVars, faults>>

\* Mutant: the return code is not looked at.
ScriptReturnsIgnored ==
  /\ creator \in {"ok", "failed"} /\ creator' = "off" /\ ScriptForgets
  /\ stage' = IF stage = "setup_cm" THEN "restart_cm" ELSE "ranger"
  /\ UNCHANGED <<selected, installed, result, ranger, policies, efm, topics, homes, left,
                 run, cm, importer, active, cdswVars, faults>>

\* errexit: a script that fails ends setup.sh.
ScriptReturns ==
  /\ creator \in {"ok", "failed"} /\ creator' = "off" /\ ScriptForgets
  /\ IF creator = "failed" THEN result' = "failed" /\ UNCHANGED stage
     ELSE stage' = (IF stage = "setup_cm" THEN "restart_cm" ELSE "ranger") /\ UNCHANGED result
  /\ UNCHANGED <<selected, installed, ranger, policies, efm, topics, homes, left,
                 run, cm, importer, active, cdswVars, faults>>

\* systemctl restart: the commands that run in CM are aborted.
RestartCm ==
  /\ At("restart_cm") /\ stage' = "wait_for_cm"
  /\ active' = {}
  /\ UNCHANGED <<selected, installed, result, ranger, policies, efm, topics, homes, left,
                 creator, run, cm, importer, outcome, counters, cdswVars, faults>>

\* wait_for_cm polls until CM answers.
WaitForCm ==
  /\ At("wait_for_cm") /\ stage' = "account"
  /\ UNCHANGED <<selected, installed, result, ranger, policies, efm, topics, homes, left,
                 clusterVars, cdswVars, faults>>

\* create_peer_kafka_external_account, for SRM.  A refusal goes unseen, without an
\* answer the script ends.  Nothing here reads the account, so it is not kept.
CreateAccount ==
  /\ At("account")
  /\ \/ stage' = "create_cluster" /\ UNCHANGED <<result, faults>>
     \/ "SRM" \in selected /\ Fault /\ result' = "failed" /\ UNCHANGED stage
  /\ UNCHANGED <<selected, installed, ranger, policies, efm, topics, homes, left,
                 clusterVars, cdswVars>>

\* The restart of Ranger is asked for; without an answer the script ends
\* (pipefail), with an answer that is an error JOB_ID is "null".
RestartRanger ==
  /\ At("ranger")
  /\ IF {"RANGER", "NIFI"} \subseteq selected
     THEN /\ stage' = "ranger_wait"
          /\ \/ ranger' = "active" /\ UNCHANGED <<result, faults>>
             \/ ranger' = "unknown" /\ UNCHANGED result /\ Fault
             \/ ranger' = "active" /\ result' = "failed" /\ Fault
     ELSE stage' = "efm" /\ UNCHANGED <<ranger, result, faults>>
  /\ UNCHANGED <<selected, installed, policies, efm, topics, homes, left, clusterVars, cdswVars>>

RangerRestarts ==
  /\ ranger = "active" /\ ranger' = "ended"
  /\ UNCHANGED <<selected, installed, stage, result, policies, efm, topics, homes, left,
                 clusterVars, cdswVars, faults>>

\* The loop asks for the command until it is not active: for ever for "null".
WaitForRanger ==
  /\ At("ranger_wait") /\ ranger = "ended" /\ stage' = "policies"
  /\ UNCHANGED <<selected, installed, result, ranger, policies, efm, topics, homes, left,
                 clusterVars, cdswVars, faults>>

\* ranger_policies.sh: what becomes of a call is only printed (local hides even
\* the return code of curl).
SetRangerPolicies ==
  /\ At("policies") /\ stage' = "efm"
  /\ \/ policies' = TRUE /\ UNCHANGED faults
     \/ Fault /\ UNCHANGED policies
  /\ UNCHANGED <<selected, installed, result, ranger, efm, topics, homes, left, clusterVars,
                 cdswVars>>

\* EFM is started until its process is seen; after the last retry the script goes
\* on without it.  PostgreSQL, which is asked for a new database before each try,
\* may not answer (errexit); EFM may also come up after it was looked for.
StartEfm ==
  /\ At("efm")
  /\ \/ /\ stage' = "topics" /\ left' = ShellRetries /\ efm' = (efm \/ "CEM" \in selected)
        /\ UNCHANGED <<result, faults>>
     \/ "CEM" \in selected /\ Fault /\ result' = "failed" /\ UNCHANGED <<stage, efm, left>>
     \/ /\ "CEM" \in selected /\ ~efm /\ Fault /\ efm' \in BOOLEAN
        /\ IF left = 0 THEN stage' = "topics" /\ left' = ShellRetries
                       ELSE left' = left - 1 /\ UNCHANGED stage
        /\ UNCHANGED result
  /\ UNCHANGED <<selected, installed, ranger, policies, topics, homes, clusterVars, cdswVars>>

\* retry_if_needed after a try that failed.
TryAgain == IF left = 0 THEN result' = "failed" /\ left' = left
                        ELSE left' = left - 1 /\ UNCHANGED result

\* The topics, one for the three, are created and described; one that cannot be
\* created, because it exists too, is deleted before the next try.  The answer to
\* either call may be lost; one that cannot be described ends the script.
CreateTopics ==
  /\ At("topics")
  /\ \/ /\ "KAFKA" \notin selected \/ ~topics
        /\ topics' = (topics \/ "KAFKA" \in selected) /\ stage' = "atlas" /\ left' = ShellRetries
        /\ UNCHANGED <<result, faults>>
     \/ /\ "KAFKA" \in selected /\ topics
        /\ topics' = FALSE /\ TryAgain /\ UNCHANGED <<stage, faults>>
     \/ "KAFKA" \in selected /\ Fault /\ topics' \in BOOLEAN /\ TryAgain /\ UNCHANGED stage
     \/ /\ "KAFKA" \in selected /\ ~topics /\ Fault
        /\ topics' = TRUE /\ result' = "failed" /\ UNCHANGED <<stage, left>>
  /\ UNCHANGED <<selected, installed, ranger, policies, efm, homes, clusterVars, cdswVars>>

\* The entities of Flink are loaded into Atlas when it is ready in time, and left
\* out without a word when it is not; a refusal goes unseen, without an answer the
\* script ends.  Nothing here reads the entities, so they are not kept.
LoadAtlasEntities ==
  /\ At("atlas")
  /\ \/ stage' = "flink_home" /\ left' = ShellRetries /\ UNCHANGED <<result, faults>>
     \/ /\ "ATLAS" \in selected /\ left > 0 /\ left' = left - 1
        /\ UNCHANGED <<stage, result, faults>>
     \/ "ATLAS" \in selected /\ Fault /\ result' = "failed" /\ UNCHANGED <<stage, left>>
  /\ UNCHANGED <<selected, installed, ranger, policies, efm, topics, homes, clusterVars,
                 cdswVars>>

\* nifi_reporting_task_state, which then waits until NiFi answers and restarts its
\* reporting task for Atlas, says set +e where it should say set -e.
ErrexitIsOff == {"ATLAS", "NIFI"} \subseteq selected

\* retry_if_needed after a try that failed, when errexit may be off: then the
\* script goes on after the last one.
TryAgainOr(next) ==
  IF ErrexitIsOff /\ left = 0
  THEN stage' = next /\ left' = ShellRetries /\ UNCHANGED result
  ELSE TryAgain /\ UNCHANGED stage

\* hdfs dfs -chown of Flink's home, which the service has made.
ChownFlinkHome ==
  /\ At("flink_home")
  /\ \/ /\ stage' = IF "FLINK" \in selected THEN "admin_home" ELSE "cdsw"
        /\ left' = ShellRetries /\ UNCHANGED <<result, faults>>
     \/ "FLINK" \in selected /\ Fault /\ TryAgainOr("admin_home")
  /\ UNCHANGED <<selected, installed, ranger, policies, efm, topics, homes, clusterVars,
                 cdswVars>>

\* hdfs dfs -mkdir refuses what exists.
MakeAdminHome ==
  /\ At("admin_home")
  /\ \/ /\ homes = "none" /\ homes' = "made" /\ stage' = "admin_owner" /\ left' = ShellRetries
        /\ UNCHANGED <<result, faults>>
     \/ homes # "none" /\ TryAgainOr("admin_owner") /\ UNCHANGED <<homes, faults>>
     \/ homes = "none" /\ Fault /\ homes' \in {"none", "made"} /\ TryAgainOr("admin_owner")
  /\ UNCHANGED <<selected, installed, ranger, policies, efm, topics, clusterVars, cdswVars>>

\* hdfs dfs -chown refuses what does not exist.
ChownAdminHome ==
  /\ At("admin_owner")
  /\ \/ /\ homes # "none" /\ homes' = "owned" /\ stage' = "cdsw" /\ left' = ShellRetries
        /\ UNCHANGED <<result, faults>>
     \/ homes = "none" /\ TryAgainOr("cdsw") /\ UNCHANGED <<homes, faults>>
     \/ homes = "made" /\ Fault /\ homes' \in {"made", "owned"} /\ TryAgainOr("cdsw")
  /\ UNCHANGED <<selected, installed, ranger, policies, efm, topics, clusterVars, cdswVars>>

\* nohup cdsw_setup.py &
StartCdswSetup ==
  /\ At("cdsw") /\ stage' = "end"
  /\ IF "CDSW" \in selected THEN deployer' = "startup" /\ release' \in Releases
                            ELSE UNCHANGED <<deployer, release>>
  /\ UNCHANGED <<selected, installed, result, ranger, policies, efm, topics, homes, left,
                 clusterVars, phase, hung, quiet, serverVars, vizVars, attemptVars, faults>>

Finish ==
  /\ At("end") /\ result' = "completed"
  /\ UNCHANGED <<selected, installed, stage, ranger, policies, efm, topics, homes, left,
                 clusterVars, cdswVars, faults>>

\* Somebody runs setup.sh again after it failed.
RunAgain ==
  /\ result = "failed" /\ run < MaxRuns
  /\ run' = run + 1 /\ result' = "running" /\ stage' = "template" /\ left' = ShellRetries
  /\ installed' = selected
  /\ UNCHANGED <<selected, ranger, policies, efm, topics, homes,
                 creator, cm, importer, active, outcome, counters, cdswVars, faults>>

Shell ==
  \/ MakeTemplate \/ StartScript \/ ScriptReturns \/ RestartCm \/ WaitForCm \/ CreateAccount
  \/ RestartRanger \/ WaitForRanger \/ SetRangerPolicies \/ StartEfm \/ CreateTopics
  \/ LoadAtlasEntities \/ ChownFlinkHome \/ MakeAdminHome \/ ChownAdminHome \/ StartCdswSetup
  \/ Finish

Cluster == Create("KNOX" \in installed) \/ CommandEnds

Next ==
  \/ Shell \/ RangerRestarts \/ RunAgain
  \/ Cluster /\ UNCHANGED <<shellVars, cdswVars>>
  \/ CdswNext /\ UNCHANGED <<shellVars, clusterVars>>

Spec == Init /\ [][Next]_vars

\* The programs run on, CM and Ranger end what they have begun.
Fairness ==
  /\ WF_vars(Shell /\ UNCHANGED faults)
  /\ WF_vars(RangerRestarts)
  /\ WF_vars(Create("KNOX" \in installed) /\ UNCHANGED <<shellVars, cdswVars, faults>>)
  /\ WF_vars(CommandEnds /\ UNCHANGED <<shellVars, cdswVars, faults>>)
  /\ WF_vars(Deploy /\ UNCHANGED <<shellVars, clusterVars, faults>>)
  /\ WF_vars(Serve /\ UNCHANGED <<shellVars, clusterVars, faults>>)
  /\ WF_vars(Tick /\ UNCHANGED <<shellVars, clusterVars>>)

LiveSpec == Spec /\ Fairness

-----------------------------------------------------------------------------
(* Properties.                                                             *)

\* The variables hold what their comments say.
TypeOK ==
  /\ selected \in Selections /\ stage \in Stages
  /\ result \in {"running", "completed", "failed"}
  /\ ranger \in {"none", "active", "ended", "unknown"}
  /\ policies \in BOOLEAN /\ efm \in BOOLEAN /\ topics \in BOOLEAN
  /\ homes \in {"none", "made", "owned"} /\ left \in 0..ShellRetries
  /\ ClusterTypeOK /\ CdswTypeOK
  /\ faults \in 0..MaxFaults

\* What setup.sh has done when it returns 0: the host and the management services
\* are in CM, its security is set up, the template imported, the topics created,
\* and the home of admin made as long as errexit stays on.
Prepared ==
  /\ {"host", "mgmt", "banner", "hosts_config", "deployed"} \subseteq cm
  /\ UseKerberos => {"kerberos", "admin_credentials"} \subseteq cm
  /\ UseTls => "tls" \in cm
  /\ "KAFKA" \in selected => topics
  /\ "FLINK" \in selected /\ ~ErrexitIsOff => homes = "owned"

\* What a fault may leave out unseen.
Unseen ==
  /\ {"RANGER", "NIFI"} \subseteq selected => policies
  /\ "CEM" \in selected => efm

\* "Setup return code: 0", which launch.sh reports as success, means after any
\* number of re-runs that skipped what was there: the template was closed under
\* dependencies and all that Prepared names was done, no matter what failed on the
\* way.  It does not mean that the policies of Ranger are set and EFM runs, unless
\* nothing failed at all, and it says nothing of the entities of Atlas and of the
\* account of SRM.
SetupIsComplete ==
  result = "completed" =>
    /\ selected \cup {"BASE"} \subseteq installed /\ RequiredBy(installed) \subseteq installed
    /\ Prepared
    /\ faults = 0 => Unseen

\* "All parcel downloads should've already been done at this point, so we can
\* safely remove the paywall credentials" (create_cluster.py:497): they are only
\* removed when the template is deployed and no import of any run goes on.
PaywallOutlastsImports ==
  [][cm' # cm /\ ~(cm \subseteq cm') =>
       "deployed" \in cm /\ \A c \in active : c.kind # "import"]_vars

\* "wait for the cluster health to be GOOD" (create_cluster.py:487): an import is
\* only retried after StableFor good answers in a row.
RetryWhenStable == creator = "retry" => good >= StableFor

\* There is never a second model of the name, whatever answer was lost and
\* whichever attempt runs: cdsw_get_model would assert on it for ever.
OneModel == Len(models) <= 1

\* A deployer that is done leaves a model that answers and, where the release
\* has applications, VizApps with both passwords changed: no attempt that found
\* half of the work done skips the other half (the temporary password of a user
\* that exists already, an administrator's password that was never set).  The
\* exception is a refused log-in that nobody notices: from 1.10 on it may leave
\* the user with the temporary password, but never the administrator's default.
DoneMeansReady ==
  deployer = "done" =>
    /\ models = <<"deployed">>
    /\ {"user", "profile", "environment", "project", "files"} \subseteq made
    /\ release >= 7 => app = "running" /\ admin = "the_pwd"
    /\ release >= 7 =>
         vizUser = "the_pwd" \/ (vizUser = "temporary" /\ release >= 10 /\ anonymous)

\* The retries of main() absorb as many faults, but for one: when an attempt
\* fails after it has changed the administrator's password, configure_vizapps
\* locks the later ones out.
OnlyLockOutIsFinal ==
  deployer = "gave_up" => faults > Attempts \/ admin = "the_pwd"

\* Nothing that works, or is on its way, is thrown away by a later attempt: not
\* a healthy model, nor an application that starts, nor a start of CDSW that
\* still makes progress, unless the answer to the restart that began it was lost
\* (it is asked for again ten seconds later).
NothingWorkingIsDestroyed ==
  [][/\ models # <<>> /\ models' = <<>> => ~IsHealthy(models[1])
     /\ app' = "none" => app \notin {"starting", "running"}
     /\ phase' < phase => hung \/ unheard]_vars

\* The waits that have no end: a restart of Ranger whose id is not known, a CDSW
\* that hangs when its status was misread, a job that ended neither well nor
\* "failed".
RangerUnknown == ranger = "unknown"
CdswStuck == (hung /\ deployer = "api") \/ (job = "stopped" /\ deployer = "poll_job")

\* setup.sh ends, and so does cdsw_setup.py once started, but for these waits.
ProvisioningEnds ==
  /\ result = "running" ~> (result # "running" \/ RangerUnknown)
  /\ deployer # "off" ~> (deployer \in {"done", "gave_up"} \/ CdswStuck)
=============================================================================
