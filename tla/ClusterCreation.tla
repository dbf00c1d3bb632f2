----------------------------- MODULE ClusterCreation -----------------------------
(***************************************************************************)
(* create_cluster.py: setup.sh runs it twice, with --setup-cm and with      *)
(* --create-cluster.  Cloudera Manager (CM) does the work in commands of    *)
(* its own, which go on when the script that waits for them has died; what  *)
(* CM has been told survives the script, and a re-run of setup.sh meets it. *)
(***************************************************************************)
EXTENDS Naturals, Faults

CONSTANTS
  UseKerberos, UseTls, \* the options of setup_cm
  HasCredentials,      \* --remote-repo-usr and --remote-repo-pwd are given
  ImportRetries,       \* import_retries
  StableFor,           \* WAIT_UNTIL_STABLE_FOR_SECS: good answers in a row
  HealthPolls,         \* timeout_secs of wait_for_good_health, in polls
  KnoxRestarts,        \* knox_restart_retries
  KnoxChecks,          \* knox_check_retries
  MaxRuns              \* bound: runs of setup.sh

ASSUME ClusterAssumption ==
  /\ UseKerberos \in BOOLEAN /\ UseTls \in BOOLEAN /\ HasCredentials \in BOOLEAN
  /\ ImportRetries \in Nat /\ StableFor \in Nat \ {0} /\ HealthPolls \in Nat \ {0}
  /\ KnoxRestarts \in Nat /\ KnoxChecks \in Nat /\ MaxRuns \in Nat \ {0}

VARIABLES
  creator,   \* the step of the script, or how it ended
  run,       \* the run of setup.sh that started it
  cm,        \* what CM has and has been told
  importer,  \* the run whose import made the cluster, or 0
  active,    \* CM's commands that run: [kind, run]
  outcome,   \* how those that the script waits for have ended
  tries,     \* imports retried
  stable,    \* wait_until_stable_for_secs
  good,      \* good answers of CM in a row
  polls,     \* polls left before the deadline
  restarts,  \* knox_restart_retries left
  checks     \* knox_check_retries left

counters == <<tries, stable, good, polls, restarts, checks>>
clusterVars == <<creator, run, cm, importer, active, outcome, counters>>

Kinds == {"install", "start_mgmt", "admin_credentials", "import", "restart_mgmt", "restart_knox"}

Commands == [kind : Kinds, run : 1..MaxRuns]

Facts == {"trial", "host", "mgmt", "banner", "hosts_config", "kerberos",
          "admin_credentials", "tls", "paywall", "deployed"}

SetupSteps == {"trial", "host", "host_wait", "mgmt", "start_mgmt", "mgmt_wait", "banner",
               "hosts_config", "kerberos", "principal", "principal_wait", "tls", "smon",
               "restart_mgmt", "restart_wait"}

CreateSteps == {"paywall", "import", "import_wait", "bounce", "bounce_wait", "health", "retry",
                "reset", "refresh", "refresh_wait", "knox", "knox_wait", "knox_check"}

\* The steps that wait for a command: a failed poll is caught there.
Waits == {"host_wait", "mgmt_wait", "principal_wait", "restart_wait", "import_wait",
          "bounce_wait", "refresh_wait", "knox_wait"}

ClusterInit ==
  /\ creator = "off" /\ run = 1
  /\ cm = {} /\ importer = 0 /\ active = {}
  /\ outcome = [c \in Commands |-> "none"]
  /\ tries = 0 /\ stable = StableFor /\ good = 0 /\ polls = 0
  /\ restarts = KnoxRestarts /\ checks = KnoxChecks

\* What the script knows ends with its process.
ScriptForgets ==
  /\ outcome' = [c \in Commands |-> "none"]
  /\ tries' = 0 /\ stable' = StableFor /\ good' = 0 /\ polls' = 0
  /\ restarts' = KnoxRestarts /\ checks' = KnoxChecks

Command(kind) == [kind |-> kind, run |-> run]

\* A call has had its effect: the script goes on, or its answer is lost and the
\* exception ends the script.
Proceed(next) ==
  \/ creator' = next /\ UNCHANGED faults
  \/ Fault /\ creator' = "failed"

\* A call that fails ends the script (print_errors, raise) without an effect.
CreatorRaises ==
  /\ creator \in (SetupSteps \cup CreateSteps) \ (Waits \cup {"smon"})
  /\ Fault /\ creator' = "failed"
  /\ UNCHANGED <<run, cm, importer, active, outcome, counters>>

\* CM is told facts.
Tell(at, facts, next) ==
  /\ creator = at /\ cm' = cm \cup facts /\ Proceed(next)
  /\ UNCHANGED <<run, importer, active, outcome, counters>>

\* CM is given a command.
Submit(at, kind, next) ==
  /\ creator = at /\ Proceed(next)
  /\ active' = active \cup {Command(kind)}
  /\ outcome' = [outcome EXCEPT ![Command(kind)] = "none"]
  /\ UNCHANGED <<run, cm, importer, counters>>

\* wait: polls until the command is no longer active.  A poll that fails is
\* printed and None comes back: the caller that looks at .success dies of it
\* (lost = "failed"), the one that ignores the result goes on.  An error that is
\* no ApiException ends either.
Wait(at, kind, next, orElse, lost) ==
  /\ creator = at
  /\ \/ /\ Command(kind) \notin active
        /\ creator' = IF outcome[Command(kind)] = "success" THEN next ELSE orElse
        /\ UNCHANGED faults
     \/ Fault /\ creator' \in {lost, "failed"}
  /\ UNCHANGED <<run, cm, importer, active, outcome, counters>>

-----------------------------------------------------------------------------
(* setup_cm.                                                               *)

\* A trial that has been used is no error.
BeginTrial == Tell("trial", {"trial"}, "host")

\* The agent is installed unless CM knows the host.
InstallHost ==
  IF "host" \in cm THEN Tell("host", {}, "mgmt") ELSE Submit("host", "install", "host_wait")

WaitForHost == Wait("host_wait", "install", "mgmt", "failed", "failed")

\* read_service: the management services are set up and started unless they are
\* there, started or not.
SetupMgmt ==
  IF "mgmt" \in cm THEN Tell("mgmt", {}, "banner") ELSE Tell("mgmt", {"mgmt"}, "start_mgmt")

StartMgmt == Submit("start_mgmt", "start_mgmt", "mgmt_wait")

WaitForMgmt == Wait("mgmt_wait", "start_mgmt", "banner", "failed", "failed")

UpdateBanner == Tell("banner", {"banner"}, "hosts_config")

AfterKerberos == IF UseTls THEN "tls" ELSE "smon"

UpdateHosts ==
  Tell("hosts_config", {"hosts_config"}, IF UseKerberos THEN "kerberos" ELSE AfterKerberos)

\* _enable_kerberos: the configuration, then the credentials of the KDC's admin.
EnableKerberos == Tell("kerberos", {"kerberos"}, "principal")

ImportAdminCredentials == Submit("principal", "admin_credentials", "principal_wait")

WaitForCredentials ==
  Wait("principal_wait", "admin_credentials", AfterKerberos, "failed", "failed")

\* _enable_tls.
EnableTls == Tell("tls", {"tls"}, "smon")

\* The Service Monitor answers, or its 300 s are over.
WaitForServiceMonitor ==
  /\ creator = "smon" /\ creator' = "restart_mgmt"
  /\ UNCHANGED <<run, cm, importer, active, outcome, counters, faults>>

RestartMgmt == Submit("restart_mgmt", "restart_mgmt", "restart_wait")

\* How the restart ended is not looked at.
WaitForRestart == Wait("restart_wait", "restart_mgmt", "ok", "ok", "ok")

-----------------------------------------------------------------------------
(* create_cluster.                                                         *)

\* _import_paywall_credentials: an error is swallowed.
ImportPaywallCredentials ==
  /\ creator = "paywall" /\ creator' = "import"
  /\ \/ cm' = (IF HasCredentials THEN cm \cup {"paywall"} ELSE cm) /\ UNCHANGED faults
     \/ Fault /\ cm' = cm
  /\ UNCHANGED <<run, importer, active, outcome, counters>>

\* CM makes the cluster of the template when it takes the command.
ImportTemplate ==
  /\ creator = "import" /\ Proceed("import_wait")
  /\ importer' = IF importer = 0 THEN run ELSE importer
  /\ active' = active \cup {Command("import")}
  /\ tries' = 0
  /\ UNCHANGED <<run, cm, outcome, stable, good, polls, restarts, checks>>

\* An import that failed is retried after a restart of the management services;
\* after the last retry the script fails.
WaitForImport ==
  Wait("import_wait", "import", "reset", IF tries >= ImportRetries THEN "failed" ELSE "bounce",
       "failed")

Bounce ==
  /\ creator = "bounce" /\ Proceed("bounce_wait")
  /\ tries' = tries + 1
  /\ active' = active \cup {Command("restart_mgmt")}
  /\ outcome' = [outcome EXCEPT ![Command("restart_mgmt")] = "none"]
  /\ stable' = StableFor /\ good' = 0 /\ polls' = HealthPolls
  /\ UNCHANGED <<run, cm, importer, restarts, checks>>

WaitForBounce == Wait("bounce_wait", "restart_mgmt", "health", "health", "health")

\* Mutant: a bad answer does not start the count again.
PollHealthUnsteady ==
  /\ creator = "health" /\ polls' = polls - 1
  /\ \/ /\ good' = good + 1 /\ stable' = stable - 1
        /\ creator' = IF stable = 1 THEN "retry" ELSE IF polls = 1 THEN "failed" ELSE "health"
     \/ /\ good' = 0 /\ stable' = stable
        /\ creator' = IF polls = 1 THEN "failed" ELSE "health"
  /\ UNCHANGED <<run, cm, importer, active, outcome, tries, restarts, checks, faults>>

\* wait_for_good_health: StableFor good answers in a row before the deadline.
PollHealth ==
  /\ creator = "health" /\ polls' = polls - 1
  /\ \/ /\ good' = good + 1 /\ stable' = stable - 1
        /\ creator' = IF stable = 1 THEN "retry" ELSE IF polls = 1 THEN "failed" ELSE "health"
     \/ /\ good' = 0 /\ stable' = StableFor
        /\ creator' = IF polls = 1 THEN "failed" ELSE "health"
  /\ UNCHANGED <<run, cm, importer, active, outcome, tries, restarts, checks, faults>>

\* retry: the command goes on where it failed.
RetryImport == Submit("retry", "import", "import_wait")

\* Mutant: the credentials are removed while the import goes on.
ResetPaywallEarly ==
  /\ creator \in {"reset", "import_wait"}
  /\ \/ cm' = cm \ {"paywall"} /\ UNCHANGED faults
     \/ Fault /\ cm' = cm
  /\ creator' = IF creator = "reset" THEN "refresh" ELSE creator
  /\ UNCHANGED <<run, importer, active, outcome, counters>>

\* _reset_paywall_credentials: an error is swallowed.
ResetPaywallCredentials ==
  /\ creator = "reset" /\ creator' = "refresh"
  /\ \/ cm' = cm \ {"paywall"} /\ UNCHANGED faults
     \/ Fault /\ cm' = cm
  /\ UNCHANGED <<run, importer, active, outcome, counters>>

RefreshMgmt ==
  /\ creator = "refresh" /\ Proceed("refresh_wait")
  /\ active' = active \cup {Command("restart_mgmt")}
  /\ outcome' = [outcome EXCEPT ![Command("restart_mgmt")] = "none"]
  /\ restarts' = KnoxRestarts
  /\ UNCHANGED <<run, cm, importer, tries, stable, good, polls, checks>>

WaitForRefresh == Wait("refresh_wait", "restart_mgmt", "knox", "knox", "knox")

\* Mutant: one restart more than there are retries.
RestartKnoxOnceMore(installed) ==
  /\ creator = "knox"
  /\ IF installed /\ restarts >= 0
     THEN /\ Proceed("knox_wait") /\ checks' = KnoxChecks
          /\ active' = active \cup {Command("restart_knox")}
          /\ outcome' = [outcome EXCEPT ![Command("restart_knox")] = "none"]
     ELSE creator' = "ok" /\ UNCHANGED <<active, outcome, checks, faults>>
  /\ UNCHANGED <<run, cm, importer, tries, stable, good, polls, restarts>>

\* Knox is restarted while it does not answer and restarts are left; without the
\* service (404) there is nothing to do.  In the end nobody asks whether it lives.
RestartKnox(installed) ==
  /\ creator = "knox"
  /\ IF installed /\ restarts > 0
     THEN /\ Proceed("knox_wait") /\ checks' = KnoxChecks
          /\ active' = active \cup {Command("restart_knox")}
          /\ outcome' = [outcome EXCEPT ![Command("restart_knox")] = "none"]
     ELSE creator' = "ok" /\ UNCHANGED <<active, outcome, checks, faults>>
  /\ UNCHANGED <<run, cm, importer, tries, stable, good, polls, restarts>>

WaitForKnox == Wait("knox_wait", "restart_knox", "knox_check", "knox_check", "knox_check")

\* check_knox_gateway: a time-out or a refused connection is just a No; a missing
\* role or setting raises.
CheckKnox ==
  /\ creator = "knox_check"
  /\ IF checks = 0 THEN creator' = "knox" /\ restarts' = restarts - 1 /\ UNCHANGED checks
     ELSE \/ creator' = "ok" /\ UNCHANGED <<restarts, checks>>
          \/ checks' = checks - 1 /\ UNCHANGED <<creator, restarts>>
  /\ UNCHANGED <<run, cm, importer, active, outcome, tries, stable, good, polls, faults>>

-----------------------------------------------------------------------------
(* Cloudera Manager.                                                       *)

\* What a command that succeeds achieves.
Achieves(kind) == CASE kind = "install"            -> {"host"}
                    [] kind = "admin_credentials"  -> {"admin_credentials"}
                    [] kind = "import"             -> {"deployed"}
                    [] OTHER                       -> {}

\* A template that is imported for a cluster that another import has made fails.
CommandEnds ==
  /\ \E c \in active :
       LET refused == c.kind = "import" /\ importer # c.run
       IN  /\ active' = active \ {c}
           /\ \/ /\ ~refused /\ outcome' = [outcome EXCEPT ![c] = "success"]
                 /\ cm' = cm \cup Achieves(c.kind) /\ UNCHANGED faults
              \/ /\ refused /\ outcome' = [outcome EXCEPT ![c] = "failed"]
                 /\ UNCHANGED <<cm, faults>>
              \/ /\ Fault /\ outcome' = [outcome EXCEPT ![c] = "failed"]
                 /\ UNCHANGED cm
  /\ UNCHANGED <<creator, run, importer, counters>>

SetupCm ==
  \/ BeginTrial \/ InstallHost \/ WaitForHost \/ SetupMgmt \/ StartMgmt \/ WaitForMgmt
  \/ UpdateBanner \/ UpdateHosts \/ EnableKerberos \/ ImportAdminCredentials
  \/ WaitForCredentials \/ EnableTls \/ WaitForServiceMonitor \/ RestartMgmt \/ WaitForRestart

CreateCluster(knox) ==
  \/ ImportPaywallCredentials \/ ImportTemplate \/ WaitForImport \/ Bounce \/ WaitForBounce
  \/ PollHealth \/ RetryImport \/ ResetPaywallCredentials \/ RefreshMgmt \/ WaitForRefresh
  \/ RestartKnox(knox) \/ WaitForKnox \/ CheckKnox

\* A step of the script; knox: the cluster has the service.
Create(knox) == SetupCm \/ CreateCluster(knox) \/ CreatorRaises

-----------------------------------------------------------------------------
\* The variables hold what their comments say.
ClusterTypeOK ==
  /\ creator \in SetupSteps \cup CreateSteps \cup {"off", "ok", "failed"}
  /\ run \in 1..MaxRuns /\ importer \in 0..MaxRuns
  /\ cm \subseteq Facts /\ active \subseteq Commands
  /\ outcome \in [Commands -> {"none", "success", "failed"}]
  /\ tries \in 0..ImportRetries /\ stable \in 0..StableFor /\ good \in Nat
  /\ polls \in 0..HealthPolls /\ restarts \in 0..KnoxRestarts /\ checks \in 0..KnoxChecks
=============================================================================
