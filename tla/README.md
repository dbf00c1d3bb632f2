# Verification of the edge2ai workshop tooling

`edge2ai-workshop` launches a set of cloud instances for a hands-on workshop,
watches them while they set themselves up, opens a registration web server that
hands one cluster to each participant, keeps the firewall in step with who has
registered, and prepares (or resets) the labs on each cluster. This directory
holds the TLA+ models of that tooling, the TLC configurations that check them on
small instances, and proofs, checked by TLAPS, of the properties that matter
most for every size of the instance.

Run from this directory:

    tlc -workers 2 -config WebConcurrent.cfg MCWebServer      # and the other runs below
    tlapm WebServerProofs.tla                                 # and the other proof modules

## 1. Inventory

Paths are relative to `src/setup/terraform/` unless they start with `src/`.

### The system and its parts

| Part | State it keeps | Operations | Talks to |
|---|---|---|---|
| **Web server** `web/app/routes.py`, `models.py`, run by `web/start-web.sh` | PostgreSQL tables `user`, `cluster`, `config`; a session cookie per browser | login, register, password reset, logout; admin pages (delete or reset a user, delete a cluster); REST API (create the admin, add clusters, set the registration code, list addresses) | browsers; the launcher's upload script; `get_ips` of the sync |
| **Ingress scripts** `open-registration.sh`, `sync-ip-addresses.sh`, `close-registration.sh`, `manage-ip.sh`, `lib/common*.sh` | security group rules in the cloud; `TF_JSON_FILE`, a snapshot of them | open to everybody, grant and revoke per address, close | the cloud's API; web server (`/api/ips`) |
| **Deployment monitor** `check-setup-status.sh`, `resources/check-setup-status.sh` | `LATEST_STATUS_FILE`; one ssh control master per instance | rounds of probes, verdict | instances by ssh; `launch.sh` waits for it |
| **Launcher** `launch.sh`, `terminate.sh`, `lib/common.sh` | `TF_STATE`, `TF_JSON_FILE`, the namespace's directory | apply, refresh, destroy, upload of instance details | Terraform, web server, monitor |
| **Instance set-up** `resources/setup.sh`, `resources/common.sh`, `ipa/setup-ipa.sh`, `resources/setup-ecs.sh` | flags on the instance, services started so far | stages with waits for Cloudera Manager, CDSW and IPA | Cloudera Manager's API |
| **Cluster creation** `resources/create_cluster.py`, `resources/cm_template.py` | none of its own; what it has told Cloudera Manager | set up CM, import the template, restart Knox | Cloudera Manager, which works in commands that outlive the script |
| **CDSW set-up** `resources/cdsw_setup.py`, in the background | none of its own; users, projects, models on the server | wait for CDSW, deploy the model and VizApps, all of it again after any exception | CDSW and VizApps |
| **Lab framework** `resources/labs/__init__.py`, `resources/tests/conftest.py` | which workshop's labs are set up; the context of each | global set-up and tear-down, labs in order over the prerequisite graph | workshops |
| **Workshops** `resources/labs/workshop_*.py` | flows, jobs, topics, tables in the services | `lab1_...` to `labN_...`, `teardown` | service clients |
| **Service clients** `resources/labs/utils/*.py` | none of their own; cached tokens and sessions | REST calls, waits and retries | NiFi, SSB, Schema Registry, SMM, CM, CDSW, Impala, ... |

Templates, provider files, packer, stack variable files, the sensor simulator and
the example Flink/Spark/CDSW programs keep no state the tooling depends on.

### How they interact

`launch.sh` applies Terraform, and Terraform starts each instance's set-up script
in the background. The monitor asks each instance for its status over ssh and gives
the launcher a verdict. The launcher uploads instance details and the first
admin to the web server through its REST API. During the workshop an operator
opens the registration: the firewall lets everybody reach the web server, a loop
of syncs asks the web server which addresses have logged in and grants those
addresses access to the clusters, and when the operator presses ENTER the public
rule is removed and a last sync runs. `TF_JSON_FILE` is what every script believes
about the deployment; it is as old as its last refresh.

### What is hard, and what makes each part correct

* **Web server.** `start-web.sh` runs four gunicorn workers against one database
  in READ COMMITTED. A handler reads, decides, and commits later; nothing but a
  unique index, a primary key sequence and one foreign key stands between two
  handlers. Correct: a user never refers to a cluster that is gone, nobody shares an
  e-mail, a cookie never serves another person, at most one admin is created by the API,
  a login assigns a cluster whenever one is free and never moves a user off the
  one they have, and two users never share a cluster.
* **Ingress scripts.** Grants and revocations are separate cloud calls, made from
  two lists read at two moments; scripts die (`errexit`, a closed window), people log
  in and the operator grants addresses by hand meanwhile. Correct: what was granted is
  not revoked by the same sync, what is stale goes, closing registration leaves
  out nobody who registered, and whoever stays is let in.
* **Monitor.** Answers come late, connections break when an instance reboots, the
  monitor is interrupted and started again, and its file is named after the namespace
  only. Correct: success only if every set-up succeeded, failure only if one failed,
  and a verdict in the end.
* **Launcher.** `run_terraform` repeats an apply after a plugin time-out;
  `TF_JSON_FILE` is refreshed by whichever script looks first. Correct: a snapshot
  in use is never that of an earlier launch.
* **Set-up.** Waits without a bound on commands that may never have been
  submitted; a re-run after a failure must skip what is done and nothing else.
  Some errors it does not see, some steps it gives up without a word. Correct: a
  return code of 0 says of a named part of the preparation that it was done, the
  credentials of the paywall outlast the downloads, an import is only repeated on a stable CM.
* **CDSW set-up.** The same program runs again on whatever the last attempt left.
  Answers to a restart may be lost and refused log-ins go unnoticed. Correct: what works
  is kept, one model of the name exists, a deployer that is done leaves everything
  ready, and its retries are enough for as many faults, each up to what its properties name.
* **Labs.** A lab fails in the middle; the tear-down must cope with whatever
  is there, and the test session remembers one workshop only.
* **Clients.** A job that stops late and is deleted before it has stopped; controllers
  that NiFi does not disable while others refer to them; providers that others
  depend on; a refusal that a teardown swallows. Correct: the order of the calls alone
  never makes a service refuse one, a teardown leaves nothing, and its loops end.

`PROJECT.json` lists these as hazards, each at its line, with the properties
that cover it.

## 2. The modules

### `WebServer.tla`: the web server, one SQL statement at a time

| State | In the code |
|---|---|
| `users`, `nextUserId` | table `user` and its id sequence (`models.py`) |
| `clusters`, `nextClusterId` | table `cluster` and its id sequence |
| `regCode` | the `config` row of the registration code |
| `session[b]` | the Flask session cookie of browser b |
| `signedAs[b]` | history: as whom b last authenticated |
| `req[w]` | what worker w's request has read and not yet committed |

A handler that reads and later writes is several actions: `LoginStart`,
`ReadTaken`, `PickCluster`, `LoginCommit`; `RegisterStart` (whose INSERT is flushed
by the first query, so that the row already holds its id and its e-mail),
`PickCluster`, `RegisterCommit`; and so on. Statements of other workers fall between
them. SQLAlchemy writes the columns that differ from what was loaded, and so do the
commits: a column somebody else wrote in the meantime survives unless this
request changed it too. A commit that meets a constraint (a unique e-mail, a
foreign key, a row that is gone) is `Rollback`: the transaction leaves no trace
except the ids it drew from a sequence.

`Registry.tla` is the abstract specification: members with an e-mail and at
most one claim on a cluster, where each operation is indivisible. It promises
everything but that a cluster has one member. `RegistryRefined` in `WebServer`
maps tables to members (rows that a request has yet to commit do not exist) and is both
checked and proved.

### `IngressSync.tla`: who the firewall lets in

| State | In the code |
|---|---|
| `rules[k]` | the description of rule k in the cloud, if it exists |
| `listed` | `TF_JSON_FILE`: the WORKSHOP_USER rules as of the last refresh |
| `userIp[u]` | `last_remote_ip` of u's row in the web server |
| `adminIp` | the public address of the operator's machine |
| `job` | the running script: its next cloud call, `IP_FILE`, what it has yet to grant or revoke |
| `hand` | a `manage-ip.sh` in another window |
| `late`, `undone` | history, see below |

Each cloud call is an action, in the scripts' order: `Refresh`, `GrantAdmin`,
`GetIps`, `GrantWeb`/`GrantCluster` per address, `ListGroup` and `Revoke` per
group, `SyncExit`; `OpenRegistration`, `LoopSync`, `PressEnter` and `Unpublish`
are the scripts around them. `GetIpsUnanswered` is a `get_ips` whose curl could not
connect; it is *not* an error for the script. `Die` ends the script at any of its
steps. Logins, deletions, `manage-ip.sh` and the operator's change of address
interleave with all of it. `Cloud` chooses `lib/common-aws.sh` or
`lib/common-azure.sh`, which differ in what happens to a rule that exists
and in how a rule to remove is named.

`late` is the set of users whose last login did not need the public rule (the
closing script owes them nothing), `undone` the addresses that `manage-ip.sh`
removed since the last `get_ips` (the operator wanted them out).

### `SetupMonitor.tla`: how the launcher learns that the instances are up

`setup[i]` is how instance i's script stands, `net[i]` whether i can be reached,
`conn[m][i]` the control master that monitor m keeps for i, `file`
LATEST_STATUS_FILE, and `mon[m]` the step monitor m is at. A probe that
`tee -a` writes to a file which another monitor has removed meanwhile is lost
(`attached`). `Interrupt` is Ctrl-C and a new start, which leaves the file.

### `LabSession.tla` and `Workshops.tla`: what sessions and resets leave on a cluster

`Workshops` holds tables translated from `resources/labs/workshop_*.py`: the
prerequisites of each workshop, what each lab leaves on the cluster in the
order it creates it, what a lab takes from earlier labs, what `teardown`
and the hooks remove, one set per statement. `LabSession` gives them their
meaning, for any tables that keep the contract between the framework and its
workshops. Nothing in the code checks that contract; `LabSession` states it as
assumptions, which TLC evaluates on the repository's tables and which the proofs
use: a lab reads what earlier labs or prerequisites make (`Supplied`), no hook
removes what the same set-up has made (`HooksKeep`), what a service refuses to make
twice is made once in a set-up (`MadeOnce`), a teardown removes what its
workshop's labs make (`Undoable`), and pytest collects the modules of a workshop,
which lie in one directory, together (`Grouped`).

| State | In the code |
|---|---|
| `installed` | what the `is_runnable()` methods find on the cluster |
| `have` | the artefacts on the cluster: all that survives a program |
| `run` | the program that runs: `run_tests` (with `SKIP_SETUP`, `SKIP_TEARDOWN`, the module pytest is at and `_LAST_WORKSHOP`) or `reset-to-lab.sh` (with its target) |
| `phase`, `todo`, `rest` | where it is: the calls of the set-up or tear-down under way, the workshops a global tear-down has still to visit |
| `made` | what the set-up under way has created, `self.context` included |
| `dirty`, `ended` | history: a set-up of this session failed; how the last program ended |

`todo` is the stack of calls to come. `EnterCall` replaces an `execute_setup` or
`execute_teardown` by the calls its body makes (`SetupCalls`, `TeardownCalls`), those of the
prerequisites among them, and `NextLab` is the loop over the lab functions; so the
recursion of the code is steps of the model. `Tasks` says by the tables alone which
workshops such a recursion reaches, as the least set closed under prerequisites; the
properties speak of it. A hook, a lab or a teardown returns (`CallReturns`), raises at any of its statements after those before have
had their effect (`CallRaises`), or is refused by a service because what it creates
is already there (`CallClashes`). `Raised` is what an exception does to the program:
an error of pytest's module fixture, which leaves `_LAST_WORKSHOP` as it is, or the end of
a reset. `Killed` is Ctrl-C or a restart, at any point.

Taken from how `src/` uses them, and external: which creations a service refuses
(`Exclusive`), and that DataViz's visuals go with their dataset. Two tables keep what the code
does rather than what it may have meant: fraud's tear-down drops Kudu's `sensors`, the
default of `kudu.drop_table`, and not the table it made; topics, buckets and that
table are removed by no tear-down, hence not in `Removable`.

### `Provisioning.tla`, `ClusterCreation.tla`, `CmTemplate.tla`, `CdswSetup.tla`: a cluster instance sets itself up

`Provisioning` is `setup.sh` from the cluster template on; it composes
`create_cluster.py` (`ClusterCreation`), which it runs twice, with `cdsw_setup.py`
(`CdswSetup`), which it leaves in the background. `CmTemplate` is the closure of
the selected services under `templates/dependencies`. `Faults` is the budget all
of them draw from.

| State | In the code |
|---|---|
| `stage`, `result`, `left` | the command `setup.sh` is at, its return code, the tries left of `retry_if_needed`, of the start of EFM or of the wait for Atlas |
| `selected`, `installed` | `CM_SERVICES` and the services of the template |
| `ranger`, `policies` | `JOB_ID` with the command behind it; whether `ranger_policies.sh` was heard |
| `efm`, `topics`, `homes` | EFM runs; the Kafka topics exist; the HDFS home of admin is made, then owned |
| `creator` and its counters | the step of `create_cluster.py`, its retries and time-outs |
| `cm`, `active`, `importer` | what CM has been told, its commands that run (by kind and by the run that asked for them), whose import made the cluster |
| `outcome` | how a command ended, as its script will read it |
| `deployer`, `retries`, `seen`, `idle`, `appTries` | the step of `deploy()`, `main()`'s retries, `cdsw_outputs`, the time since `latest_change_timestamp`, the restarts left of the application |
| `anonymous`, `unheard` | the session of `viz_api` whose log-in was refused unnoticed; history: CDSW was restarted and the watcher does not know |
| `phase`, `hung`, `quiet` | CDSW's start as `cdsw status` shows it |
| `made`, `models`, `job`, `app`, `admin`, `vizUser` | what exists on the CDSW server |

A call either has its effect and returns (`Proceed`, `Return`), has its effect and its
answer is lost, or is refused without an effect (`CreatorRaises`, `CallRefused`). The last
two end the script or the attempt. CM's commands and CDSW's jobs end by themselves;
a script that died leaves them running, and `RunAgain` meets them. A command of an
earlier run is not the one a later run waits for, hence the run in its name.

After the cluster, `setup.sh` prepares what its `HAS_` variables ask for, one stage each, and
each stage fails in its own way. `CreateAccount`, `SetRangerPolicies` and `LoadAtlasEntities`
do not look at a refusal; `StartEfm` and `LoadAtlasEntities` go on after their last try;
`CreateTopics`, `ChownFlinkHome`, `MakeAdminHome` and `ChownAdminHome` are commands of
`retry_if_needed`, whose last failure ends the script, unless errexit is off. It is off for the
homes when Atlas and NiFi are both selected (`ErrexitIsOff`): `nifi_reporting_task_state` says
`set +e` twice (`resources/common.sh:1378`, `1381`) and nobody sets it again.

In `cdsw_setup.py` two kinds of error do not end an attempt. `viz_api` raises only for a log-in
answered with the log-in page (200); after any other answer its session is nobody's, and a call
is redirected to the log-in page, which is a 200 too (`Unnoticed`, at the three steps that log in
anew). And `wait_for_cdsw_startup` catches whatever its turn raises: a refused restart is asked
for again, one whose answer was lost has happened all the same (`RestartCdsw`).

### `ServiceLabs.tla`, `LabScripts.tla`, `ServiceCalls.tla`, `SsbClient.tla`, `NifiClient.tla`, `WorkshopLife.tla`: the labs' calls to the services

`LabSession` asks what sessions leave, workshop by workshop, and takes for granted
what a set-up and a teardown do when no exception ends them. `WorkshopLife` states that as a
specification of its own, of five states of a workshop (clean, being built, ready, being
removed, partly there): a set-up that ends by itself has made all of it, a teardown
all clean, and only a lost call cuts either short. Two more states say where the code falls short of
it: a teardown that swallowed a refusal may end with the workshop soiled, and a set-up that
begins there is doomed. `ServiceLabs` asks whether the calls of the
labs keep it (`LifeRefined`): `Whole` is what the statements of a set-up name, `Bare` what is
left when there is nothing but the buckets and the disabled SSL context. `LabScripts` has
the statements of the workshops in the order of the code: ssb (providers and tables),
cdc (jobs on one replication slot), fraud (a NiFi flow, providers, UDFs, a
job, a dashboard), nifi with edge before it (a flow in EFM, one in NiFi that grows lab by
lab while it runs) and dataviz. `ServiceCalls` executes them, `SsbClient` and `NifiClient` say
what the calls of `utils/ssb.py` and `utils/nifi.py` do. nifi's teardown is followed by that of its
prerequisite edge, which repeats most of its statements on what is no longer there.

| State | In the code |
|---|---|
| `workshop`, `tls`, `csa` | the workshop, `is_tls_enabled()`, `_get_csa_version()` |
| `phase`, `pc`, `step`, `todo`, `target` | the process: set-up or teardown, its statement, the turn of a loop and what the loop has still to visit |
| `there` | what exists on the services |
| `jobs`, `left`, `sleep` | the SSB jobs by name, seconds until one has stopped, `time.sleep` |
| `enabled`, `live` | NiFi's enabled controller services and running processors |
| `failed`, `tries` | `failed` of the teardowns' loop, `startup_retries` of its lab 4 |
| `hurt` | history: a call of this process was lost, or refused and the refusal swallowed |
| `spared` | history: what is still there because the refusal to delete it was swallowed |

`RefusalIgnored` is the `except RuntimeError: pass` of ssb's teardown
(`workshop_ssb.py:77-80`), which is meant for a schema that does not exist and takes every unexpected
answer for that: the schema stays and the teardown goes on. The teardowns' loop over
controllers swallows errors as well (`DisableControllers`). Everything else that is refused or
lost raises.

Taken from how the calls are used and from comments, and external: SSB shows a job that
stops as RUNNING until it has stopped, accepts to stop one that has ended, restarts
the job of a name, does not delete an active job nor a Kafka provider under a catalog
("some Catalog providers can depend on it", `utils/ssb.py:366`); a job started while
another has the replication slot fails ("release of resources, like replication
slots", `utils/ssb.py:548`); NiFi answers 409 "is referenced by" when a controller service is
disabled under another that is enabled or a processor that runs (`workshop_fraud.py:1490`), and a forced
deletion of a group may fail for the same reason; a versioned group holds its registry
client, and a connection, in NiFi as in EFM, its two ends, unless it goes with a processor; a schema cannot be
made twice. The results of `psql` are not looked at by the code and are left out.

### Proof modules

`WebServerProofs.tla` (types and invariants of the web server, and that it implements
`Registry`), `WebServerSerialProofs.tla` (what it promises when requests do not overlap),
`IngressSyncProofs.tla`, `SetupMonitorProofs.tla`, `LabSessionProofs.tla`,
`ClusterCreationProofs.tla` and `CdswSetupProofs.tla` (the two halves of `Provisioning`; the
second extends the first) and `ServiceLabsProofs.tla`.

`MCWebServer`, `MCIngressSync` and `MCSetupMonitor` give TLC its symmetry sets;
`MCLabSession` gives `LabSession` the tables of `Workshops`; `MCProvisioning` and
`MCServiceLabs` give the sets of services, releases and versions.

Definitions whose comment begins with *Mutant* are deliberate errors, used by no
specification: each stands for a plausible bug, and shows that the property
named beside it in `PROJECT.json` notices that bug.

## 3. What TLC checks

| Run | Question | Result |
|---|---|---|
| `web_concurrent` | Do two workers' interleaved statements keep references, e-mails and sessions sound, and amount to `Registry`'s operations? | holds |
| `web_serial` | One request at a time, over long histories: exclusive clusters, one admin, a login that assigns, an assignment that stays | holds |
| `web_double_booking` | The same exclusive clusters with two workers | **violated** |
| `ingress` | What a sync leaves in the firewall, with everybody else at work and scripts killed half way | holds |
| `ingress_liveness` | While registration is open, is whoever stays let in (Azure)? | holds |
| `ingress_outage` | Closing leaves nobody out even if the web server does not answer | **violated** |
| `monitor` | Is the monitor's verdict true, and does it come? | holds |
| `monitor_pair` | The same success with two monitors of one namespace | **violated** |
| `labs` | What labs find, what tests run on, and what sessions and resets leave behind, with failures and kills anywhere | holds |
| `labs_undo` | A reset undoes everything of previous workshops | **violated** |
| `provisioning` | What does a return code of 0 mean, does an attempt ever destroy what works, do the programs end: with refused calls, lost answers, failed commands and a re-run | holds, with the exceptions its properties name |
| `services` | Can the order of a workshop's calls make a service refuse one, what does a teardown leave, do its loops end, and do set-ups and teardowns keep `WorkshopLife`: with calls lost, or refused unnoticed, anywhere | holds |

### Bounds, and why they are enough

* `web_concurrent`: two workers are what a race needs; two e-mails and two
  user ids let a registration collide with another and an id be freed and
  missed; two clusters let one be deleted while the other is assigned.
  `MaxUserId` and `MaxClusterId` bound the sequences; the proofs hold for any bound.
* `web_serial`: one worker, three ids and two e-mails, so that an account is
  deleted and registered again; two hosts and a registration code, so that clusters
  are replaced and passwords are reset by the admin.
* `web_double_booking`: one cluster and an id more, the least in which two
  registrations meet.
* `ingress`: two users and two addresses, so that users share an address, move to
  the other's, or leave a stale rule; the second address is also the operator's, the first
  is the one the environment was launched from and the one `manage-ip.sh` is run
  for, so that every way to hold a rule meets every other. One manual
  change is under way at a time; users are symmetric.
* `ingress_liveness`: the property is about one user; the operator has both
  addresses in turn, which on Azure overwrites the user's rule with a WEB_ADMIN one.
* `monitor`: three instances, so that the number of final lines passes through every
  value below N while each of them changes; the first may lose its connection.
* `monitor_pair`: two instances, the least in which one is counted twice.
* `labs`: three programs and two faults, so that a session or a reset that failed or was
  killed is followed by another that fails too and by one that does not. The seven workshops
  of the repository, in the order in which pytest collects them, two modules of one
  workshop in a row; the resets that the guides ask for and two to the end of a workshop; a
  cluster with everything and one without CDSW whose SSB is too old for fraud, so that
  modules are skipped.
* `labs_undo`: the same; one fault is more than the counterexample needs.
* `provisioning`: two faults and two runs of `setup.sh`: a fault ends the first run, another
  meets the second, or both meet one attempt of `cdsw_setup.py`, which has one retry;
  two faults are more than its retries absorb, so that `OnlyLockOutIsFinal` is tested on both sides;
  two are also what the exceptions need (a temporary password left behind, a start restarted), and
  both are reached. Three selections: one with nearly every service the scripts branch on; one with
  EFM (`"CEM"` stands for `HAS_CEM`) that gets Kafka only as a requirement; and one with SRM and
  Atlas, whose NiFi turns errexit off before Flink's homes are made. The three releases at which `cdsw_setup.py` branches (below 1.7,
  below 1.10, 1.10). One retry for every counter but the health check, which needs two
  good answers in a row within three polls, so that one bad answer starts the count
  again. `IdleTimeout >= Phases * PhaseTime` says that 2400 s are longer than a start
  of CDSW that goes well: after a restart the watcher sees only outputs it has seen
  before, so the whole start counts as one silence, and with less the watcher would
  restart a CDSW that is about to be up, for ever.
* `services`: a set-up, two teardowns and a set-up again; two faults, so that both
  of the first two processes can be cut short; the CSA versions on both sides of
  every change of the API that the workshops can meet (1.6, 1.7, 1.9; fraud needs
  1.7). `StopTime` is three seconds, as long as the labs sleep: with four
  `JobsGetTheirSlot` fails (see section 4).

### Fairness

* `IngressSync`: weak fairness of the script as a whole (a started script runs
  on by itself) and strong fairness of `GetIps` (a web server that is up for good
  does not refuse every single sync). `PressEnter`, `Die`, people and the operator
  have none. `UserLetIn` ends its promise when the user moves, the script dies or
  registration is being closed.
* `SetupMonitor`: weak fairness of each monitor's steps, of the ssh processes (they
  connect or give up within 60 seconds and notice a dead peer when they send to
  it), and of set-up scripts, which return. The network has none: `EventuallyVerdict`
  assumes that from some time on every instance can be reached and the monitor is not
  interrupted.
* `Provisioning`: weak fairness of each program (it runs on), of CM's commands, of
  Ranger's restart, of CDSW and of the clock. Steps that are faults are left out of each
  condition, so that nothing is owed to bad luck. `ProvisioningEnds` names the three waits that
  have no end in the code instead of assuming them away. CM after its restart, and NiFi when its
  reporting task is restarted, are taken to answer in the end.
* `ServiceLabs`: weak fairness of the process and of the clock, faults excluded as
  above. Nobody is obliged to start another process.
* Safety runs use no fairness. Deadlock is checked except in `monitor_pair`, where
  everything ends once both monitors have reached a verdict, in `labs` and
  `labs_undo`, which end after `MaxRuns` programs, in `services`, which ends after
  `MaxProcesses`, and in `provisioning`, which ends when its programs have.

## 4. What the runs found

1. **Two people can get the same cluster** (`web_double_booking`). Both
   handlers read the list of assigned clusters before either commits, and no constraint
   of the database stands between. The design is safe one request at a time
   (`web_serial`).
2. **An unanswered last sync closes the door on everybody** (`ingress_outage`).
   `get_ips` ends in a pipe into `jq`, which succeeds on the empty output of
   a `curl` that could not connect: "nobody answered" and "nobody is registered" are the
   same empty list, and every user's rule is revoked. With an answer, nobody is
   left out (`LeavesNobodyOutIfAnswered`, proved).
3. **Two monitors of one namespace can report a success that is not there**
   (`monitor_pair`). The lines of both are counted together.
4. **A reset does not undo other workshops** (`labs_undo`). The guides say that
   `reset-to-lab.sh` "will undo everything done in the cluster in previous
   workshops" (`src/workshop_nifi.adoc:12` and its siblings). It tears down the target workshop
   and its prerequisites only; what a workshop outside them made, say the CDC
   tables before a reset to NiFi, stays. A session of tests does not have the gap: its first
   set-up tears everything down (`GlobalTeardownCleans`).

More facts of the code that the models keep and no run is about. After a set-up that
failed, the session tears down the workshop *before* it, so that what the failed
one left stays until the next session (`src/CONTRIBUTING.adoc:107`
says that a set-up removes the left-overs of previous tests); `NoLabMeetsLeftovers` and `CleanSessionLeavesNothing` say so
with `dirty`. The docstring of `prereqs` calls the number in a tuple the last
lab to be executed, `execute_setup` stops before it; no workshop uses a
tuple, and the mutant `LabsLeftInclusive` shows what would happen. A session in which no
workshop is ever set up, because the cluster can run none of them or because every set-up
failed, ends without a tear-down: `CleanSessionLeavesNothing` asks for a set-up that succeeded
(`run.last # NoWorkshop`). That tests run on the whole of their workshop depends on pytest's
order: were the modules of one workshop apart, with one between them whose tear-down passed and
whose set-up failed, the later would find `_LAST_WORKSHOP` unchanged and run on nothing
(`Grouped`). On Azure
`get_ingress` prints the port of an all-ports rule as `*`, so that the rule's name is
not found when a sync revokes it; `StaleRevoked` is therefore claimed for AWS
only. And the operator's own `WEB_ADMIN` rule is not added where the same address
has a user's rule, which the same sync may revoke.

Of provisioning. *The retries of `cdsw_setup.py` do not cover its last steps*: an attempt that
fails after `change_default_vizapps_admin_password` has changed the
password cannot be repeated, because `configure_vizapps` (`cdsw_setup.py:1082`) logs in
with the default one; `OnlyLockOutIsFinal` says that this is the only way to give up
with retries left. The same lock-out is most of what keeps `DoneMeansReady` true: a user
that was left with a temporary password would be skipped by the next attempt as one that exists already.
It does not help against *a log-in to VizApps that is refused unnoticed* (`cdsw_setup.py:334`): when that
happens as the user changes the temporary password, the deployer is done and the password is still
temporary, which is the exception `DoneMeansReady` names. It can never leave the administrator's
default password in place: without it the users cannot be listed, which is noticed.
*A restart of CDSW whose answer is lost* (`cdsw_setup.py:241`) is not counted as a change, and since a
second start shows nothing but outputs seen before, the watcher restarts the new start as soon as it
looks again, ten seconds later; `NothingWorkingIsDestroyed` excepts just that.
*A return code of 0 does not mean that everything was prepared.* It holds for what `Prepared` names. EFM
is given up silently after its retries (`setup.sh:856`), `ranger_policies.sh` prints what Ranger answers
and does not look at it, Flink's entities are left out when Atlas is not ready in time (`setup.sh:981`),
the account of SRM may have been refused; `Unseen` says that the first two are there when no
fault occurred. With Atlas and NiFi, errexit stays off for the rest of the
script (`common.sh:1381`), so that the home of admin may be missing as well.
A re-run of `setup.sh` after CM took the template cannot
succeed by itself, since the import is refused for a cluster that is there; the
paywall's credentials then stay in CM, and they stay too when the call that resets
them fails, because the error is swallowed (`create_cluster.py:199`).
Knox that never answers after all its restarts is no error (`create_cluster.py:508`).
`setup.sh:796` asks for command "null" for ever if CM answered the restart with an error.
The tries of `hdfs dfs -mkdir` are refused what the first of them has made, so that a lost
answer fails the set-up. The `HAS_` variables come from the services asked for, not from
those the template adds: a cluster that gets Kafka as a requirement gets no topics.

Of the services. *A teardown of ssb may end well and leave its schema* (`workshop_ssb.py:79`): any
refusal passes for "schema does not exist", and the next set-up is refused when it makes the schema
again, though none of its own calls was lost. The teardown that follows removes what is left.
`TeardownLeavesNothing` and `OnlyLostCallsRaise` except this one schema and nothing else.
*`stop_job(job_name=...)` does not wait* (`utils/ssb.py:544`): it compares the running
jobs with a `job_id` that is None. What lets the next CDC job have the replication
slot is the sleep of three seconds after it, and `JobsGetTheirSlot` holds for jobs
that stop within them only; `delete_job` goes by id and does wait. Fraud's lab 4
goes on silently when its group has not started after the last try. Errors other than the 409
are swallowed in the teardown's loop over controllers (`workshop_fraud.py:1489`), so one
that was not disabled is met later by the deletion of its group. The registry's buckets and the
SSL context of the root group outlive the teardowns; the next set-up finds and reuses them.

## 5. What is proved

Every invariant and every action property that a passing run checks is also a theorem, as are the
refinements of `Registry` and `WorkshopLife`. The theorems hold for every value of the constants, under the assumptions
that the modules state and TLC evaluates (`IdBounds`, `HashesDiffer`, `NoneIsNull`; `CloudIsKnown`,
`NoneIsNoIp`, `SomeIps`, `NoneIsNoDescription`; `NAssumption`, `SubsetAssumption`;
`ClusterAssumption`, `CdswAssumption`, `ShellAssumption`; `WorkshopsAssumption` and the contract of
section 2; `CsaAssumption`, `StopTimeAssumption`, `StartAssumption`, `ProcessesAssumption`;
`MaxFaultsAssumption`): the null value is none of the real values, bounds and versions are natural
numbers, the operator's addresses are addresses, the idle time-out is longer than a start of CDSW
that goes well. Some theorems hold on a condition, which they name. `OneAtATime` and `Alone` cannot
be left out, as a run that violates the same property shows; `StopsInTime` cannot either (section
4); `KnownWorkshops` says that the statements are those of workshops that exist.

**Web server** (`WebServerProofs`). `TypeCorrect`, and from the inductive
invariant `IInv`: `ReferencesHold`, `EmailsUnique`, `SessionsHonest`. The three
properties are not inductive. A commit inserts a row that was prepared
long before, so `IInv` says what an unfinished request is entitled to: the id it
holds is in no row and in no other request, lies below the sequence, and its
e-mail is nobody else's (`Numbered`, `RequestOk`); absent rows are blank
(`Blank`), so that a deleted user refers to nothing. That ids are never drawn
twice is what keeps an old cookie from serving a new user.

**Refinement** (`WebServerProofs`). `RegistryImplemented`: every statement of
every worker is a step of `Registry` or a stutter. The commits are the steps;
an aborted registration burns its id. The side invariant `Addressed` says that
a request that is under way names a cookie and a cluster that exist as values.

**Ingress** (`IngressSyncProofs`). `TypeCorrect`; `SyncGrants` (both clouds);
`CloseLeavesNobodyOut` (both clouds); `SyncRevokes` (`Cloud = "aws"`). The
inductive invariant has one part per reason:

* `Phases`: an answer exists only between `get_ips` and the end of a sync, and
  what is half granted is on the list of things to grant;
* `Progress`: an address that is no longer to be granted has both its rules, because additions
  take nothing away and nothing on the list to revoke has an address of `IP_FILE`,
  whatever the age of the snapshot;
* `Closed`: once the public rule is gone it stays away, so whoever has not
  logged in by a rule of their own since is on `IP_FILE`;
* `Fresh`: after a refresh, a user's rule whose address is not on `IP_FILE` is
  always on a list that will still be revoked from, since no step but a grant makes a
  rule a user's.

**One request at a time** (`WebServerSerialProofs`, with `OneAtATime`: there is one worker).
`ClustersExclusive`, `AdminSingle`, `LoginsAssign`, `AssignmentsStable`. What two workers
break is that a handler decides on what it has read: `Serial` says that as long as nobody else is at
work, what a request has read is still so. The rows a login has seen as taken are taken, the
cluster it picked is free, the account it works on is there (`LoginSaw`, `RegisterSaw`,
`ChoiceSaw`). With `IInv` this makes every commit an atomic operation.

**Monitor** (`SetupMonitorProofs`). `TypeCorrect` for any number of monitors; with `Alone`
(one monitor of the namespace) `SuccessCanBeBelieved` and `FailureCanBeBelieved`. The monitor
only counts: it takes N lines with a final status for N instances. `RoundInv` says that a
line repeats what its instance answered, that an answer which is final stays true, and
that a probe writes at most once in a round (`LinesTrue`, `AnswersTrue`, `OncePerRound`). The
lines are then an injection into the instances, and N of them reach every instance.

**Cluster creation** (`ClusterCreationProofs`). `ClusterInvariant`, and from it
`SetupPrepares`, `CredentialsOutlastImports`, `RetriesWait`, `SetupCompletes`. The invariant is about the programs
alone and survives any step of CDSW: `ScriptRuns` (which stage each program
belongs to), `Counting` (retries stay within their bounds), `CmKnows` (what CM has been told by
each step of the script), `ServicesReady` (what each stage of `setup.sh` leaves),
`ImportsKnown` (the import that made the cluster is the first of all, and it has ended when the
script resets the credentials: commands outlive the run that started them, so a re-run must
be shown not to get as far while the import of an earlier one is still at work).
`SetupCompletes` adds that the template is complete: `TemplateInv` follows the loop of
`fix_dependencies`, which only adds what is missing and ends when nothing is. No induction
over the dependency graph is needed, because the property speaks of the fixed point and not of
the way there.

**CDSW set-up** (`CdswSetupProofs`). `CdswInvariant`, and from it `NoSecondModel`,
`ReadyWhenDone`, `RetriesAbsorbFaults`, `WorkIsKept`, and `TypeCorrect` for the whole of
`Provisioning`. An attempt meets what earlier ones left, so the invariant
relates the step of the attempt to the server: nothing is there before CDSW is
(`Untouched`), at most one model and its status (`ModelKnown`), what each step
has made (`ThingsMade`, `AppKnown`), which passwords are still the default
(`PasswordsKnown`; as long as no refused log-in has gone unnoticed in the attempt). `FaultsPay` is the argument for the retries: until the lock-out there have been at least as
many faults as attempts that failed (`Spent`) and things gone wrong that an attempt is yet to
trip over (`Debt`). A start that goes well is never restarted because of `Timely`: unless a restart went unheard, the
silence the watcher has counted is no longer than the phases gone by, each at most `PhaseTime`;
this is where `IdleTimeout >= Phases * PhaseTime` is used.

**Lab sessions** (`LabSessionProofs`, for any tables of workshops that keep the contract, any
cluster, any number of programs, exceptions and kills). `LabTypes`, `LabsAreFed`,
`LabsStartClean`, `TestsFindTheirWorkshop`, `SessionsLeaveNothing`, `ResetsReachTheirLab`,
`SessionsStartClean`. A set-up is a stack of calls of any depth, so its invariant speaks of what
the calls on the stack are still to do. `Promised` is what they make, `HooksLeft` what their
hooks may remove, `Undoing` what they tear down; each is a union over the calls, by the
tables. The first lemmas are about the tables: the workshops reached from a
task are the task and those reached from its prerequisites, so that replacing a call by the
calls of its body (`SetupCalls`, `TeardownCalls`) changes neither what is promised nor what
is undone. `IndInv` has a part per reason:

* `Builds` (in `SettingUp`): what the target wants is promised, or is there and no hook to come
  removes it (`HooksKeep`); what is to be made once is promised once (`MadeOnce`); and every call
  finds what its labs read among what is made or promised by the calls before it (`Supplied`);
* `Removing`: what a tear-down is for and has not removed yet is still to be undone, by a call on
  the stack or a workshop of the global tear-down;
* `Attributed`: until a set-up fails, all that can be removed belongs to the workshop in
  `_LAST_WORKSHOP`, so that tearing down that one is enough (`Undoable`);
* `Position` and `Prepared`: a workshop that is recorded as set up is still set up when
  its next module comes (`Grouped`);
* `Finished`: what a session or a reset that has ended leaves.

**Labs on services** (`ServiceLabsProofs`, for any of the workshops: `KnownWorkshops`; any versions,
number of processes and of lost calls). `SlotIsFree`: with
`StopsInTime`, no job of cdc fails for the replication slot, whatever is lost. First the
scripts are computed (`CdcOrder`: the ten statements of cdc's set-up, `QuietSetups`
and `QuietTeardowns`: the others start no such job), then `SlotInv` says who may have the slot at
each statement: a lab's job between its own submission and its own stop, where the seconds it has
left are covered by the seconds the lab still sleeps, and in a teardown only the jobs on
the list that the loop has yet to visit. A set-up that raised may leave a job behind; it
is followed by a teardown, and no set-up comes before one of them went through.

`ServicesTyped`: a loop visits only what its own statement lists, and what is enabled exists.

`LossesOnlyRaise` and `TeardownsClear` say that a set-up or a teardown in which no call was lost
goes through, and that a teardown that went through leaves nothing, each but for the schema of a
refusal that ssb's teardown swallowed (`spared`). Both hold because of the order
of some hundred statements, so the proof has two halves. The first is about the scripts alone.
`Leads(ph, s, K, L, b)` says of a sequence of statements what a Hoare triple says of a program:
after the effects K every statement of s is sound, and L are the effects after s. A statement of
a set-up is sound if what it needs has been made and what it makes has not (`GoesUp`); one of a
teardown, if nothing that may still be there holds what it deletes (`GoesDown`). `Leads` composes
like the scripts do (`LeadsTurn`), so each lab of the code has a lemma, and so has each group
of statements that teardowns share; the workshops follow from their labs
(`SetupServes`, `TeardownServes`). The set-up starts from nothing and the teardown from `Absent(w)`,
that is, from whatever set-ups and teardowns of its workshop may have left. The second half
is the invariant `LabsInv`, which knows the scripts only through `Sound`: in a set-up exactly the
effects of the statements so far are there, up to the residue (`Built`); in a teardown nothing is there of
what its statements so far remove, nothing runs once they have stopped it (`Cleared`); a loop has on
its list all it is for (`LoopKnows`); there is never more than the workshop makes (`Bounded`), and
nothing without its process group (`Inhabited`). A refusal then contradicts soundness, except that
of a group whose controllers could not be disabled, which needs a lost call.

**Refinement** (`ServiceLabsProofs`). `LifeImplemented`: every call of every process is a step of
`WorkshopLife` or a stutter. The end of a process is the step that counts: at the end of a set-up
`Built` speaks of all statements, so that the workshop is whole (`Completed`; the one connection
that edge's last lab replaces is what its script deletes again, `NifiReplaces`), and at the end
of a teardown `Cleared` does, so that it is bare (`Emptied`). Hence the state of `WorkshopLife` is
a function of what the process is, whether it runs and whether a schema was spared (`LifeStands`), and
each action of `ServiceLabs` leaves these alone, raises, or swallows a lost call or a refusal in a
teardown (`StepKinds`). A doomed set-up is never whole: it raises at the schema at the latest.
That a step that raises is `CutShort` is `OnlyLostCallsRaise` once more.

**Only model-checked**: liveness (`UserLetIn`, `EventuallyVerdict`, `ProvisioningEnds`,
`ProcessesEnd`), because fairness and ENABLED are out of the prover's reach. What the model-checked
instances show beyond that is that the properties are not vacuous and that each fails on a mutant.

## 6. What is not modelled

* In the web server: page rendering, field validation, the list of service URLs, the
  strength of hashes. A failed login or a refused request changes nothing and is no action.
* In the ingress scripts: retries inside the cloud's command line tools; IPv6
  notation; more than one
  registration script, or more than one `manage-ip.sh`, at once.
* In the monitor: the log download after a failure, the progress display.
* In the labs: the content of flows, jobs and dashboards; model API keys; two programs at
  once on one cluster; the metric checks that only read. `ServiceLabs` leaves out
  base, which calls none of the services, and edge without nifi, whose statements nifi's contain;
  updates of what exists (a connection that gets another end, variables) and new versions of a flow. Of the
  many processors, connections and controllers of a flow, one stands for those that refer to the same others.
* In provisioning: what `setup.sh` does before the cluster template (packages,
  repositories, databases, certificates: commands of the operating system under
  errexit); MiNiFi, the MQTT broker and the demo files; the test of Flink in the
  background, whose result nobody reads; `install_ecs`, `setup-ecs.sh` and the IPA server; what the
  restart of NiFi's reporting task does; how JSON templates are merged. SRM's account and Atlas'
  entities are steps that can fail, but what they leave is not kept, since nothing modelled reads it.
  The three Kafka topics are one.
* The life of `TF_STATE` and `TF_JSON_FILE` over launch, retry and terminate: the state file is
  written by Terraform, and what it records of an apply that was cut short is not
  said anywhere in `src/`. The waits of `utils/cm.py` have no caller among the labs.
* Components with status `not_modelled` in `PROJECT.json`: URL look-ups and variable
  files, helpers that open a shell or a browser, example programs.

## 7. Plan

Done: the web server, the ingress scripts, the monitor, the lab sessions,
provisioning, the service clients. What is left, in order of importance:

1. **The Terraform lifecycle**, once Terraform's own promises are written down as an
   abstract specification.
2. **Abstract specifications** of the monitor and of the ingress scripts in the way `Registry` is one of
   the web server: what a launcher may believe, and whom an open registration owes access.
