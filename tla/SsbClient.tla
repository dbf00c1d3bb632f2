------------------------------ MODULE SsbClient ------------------------------
(***************************************************************************)
(* labs/utils/ssb.py with the SSB behind it: the paths of the API by its    *)
(* version, the jobs, and the deletion of providers and UDFs.               *)
(***************************************************************************)
EXTENDS ServiceCalls

CONSTANTS
  CsaVersions, \* the minor versions of CSA 1.x considered
  StopTime     \* the seconds a job takes at most to stop

ASSUME CsaAssumption == CsaVersions \subseteq Nat
ASSUME StopTimeAssumption == StopTime \in Nat

VARIABLES
  csa,     \* the minor version of CSA
  jobs,    \* the state of each job
  left,    \* the seconds until a job that stops has stopped
  sleep,   \* time.sleep: seconds left
  target   \* the job a loop is at

jobVars == <<csa, jobs, left, sleep, target>>

-----------------------------------------------------------------------------
\* API_ENDPOINT_MAPPINGS: the versions whose paths differ, and the methods.
EndpointVersions(name) ==
  CASE name \in {"data-sources", "tables"}             -> {0, 6, 9}
    [] name = "tables-tree"                            -> {0, 6, 9}
    [] name \in {"jobs", "stop-job", "udfs", "sql-execute", "user"} -> {0, 9}
    [] name \in {"keytab-upload", "keytab-generate"}     -> {0, 7, 9}
    [] name = "detect-schema"                          -> {0, 6}
    [] OTHER                                           -> {0}

\* _get_api_endpoint: the newest that is not newer than the cluster.
Endpoint(name) == CHOOSE v \in EndpointVersions(name) :
                    v <= csa /\ \A w \in EndpointVersions(name) : w <= csa => w <= v

\* The service knows the paths of its own version only.
Answers(name) ==
  \A v \in EndpointVersions(name) : v <= csa => v <= Endpoint(name)

EndpointOf(x) == CASE x \in Providers -> "data-sources" [] x \in Udfs -> "udfs"
                   [] x \in Tables -> "sql-execute" [] OTHER -> "other"

-----------------------------------------------------------------------------
\* The jobs that read through the replication slot "flink" of PostgreSQL; a job
\* that is started while another one has it fails.
SlotJobs == {"lab3", "lab4", "lab5"}
Active(j) == jobs[j] \in {"running", "stopping"}  \* shown as RUNNING
SlotTaken == \E j \in SlotJobs : Active(j)

\* execute_sql with a job name.
SubmitJob ==
  /\ Now("submit") /\ Answers("sql-execute")
  /\ jobs' = [jobs EXCEPT ![The] = IF The \in SlotJobs /\ SlotTaken THEN "failed" ELSE "running"]
  /\ Done \/ Lost
  /\ UNCHANGED <<csa, left, sleep, target, there>>

\* POST stop-job names the job by its id from version 1.9 on, by its name before.
StopAccepted == Answers("stop-job") /\ (csa >= 9) = (Endpoint("stop-job") = 9)

\* The job takes up to StopTime seconds to stop; one that has ended is accepted.
Stopped(j) ==
  IF jobs[j] = "running"
  THEN \E d \in 0..StopTime :
         /\ jobs' = [jobs EXCEPT ![j] = IF d = 0 THEN "stopped" ELSE "stopping"]
         /\ left' = [left EXCEPT ![j] = d]
  ELSE UNCHANGED <<jobs, left>>

\* Mutant: the additional wait is left out.
StopNamedHasty ==
  /\ Now("stop")
  /\ IF StopAccepted THEN Stopped(The) /\ (Done \/ Lost) ELSE Refused /\ UNCHANGED <<jobs, left>>
  /\ UNCHANGED <<csa, sleep, target, there>>

\* stop_job(job_name=...): the loop that waits compares the RUNNING jobs with
\* job_id, which is None, and ends at once.  Then the additional wait.
StopNamed ==
  /\ Now("stop")
  /\ \/ /\ step = "list"
        /\ IF ~StopAccepted THEN Refused /\ UNCHANGED <<jobs, left, sleep>>
           ELSE /\ Stopped(The)
                /\ \/ step' = "sleep" /\ sleep' = Script[pc].wait /\ UNCHANGED todo /\ GoOn
                   \/ Lost /\ UNCHANGED sleep
     \/ step = "sleep" /\ sleep = 0 /\ Done /\ UNCHANGED <<jobs, left, sleep>>
  /\ UNCHANGED <<csa, target, there>>

\* stop_job(job_id=...): it polls until the job is not RUNNING, then waits.
StopById ==
  \/ /\ step = "call" /\ UNCHANGED sleep
     /\ \E j \in todo :
          IF ~StopAccepted THEN Refused /\ UNCHANGED <<jobs, left, target>>
          ELSE /\ Stopped(j) /\ target' = j
               /\ (step' = "poll" /\ UNCHANGED todo /\ GoOn) \/ Lost
  \/ /\ step = "poll" /\ ~Active(target) /\ step' = "sleep" /\ sleep' = Script[pc].wait
     /\ UNCHANGED <<jobs, left, todo, target>> /\ GoOn

\* stop_all_jobs: the jobs listed as RUNNING, one by one.
StopAllJobs ==
  /\ Now("stop_all")
  /\ \/ StopById
     \/ List({j \in JobNames : Active(j)}) /\ UNCHANGED <<jobs, left, sleep, target>>
     \/ step = "sleep" /\ sleep = 0 /\ Visited(target) /\ UNCHANGED <<jobs, left, sleep, target>>
     \/ LoopEnds /\ UNCHANGED <<jobs, left, sleep, target>>
  /\ UNCHANGED <<csa, there>>

\* delete_all_jobs: each job is stopped, then deleted; not one that still runs.
DeleteAllJobs ==
  /\ Now("delete_jobs")
  /\ \/ StopById
     \/ List({j \in JobNames : jobs[j] # "none"}) /\ UNCHANGED <<jobs, left, sleep, target>>
     \/ /\ step = "sleep" /\ sleep = 0 /\ UNCHANGED <<left, sleep, target>>
        /\ IF Active(target) THEN Refused /\ UNCHANGED jobs
           ELSE jobs' = [jobs EXCEPT ![target] = "none"] /\ (Visited(target) \/ Lost)
     \/ LoopEnds /\ UNCHANGED <<jobs, left, sleep, target>>
  /\ UNCHANGED <<csa, there>>

Jobs == SubmitJob \/ StopNamed \/ StopAllJobs \/ DeleteAllJobs

-----------------------------------------------------------------------------
\* A job that reads nothing any more ends by itself.
JobDies ==
  /\ \E j \in JobNames : jobs[j] = "running" /\ jobs' = [jobs EXCEPT ![j] = "stopped"]
  /\ Fault /\ UNCHANGED <<processVars, csa, left, sleep, target, there>>

\* A second passes, for what sleeps and for what stops.
Second ==
  /\ sleep > 0 \/ \E j \in JobNames : left[j] > 0
  /\ sleep' = IF sleep > 0 THEN sleep - 1 ELSE 0
  /\ left' = [j \in JobNames |-> IF left[j] > 0 THEN left[j] - 1 ELSE 0]
  /\ jobs' = [j \in JobNames |->
                IF jobs[j] = "stopping" /\ left[j] <= 1 THEN "stopped" ELSE jobs[j]]
  /\ UNCHANGED <<processVars, csa, target, there, faults>>
=============================================================================
