------------------------------ MODULE SetupMonitor ------------------------------
(***************************************************************************)
(* How launch.sh learns that the instances are set up.  Each instance runs  *)
(* its setup script in the background; check-setup-status.sh probes them    *)
(* one after the other through a shared ssh connection per instance, round  *)
(* after round, collects one line per answer in LATEST_STATUS_FILE, and     *)
(* stops when that file has a final line for every instance.  The file's    *)
(* name holds the namespace only: monitors of one namespace share it.       *)
(***************************************************************************)
EXTENDS Naturals, Sequences, FiniteSets

CONSTANTS
  Monitors,     \* the check-setup-status.sh that may run at the same time
  N,            \* instances: web, IPA, clusters and ECS, in the order of get_status
  Rebooting,    \* those of them whose connection may be lost
  Restartable   \* the monitors that somebody may interrupt and start again

ASSUME NAssumption == N \in Nat \ {0}

Instances == 1..N

ASSUME SubsetAssumption == Rebooting \subseteq Instances /\ Restartable \subseteq Monitors

Statuses == {"connecting", "running", "completed", "failed"}

Final == {"completed", "failed"}

VARIABLES
  setup,     \* setup[i]: "running", or how the setup script of i returned
  net,       \* net[i]: i can be reached (it is up, sshd answers, the route works)
  deployed,  \* TF_JSON_FILE is there: terminate.sh moves it away
  file,      \* LATEST_STATUS_FILE
  conn,      \* conn[m][i]: the control master of monitor m for i
  mon        \* mon[m]: where monitor m is

vars == <<setup, net, deployed, file, conn, mon>>

\* at: the next step; i: the instance probed; line: what check_instance prints,
\* "" for nothing; attached: the file tee holds open is still the named one.
Monitor == [at : {"start", "round", "probe", "write", "valid", "settled", "completed",
                  "success", "failed"},
            i : Instances, line : Statuses \cup {""}, attached : BOOLEAN]

\* "broken": the master's process lives, its TCP connection does not.
Masters == {"none", "opening", "ready", "broken"}

Idle == [at |-> "start", i |-> 1, line |-> "", attached |-> FALSE]

At(m, step) == mon[m].at = step

Verdict(m) == mon[m].at \in {"success", "failed"}

Goto(m, step) == mon' = [mon EXCEPT ![m].at = step]

Lines(ss) == {k \in DOMAIN file : file[k].status \in ss}

\* What resources/check-setup-status.sh prints: no process, and the log tells
\* the return code of the script's exit trap.
StatusOf(s) == CASE s = "running" -> "running" [] s = "ok" -> "completed" [] s = "error" -> "failed"

-----------------------------------------------------------------------------
(* launch.sh starts the monitor after terraform apply has started every     *)
(* setup script.                                                            *)
Init ==
  /\ setup = [i \in Instances |-> "running"]
  /\ net = [i \in Instances |-> TRUE]
  /\ deployed = TRUE
  /\ file = <<>>
  /\ conn = [m \in Monitors |-> [i \in Instances |-> "none"]]
  /\ mon = [m \in Monitors |-> Idle]

\* Fresh CONTROL_PATH_PREFIX and total_instances; the file is not touched yet.
Start(m) ==
  /\ At(m, "start")
  /\ Goto(m, "round")
  /\ UNCHANGED <<setup, net, deployed, file, conn>>

\* Mutant: the lines of the previous round stay.
BeginRoundKeeping(m) ==
  /\ At(m, "round")
  /\ mon' = [mon EXCEPT ![m] = [Idle EXCEPT !.at = "probe"]]
  /\ UNCHANGED <<setup, net, deployed, file, conn>>

\* rm -f LATEST_STATUS_FILE: a tee that has it open goes on writing to nothing.
BeginRound(m) ==
  /\ At(m, "round")
  /\ file' = <<>>
  /\ mon' = [n \in Monitors |-> IF n = m THEN [Idle EXCEPT !.at = "probe"]
                                         ELSE [mon[n] EXCEPT !.attached = FALSE]]
  /\ UNCHANGED <<setup, net, deployed, conn>>

\* ensure_control_master: starts a master in the background unless one is up
\* (ssh -O check) or on its way (pid_file).
Master(m, i) == IF conn[m][i] = "none" THEN "opening" ELSE conn[m][i]

\* Mutant: an instance whose master is up but does not answer counts as failed.
AnswerAssumed(m, i) ==
  IF conn[m][i] \in {"none", "opening"} THEN "connecting"
  ELSE IF conn[m][i] = "ready" /\ net[i] THEN StatusOf(setup[i]) ELSE "failed"

\* check_instance: "connecting" without a master; no line when ssh fails.
Answer(m, i) ==
  IF conn[m][i] \in {"none", "opening"} THEN "connecting"
  ELSE IF conn[m][i] = "ready" /\ net[i] THEN StatusOf(setup[i]) ELSE ""

\* check_instance | tee -a: tee has opened the file, the answer is known.
Probe(m) ==
  /\ At(m, "probe")
  /\ LET i == mon[m].i IN
       /\ conn' = [conn EXCEPT ![m][i] = Master(m, i)]
       /\ mon' = [mon EXCEPT ![m] = [@ EXCEPT !.at = "write", !.line = Answer(m, i),
                                              !.attached = TRUE]]
  /\ UNCHANGED <<setup, net, deployed, file>>

\* Mutant: the loop over the indices runs one too far.
WriteOneMore(m) ==
  /\ At(m, "write")
  /\ file' = IF mon[m].attached /\ mon[m].line # ""
               THEN Append(file, [inst |-> mon[m].i, status |-> mon[m].line]) ELSE file
  /\ mon' = [mon EXCEPT ![m] = IF @.i > N THEN [Idle EXCEPT !.at = "valid"]
                               ELSE [Idle EXCEPT !.at = "probe", !.i = mon[m].i + 1]]
  /\ UNCHANGED <<setup, net, deployed, conn>>

Write(m) ==
  /\ At(m, "write")
  /\ file' = IF mon[m].attached /\ mon[m].line # ""
               THEN Append(file, [inst |-> mon[m].i, status |-> mon[m].line]) ELSE file
  /\ mon' = [mon EXCEPT ![m] = IF @.i = N THEN [Idle EXCEPT !.at = "valid"]
                               ELSE [Idle EXCEPT !.at = "probe", !.i = mon[m].i + 1]]
  /\ UNCHANGED <<setup, net, deployed, conn>>

\* is_deployment_valid
CheckValid(m) ==
  /\ At(m, "valid")
  /\ Goto(m, IF deployed THEN "settled" ELSE "failed")
  /\ UNCHANGED <<setup, net, deployed, file, conn>>

\* Mutant: lines of instances that do not answer yet count as final.
CountSettledLoosely(m) ==
  /\ At(m, "settled")
  /\ Goto(m, IF Cardinality(Lines(Final \cup {"connecting"})) = N THEN "completed" ELSE "round")
  /\ UNCHANGED <<setup, net, deployed, file, conn>>

\* The first egrep of wait_for_completion; sleeps 5 and starts a new round
\* unless there are as many final lines as instances.
CountSettled(m) ==
  /\ At(m, "settled")
  /\ Goto(m, IF Cardinality(Lines(Final)) = N THEN "completed" ELSE "round")
  /\ UNCHANGED <<setup, net, deployed, file, conn>>

\* The second egrep, on the file as it is by then.
CountCompleted(m) ==
  /\ At(m, "completed")
  /\ Goto(m, IF Cardinality(Lines({"completed"})) = N THEN "success" ELSE "failed")
  /\ UNCHANGED <<setup, net, deployed, file, conn>>

\* Ctrl-C, and the monitor is started again: cleanup closes its connections and
\* leaves LATEST_STATUS_FILE.  (A tee of the pipeline that is cut writes nothing.)
Interrupt(m) ==
  /\ m \in Restartable /\ ~At(m, "start") /\ ~Verdict(m)
  /\ mon' = [mon EXCEPT ![m] = Idle]
  /\ conn' = [conn EXCEPT ![m] = [i \in Instances |-> "none"]]
  /\ UNCHANGED <<setup, net, deployed, file>>

-----------------------------------------------------------------------------
(* The connections, the instances and terminate.sh.                         *)

\* Mutant: the pid_file of an ssh that gave up stays, and every later probe takes
\* it for one that is still connecting.
ConnectedOnce(m, i) ==
  /\ conn[m][i] = "opening"
  /\ conn' = [conn EXCEPT ![m][i] = IF net[i] THEN "ready" ELSE "gave up"]
  /\ UNCHANGED <<setup, net, deployed, file, mon>>

\* ssh -f -N -M within its 60 seconds.
Connected(m, i) ==
  /\ conn[m][i] = "opening"
  /\ conn' = [conn EXCEPT ![m][i] = IF net[i] THEN "ready" ELSE "none"]
  /\ UNCHANGED <<setup, net, deployed, file, mon>>

\* The local ssh notices that its peer is gone.
MasterDies(m, i) ==
  /\ conn[m][i] = "broken"
  /\ conn' = [conn EXCEPT ![m][i] = "none"]
  /\ UNCHANGED <<setup, net, deployed, file, mon>>

SetupEnds(i, how) ==
  /\ setup[i] = "running"
  /\ setup' = [setup EXCEPT ![i] = how]
  /\ UNCHANGED <<net, deployed, file, conn, mon>>

\* A reboot (setup-ipa.sh ends with one) or an outage.
NetDown(i) ==
  /\ i \in Rebooting /\ net[i]
  /\ net' = [net EXCEPT ![i] = FALSE]
  /\ conn' = [m \in Monitors |-> [conn[m] EXCEPT ![i] = IF @ = "ready" THEN "broken" ELSE @]]
  /\ UNCHANGED <<setup, deployed, file, mon>>

NetUp(i) ==
  /\ ~net[i]
  /\ net' = [net EXCEPT ![i] = TRUE]
  /\ UNCHANGED <<setup, deployed, file, conn, mon>>

Terminate ==
  /\ deployed
  /\ deployed' = FALSE
  /\ UNCHANGED <<setup, net, file, conn, mon>>

-----------------------------------------------------------------------------
Step(m) ==
  \/ Start(m) \/ BeginRound(m) \/ Probe(m) \/ Write(m)
  \/ CheckValid(m) \/ CountSettled(m) \/ CountCompleted(m)

Link(m, i) == Connected(m, i) \/ MasterDies(m, i)

Ends(i) == SetupEnds(i, "ok") \/ SetupEnds(i, "error")

Next ==
  \/ \E m \in Monitors : Step(m) \/ Interrupt(m) \/ \E i \in Instances : Link(m, i)
  \/ \E i \in Instances : Ends(i) \/ NetDown(i) \/ NetUp(i)
  \/ Terminate

Spec == Init /\ [][Next]_vars

\* Monitors keep going; ssh gives up or connects (timeout 60) and notices a dead
\* peer when it sends to it; setup scripts return.
FairSpec ==
  /\ Spec
  /\ \A m \in Monitors : WF_vars(Step(m)) /\ \A i \in Instances : WF_vars(Link(m, i))
  /\ \A i \in Instances : WF_vars(Ends(i))

-----------------------------------------------------------------------------
TypeOK ==
  /\ setup \in [Instances -> {"running", "ok", "error"}]
  /\ net \in [Instances -> BOOLEAN]
  /\ deployed \in BOOLEAN
  /\ file \in Seq([inst : Instances, status : Statuses])
  /\ conn \in [Monitors -> [Instances -> Masters]]
  /\ mon \in [Monitors -> Monitor]

\* "Instance deployment finished successfully" is said only of a deployment in
\* which every setup script returned 0: whatever earlier rounds, an interrupted
\* monitor or probes that never came back left in the file.
SuccessIsTrue ==
  \A m \in Monitors : At(m, "success") => \A i \in Instances : setup[i] = "ok"

\* A deployment that is still there is reported as failed only when every setup
\* script has returned, one of them with an error: an instance that cannot be
\* reached, reboots or is still busy is waited for.
FailureIsTrue ==
  \A m \in Monitors : At(m, "failed") /\ deployed =>
    /\ \A i \in Instances : setup[i] # "running"
    /\ \E i \in Instances : setup[i] = "error"

\* A monitor nobody interrupts ends, if the instances are all reachable at last.
EventuallyVerdict ==
  \A m \in Monitors :
    <>[]((\A i \in Instances : net[i]) /\ ~At(m, "start")) => <>Verdict(m)
=============================================================================
