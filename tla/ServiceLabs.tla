------------------------------ MODULE ServiceLabs ------------------------------
(***************************************************************************)
(* Set-ups and teardowns of the workshops on the real                       *)
(* order of their calls: a set-up that may end anywhere, a teardown on what *)
(* it left, and so on.                                                      *)
(***************************************************************************)
EXTENDS SsbClient, NifiClient

CONSTANTS
  WorkshopIds, \* the workshops considered
  MaxProcesses \* bound: processes in a behaviour

ASSUME ProcessesAssumption == MaxProcesses \in Nat \ {0}

VARIABLES
  processes, \* the processes so far
  spared     \* history: what is there because the refusal to delete it was swallowed

vars == <<processVars, there, jobVars, canvasVars, faults, processes, spared>>

Init ==
  /\ workshop \in WorkshopIds /\ tls \in BOOLEAN
  /\ csa \in {v \in CsaVersions : workshop = "fraud" => v >= 7}
  /\ phase = "setup" /\ status = "running" /\ pc = 1 /\ step = "list" /\ todo = {}
  /\ hurt = FALSE /\ there = {}
  /\ jobs = [j \in JobNames |-> "none"] /\ left = [j \in JobNames |-> 0]
  /\ sleep = 0 /\ target = "lab3"
  /\ enabled = {} /\ live = {} /\ failed = FALSE /\ tries = StartRetries
  /\ faults = 0 /\ processes = 1 /\ spared = {}

-----------------------------------------------------------------------------
\* A call of the client of a service that makes x.
MakeArtefact ==
  /\ Now("make") /\ UNCHANGED <<jobVars, canvasVars>>
  /\ IF The \in there \/ ~(Needs(The) \subseteq there) \/ ~Answers(EndpointOf(The))
     THEN Refused /\ UNCHANGED there
     ELSE there' = there \cup {The} /\ (Done \/ Lost)

\* It looks for x first, or replaces it.
FindArtefact ==
  /\ Now("find") /\ UNCHANGED <<jobVars, canvasVars>>
  /\ IF ~(Needs(The) \subseteq there) THEN Refused /\ UNCHANGED there
     ELSE there' = there \cup {The} /\ (Done \/ Lost)

\* DROP ... IF EXISTS, and the deletion that may find nothing to delete.
DropArtefacts ==
  /\ Now("drop") \/ Now("try")
  /\ UNCHANGED <<jobVars, canvasVars>>
  /\ there' = there \ Arg /\ (Done \/ Lost)

\* "ignore if schema does not exist": the teardown of ssb takes every answer but
\* the expected one for that, and goes on.
RefusalIgnored ==
  /\ Now("try") /\ Arg \cap there # {} /\ spared' = spared \cup (Arg \cap there)
  /\ Fault /\ hurt' = TRUE /\ pc' = pc + 1 /\ step' = "list" /\ todo' = {}
  /\ UNCHANGED <<workshop, tls, phase, status, there, jobVars, canvasVars>>

Held(x) == (\E y \in there : <<y, x>> \in Holds) \/ (x \in Connections /\ live # {})

\* A listing, and a deletion for each item; Kafka providers come last.  A
\* processor that is deleted takes its connections with it.
DeleteArtefacts ==
  /\ Now("delete") /\ UNCHANGED <<jobVars, canvasVars>>
  /\ \/ List(Arg \cap there) /\ UNCHANGED there
     \/ LoopEnds /\ UNCHANGED there
     \/ /\ step = "call"
        /\ \E x \in todo :
             /\ x = "kafka" => todo = {"kafka"}
             /\ IF Held(x) THEN Refused /\ UNCHANGED there
                ELSE /\ there' = there \ ({x} \cup {y \in Connections : x \in Uses(y)})
                     /\ Visited(x) \/ Lost

\* A call does not reach its service.
CallIsLost ==
  /\ Running /\ step \in {"list", "call", "poll"} /\ Lost
  /\ UNCHANGED <<there, jobVars, enabled, live>>
  /\ failed' = FALSE /\ tries' = StartRetries

Calls == MakeArtefact \/ FindArtefact \/ DropArtefacts \/ DeleteArtefacts

-----------------------------------------------------------------------------
\* A teardown follows whatever the set-up came to, and a teardown that failed;
\* a set-up follows a teardown that went through.
NextProcess ==
  /\ status # "running" /\ processes < MaxProcesses /\ processes' = processes + 1
  /\ phase' = IF phase = "teardown" /\ status = "done" THEN "setup" ELSE "teardown"
  /\ status' = "running" /\ pc' = 1 /\ step' = "list" /\ todo' = {} /\ hurt' = FALSE
  /\ failed' = FALSE /\ tries' = StartRetries
  /\ UNCHANGED <<workshop, tls, there, jobVars, enabled, live, faults>>

Process ==
  \/ Calls
  \/ Jobs /\ UNCHANGED canvasVars
  \/ Canvas /\ UNCHANGED jobVars
  \/ ProcessEnds /\ UNCHANGED <<there, jobVars, canvasVars>>

Work == Process /\ spared' = spared \cap there' /\ UNCHANGED processes

Next ==
  \/ Work
  \/ RefusalIgnored /\ UNCHANGED processes
  \/ CallIsLost /\ UNCHANGED <<processes, spared>>
  \/ (JobDies \/ Second) /\ UNCHANGED <<canvasVars, processes, spared>>
  \/ NextProcess /\ UNCHANGED spared

Spec == Init /\ [][Next]_vars

\* The process runs on, and time passes.
Fairness ==
  /\ WF_vars(Work /\ UNCHANGED faults)
  /\ WF_vars(Second /\ UNCHANGED <<canvasVars, processes, spared>>)

LiveSpec == Spec /\ Fairness

-----------------------------------------------------------------------------
\* The variables hold what their comments say.
TypeOK ==
  /\ workshop \in WorkshopIds /\ tls \in BOOLEAN /\ csa \in CsaVersions
  /\ phase \in {"setup", "teardown"} /\ status \in {"running", "done", "raised"}
  /\ pc \in 1..Len(Script) + 1 /\ step \in {"list", "call", "poll", "sleep"}
  /\ todo \subseteq Artefacts \cup JobNames /\ hurt \in BOOLEAN /\ there \subseteq Artefacts
  /\ jobs \in [JobNames -> {"none", "running", "stopping", "stopped", "failed"}]
  /\ left \in [JobNames -> 0..StopTime] /\ sleep \in Nat /\ target \in JobNames
  /\ enabled \subseteq Controllers \cap there /\ live \subseteq Processors
  /\ failed \in BOOLEAN /\ tries \in 0..StartRetries
  /\ processes \in 1..MaxProcesses /\ faults \in 0..MaxFaults /\ spared \subseteq there

\* A set-up or a teardown in which no call was lost goes through, whatever the
\* processes before it left behind: every call finds what it needs, a provider
\* goes after the catalogs on it, a job before it is deleted, a controller after
\* those that refer to it.  The exception is a set-up of ssb after a teardown
\* that went through though its schema was not deleted (workshop_ssb.py:77-80).
OnlyLostCallsRaise == status = "raised" => hurt \/ (phase = "setup" /\ spared # {})

\* Nothing of the workshop that a later set-up or another workshop would meet,
\* but for the buckets, the disabled SSL context of the root group, and what a
\* swallowed refusal left.
Bare ==
  /\ there \subseteq {"bucket", "edge_bucket", "ssl"} \cup spared /\ live = {}
  /\ \A j \in JobNames : ~Active(j)
  /\ workshop = "fraud" => \A j \in JobNames : jobs[j] = "none"

\* A teardown that went through leaves nothing, unless it swallowed a refusal
\* itself: what an earlier one left, it deletes.
TeardownLeavesNothing ==
  phase = "teardown" /\ status = "done" => Bare /\ (spared # {} => hurt)

\* What the statements of a script make, and do not delete again.
Named(ops) == UNION {Script[i].arg : i \in {n \in DOMAIN Script : Script[n].op \in ops}}

Whole ==
  /\ Named({"make", "find", "control"}) \ Named({"delete"}) \subseteq there
  /\ \A j \in Named({"submit"}) : jobs[j] # "none"

LifeState ==
  CASE status = "running" /\ phase = "setup" -> IF spared = {} THEN "building" ELSE "doomed"
    [] status = "running" /\ phase = "teardown" -> "removing"
    [] status = "done" /\ phase = "setup" /\ Whole -> "ready"
    [] status = "done" /\ phase = "teardown" /\ Bare -> IF spared = {} THEN "clean" ELSE "soiled"
    [] OTHER -> "partial"

Life == INSTANCE WorkshopLife WITH state <- LifeState, lost <- hurt

\* Set-ups and teardowns, call by call, are what the framework takes them for
\* (labs/__init__.py:216-254): all of the workshop is there after a set-up and
\* nothing after a teardown, unless a call was lost on the way; and a set-up that
\* meets what a swallowed refusal left never goes through.
LifeRefined == Life!Spec

\* "in case we need to ensure the release of resources, like replication slots"
\* (ssb.py:547): no job is started while the one before still has the slot.
JobsGetTheirSlot == \A j \in SlotJobs : jobs[j] # "failed"

\* Every set-up and every teardown ends: the loop that disables controllers
\* refused by NiFi, and the one that waits for a job.
ProcessesEnd == status = "running" ~> status # "running"
=============================================================================
