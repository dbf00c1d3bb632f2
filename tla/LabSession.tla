------------------------------ MODULE LabSession ------------------------------
(***************************************************************************)
(* The lab framework (resources/labs/__init__.py) and the two programs that *)
(* drive it on a cluster: a pytest session (tests/conftest.py) and          *)
(* reset-to-lab.sh.  Programs run one after the other, any statement of     *)
(* theirs may raise, and they may be killed; what the labs have left on the *)
(* cluster (have) is all that survives them.                                *)
(***************************************************************************)
EXTENDS Naturals, Sequences, FiniteSets, SequencesExt

CONSTANTS
  Workshops,      \* the ids in WORKSHOPS
  Prereqs,        \* workshop -> sequence of [workshop, lab]
  Requires,       \* workshop -> what is_runnable() wants installed
  Before, After,  \* workshop -> the hooks: sequence of removed artefact sets
  Labs,           \* workshop -> lab number -> sequence of created artefacts
  Teardown,       \* workshop -> sequence of removed artefact sets
  Needs(_, _),    \* workshop, lab -> the artefacts the lab reads
  Exclusive,      \* artefacts that cannot be created twice
  InstalledSets,  \* the clusters considered, by what is installed
  Modules,        \* the workshops of the test modules, in pytest's order
  Resets,         \* the arguments of reset-to-lab.sh considered
  MaxRuns,        \* bound: programs started
  MaxFaults       \* bound: statements that raise, and kills

NoWorkshop == "none"

ASSUME WorkshopsAssumption ==
  /\ NoWorkshop \notin Workshops
  /\ Prereqs \in [Workshops -> Seq([workshop : Workshops, lab : Nat])]
  /\ \A w \in Workshops : DOMAIN Labs[w] \subseteq Nat /\ \A n \in DOMAIN Labs[w] : Labs[w][n] \in Seq(ToSet(Labs[w][n]))
  /\ Modules \in Seq(Workshops) /\ Modules # <<>>
  /\ Resets \subseteq [workshop : Workshops, lab : Nat]
  /\ MaxRuns \in Nat /\ MaxFaults \in Nat

VARIABLES
  installed,  \* what the cluster has, fixed when it was built
  have,       \* the artefacts on the cluster
  run,        \* the program that runs: its kind, environment and position
  phase,      \* what the program is doing
  todo,       \* the calls left of the set-up or tear-down under way
  rest,       \* GLOBAL teardown: the workshops still to be torn down
  made,       \* what the set-up under way has created (self.context and more)
  dirty,      \* a set-up of this session has failed
  ended,      \* how the last program ended
  runs, faults

vars == <<installed, have, run, phase, todo, rest, made, dirty, ended, runs, faults>>

-----------------------------------------------------------------------------
(* The calls of the framework.  todo holds those to come, the next one      *)
(* first: a function that calls others is replaced by their calls.          *)

RunnableOn(cluster, w) == Requires[w] \subseteq cluster

Runnable(w) == RunnableOn(installed, w)

Task(w, n) == [workshop |-> w, lab |-> n]

Call(op, w, n, target) == [op |-> op, workshop |-> w, lab |-> n, target |-> target]

SetUp(t) == Call("execute_setup", t.workshop, 0, t.lab)
TearDown(w) == Call("execute_teardown", w, 0, 0)

\* Mutant: the prerequisites are set up after the workshop's own labs.
SetupCallsReversed(w, target) ==
  IF ~Runnable(w) THEN <<>>
  ELSE <<Call("before", w, 0, 0), Call("labs", w, 0, target), Call("after", w, 0, 0)>>
       \o [i \in DOMAIN Prereqs[w] |-> SetUp(Prereqs[w][i])]

\* execute_setup: nothing for a workshop that is not runnable; else the
\* prerequisites, before_setup, the labs below the target, after_setup.
SetupCalls(w, target) ==
  IF ~Runnable(w) THEN <<>>
  ELSE [i \in DOMAIN Prereqs[w] |-> SetUp(Prereqs[w][i])]
       \o <<Call("before", w, 0, 0), Call("labs", w, 0, target), Call("after", w, 0, 0)>>

\* Mutant: the prerequisites are not torn down.
TeardownCallsAlone(w) == IF ~Runnable(w) THEN <<>> ELSE <<Call("teardown", w, 0, 0)>>

\* execute_teardown: the workshop's own teardown first.
TeardownCalls(w) ==
  IF ~Runnable(w) THEN <<>>
  ELSE <<Call("teardown", w, 0, 0)>>
       \o [i \in DOMAIN Prereqs[w] |-> TearDown(Prereqs[w][i].workshop)]

\* Mutant: the target lab is run as well.
LabsLeftInclusive(c) == {n \in DOMAIN Labs[c.workshop] : c.lab <= n /\ n <= c.target}

\* The lab functions that the loop of execute_setup has yet to call.
LabsLeft(c) == {n \in DOMAIN Labs[c.workshop] : c.lab <= n /\ n < c.target}

\* What the statements of a call remove, and what they create.
Removes(c) == CASE c.op = "before"   -> Before[c.workshop]
                [] c.op = "after"    -> After[c.workshop]
                [] c.op = "teardown" -> Teardown[c.workshop]
                [] OTHER             -> <<>>
Creates(c) == IF c.op = "lab" THEN Labs[c.workshop][c.lab] ELSE <<>>

Clashes(c) == ToSet(Creates(c)) \cap Exclusive \cap have

-----------------------------------------------------------------------------
Idle == [kind |-> "none", at |-> 0, last |-> NoWorkshop, setup |-> FALSE,
         teardown |-> FALSE, target |-> Task(NoWorkshop, 0)]

Init ==
  /\ installed \in InstalledSets
  /\ have = {} /\ run = Idle /\ phase = "idle"
  /\ todo = <<>> /\ rest = {} /\ made = {} /\ dirty = FALSE
  /\ ended = "none" /\ runs = 0 /\ faults = 0

\* Mutant: what was left to do stays.
EndKeeping(how) == phase' = "idle" /\ ended' = how /\ todo' = todo /\ rest' = {}

\* The program ends; its last arguments stay readable in run.
End(how) == phase' = "idle" /\ ended' = how /\ todo' = <<>> /\ rest' = {}

\* pytest starts; SKIP_SETUP and SKIP_TEARDOWN are read once a session.
StartTests(setup, teardown) ==
  /\ phase = "idle" /\ runs < MaxRuns
  /\ run' = [Idle EXCEPT !.kind = "tests", !.at = 1, !.setup = setup, !.teardown = teardown]
  /\ phase' = "module" /\ ended' = "none" /\ dirty' = FALSE /\ made' = {}
  /\ runs' = runs + 1
  /\ UNCHANGED <<installed, have, todo, rest, faults>>

\* reset-to-lab.sh starts with workshop_teardown(target_workshop=...).
StartReset(target) ==
  /\ phase = "idle" /\ runs < MaxRuns
  /\ run' = [Idle EXCEPT !.kind = "reset", !.target = target]
  /\ phase' = "teardown" /\ todo' = <<TearDown(target.workshop)>>
  /\ ended' = "none" /\ dirty' = FALSE /\ made' = {}
  /\ runs' = runs + 1
  /\ UNCHANGED <<installed, have, rest, faults>>

Workshop == Modules[run.at]

\* Mutant: _LAST_WORKSHOP is assigned before the set-up.
EnterModuleEarly ==
  /\ phase = "module" /\ run.at <= Len(Modules)
  /\ IF ~run.setup \/ run.last = Workshop
     THEN phase' = "tests" /\ UNCHANGED <<run, todo, rest>>
     ELSE /\ phase' = "teardown" /\ run' = [run EXCEPT !.last = Workshop]
          /\ IF run.last = NoWorkshop
             THEN rest' = Workshops /\ todo' = <<>>
             ELSE rest' = {} /\ todo' = <<TearDown(run.last)>>
  /\ UNCHANGED <<installed, have, made, dirty, ended, runs, faults>>

\* Mutant: with no workshop before, nothing is torn down.
EnterModuleUncleaned ==
  /\ phase = "module" /\ run.at <= Len(Modules)
  /\ IF ~run.setup \/ run.last = Workshop
     THEN phase' = "tests" /\ UNCHANGED <<todo, rest>>
     ELSE /\ phase' = "teardown" /\ rest' = {}
          /\ todo' = IF run.last = NoWorkshop THEN <<>> ELSE <<TearDown(run.last)>>
  /\ UNCHANGED <<installed, have, run, made, dirty, ended, runs, faults>>

\* setup_all, up to workshop_teardown: nothing to do for a workshop already
\* set up or with SKIP_SETUP; else the last workshop is torn down, or, when
\* there is none, every workshop (GLOBAL).
EnterModule ==
  /\ phase = "module" /\ run.at <= Len(Modules)
  /\ IF ~run.setup \/ run.last = Workshop
     THEN phase' = "tests" /\ UNCHANGED <<todo, rest>>
     ELSE /\ phase' = "teardown"
          /\ IF run.last = NoWorkshop
             THEN rest' = Workshops /\ todo' = <<>>
             ELSE rest' = {} /\ todo' = <<TearDown(run.last)>>
  /\ UNCHANGED <<installed, have, run, made, dirty, ended, runs, faults>>

\* workshop_teardown(None): WORKSHOPS is in the order of os.listdir.
GlobalTeardown ==
  /\ phase = "teardown" /\ todo = <<>>
  /\ \E w \in rest : rest' = rest \ {w} /\ todo' = <<TearDown(w)>>
  /\ UNCHANGED <<installed, have, run, phase, made, dirty, ended, runs, faults>>

NextModule == run' = [run EXCEPT !.at = @ + 1] /\ phase' = "module"

\* The tear-down is over: skip the module of a workshop that is not runnable
\* (_LAST_WORKSHOP keeps the workshop just torn down), or set the workshop up.
TeardownDone ==
  /\ phase = "teardown" /\ todo = <<>> /\ rest = {}
  /\ IF run.kind = "tests" /\ ~Runnable(Workshop)
     THEN NextModule /\ UNCHANGED <<todo, made>>
     ELSE /\ phase' = "setup" /\ made' = {}
          /\ todo' = <<SetUp(IF run.kind = "tests" THEN Task(Workshop, 99) ELSE run.target)>>
          /\ UNCHANGED run
  /\ UNCHANGED <<installed, have, rest, dirty, ended, runs, faults>>

NextIs(op) == todo # <<>> /\ Head(todo).op = op

\* execute_setup and execute_teardown, up to the first call of theirs.
EnterCall ==
  /\ \/ /\ NextIs("execute_setup")
        /\ todo' = SetupCalls(Head(todo).workshop, Head(todo).target) \o Tail(todo)
     \/ /\ NextIs("execute_teardown")
        /\ todo' = TeardownCalls(Head(todo).workshop) \o Tail(todo)
  /\ UNCHANGED <<installed, have, run, phase, rest, made, dirty, ended, runs, faults>>

\* The loop over the lab functions, by number (labs 10 and 11 follow 9).
NextLab ==
  /\ NextIs("labs")
  /\ LET loop == Head(todo) IN
     \/ LabsLeft(loop) = {} /\ todo' = Tail(todo)
     \/ \E n \in LabsLeft(loop) :
          /\ \A m \in LabsLeft(loop) : n <= m
          /\ todo' = <<Call("lab", loop.workshop, n, 0), [loop EXCEPT !.lab = n + 1]>> \o Tail(todo)
  /\ UNCHANGED <<installed, have, run, phase, rest, made, dirty, ended, runs, faults>>

\* A hook, a lab or a teardown is next.
Works == \E op \in {"before", "lab", "after", "teardown"} : NextIs(op)

\* It runs to its end.
CallReturns ==
  /\ Works /\ Clashes(Head(todo)) = {}
  /\ have' = (have \ UNION ToSet(Removes(Head(todo)))) \cup ToSet(Creates(Head(todo)))
  /\ made' = made \cup ToSet(Creates(Head(todo)))
  /\ todo' = Tail(todo)
  /\ UNCHANGED <<installed, run, phase, rest, dirty, ended, runs, faults>>

\* Mutant: _LAST_WORKSHOP is assigned in a finally clause.
RaisedRecording ==
  /\ made' = {}
  /\ IF run.kind = "tests" /\ phase # "final"
     THEN /\ run' = [run EXCEPT !.at = @ + 1, !.last = Workshop] /\ phase' = "module"
          /\ todo' = <<>> /\ rest' = {}
          /\ dirty' = (dirty \/ phase = "setup")
          /\ UNCHANGED ended
     ELSE End("failed") /\ UNCHANGED <<run, dirty>>

\* An exception leaves the program: the module's tests are reported as errors
\* and _LAST_WORKSHOP keeps its value; a final teardown or a reset ends.
Raised ==
  /\ made' = {}
  /\ IF run.kind = "tests" /\ phase # "final"
     THEN /\ NextModule /\ todo' = <<>> /\ rest' = {}
          /\ dirty' = (dirty \/ phase = "setup")
          /\ UNCHANGED ended
     ELSE End("failed") /\ UNCHANGED <<run, dirty>>

\* A statement of the next call raises; those before it have had their effect.
CallRaises ==
  /\ Works /\ faults < MaxFaults
  /\ LET removes == Removes(Head(todo))
         creates == Creates(Head(todo))
     IN  \/ \E k \in DOMAIN removes :
              have' = have \ UNION ToSet(SubSeq(removes, 1, k - 1))
         \/ \E k \in DOMAIN creates :
              /\ ToSet(SubSeq(creates, 1, k - 1)) \cap Exclusive \cap have = {}
              /\ have' = have \cup ToSet(SubSeq(creates, 1, k - 1))
  /\ faults' = faults + 1
  /\ Raised /\ UNCHANGED <<installed, runs>>

\* A service refuses to create what already exists, and the lab raises.
CallClashes ==
  /\ Works /\ Clashes(Head(todo)) # {}
  /\ LET creates == Creates(Head(todo)) IN
     \E k \in DOMAIN creates :
       /\ creates[k] \in Clashes(Head(todo))
       /\ \A j \in 1..(k - 1) : creates[j] \notin Clashes(Head(todo))
       /\ have' = have \cup ToSet(SubSeq(creates, 1, k - 1))
  /\ Raised /\ UNCHANGED <<installed, runs, faults>>

\* The set-up returns: a test session records the workshop, a reset is over.
SetupDone ==
  /\ phase = "setup" /\ todo = <<>>
  /\ IF run.kind = "tests"
     THEN /\ run' = [run EXCEPT !.last = Workshop] /\ phase' = "tests"
          /\ UNCHANGED <<todo, rest, ended>>
     ELSE End("reset") /\ UNCHANGED run
  /\ UNCHANGED <<installed, have, made, dirty, runs, faults>>

TestsRun ==
  /\ phase = "tests" /\ NextModule
  /\ UNCHANGED <<installed, have, todo, rest, made, dirty, ended, runs, faults>>

\* final_teardown, after the last module.
FinalTeardown ==
  /\ phase = "module" /\ run.at > Len(Modules)
  /\ IF run.teardown /\ run.last # NoWorkshop
     THEN phase' = "final" /\ todo' = <<TearDown(run.last)>> /\ UNCHANGED <<rest, ended>>
     ELSE End("tests")
  /\ UNCHANGED <<installed, have, run, made, dirty, runs, faults>>

FinalTeardownDone ==
  /\ phase = "final" /\ todo = <<>> /\ End("tests")
  /\ UNCHANGED <<installed, have, run, made, dirty, runs, faults>>

\* The program is interrupted or its host restarts.
Killed ==
  /\ phase # "idle" /\ faults < MaxFaults
  /\ faults' = faults + 1 /\ End("killed") /\ made' = {}
  /\ UNCHANGED <<installed, have, run, dirty, runs>>

Next ==
  \/ \E setup, teardown \in BOOLEAN : StartTests(setup, teardown)
  \/ \E target \in Resets : StartReset(target)
  \/ EnterModule \/ GlobalTeardown \/ TeardownDone \/ EnterCall \/ NextLab \/ CallReturns \/ CallRaises
  \/ CallClashes \/ SetupDone \/ TestsRun \/ FinalTeardown \/ FinalTeardownDone
  \/ Killed

Spec == Init /\ [][Next]_vars

-----------------------------------------------------------------------------
(* What set-ups and tear-downs amount to, by the tables alone.             *)

MadeBelow(w, target) == UNION {ToSet(Labs[w][n]) : n \in {m \in DOMAIN Labs[w] : m < target}}

MadeBy(w) == UNION {ToSet(Labs[w][n]) : n \in DOMAIN Labs[w]}

Artefacts == UNION {MadeBy(w) : w \in Workshops}

RemovedBy(w) == UNION ToSet(Teardown[w])

Removable == UNION {RemovedBy(w) : w \in Workshops}

\* The set-ups that a set-up t consists of: t and, through the workshops that are
\* runnable, its prerequisites (the least set that has t and theirs).
AllPrereqs == UNION {ToSet(Prereqs[w]) : w \in Workshops}

Complete(cluster, T) ==
  \A u \in T : RunnableOn(cluster, u.workshop) => ToSet(Prereqs[u.workshop]) \subseteq T

Reached(cluster, t) ==
  {u \in AllPrereqs \cup {t} :
     \A T \in SUBSET (AllPrereqs \cup {t}) : t \in T /\ Complete(cluster, T) => u \in T}

Tasks(cluster, t) == {u \in Reached(cluster, t) : RunnableOn(cluster, u.workshop)}

\* What a set-up leaves, and what a tear-down of the workshop removes.
Wanted(cluster, t) == UNION {MadeBelow(u.workshop, u.lab) : u \in Tasks(cluster, t)}

Undone(cluster, w) == UNION {RemovedBy(u.workshop) : u \in Tasks(cluster, Task(w, 99))}

\* What the hooks of a set-up remove.
HooksOf(w) == UNION (ToSet(Before[w]) \cup ToSet(After[w]))

Hooked(cluster, t) == UNION {HooksOf(u.workshop) : u \in Tasks(cluster, t)}

(* The contract between the framework and the workshops, which add their    *)
(* tables to it: nothing in the code checks it.                             *)

\* What a lab reads is made by earlier labs of the workshop, or by its prerequisites.
ASSUME Supplied ==
  \A cluster \in InstalledSets, w \in Workshops : RunnableOn(cluster, w) =>
    \A n \in DOMAIN Labs[w] :
      Needs(w, n) \subseteq MadeBelow(w, n) \cup UNION {Wanted(cluster, p) : p \in ToSet(Prereqs[w])}

\* No hook removes what the same set-up has made before it.
ASSUME HooksKeep ==
  \A cluster \in InstalledSets, w \in Workshops : RunnableOn(cluster, w) =>
    /\ MadeBy(w) \cap UNION ToSet(After[w]) = {}
    /\ \A i \in DOMAIN Prereqs[w] :
         /\ Wanted(cluster, Prereqs[w][i]) \cap HooksOf(w) = {}
         /\ \A j \in DOMAIN Prereqs[w] :
              i < j => Wanted(cluster, Prereqs[w][i]) \cap Hooked(cluster, Prereqs[w][j]) = {}

\* What a service refuses to create again is made once in a set-up, and what a
\* tear-down removes is made by one workshop of it.
ASSUME MadeOnce ==
  \A cluster \in InstalledSets, w \in Workshops : RunnableOn(cluster, w) =>
    /\ \A m, n \in DOMAIN Labs[w] : m # n => ToSet(Labs[w][m]) \cap ToSet(Labs[w][n]) \cap Exclusive = {}
    /\ \A i \in DOMAIN Prereqs[w] :
         /\ Wanted(cluster, Prereqs[w][i]) \cap MadeBy(w) \cap Removable = {}
         /\ \A j \in DOMAIN Prereqs[w] : i < j =>
              Wanted(cluster, Prereqs[w][i]) \cap Wanted(cluster, Prereqs[w][j]) \cap Exclusive = {}

\* A teardown removes what the workshop's labs make, except for what no teardown
\* removes; that can be made again.
ASSUME Undoable ==
  /\ \A w \in Workshops : MadeBy(w) \cap Removable \subseteq RemovedBy(w)
  /\ Exclusive \cap Artefacts \subseteq Removable

\* pytest collects the modules of a workshop, one directory, together.
ASSUME Grouped ==
  \A i, j, k \in DOMAIN Modules : i < j /\ j < k /\ Modules[i] = Modules[k] => Modules[j] = Modules[i]

-----------------------------------------------------------------------------
(* Properties.                                                             *)

\* The variables hold what their comments say.
TypeOK ==
  /\ installed \in InstalledSets
  /\ have \subseteq Artefacts /\ made \subseteq Artefacts
  /\ run.kind \in {"none", "tests", "reset"}
  /\ run.last \in Workshops \cup {NoWorkshop} /\ run.at \in 0..Len(Modules) + 1
  /\ phase \in {"idle", "module", "teardown", "setup", "tests", "final"}
  /\ \A c \in ToSet(todo) :
       c.op \in CASE phase = "setup" -> {"execute_setup", "before", "labs", "lab", "after"}
                  [] phase \in {"teardown", "final"} -> {"execute_teardown", "teardown"}
                  [] OTHER -> {}
  /\ rest \subseteq Workshops /\ dirty \in BOOLEAN
  /\ ended \in {"none", "tests", "reset", "failed", "killed"}
  /\ runs \in 0..MaxRuns /\ faults \in 0..MaxFaults

\* A lab finds everything it reads, made by earlier labs of the same set-up:
\* a target lab cuts the labs of the workshop asked for and never those of its
\* prerequisites, whose context it shares (_setup_prereqs passes lab 99).
LabsFindTheirInputs ==
  NextIs("lab") => Needs(Head(todo).workshop, Head(todo).lab) \subseteq made

\* No lab runs into something left by another program, killed or failed
\* wherever it was, nor by another workshop: unless a set-up of this very
\* session has failed, the tear-down before a set-up has removed every name the
\* labs are about to take.
NoLabMeetsLeftovers == NextIs("lab") /\ ~dirty => Clashes(Head(todo)) = {}

\* The tests of a module run on a cluster where the whole of its workshop is
\* set up (unless SKIP_SETUP says not to look): neither a failed set-up, nor a
\* workshop skipped or torn down in between, lets them run on part of it.
TestsRunPrepared ==
  phase = "tests" /\ run.setup => Wanted(installed, Task(Workshop, 99)) \subseteq have

\* The first set-up of a session starts from a cluster without a trace of
\* anything a tear-down removes, whatever crashed or failed before.
GlobalTeardownCleans ==
  [][phase = "teardown" /\ phase' = "setup" /\ run.kind = "tests" /\ run.last = NoWorkshop
       => have' \cap Removable = {}]_vars

\* A session in which a set-up succeeded and none failed, and that keeps no flow,
\* leaves nothing behind, tear-downs that failed and were tried again included.
CleanSessionLeavesNothing ==
  ended = "tests" /\ run.setup /\ run.teardown /\ ~dirty /\ run.last # NoWorkshop => have \cap Removable = {}

\* reset-to-lab.sh brings the workshop to the start of the lab asked for, from
\* any state: its prerequisites and the labs before it are there, the labs from
\* it on are undone.
ResetReachesLab ==
  LET w == run.target.workshop
      earlier == MadeBelow(w, run.target.lab)
  IN  ended = "reset" /\ Runnable(w) =>
        /\ earlier \subseteq have
        /\ \A p \in ToSet(Prereqs[w]) : Wanted(installed, p) \subseteq have
        /\ (MadeBy(w) \ earlier) \cap Removable \cap have = {}

\* "The command below will undo everything done in the cluster in previous
\* workshops" (workshop_nifi.adoc:12, of reset-to-lab.sh; workshop_fraud.adoc
\* and workshop_cdc.adoc repeat it): after a reset only what its set-up made
\* is left of the things tear-downs remove.
ResetUndoesEverything ==
  ended = "reset" /\ Runnable(run.target.workshop) =>
    have \cap Removable \subseteq Wanted(installed, run.target)
=============================================================================
