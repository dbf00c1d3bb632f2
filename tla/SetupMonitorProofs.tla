-------------------------- MODULE SetupMonitorProofs --------------------------
(***************************************************************************)
(* What check-setup-status.sh may be believed: for any number of instances, *)
(* whichever of them reboot, and however often it is interrupted.  Monitors *)
(* of one namespace share a file, so what is said of its verdict is said of *)
(* a monitor that is alone.                                                 *)
(***************************************************************************)
EXTENDS SetupMonitor, Integers, FiniteSetTheorems, FunctionTheorems, TLAPS

Alone == \A m, n \in Monitors : m = n

-----------------------------------------------------------------------------
(* The inductive invariant.                                                *)

\* A final line tells how the setup script returned, and a script returns once.
TrueOf(status, i) ==
  (status = "completed" => setup[i] = "ok") /\ (status = "failed" => setup[i] = "error")

LinesTrue == \A k \in DOMAIN file : TrueOf(file[k].status, file[k].inst)

AnswersTrue == \A m \in Monitors : At(m, "write") => TrueOf(mon[m].line, mon[m].i)

\* A round writes at most one line for an instance, in the order of the indices.
OncePerRound == \A j, k \in DOMAIN file : file[j].inst = file[k].inst => j = k

InOrder ==
  \A m \in Monitors : mon[m].at \in {"probe", "write"} =>
    \A k \in DOMAIN file : file[k].inst < mon[m].i

\* The counts a monitor has gone on with are still those of the file.
Counted ==
  \A m \in Monitors :
    /\ At(m, "completed") => Cardinality(Lines(Final)) = N
    /\ At(m, "success") => Cardinality(Lines({"completed"})) = N
    /\ At(m, "failed") /\ deployed =>
         Cardinality(Lines(Final)) = N /\ Cardinality(Lines({"completed"})) # N

RoundInv == TypeOK /\ LinesTrue /\ AnswersTrue /\ OncePerRound /\ InOrder /\ Counted

-----------------------------------------------------------------------------
(* Typing, for any number of monitors.                                     *)

StepNames == {"start", "round", "probe", "write", "valid", "settled", "completed", "success", "failed"}

LEMMA IdleTyped == Idle \in Monitor
<1>1. 1 \in Instances
  BY NAssumption DEF Instances
<1> QED
  BY <1>1 DEF Idle, Monitor

LEMMA MonitorMoves ==
  ASSUME NEW r \in Monitor, NEW a \in StepNames
  PROVE  [r EXCEPT !.at = a] \in Monitor
BY DEF Monitor, StepNames

LEMMA MonitorAnswers ==
  ASSUME NEW r \in Monitor, NEW l \in Statuses \cup {""}
  PROVE  [r EXCEPT !.at = "write", !.line = l, !.attached = TRUE] \in Monitor
BY DEF Monitor

LEMMA MonitorProceeds ==
  ASSUME NEW r \in Monitor, NEW i \in Instances
  PROVE  [r EXCEPT !.at = "probe", !.i = i] \in Monitor
BY DEF Monitor

LEMMA MonitorDetached ==
  ASSUME NEW r \in Monitor
  PROVE  [r EXCEPT !.attached = FALSE] \in Monitor
BY DEF Monitor

LEMMA TypeInit == Init => TypeOK
<1> SUFFICES ASSUME Init PROVE TypeOK
  OBVIOUS
<1>1. mon \in [Monitors -> Monitor]
  BY IdleTyped DEF Init
<1>2. file \in Seq([inst : Instances, status : Statuses])
  BY DEF Init
<1> QED
  BY <1>1, <1>2 DEF Init, TypeOK, Masters

LEMMA GotoTyped ==
  ASSUME TypeOK, NEW m \in Monitors, NEW a \in StepNames, Goto(m, a)
  PROVE  mon' \in [Monitors -> Monitor]
<1>1. mon \in [Monitors -> Monitor]
  BY DEF TypeOK
<1>2. [mon[m] EXCEPT !.at = a] \in Monitor
  BY <1>1, MonitorMoves
<1> QED
  BY <1>1, <1>2 DEF Goto

LEMMA AnswerTyped ==
  ASSUME TypeOK, NEW m \in Monitors, NEW i \in Instances
  PROVE  Answer(m, i) \in Statuses \cup {""} /\ Master(m, i) \in Masters
<1>1. setup[i] \in {"running", "ok", "error"}
  BY DEF TypeOK
<1>2. conn[m][i] \in Masters
  BY DEF TypeOK
<1>3. StatusOf(setup[i]) \in Statuses
  BY <1>1 DEF StatusOf, Statuses
<1> QED
  BY <1>2, <1>3 DEF Answer, Master, Statuses, Masters

LEMMA ProbeTyped ==
  ASSUME TypeOK, NEW m \in Monitors, Probe(m)
  PROVE  mon' \in [Monitors -> Monitor] /\ conn' \in [Monitors -> [Instances -> Masters]]
<1> DEFINE i == mon[m].i
           r == mon[m]
<1>1. mon \in [Monitors -> Monitor] /\ conn \in [Monitors -> [Instances -> Masters]]
  BY DEF TypeOK
<1>2. r \in Monitor /\ i \in Instances
  BY <1>1 DEF Monitor
<1>3. Answer(m, i) \in Statuses \cup {""} /\ Master(m, i) \in Masters
  BY <1>2, AnswerTyped
<1>4. [r EXCEPT !.at = "write", !.line = Answer(m, i), !.attached = TRUE] \in Monitor
  BY <1>2, <1>3, MonitorAnswers
<1>5. mon' = [mon EXCEPT ![m] = [r EXCEPT !.at = "write", !.line = Answer(m, i), !.attached = TRUE]]
  BY DEF Probe
<1>6. mon' \in [Monitors -> Monitor]
  BY <1>1, <1>4, <1>5
<1>7. conn' = [conn EXCEPT ![m][i] = Master(m, i)]
  BY DEF Probe
<1>8. conn' \in [Monitors -> [Instances -> Masters]]
  BY <1>1, <1>2, <1>3, <1>7
<1> QED
  BY <1>6, <1>8

LEMMA Appended == ASSUME NEW S, NEW s \in Seq(S), NEW e \in S PROVE Append(s, e) \in Seq(S)
OBVIOUS

LEMMA Successor == ASSUME NEW i \in Instances, i # N PROVE i + 1 \in Instances
BY NAssumption DEF Instances

LEMMA WriteTyped ==
  ASSUME TypeOK, NEW m \in Monitors, Write(m)
  PROVE  mon' \in [Monitors -> Monitor] /\ file' \in Seq([inst : Instances, status : Statuses])
<1> DEFINE i == mon[m].i
           l == mon[m].line
           line == [inst |-> i, status |-> l]
<1>1. mon \in [Monitors -> Monitor] /\ file \in Seq([inst : Instances, status : Statuses])
  BY DEF TypeOK
<1>2. i \in Instances /\ l \in Statuses \cup {""}
  BY <1>1 DEF Monitor
<1>3. file' = file \/ (file' = Append(file, line) /\ l # "")
  BY DEF Write
<1>4. l # "" => line \in [inst : Instances, status : Statuses]
  BY <1>2
<1>5. l # "" => Append(file, line) \in Seq([inst : Instances, status : Statuses])
  BY <1>1, <1>4, Appended
<1>6. file' \in Seq([inst : Instances, status : Statuses])
  BY <1>1, <1>3, <1>5
<1>7. [Idle EXCEPT !.at = "valid"] \in Monitor
  BY IdleTyped, MonitorMoves DEF StepNames
<1>8. i # N => [Idle EXCEPT !.at = "probe", !.i = i + 1] \in Monitor
  BY <1>2, IdleTyped, MonitorProceeds, Successor
<1>9. mon' = [mon EXCEPT ![m] = IF i = N THEN [Idle EXCEPT !.at = "valid"]
                                ELSE [Idle EXCEPT !.at = "probe", !.i = i + 1]]
  BY <1>1 DEF Write
<1>10. mon' \in [Monitors -> Monitor]
  BY <1>1, <1>7, <1>8, <1>9
<1> QED
  BY <1>6, <1>10

LEMMA RoundTyped ==
  ASSUME TypeOK, NEW m \in Monitors, BeginRound(m)
  PROVE  mon' \in [Monitors -> Monitor]
<1>1. mon \in [Monitors -> Monitor]
  BY DEF TypeOK
<1>2. [Idle EXCEPT !.at = "probe"] \in Monitor
  BY IdleTyped, MonitorMoves DEF StepNames
<1>3. \A n \in Monitors : [mon[n] EXCEPT !.attached = FALSE] \in Monitor
  BY <1>1, MonitorDetached
<1> QED
  BY <1>2, <1>3 DEF BeginRound

LEMMA TypeStep == TypeOK /\ [Next]_vars => TypeOK'
<1> SUFFICES ASSUME TypeOK, [Next]_vars PROVE TypeOK'
  OBVIOUS
<1>1. ASSUME NEW m \in Monitors, Start(m) \/ CheckValid(m) \/ CountSettled(m) \/ CountCompleted(m)
      PROVE  TypeOK'
  <2>1. \E a \in StepNames : Goto(m, a)
    BY <1>1 DEF Start, CheckValid, CountSettled, CountCompleted, StepNames
  <2>2. mon' \in [Monitors -> Monitor]
    BY <2>1, GotoTyped
  <2> QED
    BY <1>1, <2>2 DEF Start, CheckValid, CountSettled, CountCompleted, TypeOK
<1>2. ASSUME NEW m \in Monitors, BeginRound(m) PROVE TypeOK'
  <2>1. file' \in Seq([inst : Instances, status : Statuses])
    BY <1>2 DEF BeginRound
  <2> QED
    BY <1>2, <2>1, RoundTyped DEF BeginRound, TypeOK
<1>3. ASSUME NEW m \in Monitors, Probe(m) PROVE TypeOK'
  BY <1>3, ProbeTyped DEF Probe, TypeOK
<1>4. ASSUME NEW m \in Monitors, Write(m) PROVE TypeOK'
  BY <1>4, WriteTyped DEF Write, TypeOK
<1>5. ASSUME NEW m \in Monitors, Interrupt(m) PROVE TypeOK'
  <2>1. [i \in Instances |-> "none"] \in [Instances -> Masters]
    BY DEF Masters
  <2> QED
    BY <1>5, <2>1, IdleTyped DEF Interrupt, TypeOK
<1>6. ASSUME NEW m \in Monitors, NEW i \in Instances, Link(m, i) PROVE TypeOK'
  <2>1. "ready" \in Masters /\ "none" \in Masters
    BY DEF Masters
  <2>2. PICK c \in Masters : conn' = [conn EXCEPT ![m][i] = c]
    BY <1>6, <2>1 DEF Link, Connected, MasterDies
  <2>3. [conn[m] EXCEPT ![i] = c] \in [Instances -> Masters]
    BY DEF TypeOK
  <2>4. conn' \in [Monitors -> [Instances -> Masters]]
    BY <2>2, <2>3 DEF TypeOK
  <2> QED
    BY <1>6, <2>4 DEF Link, Connected, MasterDies, TypeOK
<1>7. ASSUME NEW i \in Instances, Ends(i) \/ NetUp(i) PROVE TypeOK'
  BY <1>7 DEF Ends, SetupEnds, NetUp, TypeOK
<1>8. ASSUME NEW i \in Instances, NetDown(i) PROVE TypeOK'
  <2>1. \A m \in Monitors :
          [conn[m] EXCEPT ![i] = IF @ = "ready" THEN "broken" ELSE @] \in [Instances -> Masters]
    BY DEF TypeOK, Masters
  <2>2. conn' \in [Monitors -> [Instances -> Masters]]
    BY <1>8, <2>1 DEF NetDown
  <2> QED
    BY <1>8, <2>2 DEF NetDown, TypeOK
<1>9. CASE Terminate \/ UNCHANGED vars
  BY <1>9 DEF Terminate, TypeOK, vars
<1> QED
  BY <1>1, <1>2, <1>3, <1>4, <1>5, <1>6, <1>7, <1>8, <1>9 DEF Next, Step

\* The instances, connections, monitors and their file are well typed for any
\* number of monitors and instances.
THEOREM TypeCorrect == Spec => []TypeOK
<1> QED
  BY TypeInit, TypeStep, PTL DEF Spec

-----------------------------------------------------------------------------
(* The invariant, for a monitor that is alone.                             *)

LEMMA Elements == ASSUME NEW S, NEW s \in Seq(S), NEW k \in DOMAIN s PROVE s[k] \in S
OBVIOUS

LEMMA LinesTyped ==
  ASSUME TypeOK, NEW k \in DOMAIN file
  PROVE  file[k].inst \in Instances /\ file[k].status \in Statuses
<1>1. file[k] \in [inst : Instances, status : Statuses]
  BY Elements DEF TypeOK
<1> QED
  BY <1>1

LEMMA RoundInit == Init => RoundInv
<1> SUFFICES ASSUME Init PROVE RoundInv
  OBVIOUS
<1>1. TypeOK
  BY TypeInit
<1>2. \A m \in Monitors : mon[m].at = "start"
  BY DEF Init, Idle
<1>3. DOMAIN file = {}
  BY DEF Init
<1> QED
  BY <1>1, <1>2, <1>3
  DEF RoundInv, LinesTrue, AnswersTrue, OncePerRound, InOrder, Counted, At

\* A monitor that only goes on to its next step.
LEMMA GotoStep ==
  ASSUME TypeOK, NEW m \in Monitors, NEW a \in StepNames, Goto(m, a)
  PROVE  /\ mon'[m].at = a /\ mon'[m].i = mon[m].i /\ mon'[m].line = mon[m].line
         /\ \A n \in Monitors : n # m => mon'[n] = mon[n]
<1>1. mon \in [Monitors -> Monitor]
  BY DEF TypeOK
<1>2. mon' = [mon EXCEPT ![m].at = a]
  BY DEF Goto
<1>3. mon[m] \in Monitor
  BY <1>1
<1>4. mon'[m] = [mon[m] EXCEPT !.at = a]
  BY <1>1, <1>2
<1>5. mon'[m].at = a /\ mon'[m].i = mon[m].i /\ mon'[m].line = mon[m].line
  BY <1>3, <1>4 DEF Monitor
<1> QED
  BY <1>1, <1>2, <1>5

\* What the invariant says of a file that did not change, when the monitor does
\* not go into a round and no script returns.
LEMMA SameFile ==
  ASSUME RoundInv, file' = file, setup' = setup
  PROVE  LinesTrue' /\ OncePerRound'
BY DEF RoundInv, LinesTrue, OncePerRound, TrueOf

LEMMA CountStep ==
  ASSUME RoundInv, Alone, NEW m \in Monitors,
         Start(m) \/ CheckValid(m) \/ CountSettled(m) \/ CountCompleted(m)
  PROVE  RoundInv'
<1>1. TypeOK /\ TypeOK'
  BY TypeStep DEF RoundInv, Next, Step
<1>2. PICK a \in {"round", "settled", "failed", "completed", "success"} : Goto(m, a)
  BY DEF Start, CheckValid, CountSettled, CountCompleted
<1>3. mon'[m].at = a /\ mon'[m].i = mon[m].i /\ mon'[m].line = mon[m].line
  BY <1>1, <1>2, GotoStep DEF StepNames
<1>4. file' = file /\ setup' = setup /\ deployed' = deployed
  BY DEF Start, CheckValid, CountSettled, CountCompleted
<1>5. \A n \in Monitors : n = m
  BY DEF Alone
<1>6. AnswersTrue' /\ InOrder'
  BY <1>3, <1>5 DEF AnswersTrue, InOrder, At
<1>7. Counted'
  <2>1. CASE Start(m)
    <3>1. mon'[m].at = "round"
      BY <1>1, <2>1, GotoStep DEF Start, StepNames
    <3> QED
      BY <3>1, <1>5 DEF Counted, At
  <2>2. CASE CheckValid(m)
    <3>1. mon'[m].at = IF deployed THEN "settled" ELSE "failed"
      BY <1>1, <2>2, GotoStep DEF CheckValid, StepNames
    <3> QED
      BY <3>1, <1>4, <1>5 DEF Counted, At
  <2>3. CASE CountSettled(m)
    <3>1. mon'[m].at = IF Cardinality(Lines(Final)) = N THEN "completed" ELSE "round"
      BY <1>1, <2>3, GotoStep DEF CountSettled, StepNames
    <3> QED
      BY <3>1, <1>4, <1>5 DEF Counted, At, Lines
  <2>4. CASE CountCompleted(m)
    <3>1. mon'[m].at = IF Cardinality(Lines({"completed"})) = N THEN "success" ELSE "failed"
      BY <1>1, <2>4, GotoStep DEF CountCompleted, StepNames
    <3>2. Cardinality(Lines(Final)) = N
      BY <2>4 DEF RoundInv, Counted, CountCompleted
    <3> QED
      BY <3>1, <3>2, <1>4, <1>5 DEF Counted, At, Lines
  <2> QED
    BY <2>1, <2>2, <2>3, <2>4
<1> QED
  BY <1>1, <1>4, <1>6, <1>7, SameFile DEF RoundInv

LEMMA BeginStep ==
  ASSUME RoundInv, Alone, NEW m \in Monitors, BeginRound(m)
  PROVE  RoundInv'
<1>1. TypeOK'
  BY TypeStep DEF RoundInv, Next, Step
<1>2. \A n \in Monitors : n = m
  BY DEF Alone
<1>3. mon'[m].at = "probe"
  BY DEF BeginRound, Idle
<1>4. file' = <<>> /\ DOMAIN file' = {}
  BY DEF BeginRound
<1>5. LinesTrue' /\ OncePerRound' /\ InOrder'
  BY <1>4 DEF LinesTrue, OncePerRound, InOrder
<1>6. AnswersTrue' /\ Counted'
  BY <1>2, <1>3 DEF AnswersTrue, Counted, At
<1> QED
  BY <1>1, <1>5, <1>6 DEF RoundInv

LEMMA AnswerIsTrue ==
  ASSUME TypeOK, NEW m \in Monitors, NEW i \in Instances
  PROVE  TrueOf(Answer(m, i), i)
<1>1. setup[i] \in {"running", "ok", "error"}
  BY DEF TypeOK
<1> QED
  BY <1>1 DEF TrueOf, Answer, StatusOf

LEMMA ProbeStep ==
  ASSUME RoundInv, Alone, NEW m \in Monitors, Probe(m)
  PROVE  RoundInv'
<1>1. TypeOK /\ TypeOK'
  BY TypeStep DEF RoundInv, Next, Step
<1>2. \A n \in Monitors : n = m
  BY DEF Alone
<1>3. mon[m] \in Monitor /\ mon[m].i \in Instances
  BY <1>1 DEF TypeOK, Monitor
<1>4. mon'[m] = [mon[m] EXCEPT !.at = "write", !.line = Answer(m, mon[m].i), !.attached = TRUE]
  BY <1>1 DEF Probe, TypeOK
<1>5. mon'[m].at = "write" /\ mon'[m].line = Answer(m, mon[m].i) /\ mon'[m].i = mon[m].i
  BY <1>3, <1>4 DEF Monitor
<1>6. file' = file /\ setup' = setup /\ mon[m].at = "probe"
  BY DEF Probe, At
<1>7. TrueOf(Answer(m, mon[m].i), mon[m].i)
  BY <1>1, <1>3, AnswerIsTrue
<1>8. AnswersTrue'
  BY <1>2, <1>5, <1>6, <1>7 DEF AnswersTrue, TrueOf
<1>9. InOrder'
  BY <1>2, <1>5, <1>6 DEF InOrder, RoundInv
<1>10. Counted'
  BY <1>2, <1>5 DEF Counted, At
<1> QED
  BY <1>1, <1>6, <1>8, <1>9, <1>10, SameFile DEF RoundInv

LEMMA WriteStep ==
  ASSUME RoundInv, Alone, NEW m \in Monitors, Write(m)
  PROVE  RoundInv'
<1> DEFINE i == mon[m].i
           l == mon[m].line
<1>1. TypeOK /\ TypeOK'
  BY TypeStep DEF RoundInv, Next, Step
<1>2. \A n \in Monitors : n = m
  BY DEF Alone
<1>3. i \in Instances /\ mon[m].at = "write" /\ i \in Int /\ N \in Int
  <2>1. mon[m] \in Monitor
    BY <1>1 DEF TypeOK
  <2>2. i \in Instances
    BY <2>1 DEF Monitor
  <2>3. \A j \in Instances : j \in Int
    BY DEF Instances
  <2>4. mon[m].at = "write"
    BY DEF Write, At
  <2> QED
    BY <2>2, <2>3, <2>4, NAssumption
<1>4. TrueOf(l, i) /\ \A k \in DOMAIN file : file[k].inst < i
  BY <1>3 DEF RoundInv, AnswersTrue, InOrder, At
<1>5. /\ i = N => mon'[m].at = "valid"
      /\ i # N => mon'[m].at = "probe" /\ mon'[m].i = i + 1
  BY <1>1 DEF Write, TypeOK, Idle
<1>6. AnswersTrue' /\ Counted'
  BY <1>2, <1>5 DEF AnswersTrue, Counted, At
<1>7. setup' = setup
  BY DEF Write
<1>8. \A k \in DOMAIN file : file[k].inst \in Int
  BY <1>1, LinesTyped DEF Instances
<1>9. CASE file' = file
  <2>1. InOrder'
    BY <1>2, <1>3, <1>4, <1>5, <1>8, <1>9 DEF InOrder
  <2> QED
    BY <1>1, <1>6, <1>7, <1>9, <2>1, SameFile DEF RoundInv
<1>10. CASE file' = Append(file, [inst |-> i, status |-> l])
  <2> DEFINE K == Len(file) + 1
  <2>1. /\ DOMAIN file' = DOMAIN file \cup {K}
        /\ \A k \in DOMAIN file : file'[k] = file[k]
        /\ K \notin DOMAIN file
        /\ file'[K].inst = i /\ file'[K].status = l
    BY <1>1, <1>10 DEF TypeOK
  <2> HIDE DEF K
  <2>2. LinesTrue'
    BY <2>1, <1>4, <1>7 DEF LinesTrue, TrueOf, RoundInv
  <2>3. \A k \in DOMAIN file : file[k].inst # i
    BY <1>3, <1>4, <1>8
  <2>4. OncePerRound'
    BY <2>1, <2>3 DEF OncePerRound, RoundInv
  <2>5. InOrder'
    BY <2>1, <1>2, <1>3, <1>4, <1>5, <1>8 DEF InOrder
  <2> QED
    BY <1>1, <1>6, <2>2, <2>4, <2>5 DEF RoundInv
<1> QED
  BY <1>9, <1>10 DEF Write

LEMMA InterruptStep ==
  ASSUME RoundInv, Alone, NEW m \in Monitors, Interrupt(m)
  PROVE  RoundInv'
<1>1. TypeOK /\ TypeOK'
  BY TypeStep DEF RoundInv, Next
<1>2. \A n \in Monitors : n = m
  BY DEF Alone
<1>3. mon'[m].at = "start" /\ file' = file /\ setup' = setup
  BY <1>1 DEF Interrupt, TypeOK, Idle
<1>4. AnswersTrue' /\ InOrder' /\ Counted'
  BY <1>2, <1>3 DEF AnswersTrue, InOrder, Counted, At
<1> QED
  BY <1>1, <1>3, <1>4, SameFile DEF RoundInv

\* Everything else leaves the monitors and their file alone: a script returns
\* once, and a deployment that has been taken away does not come back.
LEMMA WorldStep ==
  ASSUME RoundInv, [Next]_vars, UNCHANGED <<file, mon>>, deployed' => deployed,
         \A i \in Instances : setup'[i] = setup[i] \/ setup[i] = "running"
  PROVE  RoundInv'
<1>1. TypeOK /\ TypeOK'
  BY TypeStep DEF RoundInv
<1>2. \A k \in DOMAIN file : file[k].inst \in Instances
  BY <1>1, LinesTyped
<1>3. \A m \in Monitors : mon[m].i \in Instances
  BY <1>1 DEF TypeOK, Monitor
<1>4. \A i \in Instances : setup[i] \in {"ok", "error"} => setup'[i] = setup[i]
  OBVIOUS
<1>5. LinesTrue'
  BY <1>2, <1>4 DEF LinesTrue, TrueOf, RoundInv
<1>6. AnswersTrue'
  BY <1>3, <1>4 DEF AnswersTrue, TrueOf, RoundInv, At
<1>7. OncePerRound' /\ InOrder' /\ Counted'
  BY DEF OncePerRound, InOrder, Counted, At, Lines, RoundInv
<1> QED
  BY <1>1, <1>5, <1>6, <1>7 DEF RoundInv

LEMMA RoundStep == Alone /\ RoundInv /\ [Next]_vars => RoundInv'
<1> SUFFICES ASSUME Alone, RoundInv, [Next]_vars PROVE RoundInv'
  OBVIOUS
<1>1. ASSUME NEW m \in Monitors, Step(m) \/ Interrupt(m) PROVE RoundInv'
  BY <1>1, CountStep, BeginStep, ProbeStep, WriteStep, InterruptStep DEF Step
<1>2. ASSUME NEW m \in Monitors, NEW i \in Instances, Link(m, i) PROVE RoundInv'
  <2>1. UNCHANGED <<file, mon, setup, deployed>>
    BY <1>2 DEF Link, Connected, MasterDies
  <2> QED
    BY <2>1, WorldStep
<1>3. ASSUME NEW i \in Instances, Ends(i) PROVE RoundInv'
  <2>1. UNCHANGED <<file, mon, deployed>> /\ setup[i] = "running"
    BY <1>3 DEF Ends, SetupEnds
  <2>2. \A j \in Instances : setup'[j] = setup[j] \/ setup[j] = "running"
    BY <1>3 DEF Ends, SetupEnds, RoundInv, TypeOK
  <2> QED
    BY <2>1, <2>2, WorldStep
<1>4. ASSUME NEW i \in Instances, NetDown(i) \/ NetUp(i) PROVE RoundInv'
  <2>1. UNCHANGED <<file, mon, setup, deployed>>
    BY <1>4 DEF NetDown, NetUp
  <2> QED
    BY <2>1, WorldStep
<1>5. CASE Terminate \/ UNCHANGED vars
  <2>1. UNCHANGED <<file, mon, setup>> /\ (deployed' => deployed)
    BY <1>5 DEF Terminate, vars
  <2> QED
    BY <2>1, WorldStep
<1> QED
  BY <1>1, <1>2, <1>3, <1>4, <1>5 DEF Next

-----------------------------------------------------------------------------
(* What the verdict is worth.                                              *)

\* N final lines, one for an instance: every instance has one.
LEMMA EveryInstanceHasALine ==
  ASSUME TypeOK, OncePerRound, NEW ss, Cardinality(Lines(ss)) = N, NEW i \in Instances
  PROVE  \E k \in Lines(ss) : file[k].inst = i
<1> DEFINE f == [k \in Lines(ss) |-> file[k].inst]
<1>1. \A k \in Lines(ss) : k \in DOMAIN file /\ file[k].inst \in Instances
  BY LinesTyped DEF Lines
<1>2. f \in [Lines(ss) -> Instances]
  BY <1>1
<1>3. \A j, k \in Lines(ss) : f[j] = f[k] => j = k
  BY <1>1 DEF OncePerRound
<1>4. f \in Injection(Lines(ss), Instances)
  BY <1>2, <1>3, Fun_IsInj
<1>5. IsFiniteSet(Instances) /\ Cardinality(Instances) = N
  BY FS_Interval, NAssumption DEF Instances
<1>6. f \in Surjection(Lines(ss), Instances)
  BY <1>4, <1>5, FS_Injection
<1>7. \E k \in Lines(ss) : f[k] = i
  BY <1>6, Fun_SurjectionProperties
<1> QED
  BY <1>7

LEMMA RoundInvariant == ASSUME Alone PROVE Spec => []RoundInv
BY RoundInit, RoundStep, PTL DEF Spec

\* launch.sh is told of success only when every setup script returned 0: for any
\* number of instances, of reboots and of interruptions of the one monitor.
THEOREM SuccessCanBeBelieved == ASSUME Alone PROVE Spec => []SuccessIsTrue
<1>1. RoundInv => SuccessIsTrue
  <2> SUFFICES ASSUME RoundInv, NEW m \in Monitors, At(m, "success"), NEW i \in Instances
               PROVE  setup[i] = "ok"
    BY DEF SuccessIsTrue
  <2>1. PICK k \in Lines({"completed"}) : file[k].inst = i
    BY EveryInstanceHasALine DEF RoundInv, Counted
  <2> QED
    BY <2>1 DEF RoundInv, LinesTrue, TrueOf, Lines
<1> QED
  BY <1>1, RoundInvariant, PTL

\* A deployment that is still there is not given up while a setup script is
\* running, nor when all of them returned 0.
THEOREM FailureCanBeBelieved == ASSUME Alone PROVE Spec => []FailureIsTrue
<1>1. RoundInv => FailureIsTrue
  <2> SUFFICES ASSUME RoundInv, NEW m \in Monitors, At(m, "failed"), deployed
               PROVE  /\ \A i \in Instances : setup[i] # "running"
                      /\ \E i \in Instances : setup[i] = "error"
    BY DEF FailureIsTrue
  <2>1. Cardinality(Lines(Final)) = N /\ Cardinality(Lines({"completed"})) # N
    BY DEF RoundInv, Counted
  <2>2. ASSUME NEW i \in Instances PROVE setup[i] # "running"
    <3>1. PICK k \in Lines(Final) : file[k].inst = i
      BY <2>1, EveryInstanceHasALine DEF RoundInv
    <3> QED
      BY <3>1 DEF RoundInv, LinesTrue, TrueOf, Lines, Final
  <2>3. PICK k \in Lines(Final) : file[k].status # "completed"
    BY <2>1 DEF Lines, Final
  <2>4. k \in DOMAIN file /\ file[k].status = "failed" /\ file[k].inst \in Instances
    BY <2>3, LinesTyped DEF Lines, Final, RoundInv
  <2>5. setup[file[k].inst] = "error"
    BY <2>4 DEF RoundInv, LinesTrue, TrueOf
  <2> QED
    BY <2>2, <2>4, <2>5
<1> QED
  BY <1>1, RoundInvariant, PTL
=============================================================================
