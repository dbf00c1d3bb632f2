--------------------------- MODULE LabSessionProofs ---------------------------
(***************************************************************************)
(* The lab framework keeps its promises for every table of workshops that   *)
(* keeps the contract of LabSession, every cluster, and any number of       *)
(* programs, exceptions and kills.                                          *)
(***************************************************************************)
EXTENDS LabSession, Integers, TLAPS

Tasked == [workshop : Workshops, lab : Nat]

-----------------------------------------------------------------------------
(* Set-ups by the tables: a task and those of its prerequisites.           *)

LEMMA PrereqsTyped ==
  /\ \A w \in Workshops : /\ Prereqs[w] \in Seq(Tasked) /\ ToSet(Prereqs[w]) \subseteq AllPrereqs
                          /\ \A i \in DOMAIN Prereqs[w] : Prereqs[w][i] \in ToSet(Prereqs[w])
                          /\ \A p \in ToSet(Prereqs[w]) : \E i \in DOMAIN Prereqs[w] : p = Prereqs[w][i]
  /\ AllPrereqs \subseteq Tasked
<1>1. ASSUME NEW w \in Workshops
      PROVE  /\ Prereqs[w] \in Seq(Tasked) /\ ToSet(Prereqs[w]) \subseteq AllPrereqs
             /\ ToSet(Prereqs[w]) \subseteq Tasked
             /\ \A i \in DOMAIN Prereqs[w] : Prereqs[w][i] \in ToSet(Prereqs[w])
             /\ \A p \in ToSet(Prereqs[w]) : \E i \in DOMAIN Prereqs[w] : p = Prereqs[w][i]
  <2>1. Prereqs[w] \in Seq(Tasked)
    BY <1>1, WorkshopsAssumption DEF Tasked
  <2>2. ToSet(Prereqs[w]) \subseteq AllPrereqs
    BY <1>1 DEF AllPrereqs
  <2>3. /\ \A i \in DOMAIN Prereqs[w] : Prereqs[w][i] \in ToSet(Prereqs[w])
        /\ \A p \in ToSet(Prereqs[w]) : \E i \in DOMAIN Prereqs[w] : p = Prereqs[w][i]
    BY DEF ToSet
  <2>4. ToSet(Prereqs[w]) \subseteq Tasked
    BY <2>1, <2>3
  <2> QED
    BY <2>1, <2>2, <2>3, <2>4
<1> QED
  BY <1>1 DEF AllPrereqs

\* A task is reached from itself, with the prerequisites of all that is reached
\* through runnable workshops, and with all that is reached from what it reaches.
LEMMA ReachedClosed ==
  ASSUME NEW k, NEW t \in Tasked
  PROVE  /\ t \in Reached(k, t) /\ Reached(k, t) \subseteq Tasked
         /\ Complete(k, Reached(k, t))
         /\ \A p \in Reached(k, t) : Reached(k, p) \subseteq Reached(k, t)
<1> DEFINE A == AllPrereqs \cup {t}
<1>1. t \in Reached(k, t) /\ Reached(k, t) \subseteq A
  BY DEF Reached
<1>2. Reached(k, t) \subseteq Tasked
  BY <1>1, PrereqsTyped
<1>3. Complete(k, Reached(k, t))
  <2> SUFFICES ASSUME NEW u \in Reached(k, t), RunnableOn(k, u.workshop),
                      NEW q \in ToSet(Prereqs[u.workshop])
               PROVE  q \in Reached(k, t)
    BY DEF Complete
  <2>1. u.workshop \in Workshops
    BY <1>2 DEF Tasked
  <2>2. q \in A
    BY <2>1, PrereqsTyped
  <2>3. ASSUME NEW T \in SUBSET A, t \in T, Complete(k, T)
        PROVE  q \in T
    <3>1. u \in T
      BY <2>3 DEF Reached
    <3> QED
      BY <2>3, <3>1 DEF Complete
  <2> QED
    BY <2>2, <2>3 DEF Reached
<1>4. ASSUME NEW p \in Reached(k, t), NEW u \in Reached(k, p)
      PROVE  u \in Reached(k, t)
  <2> DEFINE T == Reached(k, t) \cap (AllPrereqs \cup {p})
  <2>1. T \in SUBSET (AllPrereqs \cup {p}) /\ p \in T
    BY <1>4
  <2>2. Complete(k, T)
    <3> SUFFICES ASSUME NEW v \in T, RunnableOn(k, v.workshop), NEW q \in ToSet(Prereqs[v.workshop])
                 PROVE  q \in T
      BY DEF Complete
    <3>1. v.workshop \in Workshops
      BY <1>2 DEF Tasked
    <3>2. q \in AllPrereqs
      BY <3>1, PrereqsTyped
    <3>3. q \in Reached(k, t)
      BY <1>3 DEF Complete
    <3> QED
      BY <3>2, <3>3
  <2>3. u \in T
    <3> HIDE DEF T
    <3> QED
      BY <1>4, <2>1, <2>2 DEF Reached
  <2> QED
    BY <2>3
<1> QED
  BY <1>1, <1>2, <1>3, <1>4

\* The tasks of a set-up: its own and those of its prerequisites, or none.
LEMMA TasksUnfold ==
  ASSUME NEW k, NEW t \in Tasked
  PROVE  /\ Tasks(k, t) \subseteq Tasked
         /\ ~RunnableOn(k, t.workshop) => Tasks(k, t) = {}
         /\ RunnableOn(k, t.workshop) =>
              Tasks(k, t) = {t} \cup UNION {Tasks(k, p) : p \in ToSet(Prereqs[t.workshop])}
<1> DEFINE ps == ToSet(Prereqs[t.workshop])
<1>1. t.workshop \in Workshops
  BY DEF Tasked
<1>2. ps \subseteq AllPrereqs /\ ps \subseteq Tasked
  BY <1>1, PrereqsTyped
<1>3. Tasks(k, t) \subseteq Tasked
  BY ReachedClosed DEF Tasks
<1>4. ASSUME ~RunnableOn(k, t.workshop) PROVE Tasks(k, t) = {}
  <2>1. {t} \in SUBSET (AllPrereqs \cup {t}) /\ t \in {t} /\ Complete(k, {t})
    BY <1>4 DEF Complete
  <2>2. \A u \in Reached(k, t) : u \in {t}
    BY <2>1 DEF Reached
  <2> QED
    BY <1>4, <2>2 DEF Tasks
<1>5. ASSUME RunnableOn(k, t.workshop)
      PROVE  Tasks(k, t) = {t} \cup UNION {Tasks(k, p) : p \in ps}
  <2> DEFINE T == {t} \cup UNION {Reached(k, p) : p \in ps}
  <2>1. ps \subseteq Reached(k, t)
    BY <1>5, ReachedClosed DEF Complete
  <2>2. \A p \in ps : Reached(k, p) \subseteq Reached(k, t)
    BY <2>1, ReachedClosed
  <2>3. T \subseteq Reached(k, t)
    BY <2>2, ReachedClosed
  <2>4. T \in SUBSET (AllPrereqs \cup {t})
    BY <2>3 DEF Reached
  <2>5. Complete(k, T)
    <3> SUFFICES ASSUME NEW v \in T, RunnableOn(k, v.workshop), NEW q \in ToSet(Prereqs[v.workshop])
                 PROVE  q \in T
      BY DEF Complete
    <3>1. CASE v = t
      <4>1. q \in ps
        BY <3>1
      <4>2. q \in Reached(k, q)
        BY <4>1, <1>2, ReachedClosed
      <4> QED
        BY <4>1, <4>2
    <3>2. CASE v # t
      <4>1. PICK p \in ps : v \in Reached(k, p)
        BY <3>2
      <4>2. q \in Reached(k, p)
        BY <4>1, <1>2, ReachedClosed DEF Complete
      <4> QED
        BY <4>2
    <3> QED
      BY <3>1, <3>2
  <2>6. Reached(k, t) \subseteq T
    <3> HIDE DEF T
    <3>1. t \in T
      BY DEF T
    <3> QED
      BY <2>4, <2>5, <3>1 DEF Reached
  <2>7. Reached(k, t) = T
    BY <2>3, <2>6
  <2> QED
    BY <1>5, <2>7 DEF Tasks
<1> QED
  BY <1>3, <1>4, <1>5

LEMMA WantedUnfold ==
  ASSUME NEW k, NEW t \in Tasked
  PROVE  /\ ~RunnableOn(k, t.workshop) => Wanted(k, t) = {} /\ Hooked(k, t) = {}
         /\ RunnableOn(k, t.workshop) =>
              /\ Wanted(k, t) = MadeBelow(t.workshop, t.lab)
                                \cup UNION {Wanted(k, p) : p \in ToSet(Prereqs[t.workshop])}
              /\ Hooked(k, t) = HooksOf(t.workshop)
                                \cup UNION {Hooked(k, p) : p \in ToSet(Prereqs[t.workshop])}
<1>1. ASSUME ~RunnableOn(k, t.workshop) PROVE Wanted(k, t) = {} /\ Hooked(k, t) = {}
  BY <1>1, TasksUnfold DEF Wanted, Hooked
<1>2. ASSUME RunnableOn(k, t.workshop)
      PROVE  Wanted(k, t) = MadeBelow(t.workshop, t.lab)
                            \cup UNION {Wanted(k, p) : p \in ToSet(Prereqs[t.workshop])}
  BY <1>2, TasksUnfold DEF Wanted
<1>3. ASSUME RunnableOn(k, t.workshop)
      PROVE  Hooked(k, t) = HooksOf(t.workshop)
                            \cup UNION {Hooked(k, p) : p \in ToSet(Prereqs[t.workshop])}
  BY <1>3, TasksUnfold DEF Hooked
<1> QED
  BY <1>1, <1>2, <1>3

\* What is removed with a workshop does not depend on the lab.
LEMMA UndoneUnfold ==
  ASSUME NEW k, NEW w \in Workshops
  PROVE  /\ ~RunnableOn(k, w) => Undone(k, w) = {}
         /\ RunnableOn(k, w) =>
              Undone(k, w) = RemovedBy(w) \cup UNION {Undone(k, p.workshop) : p \in ToSet(Prereqs[w])}
<1> DEFINE Gone(t) == UNION {RemovedBy(u.workshop) : u \in Tasks(k, t)}
<1>1. Task(w, 99) \in Tasked /\ Task(w, 99).workshop = w
  BY DEF Task, Tasked
<1>2. ASSUME ~RunnableOn(k, w) PROVE Undone(k, w) = {}
  BY <1>1, <1>2, TasksUnfold DEF Undone
<1>3. ASSUME NEW t \in Tasked, RunnableOn(k, t.workshop)
      PROVE  Gone(t) = RemovedBy(t.workshop) \cup UNION {Gone(p) : p \in ToSet(Prereqs[t.workshop])}
  BY <1>3, TasksUnfold
<1>4. ASSUME NEW p \in Tasked PROVE Gone(p) = Undone(k, p.workshop)
  <2> DEFINE q == Task(p.workshop, 99)
  <2>1. q \in Tasked /\ q.workshop = p.workshop
    BY <1>4 DEF Task, Tasked
  <2>2. CASE ~RunnableOn(k, p.workshop)
    BY <1>4, <2>1, <2>2, TasksUnfold DEF Undone
  <2>3. CASE RunnableOn(k, p.workshop)
    <3>1. Gone(p) = RemovedBy(p.workshop) \cup UNION {Gone(r) : r \in ToSet(Prereqs[p.workshop])}
      BY <1>3, <1>4, <2>3
    <3>2. Gone(q) = RemovedBy(p.workshop) \cup UNION {Gone(r) : r \in ToSet(Prereqs[p.workshop])}
      BY <1>3, <2>1, <2>3
    <3>3. Undone(k, p.workshop) = Gone(q)
      BY DEF Undone
    <3> QED
      BY <3>1, <3>2, <3>3
  <2> QED
    BY <2>2, <2>3
<1>5. ASSUME RunnableOn(k, w)
      PROVE  Undone(k, w) = RemovedBy(w) \cup UNION {Undone(k, p.workshop) : p \in ToSet(Prereqs[w])}
  <2>1. Undone(k, w) = Gone(Task(w, 99))
    BY DEF Undone
  <2>2. Gone(Task(w, 99)) = RemovedBy(w) \cup UNION {Gone(p) : p \in ToSet(Prereqs[w])}
    BY <1>1, <1>3, <1>5
  <2>3. ToSet(Prereqs[w]) \subseteq Tasked
    BY PrereqsTyped
  <2>4. \A p \in ToSet(Prereqs[w]) : Gone(p) = Undone(k, p.workshop)
    BY <1>4, <2>3
  <2> HIDE DEF Gone
  <2> QED
    BY <2>1, <2>2, <2>4
<1> QED
  BY <1>2, <1>5

\* A set-up makes artefacts of runnable workshops; of what can be removed, a
\* tear-down of the workshop removes all of it.
LEMMA WantedUndone ==
  ASSUME NEW k, NEW t \in Tasked
  PROVE  /\ Wanted(k, t) \subseteq Artefacts
         /\ Wanted(k, t) \cap Removable \subseteq Undone(k, t.workshop)
         /\ Undone(k, t.workshop) \subseteq Removable
<1>1. \A w \in Workshops, n \in Nat : MadeBelow(w, n) \subseteq MadeBy(w)
  BY DEF MadeBelow, MadeBy
<1>2. ASSUME NEW u \in Tasked PROVE Wanted(k, u) \subseteq Artefacts
  <2>1. Tasks(k, u) \subseteq Tasked
    BY <1>2, TasksUnfold
  <2> QED
    BY <1>1, <2>1 DEF Wanted, Artefacts, Tasked
<1>3. Undone(k, t.workshop) \subseteq Removable
  <2>1. Task(t.workshop, 99) \in Tasked
    BY DEF Task, Tasked
  <2>2. Tasks(k, Task(t.workshop, 99)) \subseteq Tasked
    BY <2>1, TasksUnfold
  <2> QED
    BY <2>2 DEF Undone, Removable, Tasked
<1>4. Wanted(k, t) \cap Removable \subseteq Undone(k, t.workshop)
  <2> DEFINE q == Task(t.workshop, 99)
             Gone(S) == UNION {RemovedBy(u.workshop) : u \in S}
  <2>1. q \in Tasked /\ q.workshop = t.workshop /\ t.workshop \in Workshops
    BY DEF Task, Tasked
  <2>2. ASSUME NEW u \in Tasks(k, t), NEW x \in MadeBelow(u.workshop, u.lab), x \in Removable
        PROVE  x \in RemovedBy(u.workshop)
    <3>1. u.workshop \in Workshops /\ u.lab \in Nat
      BY TasksUnfold DEF Tasked
    <3>2. x \in MadeBy(u.workshop)
      BY <1>1, <2>2, <3>1
    <3> QED
      BY <2>2, <3>1, <3>2, Undoable
  <2>3. Wanted(k, t) \cap Removable \subseteq Gone(Tasks(k, t))
    BY <2>2 DEF Wanted
  <2>4. Gone(Tasks(k, t)) \subseteq Gone(Tasks(k, q))
    <3>1. CASE ~RunnableOn(k, t.workshop)
      BY <3>1, TasksUnfold
    <3>2. CASE RunnableOn(k, t.workshop)
      <4> DEFINE Below == UNION {Tasks(k, p) : p \in ToSet(Prereqs[t.workshop])}
      <4>1. Tasks(k, t) = {t} \cup Below /\ Tasks(k, q) = {q} \cup Below
        BY <2>1, <3>2, TasksUnfold
      <4> HIDE DEF Below, q
      <4> QED
        BY <2>1, <4>1
    <3> QED
      BY <3>1, <3>2
  <2>5. Undone(k, t.workshop) = Gone(Tasks(k, q))
    BY DEF Undone
  <2> HIDE DEF Gone
  <2> QED
    BY <2>3, <2>4, <2>5
<1> QED
  BY <1>2, <1>3, <1>4

-----------------------------------------------------------------------------
(* The stack of calls.  Each has something it will still make, something    *)
(* that hooks of its may remove, and something that it will undo.           *)

SetupOps == {"execute_setup", "before", "labs", "lab", "after"}
TeardownOps == {"execute_teardown", "teardown"}

Calls == [op : SetupOps \cup TeardownOps, workshop : Workshops, lab : Nat, target : Nat]

Promise(k, c) ==
  CASE c.op = "execute_setup" -> Wanted(k, Task(c.workshop, c.target))
    [] c.op = "labs"          -> UNION {ToSet(Labs[c.workshop][n]) : n \in LabsLeft(c)}
    [] c.op = "lab"           -> ToSet(Labs[c.workshop][c.lab])
    [] OTHER                  -> {}

Hooks(k, c) ==
  CASE c.op = "execute_setup" -> Hooked(k, Task(c.workshop, c.target))
    [] c.op = "before"        -> UNION ToSet(Before[c.workshop])
    [] c.op = "after"         -> UNION ToSet(After[c.workshop])
    [] OTHER                  -> {}

Undoes(k, c) ==
  CASE c.op = "execute_teardown" -> Undone(k, c.workshop)
    [] c.op = "teardown"         -> RemovedBy(c.workshop)
    [] OTHER                     -> {}

Promised(k, s) == UNION {Promise(k, s[i]) : i \in DOMAIN s}
PromisedBefore(k, s, i) == UNION {Promise(k, s[j]) : j \in 1..(i - 1)}
HooksLeft(k, s) == UNION {Hooks(k, s[i]) : i \in DOMAIN s}
Undoing(k, s) == UNION {Undoes(k, s[i]) : i \in DOMAIN s}

\* Every statement to come belongs to a workshop that the cluster can run.
WellPlaced(k, c) ==
  /\ c.op \notin {"execute_setup", "execute_teardown"} => RunnableOn(k, c.workshop)
  /\ c.op = "lab" => c.lab \in DOMAIN Labs[c.workshop]

\* No hook to come removes what the calls before it make, and no call makes
\* again what can be made only once.
Ordered(k, s) ==
  \A i, j \in DOMAIN s : i < j =>
    /\ Promise(k, s[i]) \cap Hooks(k, s[j]) = {}
    /\ Promise(k, s[i]) \cap Promise(k, s[j]) \cap Exclusive = {}

\* A call finds what its labs read: made already (m), or by the calls before it.
Fed(k, m, s, i) ==
  /\ s[i].op = "lab" => Needs(s[i].workshop, s[i].lab) \subseteq m \cup PromisedBefore(k, s, i)
  /\ s[i].op = "labs" => \A n \in LabsLeft(s[i]) :
       Needs(s[i].workshop, n) \subseteq
         m \cup PromisedBefore(k, s, i)
           \cup UNION {ToSet(Labs[s[i].workshop][l]) : l \in {l \in LabsLeft(s[i]) : l < n}}

\* The stack s builds the task t: what is not made yet is promised, and what has
\* been made (and is in h) no hook removes any more.
Builds(k, m, h, s, t) ==
  /\ Promised(k, s) \subseteq Wanted(k, t)
  /\ Wanted(k, t) \subseteq Promised(k, s) \cup (h \ HooksLeft(k, s))
  /\ Ordered(k, s)
  /\ \A i \in DOMAIN s : Fed(k, m, s, i)

LEMMA Joined ==
  ASSUME NEW S, NEW s \in Seq(S), NEW t \in Seq(S)
  PROVE  /\ s \o t \in Seq(S) /\ Len(s \o t) = Len(s) + Len(t)
         /\ \A i \in 1..(Len(s) + Len(t)) :
              (s \o t)[i] = IF i <= Len(s) THEN s[i] ELSE t[i - Len(s)]
OBVIOUS

\* Taking the first call off the stack.
LEMMA Popped ==
  ASSUME NEW S, NEW s \in Seq(S), s # <<>>
  PROVE  /\ Len(s) \in Nat \ {0} /\ DOMAIN s = 1..Len(s) /\ Head(s) = s[1] /\ Head(s) \in S
         /\ Tail(s) \in Seq(S) /\ Len(Tail(s)) = Len(s) - 1 /\ DOMAIN Tail(s) = 1..(Len(s) - 1)
         /\ \A i \in 1..(Len(s) - 1) : Tail(s)[i] = s[i + 1]
OBVIOUS

\* A call replaced by its own calls.
LEMMA Replaced ==
  ASSUME NEW s \in Seq(Calls), s # <<>>, NEW new \in Seq(Calls)
  PROVE  /\ new \o Tail(s) \in Seq(Calls)
         /\ DOMAIN (new \o Tail(s)) = 1..(Len(new) + Len(s) - 1)
         /\ DOMAIN new = 1..Len(new) /\ Len(new) \in Nat
         /\ \A i \in 1..Len(new) : (new \o Tail(s))[i] = new[i]
         /\ \A i \in (Len(new) + 1)..(Len(new) + Len(s) - 1) :
              (new \o Tail(s))[i] = s[i - Len(new) + 1] /\ i - Len(new) + 1 \in 2..Len(s)
<1> DEFINE r == new \o Tail(s)
<1>1. /\ Len(s) \in Nat \ {0} /\ Tail(s) \in Seq(Calls) /\ Len(Tail(s)) = Len(s) - 1
      /\ \A i \in 1..(Len(s) - 1) : Tail(s)[i] = s[i + 1]
  BY Popped
<1>2. /\ r \in Seq(Calls) /\ Len(r) = Len(new) + Len(Tail(s))
      /\ \A i \in 1..(Len(new) + Len(Tail(s))) :
           r[i] = IF i <= Len(new) THEN new[i] ELSE Tail(s)[i - Len(new)]
  <2>1. Tail(s) \in Seq(Calls)
    BY <1>1
  <2> QED
    BY <2>1, Joined
<1>3. Len(new) \in Nat /\ DOMAIN new = 1..Len(new)
  OBVIOUS
<1>4. DOMAIN r = 1..Len(r)
  <2> HIDE DEF r
  <2> QED
    BY <1>2
<1> HIDE DEF r
<1>5. ASSUME NEW i \in (Len(new) + 1)..(Len(new) + Len(s) - 1)
      PROVE  r[i] = s[i - Len(new) + 1] /\ i - Len(new) + 1 \in 2..Len(s)
  <2>1. i \in 1..(Len(new) + Len(Tail(s))) /\ ~(i <= Len(new)) /\ i - Len(new) \in 1..(Len(s) - 1)
    BY <1>1, <1>3, <1>5
  <2> QED
    BY <1>1, <1>2, <1>3, <2>1
<1>6. \A i \in 1..Len(new) : r[i] = new[i]
  BY <1>1, <1>2, <1>3
<1> QED
  BY <1>1, <1>2, <1>3, <1>4, <1>5, <1>6 DEF r

\* The calls of the new stack, each with the place it comes from.
LEMMA FromStack ==
  ASSUME NEW s \in Seq(Calls), s # <<>>, NEW new \in Seq(Calls), NEW i \in DOMAIN (new \o Tail(s))
  PROVE  \/ i \in DOMAIN new /\ (new \o Tail(s))[i] = new[i]
         \/ /\ i > Len(new) /\ i - Len(new) + 1 \in DOMAIN s /\ i - Len(new) + 1 > 1
            /\ (new \o Tail(s))[i] = s[i - Len(new) + 1]
<1>1. DOMAIN s = 1..Len(s) /\ Len(s) \in Nat
  OBVIOUS
<1>2. CASE i \in 1..Len(new)
  BY <1>2, Replaced
<1>3. CASE i \in (Len(new) + 1)..(Len(new) + Len(s) - 1)
  <2>1. Len(new) \in Nat
    OBVIOUS
  <2> QED
    BY <1>1, <1>3, <2>1, Replaced
<1> QED
  BY <1>1, <1>2, <1>3, Replaced

\* What a stack promises, may remove and undoes: that of its first call and of
\* the others.
LEMMA UnionsPop ==
  ASSUME NEW k, NEW s \in Seq(Calls), s # <<>>
  PROVE  /\ Promised(k, s) = Promise(k, Head(s)) \cup Promised(k, Tail(s))
         /\ HooksLeft(k, s) = Hooks(k, Head(s)) \cup HooksLeft(k, Tail(s))
         /\ Undoing(k, s) = Undoes(k, Head(s)) \cup Undoing(k, Tail(s))
<1>1. /\ DOMAIN s = {1} \cup {i + 1 : i \in DOMAIN Tail(s)}
      /\ Head(s) = s[1] /\ \A i \in DOMAIN Tail(s) : Tail(s)[i] = s[i + 1]
  <2>1. /\ Len(s) \in Nat \ {0} /\ DOMAIN s = 1..Len(s) /\ Head(s) = s[1]
        /\ DOMAIN Tail(s) = 1..(Len(s) - 1) /\ \A i \in 1..(Len(s) - 1) : Tail(s)[i] = s[i + 1]
    BY Popped
  <2>2. ASSUME NEW i \in DOMAIN s, i # 1 PROVE \E j \in DOMAIN Tail(s) : i = j + 1
    <3>1. i - 1 \in DOMAIN Tail(s) /\ i = (i - 1) + 1
      BY <2>1, <2>2
    <3> QED
      BY <3>1
  <2>3. 1 \in DOMAIN s /\ \A j \in DOMAIN Tail(s) : j + 1 \in DOMAIN s
    BY <2>1
  <2> QED
    BY <2>1, <2>2, <2>3
<1>2. Promised(k, s) = Promise(k, Head(s)) \cup Promised(k, Tail(s))
  BY <1>1 DEF Promised
<1>3. HooksLeft(k, s) = Hooks(k, Head(s)) \cup HooksLeft(k, Tail(s))
  BY <1>1 DEF HooksLeft
<1>4. Undoing(k, s) = Undoes(k, Head(s)) \cup Undoing(k, Tail(s))
  BY <1>1 DEF Undoing
<1> QED
  BY <1>2, <1>3, <1>4

LEMMA UnionsReplace ==
  ASSUME NEW k, NEW s \in Seq(Calls), s # <<>>, NEW new \in Seq(Calls)
  PROVE  /\ Promised(k, new \o Tail(s)) = Promised(k, new) \cup Promised(k, Tail(s))
         /\ HooksLeft(k, new \o Tail(s)) = HooksLeft(k, new) \cup HooksLeft(k, Tail(s))
         /\ Undoing(k, new \o Tail(s)) = Undoing(k, new) \cup Undoing(k, Tail(s))
<1> DEFINE r == new \o Tail(s)
           t == Tail(s)
<1>1. /\ DOMAIN r = DOMAIN new \cup {Len(new) + i : i \in DOMAIN t}
      /\ \A i \in DOMAIN new : r[i] = new[i]
      /\ \A i \in DOMAIN t : r[Len(new) + i] = t[i]
  <2>1. t \in Seq(Calls)
    BY Popped
  <2> HIDE DEF t
  <2>2. /\ r \in Seq(Calls) /\ Len(r) = Len(new) + Len(t)
        /\ \A i \in 1..(Len(new) + Len(t)) : r[i] = IF i <= Len(new) THEN new[i] ELSE t[i - Len(new)]
    BY <2>1, Joined DEF t
  <2> HIDE DEF r
  <2>3. DOMAIN r = 1..Len(r) /\ DOMAIN new = 1..Len(new) /\ DOMAIN t = 1..Len(t) /\ Len(new) \in Nat /\ Len(t) \in Nat
    BY <2>1, <2>2
  <2>4. DOMAIN r = DOMAIN new \cup {Len(new) + i : i \in DOMAIN t}
    <3>1. ASSUME NEW i \in DOMAIN r, i \notin DOMAIN new PROVE \E j \in DOMAIN t : i = Len(new) + j
      <4>1. i - Len(new) \in DOMAIN t /\ i = Len(new) + (i - Len(new))
        BY <2>2, <2>3, <3>1
      <4> QED
        BY <4>1
    <3>2. DOMAIN new \subseteq DOMAIN r /\ \A j \in DOMAIN t : Len(new) + j \in DOMAIN r
      BY <2>2, <2>3
    <3> QED
      BY <3>1, <3>2
  <2>5. \A i \in DOMAIN new : r[i] = new[i]
    BY <2>2, <2>3
  <2>6. ASSUME NEW i \in DOMAIN t PROVE r[Len(new) + i] = t[i]
    BY <2>2, <2>3, <2>6
  <2> QED
    BY <2>4, <2>5, <2>6
<1> HIDE DEF r, t
<1>2. Promised(k, r) = Promised(k, new) \cup Promised(k, t)
  BY <1>1 DEF Promised
<1>3. HooksLeft(k, r) = HooksLeft(k, new) \cup HooksLeft(k, t)
  BY <1>1 DEF HooksLeft
<1>4. Undoing(k, r) = Undoing(k, new) \cup Undoing(k, t)
  BY <1>1 DEF Undoing
<1> QED
  BY <1>2, <1>3, <1>4 DEF r, t

LEMMA OrderedPop ==
  ASSUME NEW k, NEW m, NEW s \in Seq(Calls), s # <<>>, Ordered(k, s), \A i \in DOMAIN s : Fed(k, m, s, i)
  PROVE  /\ Ordered(k, Tail(s))
         /\ Promise(k, Head(s)) \cap HooksLeft(k, Tail(s)) = {}
         /\ Promise(k, Head(s)) \cap Promised(k, Tail(s)) \cap Exclusive = {}
         /\ \A i \in DOMAIN Tail(s) : Fed(k, m \cup Promise(k, Head(s)), Tail(s), i)
<1> DEFINE t == Tail(s)
           P == Promise(k, Head(s))
<1>1. /\ Len(s) \in Nat \ {0} /\ DOMAIN s = 1..Len(s) /\ Head(s) = s[1]
      /\ DOMAIN t = 1..(Len(s) - 1) /\ \A i \in 1..(Len(s) - 1) : t[i] = s[i + 1]
  BY Popped
<1> HIDE DEF t
<1>2. ASSUME NEW i \in DOMAIN t PROVE i + 1 \in DOMAIN s /\ 1 < i + 1 /\ t[i] = s[i + 1] /\ 1 \in DOMAIN s
  BY <1>1, <1>2
<1>3. Ordered(k, t)
  <2> SUFFICES ASSUME NEW i \in DOMAIN t, NEW j \in DOMAIN t, i < j
               PROVE  /\ Promise(k, t[i]) \cap Hooks(k, t[j]) = {}
                      /\ Promise(k, t[i]) \cap Promise(k, t[j]) \cap Exclusive = {}
    BY DEF Ordered
  <2>1. i + 1 < j + 1
    BY <1>1
  <2> QED
    BY <1>2, <2>1 DEF Ordered
<1>4. P \cap HooksLeft(k, t) = {} /\ P \cap Promised(k, t) \cap Exclusive = {}
  <2>1. \A i \in DOMAIN t : P \cap Hooks(k, t[i]) = {} /\ P \cap Promise(k, t[i]) \cap Exclusive = {}
    BY <1>1, <1>2 DEF Ordered
  <2> QED
    BY <2>1 DEF HooksLeft, Promised
<1>5. ASSUME NEW i \in DOMAIN t PROVE Fed(k, m \cup P, t, i)
  <2>1. PromisedBefore(k, s, i + 1) \subseteq P \cup PromisedBefore(k, t, i)
    <3> SUFFICES ASSUME NEW j \in 1..i, NEW x \in Promise(k, s[j]), x \notin P
                 PROVE  x \in PromisedBefore(k, t, i)
      BY <1>1, <1>5 DEF PromisedBefore
    <3>1. j # 1
      BY <1>1
    <3>2. j - 1 \in 1..(i - 1) /\ t[j - 1] = s[j]
      BY <1>1, <1>5, <3>1
    <3> QED
      BY <3>2 DEF PromisedBefore
  <2>2. Fed(k, m, s, i + 1) /\ t[i] = s[i + 1]
    BY <1>2, <1>5
  <2>3. m \cup PromisedBefore(k, s, i + 1) \subseteq m \cup P \cup PromisedBefore(k, t, i)
    BY <2>1
  <2> HIDE DEF P
  <2>4. t[i].op = "lab" => Needs(t[i].workshop, t[i].lab) \subseteq m \cup P \cup PromisedBefore(k, t, i)
    BY <2>2, <2>3 DEF Fed
  <2>5. ASSUME t[i].op = "labs", NEW n \in LabsLeft(t[i])
        PROVE  Needs(t[i].workshop, n) \subseteq
                 m \cup P \cup PromisedBefore(k, t, i)
                   \cup UNION {ToSet(Labs[t[i].workshop][l]) : l \in {l \in LabsLeft(t[i]) : l < n}}
    BY <2>2, <2>3, <2>5 DEF Fed
  <2> QED
    BY <2>4, <2>5 DEF Fed
<1> QED
  BY <1>3, <1>4, <1>5 DEF t

\* A call that has done its work leaves a stack that builds the same.
LEMMA BuildsWorked ==
  ASSUME NEW k, NEW m, NEW h, NEW t, NEW s \in Seq(Calls), s # <<>>, Builds(k, m, h, s, t)
  PROVE  Builds(k, m \cup Promise(k, Head(s)),
                (h \ Hooks(k, Head(s))) \cup Promise(k, Head(s)), Tail(s), t)
<1> DEFINE P == Promise(k, Head(s))
           H == Hooks(k, Head(s))
           r == Tail(s)
<1>1. /\ Promised(k, s) = P \cup Promised(k, r)
      /\ HooksLeft(k, s) = H \cup HooksLeft(k, r)
  BY UnionsPop
<1>2. /\ Ordered(k, r) /\ P \cap HooksLeft(k, r) = {}
      /\ \A i \in DOMAIN r : Fed(k, m \cup P, r, i)
  BY OrderedPop DEF Builds
<1>3. Promised(k, s) \subseteq Wanted(k, t) /\ Wanted(k, t) \subseteq Promised(k, s) \cup (h \ HooksLeft(k, s))
  BY DEF Builds
<1> HIDE DEF P, H, r
<1>4. Promised(k, r) \subseteq Wanted(k, t)
  BY <1>1, <1>3
<1>5. Wanted(k, t) \subseteq Promised(k, r) \cup (((h \ H) \cup P) \ HooksLeft(k, r))
  BY <1>1, <1>2, <1>3
<1> QED
  BY <1>2, <1>4, <1>5 DEF Builds, P, H, r

\* A call replaced by its calls, which make what it promised, builds the same.
LEMMA BuildsReplaced ==
  ASSUME NEW k, NEW m, NEW h, NEW t, NEW s \in Seq(Calls), s # <<>>, NEW new \in Seq(Calls),
         Builds(k, m, h, s, t),
         Promised(k, new) = Promise(k, Head(s)), HooksLeft(k, new) \subseteq Hooks(k, Head(s)),
         Ordered(k, new), \A i \in DOMAIN new : Fed(k, m, new, i)
  PROVE  /\ Builds(k, m, h, new \o Tail(s), t)
         /\ Promised(k, new \o Tail(s)) = Promised(k, s)
<1> DEFINE r == new \o Tail(s)
           N == Len(new)
<1>1. /\ Len(s) \in Nat \ {0} /\ DOMAIN s = 1..Len(s) /\ Head(s) = s[1] /\ 1 \in DOMAIN s
      /\ N \in Nat /\ DOMAIN new = 1..N
  BY Popped
<1>2. DOMAIN r = 1..(N + Len(s) - 1) /\ \A i \in 1..N : r[i] = new[i]
  BY Replaced
<1>3. \A i \in DOMAIN r : \/ i \in 1..N /\ r[i] = new[i]
                          \/ i > N /\ i - N + 1 \in DOMAIN s /\ i - N + 1 > 1 /\ r[i] = s[i - N + 1]
  BY <1>1, FromStack
<1>4. /\ Promised(k, r) = Promised(k, s)
      /\ HooksLeft(k, r) \subseteq HooksLeft(k, s)
  <2>1. /\ Promised(k, s) = Promise(k, Head(s)) \cup Promised(k, Tail(s))
        /\ HooksLeft(k, s) = Hooks(k, Head(s)) \cup HooksLeft(k, Tail(s))
    BY UnionsPop
  <2>2. /\ Promised(k, r) = Promised(k, new) \cup Promised(k, Tail(s))
        /\ HooksLeft(k, r) = HooksLeft(k, new) \cup HooksLeft(k, Tail(s))
    BY UnionsReplace
  <2> HIDE DEF r
  <2> QED
    BY <2>1, <2>2
<1>5. Ordered(k, s) /\ \A i \in DOMAIN s : Fed(k, m, s, i)
  BY DEF Builds
<1>6. \A i \in 1..N : Promise(k, new[i]) \subseteq Promise(k, s[1]) /\ Hooks(k, new[i]) \subseteq Hooks(k, s[1])
  BY <1>1 DEF Promised, HooksLeft
<1> HIDE DEF r, N
<1>7. Ordered(k, r)
  <2> SUFFICES ASSUME NEW i \in DOMAIN r, NEW j \in DOMAIN r, i < j
               PROVE  /\ Promise(k, r[i]) \cap Hooks(k, r[j]) = {}
                      /\ Promise(k, r[i]) \cap Promise(k, r[j]) \cap Exclusive = {}
    BY DEF Ordered
  <2>1. i \in Nat /\ j \in Nat
    BY <1>1, <1>2
  <2>2. CASE i \in 1..N /\ j \in 1..N
    <3>1. r[i] = new[i] /\ r[j] = new[j] /\ i \in DOMAIN new /\ j \in DOMAIN new
      BY <1>1, <1>2, <2>2
    <3> QED
      BY <3>1 DEF Ordered
  <2>3. CASE i \in 1..N /\ j \notin 1..N
    <3>1. r[i] = new[i] /\ j - N + 1 \in DOMAIN s /\ 1 < j - N + 1 /\ r[j] = s[j - N + 1]
      BY <1>1, <1>3, <2>1, <2>3
    <3>2. /\ Promise(k, s[1]) \cap Hooks(k, r[j]) = {}
          /\ Promise(k, s[1]) \cap Promise(k, r[j]) \cap Exclusive = {}
      BY <1>1, <1>5, <3>1 DEF Ordered
    <3>3. Promise(k, r[i]) \subseteq Promise(k, s[1])
      BY <1>6, <2>3, <3>1
    <3> QED
      BY <3>2, <3>3
  <2>4. CASE i \notin 1..N
    <3>1. j \notin 1..N
      BY <1>1, <1>2, <2>1, <2>4
    <3>2. /\ i - N + 1 \in DOMAIN s /\ r[i] = s[i - N + 1]
          /\ j - N + 1 \in DOMAIN s /\ r[j] = s[j - N + 1]
      BY <1>3, <2>4, <3>1
    <3>3. i - N + 1 < j - N + 1
      BY <1>1, <2>1
    <3> QED
      BY <1>5, <3>2, <3>3 DEF Ordered
  <2> QED
    BY <2>2, <2>3, <2>4
<1>8. ASSUME NEW i \in DOMAIN r PROVE Fed(k, m, r, i)
  <2>1. CASE i \in 1..N
    <3>1. r[i] = new[i] /\ Fed(k, m, new, i)
      BY <1>1, <1>2, <2>1
    <3>2. PromisedBefore(k, r, i) = PromisedBefore(k, new, i)
      <4>1. \A j \in 1..(i - 1) : r[j] = new[j]
        BY <1>1, <1>2, <2>1
      <4> QED
        BY <4>1 DEF PromisedBefore
    <3> QED
      BY <3>1, <3>2 DEF Fed
  <2>2. CASE i \notin 1..N
    <3> DEFINE l == i - N + 1
    <3>1. l \in DOMAIN s /\ l > 1 /\ r[i] = s[l] /\ Fed(k, m, s, l) /\ i \in Nat /\ i > N
      BY <1>1, <1>2, <1>3, <1>5, <1>8, <2>2
    <3>2. PromisedBefore(k, s, l) \subseteq PromisedBefore(k, r, i)
      <4> SUFFICES ASSUME NEW j \in 1..(l - 1), NEW x \in Promise(k, s[j])
                   PROVE  x \in PromisedBefore(k, r, i)
        BY DEF PromisedBefore
      <4>1. CASE j = 1
        <5>1. PICK n \in 1..N : x \in Promise(k, new[n])
          BY <1>1, <4>1 DEF Promised
        <5>2. n \in 1..(i - 1) /\ r[n] = new[n]
          BY <1>1, <1>2, <3>1
        <5> QED
          BY <5>1, <5>2 DEF PromisedBefore
      <4>2. CASE j # 1
        <5>1. j + N - 1 \in 1..(i - 1) /\ j + N - 1 \in DOMAIN r /\ j + N - 1 \notin 1..N
          BY <1>1, <1>2, <3>1, <4>2, <1>8
        <5>2. r[j + N - 1] = s[(j + N - 1) - N + 1]
          BY <1>3, <5>1
        <5>3. (j + N - 1) - N + 1 = j
          BY <1>1
        <5> QED
          BY <5>1, <5>2, <5>3 DEF PromisedBefore
      <4> QED
        BY <4>1, <4>2
    <3> HIDE DEF l
    <3>3. r[i].op = "lab" => Needs(r[i].workshop, r[i].lab) \subseteq m \cup PromisedBefore(k, r, i)
      BY <3>1, <3>2 DEF Fed
    <3>4. ASSUME r[i].op = "labs", NEW n \in LabsLeft(r[i])
          PROVE  Needs(r[i].workshop, n) \subseteq
                   m \cup PromisedBefore(k, r, i)
                     \cup UNION {ToSet(Labs[r[i].workshop][q]) : q \in {q \in LabsLeft(r[i]) : q < n}}
      BY <3>1, <3>2, <3>4 DEF Fed
    <3> QED
      BY <3>3, <3>4 DEF Fed
  <2> QED
    BY <2>1, <2>2
<1>9. /\ Promised(k, r) \subseteq Wanted(k, t)
      /\ Wanted(k, t) \subseteq Promised(k, r) \cup (h \ HooksLeft(k, r))
  BY <1>4 DEF Builds
<1> QED
  BY <1>4, <1>7, <1>8, <1>9 DEF Builds, r

-----------------------------------------------------------------------------
(* The calls that execute_setup, execute_teardown and the loop over the     *)
(* labs make.                                                               *)

LEMMA CallsTyped ==
  /\ \A w \in Workshops : \A n, l \in Nat : \A op \in SetupOps \cup TeardownOps :
       /\ Call(op, w, n, l) \in Calls /\ Call(op, w, n, l).op = op /\ Call(op, w, n, l).workshop = w
       /\ Call(op, w, n, l).lab = n /\ Call(op, w, n, l).target = l
  /\ \A p \in Tasked : Task(p.workshop, p.lab) = p
<1>1. ASSUME NEW w \in Workshops, NEW n \in Nat, NEW l \in Nat, NEW op \in SetupOps \cup TeardownOps
      PROVE  /\ Call(op, w, n, l) \in Calls /\ Call(op, w, n, l).op = op /\ Call(op, w, n, l).workshop = w
             /\ Call(op, w, n, l).lab = n /\ Call(op, w, n, l).target = l
  BY <1>1 DEF Call, Calls
<1>2. ASSUME NEW p \in Tasked PROVE Task(p.workshop, p.lab) = p
  BY <1>2 DEF Task, Tasked
<1> QED
  BY <1>1, <1>2

\* What the calls that stand for a task promise, may remove and undo.
LEMMA SetUpMeans ==
  ASSUME NEW k, NEW p \in Tasked
  PROVE  /\ SetUp(p) \in Calls /\ SetUp(p).op = "execute_setup"
         /\ SetUp(p).workshop = p.workshop /\ SetUp(p).target = p.lab
         /\ Promise(k, SetUp(p)) = Wanted(k, p) /\ Hooks(k, SetUp(p)) = Hooked(k, p)
<1>1. p.workshop \in Workshops /\ p.lab \in Nat /\ Task(p.workshop, p.lab) = p
  BY CallsTyped DEF Tasked
<1>2. /\ SetUp(p) \in Calls /\ SetUp(p).op = "execute_setup"
      /\ SetUp(p).workshop = p.workshop /\ SetUp(p).target = p.lab
  BY <1>1, CallsTyped DEF SetUp, SetupOps
<1> QED
  BY <1>1, <1>2 DEF Promise, Hooks

LEMMA TearDownMeans ==
  ASSUME NEW k, NEW w \in Workshops
  PROVE  /\ TearDown(w) \in Calls /\ TearDown(w).op = "execute_teardown" /\ TearDown(w).workshop = w
         /\ Undoes(k, TearDown(w)) = Undone(k, w)
<1>1. TearDown(w) \in Calls /\ TearDown(w).op = "execute_teardown" /\ TearDown(w).workshop = w
  BY CallsTyped DEF TearDown, TeardownOps
<1> QED
  BY <1>1 DEF Undoes

LEMMA SetupShape ==
  ASSUME NEW w \in Workshops, NEW n \in Nat, Runnable(w)
  PROVE  LET N == Len(Prereqs[w])
             new == SetupCalls(w, n)
         IN  /\ new \in Seq(Calls) /\ DOMAIN new = 1..(N + 3) /\ N \in Nat /\ DOMAIN Prereqs[w] = 1..N
             /\ \A i \in 1..N : new[i] = SetUp(Prereqs[w][i]) /\ Prereqs[w][i] \in Tasked
             /\ new[N + 1] = Call("before", w, 0, 0)
             /\ new[N + 2] = Call("labs", w, 0, n)
             /\ new[N + 3] = Call("after", w, 0, 0)
<1> DEFINE N == Len(Prereqs[w])
           a == [i \in DOMAIN Prereqs[w] |-> SetUp(Prereqs[w][i])]
           b == <<Call("before", w, 0, 0), Call("labs", w, 0, n), Call("after", w, 0, 0)>>
           new == SetupCalls(w, n)
<1>1. N \in Nat /\ DOMAIN Prereqs[w] = 1..N /\ \A i \in 1..N : Prereqs[w][i] \in Tasked
  <2>1. Prereqs[w] \in Seq(Tasked)
    BY PrereqsTyped
  <2> QED
    BY <2>1
<1>2. a \in Seq(Calls) /\ Len(a) = N /\ \A i \in 1..N : a[i] = SetUp(Prereqs[w][i])
  <2>1. \A i \in 1..N : SetUp(Prereqs[w][i]) \in Calls
    BY <1>1, SetUpMeans
  <2>2. a = [i \in 1..N |-> SetUp(Prereqs[w][i])]
    BY <1>1
  <2> HIDE DEF a, N
  <2> QED
    BY <1>1, <2>1, <2>2
<1>3. b \in Seq(Calls) /\ Len(b) = 3 /\ b[1] = Call("before", w, 0, 0)
      /\ b[2] = Call("labs", w, 0, n) /\ b[3] = Call("after", w, 0, 0)
  <2>1. Call("before", w, 0, 0) \in Calls /\ Call("labs", w, 0, n) \in Calls /\ Call("after", w, 0, 0) \in Calls
    BY CallsTyped DEF SetupOps
  <2> QED
    BY <2>1
<1>4. new = a \o b
  BY DEF SetupCalls
<1> HIDE DEF a, b, new, N
<1>5. /\ new \in Seq(Calls) /\ Len(new) = Len(a) + Len(b)
      /\ \A i \in 1..(Len(a) + Len(b)) : new[i] = IF i <= Len(a) THEN a[i] ELSE b[i - Len(a)]
  <2>1. a \in Seq(Calls) /\ b \in Seq(Calls)
    BY <1>2, <1>3
  <2> QED
    BY <1>4, <2>1, Joined
<1>6. \A i \in 1..(N + 3) : new[i] = IF i <= N THEN a[i] ELSE b[i - N]
  BY <1>2, <1>3, <1>5
<1>7. DOMAIN new = 1..(N + 3)
  BY <1>2, <1>3, <1>5
<1>8. \A i \in 1..N : new[i] = SetUp(Prereqs[w][i])
  BY <1>1, <1>2, <1>6
<1>9. new[N + 1] = b[1] /\ new[N + 2] = b[2] /\ new[N + 3] = b[3]
  <2>1. /\ N + 1 \in 1..(N + 3) /\ N + 2 \in 1..(N + 3) /\ N + 3 \in 1..(N + 3)
        /\ ~(N + 1 <= N) /\ ~(N + 2 <= N) /\ ~(N + 3 <= N)
        /\ (N + 1) - N = 1 /\ (N + 2) - N = 2 /\ (N + 3) - N = 3
    BY <1>1
  <2> QED
    BY <1>6, <2>1
<1> QED
  BY <1>1, <1>3, <1>5, <1>7, <1>8, <1>9 DEF new, N

LEMMA TeardownShape ==
  ASSUME NEW w \in Workshops, Runnable(w)
  PROVE  LET N == Len(Prereqs[w])
             new == TeardownCalls(w)
         IN  /\ new \in Seq(Calls) /\ DOMAIN new = 1..(N + 1) /\ N \in Nat /\ DOMAIN Prereqs[w] = 1..N
             /\ new[1] = Call("teardown", w, 0, 0)
             /\ \A i \in 1..N : /\ new[i + 1] = TearDown(Prereqs[w][i].workshop)
                                /\ Prereqs[w][i].workshop \in Workshops
<1> DEFINE N == Len(Prereqs[w])
           b == [i \in DOMAIN Prereqs[w] |-> TearDown(Prereqs[w][i].workshop)]
           a == <<Call("teardown", w, 0, 0)>>
           new == TeardownCalls(w)
<1>1. N \in Nat /\ DOMAIN Prereqs[w] = 1..N /\ \A i \in 1..N : Prereqs[w][i].workshop \in Workshops
  <2>1. Prereqs[w] \in Seq(Tasked)
    BY PrereqsTyped
  <2>2. \A t \in Tasked : t.workshop \in Workshops
    BY DEF Tasked
  <2>3. N \in Nat /\ DOMAIN Prereqs[w] = 1..N /\ \A i \in 1..N : Prereqs[w][i] \in Tasked
    BY <2>1
  <2> QED
    BY <2>2, <2>3
<1>2. b \in Seq(Calls) /\ Len(b) = N /\ \A i \in 1..N : b[i] = TearDown(Prereqs[w][i].workshop)
  <2>1. \A i \in 1..N : TearDown(Prereqs[w][i].workshop) \in Calls
    BY <1>1, TearDownMeans
  <2>2. b = [i \in 1..N |-> TearDown(Prereqs[w][i].workshop)]
    BY <1>1
  <2> HIDE DEF b, N
  <2> QED
    BY <1>1, <2>1, <2>2
<1>3. a \in Seq(Calls) /\ Len(a) = 1 /\ a[1] = Call("teardown", w, 0, 0)
  <2>1. Call("teardown", w, 0, 0) \in Calls
    BY CallsTyped DEF TeardownOps
  <2> QED
    BY <2>1
<1>4. new = a \o b
  BY DEF TeardownCalls
<1> HIDE DEF a, b, new, N
<1>5. /\ new \in Seq(Calls) /\ Len(new) = Len(a) + Len(b)
      /\ \A i \in 1..(Len(a) + Len(b)) : new[i] = IF i <= Len(a) THEN a[i] ELSE b[i - Len(a)]
  <2>1. a \in Seq(Calls) /\ b \in Seq(Calls)
    BY <1>2, <1>3
  <2> QED
    BY <1>4, <2>1, Joined
<1>6. \A i \in 1..(N + 1) : new[i] = IF i <= 1 THEN a[i] ELSE b[i - 1]
  <2>1. Len(a) = 1 /\ Len(b) = N /\ Len(a) + Len(b) = N + 1
    BY <1>1, <1>2, <1>3
  <2>2. \A i \in 1..(Len(a) + Len(b)) : new[i] = IF i <= Len(a) THEN a[i] ELSE b[i - Len(a)]
    BY <1>5
  <2> QED
    BY <2>1, <2>2
<1>7. DOMAIN new = 1..(N + 1)
  BY <1>1, <1>2, <1>3, <1>5
<1>8. ASSUME NEW i \in 1..N PROVE new[i + 1] = TearDown(Prereqs[w][i].workshop)
  <2>1. i + 1 \in 1..(N + 1) /\ ~(i + 1 <= 1) /\ (i + 1) - 1 = i
    BY <1>1
  <2>2. new[i + 1] = b[i]
    BY <1>6, <2>1
  <2> QED
    BY <1>2, <2>2
<1>9. new[1] = a[1]
  BY <1>1, <1>6
<1> QED
  BY <1>1, <1>3, <1>5, <1>7, <1>8, <1>9 DEF new, N

LEMMA Nothing ==
  ASSUME NEW k, NEW m
  PROVE  /\ <<>> \in Seq(Calls) /\ DOMAIN <<>> = {}
         /\ Promised(k, <<>>) = {} /\ HooksLeft(k, <<>>) = {} /\ Undoing(k, <<>>) = {} /\ Ordered(k, <<>>)
<1>1. <<>> \in Seq(Calls) /\ DOMAIN <<>> = {}
  OBVIOUS
<1> QED
  BY <1>1 DEF Promised, HooksLeft, Undoing, Ordered

\* execute_setup makes what its task wants, in an order in which every lab is fed.
LEMMA SetupBuilds ==
  ASSUME NEW w \in Workshops, NEW n \in Nat, NEW m, installed \in InstalledSets
  PROVE  LET new == SetupCalls(w, n)
         IN  /\ new \in Seq(Calls)
             /\ Promised(installed, new) = Wanted(installed, Task(w, n))
             /\ HooksLeft(installed, new) \subseteq Hooked(installed, Task(w, n))
             /\ Ordered(installed, new)
             /\ \A i \in DOMAIN new : /\ Fed(installed, m, new, i) /\ WellPlaced(installed, new[i])
                                      /\ new[i].op \in SetupOps
<1> DEFINE new == SetupCalls(w, n)
           k == installed
           N == Len(Prereqs[w])
           t == Task(w, n)
<1>1. t \in Tasked /\ t.workshop = w /\ t.lab = n
  BY DEF Task, Tasked
<1>2. CASE ~Runnable(w)
  <2>1. new = <<>>
    BY <1>2 DEF SetupCalls
  <2>2. Wanted(k, t) = {} /\ Hooked(k, t) = {}
    BY <1>1, <1>2, WantedUnfold DEF Runnable
  <2> HIDE DEF new, k, t
  <2> QED
    BY <2>1, <2>2, Nothing DEF new, k, t
<1>3. CASE Runnable(w)
  <2>1. /\ new \in Seq(Calls) /\ DOMAIN new = 1..(N + 3) /\ N \in Nat /\ DOMAIN Prereqs[w] = 1..N
        /\ \A i \in 1..N : new[i] = SetUp(Prereqs[w][i]) /\ Prereqs[w][i] \in Tasked
        /\ new[N + 1] = Call("before", w, 0, 0)
        /\ new[N + 2] = Call("labs", w, 0, n)
        /\ new[N + 3] = Call("after", w, 0, 0)
    BY <1>3, SetupShape
  <2>2. RunnableOn(k, w)
    BY <1>3 DEF Runnable
  <2> HIDE DEF new, k, N, t
  <2>3. ASSUME NEW i \in 1..N
        PROVE  /\ new[i].op = "execute_setup"
               /\ Promise(k, new[i]) = Wanted(k, Prereqs[w][i]) /\ Hooks(k, new[i]) = Hooked(k, Prereqs[w][i])
    BY <2>1, <2>3, SetUpMeans
  <2>4. /\ new[N + 1].op = "before" /\ new[N + 1].workshop = w
        /\ new[N + 2].op = "labs" /\ new[N + 2].workshop = w
        /\ new[N + 2].lab = 0 /\ new[N + 2].target = n
        /\ new[N + 3].op = "after" /\ new[N + 3].workshop = w
    BY <2>1, CallsTyped DEF SetupOps
  <2>5. /\ Promise(k, new[N + 1]) = {} /\ Promise(k, new[N + 3]) = {} /\ Hooks(k, new[N + 2]) = {}
        /\ Hooks(k, new[N + 1]) \subseteq HooksOf(w)
        /\ Hooks(k, new[N + 3]) = UNION ToSet(After[w]) /\ Hooks(k, new[N + 3]) \subseteq HooksOf(w)
    BY <2>4 DEF Promise, Hooks, HooksOf
  <2>6. LabsLeft(new[N + 2]) = {l \in DOMAIN Labs[w] : l < n}
    <3>1. DOMAIN Labs[w] \subseteq Nat
      BY WorkshopsAssumption
    <3> QED
      BY <2>4, <3>1 DEF LabsLeft
  <2>7. Promise(k, new[N + 2]) = MadeBelow(w, n) /\ MadeBelow(w, n) \subseteq MadeBy(w)
    BY <2>4, <2>6 DEF Promise, MadeBelow, MadeBy
  <2>8. \A i \in DOMAIN new : i \in 1..N \/ i = N + 1 \/ i = N + 2 \/ i = N + 3
    BY <2>1
  <2>9. /\ \A p \in ToSet(Prereqs[w]) : \E i \in 1..N : p = Prereqs[w][i]
        /\ \A i \in 1..N : Prereqs[w][i] \in ToSet(Prereqs[w]) /\ i \in DOMAIN Prereqs[w]
    BY <2>1, PrereqsTyped
  <2>10. Promised(k, new) = Wanted(k, t)
    <3>1. Wanted(k, t) = MadeBelow(w, n) \cup UNION {Wanted(k, p) : p \in ToSet(Prereqs[w])}
      BY <1>1, <2>2, WantedUnfold
    <3>2. UNION {Wanted(k, p) : p \in ToSet(Prereqs[w])} = UNION {Wanted(k, Prereqs[w][i]) : i \in 1..N}
      BY <2>9
    <3>3. Promised(k, new) \subseteq MadeBelow(w, n) \cup UNION {Wanted(k, Prereqs[w][i]) : i \in 1..N}
      BY <2>3, <2>5, <2>7, <2>8 DEF Promised
    <3>4. N + 2 \in DOMAIN new /\ \A i \in 1..N : i \in DOMAIN new
      BY <2>1
    <3>5. MadeBelow(w, n) \subseteq Promised(k, new)
      BY <2>7, <3>4 DEF Promised
    <3>6. UNION {Wanted(k, Prereqs[w][i]) : i \in 1..N} \subseteq Promised(k, new)
      BY <2>3, <3>4 DEF Promised
    <3> QED
      BY <3>1, <3>2, <3>3, <3>5, <3>6
  <2>11. HooksLeft(k, new) \subseteq Hooked(k, t)
    <3>1. Hooked(k, t) = HooksOf(w) \cup UNION {Hooked(k, p) : p \in ToSet(Prereqs[w])}
      BY <1>1, <2>2, WantedUnfold
    <3>2. \A i \in 1..N : Hooked(k, Prereqs[w][i]) \subseteq Hooked(k, t)
      BY <2>9, <3>1
    <3>3. \A i \in DOMAIN new : Hooks(k, new[i]) \subseteq Hooked(k, t)
      BY <2>3, <2>5, <2>8, <3>1, <3>2
    <3> QED
      BY <3>3 DEF HooksLeft
  <2>12. /\ MadeBy(w) \cap UNION ToSet(After[w]) = {}
         /\ \A i \in 1..N : /\ Wanted(k, Prereqs[w][i]) \cap HooksOf(w) = {}
                            /\ Wanted(k, Prereqs[w][i]) \cap MadeBy(w) \cap Removable = {}
         /\ \A i, j \in 1..N : i < j =>
              /\ Wanted(k, Prereqs[w][i]) \cap Hooked(k, Prereqs[w][j]) = {}
              /\ Wanted(k, Prereqs[w][i]) \cap Wanted(k, Prereqs[w][j]) \cap Exclusive = {}
    BY <2>1, <2>2, HooksKeep, MadeOnce DEF k
  <2>13. \A i \in 1..N : Wanted(k, Prereqs[w][i]) \cap MadeBy(w) \cap Exclusive = {}
    <3>1. MadeBy(w) \cap Exclusive \subseteq Removable
      BY Undoable DEF Artefacts
    <3> QED
      BY <2>12, <3>1
  <2>14. Ordered(k, new)
    <3> SUFFICES ASSUME NEW i \in DOMAIN new, NEW j \in DOMAIN new, i < j
                 PROVE  /\ Promise(k, new[i]) \cap Hooks(k, new[j]) = {}
                        /\ Promise(k, new[i]) \cap Promise(k, new[j]) \cap Exclusive = {}
      BY DEF Ordered
    <3>1. CASE i \in 1..N
      <4>1. CASE j \in 1..N
        BY <2>3, <2>12, <3>1, <4>1
      <4>2. CASE j = N + 1 \/ j = N + 3
        BY <2>3, <2>5, <2>12, <3>1, <4>2
      <4>3. CASE j = N + 2
        <5>1. Promise(k, new[j]) \subseteq MadeBy(w) /\ Hooks(k, new[j]) = {}
          BY <2>5, <2>7, <4>3
        <5> QED
          BY <2>3, <2>13, <3>1, <5>1
      <4> QED
        BY <2>8, <4>1, <4>2, <4>3
    <3>2. CASE i = N + 1 \/ i = N + 3
      BY <2>5, <3>2
    <3>3. CASE i = N + 2
      <4>1. j = N + 3
        BY <2>1, <3>3
      <4>2. Promise(k, new[j]) = {} /\ Hooks(k, new[j]) = UNION ToSet(After[w])
        BY <2>5, <4>1
      <4>3. Promise(k, new[i]) \subseteq MadeBy(w)
        BY <2>7, <3>3
      <4> QED
        BY <2>12, <4>2, <4>3
    <3> QED
      BY <2>8, <3>1, <3>2, <3>3
  <2>15. ASSUME NEW i \in DOMAIN new
         PROVE  Fed(k, m, new, i) /\ WellPlaced(k, new[i]) /\ new[i].op \in SetupOps
    <3>1. CASE i # N + 2
      <4>1. new[i].op \in {"execute_setup", "before", "after"}
        BY <2>3, <2>4, <2>8, <2>15, <3>1
      <4>2. new[i].op # "execute_setup" => new[i].workshop = w
        BY <2>3, <2>4, <2>8, <2>15, <3>1
      <4> QED
        BY <2>2, <4>1, <4>2 DEF Fed, WellPlaced, SetupOps
    <3>2. CASE i = N + 2
      <4>1. WellPlaced(k, new[i]) /\ new[i].op \in SetupOps
        BY <2>2, <2>4, <3>2 DEF WellPlaced, SetupOps
      <4>2. UNION {Wanted(k, p) : p \in ToSet(Prereqs[w])} \subseteq PromisedBefore(k, new, i)
        <5>1. \A l \in 1..N : l \in 1..(i - 1)
          BY <2>1, <3>2
        <5> QED
          BY <2>3, <2>9, <5>1 DEF PromisedBefore
      <4>3. ASSUME NEW l \in LabsLeft(new[i])
            PROVE  Needs(w, l) \subseteq
                     m \cup PromisedBefore(k, new, i)
                       \cup UNION {ToSet(Labs[w][q]) : q \in {q \in LabsLeft(new[i]) : q < l}}
        <5>1. l \in DOMAIN Labs[w] /\ l < n /\ LabsLeft(new[i]) = {q \in DOMAIN Labs[w] : q < n}
          BY <2>6, <3>2, <4>3
        <5>2. Needs(w, l) \subseteq MadeBelow(w, l) \cup UNION {Wanted(k, p) : p \in ToSet(Prereqs[w])}
          BY <2>2, <5>1, Supplied DEF k
        <5>3. \A q \in DOMAIN Labs[w] : q \in Nat
          BY WorkshopsAssumption
        <5>4. \A q \in DOMAIN Labs[w] : q < l => q \in LabsLeft(new[i])
          BY <5>1, <5>3
        <5>5. MadeBelow(w, l) \subseteq UNION {ToSet(Labs[w][q]) : q \in {q \in LabsLeft(new[i]) : q < l}}
          BY <5>4 DEF MadeBelow
        <5> QED
          BY <4>2, <5>2, <5>5
      <4> QED
        BY <2>4, <3>2, <4>1, <4>3 DEF Fed
    <3> QED
      BY <3>1, <3>2
  <2> QED
    BY <2>1, <2>10, <2>11, <2>14, <2>15 DEF k, t, new
<1> QED
  BY <1>2, <1>3

\* execute_teardown undoes what a tear-down of the workshop removes.
LEMMA TeardownUndoes ==
  ASSUME NEW w \in Workshops
  PROVE  LET new == TeardownCalls(w)
         IN  /\ new \in Seq(Calls)
             /\ Undoing(installed, new) = Undone(installed, w)
             /\ \A i \in DOMAIN new : WellPlaced(installed, new[i]) /\ new[i].op \in TeardownOps
<1> DEFINE new == TeardownCalls(w)
           k == installed
           N == Len(Prereqs[w])
<1>1. CASE ~Runnable(w)
  <2>1. new = <<>>
    BY <1>1 DEF TeardownCalls
  <2>2. Undone(k, w) = {}
    BY <1>1, UndoneUnfold DEF Runnable
  <2> HIDE DEF new, k
  <2> QED
    BY <2>1, <2>2, Nothing DEF new, k
<1>2. CASE Runnable(w)
  <2>1. /\ new \in Seq(Calls) /\ DOMAIN new = 1..(N + 1) /\ N \in Nat /\ DOMAIN Prereqs[w] = 1..N
        /\ new[1] = Call("teardown", w, 0, 0)
        /\ \A i \in 1..N : /\ new[i + 1] = TearDown(Prereqs[w][i].workshop)
                           /\ Prereqs[w][i].workshop \in Workshops
    BY <1>2, TeardownShape
  <2>2. RunnableOn(k, w)
    BY <1>2 DEF Runnable
  <2> HIDE DEF new, k, N
  <2>3. ASSUME NEW i \in 1..N
        PROVE  /\ new[i + 1].op = "execute_teardown"
               /\ Undoes(k, new[i + 1]) = Undone(k, Prereqs[w][i].workshop)
    <3>1. new[i + 1] = TearDown(Prereqs[w][i].workshop) /\ Prereqs[w][i].workshop \in Workshops
      BY <2>1, <2>3
    <3> QED
      BY <3>1, TearDownMeans
  <2>4. new[1].op = "teardown" /\ new[1].workshop = w
    <3>1. new[1] = Call("teardown", w, 0, 0)
      BY <2>1
    <3> QED
      BY <3>1 DEF Call
  <2>5. Undoes(k, new[1]) = RemovedBy(w)
    BY <2>4 DEF Undoes
  <2>6. DOMAIN new = {1} \cup {i + 1 : i \in 1..N}
    <3>1. ASSUME NEW j \in DOMAIN new, j # 1 PROVE \E i \in 1..N : j = i + 1
      <4>1. j - 1 \in 1..N /\ j = (j - 1) + 1
        BY <2>1, <3>1
      <4> QED
        BY <4>1
    <3>2. 1 \in DOMAIN new /\ \A i \in 1..N : i + 1 \in DOMAIN new
      BY <2>1
    <3> QED
      BY <3>1, <3>2
  <2>7. Undoing(k, new) = RemovedBy(w) \cup UNION {Undone(k, Prereqs[w][i].workshop) : i \in 1..N}
    BY <2>3, <2>5, <2>6 DEF Undoing
  <2>8. Undone(k, w) = RemovedBy(w) \cup UNION {Undone(k, p.workshop) : p \in ToSet(Prereqs[w])}
    BY <2>2, UndoneUnfold
  <2>9. UNION {Undone(k, p.workshop) : p \in ToSet(Prereqs[w])} =
          UNION {Undone(k, Prereqs[w][i].workshop) : i \in 1..N}
    <3>1. /\ \A i \in DOMAIN Prereqs[w] : Prereqs[w][i] \in ToSet(Prereqs[w])
          /\ \A p \in ToSet(Prereqs[w]) : \E i \in DOMAIN Prereqs[w] : p = Prereqs[w][i]
      BY PrereqsTyped
    <3>2. DOMAIN Prereqs[w] = 1..N
      BY <2>1
    <3> QED
      BY <3>1, <3>2
  <2>10. ASSUME NEW i \in DOMAIN new PROVE WellPlaced(k, new[i]) /\ new[i].op \in TeardownOps
    <3>1. CASE i = 1
      BY <2>2, <2>4, <3>1 DEF WellPlaced, TeardownOps
    <3>2. CASE i # 1
      <4>1. PICK j \in 1..N : i = j + 1
        BY <2>6, <2>10, <3>2
      <4> QED
        BY <2>3, <4>1 DEF WellPlaced, TeardownOps
    <3> QED
      BY <3>1, <3>2
  <2> QED
    BY <2>1, <2>7, <2>8, <2>9, <2>10 DEF new, k
<1> QED
  BY <1>1, <1>2

\* The loop calls the lab that is next, which is fed: no lab is left below it.
LEMMA LoopBuilds ==
  ASSUME NEW k \in InstalledSets, NEW m, NEW s \in Seq(Calls), s # <<>>, Head(s).op = "labs",
         WellPlaced(k, Head(s)), Fed(k, m, s, 1),
         NEW n \in LabsLeft(Head(s)), \A l \in LabsLeft(Head(s)) : n <= l
  PROVE  LET new == <<Call("lab", Head(s).workshop, n, 0), [Head(s) EXCEPT !.lab = n + 1]>>
         IN  /\ new \in Seq(Calls)
             /\ Promised(k, new) = Promise(k, Head(s))
             /\ HooksLeft(k, new) = {}
             /\ Undoing(k, new) = {}
             /\ Ordered(k, new)
             /\ \A i \in DOMAIN new : Fed(k, m, new, i) /\ WellPlaced(k, new[i]) /\ new[i].op \in SetupOps
<1> DEFINE c == Head(s)
           w == c.workshop
           a == Call("lab", w, n, 0)
           b == [c EXCEPT !.lab = n + 1]
           new == <<a, b>>
<1>1. c \in Calls /\ c = s[1] /\ w \in Workshops /\ c.lab \in Nat /\ c.target \in Nat
  <2>1. c \in Calls /\ c = s[1]
    BY Popped
  <2> QED
    BY <2>1 DEF Calls
<1>2. DOMAIN Labs[w] \subseteq Nat
  BY <1>1, WorkshopsAssumption
<1>3. n \in DOMAIN Labs[w] /\ n \in Nat /\ c.lab <= n /\ n < c.target
  BY <1>2 DEF LabsLeft
<1>4. a \in Calls /\ a.op = "lab" /\ a.workshop = w /\ a.lab = n
  BY <1>1, <1>3, CallsTyped DEF SetupOps
<1>5. b \in Calls /\ b.op = "labs" /\ b.workshop = w /\ b.lab = n + 1 /\ b.target = c.target
  BY <1>1, <1>3 DEF Calls
<1>6. c.op = "labs"
  OBVIOUS
<1> HIDE DEF a, b
<1>7. new \in Seq(Calls) /\ new[1] = a /\ new[2] = b /\ DOMAIN new = {1, 2}
  BY <1>4, <1>5
<1>8. LabsLeft(c) = {n} \cup LabsLeft(b) /\ n \notin LabsLeft(b)
  BY <1>1, <1>2, <1>3, <1>5 DEF LabsLeft
<1>9. /\ Promise(k, a) = ToSet(Labs[w][n]) /\ Hooks(k, a) = {} /\ Undoes(k, a) = {}
      /\ Promise(k, b) = UNION {ToSet(Labs[w][l]) : l \in LabsLeft(b)} /\ Hooks(k, b) = {} /\ Undoes(k, b) = {}
      /\ Promise(k, c) = UNION {ToSet(Labs[w][l]) : l \in LabsLeft(c)}
  BY <1>4, <1>5, <1>6 DEF Promise, Hooks, Undoes
<1> HIDE DEF new
<1>10. Promised(k, new) = Promise(k, c)
  <2>1. Promised(k, new) = Promise(k, a) \cup Promise(k, b)
    BY <1>7 DEF Promised
  <2> HIDE DEF c, w
  <2> QED
    BY <1>8, <1>9, <2>1
<1>11. HooksLeft(k, new) = {} /\ Undoing(k, new) = {}
  BY <1>7, <1>9 DEF HooksLeft, Undoing
<1>12. Ordered(k, new)
  <2>1. RunnableOn(k, w)
    BY <1>6 DEF WellPlaced
  <2>2. ASSUME NEW l \in LabsLeft(b)
        PROVE  ToSet(Labs[w][n]) \cap ToSet(Labs[w][l]) \cap Exclusive = {}
    <3>1. l \in DOMAIN Labs[w] /\ l # n
      BY <1>5, <1>8, <2>2 DEF LabsLeft
    <3> QED
      BY <1>1, <1>3, <2>1, <3>1, MadeOnce
  <2>3. Promise(k, a) \cap Promise(k, b) \cap Exclusive = {}
    BY <1>9, <2>2
  <2> SUFFICES ASSUME NEW i \in DOMAIN new, NEW j \in DOMAIN new, i < j
               PROVE  /\ Promise(k, new[i]) \cap Hooks(k, new[j]) = {}
                      /\ Promise(k, new[i]) \cap Promise(k, new[j]) \cap Exclusive = {}
    BY DEF Ordered
  <2>4. i = 1 /\ j = 2
    BY <1>7
  <2> QED
    BY <1>7, <1>9, <2>3, <2>4
<1>13. ASSUME NEW l \in LabsLeft(c)
       PROVE  Needs(w, l) \subseteq m \cup UNION {ToSet(Labs[w][q]) : q \in {q \in LabsLeft(c) : q < l}}
  <2>1. PromisedBefore(k, s, 1) = {}
    BY DEF PromisedBefore
  <2> QED
    BY <1>1, <1>6, <1>13, <2>1 DEF Fed
<1>14. Fed(k, m, new, 1)
  <2>1. {q \in LabsLeft(c) : q < n} = {}
    <3>1. \A q \in LabsLeft(c) : n <= q /\ q \in Nat
      BY <1>2 DEF LabsLeft
    <3>2. \A q \in LabsLeft(c) : ~(q < n)
      BY <1>3, <3>1
    <3> QED
      BY <3>2
  <2>2. Needs(w, n) \subseteq m
    BY <1>8, <1>13, <2>1
  <2> QED
    BY <1>4, <1>7, <2>2 DEF Fed
<1>15. Fed(k, m, new, 2)
  <2>1. Promise(k, a) \subseteq PromisedBefore(k, new, 2)
    BY <1>7 DEF PromisedBefore
  <2>2. ASSUME NEW l \in LabsLeft(b)
        PROVE  Needs(w, l) \subseteq
                 m \cup PromisedBefore(k, new, 2)
                   \cup UNION {ToSet(Labs[w][q]) : q \in {q \in LabsLeft(b) : q < l}}
    <3> SUFFICES ASSUME NEW x \in Needs(w, l), x \notin m, x \notin ToSet(Labs[w][n])
                 PROVE  x \in UNION {ToSet(Labs[w][q]) : q \in {q \in LabsLeft(b) : q < l}}
      BY <1>9, <2>1
    <3>1. PICK q \in LabsLeft(c) : q < l /\ x \in ToSet(Labs[w][q])
      BY <1>8, <1>13
    <3>2. q \in LabsLeft(b)
      BY <1>8, <3>1
    <3> QED
      BY <3>1, <3>2
  <2> QED
    BY <1>5, <1>7, <2>2 DEF Fed
<1>16. \A i \in DOMAIN new : WellPlaced(k, new[i]) /\ new[i].op \in SetupOps
  <2>1. RunnableOn(k, w)
    BY <1>6 DEF WellPlaced
  <2> QED
    BY <1>3, <1>4, <1>5, <1>7, <2>1 DEF WellPlaced, SetupOps
<1> QED
  BY <1>7, <1>10, <1>11, <1>12, <1>14, <1>15, <1>16 DEF new, a, b

\* What the statements of a call do is what it promised, or was to undo.
LEMMA WorkMeans ==
  ASSUME NEW k, NEW c \in Calls, c.op \in {"before", "lab", "after", "teardown"}
  PROVE  /\ UNION ToSet(Removes(c)) = Hooks(k, c) \cup Undoes(k, c)
         /\ ToSet(Creates(c)) = Promise(k, c)
         /\ c.op = "teardown" => Promise(k, c) = {} /\ Hooks(k, c) = {}
         /\ c.op # "teardown" => Undoes(k, c) = {}
         /\ c.op # "lab" => Promise(k, c) = {} /\ Creates(c) = <<>>
<1>1. ToSet(<<>>) = {}
  BY DEF ToSet
<1> QED
  BY <1>1 DEF Removes, Creates, Hooks, Undoes, Promise, RemovedBy

-----------------------------------------------------------------------------
(* The invariant.                                                          *)

Testing == run.kind = "tests"

RunOK ==
  /\ installed \in InstalledSets
  /\ run \in [kind : {"none", "tests", "reset"}, at : Nat, last : Workshops \cup {NoWorkshop},
              setup : BOOLEAN, teardown : BOOLEAN,
              target : [workshop : Workshops \cup {NoWorkshop}, lab : Nat]]
  /\ run.at <= Len(Modules) + 1
  /\ phase \in {"idle", "module", "teardown", "setup", "tests", "final"}
  /\ rest \subseteq Workshops /\ dirty \in BOOLEAN
  /\ ended \in {"none", "tests", "reset", "failed", "killed"}
  /\ runs \in 0..MaxRuns /\ faults \in 0..MaxFaults

StackOK ==
  /\ todo \in Seq(Calls) /\ \A i \in DOMAIN todo : WellPlaced(installed, todo[i])
  /\ phase = "setup" => \A i \in DOMAIN todo : todo[i].op \in SetupOps
  /\ phase \in {"teardown", "final"} => \A i \in DOMAIN todo : todo[i].op \in TeardownOps
  /\ phase \notin {"setup", "teardown", "final"} => todo = <<>>
  /\ phase # "teardown" => rest = {}

\* Only workshops that the cluster can run have made anything.
HaveOK ==
  /\ \A x \in have : \E w \in Workshops : Runnable(w) /\ x \in MadeBy(w)
  /\ made \subseteq Artefacts

\* Where a program stands: between two modules the last workshop set up is that
\* of an earlier module, and a workshop is not set up twice in a row.
Position ==
  /\ phase \in {"module", "tests", "final"} => Testing
  /\ phase \in {"teardown", "setup"} => run.kind \in {"tests", "reset"}
  /\ phase # "idle" => ended = "none"
  /\ phase # "idle" /\ ~Testing => ~dirty
  /\ ended = "reset" => run.kind = "reset"
  /\ run.kind = "reset" => run.target \in Tasked
  /\ phase # "idle" /\ Testing =>
       /\ run.at \in Nat \ {0}
       /\ phase \in {"teardown", "setup", "tests"} => run.at <= Len(Modules)
       /\ run.last # NoWorkshop => run.setup
       /\ phase = "final" => run.last # NoWorkshop
       /\ phase \in {"teardown", "setup"} => run.setup /\ run.last # Workshop
       /\ phase = "tests" /\ run.setup => run.last = Workshop
       /\ run.last # NoWorkshop /\ phase # "tests" =>
            \E k \in DOMAIN Modules : k < run.at /\ Modules[k] = run.last

\* What the tests of a module find, or will if the workshop is set up already.
Prepared ==
  /\ phase = "tests" /\ run.setup => Wanted(installed, Task(Workshop, 99)) \subseteq have
  /\ phase = "module" /\ run.at <= Len(Modules) /\ run.last = Workshop =>
       Wanted(installed, Task(Workshop, 99)) \subseteq have

\* While no set-up of the session has failed, all that can be removed belongs to
\* the last workshop set up.
Attributed ==
  Testing /\ ~dirty /\ run.last # NoWorkshop /\ phase \in {"module", "tests", "teardown", "final"} =>
    have \cap Removable \subseteq Undone(installed, run.last)

\* What a tear-down is for; of that, what is left is still to be undone.
Scope ==
  IF ~Testing THEN Undone(installed, run.target.workshop)
  ELSE IF run.last = NoWorkshop THEN Removable
  ELSE Undone(installed, run.last)

Removing ==
  phase \in {"teardown", "final"} =>
    have \cap Removable \cap Scope \subseteq
      Undoing(installed, todo) \cup UNION {Undone(installed, w) : w \in rest}

\* What a set-up is for, and what was gone when it started.
Target == IF Testing THEN Task(Workshop, 99) ELSE run.target
Cleared == IF Testing THEN Removable ELSE Undone(installed, run.target.workshop)

SettingUp ==
  phase = "setup" =>
    /\ Builds(installed, made, have, todo, Target)
    /\ ~dirty => /\ Promised(installed, todo) \cap Exclusive \cap have = {}
                 /\ have \cap Removable \cap Cleared \subseteq Wanted(installed, Target)

\* What a reset, and a session without failed set-ups, leave.
Finished ==
  /\ CleanSessionLeavesNothing
  /\ ended = "reset" => /\ Wanted(installed, run.target) \subseteq have
                        /\ have \cap Removable \cap Undone(installed, run.target.workshop)
                             \subseteq Wanted(installed, run.target)

IndInv == /\ RunOK /\ StackOK /\ HaveOK /\ Position /\ Prepared /\ Attributed
          /\ Removing /\ SettingUp /\ Finished

-----------------------------------------------------------------------------
(* Every step keeps the invariant.                                         *)

LEMMA ModulesTyped ==
  /\ Len(Modules) \in Nat /\ DOMAIN Modules = 1..Len(Modules)
  /\ \A i \in DOMAIN Modules : Modules[i] \in Workshops
  /\ NoWorkshop \notin Workshops
BY WorkshopsAssumption

LEMMA TaskTyped ==
  \A w \in Workshops : Task(w, 99) \in Tasked /\ Task(w, 99).workshop = w
BY DEF Task, Tasked

\* The workshop of the module, and what a set-up is for.
LEMMA Asked ==
  ASSUME RunOK, Position, phase # "idle"
  PROVE  /\ Testing /\ run.at <= Len(Modules) =>
              Workshop \in Workshops /\ Task(Workshop, 99) \in Tasked /\ Task(Workshop, 99).workshop = Workshop
         /\ phase = "setup" => Target \in Tasked
         /\ phase = "teardown" /\ (~Testing \/ run.last # NoWorkshop) => Scope \subseteq Removable
<1>1. ASSUME Testing, run.at <= Len(Modules)
      PROVE  Workshop \in Workshops /\ Task(Workshop, 99) \in Tasked /\ Task(Workshop, 99).workshop = Workshop
  <2>1. run.at \in DOMAIN Modules
    BY <1>1, ModulesTyped DEF Position, RunOK
  <2> QED
    BY <2>1, ModulesTyped, TaskTyped DEF Workshop
<1>2. ASSUME phase = "setup" PROVE Target \in Tasked
  <2>1. CASE Testing
    BY <1>1, <1>2, <2>1 DEF Position, Target
  <2>2. CASE ~Testing
    BY <1>2, <2>2 DEF Position, Target, Testing
  <2> QED
    BY <2>1, <2>2
<1>3. ASSUME phase = "teardown", ~Testing \/ run.last # NoWorkshop PROVE Scope \subseteq Removable
  <2>1. CASE ~Testing
    <3>1. run.target \in Tasked
      BY <1>3, <2>1 DEF Position, Testing
    <3> QED
      BY <2>1, <3>1, WantedUndone DEF Scope
  <2>2. CASE Testing
    <3>1. run.last \in Workshops /\ Scope = Undone(installed, run.last)
      BY <1>3, <2>2 DEF RunOK, Scope
    <3>2. Task(run.last, 99) \in Tasked /\ Task(run.last, 99).workshop = run.last
      BY <3>1, TaskTyped
    <3>3. Undone(installed, Task(run.last, 99).workshop) \subseteq Removable
      BY <3>2, WantedUndone
    <3> QED
      BY <3>1, <3>2, <3>3
  <2> QED
    BY <2>1, <2>2
<1> QED
  BY <1>1, <1>2, <1>3

LEMMA Initially == Init => IndInv
<1> SUFFICES ASSUME Init PROVE IndInv
  OBVIOUS
<1>1. /\ run.kind = "none" /\ run.at = 0 /\ run.last = NoWorkshop /\ run.setup = FALSE
      /\ run.teardown = FALSE /\ run.target = Task(NoWorkshop, 0)
  BY DEF Init, Idle
<1>2. RunOK
  <2>1. run \in [kind : {"none", "tests", "reset"}, at : Nat, last : Workshops \cup {NoWorkshop},
                 setup : BOOLEAN, teardown : BOOLEAN,
                 target : [workshop : Workshops \cup {NoWorkshop}, lab : Nat]]
    BY DEF Init, Idle, Task
  <2>2. 0 <= Len(Modules) + 1 /\ 0 \in 0..MaxRuns /\ 0 \in 0..MaxFaults
    BY ModulesTyped, WorkshopsAssumption
  <2>3. /\ installed \in InstalledSets /\ phase = "idle" /\ rest = {} /\ dirty = FALSE
        /\ ended = "none" /\ runs = 0 /\ faults = 0
    BY DEF Init
  <2> QED
    BY <1>1, <2>1, <2>2, <2>3 DEF RunOK
<1>3. StackOK
  BY DEF Init, StackOK
<1> QED
  BY <1>1, <1>2, <1>3 DEF Init, IndInv, HaveOK, Position, Prepared, Attributed, Removing, SettingUp,
     Finished, CleanSessionLeavesNothing, Testing

LEMMA StartTestsKeeps ==
  ASSUME IndInv, NEW setup \in BOOLEAN, NEW teardown \in BOOLEAN, StartTests(setup, teardown)
  PROVE  IndInv'
<1>1. /\ run'.kind = "tests" /\ run'.at = 1 /\ run'.last = NoWorkshop /\ run'.setup = setup
      /\ run'.teardown = teardown /\ run'.target = Task(NoWorkshop, 0)
  BY DEF StartTests, Idle
<1>2. /\ phase = "idle" /\ phase' = "module" /\ ended' = "none" /\ dirty' = FALSE /\ made' = {}
      /\ runs < MaxRuns /\ runs' = runs + 1
      /\ installed' = installed /\ have' = have /\ todo' = todo /\ rest' = rest /\ faults' = faults
  BY DEF StartTests
<1>3. RunOK'
  <2>1. run' \in [kind : {"none", "tests", "reset"}, at : Nat, last : Workshops \cup {NoWorkshop},
                 setup : BOOLEAN, teardown : BOOLEAN,
                 target : [workshop : Workshops \cup {NoWorkshop}, lab : Nat]]
    BY DEF StartTests, Idle, Task
  <2>2. 1 <= Len(Modules) + 1 /\ runs + 1 \in 0..MaxRuns
    BY <1>2, ModulesTyped, WorkshopsAssumption DEF IndInv, RunOK
  <2> QED
    BY <1>1, <1>2, <2>1, <2>2 DEF IndInv, RunOK
<1>4. StackOK'
  BY <1>2 DEF IndInv, StackOK
<1>5. HaveOK'
  BY <1>2 DEF IndInv, HaveOK, Runnable
<1>6. Position'
  BY <1>1, <1>2 DEF Position, Testing
<1>7. Prepared'
  <2>1. Workshop' \in Workshops \/ ~(run'.at <= Len(Modules))
    BY <1>1, ModulesTyped DEF Workshop
  <2> QED
    BY <1>1, <1>2, <2>1, ModulesTyped DEF Prepared
<1> QED
  BY <1>1, <1>2, <1>3, <1>4, <1>5, <1>6, <1>7 DEF IndInv, Attributed, Removing, SettingUp,
     Finished, CleanSessionLeavesNothing

\* A tear-down is the stack's only call.
LEMMA JustTearDown ==
  ASSUME NEW w \in Workshops, NEW k
  PROVE  /\ <<TearDown(w)>> \in Seq(Calls) /\ DOMAIN <<TearDown(w)>> = {1}
         /\ WellPlaced(k, TearDown(w)) /\ TearDown(w).op \in TeardownOps
         /\ Undoing(k, <<TearDown(w)>>) = Undone(k, w)
<1>1. /\ TearDown(w) \in Calls /\ TearDown(w).op = "execute_teardown"
      /\ Undoes(k, TearDown(w)) = Undone(k, w)
  BY TearDownMeans
<1> DEFINE c == TearDown(w)
<1> HIDE DEF c
<1>2. <<c>> \in Seq(Calls) /\ DOMAIN <<c>> = {1} /\ <<c>>[1] = c
  BY <1>1 DEF c
<1>3. Undoing(k, <<c>>) = Undone(k, w)
  BY <1>1, <1>2 DEF Undoing, c
<1> QED
  BY <1>1, <1>2, <1>3 DEF c, WellPlaced, TeardownOps

LEMMA StartResetKeeps ==
  ASSUME IndInv, NEW target \in Resets, StartReset(target)
  PROVE  IndInv'
<1>1. target \in Tasked /\ target.workshop \in Workshops
  BY WorkshopsAssumption DEF Tasked
<1>2. /\ run'.kind = "reset" /\ run'.at = 0 /\ run'.last = NoWorkshop /\ run'.setup = FALSE
      /\ run'.teardown = FALSE /\ run'.target = target
  BY DEF StartReset, Idle
<1>3. /\ phase = "idle" /\ phase' = "teardown" /\ ended' = "none" /\ dirty' = FALSE /\ made' = {}
      /\ runs < MaxRuns /\ runs' = runs + 1 /\ todo' = <<TearDown(target.workshop)>>
      /\ installed' = installed /\ have' = have /\ rest' = rest /\ faults' = faults
  BY DEF StartReset
<1>4. RunOK'
  <2>1. run' \in [kind : {"none", "tests", "reset"}, at : Nat, last : Workshops \cup {NoWorkshop},
                 setup : BOOLEAN, teardown : BOOLEAN,
                 target : [workshop : Workshops \cup {NoWorkshop}, lab : Nat]]
    BY <1>1 DEF StartReset, Idle, Tasked
  <2>2. 0 <= Len(Modules) + 1 /\ runs + 1 \in 0..MaxRuns
    BY <1>3, ModulesTyped, WorkshopsAssumption DEF IndInv, RunOK
  <2> QED
    BY <1>2, <1>3, <2>1, <2>2 DEF IndInv, RunOK
<1>5. StackOK'
  <2>1. rest = {}
    BY <1>3 DEF IndInv, StackOK
  <2>2. /\ todo' \in Seq(Calls) /\ DOMAIN todo' = {1} /\ todo'[1] = TearDown(target.workshop)
        /\ WellPlaced(installed', todo'[1]) /\ todo'[1].op \in TeardownOps
    BY <1>1, <1>3, JustTearDown
  <2> QED
    BY <1>3, <2>1, <2>2 DEF StackOK
<1>6. HaveOK'
  BY <1>3 DEF IndInv, HaveOK, Runnable
<1>7. Position'
  BY <1>1, <1>2, <1>3 DEF Position, Testing
<1>8. Removing'
  <2>1. Undoing(installed', todo') = Undone(installed, target.workshop)
    BY <1>1, <1>3, JustTearDown
  <2>2. Scope' = Undone(installed, target.workshop)
    BY <1>2, <1>3 DEF Scope, Testing
  <2> QED
    BY <2>1, <2>2 DEF Removing
<1> QED
  BY <1>2, <1>3, <1>4, <1>5, <1>6, <1>7, <1>8 DEF IndInv, Prepared, Attributed, SettingUp,
     Finished, CleanSessionLeavesNothing

\* What is on the cluster and can be removed is removed by some tear-down.
LEMMA EveryTearDown ==
  ASSUME HaveOK
  PROVE  have \cap Removable \subseteq UNION {Undone(installed, w) : w \in Workshops}
<1> SUFFICES ASSUME NEW x \in have, x \in Removable
             PROVE  \E w \in Workshops : x \in Undone(installed, w)
  OBVIOUS
<1>1. PICK w \in Workshops : Runnable(w) /\ x \in MadeBy(w)
  BY DEF HaveOK
<1>2. x \in RemovedBy(w)
  BY <1>1, Undoable
<1>3. x \in Undone(installed, w)
  BY <1>1, <1>2, UndoneUnfold DEF Runnable
<1> QED
  BY <1>3

LEMMA EnterModuleKeeps ==
  ASSUME IndInv, EnterModule
  PROVE  IndInv'
<1>1. /\ phase = "module" /\ run.at <= Len(Modules)
      /\ installed' = installed /\ have' = have /\ run' = run /\ made' = made /\ dirty' = dirty
      /\ ended' = ended /\ runs' = runs /\ faults' = faults
      /\ ended = "none" /\ Testing /\ todo = <<>> /\ rest = {}
  BY DEF EnterModule, IndInv, Position, StackOK
<1>2. HaveOK'
  BY <1>1 DEF IndInv, HaveOK, Runnable
<1>3. Workshop' = Workshop /\ Workshop \in Workshops
  BY <1>1, Asked DEF Workshop, IndInv
<1>4. CASE ~run.setup \/ run.last = Workshop
  <2>1. phase' = "tests" /\ todo' = todo /\ rest' = rest
    BY <1>4 DEF EnterModule
  <2>2. RunOK' /\ StackOK'
    BY <1>1, <2>1 DEF IndInv, RunOK, StackOK
  <2>3. Position'
    BY <1>1, <1>3, <1>4, <2>1 DEF IndInv, Position, Testing
  <2>4. Prepared'
    BY <1>1, <1>3, <1>4, <2>1 DEF IndInv, Prepared
  <2>5. Attributed'
    BY <1>1, <2>1 DEF IndInv, Attributed, Testing
  <2> QED
    BY <1>1, <1>2, <2>1, <2>2, <2>3, <2>4, <2>5
    DEF IndInv, Removing, SettingUp, Finished, CleanSessionLeavesNothing
<1>5. CASE ~(~run.setup \/ run.last = Workshop)
  <2>1. /\ phase' = "teardown"
        /\ run.last = NoWorkshop => rest' = Workshops /\ todo' = <<>>
        /\ run.last # NoWorkshop => rest' = {} /\ todo' = <<TearDown(run.last)>>
    BY <1>5 DEF EnterModule
  <2>2. RunOK'
    BY <1>1, <2>1 DEF IndInv, RunOK
  <2>3. Position'
    BY <1>1, <1>3, <1>5, <2>1 DEF IndInv, Position, Testing
  <2>4. Prepared' /\ SettingUp'
    BY <2>1 DEF Prepared, SettingUp
  <2>5. Attributed'
    BY <1>1, <2>1 DEF IndInv, Attributed, Testing
  <2>6. Finished'
    BY <1>1 DEF Finished, CleanSessionLeavesNothing
  <2>7. StackOK' /\ Removing'
    <3>1. CASE run.last = NoWorkshop
      <4>1. StackOK'
        BY <2>1, <3>1, Nothing DEF StackOK
      <4>2. have \cap Removable \subseteq UNION {Undone(installed, w) : w \in Workshops}
        BY EveryTearDown DEF IndInv
      <4> QED
        BY <1>1, <2>1, <3>1, <4>1, <4>2 DEF Removing
    <3>2. CASE run.last # NoWorkshop
      <4>1. run.last \in Workshops
        BY <3>2 DEF IndInv, RunOK
      <4>2. /\ todo' \in Seq(Calls) /\ DOMAIN todo' = {1} /\ todo'[1] = TearDown(run.last)
            /\ WellPlaced(installed', todo'[1]) /\ todo'[1].op \in TeardownOps
            /\ Undoing(installed', todo') = Undone(installed', run.last)
        <5>1. todo' = <<TearDown(run.last)>> /\ installed' = installed
          BY <1>1, <2>1, <3>2
        <5> QED
          BY <4>1, <5>1, JustTearDown
      <4>3. StackOK'
        BY <2>1, <3>2, <4>2 DEF StackOK
      <4>4. Scope' = Undone(installed', run.last)
        BY <1>1, <3>2 DEF Scope, Testing
      <4> QED
        BY <4>2, <4>3, <4>4 DEF Removing
    <3> QED
      BY <3>1, <3>2
  <2> QED
    BY <1>2, <2>2, <2>3, <2>4, <2>5, <2>6, <2>7 DEF IndInv
<1> QED
  BY <1>4, <1>5

LEMMA GlobalTeardownKeeps ==
  ASSUME IndInv, GlobalTeardown
  PROVE  IndInv'
<1>1. PICK v \in rest : rest' = rest \ {v} /\ todo' = <<TearDown(v)>>
  BY DEF GlobalTeardown
<1>2. /\ phase = "teardown" /\ phase' = phase /\ todo = <<>> /\ v \in Workshops
      /\ installed' = installed /\ have' = have /\ run' = run /\ made' = made /\ dirty' = dirty
      /\ ended' = ended /\ runs' = runs /\ faults' = faults
  BY DEF GlobalTeardown, IndInv, RunOK
<1>3. RunOK' /\ HaveOK'
  BY <1>1, <1>2 DEF IndInv, RunOK, HaveOK, Runnable
<1>4. Position' /\ Attributed' /\ Prepared' /\ SettingUp' /\ Finished'
  <2>1. Workshop' = Workshop
    BY <1>2 DEF Workshop
  <2>2. Position'
    BY <1>2, <2>1 DEF IndInv, Position, Testing
  <2> QED
    BY <1>2, <2>2 DEF IndInv, Attributed, Testing, Prepared, SettingUp, Finished, CleanSessionLeavesNothing
<1>5. /\ todo' \in Seq(Calls) /\ DOMAIN todo' = {1} /\ todo'[1] = TearDown(v)
      /\ WellPlaced(installed', todo'[1]) /\ todo'[1].op \in TeardownOps
      /\ Undoing(installed', todo') = Undone(installed', v)
  BY <1>1, <1>2, JustTearDown
<1>6. StackOK'
  BY <1>2, <1>5 DEF StackOK
<1>7. Removing'
  <2>1. have \cap Removable \cap Scope \subseteq UNION {Undone(installed, w) : w \in rest}
    BY <1>2, Nothing DEF IndInv, Removing
  <2>2. UNION {Undone(installed, w) : w \in rest} =
          Undone(installed, v) \cup UNION {Undone(installed, w) : w \in rest \ {v}}
    OBVIOUS
  <2>3. Scope' = Scope
    BY <1>2 DEF Scope, Testing
  <2> QED
    BY <1>1, <1>2, <1>5, <2>1, <2>2, <2>3 DEF Removing
<1> QED
  BY <1>3, <1>4, <1>6, <1>7 DEF IndInv

\* What is on the cluster when a set-up starts.
LEMMA JustCleared ==
  ASSUME IndInv, phase = "teardown", todo = <<>>, rest = {}
  PROVE  /\ have \cap Removable \cap Scope = {}
         /\ Testing /\ (~dirty \/ run.last = NoWorkshop) => have \cap Removable = {}
<1>1. have \cap Removable \cap Scope = {}
  BY Nothing DEF IndInv, Removing
<1>2. ASSUME Testing, ~dirty \/ run.last = NoWorkshop PROVE have \cap Removable = {}
  BY <1>1, <1>2 DEF IndInv, Scope, Attributed
<1> QED
  BY <1>1, <1>2

LEMMA JustSetUp ==
  ASSUME NEW k, NEW m, NEW h, NEW t \in Tasked
  PROVE  /\ <<SetUp(t)>> \in Seq(Calls) /\ DOMAIN <<SetUp(t)>> = {1}
         /\ WellPlaced(k, SetUp(t)) /\ SetUp(t).op \in SetupOps
         /\ Promised(k, <<SetUp(t)>>) = Wanted(k, t)
         /\ Builds(k, m, h, <<SetUp(t)>>, t)
<1> DEFINE c == SetUp(t)
           s == <<c>>
<1>1. c \in Calls /\ c.op = "execute_setup" /\ Promise(k, c) = Wanted(k, t)
  BY SetUpMeans
<1> HIDE DEF c
<1>2. s \in Seq(Calls) /\ DOMAIN s = {1} /\ s[1] = c
  BY <1>1
<1> HIDE DEF s
<1>3. Promised(k, s) = Wanted(k, t)
  BY <1>1, <1>2 DEF Promised
<1>4. Ordered(k, s) /\ \A i \in DOMAIN s : Fed(k, m, s, i)
  BY <1>1, <1>2 DEF Ordered, Fed
<1>5. Builds(k, m, h, s, t)
  BY <1>3, <1>4 DEF Builds
<1> QED
  BY <1>1, <1>2, <1>3, <1>5 DEF WellPlaced, SetupOps, s, c

\* The session goes on to the next module; a workshop that was not set up now is
\* not the one of the next module either, as modules of a workshop come together.
LEMMA GoingOn ==
  ASSUME IndInv, phase \in {"teardown", "setup", "tests"}, Testing, NextModule, ended' = ended
  PROVE  /\ run' \in [kind : {"none", "tests", "reset"}, at : Nat, last : Workshops \cup {NoWorkshop},
                      setup : BOOLEAN, teardown : BOOLEAN,
                      target : [workshop : Workshops \cup {NoWorkshop}, lab : Nat]]
         /\ run'.at = run.at + 1 /\ run'.at <= Len(Modules) + 1 /\ phase' = "module"
         /\ run'.kind = run.kind /\ run'.last = run.last /\ run'.setup = run.setup
         /\ Position'
         /\ phase # "tests" /\ run'.at <= Len(Modules) => run'.last # Workshop'
<1>1. /\ run' = [run EXCEPT !.at = run.at + 1] /\ phase' = "module"
      /\ run \in [kind : {"none", "tests", "reset"}, at : Nat, last : Workshops \cup {NoWorkshop},
                  setup : BOOLEAN, teardown : BOOLEAN,
                  target : [workshop : Workshops \cup {NoWorkshop}, lab : Nat]]
  BY DEF NextModule, IndInv, RunOK
<1>2. run' \in [kind : {"none", "tests", "reset"}, at : Nat, last : Workshops \cup {NoWorkshop},
                setup : BOOLEAN, teardown : BOOLEAN,
                target : [workshop : Workshops \cup {NoWorkshop}, lab : Nat]]
  BY <1>1
<1>3. /\ run'.at = run.at + 1 /\ run'.kind = run.kind /\ run'.last = run.last /\ run'.setup = run.setup
      /\ run'.teardown = run.teardown /\ run'.target = run.target
  BY <1>1
<1>4. /\ run.at \in Nat \ {0} /\ run.at <= Len(Modules) /\ Workshop = Modules[run.at]
      /\ run.at \in DOMAIN Modules
      /\ ended = "none"
      /\ run.last # NoWorkshop => run.setup
      /\ phase = "tests" /\ run.setup => run.last = Workshop
      /\ phase # "tests" => run.setup /\ run.last # Workshop
      /\ run.last # NoWorkshop /\ phase # "tests" =>
           \E k \in DOMAIN Modules : k < run.at /\ Modules[k] = run.last
  BY ModulesTyped DEF IndInv, Position, Workshop
<1>5. run.last # NoWorkshop => \E k \in DOMAIN Modules : k < run'.at /\ Modules[k] = run.last
  <2>1. CASE phase # "tests"
    <3> HAVE run.last # NoWorkshop
    <3>1. PICK k \in DOMAIN Modules : k < run.at /\ Modules[k] = run.last
      BY <1>4, <2>1
    <3>2. k < run'.at
      BY <1>3, <1>4, <3>1, ModulesTyped
    <3> QED
      BY <3>1, <3>2
  <2>2. CASE phase = "tests"
    <3> HAVE run.last # NoWorkshop
    <3>1. run.last = Modules[run.at] /\ run.at < run'.at
      BY <1>3, <1>4, <2>2
    <3> QED
      BY <1>4, <3>1
  <2> QED
    BY <2>1, <2>2
<1>6. Position'
  <2>1. run'.kind = "tests" /\ run'.at \in Nat \ {0} /\ ended' = "none"
    BY <1>3, <1>4 DEF Testing
  <2>2. run'.last # NoWorkshop => run'.setup
    BY <1>3, <1>4
  <2>3. run'.last # NoWorkshop => \E k \in DOMAIN Modules : k < run'.at /\ Modules[k] = run'.last
    BY <1>3, <1>5
  <2> QED
    BY <1>1, <2>1, <2>2, <2>3 DEF Position, Testing
<1>7. ASSUME phase # "tests", run'.at <= Len(Modules) PROVE run'.last # Workshop'
  <2>1. Workshop' = Modules[run.at + 1] /\ run.at + 1 \in DOMAIN Modules
    BY <1>3, <1>4, <1>7, ModulesTyped DEF Workshop
  <2>2. CASE run.last = NoWorkshop
    BY <1>3, <2>1, <2>2, ModulesTyped
  <2>3. CASE run.last # NoWorkshop
    <3>1. PICK k \in DOMAIN Modules : k < run.at /\ Modules[k] = run.last
      BY <1>4, <1>7, <2>3
    <3>2. Modules[run.at] # Modules[k]
      BY <1>4, <1>7, <3>1
    <3>3. run.at < run.at + 1
      BY <1>4
    <3>4. Modules[k] # Modules[run.at + 1]
      BY <1>4, <2>1, <3>1, <3>2, <3>3, Grouped
    <3> QED
      BY <1>3, <2>1, <3>1, <3>4
  <2> QED
    BY <2>2, <2>3
<1> QED
  BY <1>1, <1>2, <1>3, <1>4, <1>6, <1>7

LEMMA TeardownDoneKeeps ==
  ASSUME IndInv, TeardownDone
  PROVE  IndInv'
<1>1. /\ phase = "teardown" /\ todo = <<>> /\ rest = {}
      /\ installed' = installed /\ have' = have /\ rest' = rest /\ dirty' = dirty
      /\ ended' = ended /\ runs' = runs /\ faults' = faults /\ ended = "none"
  BY DEF TeardownDone, IndInv, Position
<1>2. /\ have \cap Removable \cap Scope = {}
      /\ Testing /\ (~dirty \/ run.last = NoWorkshop) => have \cap Removable = {}
  BY <1>1, JustCleared
<1>3. CASE Testing /\ ~Runnable(Workshop)
  <2>1. NextModule /\ todo' = todo /\ made' = made
    BY <1>3 DEF TeardownDone, Testing
  <2>2. /\ run' \in [kind : {"none", "tests", "reset"}, at : Nat, last : Workshops \cup {NoWorkshop},
                     setup : BOOLEAN, teardown : BOOLEAN,
                     target : [workshop : Workshops \cup {NoWorkshop}, lab : Nat]]
        /\ run'.at = run.at + 1 /\ run'.at <= Len(Modules) + 1 /\ phase' = "module"
        /\ run'.kind = run.kind /\ run'.last = run.last /\ run'.setup = run.setup
        /\ Position'
        /\ run'.at <= Len(Modules) => run'.last # Workshop'
    BY <1>1, <1>3, <2>1, GoingOn
  <2>3. RunOK'
    BY <1>1, <2>2 DEF IndInv, RunOK
  <2>4. StackOK' /\ HaveOK'
    BY <1>1, <2>1, <2>2 DEF IndInv, StackOK, HaveOK, Runnable
  <2>5. Prepared'
    BY <2>2 DEF Prepared
  <2>6. Attributed'
    BY <1>1, <2>2 DEF IndInv, Attributed, Testing
  <2> QED
    BY <1>1, <2>2, <2>3, <2>4, <2>5, <2>6 DEF IndInv, Removing, SettingUp, Finished, CleanSessionLeavesNothing
<1>4. CASE ~(Testing /\ ~Runnable(Workshop))
  <2>1. /\ phase' = "setup" /\ made' = {} /\ run' = run
        /\ todo' = <<SetUp(IF run.kind = "tests" THEN Task(Workshop, 99) ELSE run.target)>>
    BY <1>4 DEF TeardownDone, Testing
  <2> DEFINE t == IF run.kind = "tests" THEN Task(Workshop, 99) ELSE run.target
  <2>2. Target' = t /\ Workshop' = Workshop
    BY <2>1 DEF Target, Testing, Workshop
  <2>3. t \in Tasked
    <3>1. CASE Testing
      <4>1. run.at <= Len(Modules)
        BY <1>1, <3>1 DEF IndInv, Position
      <4> QED
        BY <1>1, <3>1, <4>1, Asked DEF IndInv, Testing
    <3>2. CASE ~Testing
      BY <1>1, <3>2 DEF IndInv, Position, Testing
    <3> QED
      BY <3>1, <3>2
  <2>4. t = Target'
    BY <2>2
  <2>5. todo' = <<SetUp(t)>>
    BY <2>1
  <2> HIDE DEF t
  <2>6. /\ todo' \in Seq(Calls) /\ DOMAIN todo' = {1} /\ todo'[1] = SetUp(t)
        /\ WellPlaced(installed, SetUp(t)) /\ SetUp(t).op \in SetupOps
        /\ Promised(installed, todo') = Wanted(installed, t)
        /\ Builds(installed, made', have, todo', t)
    BY <2>1, <2>3, <2>5, JustSetUp
  <2>7. RunOK' /\ HaveOK'
    BY <1>1, <2>1 DEF IndInv, RunOK, HaveOK, Runnable
  <2>8. StackOK'
    BY <1>1, <2>1, <2>6 DEF StackOK
  <2>9. Position'
    BY <1>1, <2>1, <2>2 DEF IndInv, Position, Testing
  <2>10. SettingUp'
    <3>1. Wanted(installed, t) \subseteq Artefacts /\ Wanted(installed, t) \cap Removable \subseteq Undone(installed, t.workshop)
      BY <2>3, WantedUndone
    <3>2. Cleared' = Cleared
      BY <1>1, <2>1 DEF Cleared, Testing
    <3>3. ASSUME ~dirty
          PROVE  /\ Wanted(installed, t) \cap Exclusive \cap have = {}
                 /\ have \cap Removable \cap Cleared = {}
      <4>1. Wanted(installed, t) \cap Exclusive \subseteq Removable
        BY <3>1, Undoable
      <4>2. CASE Testing
        BY <1>2, <3>3, <4>1, <4>2
      <4>3. CASE ~Testing
        <5>1. t = run.target
          BY <2>1, <2>4, <4>3 DEF Target, Testing
        <5>2. Scope = Undone(installed, t.workshop) /\ Cleared = Undone(installed, t.workshop)
          BY <4>3, <5>1 DEF Scope, Cleared
        <5> QED
          BY <1>2, <3>1, <4>1, <5>2
      <4> QED
        BY <4>2, <4>3
    <3> QED
      BY <1>1, <2>4, <2>6, <3>2, <3>3 DEF SettingUp
  <2> QED
    BY <1>1, <2>1, <2>7, <2>8, <2>9, <2>10
    DEF IndInv, Prepared, Attributed, Removing, Finished, CleanSessionLeavesNothing
<1> QED
  BY <1>3, <1>4

\* A step inside a set-up or a tear-down.
LEMMA SamePlace ==
  ASSUME IndInv, installed' = installed, run' = run, phase' = phase, dirty' = dirty, ended' = ended,
         rest' = rest, runs' = runs, faults' = faults
  PROVE  /\ RunOK' /\ Position'
         /\ Testing' = Testing /\ Scope' = Scope /\ Target' = Target /\ Cleared' = Cleared
<1>1. Workshop' = Workshop /\ Testing' = Testing
  BY DEF Workshop, Testing
<1>2. RunOK' /\ Position'
  BY <1>1 DEF IndInv, RunOK, Position
<1> QED
  BY <1>1, <1>2 DEF Scope, Target, Cleared

\* The call that is next.
LEMMA NextCall ==
  ASSUME IndInv, todo # <<>>
  PROVE  /\ todo \in Seq(Calls) /\ Head(todo) \in Calls /\ Head(todo) = todo[1] /\ 1 \in DOMAIN todo
         /\ WellPlaced(installed, Head(todo)) /\ installed \in InstalledSets
         /\ phase \in {"setup", "teardown", "final"} /\ ended = "none"
         /\ phase = "setup" => Head(todo).op \in SetupOps
         /\ phase # "setup" => Head(todo).op \in TeardownOps
<1>1. todo \in Seq(Calls)
  BY DEF IndInv, StackOK
<1>2. Head(todo) \in Calls /\ Head(todo) = todo[1] /\ 1 \in DOMAIN todo
  <2>1. Len(todo) \in Nat \ {0} /\ DOMAIN todo = 1..Len(todo) /\ Head(todo) = todo[1] /\ Head(todo) \in Calls
    BY <1>1, Popped
  <2> QED
    BY <2>1
<1>3. phase \in {"setup", "teardown", "final"}
  BY DEF IndInv, StackOK
<1> QED
  BY <1>1, <1>2, <1>3 DEF IndInv, StackOK, RunOK, Position

LEMMA StackReplaced ==
  ASSUME IndInv, todo # <<>>, NEW new \in Seq(Calls), todo' = new \o Tail(todo),
         installed' = installed, phase' = phase, rest' = rest,
         \A i \in DOMAIN new :
           /\ WellPlaced(installed, new[i])
           /\ phase = "setup" => new[i].op \in SetupOps
           /\ phase \in {"teardown", "final"} => new[i].op \in TeardownOps
  PROVE  StackOK'
<1>1. todo \in Seq(Calls) /\ phase \in {"setup", "teardown", "final"}
  BY NextCall
<1>2. todo' \in Seq(Calls)
  BY <1>1, Replaced
<1>3. ASSUME NEW i \in DOMAIN todo'
      PROVE  /\ WellPlaced(installed, todo'[i])
             /\ phase = "setup" => todo'[i].op \in SetupOps
             /\ phase \in {"teardown", "final"} => todo'[i].op \in TeardownOps
  <2>1. \/ i \in DOMAIN new /\ todo'[i] = new[i]
        \/ i - Len(new) + 1 \in DOMAIN todo /\ todo'[i] = todo[i - Len(new) + 1]
    BY <1>1, <1>3, FromStack
  <2>2. CASE i \in DOMAIN new /\ todo'[i] = new[i]
    BY <2>2
  <2>3. CASE i - Len(new) + 1 \in DOMAIN todo /\ todo'[i] = todo[i - Len(new) + 1]
    BY <2>3 DEF IndInv, StackOK
  <2> QED
    BY <2>1, <2>2, <2>3
<1> QED
  BY <1>1, <1>2, <1>3 DEF IndInv, StackOK

LEMMA StackPopped ==
  ASSUME IndInv, todo # <<>>, todo' = Tail(todo), installed' = installed, phase' = phase, rest' = rest
  PROVE  StackOK'
<1>1. todo \in Seq(Calls) /\ phase \in {"setup", "teardown", "final"}
  BY NextCall
<1>2. /\ Len(todo) \in Nat \ {0} /\ DOMAIN todo = 1..Len(todo)
      /\ todo' \in Seq(Calls) /\ DOMAIN todo' = 1..(Len(todo) - 1)
      /\ \A i \in 1..(Len(todo) - 1) : todo'[i] = todo[i + 1]
  BY <1>1, Popped
<1>3. \A i \in DOMAIN todo' : i + 1 \in DOMAIN todo /\ todo'[i] = todo[i + 1]
  BY <1>2
<1> QED
  BY <1>1, <1>2, <1>3 DEF IndInv, StackOK

LEMMA EnterCallKeeps ==
  ASSUME IndInv, EnterCall
  PROVE  IndInv'
<1> DEFINE c == Head(todo)
<1>1. /\ installed' = installed /\ have' = have /\ run' = run /\ phase' = phase /\ rest' = rest
      /\ made' = made /\ dirty' = dirty /\ ended' = ended /\ runs' = runs /\ faults' = faults
  BY DEF EnterCall
<1>2. todo # <<>> /\ (c.op = "execute_setup" \/ c.op = "execute_teardown")
  BY DEF EnterCall, NextIs
<1>3. /\ todo \in Seq(Calls) /\ c \in Calls /\ installed \in InstalledSets
      /\ phase \in {"setup", "teardown", "final"} /\ ended = "none"
      /\ phase = "setup" => c.op \in SetupOps
      /\ phase # "setup" => c.op \in TeardownOps
      /\ c.workshop \in Workshops /\ c.target \in Nat
  <2>1. /\ todo \in Seq(Calls) /\ c \in Calls /\ installed \in InstalledSets
        /\ phase \in {"setup", "teardown", "final"} /\ ended = "none"
        /\ phase = "setup" => c.op \in SetupOps
        /\ phase # "setup" => c.op \in TeardownOps
    BY <1>2, NextCall
  <2> QED
    BY <2>1 DEF Calls
<1>4. /\ RunOK' /\ Position'
      /\ Testing' = Testing /\ Scope' = Scope /\ Target' = Target /\ Cleared' = Cleared
  BY <1>1, SamePlace
<1>5. HaveOK' /\ Prepared' /\ Attributed' /\ Finished'
  BY <1>1, <1>3, <1>4 DEF IndInv, HaveOK, Runnable, Prepared, Attributed, Finished, CleanSessionLeavesNothing
<1>6. CASE c.op = "execute_setup"
  <2> DEFINE new == SetupCalls(c.workshop, c.target)
  <2>1. todo' = new \o Tail(todo) /\ phase = "setup"
    BY <1>2, <1>3, <1>6 DEF EnterCall, NextIs, TeardownOps
  <2>2. /\ new \in Seq(Calls)
        /\ Promised(installed, new) = Wanted(installed, Task(c.workshop, c.target))
        /\ HooksLeft(installed, new) \subseteq Hooked(installed, Task(c.workshop, c.target))
        /\ Ordered(installed, new)
        /\ \A i \in DOMAIN new : /\ Fed(installed, made, new, i) /\ WellPlaced(installed, new[i])
                                 /\ new[i].op \in SetupOps
    BY <1>3, SetupBuilds
  <2>3. /\ Promise(installed, c) = Wanted(installed, Task(c.workshop, c.target))
        /\ Hooks(installed, c) = Hooked(installed, Task(c.workshop, c.target))
    BY <1>6 DEF Promise, Hooks
  <2> HIDE DEF new
  <2>4. StackOK'
    BY <1>1, <1>2, <2>1, <2>2, StackReplaced
  <2>5. Builds(installed, made, have, todo, Target)
    BY <2>1 DEF IndInv, SettingUp
  <2>6. Builds(installed, made, have, todo', Target) /\ Promised(installed, todo') = Promised(installed, todo)
    BY <1>2, <1>3, <2>1, <2>2, <2>3, <2>5, BuildsReplaced
  <2>7. SettingUp'
    BY <1>1, <1>4, <2>1, <2>6 DEF IndInv, SettingUp
  <2> QED
    BY <1>1, <1>4, <1>5, <2>1, <2>4, <2>7 DEF IndInv, Removing
<1>7. CASE c.op = "execute_teardown"
  <2> DEFINE new == TeardownCalls(c.workshop)
  <2>1. todo' = new \o Tail(todo) /\ phase \in {"teardown", "final"}
    BY <1>2, <1>3, <1>7 DEF EnterCall, NextIs, SetupOps
  <2>2. /\ new \in Seq(Calls)
        /\ Undoing(installed, new) = Undone(installed, c.workshop)
        /\ \A i \in DOMAIN new : WellPlaced(installed, new[i]) /\ new[i].op \in TeardownOps
    BY <1>3, TeardownUndoes
  <2>3. Undoes(installed, c) = Undone(installed, c.workshop)
    BY <1>7 DEF Undoes
  <2> HIDE DEF new
  <2>4. StackOK'
    BY <1>1, <1>2, <2>1, <2>2, StackReplaced
  <2>5. Undoing(installed, todo') = Undoing(installed, todo)
    <3>1. Undoing(installed, todo') = Undoing(installed, new) \cup Undoing(installed, Tail(todo))
      BY <1>2, <1>3, <2>1, <2>2, UnionsReplace
    <3>2. Undoing(installed, todo) = Undoes(installed, c) \cup Undoing(installed, Tail(todo))
      BY <1>2, <1>3, UnionsPop
    <3> QED
      BY <2>2, <2>3, <3>1, <3>2
  <2>6. Removing'
    BY <1>1, <1>4, <2>5 DEF IndInv, Removing
  <2> QED
    BY <1>1, <1>4, <1>5, <2>1, <2>4, <2>6 DEF IndInv, SettingUp
<1> QED
  BY <1>2, <1>6, <1>7

LEMMA NextLabKeeps ==
  ASSUME IndInv, NextLab
  PROVE  IndInv'
<1> DEFINE c == Head(todo)
<1>1. /\ installed' = installed /\ have' = have /\ run' = run /\ phase' = phase /\ rest' = rest
      /\ made' = made /\ dirty' = dirty /\ ended' = ended /\ runs' = runs /\ faults' = faults
  BY DEF NextLab
<1>2. todo # <<>> /\ c.op = "labs"
  BY DEF NextLab, NextIs
<1>3. /\ todo \in Seq(Calls) /\ c \in Calls /\ installed \in InstalledSets /\ WellPlaced(installed, c)
      /\ phase = "setup" /\ ended = "none" /\ 1 \in DOMAIN todo
  BY <1>2, NextCall DEF TeardownOps
<1>4. /\ RunOK' /\ Position'
      /\ Testing' = Testing /\ Scope' = Scope /\ Target' = Target /\ Cleared' = Cleared
  BY <1>1, SamePlace
<1>5. HaveOK' /\ Prepared' /\ Attributed' /\ Removing' /\ Finished'
  BY <1>1, <1>3, <1>4
  DEF IndInv, HaveOK, Runnable, Prepared, Attributed, Removing, Finished, CleanSessionLeavesNothing
<1>6. Builds(installed, made, have, todo, Target)
  BY <1>3 DEF IndInv, SettingUp
<1>7. CASE LabsLeft(c) = {} /\ todo' = Tail(todo)
  <2>1. StackOK'
    BY <1>1, <1>2, <1>7, StackPopped
  <2>2. Promise(installed, c) = {} /\ Hooks(installed, c) = {}
    BY <1>2, <1>7 DEF Promise, Hooks
  <2>3. Builds(installed, made \cup Promise(installed, c),
               (have \ Hooks(installed, c)) \cup Promise(installed, c), Tail(todo), Target)
    BY <1>2, <1>3, <1>6, BuildsWorked
  <2>4. made \cup Promise(installed, c) = made /\ (have \ Hooks(installed, c)) \cup Promise(installed, c) = have
    BY <2>2
  <2>5. Promised(installed, Tail(todo)) \subseteq Promised(installed, todo)
    BY <1>2, <1>3, UnionsPop
  <2>6. SettingUp'
    BY <1>1, <1>3, <1>4, <1>7, <2>3, <2>4, <2>5 DEF IndInv, SettingUp
  <2> QED
    BY <1>4, <1>5, <2>1, <2>6 DEF IndInv
<1>8. CASE \E n \in LabsLeft(c) :
             /\ \A m \in LabsLeft(c) : n <= m
             /\ todo' = <<Call("lab", c.workshop, n, 0), [c EXCEPT !.lab = n + 1]>> \o Tail(todo)
  <2>1. PICK n \in LabsLeft(c) :
             /\ \A m \in LabsLeft(c) : n <= m
             /\ todo' = <<Call("lab", c.workshop, n, 0), [c EXCEPT !.lab = n + 1]>> \o Tail(todo)
    BY <1>8
  <2> DEFINE new == <<Call("lab", c.workshop, n, 0), [c EXCEPT !.lab = n + 1]>>
  <2>2. Fed(installed, made, todo, 1)
    BY <1>3, <1>6 DEF Builds
  <2>3. /\ new \in Seq(Calls)
        /\ Promised(installed, new) = Promise(installed, c)
        /\ HooksLeft(installed, new) = {}
        /\ Ordered(installed, new)
        /\ \A i \in DOMAIN new :
             /\ Fed(installed, made, new, i) /\ WellPlaced(installed, new[i]) /\ new[i].op \in SetupOps
    BY <1>2, <1>3, <2>1, <2>2, LoopBuilds
  <2>4. todo' = new \o Tail(todo)
    BY <2>1
  <2> HIDE DEF new
  <2>5. StackOK'
    BY <1>1, <1>2, <1>3, <2>3, <2>4, StackReplaced
  <2>6. Builds(installed, made, have, todo', Target) /\ Promised(installed, todo') = Promised(installed, todo)
    BY <1>2, <1>3, <1>6, <2>3, <2>4, BuildsReplaced
  <2>7. SettingUp'
    BY <1>1, <1>3, <1>4, <2>6 DEF IndInv, SettingUp
  <2> QED
    BY <1>4, <1>5, <2>5, <2>7 DEF IndInv
<1> QED
  BY <1>7, <1>8 DEF NextLab

LEMMA CallReturnsKeeps ==
  ASSUME IndInv, CallReturns
  PROVE  IndInv'
<1> DEFINE c == Head(todo)
           k == installed
           P == Promise(k, c)
           H == Hooks(k, c)
           U == Undoes(k, c)
<1>1. /\ installed' = installed /\ run' = run /\ phase' = phase /\ rest' = rest
      /\ dirty' = dirty /\ ended' = ended /\ runs' = runs /\ faults' = faults /\ todo' = Tail(todo)
  BY DEF CallReturns
<1>2. todo # <<>> /\ c.op \in {"before", "lab", "after", "teardown"}
  BY DEF CallReturns, Works, NextIs
<1>3. /\ todo \in Seq(Calls) /\ c \in Calls /\ installed \in InstalledSets /\ WellPlaced(k, c)
      /\ phase \in {"setup", "teardown", "final"} /\ ended = "none"
      /\ phase = "setup" => c.op # "teardown"
      /\ phase # "setup" => c.op = "teardown"
  <2>1. /\ todo \in Seq(Calls) /\ c \in Calls /\ installed \in InstalledSets /\ WellPlaced(k, c)
        /\ phase \in {"setup", "teardown", "final"} /\ ended = "none"
        /\ phase = "setup" => c.op \in SetupOps
        /\ phase # "setup" => c.op \in TeardownOps
    BY <1>2, NextCall
  <2> QED
    BY <1>2, <2>1 DEF SetupOps, TeardownOps
<1>4. /\ UNION ToSet(Removes(c)) = H \cup U /\ ToSet(Creates(c)) = P
      /\ c.op = "teardown" => P = {} /\ H = {}
      /\ c.op # "teardown" => U = {}
      /\ c.op # "lab" => P = {}
  BY <1>2, <1>3, WorkMeans
<1>5. /\ have' = (have \ (H \cup U)) \cup P
      /\ made' = made \cup P
  BY <1>4 DEF CallReturns
<1> HIDE DEF P, H, U
<1>6. /\ RunOK' /\ Position'
      /\ Testing' = Testing /\ Scope' = Scope /\ Target' = Target /\ Cleared' = Cleared
  BY <1>1, SamePlace
<1>7. StackOK'
  BY <1>1, <1>2, StackPopped
<1>8. HaveOK'
  <2>1. P \subseteq UNION {MadeBy(w) : w \in {w \in Workshops : Runnable(w)}}
    <3>1. CASE c.op = "lab"
      <4>1. c.workshop \in Workshops /\ Runnable(c.workshop) /\ c.lab \in DOMAIN Labs[c.workshop]
        BY <1>3, <3>1 DEF Calls, WellPlaced, Runnable, k
      <4>2. P \subseteq MadeBy(c.workshop)
        BY <3>1, <4>1 DEF P, Promise, MadeBy
      <4> QED
        BY <4>1, <4>2
    <3>2. CASE c.op # "lab"
      BY <1>4, <3>2
    <3> QED
      BY <3>1, <3>2
  <2>2. P \subseteq Artefacts
    BY <2>1 DEF Artefacts
  <2>3. \A w : Runnable(w)' <=> Runnable(w)
    BY <1>1 DEF Runnable
  <2>4. \A x \in have' : \E w \in Workshops : Runnable(w) /\ x \in MadeBy(w)
    BY <1>5, <2>1 DEF IndInv, HaveOK
  <2> QED
    BY <1>5, <2>2, <2>3, <2>4 DEF IndInv, HaveOK
<1>9. Prepared' /\ Finished'
  BY <1>1, <1>3 DEF Prepared, Finished, CleanSessionLeavesNothing
<1>10. CASE phase = "setup"
  <2>1. U = {} /\ have' = (have \ H) \cup P
    BY <1>3, <1>4, <1>5, <1>10
  <2>2. Builds(k, made, have, todo, Target) /\ Ordered(k, todo) /\ \A i \in DOMAIN todo : Fed(k, made, todo, i)
    BY <1>10 DEF IndInv, SettingUp, Builds
  <2>3. Builds(k, made', have', todo', Target)
    BY <1>1, <1>2, <1>3, <1>5, <2>1, <2>2, BuildsWorked DEF P, H
  <2>4. Promised(k, todo) = P \cup Promised(k, todo') /\ P \cap Promised(k, todo') \cap Exclusive = {}
    BY <1>1, <1>2, <1>3, <2>2, UnionsPop, OrderedPop DEF P
  <2>5. P \subseteq Wanted(k, Target)
    BY <2>2, <2>4 DEF Builds
  <2>6. SettingUp'
    BY <1>1, <1>6, <1>10, <2>1, <2>3, <2>4, <2>5 DEF IndInv, SettingUp, k
  <2> QED
    BY <1>1, <1>6, <1>7, <1>8, <1>9, <1>10, <2>6 DEF IndInv, Attributed, Removing
<1>11. CASE phase # "setup"
  <2>1. have' = have \ U
    BY <1>3, <1>4, <1>5, <1>11
  <2>2. Undoing(k, todo) = U \cup Undoing(k, todo')
    BY <1>1, <1>2, <1>3, UnionsPop DEF U
  <2>3. Removing'
    BY <1>1, <1>6, <2>1, <2>2 DEF IndInv, Removing, k
  <2>4. Attributed'
    BY <1>1, <1>6, <2>1 DEF IndInv, Attributed
  <2> QED
    BY <1>1, <1>6, <1>7, <1>8, <1>9, <1>11, <2>3, <2>4 DEF IndInv, SettingUp
<1> QED
  BY <1>10, <1>11

\* An exception, wherever it comes from: what the labs left below is what there
\* was and what the call had made, and a tear-down has only removed.
LEMMA Raises ==
  ASSUME IndInv, todo # <<>>, Raised, installed' = installed, runs' = runs, faults' \in 0..MaxFaults,
         \A x \in have' : x \in have \/ x \in Promise(installed, Head(todo)),
         Head(todo).op \in {"before", "lab", "after", "teardown"}
  PROVE  IndInv'
<1> DEFINE c == Head(todo)
           k == installed
<1>1. /\ todo \in Seq(Calls) /\ c \in Calls /\ WellPlaced(k, c)
      /\ phase \in {"setup", "teardown", "final"} /\ ended = "none"
      /\ phase # "setup" => c.op \in TeardownOps
  BY NextCall
<1>2. phase # "setup" => have' \subseteq have
  <2>1. c.op = "teardown" => Promise(k, c) = {}
    BY DEF Promise
  <2> QED
    BY <1>1, <2>1 DEF TeardownOps
<1>3. HaveOK'
  <2>1. ASSUME NEW x \in Promise(k, c), c.op = "lab" PROVE \E w \in Workshops : Runnable(w) /\ x \in MadeBy(w)
    <3>1. c.workshop \in Workshops /\ Runnable(c.workshop) /\ c.lab \in DOMAIN Labs[c.workshop]
      BY <1>1, <2>1 DEF Calls, WellPlaced, Runnable
    <3>2. x \in MadeBy(c.workshop)
      BY <2>1, <3>1 DEF Promise, MadeBy
    <3> QED
      BY <3>1, <3>2
  <2>2. c.op # "lab" => Promise(k, c) = {}
    BY DEF Promise
  <2>3. \A x \in have' : \E w \in Workshops : Runnable(w) /\ x \in MadeBy(w)
    BY <2>1, <2>2 DEF IndInv, HaveOK
  <2>4. \A w : Runnable(w)' <=> Runnable(w)
    BY DEF Runnable
  <2>5. made' = {}
    BY DEF Raised
  <2> QED
    BY <2>3, <2>4, <2>5 DEF HaveOK
<1>4. CASE Testing /\ phase # "final"
  <2>1. /\ NextModule /\ todo' = <<>> /\ rest' = {} /\ ended' = ended
        /\ dirty' = (dirty \/ phase = "setup")
    BY <1>4 DEF Raised, Testing
  <2>2. /\ run' \in [kind : {"none", "tests", "reset"}, at : Nat, last : Workshops \cup {NoWorkshop},
                     setup : BOOLEAN, teardown : BOOLEAN,
                     target : [workshop : Workshops \cup {NoWorkshop}, lab : Nat]]
        /\ run'.at <= Len(Modules) + 1 /\ phase' = "module"
        /\ run'.kind = run.kind /\ run'.last = run.last
        /\ Position'
        /\ run'.at <= Len(Modules) => run'.last # Workshop'
    BY <1>1, <1>4, <2>1, GoingOn
  <2>3. RunOK'
    BY <2>1, <2>2 DEF IndInv, RunOK
  <2>4. StackOK'
    BY <2>1, <2>2, Nothing DEF StackOK
  <2>5. Prepared'
    BY <2>2 DEF Prepared
  <2>6. Attributed'
    BY <1>1, <1>2, <1>4, <2>1, <2>2 DEF IndInv, Attributed, Testing
  <2> QED
    BY <1>1, <1>3, <2>1, <2>2, <2>3, <2>4, <2>5, <2>6
    DEF IndInv, Removing, SettingUp, Finished, CleanSessionLeavesNothing
<1>5. CASE ~(Testing /\ phase # "final")
  <2>1. /\ phase' = "idle" /\ ended' = "failed" /\ todo' = <<>> /\ rest' = {} /\ run' = run /\ dirty' = dirty
    BY <1>5 DEF Raised, End, Testing
  <2>2. RunOK'
    BY <2>1 DEF IndInv, RunOK
  <2>3. StackOK'
    BY <2>1, Nothing DEF StackOK
  <2>4. Position'
    BY <2>1 DEF IndInv, Position
  <2> QED
    BY <1>3, <2>1, <2>2, <2>3, <2>4
    DEF IndInv, Prepared, Attributed, Removing, SettingUp, Finished, CleanSessionLeavesNothing
<1> QED
  BY <1>4, <1>5

\* The first artefacts of a lab are artefacts of it.
LEMMA FirstOnes ==
  ASSUME NEW k, NEW c \in Calls, WellPlaced(k, c), NEW i \in DOMAIN Creates(c)
  PROVE  ToSet(SubSeq(Creates(c), 1, i - 1)) \subseteq Promise(k, c)
<1>1. CASE c.op = "lab"
  <2> DEFINE s == Labs[c.workshop][c.lab]
  <2>1. s \in Seq(ToSet(s)) /\ Creates(c) = s /\ Promise(k, c) = ToSet(s)
    BY <1>1, WorkshopsAssumption DEF Calls, WellPlaced, Creates, Promise
  <2> HIDE DEF s
  <2>2. i \in 1..Len(s)
    BY <2>1
  <2>3. SubSeq(s, 1, i - 1) \in Seq(ToSet(s))
    BY <2>1, <2>2
  <2>4. \A j \in DOMAIN SubSeq(s, 1, i - 1) : SubSeq(s, 1, i - 1)[j] \in ToSet(s)
    BY <2>3
  <2> QED
    BY <2>1, <2>4 DEF ToSet
<1>2. CASE c.op # "lab"
  BY <1>2 DEF Creates
<1> QED
  BY <1>1, <1>2

LEMMA RaisesKeeps ==
  ASSUME IndInv, CallRaises \/ CallClashes
  PROVE  IndInv'
<1> DEFINE c == Head(todo)
<1>1. todo # <<>> /\ c.op \in {"before", "lab", "after", "teardown"}
  BY DEF CallRaises, CallClashes, Works, NextIs
<1>2. c \in Calls /\ WellPlaced(installed, c)
  BY <1>1, NextCall
<1>3. CASE CallRaises
  <2>1. /\ Raised /\ installed' = installed /\ runs' = runs /\ faults' = faults + 1 /\ faults < MaxFaults
        /\ \/ \E i \in DOMAIN Removes(c) : have' = have \ UNION ToSet(SubSeq(Removes(c), 1, i - 1))
           \/ \E i \in DOMAIN Creates(c) : have' = have \cup ToSet(SubSeq(Creates(c), 1, i - 1))
    BY <1>3 DEF CallRaises
  <2>2. faults' \in 0..MaxFaults
    BY <2>1, WorkshopsAssumption DEF IndInv, RunOK
  <2>3. \A x \in have' : x \in have \/ x \in Promise(installed, c)
    BY <1>2, <2>1, FirstOnes
  <2> QED
    BY <1>1, <2>1, <2>2, <2>3, Raises
<1>4. CASE CallClashes
  <2>1. /\ Raised /\ installed' = installed /\ runs' = runs /\ faults' = faults
        /\ \E i \in DOMAIN Creates(c) : have' = have \cup ToSet(SubSeq(Creates(c), 1, i - 1))
    BY <1>4 DEF CallClashes
  <2>2. faults' \in 0..MaxFaults
    BY <2>1 DEF IndInv, RunOK
  <2>3. \A x \in have' : x \in have \/ x \in Promise(installed, c)
    BY <1>2, <2>1, FirstOnes
  <2> QED
    BY <1>1, <2>1, <2>2, <2>3, Raises
<1> QED
  BY <1>3, <1>4

LEMMA SetupDoneKeeps ==
  ASSUME IndInv, SetupDone
  PROVE  IndInv'
<1>1. /\ phase = "setup" /\ todo = <<>> /\ rest = {} /\ ended = "none"
      /\ installed' = installed /\ have' = have /\ made' = made /\ dirty' = dirty
      /\ runs' = runs /\ faults' = faults
  BY DEF SetupDone, IndInv, StackOK, Position
<1>2. /\ Wanted(installed, Target) \subseteq have
      /\ ~dirty => have \cap Removable \cap Cleared \subseteq Wanted(installed, Target)
  BY <1>1, Nothing DEF IndInv, SettingUp, Builds
<1>3. HaveOK'
  BY <1>1 DEF IndInv, HaveOK, Runnable
<1>4. Target \in Tasked
  BY <1>1, Asked DEF IndInv
<1>5. CASE Testing
  <2>1. /\ run' = [run EXCEPT !.last = Workshop] /\ phase' = "tests"
        /\ todo' = todo /\ rest' = rest /\ ended' = ended
        /\ run \in [kind : {"none", "tests", "reset"}, at : Nat, last : Workshops \cup {NoWorkshop},
                    setup : BOOLEAN, teardown : BOOLEAN,
                    target : [workshop : Workshops \cup {NoWorkshop}, lab : Nat]]
    BY <1>5 DEF SetupDone, Testing, IndInv, RunOK
  <2>2. run.at <= Len(Modules) /\ run.at \in Nat \ {0} /\ run.setup
    BY <1>1, <1>5 DEF IndInv, Position
  <2>3. /\ Workshop \in Workshops /\ Task(Workshop, 99) \in Tasked /\ Task(Workshop, 99).workshop = Workshop
    BY <1>1, <1>5, <2>2, Asked DEF IndInv
  <2>4. /\ run'.kind = run.kind /\ run'.at = run.at /\ run'.last = Workshop /\ run'.setup = run.setup
        /\ run'.teardown = run.teardown /\ run'.target = run.target
    BY <2>1
  <2>5. run' \in [kind : {"none", "tests", "reset"}, at : Nat, last : Workshops \cup {NoWorkshop},
                  setup : BOOLEAN, teardown : BOOLEAN,
                  target : [workshop : Workshops \cup {NoWorkshop}, lab : Nat]]
    BY <2>1, <2>3
  <2>6. Workshop' = Workshop /\ Testing'
    BY <1>5, <2>4 DEF Workshop, Testing
  <2>7. RunOK'
    BY <1>1, <2>1, <2>4, <2>5 DEF IndInv, RunOK
  <2>8. StackOK'
    BY <1>1, <2>1, Nothing DEF StackOK
  <2>9. Position'
    BY <1>1, <2>1, <2>2, <2>4, <2>6 DEF IndInv, Position, Testing
  <2>10. Target = Task(Workshop, 99) /\ Cleared = Removable
    BY <1>5 DEF Target, Cleared
  <2>11. Prepared'
    BY <1>1, <1>2, <2>1, <2>6, <2>10 DEF Prepared
  <2>12. Attributed'
    <3>1. Wanted(installed, Task(Workshop, 99)) \cap Removable \subseteq Undone(installed, Workshop)
      BY <2>3, WantedUndone
    <3> QED
      BY <1>1, <1>2, <2>4, <2>10, <3>1 DEF Attributed
  <2> QED
    BY <1>1, <1>3, <2>1, <2>7, <2>8, <2>9, <2>11, <2>12
    DEF IndInv, Removing, SettingUp, Finished, CleanSessionLeavesNothing
<1>6. CASE ~Testing
  <2>1. /\ phase' = "idle" /\ ended' = "reset" /\ todo' = <<>> /\ rest' = {} /\ run' = run
    BY <1>6 DEF SetupDone, End, Testing
  <2>2. RunOK' /\ StackOK'
    BY <1>1, <2>1, Nothing DEF IndInv, RunOK, StackOK
  <2>3. run.kind = "reset" /\ ~dirty
    BY <1>1, <1>6 DEF IndInv, Position, Testing
  <2>4. Position'
    BY <2>1, <2>3 DEF IndInv, Position
  <2>5. Target = run.target /\ Cleared = Undone(installed, run.target.workshop)
    BY <1>6 DEF Target, Cleared
  <2>6. Finished'
    BY <1>1, <1>2, <2>1, <2>3, <2>5 DEF Finished, CleanSessionLeavesNothing
  <2> QED
    BY <1>3, <2>1, <2>2, <2>4, <2>6 DEF IndInv, Prepared, Attributed, Removing, SettingUp
<1> QED
  BY <1>5, <1>6

LEMMA TestsRunKeeps ==
  ASSUME IndInv, TestsRun
  PROVE  IndInv'
<1>1. /\ phase = "tests" /\ Testing /\ todo = <<>> /\ rest = {} /\ NextModule
      /\ installed' = installed /\ have' = have /\ todo' = todo /\ rest' = rest /\ made' = made
      /\ dirty' = dirty /\ ended' = ended /\ runs' = runs /\ faults' = faults /\ ended = "none"
  BY DEF TestsRun, IndInv, StackOK, Position
<1>2. /\ run' \in [kind : {"none", "tests", "reset"}, at : Nat, last : Workshops \cup {NoWorkshop},
                   setup : BOOLEAN, teardown : BOOLEAN,
                   target : [workshop : Workshops \cup {NoWorkshop}, lab : Nat]]
      /\ run'.at = run.at + 1 /\ run'.at <= Len(Modules) + 1 /\ phase' = "module"
      /\ run'.kind = run.kind /\ run'.last = run.last /\ run'.setup = run.setup
      /\ Position'
  BY <1>1, GoingOn
<1>3. RunOK' /\ StackOK' /\ HaveOK'
  BY <1>1, <1>2 DEF IndInv, RunOK, StackOK, HaveOK, Runnable
<1>4. Prepared'
  <2> SUFFICES ASSUME run'.at <= Len(Modules), run'.last = Workshop'
               PROVE  Wanted(installed, Task(Workshop', 99)) \subseteq have
    BY <1>1, <1>2 DEF Prepared
  <2>1. Workshop' \in Workshops
    BY <1>1, <1>2, ModulesTyped DEF Workshop, IndInv, Position
  <2>2. run.setup /\ run.last = Workshop
    BY <1>1, <1>2, <2>1, ModulesTyped DEF IndInv, Position
  <2> QED
    BY <1>1, <1>2, <2>2 DEF IndInv, Prepared
<1>5. Attributed'
  BY <1>1, <1>2 DEF IndInv, Attributed, Testing
<1> QED
  BY <1>1, <1>2, <1>3, <1>4, <1>5
  DEF IndInv, Removing, SettingUp, Finished, CleanSessionLeavesNothing

LEMMA FinalTeardownKeeps ==
  ASSUME IndInv, FinalTeardown
  PROVE  IndInv'
<1>1. /\ phase = "module" /\ Testing /\ todo = <<>> /\ rest = {} /\ ended = "none"
      /\ installed' = installed /\ have' = have /\ run' = run /\ made' = made
      /\ dirty' = dirty /\ runs' = runs /\ faults' = faults
  BY DEF FinalTeardown, IndInv, StackOK, Position
<1>2. HaveOK'
  BY <1>1 DEF IndInv, HaveOK, Runnable
<1>3. CASE run.teardown /\ run.last # NoWorkshop
  <2>1. phase' = "final" /\ todo' = <<TearDown(run.last)>> /\ rest' = rest /\ ended' = ended
    BY <1>3 DEF FinalTeardown
  <2>2. run.last \in Workshops
    BY <1>3 DEF IndInv, RunOK
  <2>3. /\ todo' \in Seq(Calls) /\ DOMAIN todo' = {1} /\ todo'[1] = TearDown(run.last)
        /\ WellPlaced(installed, todo'[1]) /\ todo'[1].op \in TeardownOps
        /\ Undoing(installed, todo') = Undone(installed, run.last)
    BY <2>1, <2>2, JustTearDown
  <2>4. RunOK'
    BY <1>1, <2>1 DEF IndInv, RunOK
  <2>5. StackOK'
    BY <1>1, <2>1, <2>3 DEF StackOK
  <2>6. Position'
    BY <1>1, <1>3, <2>1 DEF IndInv, Position, Testing
  <2>7. Attributed'
    BY <1>1, <2>1 DEF IndInv, Attributed, Testing
  <2>8. Removing'
    <3>1. Scope' = Undone(installed, run.last)
      BY <1>1, <1>3 DEF Scope, Testing
    <3> QED
      BY <1>1, <2>3, <3>1 DEF Removing
  <2> QED
    BY <1>1, <1>2, <2>1, <2>4, <2>5, <2>6, <2>7, <2>8
    DEF IndInv, Prepared, SettingUp, Finished, CleanSessionLeavesNothing
<1>4. CASE ~(run.teardown /\ run.last # NoWorkshop)
  <2>1. phase' = "idle" /\ ended' = "tests" /\ todo' = <<>> /\ rest' = {}
    BY <1>4 DEF FinalTeardown, End
  <2>2. RunOK' /\ StackOK'
    BY <1>1, <2>1, Nothing DEF IndInv, RunOK, StackOK
  <2>3. Position'
    BY <1>1, <2>1 DEF IndInv, Position
  <2> QED
    BY <1>1, <1>2, <1>4, <2>1, <2>2, <2>3
    DEF IndInv, Prepared, Attributed, Removing, SettingUp, Finished, CleanSessionLeavesNothing
<1> QED
  BY <1>3, <1>4

LEMMA FinalTeardownDoneKeeps ==
  ASSUME IndInv, FinalTeardownDone
  PROVE  IndInv'
<1>1. /\ phase = "final" /\ Testing /\ todo = <<>> /\ rest = {} /\ run.last # NoWorkshop
      /\ phase' = "idle" /\ ended' = "tests" /\ todo' = <<>> /\ rest' = {}
      /\ installed' = installed /\ have' = have /\ run' = run /\ made' = made
      /\ dirty' = dirty /\ runs' = runs /\ faults' = faults
  BY DEF FinalTeardownDone, End, IndInv, StackOK, Position
<1>2. RunOK' /\ StackOK' /\ HaveOK'
  BY <1>1, Nothing DEF IndInv, RunOK, StackOK, HaveOK, Runnable
<1>3. Position'
  BY <1>1 DEF IndInv, Position
<1>4. ~dirty => have \cap Removable = {}
  <2>1. have \cap Removable \cap Undone(installed, run.last) = {}
    BY <1>1, Nothing DEF IndInv, Removing, Scope
  <2> QED
    BY <1>1, <2>1 DEF IndInv, Attributed
<1> QED
  BY <1>1, <1>2, <1>3, <1>4
  DEF IndInv, Prepared, Attributed, Removing, SettingUp, Finished, CleanSessionLeavesNothing

LEMMA KilledKeeps ==
  ASSUME IndInv, Killed
  PROVE  IndInv'
<1>1. /\ phase' = "idle" /\ ended' = "killed" /\ todo' = <<>> /\ rest' = {} /\ made' = {}
      /\ installed' = installed /\ have' = have /\ run' = run
      /\ dirty' = dirty /\ runs' = runs /\ faults' = faults + 1 /\ faults < MaxFaults
  BY DEF Killed, End
<1>2. faults' \in 0..MaxFaults
  BY <1>1, WorkshopsAssumption DEF IndInv, RunOK
<1>3. RunOK' /\ StackOK' /\ HaveOK'
  BY <1>1, <1>2, Nothing DEF IndInv, RunOK, StackOK, HaveOK, Runnable
<1>4. Position'
  BY <1>1 DEF IndInv, Position
<1> QED
  BY <1>1, <1>3, <1>4
  DEF IndInv, Prepared, Attributed, Removing, SettingUp, Finished, CleanSessionLeavesNothing

LEMMA StutterKeeps ==
  ASSUME IndInv, UNCHANGED vars
  PROVE  IndInv'
<1>1. /\ installed' = installed /\ have' = have /\ run' = run /\ phase' = phase /\ todo' = todo
      /\ rest' = rest /\ made' = made /\ dirty' = dirty /\ ended' = ended /\ runs' = runs /\ faults' = faults
  BY DEF vars
<1>2. /\ RunOK' /\ Position'
      /\ Testing' = Testing /\ Scope' = Scope /\ Target' = Target /\ Cleared' = Cleared
  BY <1>1, SamePlace
<1>3. Workshop' = Workshop /\ \A w : Runnable(w)' <=> Runnable(w)
  BY <1>1 DEF Workshop, Runnable
<1>4. StackOK' /\ HaveOK' /\ Prepared' /\ Attributed'
  BY <1>1, <1>2, <1>3 DEF IndInv, StackOK, HaveOK, Prepared, Attributed
<1>5. Removing' /\ SettingUp' /\ Finished'
  BY <1>1, <1>2 DEF IndInv, Removing, SettingUp, Finished, CleanSessionLeavesNothing
<1> QED
  BY <1>2, <1>4, <1>5 DEF IndInv

LEMMA Kept == IndInv /\ [Next]_vars => IndInv'
<1> SUFFICES ASSUME IndInv, [Next]_vars PROVE IndInv'
  OBVIOUS
<1>1. CASE \E setup, teardown \in BOOLEAN : StartTests(setup, teardown)
  BY <1>1, StartTestsKeeps
<1>2. CASE \E target \in Resets : StartReset(target)
  BY <1>2, StartResetKeeps
<1>3. CASE EnterModule
  BY <1>3, EnterModuleKeeps
<1>4. CASE GlobalTeardown
  BY <1>4, GlobalTeardownKeeps
<1>5. CASE TeardownDone
  BY <1>5, TeardownDoneKeeps
<1>6. CASE EnterCall
  BY <1>6, EnterCallKeeps
<1>7. CASE NextLab
  BY <1>7, NextLabKeeps
<1>8. CASE CallReturns
  BY <1>8, CallReturnsKeeps
<1>9. CASE CallRaises \/ CallClashes
  BY <1>9, RaisesKeeps
<1>10. CASE SetupDone
  BY <1>10, SetupDoneKeeps
<1>11. CASE TestsRun
  BY <1>11, TestsRunKeeps
<1>12. CASE FinalTeardown
  BY <1>12, FinalTeardownKeeps
<1>13. CASE FinalTeardownDone
  BY <1>13, FinalTeardownDoneKeeps
<1>14. CASE Killed
  BY <1>14, KilledKeeps
<1>15. CASE UNCHANGED vars
  BY <1>15, StutterKeeps
<1> QED
  BY <1>1, <1>2, <1>3, <1>4, <1>5, <1>6, <1>7, <1>8, <1>9, <1>10, <1>11, <1>12, <1>13, <1>14, <1>15 DEF Next

LEMMA Invariance == Spec => []IndInv
<1>1. Init => IndInv
  BY Initially
<1>2. IndInv /\ [Next]_vars => IndInv'
  BY Kept
<1> QED
  BY <1>1, <1>2, PTL DEF Spec

-----------------------------------------------------------------------------
(* The theorems.                                                           *)

\* The variables hold what their comments say, whatever the workshops.
THEOREM LabTypes == Spec => []TypeOK
<1>1. IndInv => TypeOK
  <2> SUFFICES ASSUME IndInv PROVE TypeOK
    OBVIOUS
  <2>1. have \subseteq Artefacts /\ made \subseteq Artefacts
    BY DEF IndInv, HaveOK, Artefacts
  <2>2. run.at \in 0..(Len(Modules) + 1)
    BY ModulesTyped DEF IndInv, RunOK
  <2>3. ASSUME NEW c \in ToSet(todo)
        PROVE  c.op \in CASE phase = "setup" -> {"execute_setup", "before", "labs", "lab", "after"}
                          [] phase \in {"teardown", "final"} -> {"execute_teardown", "teardown"}
                          [] OTHER -> {}
    <3>1. PICK i \in DOMAIN todo : c = todo[i]
      BY DEF ToSet
    <3>2. phase \in {"setup", "teardown", "final"}
      BY Nothing DEF IndInv, StackOK
    <3> QED
      BY <3>1, <3>2 DEF IndInv, StackOK, SetupOps, TeardownOps
  <2> QED
    BY <2>1, <2>2, <2>3 DEF IndInv, RunOK, TypeOK
<1> QED
  BY <1>1, Invariance, PTL

\* A lab finds what it reads, whatever set-up it is part of and wherever that
\* was asked to stop.
THEOREM LabsAreFed == Spec => []LabsFindTheirInputs
<1>1. IndInv => LabsFindTheirInputs
  <2> SUFFICES ASSUME IndInv, NextIs("lab")
               PROVE  Needs(Head(todo).workshop, Head(todo).lab) \subseteq made
    BY DEF LabsFindTheirInputs
  <2>1. todo # <<>> /\ Head(todo).op = "lab"
    BY DEF NextIs
  <2>2. phase = "setup" /\ Head(todo) = todo[1] /\ 1 \in DOMAIN todo
    BY <2>1, NextCall DEF TeardownOps
  <2>3. Fed(installed, made, todo, 1)
    BY <2>2 DEF IndInv, SettingUp, Builds
  <2>4. PromisedBefore(installed, todo, 1) = {}
    BY DEF PromisedBefore
  <2> QED
    BY <2>1, <2>2, <2>3, <2>4 DEF Fed
<1> QED
  BY <1>1, Invariance, PTL

\* No name that a lab takes is taken, after any number of programs that were
\* killed or failed.
THEOREM LabsStartClean == Spec => []NoLabMeetsLeftovers
<1>1. IndInv => NoLabMeetsLeftovers
  <2> SUFFICES ASSUME IndInv, NextIs("lab"), ~dirty
               PROVE  Clashes(Head(todo)) = {}
    BY DEF NoLabMeetsLeftovers
  <2>1. todo # <<>> /\ Head(todo).op = "lab"
    BY DEF NextIs
  <2>2. phase = "setup" /\ todo \in Seq(Calls) /\ Head(todo) \in Calls
    BY <2>1, NextCall DEF TeardownOps
  <2>3. Promised(installed, todo) \cap Exclusive \cap have = {}
    BY <2>2 DEF IndInv, SettingUp
  <2>4. Promise(installed, Head(todo)) \subseteq Promised(installed, todo)
    <3>1. Promised(installed, todo) = Promise(installed, Head(todo)) \cup Promised(installed, Tail(todo))
      BY <2>1, <2>2, UnionsPop
    <3> QED
      BY <3>1
  <2>5. ToSet(Creates(Head(todo))) = Promise(installed, Head(todo))
    BY <2>1, <2>2, WorkMeans
  <2> QED
    BY <2>3, <2>4, <2>5 DEF Clashes
<1> QED
  BY <1>1, Invariance, PTL

\* Tests never run on part of their workshop.
THEOREM TestsFindTheirWorkshop == Spec => []TestsRunPrepared
<1>1. IndInv => TestsRunPrepared
  BY DEF IndInv, Prepared, TestsRunPrepared
<1> QED
  BY <1>1, Invariance, PTL

\* Of all that tear-downs remove, a session without failed set-ups leaves nothing.
THEOREM SessionsLeaveNothing == Spec => []CleanSessionLeavesNothing
<1>1. IndInv => CleanSessionLeavesNothing
  BY DEF IndInv, Finished
<1> QED
  BY <1>1, Invariance, PTL

\* A reset that returns has reached the lab asked for, and nothing beyond it.
THEOREM ResetsReachTheirLab == Spec => []ResetReachesLab
<1>1. IndInv => ResetReachesLab
  <2> DEFINE w == run.target.workshop
             earlier == MadeBelow(w, run.target.lab)
  <2> SUFFICES ASSUME IndInv, ended = "reset", Runnable(w)
               PROVE  /\ earlier \subseteq have
                      /\ \A p \in ToSet(Prereqs[w]) : Wanted(installed, p) \subseteq have
                      /\ (MadeBy(w) \ earlier) \cap Removable \cap have = {}
    BY DEF ResetReachesLab
  <2>1. run.target \in Tasked /\ w \in Workshops /\ installed \in InstalledSets /\ RunnableOn(installed, w)
    BY DEF IndInv, Position, RunOK, Tasked, Runnable
  <2>2. Wanted(installed, run.target) = earlier \cup UNION {Wanted(installed, p) : p \in ToSet(Prereqs[w])}
    BY <2>1, WantedUnfold
  <2>3. /\ Wanted(installed, run.target) \subseteq have
        /\ have \cap Removable \cap Undone(installed, w) \subseteq Wanted(installed, run.target)
    BY DEF IndInv, Finished
  <2>4. \A p \in ToSet(Prereqs[w]) : Wanted(installed, p) \cap MadeBy(w) \cap Removable = {}
    <3>1. \A p \in ToSet(Prereqs[w]) : \E i \in DOMAIN Prereqs[w] : p = Prereqs[w][i]
      BY <2>1, PrereqsTyped
    <3> QED
      BY <2>1, <3>1, MadeOnce
  <2>5. MadeBy(w) \cap Removable \subseteq Undone(installed, w)
    BY <2>1, UndoneUnfold, Undoable
  <2> HIDE DEF earlier, w
  <2>6. (MadeBy(w) \ earlier) \cap Removable \cap have = {}
    BY <2>2, <2>3, <2>4, <2>5
  <2> QED
    BY <2>2, <2>3, <2>6
<1> QED
  BY <1>1, Invariance, PTL

\* The tear-down of all workshops, with which a session starts, cleans the cluster
\* whatever earlier programs left on it.
THEOREM SessionsStartClean == Spec => GlobalTeardownCleans
<1>1. IndInv /\ [Next]_vars =>
        [phase = "teardown" /\ phase' = "setup" /\ run.kind = "tests" /\ run.last = NoWorkshop
           => have' \cap Removable = {}]_vars
  <2> SUFFICES ASSUME IndInv, [Next]_vars, phase = "teardown", phase' = "setup", Testing, run.last = NoWorkshop
               PROVE  have' \cap Removable = {}
    BY DEF Testing
  <2>1. TeardownDone
    <3>1. ~Raised
      BY DEF Raised, NextModule, End
    <3>2. ~EnterModule /\ ~GlobalTeardown /\ ~EnterCall /\ ~NextLab /\ ~CallReturns
      BY DEF EnterModule, GlobalTeardown, EnterCall, NextLab, CallReturns
    <3>3. ~CallRaises /\ ~CallClashes
      BY <3>1 DEF CallRaises, CallClashes
    <3>4. /\ ~SetupDone /\ ~TestsRun /\ ~FinalTeardown /\ ~FinalTeardownDone /\ ~Killed
      BY DEF SetupDone, TestsRun, FinalTeardown, FinalTeardownDone, Killed, End
    <3>5. /\ \A s, t \in BOOLEAN : ~StartTests(s, t)
          /\ \A t \in Resets : ~StartReset(t)
      BY DEF StartTests, StartReset
    <3>6. ~UNCHANGED vars
      BY DEF vars
    <3> QED
      BY <3>2, <3>3, <3>4, <3>5, <3>6 DEF Next
  <2>2. todo = <<>> /\ rest = {} /\ have' = have
    BY <2>1 DEF TeardownDone
  <2> QED
    BY <2>2, JustCleared
<1> QED
  BY <1>1, Invariance, PTL DEF Spec, GlobalTeardownCleans

=============================================================================
