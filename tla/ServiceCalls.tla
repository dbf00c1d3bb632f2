----------------------------- MODULE ServiceCalls -----------------------------
(***************************************************************************)
(* One process of run_workshop: it executes the statements of a set-up or   *)
(* of a teardown one by one; a call that a service refuses, that does not   *)
(* reach it or whose answer is lost raises and ends the process.            *)
(***************************************************************************)
EXTENDS LabScripts, Faults

VARIABLES
  workshop, \* the workshop
  tls,      \* is_tls_enabled()
  phase,    \* the process is a "setup" or a "teardown"
  status,   \* "running", "done" or "raised"
  pc,       \* the statement it executes
  step,     \* where it is inside the statement
  todo,     \* what a loop has still to visit
  hurt,     \* a call of this process was lost, or refused and the refusal swallowed
  there     \* the artefacts that exist

processVars == <<workshop, tls, phase, status, pc, step, todo, hurt>>

Script == IF phase = "setup" THEN SetupOf(workshop, tls) ELSE TeardownOf(workshop)

Running == status = "running" /\ pc <= Len(Script)
Now(op) == Running /\ Script[pc].op = op
Arg == Script[pc].arg
The == CHOOSE x \in Arg : TRUE

\* The statement is done; it goes on; it raises.
Done == /\ pc' = pc + 1 /\ step' = "list" /\ todo' = {}
        /\ UNCHANGED <<workshop, tls, phase, status, hurt, faults>>
GoOn == UNCHANGED <<workshop, tls, phase, status, pc, hurt, faults>>
Raise == status' = "raised" /\ step' = "list" /\ todo' = {} /\ UNCHANGED <<workshop, tls, phase, pc>>
Refused == Raise /\ UNCHANGED <<hurt, faults>>
Lost == Raise /\ Fault /\ hurt' = TRUE

\* A loop lists what it will visit, and ends when it has visited all.
List(S) == step = "list" /\ todo' = S /\ step' = "call" /\ GoOn
Visited(x) == todo' = todo \ {x} /\ step' = "call" /\ GoOn
LoopEnds == step = "call" /\ todo = {} /\ Done

\* Uses(x), but for the controllers that only a cluster with TLS has.
Needs(x) == Uses(x) \ (IF tls THEN {} ELSE {"ssl", "keytab_svc"})

ProcessEnds ==
  /\ status = "running" /\ pc > Len(Script) /\ status' = "done"
  /\ UNCHANGED <<workshop, tls, phase, pc, step, todo, hurt, faults>>
=============================================================================
