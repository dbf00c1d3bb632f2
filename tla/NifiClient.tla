------------------------------ MODULE NifiClient ------------------------------
(***************************************************************************)
(* labs/utils/nifi.py with the NiFi behind it: controller services that are *)
(* enabled, processors that run, and the order in which NiFi lets both be   *)
(* stopped and deleted.                                                     *)
(***************************************************************************)
EXTENDS ServiceCalls

CONSTANT StartRetries  \* startup_retries of fraud's lab 4

ASSUME StartAssumption == StartRetries \in Nat

VARIABLES
  enabled, \* the controller services that are enabled
  live,    \* the processors that run
  failed,  \* the loop of the teardown: a controller could not be disabled
  tries    \* lab 4: retries left

canvasVars == <<enabled, live, failed, tries>>

\* Who keeps a controller service from being disabled.
ReferencedBy(c) == {x \in enabled \cup live : c \in Needs(x)}

\* _create_controller: one that has the name is disabled, updated and enabled
\* again; else it is created, updated and enabled.
CreateController ==
  /\ Now("control")
  /\ IF ~(Needs(The) \subseteq there) \/ (The \in enabled /\ ReferencedBy(The) # {})
     THEN Refused /\ UNCHANGED <<there, enabled>>
     ELSE /\ there' = there \cup {The}
          /\ \/ enabled' = enabled \cup {The} /\ (Done \/ Lost)
             \/ enabled' = enabled \ {The} /\ Lost
  /\ UNCHANGED <<live, failed, tries>>

\* Mutant: the retries are compared before they are counted down.
StartFlowOnceMore ==
  /\ Now("start") /\ UNCHANGED <<there, enabled, failed>>
  /\ \/ live' = Processors \cap there /\ Done /\ tries' = StartRetries
     \/ /\ live' = (Processors \cap there) \ {"generate"} /\ Fault
        /\ UNCHANGED <<workshop, tls, phase, hurt>>
        /\ IF tries < 0
           THEN pc' = pc + 1 /\ tries' = StartRetries /\ UNCHANGED <<status, step, todo>>
           ELSE tries' = tries - 1 /\ UNCHANGED <<status, pc, step, todo>>

\* Lab 4 starts its group; the scripted processor may fail to load its script
\* (NIFI-11148).  After the last retry the lab goes on all the same.
StartFlow ==
  /\ Now("start") /\ UNCHANGED <<there, enabled, failed>>
  /\ \/ live' = Processors \cap there /\ Done /\ tries' = StartRetries
     \/ /\ live' = (Processors \cap there) \ {"generate"} /\ Fault
        /\ UNCHANGED <<workshop, tls, phase, hurt>>
        /\ IF tries = 0
           THEN pc' = pc + 1 /\ tries' = StartRetries /\ UNCHANGED <<status, step, todo>>
           ELSE tries' = tries - 1 /\ UNCHANGED <<status, pc, step, todo>>

\* schedule_processor, schedule_process_group(root, True): edge and nifi start
\* what they have made so far.
RunProcessors ==
  /\ Now("run") /\ UNCHANGED <<there, enabled, failed, tries>>
  /\ live' = live \cup Arg /\ (Done \/ Lost)

\* schedule_process_group(root, False) returns when no processor has a thread.
StopCanvas ==
  /\ Now("halt") /\ UNCHANGED <<there, enabled, failed, tries>>
  /\ live' = {} /\ (Done \/ Lost)

\* Mutant: a controller that could not be disabled is left.
DisableOnce ==
  /\ Now("disable") /\ UNCHANGED <<there, live, tries, failed>>
  /\ \/ List(Controllers \cap there) /\ UNCHANGED enabled
     \/ LoopEnds /\ UNCHANGED enabled
     \/ /\ step = "call"
        /\ \E c \in todo :
             /\ enabled' = IF ReferencedBy(c) # {} THEN enabled ELSE enabled \ {c}
             /\ Visited(c)

\* Mutant: the flag is not reset for the next round.
DisableStuck ==
  /\ Now("disable") /\ UNCHANGED <<there, live, tries>>
  /\ \/ List(Controllers \cap there) /\ UNCHANGED <<enabled, failed>>
     \/ step = "call" /\ ~failed /\ LoopEnds /\ UNCHANGED <<enabled, failed>>
     \/ /\ step = "call" /\ todo = {} /\ failed
        /\ step' = "list" /\ UNCHANGED <<todo, enabled, failed>> /\ GoOn
     \/ /\ step = "call"
        /\ \E c \in todo :
             /\ enabled' = IF ReferencedBy(c) # {} THEN enabled ELSE enabled \ {c}
             /\ failed' = (failed \/ ReferencedBy(c) # {})
             /\ Visited(c)

\* The loop of fraud's teardown: rounds over all controllers, until none is
\* refused because it is referenced.  Other errors are swallowed.
DisableControllers ==
  /\ Now("disable") /\ UNCHANGED <<there, live, tries>>
  /\ \/ List(Controllers \cap there) /\ UNCHANGED <<enabled, failed>>
     \/ ~failed /\ LoopEnds /\ UNCHANGED <<enabled, failed>>
     \/ /\ step = "call" /\ todo = {} /\ failed
        /\ step' = "list" /\ failed' = FALSE /\ UNCHANGED <<todo, enabled>> /\ GoOn
     \/ /\ step = "call"
        /\ \E c \in todo :
             /\ enabled' = IF ReferencedBy(c) # {} THEN enabled ELSE enabled \ {c}
             /\ failed' = (failed \/ ReferencedBy(c) # {})
             /\ Visited(c)
     \/ /\ step = "call" /\ Fault /\ UNCHANGED <<enabled, failed>>
        /\ \E c \in todo : todo' = todo \ {c}
        /\ hurt' = TRUE /\ UNCHANGED <<workshop, tls, phase, status, pc, step>>

\* What lies in a group goes with it.
Inside(g) == {x \in Artefacts : g \in Uses(x)}

\* delete_process_group(force=True) disables the controllers of the group one
\* by one, in no order: it may fail when one of them is still referenced.
DeleteGroup ==
  /\ Now("ungroup") /\ UNCHANGED <<live, failed, tries>>
  /\ IF The \notin there THEN Done /\ UNCHANGED <<there, enabled>>
     ELSE \/ /\ there' = there \ (Inside(The) \cup {The}) /\ enabled' = enabled \ Inside(The)
             /\ Done \/ Lost
          \/ /\ \E c \in Inside(The) \cap enabled : ReferencedBy(c) # {}
             /\ Refused /\ UNCHANGED <<there, enabled>>

Canvas ==
  \/ CreateController \/ StartFlow \/ RunProcessors \/ StopCanvas
  \/ DisableControllers \/ DeleteGroup
=============================================================================
