---------------------------- MODULE MCLabSession ----------------------------
(* LabSession on the workshops of the repository. *)
EXTENDS LabSession, Workshops

\* The full cluster, and one without CDSW whose SSB is too old for fraud.
MCInstalledSets == {{"cdsw", "dataviz", "csa16", "csa17"}, {"csa16"}}

\* The directories of tests/ as pytest collects them; two of base's modules.
MCModules == <<"base", "base", "cdc", "dataviz", "edge", "fraud", "nifi", "ssb">>

\* The resets the guides ask for, and two to the end of a workshop.
MCResets == {[workshop |-> w, lab |-> n] :
               <<w, n>> \in {<<"edge", 1>>, <<"nifi", 1>>, <<"nifi", 4>>, <<"ssb", 1>>,
                             <<"ssb", 99>>, <<"cdc", 1>>, <<"dataviz", 1>>, <<"fraud", 99>>}}
=============================================================================
