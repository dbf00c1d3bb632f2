------------------------------ MODULE MCProvisioning ------------------------------
EXTENDS Provisioning

\* A cluster with nearly everything; one with EFM, which gets Kafka as a
\* requirement only; and one whose Atlas turns errexit off.
MCSelections ==
  {{"BASE", "RANGER", "NIFI", "KAFKA", "FLINK", "KNOX", "CDSW"}, {"SMM", "CEM", "CDSW"},
   {"SRM", "ATLAS", "NIFI", "FLINK"}}
MCReleases == {6, 7, 10}
=============================================================================
