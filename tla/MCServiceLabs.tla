---------------------------- MODULE MCServiceLabs ----------------------------
EXTENDS ServiceLabs

\* On both sides of the versions at which ssb.py changes its calls.
MCCsaVersions == {6, 7, 9}
MCWorkshopIds == {"ssb", "cdc", "fraud", "nifi", "dataviz"}
=============================================================================
