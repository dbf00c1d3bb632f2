---------------------------- MODULE MCSetupMonitor ----------------------------
EXTENDS SetupMonitor, TLC
=============================================================================
