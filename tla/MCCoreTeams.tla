---------------------------- MODULE MCCoreTeams ----------------------------
EXTENDS MCCoreThreads, CoreTeams
=============================================================================
