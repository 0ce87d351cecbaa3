-------------------------- MODULE MCManagedCluster --------------------------
EXTENDS ManagedCluster

\* A second request comes only where nothing crashes, no wait fails and the app is not stopped.
OneOrCalm ==
    reloads + memoryRestarts <= 1 \/ (Crashes = 0 /\ setbacks = 0 /\ ~isShuttingDown)
=============================================================================
