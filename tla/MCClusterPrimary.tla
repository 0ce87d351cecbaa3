-------------------------- MODULE MCClusterPrimary --------------------------
EXTENDS ClusterPrimary
=============================================================================
