-------------------------------- MODULE MCDeploy --------------------------------
EXTENDS Deploy

CONSTANTS d1, d2, d3, r1, r2

\* The third deploys the release of the first again.
MCReleaseOf == d1 :> r1 @@ d2 :> r2 @@ d3 :> r1
=============================================================================
