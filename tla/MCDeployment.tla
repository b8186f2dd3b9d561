---------------------------- MODULE MCDeployment ----------------------------
(***************************************************************************)
(* The scripts and test-setup share no state, so the run takes the union   *)
(* of their behaviours, not the product: each moves only while the other   *)
(* has done nothing yet.                                                   *)
(***************************************************************************)
EXTENDS VerifyDeploy, TestSetup

MCInit == DeploymentInit /\ TestSetupInit

MCNext ==
    \/ TestSetupInit /\ DeploymentNext /\ UNCHANGED setupVars
    \/ DeploymentInit /\ TestSetupNext /\ UNCHANGED vars

MCSpec == MCInit /\ [][MCNext]_<<vars, setupVars>> /\ DeploymentFairness
=============================================================================
