---------------------------- MODULE MCMappingJobs ----------------------------
(* One or two mapping jobs for two workers.                                *)
EXTENDS MappingJobs

CONSTANTS j1, j2, w1, w2
=============================================================================
