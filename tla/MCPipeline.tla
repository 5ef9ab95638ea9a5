------------------------------ MODULE MCPipeline ------------------------------
(* Four pages over three fetch workers and two extract workers: a worker    *)
(* can take a second page while another is still with its first, and one    *)
(* page of each fate fits in a run.                                         *)
EXTENDS Pipeline
=============================================================================
