---------------------------- MODULE MCPipelines -----------------------------
(***************************************************************************)
(* The pipelines, for TLC: those whose steps share output names are        *)
(* checked without retries, which do not touch the outputs.                *)
(***************************************************************************)
EXTENDS Pipelines

MCInit ==
  /\ Init
  /\ (\A s \in Steps : output[s] = s) \/ (\A s \in Steps : strategy[s] # "retry")

MCSpec == MCInit /\ [][Next]_vars /\ Fairness
=============================================================================
