---------------------------- MODULE MCDeployRun ----------------------------
(***************************************************************************)
(* An instance of DeployRun for TLC.                                       *)
(***************************************************************************)
EXTENDS DeployRun

CONSTANTS f, g, d, e, w

\* The resources deployed alone are redeployed often, those deployed together
\* once.
Often == [r \in Resource |-> IF r \in {f, w} THEN 3 ELSE IF r = e THEN 2 ELSE 1]

\* A function with one manifest; a durable function with one, and without
\* schedulers; a frontend and no manifest; and a function and a durable function
\* with a manifest each, with an invalid scheduler in the second, or without
\* waiting.
SomePlans ==
    { [deploys |-> {f}, manifests |-> <<{f}>>, invalid |-> <<{}>>, wait |-> "yes"],
      [deploys |-> {e}, manifests |-> <<{e}>>, invalid |-> <<{}>>, wait |-> "yes"],
      [deploys |-> {w}, manifests |-> << >>, invalid |-> << >>, wait |-> "yes"],
      [deploys |-> {g, d}, manifests |-> <<{g}, {d}>>, invalid |-> <<{}, {d}>>, wait |-> "yes"],
      [deploys |-> {g, d}, manifests |-> <<{g}, {d}>>, invalid |-> <<{}, {}>>, wait |-> "no"] }
=============================================================================
