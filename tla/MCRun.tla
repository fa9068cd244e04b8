-------------------------------- MODULE MCRun --------------------------------
(* Instance of Run for TLC: two stages, the second of which leaves its     *)
(* number of workers out, beside the run without stages.                   *)
EXTENDS Run

MCStageWorkers == <<2, 0>>
MCBursts  == [s \in BOOLEAN |-> IF s THEN 1 ELSE 2]
MCResults == [s \in BOOLEAN |-> IF s THEN 1 ELSE 2]
=============================================================================
