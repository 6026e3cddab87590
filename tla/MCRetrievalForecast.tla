------------------------ MODULE MCRetrievalForecast ------------------------
(* Two instances checked side by side: retrieval sessions, or forecasts.   *)
EXTENDS MCRetrieval, MCForecast

VARIABLE part \* the system that runs: the other one never takes a step

PartInit ==
  /\ part \in {"retrieval", "forecast"}
  /\ RetrievalInit /\ Init
  /\ part = "forecast" => published = <<First>>

PartNext ==
  \/ part = "retrieval" /\ UNCHANGED <<part, vars>> /\ RetrievalNext
  \/ part = "forecast" /\ UNCHANGED <<part, retrievalVars>> /\ Next

PartSpec == PartInit /\ [][PartNext]_<<part, retrievalVars, vars>>
=============================================================================
