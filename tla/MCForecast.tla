----------------------------- MODULE MCForecast -----------------------------
(* Two forecasts of one invocation, of horizons one and two.               *)
EXTENDS Forecast

MCClasses == {"SEAL", "ForecastEscrowReservation"}
MCHorizon == [f \in Forecasts |-> IF f = "near" THEN 1 ELSE 2]
=============================================================================
