----------------------------- MODULE MCForecast -----------------------------
(* An instance of ForecastPage for TLC.                                    *)
EXTENDS ForecastPage, TLC

ScenarioSymmetry == Permutations(Params)

=============================================================================
