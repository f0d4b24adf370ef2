--------------------------- MODULE MCComposeServices ---------------------------
(* Model-checking instances of ComposeServices.                               *)
EXTENDS ComposeServices, TLC

CONSTANTS mongodb, mysql, prefect

HealthChecks == <<mongodb, mysql, prefect>>
MySqlFirst   == <<mongodb, mysql>>
=============================================================================
