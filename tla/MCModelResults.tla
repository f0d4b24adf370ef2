--------------------------- MODULE MCModelResults ---------------------------
(* A model-checking instance of ModelResults.  One run makes a Result whose    *)
(* hash and fields differ, one an ImpactResult without a project, one values   *)
(* that no Result takes, and one each an ImpactResult without config, with a   *)
(* config that MongoDB has no encoding for, and with one that does not load;   *)
(* the settings of the environment and those that a caller gives name          *)
(* different databases, and one has no known backend.                          *)
EXTENDS ModelResults, TLC

CONSTANTS t1, t2, env, own, broken, db1, db2, p, f1, f2, x, y

BackendOfSettings == (env :> "local") @@ (own :> "local") @@ (broken :> "unsupported")
ResultsOfSettings == (env :> db1) @@ (own :> db2) @@ (broken :> None)

Is(kind, content) == [kind |-> kind, of |-> content]
Coerced == [type |-> "Result", project_name |-> p, flow_id |-> f1,
            inputs |-> [in |-> Is("frame", x)], outputs |-> [out |-> Is("single", y)],
            files |-> <<>>, others |-> {}, config |-> <<>>, unique_hash |-> Missing]
Impact == [type |-> "ImpactResult", project_name |-> Missing, flow_id |-> f2,
           inputs |-> <<>>,
           outputs |-> [out |-> Is("array", x), text |-> Is("frametext", y)],
           files |-> [archive |-> Is("file", x)],
           others |-> {"pv_collection_isotime", "config"},
           config |-> [gain |-> Is("array", x), note |-> Is("frametext", y)],
           unique_hash |-> Missing]
Incomplete == [Impact EXCEPT !.others = {"pv_collection_isotime"}, !.config = <<>>]
Unstorable == [Impact EXCEPT !.config = [gain |-> Is("object", x)]]
Unloadable == [Impact EXCEPT !.outputs = [out |-> Is("number", y)],
                             !.config = [note |-> Is("scalartext", x)]]
Refused == [Coerced EXCEPT !.inputs = [in |-> Is("scalartext", x)]]
DefaultVariables == [in |-> Is("floattext", x)]
Misnamed == [Coerced EXCEPT !.inputs = [other |-> Is("number", x)]]
AllParameters ==
  {Coerced, Impact, Refused, Misnamed, Incomplete, Unstorable, Unloadable}

Called(through, of, parameters, name, index) ==
  [through |-> through, of |-> of, parameters |-> parameters, task_name |-> name,
   attribute_index |-> index, mistake |-> "none"]
SavingImpact == Called("run_and_return", "Flow", Impact, "save_db_result", "whole")
AllCalls ==
  {SavingImpact,
   Called("run_and_return", "Flow", Coerced, None, "whole"),
   Called("run_and_return", "Flow", Impact, "configure_lume_services", "whole"),
   Called("run_and_return", "Model", Coerced, "load_db_result", "empty"),
   Called("run", "Model", Refused, None, "whole"),
   Called("run_and_return", "Flow", Misnamed, "load_db_result", "whole"),
   Called("run", "Flow", Incomplete, None, "whole"),
   Called("run_and_return", "Flow", Unstorable, "save_db_result", "whole"),
   Called("run_and_return", "Flow", Unloadable, "save_db_result", "whole"),
   [Called("run_and_return", "Flow", Coerced, "unknown", "whole")
      EXCEPT !.mistake = "parameters"]}

CallsOf == (t1 :> AllCalls) @@ (t2 :> {SavingImpact})

Saving == {"save"}
MaxCallsOf == (t1 :> 2) @@ (t2 :> 1)
NoOptions == <<>>
FlowIdOfDeployments == <<f1, f2>>
ProjectOfDeployments == <<p, local>>

ASSUME HashesTellApart
=============================================================================
