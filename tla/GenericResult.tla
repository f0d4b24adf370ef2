---------------------------- MODULE GenericResult ----------------------------
(***************************************************************************)
(* Results as values: lume_services/results/generic.py, impact.py and the  *)
(* dictionary helpers of lume_services/utils.py.  A result is built from   *)
(* what a task returns, hashed, turned into a document of MongoDB, and     *)
(* built again from the document.  This module has no variables.           *)
(*                                                                         *)
(* A value of a dictionary is a record of its kind and its content.  The   *)
(* kinds are what the conversions tell apart:                              *)
(*   number, text, list    kept as they are                                *)
(*   floattext             a string that float() reads and JSON does not   *)
(*   single                a numpy array of one element                    *)
(*   scalartext            a string that is JSON, but no DataFrame's       *)
(*   frametext             a string that is the JSON of a DataFrame        *)
(*   array, frame          a numpy array, a DataFrame with integer index   *)
(*   strframe              a DataFrame whose index are strings             *)
(*   file                  a File object                                   *)
(*   binary, filerep       what MongoDB holds for an array and for a file  *)
(*   object                anything that has no encoding in MongoDB        *)
(***************************************************************************)
EXTENDS Integers, FiniteSets

CONSTANTS
  Contents,      \* contents of values, told apart by equality only
  FlowIds,       \* flow ids: non-empty strings
  NumericIds,    \* those of them that are JSON, such as "12"
  Projects,      \* names of Prefect projects, and of collections of MongoDB
  local,         \* the default project name
  Missing        \* what a caller does not give

ASSUME ResultAssumption ==
  /\ NumericIds \subseteq FlowIds
  /\ local \in Projects
  /\ Missing \notin FlowIds \cup Projects

Kinds == {"number", "text", "list", "floattext", "single", "scalartext",
          "frametext", "array", "frame", "strframe", "file", "binary", "filerep",
          "object"}
Values == [kind : Kinds, of : Contents]
IsDictionary(dictionary) == dictionary \in [DOMAIN dictionary -> Values]

\* Of a key that both dictionaries have, the first says the value.
Merged(first, second) ==
  [key \in DOMAIN first \cup DOMAIN second |->
     IF key \in DOMAIN first THEN first[key] ELSE second[key]]

Renamed(table, value) ==
  IF value.kind \in DOMAIN table
  THEN [value EXCEPT !.kind = table[value.kind]]
  ELSE value

\* A dictionary is a function from its keys; the helpers below convert value
\* by value, as the nested convert_values does.
RenamedAll(table, dictionary) ==
  [key \in DOMAIN dictionary |-> Renamed(table, dictionary[key])]

\* get_bson_dict: arrays are pickled, data frames become JSON text, files their
\* representation.
BsonKind == [array |-> "binary", single |-> "binary", frame |-> "frametext",
             strframe |-> "frametext", file |-> "filerep"]
get_bson_dict(dictionary) == RenamedAll(BsonKind, dictionary)

\* load_db_dict: the reverse for bytes and files.  Every string that is JSON is
\* handed to DataFrame, which reads the index of a frame as strings and raises
\* ValueError for a JSON scalar.
LoadedKind == [binary |-> "array", frametext |-> "strframe", filerep |-> "file"]
LoadRaises(dictionary) ==
  \E key \in DOMAIN dictionary : dictionary[key].kind = "scalartext"
load_db_dict(dictionary) == RenamedAll(LoadedKind, dictionary)

\* get_jsonable_dict: arrays become lists, data frames their JSON.
JsonKind == [array |-> "list", single |-> "list", frame |-> "frametext",
             strframe |-> "frametext"]
get_jsonable_dict(dictionary) == RenamedAll(JsonKind, dictionary)

\* fingerprint_dict raises TypeError for what json.dumps does not take.
FingerprintRaises(dictionary) ==
  \E key \in DOMAIN dictionary :
     dictionary[key].kind \in {"file", "binary", "object"}

\* The fields inputs and outputs: Dict[str, Union[float, str, ndarray, list,
\* DataFrame]].  float is tried first, and takes an array of one element and a
\* string like "nan"; no member of the union takes a file or another object.
FieldKind == [floattext |-> "number", single |-> "number"]
FieldTypes == {"number", "text", "list", "array", "frame", "strframe"}
FieldOf(dictionary) == RenamedAll(FieldKind, load_db_dict(dictionary))
FieldRaises(dictionary) ==
  \/ LoadRaises(dictionary)
  \/ \E key \in DOMAIN dictionary : FieldOf(dictionary)[key].kind \notin FieldTypes

-----------------------------------------------------------------------------
\* Classes of results: the fields that a class has of its own, which of them are
\* files, and those that must be given.  config is a dictionary of any values, which
\* no conversion of fields touches; the time is only there or not.
ResultTypes == {"Result", "ImpactResult"}
FileFields == [Result |-> {}, ImpactResult |-> {"archive", "plot_file"}]
OtherFields == [Result |-> {}, ImpactResult |-> {"pv_collection_isotime", "config"}]
RequiredFields ==
  [Result |-> {}, ImpactResult |-> {"archive", "pv_collection_isotime", "config"}]

\* validate_plot_file and validate_archive_file: a dictionary becomes a file.
FilesOf(files) == RenamedAll([filerep |-> "file"], files)

\* get_unique_hash and the hash of validate_all: what the json of inputs,
\* outputs and flow id tells apart.  md5 is taken as free of collisions.
HashOf(inputs, outputs, flow) ==
  <<get_jsonable_dict(inputs), get_jsonable_dict(outputs), flow>>

\* What a caller may pass to a class of results: others are the fields of the class's
\* own that are given and no files, and config is empty when it is not given.
\* unique_hash is Missing unless the values come from a document.
IsGiven(given) ==
  /\ given \in
       [type : ResultTypes, project_name : Projects \cup {Missing},
        flow_id : FlowIds \cup {Missing}, inputs : {given.inputs},
        outputs : {given.outputs}, files : {given.files},
        others : SUBSET {"pv_collection_isotime", "config"}, config : {given.config},
        unique_hash : {Missing}]
  /\ IsDictionary(given.inputs) /\ IsDictionary(given.outputs)
  /\ IsDictionary(given.files) /\ IsDictionary(given.config)

\* The prefect context is [flow_id, project_name].
FlowFor(given, prefect_context) ==
  IF given.flow_id # Missing THEN given.flow_id ELSE prefect_context.flow_id

\* What validate_all does to the values before the fields are validated: the
\* hash of a document is kept, and a new one is that of the raw values.
ValidateRaises(given, prefect_context) ==
  \/ FlowFor(given, prefect_context) = Missing
  \/ /\ given.unique_hash = Missing
     /\ \/ DOMAIN given.inputs = {} \/ DOMAIN given.outputs = {}
        \/ FingerprintRaises(given.inputs) \/ FingerprintRaises(given.outputs)

UniqueHash(given, prefect_context) ==
  IF given.unique_hash # Missing
  THEN given.unique_hash
  ELSE HashOf(given.inputs, given.outputs, FlowFor(given, prefect_context))

ProjectFor(given, prefect_context) ==
  IF given.project_name # Missing THEN given.project_name
  ELSE IF prefect_context.project_name # Missing THEN prefect_context.project_name
       ELSE local

\* Result(**given) and ImpactResult(**given): whether it raises, and the object.
ConstructRaises(type, given, prefect_context) ==
  \/ ValidateRaises(given, prefect_context)
  \/ FieldRaises(given.inputs) \/ FieldRaises(given.outputs)
  \/ ~ RequiredFields[type] \subseteq DOMAIN given.files \cup given.others
  \/ ~ DOMAIN given.files \subseteq FileFields[type]
  \/ ~ given.others \subseteq OtherFields[type]

Construct(type, given, prefect_context) ==
  [type         |-> type,
   project_name |-> ProjectFor(given, prefect_context),
   flow_id      |-> FlowFor(given, prefect_context),
   inputs       |-> FieldOf(given.inputs),
   outputs      |-> FieldOf(given.outputs),
   files        |-> FilesOf(given.files),
   others       |-> given.others,
   config       |-> given.config,
   unique_hash  |-> UniqueHash(given, prefect_context)]

\* A bug that the properties are to notice: the hash is taken again over the
\* validated fields.
unique_rep_of_fields(result) ==
  [project_name |-> result.project_name, result_type_string |-> result.type,
   unique_hash |-> HashOf(result.inputs, result.outputs, result.flow_id)]

\* Result.unique_rep: project, class and hash of a result.
unique_rep(result) ==
  [project_name |-> result.project_name, result_type_string |-> result.type,
   unique_hash |-> result.unique_hash]

\* Result.get_db_dict, which insert hands to the service.  insert_one takes the
\* project out of it as the name of the collection: a document has none.
get_db_dict(result) ==
  [type        |-> result.type,
   flow_id     |-> result.flow_id,
   inputs      |-> get_bson_dict(result.inputs),
   outputs     |-> get_bson_dict(result.outputs),
   files       |-> get_bson_dict(result.files),
   others      |-> result.others,
   config      |-> get_bson_dict(result.config),
   unique_hash |-> result.unique_hash]

\* insert_one raises for a document that MongoDB has no encoding for.
InsertRaises(document) ==
  \E key \in DOMAIN document.config : document.config[key].kind = "object"

\* What a class of results is given of a document, all values loaded or as they are.
GivenBy(project, document) ==
  [project_name |-> project, flow_id |-> document.flow_id,
   inputs |-> document.inputs, outputs |-> document.outputs,
   files |-> document.files, others |-> document.others, config |-> document.config,
   unique_hash |-> document.unique_hash]
Loaded(document) ==
  [document EXCEPT !.inputs = load_db_dict(@), !.outputs = load_db_dict(@),
                   !.files = load_db_dict(@), !.config = load_db_dict(@)]

\* The context of Prefect outside of a server run has no flow id and no project.
NoContext == [flow_id |-> Missing, project_name |-> Missing]

\* Result.load_from_query builds the class it was called on from the document,
\* after all strings of the document have been looked at: a numeric flow id is JSON,
\* and so may be what config holds.
LoadDocumentRaises(type, project, document) ==
  \/ document.flow_id \in NumericIds
  \/ LoadRaises(document.inputs) \/ LoadRaises(document.outputs)
  \/ LoadRaises(document.config)
  \/ ConstructRaises(type, GivenBy(project, Loaded(document)), NoContext)
LoadDocument(type, project, document) ==
  Construct(type, GivenBy(project, Loaded(document)), NoContext)

\* Model.get_results builds the class that the document names, without a project.
OfDocumentRaises(document) ==
  ConstructRaises(document.type, GivenBy(Missing, document), NoContext)
OfDocument(document) ==
  Construct(document.type, GivenBy(Missing, document), NoContext)

\* Two results that say the same as far as their JSON goes.
SameJson(r, s) ==
  /\ r.flow_id = s.flow_id
  /\ get_jsonable_dict(r.inputs) = get_jsonable_dict(s.inputs)
  /\ get_jsonable_dict(r.outputs) = get_jsonable_dict(s.outputs)
=============================================================================
