---------------------------- MODULE ModelCatalog -----------------------------
(***************************************************************************)
(* What the model database promises its readers, without ids handed from   *)
(* call to call, retries or processes: a catalog of releases that only      *)
(* grows.  A release is a version of a model entry; it is published once,   *)
(* and from then on flows of the scheduling service are bound to it, each   *)
(* flow once and for ever.                                                  *)
(***************************************************************************)
CONSTANTS
  Entries,    \* model entries
  Versions,   \* versions of a model's package
  Projects,   \* Prefect projects
  Ids         \* ids of releases and of flows

VARIABLES
  releases,   \* the published releases
  bindings    \* the flows bound to them

vars == <<releases, bindings>>

Release == [id: Ids, entry: Entries, version: Versions]
Binding == [flow_id: Ids, id: Ids, project_name: Projects]

TypeOK ==
  /\ releases \subseteq Release
  /\ bindings \subseteq Binding

Init == releases = {} /\ bindings = {}

\* Neither the id nor the release itself has been published before.
Publish(r) ==
  /\ r \in Release
  /\ \A s \in releases : s.id # r.id /\ <<s.entry, s.version>> # <<r.entry, r.version>>
  /\ releases' = releases \cup {r}
  /\ UNCHANGED bindings

\* The release is published and the flow is not bound to any.
Bind(b) ==
  /\ b \in Binding
  /\ \E r \in releases : r.id = b.id
  /\ \A a \in bindings : a.flow_id # b.flow_id
  /\ bindings' = bindings \cup {b}
  /\ UNCHANGED releases

\* Any release and any binding of the types above may be next: the bounds only let
\* a model checker find them.
Next ==
  \/ \E r \in releases' : Publish(r)
  \/ \E b \in bindings' : Bind(b)

Spec == Init /\ [][Next]_vars
=============================================================================
