--------------------------- MODULE MCPackageSource ---------------------------
(* A model-checking instance of PackageSource: two versions of a package, a    *)
(* second build of one of them with other dependencies, one of which it imports, *)
(* a first build that lacks its _image, and a tarball whose environment.yml     *)
(* lacks its channels.                                                         *)
EXTENDS PackageSource

CONSTANTS python, numpy, epics

MentionsOf == [d \in Dependencies |-> IF d = python THEN {"python"} ELSE {}]

Sections == {"name", "channels", "dependencies", "license"}
Release(version, keys, lists, conda, pips, imports_, image_) ==
  [version |-> version, has_yaml |-> TRUE, keys |-> keys, lists |-> lists,
   conda |-> conda, pip |-> pips, imports |-> imports_, image |-> image_]
First == Release(1, Sections, {"pip"}, {python, numpy}, {epics}, {numpy}, TRUE)
AllReleases ==
  {First,
   Release(2, Sections, {}, {python}, {}, {}, FALSE),
   Release(2, Sections, {"pip"}, {numpy}, {epics}, {epics}, TRUE),
   Release(2, Sections \ {"channels"}, {}, {}, {}, {}, TRUE)}
=============================================================================
