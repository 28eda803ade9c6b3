---------------------------- MODULE MetricsSpec ----------------------------
(***************************************************************************)
(* The operator's specification of the metrics to extract, a tree of       *)
(* containers, tags and sensors for each path (metrics.go, buildSpecDB).   *)
(***************************************************************************)
EXTENDS MetricsWalk

CONSTANT SpecSet   \* the operator's file: base paths and the roots of their trees

AdaptPath(kind, path) == [i \in DOMAIN path |-> Adapt(kind, path[i])]

NodeType(node) ==
  CASE node.tag            -> "tag"
    [] Len(node.fields) > 0 -> "container"
    [] OTHER               -> "sensor"

(* A node labelled Tag with Fields: configuration fails. *)
RECURSIVE SpecValid(_)
SpecValid(node) ==
  /\ node.tag => node.fields = << >>
  /\ \A i \in DOMAIN node.fields : SpecValid(node.fields[i])

(* fieldsMapsByType of a node that has these children: by name, and of two *)
(* of one type and one name the later.                                     *)
ByType(children, t) ==
  LET named(nm) == {i \in DOMAIN children :
                      children[i].nodeType = t /\ children[i].name = nm}
  IN [nm \in {children[i].name : i \in {j \in DOMAIN children : children[j].nodeType = t}} |->
        children[CHOOSE i \in named(nm) : \A j \in named(nm) : j <= i]]

RECURSIVE buildSpecDBSubtree(_, _, _)
buildSpecDBSubtree(kind, node, path) ==
  LET here     == IF node.name = "" THEN path ELSE Append(path, node.name)
      children == [i \in DOMAIN node.fields |->
                     buildSpecDBSubtree(kind, node.fields[i], here)]
  IN [id       |-> node.id,
      name     |-> node.name,
      nodeType |-> NodeType(node),
      track    |-> node.track,
      fqName   |-> AdaptPath(kind, here),
      kids     |-> [t \in {"tag", "sensor", "container"} |-> ByType(children, t)]]

buildSpecDB(kind) ==
  [p \in DOMAIN SpecSet |-> buildSpecDBSubtree(kind, SpecSet[p], << >>)]

ASSUME SpecAssumption == \A p \in DOMAIN SpecSet : SpecValid(SpecSet[p])

=============================================================================
