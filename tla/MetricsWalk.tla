---------------------------- MODULE MetricsWalk ----------------------------
(***************************************************************************)
(* How metrics are extracted from a message: the operator's specification, *)
(* a tree of containers, tags and sensors, is walked along with the        *)
(* content of the message (produceMetrics of codec_gpb.go and              *)
(* codec_gnmi.go).                                                         *)
(*                                                                         *)
(* The loops of all active calls are a stack, so that a worker can be      *)
(* interrupted anywhere in them.  A loop is the set of the pieces of work  *)
(* that it has not come to yet, in the order of their places (pos); pieces *)
(* that have the same place come in any order.  A piece says what to do:   *)
(*   row     walk a row                   list    visit a list of structs  *)
(*   kv      visit key-value content      gpb     visit a struct           *)
(*   track   statRecordUpdate             update  an update of gNMI        *)
(*   build   outputHandler.buildMetric    flush   outputHandler.flushMetric *)
(* Go appends to the slice of tags in place: the tags of all levels share  *)
(* one array, and a level only knows how many of them, n, are its own.     *)
(***************************************************************************)
EXTENDS Integers, Sequences, FiniteSets, Functions

CONSTANT Clean(_)   \* external: a name with the characters replaced that
                    \* Prometheus does not allow

NoVal  == 0         \* a field without a value of its own
NilVal == -1        \* an update of gNMI that has no TypedValue at all
NaN    == -2        \* a float64 that is no number; what a compact message passes on
                    \* is a reflect.Value, never a float64

Atom(k, v) == [key |-> k, val |-> v]

(* The orders in which Go may range over a map with these keys. *)
Orders(S) == Bijection(1 .. Cardinality(S), S)

Kinds == {"prometheus", "influx"}

(* adaptTagName and adaptSensorName of the two handlers. *)
Adapt(kind, name) == IF kind = "prometheus" THEN Clean(name) ELSE name

-----------------------------------------------------------------------------
(* Loops *)

Due(loop) == {x \in loop : \A y \in loop : x.pos <= y.pos}

(* A loop that has no work is not begun. *)
Begin(loop) == IF loop = {} THEN << >> ELSE <<loop>>

(* The stack when the loop on its top is done with x. *)
After(x, stack) == Begin(Head(stack) \ {x}) \o Tail(stack)

(* flushMetric, if anything was written. *)
FlushOf(builds, n, ts) ==
  IF builds = {} THEN {} ELSE {[pos |-> 0, do |-> "flush", n |-> n, ts |-> ts]}

-----------------------------------------------------------------------------
(* Key-value content *)

TsOr(ts, parent) == IF ts = 0 THEN parent ELSE ts

HasVal(f) == f.val # NoVal

(* The fields that the specification has in this map, and their places. *)
FieldsNamed(fields, map) == SelectSeq(fields, LAMBDA f : f.name \in DOMAIN map)
PlacesOf(fields, map) == {i \in DOMAIN fields : fields[i].name \in DOMAIN map}

(* The pass that collects tags stops when it has met as many fields as the *)
(* specification has tags at this level.                                   *)
KVTags(node, fields) ==
  LET met == FieldsNamed(fields, node.kids.tag)
      few == SubSeq(met, 1, IF Len(met) < Cardinality(DOMAIN node.kids.tag)
                              THEN Len(met) ELSE Cardinality(DOMAIN node.kids.tag))
      own == SelectSeq(few, HasVal)
  IN [i \in DOMAIN own |-> Atom(node.kids.tag[own[i].name].fqName, own[i].val)]

(* produceGPBKVMetricsForNode after the tags: sensors (of a field, first   *)
(* track and then build), flush, containers.  The flush has the timestamp  *)
(* of the last sensor field there was.                                     *)
VisitKV(it, tags) ==
  LET field(i) == it.fields[i]
      ts(i)    == TsOr(field(i).ts, it.ts)
      sensor   == it.node.kids.sensor
      inside   == it.node.kids.container
      met      == PlacesOf(it.fields, sensor)
      named    == FieldsNamed(it.fields, sensor)
      tracks   == {[pos |-> 2 * i, do |-> "track", ts |-> ts(i),
                    key |-> <<sensor[field(i).name].fqName, tags>>] :
                     i \in {j \in met : sensor[field(j).name].track}}
      builds   == {[pos |-> 2 * i + 1, do |-> "build", n |-> Len(tags), ts |-> ts(i),
                    sensor |-> Atom(sensor[field(i).name].fqName, field(i).val)] :
                     i \in {j \in met : HasVal(field(j))}}
      children == {[pos |-> i, do |-> "kv", node |-> inside[field(i).name],
                    fields |-> field(i).fields, ts |-> ts(i), n |-> Len(tags)] :
                     i \in PlacesOf(it.fields, inside)}
  IN Begin(tracks \union builds)
     \o Begin(FlushOf(builds, Len(tags), TsOr(named[Len(named)].ts, it.ts)))
     \o Begin(children)

-----------------------------------------------------------------------------
(* Compact content: a struct has leaves, by name, and for every container  *)
(* a sequence of structs (one, none if the pointer is nil, or a slice).    *)

(* A field is found by the internal name of its node; a node whose name    *)
(* was not set is looked up under its own name, which no struct has.       *)
Found(map, names, have) == {nm \in DOMAIN map : nm \in names /\ nm \in have}

(* The tags of a struct: Go goes over its maps in any order. *)
GPBTags(kind, it, names) ==
  LET leaf == it.data.leaf
  IN {[i \in DOMAIN s |-> Atom(<<Adapt(kind, s[i])>>, leaf[s[i]])] :
        s \in Orders(Found(it.node.kids.tag, names, DOMAIN leaf))}

(* produceGPBMetricsForNode after the tags, with names the children whose  *)
(* internal names are set: sensors and containers in any order, the        *)
(* structs of a container in theirs.                                       *)
VisitGPB(it, tags, names) ==
  LET leaf   == it.data.leaf
      sub    == it.data.sub
      sensor == it.node.kids.sensor
      inside == it.node.kids.container
      builds == {[pos |-> 0, do |-> "build", n |-> Len(tags), ts |-> it.ts, of |-> nm,
                  sensor |-> Atom(sensor[nm].fqName, leaf[nm])] :
                   nm \in Found(sensor, names, DOMAIN leaf)}
      lists  == {[pos |-> 0, do |-> "list", of |-> nm,
                  loop |-> {[pos |-> j, do |-> "gpb", node |-> inside[nm],
                             data |-> sub[nm][j], ts |-> it.ts, n |-> Len(tags)] :
                              j \in DOMAIN sub[nm]}] :
                   nm \in Found(inside, names, DOMAIN sub)}
  IN Begin(builds) \o Begin(FlushOf(builds, Len(tags), it.ts)) \o Begin(lists)

-----------------------------------------------------------------------------
(* Whole messages *)

(* The tags every message starts with: EncodingPath (and Producer, Target, *)
(* which tell no more apart here).  Keys of tags are paths of names.       *)
BaseTags(m) == <<Atom(<<"EncodingPath">>, m.path)>>

(* produceGPBKVMetrics and produceGPBMetrics: the rows, one by one. *)
Rows(m) == Begin({[pos |-> i, do |-> "row", row |-> m.rows[i]] : i \in DOMAIN m.rows})

(* The keys of a row become tags of its content, if they come first: "We   *)
(* rely on the order, keys first, than content" (codec_gpb.go:772).  Those *)
(* of a compact row always do.                                             *)
KeysAhead(row) == IF row.keysFirst THEN row.keys ELSE << >>
RowTags(kind, row) ==
  LET keys == KeysAhead(row)
  IN [i \in DOMAIN keys |-> Atom(<<Adapt(kind, keys[i].name)>>, keys[i].val)]

(* The content of a row is walked from the node of the path. *)
VisitRow(node, m, row, n) ==
  LET ts == TsOr(row.ts, m.ts)
  IN {IF m.form = "kv"
        THEN [pos |-> 0, do |-> "kv", node |-> node, fields |-> row.content, ts |-> ts, n |-> n]
        ELSE [pos |-> 0, do |-> "gpb", node |-> node, data |-> row.content, ts |-> ts, n |-> n]}

(* dataMsgGNMI.produceMetrics, with n tags from the prefix: every update   *)
(* is built with those and its own, and all are flushed at once with those *)
(* of the prefix.  The handlers do not adapt these names.                  *)
Updates(m, n) ==
  LET all   == {[pos |-> i, do |-> "update", update |-> m.updates[i], ts |-> m.ts, n |-> n] :
                  i \in DOMAIN m.updates}
      valued == {x \in all : HasVal(x.update)}
  IN Begin(all) \o Begin(FlushOf(valued, n, m.ts))

=============================================================================
