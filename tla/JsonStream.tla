----------------------------- MODULE JsonStream -----------------------------
(***************************************************************************)
(* The JSON other outputs make of a GPB message (produceByteStream of      *)
(* codec_gpb.go): key-value fields are collected in a drawer, where a name *)
(* that repeats has a list under a name of its own; the rows of a compact  *)
(* message are taken from its decoded table, or dumped as they are.        *)
(*                                                                         *)
(* A drawer has entries (s) and the names that are lists by now            *)
(* (placeInArrayMap); ok, until filling it panics.  An entry is a leaf, a  *)
(* drawer or a list of these.                                              *)
(***************************************************************************)
EXTENDS MetricsWalk, SequencesExt

CONSTANT Edit(_)   \* a name with CODEC_GPB_PIPELINE_EDIT_SUFFIX

EmptyDrawer == [s |-> << >>, placeInArray |-> {}, ok |-> TRUE]

(* The entry of a name that is met again goes into a list, in place of     *)
(* what may be under the name of the list.                                 *)
CreateList(d, nm) ==
  IF nm \in DOMAIN d.s /\ nm \notin d.placeInArray
    THEN [d EXCEPT !.s = (Edit(nm) :> [list |-> <<@[nm]>>]) @@ Restrict(@, DOMAIN @ \ {nm}),
                   !.placeInArray = @ \union {nm}]
    ELSE d

(* A list takes no values that are nil.  If there is no list under its     *)
(* name any more, the type assertion panics.                               *)
AppendToList(d, nm, v) ==
  CASE v = [leaf |-> NoVal]      -> d
    [] v # [leaf |-> NoVal] /\ Edit(nm) \in DOMAIN d.s /\ DOMAIN d.s[Edit(nm)] = {"list"} ->
         [d EXCEPT !.s[Edit(nm)].list = Append(@, v)]
    [] OTHER -> [d EXCEPT !.ok = FALSE]

(* Faulty: a name that repeats keeps its latest value only. *)
PlaceLatest(d, nm, v) == [d EXCEPT !.s = (nm :> v) @@ @]

(* Put value v under name nm. *)
Place(d, nm, v) ==
  IF nm \notin DOMAIN d.s /\ nm \notin d.placeInArray
    THEN [d EXCEPT !.s = (nm :> v) @@ @]
    ELSE AppendToList(CreateList(d, nm), nm, v)

RECURSIVE telemetryKvToSockDrawer(_)
telemetryKvToSockDrawer(fields) ==
  FoldLeft(LAMBDA d, f :
             LET inner == telemetryKvToSockDrawer(f.fields)
                 v     == IF f.fields = << >> THEN [leaf |-> f.val] ELSE [drawer |-> inner.s]
             IN IF ~d.ok THEN d
                  ELSE IF ~inner.ok THEN inner
                  ELSE Place(d, f.name, v),
           EmptyDrawer, fields)

(* json.Marshal fails if a value anywhere in it is not a number. *)
RECURSIVE Marshals(_)
Marshals(v) ==
  CASE DOMAIN v = {"leaf"}   -> v.leaf # NaN
    [] DOMAIN v = {"list"}   -> \A i \in DOMAIN v.list : Marshals(v.list[i])
    [] DOMAIN v = {"drawer"} -> \A k \in DOMAIN v.drawer : Marshals(v.drawer[k])

(* What the JSON of a row has of its keys or of its content: nothing if    *)
(* there are none, or if they do not marshal; then that is counted.        *)
NoJSON == [none |-> TRUE]
JSONOf(fields) ==
  LET all == [drawer |-> telemetryKvToSockDrawer(fields).s]
  IN IF fields = << >> \/ ~Marshals(all) THEN NoJSON ELSE all

(* codecGPBJSONifyDataGPBKV, and whether it panics. *)
JSONifyGPBKV(m) ==
  [i \in DOMAIN m.rows |-> [ts      |-> m.rows[i].ts,
                            keys    |-> JSONOf(m.rows[i].keys),
                            content |-> JSONOf(m.rows[i].content)]]
JSONifyPanics(m) ==
  \E i \in DOMAIN m.rows : \E fields \in {m.rows[i].keys, m.rows[i].content} :
    ~telemetryKvToSockDrawer(fields).ok

(* codecGPBJSONifyDataGPB, given the rows of the decoded table, or none    *)
(* when there is no table: then the rows are dumped as they came.          *)
JSONifyGPB(m, decoded) ==
  LET rows == IF decoded = {} THEN DOMAIN m.rows ELSE decoded
      seq  == SetToSortSeq(rows, LAMBDA a, b : a < b)
  IN [i \in DOMAIN seq |->
        [ts |-> m.rows[seq[i]].ts, keys |-> seq[i], content |-> seq[i]]]

=============================================================================
