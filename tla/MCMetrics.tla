------------------------------ MODULE MCMetrics ------------------------------
(* Two workers, a specification with tags, sensors and a list, and small  *)
(* feeds of messages in every encoding.                                   *)
EXTENDS MetricsOutput

Leaf(nm, tag, track) == [id |-> nm, name |-> nm, tag |-> tag, track |-> track, fields |-> << >>]
Cont(id, nm, fs) == [id |-> id, name |-> nm, tag |-> FALSE, track |-> FALSE, fields |-> fs]

(* Paths are numbers: 1 is the one that is specified. *)
MCSpecSet ==
  <<Cont("root", "", <<Leaf("n-a", TRUE, FALSE), Leaf("s", FALSE, TRUE),
                       Cont("list", "c", <<Leaf("q", TRUE, FALSE), Leaf("v", FALSE, FALSE)>>)>>)>>
MCClean(nm) == IF nm = "n-a" THEN "n_a" ELSE nm
MCEdit(nm) == nm \o "_PIPELINE_EDIT"

F(nm, v, ts) == [name |-> nm, val |-> v, ts |-> ts, fields |-> << >>]
G(nm, fs)    == [name |-> nm, val |-> 0, ts |-> 0, fields |-> fs]
Elem(q, v)   == G("c", <<F("v", v, 0), F("q", q, 0)>>)

KVRow(ts, keysFirst, keys, content) ==
  [form |-> "kv", path |-> 1, ts |-> ts,
   rows |-> <<[ts |-> 0, keysFirst |-> keysFirst, keys |-> keys, content |-> content]>>]
KV(a, ts, content) ==
  KVRow(ts, TRUE, <<F("k", 1, 0)>>, <<F("s", 5, ts), F("n-a", a, 0)>> \o content)
St(leaf, sub) == [leaf |-> leaf, sub |-> sub]
GPBRow(tbl, keys, elems) ==
  [form |-> "gpb", path |-> 1, ts |-> 1, tbl |-> tbl,
   rows |-> <<[ts |-> 0, keysFirst |-> TRUE, keys |-> keys,
               content |-> St([nm \in {"n-a", "s"} |-> IF nm = "s" THEN 5 ELSE 1],
                             [c |-> elems])]>>]
GPB(tbl) == GPBRow(tbl, <<F("k", 1, 0)>>, << >>)
GNMI(vals) ==
  [form |-> "gnmi", path |-> 2, ts |-> 1, keys |-> {Atom(<<"x">>, 1), Atom(<<"y">>, 1)},
   updates |-> [i \in DOMAIN vals |->
                  [name |-> <<IF i < 3 THEN "s" ELSE "t">>, val |-> vals[i],
                   keys |-> {Atom(<<"i">>, i)}]]]
JSON    == [form |-> "json", path |-> 3]
Unknown == [form |-> "kv", path |-> 4, ts |-> 1, rows |-> << >>]

(* Keys after the content; a key and a tag of one name, a tag twice, values *)
(* that are no numbers; and fields with the name of the list of another,    *)
(* before that list (which takes its place) and between its values.         *)
Late  == KVRow(1, FALSE, <<F("k", 1, 0)>>, <<F("n-a", 1, 0), F("s", 5, 0)>>)
Twice == KVRow(1, TRUE, <<F("k", 1, 0), F("n-a", 9, 0)>>,
               <<F("s", NaN, 0), F("n-a", 1, 0), F("n-a", 2, 0), F("s", 5, 0), Elem(1, NaN)>>)
Named1 == KVRow(1, TRUE, << >>, <<F(MCEdit("s"), 7, 0), F("s", 5, 0), F("s", 6, 0)>>)
Named2 == KVRow(1, TRUE, << >>,
                <<F("s", 5, 0), F("s", 6, 0), F(MCEdit("s"), 7, 0), F("s", 8, 0)>>)

With(count, feeds) == {[feed |-> f, statSensorCount |-> count] : f \in feeds}

MCSetups ==
  With(1, {<<KV(1, 1, <<Elem(1, 7), Elem(2, 8)>>), KV(1, 4, << >>)>>,
           <<KV(1, 2, << >>), KV(2, 1, <<F("s", 6, 0)>>)>>})
  \union
  With(0, {<<KV(1, 1, <<F("s", 0, 0)>>)>>, <<Late>>, <<Twice>>, <<Named1>>, <<Named2>>,
           <<GPB("t1"), GPB("t2")>>,
           <<GPBRow("t1", <<F("q", 9, 0)>>,
                    <<St([q |-> 1, v |-> 7], << >>), St([q |-> 2, v |-> 8], << >>)>>)>>,
           <<GPB("bad")>>, <<GNMI(<<5, 6, 0>>), JSON>>, <<GNMI(<<5, -1>>)>>, <<Unknown>>})

MCLazy == {"t1", "t2", "bad", "root", "list"}
MCDecodable == MCLazy \ {"bad"}
MCPieces(x) ==
  CASE x = "root" -> <<"n-a", "s", "c">>
    [] x = "list" -> <<"q", "v">>
    [] OTHER -> <<1>>
MCUpdater == Worker
MCReader == Worker \union {Other}
=============================================================================
