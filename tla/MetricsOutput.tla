--------------------------- MODULE MetricsOutput ---------------------------
(***************************************************************************)
(* A metrics output module at work, with the specification its operator    *)
(* wrote, beside another output that turns the same messages into JSON at  *)
(* the same time.  Composes its workers with the table of statistics and   *)
(* the caches they share.                                                  *)
(***************************************************************************)
EXTENDS MetricsWorkers, StatTable, LazyCache, MetricsSpec, JsonStream

CONSTANT Other   \* the goroutine of the other output

VARIABLES
  other,     \* the other output: how many messages it has done
  json       \* what it made of the last one

otherVars == <<other, json>>
vars == <<workVars, statVars, lazyVars, otherVars>>

ASSUME OutputAssumption == Worker \subseteq Updater /\ Worker \union {Other} \subseteq Reader

Init ==
  /\ WorkersInit /\ specDB = buildSpecDB(kind)
  /\ \E s \in Setups : feed = s.feed /\ StatInit(s.statSensorCount)
  /\ LazyInit
  /\ other = 0 /\ json = << >>

-----------------------------------------------------------------------------
(* What workers do with what they share *)

(* The decoded table of the message, from the cache or into it. *)
Table(w) ==
  /\ \/ at[w] = "table" /\ LazyLoad(w, feed[cur[w]].tbl) /\ UNCHANGED workVars
     \/ look[w].at = "use" /\ TableReady(w) /\ LazyLeave(w)
     \/ look[w].at = "nil" /\ TableNil(w) /\ LazyLeave(w)
  /\ UNCHANGED <<statVars, otherVars>>

(* A struct: the names of the children first, from the cache or into it. *)
Struct(w) ==
  /\ \/ (\E x \in Coming(w, "gpb") : LazyLoad(w, x.node.id)) /\ UNCHANGED workVars
     \/ look[w].at = "use" /\ GPBNode(w, Written(look[w].x)) /\ LazyLeave(w)
  /\ UNCHANGED <<statVars, otherVars>>

(* statRecordUpdate: find the record, and unless the table is full update it. *)
Track(w) ==
  /\ \E x \in Coming(w, "track") :
       \/ /\ StatFind(w, x.key, x.ts)
          /\ IF upd'[w] = NoUpdate THEN TrackOver(w, x) ELSE UNCHANGED workVars
       \/ StatUpdate(w) /\ TrackOver(w, x)
  /\ UNCHANGED <<lazyVars, otherVars>>

Local(w) ==
  \/ Alone(w) /\ UNCHANGED <<statVars, lazyVars, otherVars>>
  \/ Table(w) \/ Struct(w) \/ Track(w)

-----------------------------------------------------------------------------
(* The control loop, and everybody else *)

(* Evictions are served by the loop, so not while it waits for workers. *)
Evict ==
  /\ \/ EvictDue
     \/ ctrl = "run" /\ EvictStart
     \/ EvictLock
     \/ \E k \in unseen : EvictVisit(k)
     \/ EvictDone
  /\ UNCHANGED <<workVars, lazyVars, otherVars>>

(* The other output makes JSON of the next message; for a compact one it   *)
(* needs the table, and a key-value one may make it panic.                 *)
OtherPanics ==
  /\ other < arrived
  /\ feed[other + 1].form = "kv" /\ JSONifyPanics(feed[other + 1]) /\ Crash
  /\ UNCHANGED <<statVars, lazyVars, otherVars>>

OtherJSON ==
  /\ other < arrived
  /\ LET m == feed[other + 1] IN
       \/ /\ m.form # "gpb" /\ (m.form = "kv" => ~JSONifyPanics(m))
          /\ other' = other + 1
          /\ json' = IF m.form = "kv" THEN JSONifyGPBKV(m) ELSE << >>
          /\ UNCHANGED lazyVars
       \/ m.form = "gpb" /\ LazyLoad(Other, m.tbl) /\ UNCHANGED <<other, json>>
       \/ /\ m.form = "gpb" /\ look[Other].at \in {"use", "nil"}
          /\ other' = other + 1
          /\ json' = JSONifyGPB(m, IF look[Other].at = "use" THEN Written(m.tbl) ELSE {})
          /\ LazyLeave(Other)
  /\ UNCHANGED <<workVars, statVars>>

Fill(r) == LazyStep(r) /\ UNCHANGED <<workVars, statVars, otherVars>>

Clock == Tick /\ UNCHANGED <<workVars, lazyVars, otherVars>>

Next ==
  /\ ctrl # "panic"
  /\ \/ /\ \/ Arrive \/ Ack \/ \E w \in Worker : Ship(w)
           \/ Shutdown /\ evict \notin {"time", "scan"}
        /\ UNCHANGED <<statVars, lazyVars, otherVars>>
     \/ \E w \in Worker : Local(w)
     \/ Evict \/ OtherJSON \/ OtherPanics \/ Clock
     \/ \E r \in Reader : Fill(r)

(* Fairness of a goroutine is said with a predicate that tells whether it  *)
(* can take a step, which is ENABLED of its actions: it has a message or   *)
(* may leave, no lock it needs is taken, and it waits for no server.       *)
(* After a panic nobody can.                                               *)
LockFree(r) == look[r] # Idle /\ look[r].at = "lock" => lockedBy[look[r].x] = {}

CanStep(w) ==
  /\ ctrl # "panic" /\ LockFree(w)
  /\ \/ at[w] = "recv" /\ taken < arrived
     \/ at[w] = "recv" /\ ctrl = "wait" /\ (kind = "influx" => taken = arrived)
     \/ at[w] = "walk" /\ (Coming(w, "track") # {} /\ upd[w] = NoUpdate => TableUnlocked)
     \/ at[w] \in {"table", "redial"}

(* A worker that can step again and again does: locks are handed over also *)
(* to one that meets one eviction after the other.  So does the other      *)
(* output, the control loop serves what it waits for, and timers fire.     *)
(* Nothing is said of the servers: neither client has a timeout.           *)
Fairness ==
  /\ \A w \in Worker : <>[]~CanStep(w) \/ []<><<Local(w) \/ Fill(w)>>_vars
  /\ \/ <>[]~(ctrl # "panic" /\ other < arrived /\ LockFree(Other))
     \/ []<><<OtherJSON \/ OtherPanics \/ Fill(Other)>>_vars
  /\ WF_vars(ctrl # "panic" /\ Evict) /\ WF_vars(Ack /\ UNCHANGED <<statVars, lazyVars, otherVars>>)

Spec == Init /\ [][Next]_vars /\ Fairness

-----------------------------------------------------------------------------
(* What should be exported of a message, said without passes and stacks:   *)
(* each value of a sensor of the specification, with the tags of its own   *)
(* level and of the levels above, and the nearest timestamp there is.      *)
Metric(ts, tagset, k, v) == [ts |-> ts, tags |-> tagset, key |-> k, val |-> v]

(* Tags under those of the levels above: to Influx, in place of those that *)
(* have the same name.                                                     *)
Under(above, own) ==
  IF kind = "prometheus" THEN above \union ToSet(own)
    ELSE {a \in above : \A b \in ToSet(own) : a.key # b.key} \union LastOfEach(own)

(* What becomes of the metrics of a level, in this order: they make one    *)
(* Influx point, with the time of the last sensor, at most one value of    *)
(* each sensor, and none at all if one of these is not a number.           *)
Level(metrics, time) ==
  LET point == {[m EXCEPT !.ts = time] : m \in LastOfEach(metrics)}
  IN CASE kind = "prometheus"                                 -> ToSet(metrics)
       [] kind = "influx" /\ \A m \in point : m.val # NaN    -> point
       [] OTHER                                               -> {}

(* As many fields are taken for tags as the specification has tags here.   *)
RECURSIVE WantKV(_, _, _, _)
WantKV(node, fields, ts, above) ==
  LET tag     == node.kids.tag
      sensor  == node.kids.sensor
      some    == FieldsNamed(fields, tag)
      first   == SubSeq(some, 1, Min({Len(some), Cardinality(DOMAIN tag)}))
      own     == SelectSeq(first, HasVal)
      here    == Under(above, [i \in DOMAIN own |-> Atom(tag[own[i].name].fqName, own[i].val)])
      sensors == FieldsNamed(fields, sensor)
      valued  == SelectSeq(sensors, HasVal)
      metrics == [i \in DOMAIN valued |->
                    Metric(TsOr(valued[i].ts, ts), here, sensor[valued[i].name].fqName, valued[i].val)]
  IN Level(metrics, IF sensors = << >> THEN ts ELSE TsOr(Last(sensors).ts, ts))
     \union UNION {WantKV(node.kids.container[f.name], f.fields, TsOr(f.ts, ts), here) :
                     f \in {g \in ToSet(fields) : g.name \in DOMAIN node.kids.container}}

RECURSIVE WantGPB(_, _, _, _)
WantGPB(node, data, ts, above) ==
  LET own  == SetToSeq({Atom(<<Adapt(kind, nm)>>, data.leaf[nm]) :
                           nm \in DOMAIN node.kids.tag \intersect DOMAIN data.leaf})
      here == Under(above, own)
  IN {Metric(ts, here, node.kids.sensor[nm].fqName, data.leaf[nm]) :
        nm \in DOMAIN node.kids.sensor \intersect DOMAIN data.leaf}
     \union UNION {UNION {WantGPB(node.kids.container[nm], d, ts, here) :
                            d \in ToSet(data.sub[nm])} :
                     nm \in DOMAIN node.kids.container \intersect DOMAIN data.sub}

(* An Influx point of gNMI has the tags of the prefix, not of the updates. *)
Want(m) ==
  LET rowTags(row) ==
        Under(ToSet(BaseTags(m)),
              IF ~row.keysFirst THEN << >>
                ELSE [i \in DOMAIN row.keys |->
                        Atom(<<Adapt(kind, row.keys[i].name)>>, row.keys[i].val)])
      prefix  == ToSet(BaseTags(m)) \union m.keys
      valued  == SelectSeq(m.updates, LAMBDA u : u.val \notin {NoVal, NilVal})
      metrics == [i \in DOMAIN valued |->
                    Metric(m.ts, IF kind = "influx" THEN prefix ELSE prefix \union valued[i].keys,
                           valued[i].name, valued[i].val)]
  IN CASE m.form = "gnmi" -> Level(metrics, m.ts)
       [] m.form \in {"kv", "gpb"} /\ ~HasMetrics(m) -> {}
       [] m.form = "kv" ->
            UNION {WantKV(specDB[m.path], r.content, TsOr(r.ts, m.ts), rowTags(r)) :
                     r \in ToSet(m.rows)}
       [] m.form = "gpb" ->
            IF m.tbl \notin Decodable THEN {}
              ELSE UNION {WantGPB(specDB[m.path], r.content, TsOr(r.ts, m.ts), rowTags(r)) :
                            r \in ToSet(m.rows)}
       [] OTHER -> {}

Shipped(i) == {Metric(e.ts, e.tags, e.key, e.val) : e \in {f \in shipped : f.msg = i}}

(* Once a worker is done with a message and nothing failed, exactly the    *)
(* metrics the specification asks for have been shipped, each with its     *)
(* time, all the tags of its levels and no others, although the tags of    *)
(* all levels share an array and names and tables are filled by other      *)
(* workers meanwhile; if shipping failed, nothing was shipped that should  *)
(* not have been.  What is asked for is no more than the code means to     *)
(* give: of the fields of a level only as many count as tags as the        *)
(* specification has tags there (codec_gpb.go:643), keys that come after   *)
(* the content are no tags of it (codec_gpb.go:772), Influx keeps one      *)
(* value for each name of a tag or of a sensor of a point, drops a point   *)
(* with a value that is no number, and of gNMI has the tags of the prefix  *)
(* only.  When SHUTDOWN is acknowledged every message a worker took has    *)
(* been shipped or has failed.                                             *)
MetricsExact ==
  /\ AckMeansSettled
  /\ \A i \in DOMAIN feed :
       /\ Shipped(i) \subseteq Want(feed[i])
       /\ fate[i] = "ok" => Shipped(i) = Want(feed[i])

(* A name at some level that is also the name of the list of another. *)
RECURSIVE Clash(_)
Clash(fields) ==
  \/ \E i, j, k \in DOMAIN fields : /\ j # k /\ fields[j].name = fields[k].name
                                     /\ fields[i].name = Edit(fields[j].name)
  \/ \E i \in DOMAIN fields : Clash(fields[i].fields)

RECURSIVE HasNaN(_)
HasNaN(fields) == \E i \in DOMAIN fields : fields[i].val = NaN \/ HasNaN(fields[i].fields)

(* The JSON of a message holds each of its rows, and for a key-value       *)
(* message each value, in order, however names repeat at a level, unless a *)
(* field has the name of the list of another, which the code does not      *)
(* guard against ("Strictly speaking we should assert that no field name   *)
(* passed in has CODEC_GPB_PIPELINE_EDIT_SUFFIX", codec_gpb.go:159).  Keys *)
(* or content are left out only if there are none, or if one of their      *)
(* values is not a number.                                                 *)
RECURSIVE Keeps(_, _)
Keeps(fields, drawer) ==
  \A nm \in {f.name : f \in ToSet(fields)} :
    LET fs   == SelectSeq(fields, LAMBDA f : f.name = nm)
        vals == IF Len(fs) = 1 /\ nm \in DOMAIN drawer THEN <<drawer[nm]>>
                  ELSE IF Edit(nm) \in DOMAIN drawer THEN drawer[Edit(nm)].list ELSE << >>
        full == SelectSeq(fs, LAMBDA f : HasVal(f) \/ f.fields # << >>)
        kept == SelectSeq(vals, LAMBDA v : v # [leaf |-> NoVal])
    IN /\ Len(kept) = Len(full)
       /\ \A i \in DOMAIN full :
            IF full[i].fields = << >> THEN kept[i] = [leaf |-> full[i].val]
              ELSE Keeps(full[i].fields, kept[i].drawer)
KeepsRow(fields, part) ==
  IF part = NoJSON THEN fields = << >> \/ HasNaN(fields)
    ELSE Clash(fields) \/ Keeps(fields, part.drawer)
JsonKeepsAll ==
  other > 0 =>
    LET m == feed[other] IN
      m.form \in {"kv", "gpb"} =>
        /\ DOMAIN json = DOMAIN m.rows
        /\ m.form = "kv" => \A i \in DOMAIN json :
             KeepsRow(m.rows[i].keys, json[i].keys) /\ KeepsRow(m.rows[i].content, json[i].content)

(* A record whose sensor is no longer updated is evicted, as long as the   *)
(* control loop runs: "We want to clean stale statRecord entries to make   *)
(* room for new ones" (metrics.go:603).                                    *)
Stale(k) == Rec(k).last + StaleAfter < now
StaleGoes ==
  (\E k \in Tracked : Stale(k)) ~> (ctrl # "run" \/ \A k \in Tracked : ~Stale(k))

(* A message that can take the program down: an update of gNMI without a   *)
(* value, or fields with the name of the list of another.                  *)
Fatal(m) ==
  \/ m.form = "gnmi" /\ \E i \in DOMAIN m.updates : m.updates[i].val = NilVal
  \/ m.form = "kv" /\ \E i \in DOMAIN m.rows : Clash(m.rows[i].keys) \/ Clash(m.rows[i].content)

(* SHUTDOWN is acknowledged, whatever the workers were doing, unless one   *)
(* waits forever for a server that does not answer, or a fatal message had *)
(* arrived and the program panics.                                         *)
ShutdownAcked ==
  ctrl = "wait" ~> \/ ctrl = "acked"
                   \/ ctrl = "panic" /\ \E i \in 1 .. arrived : Fatal(feed[i])
                   \/ \E w \in Worker : [](at[w] = "ship")

=============================================================================
