--------------------------- MODULE MetricsWorkers ---------------------------
(***************************************************************************)
(* The workers of a metrics output module (metrics.go with                 *)
(* metrics_prometheus.go or metrics_influx.go): they extract metrics from  *)
(* messages, as MetricsWalk says, and ship them; its control loop shuts    *)
(* them down.  What they find in the table of statistics and in the caches *)
(* of the codec is for MetricsOutput to say.  How messages get from the    *)
(* module's channel to the workers of an Influx module is in               *)
(* MetricsInflux; here any worker takes the next one.                      *)
(***************************************************************************)
EXTENDS MetricsWalk

CONSTANTS
  Worker,    \* goroutines that extract metrics
  Setups,    \* pairs of the messages that arrive and option statsensorcount
  First,     \* the one worker of a Prometheus module
  MaxFail    \* bound: posts or writes that fail

(* The keys of a gNMI path are a map of Go: finite. *)
ASSUME SetupsAssumption ==
  \A s \in Setups :
    /\ s.feed \in Seq(Range(s.feed))
    /\ \A m \in Range(s.feed) :
         m.form = "gnmi" => /\ Cardinality(m.keys) \in Nat
                            /\ \A i \in DOMAIN m.updates : Cardinality(m.updates[i].keys) \in Nat

VARIABLES
  kind,      \* output: "prometheus" or "influx"
  specDB,    \* the specification, built when the module is configured
  feed,      \* the messages of this behaviour
  arrived,   \* how many are in the module's channel or were
  taken,     \* how many the workers took from it
  ctrl,      \* control loop: "run", "wait" (for the workers), "acked"; or
             \* "panic", when a goroutine took the whole program down
  at,        \* worker: "recv", "table", "walk", "ship", "redial", "gone"
  cur,       \* the message it has, its place in feed
  todo,      \* the loops of its walk, the innermost first
  tags,      \* the array that all its slices of tags share
  buf,       \* context: metrics built and not flushed
  points,    \* context: the points of the batch (influx)
  fails,     \* failed posts or writes
  shipped,   \* history: metrics accepted by the gateway or the database
  fate       \* history: "open", "ok", or "lost" if shipping failed, per message

confVars == <<kind, specDB, feed>>
workVars == <<confVars, arrived, taken, ctrl, at, cur, todo, tags, buf, points, fails,
              shipped, fate>>

Workers == IF kind = "prometheus" THEN {First} ELSE Worker

(* With any specification. *)
WorkersInit ==
  /\ kind \in Kinds
  /\ \E s \in Setups : feed = s.feed
  /\ arrived = 0 /\ taken = 0 /\ ctrl = "run"
  /\ at = [w \in Worker |-> IF w \in Workers THEN "recv" ELSE "gone"]
  /\ cur = [w \in Worker |-> 0]
  /\ todo = [w \in Worker |-> << >>]
  /\ tags = [w \in Worker |-> << >>]
  /\ buf = [w \in Worker |-> << >>]
  /\ points = [w \in Worker |-> << >>]
  /\ fails = 0 /\ shipped = {} /\ fate = [i \in DOMAIN feed |-> "open"]

Goto(w, where) == at' = [at EXCEPT ![w] = where]
Own(w, n) == SubSeq(tags[w], 1, n)

(* What may be next in the walk of a worker, by what there is to do, and   *)
(* its end: more loops to go through before the others.                    *)
Coming(w, do) ==
  {x \in IF at[w] = "walk" /\ todo[w] # << >> THEN Due(Head(todo[w])) ELSE {} : x.do = do}
Done(w, x, loops) == todo' = [todo EXCEPT ![w] = loops \o After(x, @)]

-----------------------------------------------------------------------------
(* A worker takes a message *)

Arrive ==
  /\ arrived < Len(feed)
  /\ arrived' = arrived + 1
  /\ UNCHANGED <<confVars, taken, ctrl, at, cur, todo, tags, buf, points, fails, shipped, fate>>

HasMetrics(m) == m.form \in {"kv", "gpb"} /\ m.path \in DOMAIN specDB

(* What produceMetrics may begin with for message m: nothing to do if it   *)
(* has no metrics at all (JSON, or a path the specification does not       *)
(* have).  The keys of a gNMI prefix are a map, in any order.              *)
Plans(m) ==
  CASE m.form = "gnmi" ->
         {[tags |-> BaseTags(m) \o p, todo |-> Updates(m, Len(BaseTags(m)) + Len(p))] :
            p \in Orders(m.keys)}
    [] HasMetrics(m) -> {[tags |-> BaseTags(m), todo |-> Rows(m)]}
    [] OTHER         -> {[tags |-> BaseTags(m), todo |-> << >>]}

(* Faulty: what a failed post left in the buffer stays there. *)
RecvKeepsBuffer(w) ==
  /\ at[w] = "recv" /\ taken < arrived
  /\ taken' = taken + 1
  /\ cur' = [cur EXCEPT ![w] = taken + 1]
  /\ points' = [points EXCEPT ![w] = << >>]
  /\ LET m == feed[taken + 1] IN
       /\ \E plan \in Plans(m) : /\ todo' = [todo EXCEPT ![w] = plan.todo]
                                 /\ tags' = [tags EXCEPT ![w] = plan.tags]
       /\ Goto(w, IF m.form = "gpb" /\ HasMetrics(m) THEN "table" ELSE "walk")
  /\ UNCHANGED <<confVars, arrived, ctrl, buf, fails, shipped, fate>>

(* The worker's context is cleared (Prometheus) or new (Influx). *)
Recv(w) ==
  /\ at[w] = "recv" /\ taken < arrived
  /\ taken' = taken + 1
  /\ cur' = [cur EXCEPT ![w] = taken + 1]
  /\ buf' = [buf EXCEPT ![w] = << >>]
  /\ points' = [points EXCEPT ![w] = << >>]
  /\ LET m == feed[taken + 1] IN
       /\ \E plan \in Plans(m) : /\ todo' = [todo EXCEPT ![w] = plan.todo]
                                 /\ tags' = [tags EXCEPT ![w] = plan.tags]
       /\ Goto(w, IF m.form = "gpb" /\ HasMetrics(m) THEN "table" ELSE "walk")
  /\ UNCHANGED <<confVars, arrived, ctrl, fails, shipped, fate>>

(* The worker has the decoded table, or nil, and then there are no metrics. *)
TableReady(w) ==
  /\ at[w] = "table" /\ Goto(w, "walk")
  /\ UNCHANGED <<confVars, arrived, taken, ctrl, cur, todo, tags, buf, points, fails, shipped,
                 fate>>

TableNil(w) ==
  /\ at[w] = "table" /\ Goto(w, "walk")
  /\ todo' = [todo EXCEPT ![w] = << >>]
  /\ UNCHANGED <<confVars, arrived, taken, ctrl, cur, tags, buf, points, fails, shipped, fate>>

-----------------------------------------------------------------------------
(* The walk *)

(* The keys of a row become tags, then its content is visited. *)
Row(w) ==
  /\ \E x \in Coming(w, "row") :
       LET m    == feed[cur[w]]
           base == Len(BaseTags(m))
       IN /\ tags' = [tags EXCEPT ![w] = Own(w, base) \o RowTags(kind, x.row)]
          /\ Done(w, x, <<VisitRow(specDB[m.path], m, x.row, base + Len(KeysAhead(x.row)))>>)
  /\ UNCHANGED <<confVars, arrived, taken, ctrl, at, cur, buf, points, fails, shipped, fate>>

KVNode(w) ==
  /\ \E x \in Coming(w, "kv") :
       LET all == Own(w, x.n) \o KVTags(x.node, x.fields)
       IN tags' = [tags EXCEPT ![w] = all] /\ Done(w, x, VisitKV(x, all))
  /\ UNCHANGED <<confVars, arrived, taken, ctrl, at, cur, buf, points, fails, shipped, fate>>

(* A struct, with names the children whose internal names are set. *)
GPBNode(w, names) ==
  /\ \E x \in Coming(w, "gpb") : \E own \in GPBTags(kind, x, names) :
       LET all == Own(w, x.n) \o own
       IN tags' = [tags EXCEPT ![w] = all] /\ Done(w, x, VisitGPB(x, all, names))
  /\ UNCHANGED <<confVars, arrived, taken, ctrl, at, cur, buf, points, fails, shipped, fate>>

GPBList(w) ==
  /\ \E x \in Coming(w, "list") : Done(w, x, Begin(x.loop))
  /\ UNCHANGED <<confVars, arrived, taken, ctrl, at, cur, tags, buf, points, fails, shipped,
                 fate>>

(* statRecordUpdate returns. *)
TrackOver(w, x) ==
  /\ Done(w, x, << >>)
  /\ UNCHANGED <<confVars, arrived, taken, ctrl, at, cur, tags, buf, points, fails, shipped,
                 fate>>

(* buildMetric of Prometheus writes a line with the tags, that of Influx   *)
(* keeps the sensor only.                                                  *)
Built(w, sensor, ts, own) ==
  buf' = [buf EXCEPT ![w] = Append(@,
    [msg |-> cur[w], key |-> sensor.key, val |-> sensor.val, ts |-> ts, tags |-> own])]
buildMetric(w, sensor, ts, own) ==
  Built(w, sensor, ts, IF kind = "prometheus" THEN own ELSE << >>)

Build(w) ==
  /\ \E x \in Coming(w, "build") :
       buildMetric(w, x.sensor, x.ts, Own(w, x.n)) /\ Done(w, x, << >>)
  /\ UNCHANGED <<confVars, arrived, taken, ctrl, at, cur, tags, points, fails, shipped, fate>>

(* An update of a gNMI notification: its own keys, in any order, after     *)
(* those of the prefix.                                                    *)
Update(w) ==
  /\ \E x \in Coming(w, "update") :
       /\ x.update.val # NilVal
       /\ \E own \in Orders(x.update.keys) :
            LET all == Own(w, x.n) \o own IN
              /\ tags' = [tags EXCEPT ![w] = all]
              /\ IF HasVal(x.update)
                   THEN buildMetric(w, Atom(x.update.name, x.update.val), x.ts, all)
                   ELSE UNCHANGED buf
       /\ Done(w, x, << >>)
  /\ UNCHANGED <<confVars, arrived, taken, ctrl, at, cur, points, fails, shipped, fate>>

(* A panic of any goroutine ends the program: nothing recovers. *)
Crash ==
  /\ ctrl' = "panic"
  /\ UNCHANGED <<confVars, arrived, taken, at, cur, todo, tags, buf, points, fails, shipped,
                 fate>>

(* The type of the value is asked for where there is none: nil is dereferenced. *)
UpdatePanics(w) == (\E x \in Coming(w, "update") : x.update.val = NilVal) /\ Crash

(* The maps a point is made of: of two fields, or tags, with one name the later. *)
LastOfEach(s) ==
  {s[i] : i \in {j \in DOMAIN s : \A k \in DOMAIN s : k > j => s[k].key # s[j].key}}

(* Faulty: the fields stay for the next point. *)
FlushKeepsFields(w) ==
  /\ kind = "influx"
  /\ \E x \in Coming(w, "flush") :
       /\ points' = [points EXCEPT ![w] = Append(@,
            [tags |-> LastOfEach(Own(w, x.n)), ts |-> x.ts, fields |-> LastOfEach(buf[w])])]
       /\ Done(w, x, << >>)
  /\ UNCHANGED <<confVars, arrived, taken, ctrl, at, cur, tags, buf, fails, shipped, fate>>

(* flushMetric of Influx: the fields and the tags, each by name, make a    *)
(* point, which the client (external) refuses if a field is not a number:  *)
(* then there is none.                                                     *)
FlushPoint(w) ==
  /\ kind = "influx"
  /\ \E x \in Coming(w, "flush") :
       LET fields == LastOfEach(buf[w]) IN
         /\ points' = IF \E e \in fields : e.val = NaN THEN points
                        ELSE [points EXCEPT ![w] = Append(@,
                               [tags |-> LastOfEach(Own(w, x.n)), ts |-> x.ts, fields |-> fields])]
         /\ Done(w, x, << >>)
  /\ buf' = [buf EXCEPT ![w] = << >>]
  /\ UNCHANGED <<confVars, arrived, taken, ctrl, at, cur, tags, fails, shipped, fate>>

(* flushMetric of Prometheus: what there is in the buffer is posted to the *)
(* group named by the tags of the flush.                                   *)
FlushPost(w) ==
  /\ kind = "prometheus"
  /\ \E x \in Coming(w, "flush") :
       IF buf[w] = << >> THEN Done(w, x, << >>) /\ UNCHANGED at
         ELSE Goto(w, "ship") /\ UNCHANGED todo
  /\ UNCHANGED <<confVars, arrived, taken, ctrl, cur, tags, buf, points, fails, shipped, fate>>

(* The gateway answers, 202 or another status: the buffer is cleared. *)
PostAnswered(w) ==
  /\ at[w] = "ship" /\ kind = "prometheus"
  /\ \E x \in Head(todo[w]) :
       /\ \/ /\ shipped' = shipped \union
                   {[msg |-> cur[w], of |-> e.msg, group |-> Range(Own(w, x.n)),
                     tags |-> Range(e.tags), ts |-> e.ts, key |-> e.key, val |-> e.val] :
                      e \in Range(buf[w])}
             /\ UNCHANGED <<fails, fate>>
          \/ /\ fails < MaxFail /\ fails' = fails + 1
             /\ fate' = [fate EXCEPT ![cur[w]] = "lost"]
             /\ UNCHANGED shipped
       /\ Done(w, x, << >>)
  /\ buf' = [buf EXCEPT ![w] = << >>]
  /\ Goto(w, "walk")
  /\ UNCHANGED <<confVars, arrived, taken, ctrl, cur, tags, points>>

(* The request fails.  flushMetric returns without clearing the buffer, of *)
(* which the client may have read a part.                                  *)
PostFails(w) ==
  /\ at[w] = "ship" /\ kind = "prometheus"
  /\ fails < MaxFail /\ fails' = fails + 1
  /\ fate' = [fate EXCEPT ![cur[w]] = "lost"]
  /\ \E n \in 0 .. Len(buf[w]) :
       buf' = [buf EXCEPT ![w] = SubSeq(@, n + 1, Len(@))]
  /\ \E x \in Head(todo[w]) : Done(w, x, << >>)
  /\ Goto(w, "walk")
  /\ UNCHANGED <<confVars, arrived, taken, ctrl, cur, tags, points, shipped>>

(* produceMetrics returns.  An Influx worker has points to write, or not. *)
Produced(w) ==
  /\ at[w] = "walk" /\ todo[w] = << >>
  /\ tags' = [tags EXCEPT ![w] = << >>]
  /\ IF points[w] # << >>
       THEN Goto(w, "ship") /\ UNCHANGED <<cur, fate>>
       ELSE /\ Goto(w, "recv") /\ cur' = [cur EXCEPT ![w] = 0]
            /\ fate' = [fate EXCEPT ![cur[w]] = IF @ = "open" THEN "ok" ELSE @]
  /\ UNCHANGED <<confVars, arrived, taken, ctrl, todo, buf, points, fails, shipped>>

(* The batch is written, or the write fails: then the message is given up  *)
(* and the worker makes a new client after a while.                        *)
Write(w) ==
  /\ at[w] = "ship" /\ kind = "influx"
  /\ \/ /\ shipped' = shipped \union
              UNION {{[msg |-> cur[w], of |-> e.msg, group |-> p.tags, tags |-> p.tags,
                       ts |-> p.ts, key |-> e.key, val |-> e.val] : e \in p.fields} :
                     p \in Range(points[w])}
        /\ fate' = [fate EXCEPT ![cur[w]] = "ok"]
        /\ Goto(w, "recv") /\ UNCHANGED fails
     \/ /\ fails < MaxFail /\ fails' = fails + 1
        /\ fate' = [fate EXCEPT ![cur[w]] = "lost"]
        /\ Goto(w, "redial") /\ UNCHANGED shipped
  /\ cur' = [cur EXCEPT ![w] = 0]
  /\ points' = [points EXCEPT ![w] = << >>]
  /\ UNCHANGED <<confVars, arrived, taken, ctrl, todo, tags, buf>>

Redial(w) ==
  /\ at[w] = "redial" /\ Goto(w, "recv")
  /\ UNCHANGED <<confVars, arrived, taken, ctrl, cur, todo, tags, buf, points, fails, shipped,
                 fate>>

(* A Prometheus worker may leave as soon as shutdownChan is closed, with   *)
(* messages waiting; an Influx worker when its channel is closed and empty. *)
Leave(w) ==
  /\ at[w] = "recv" /\ ctrl = "wait"
  /\ kind = "influx" => taken = arrived
  /\ Goto(w, "gone")
  /\ UNCHANGED <<confVars, arrived, taken, ctrl, cur, todo, tags, buf, points, fails, shipped,
                 fate>>

-----------------------------------------------------------------------------
(* The control loop *)

Shutdown ==
  /\ ctrl = "run"
  /\ ctrl' = "wait"
  /\ UNCHANGED <<confVars, arrived, taken, at, cur, todo, tags, buf, points, fails, shipped,
                 fate>>

Ack ==
  /\ ctrl = "wait" /\ \A w \in Workers : at[w] = "gone"
  /\ ctrl' = "acked"
  /\ UNCHANGED <<confVars, arrived, taken, at, cur, todo, tags, buf, points, fails, shipped,
                 fate>>

-----------------------------------------------------------------------------
(* What a worker does by itself, and what waits for a server. *)
Alone(w) ==
  \/ Recv(w) \/ Row(w) \/ KVNode(w) \/ GPBList(w) \/ Build(w) \/ Update(w)
  \/ UpdatePanics(w) \/ FlushPoint(w) \/ FlushPost(w) \/ Produced(w) \/ Redial(w) \/ Leave(w)

Ship(w) == PostAnswered(w) \/ PostFails(w) \/ Write(w)

(* With any names in the cache, and any table, until the program panics,   *)
(* here or elsewhere.                                                      *)
WorkersNext ==
  /\ ctrl # "panic"
  /\ \/ Arrive \/ Shutdown \/ Ack \/ Crash
     \/ \E w \in Worker :
          \/ Alone(w) \/ Ship(w) \/ TableReady(w) \/ TableNil(w)
          \/ \E names : GPBNode(w, names)
          \/ \E x \in Coming(w, "track") : TrackOver(w, x)

WorkersSpec == WorkersInit /\ [][WorkersNext]_workVars

-----------------------------------------------------------------------------
(* "every unique timeseries as identified by the tags, results in a        *)
(* distinct sequence" (metrics_prometheus.go:93): a metric is posted to    *)
(* the group of its own tags (for gNMI, those of the prefix), unless an    *)
(* earlier post of the message failed and left it in the buffer; what      *)
(* a message left there is never posted with another message.              *)
GroupsApart ==
  \A e \in shipped :
    /\ e.of = e.msg
    /\ \/ e.group = e.tags
       \/ feed[e.msg].form = "gnmi" /\ e.group \subseteq e.tags
       \/ fate[e.msg] = "lost"

(* When SHUTDOWN is acknowledged every message a worker took has been      *)
(* shipped or has failed.                                                  *)
AckMeansSettled == ctrl = "acked" => \A i \in 1 .. taken : fate[i] # "open"

=============================================================================
