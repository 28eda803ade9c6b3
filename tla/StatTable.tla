----------------------------- MODULE StatTable -----------------------------
(***************************************************************************)
(* The statistics a metrics module keeps on the sensors marked "track" in  *)
(* its specification (metrics.go): a bounded table of records, updated by  *)
(* the workers that extract metrics, and evicted from by the control loop. *)
(* The table has a lock and so has every record; a worker looks its record *)
(* up under the one and updates it under the other.                        *)
(***************************************************************************)
EXTENDS Integers, Sequences, FiniteSets

CONSTANTS
  Updater,          \* goroutines that update it
  StaleAfter,       \* STATEVICTIONSTALE
  Wrap,             \* 2^64: timestamps are unsigned and their difference wraps
  MinNow, MaxNow    \* bounds: where the wall clock starts and stops

ASSUME StatAssumption ==
  /\ StaleAfter \in Nat
  /\ MinNow \in Nat /\ MaxNow \in Nat /\ MinNow <= MaxNow
  /\ Wrap \in Nat /\ Wrap > MaxNow

VARIABLES
  statSensorCount,  \* option statsensorcount: size of the table
  heap,         \* all records ever made; those nobody refers to are garbage
  statRecords,  \* the map from keys to records (their place in heap)
  upd,          \* per worker: what it does in statRecordUpdate, or NoUpdate
  now,          \* the wall clock
  evict,        \* scheduleEviction and evictStale: "off" if nothing is tracked,
                \* "sleep", "token" (in the channel evict), "time" (the clock is
                \* read, the table not locked yet), "scan"
  evictTS,      \* evictStale's ts
  unseen        \* the keys its loop has not come to yet

statVars == <<statSensorCount, heap, statRecords, upd, now, evict, evictTS, unseen>>

NoUpdate == [rec |-> 0, ts |-> 0]
Tracked  == DOMAIN statRecords
Rec(k)   == heap[statRecords[k]]

(* Unsigned subtraction of timestamps. *)
Since(old, new) == (new - old) % Wrap

StatInit(count) ==
  /\ statSensorCount = count
  /\ heap = << >> /\ statRecords = << >>
  /\ upd = [w \in Updater |-> NoUpdate]
  /\ now = MinNow
  /\ evict = IF statSensorCount # 0 THEN "sleep" ELSE "off"
  /\ evictTS = 0 /\ unseen = {}

-----------------------------------------------------------------------------
(* statRecordUpdate *)

(* evictStale holds the table's lock while it scans; nobody else holds it *)
(* for longer than a step.                                                *)
TableUnlocked == evict # "scan"

(* A new record under key k, with no interval observed yet.  Its newest    *)
(* sample and the sum of what was observed are history.                    *)
Create(w, k, ts) ==
  /\ heap' = Append(heap, [key |-> k, first |-> ts, last |-> ts, newest |-> ts, observed |-> 0])
  /\ statRecords' = [j \in Tracked \union {k} |->
                       IF j = k THEN Len(heap) + 1 ELSE statRecords[j]]
  /\ upd' = [upd EXCEPT ![w] = [rec |-> Len(heap) + 1, ts |-> ts]]

(* Faulty: tests the size without counting the record to come. *)
StatFindOverfull(w, k, ts) ==
  /\ upd[w] = NoUpdate /\ TableUnlocked
  /\ \/ /\ k \in Tracked
        /\ upd' = [upd EXCEPT ![w] = [rec |-> statRecords[k], ts |-> ts]]
        /\ UNCHANGED <<heap, statRecords>>
     \/ k \notin Tracked /\ Cardinality(Tracked) <= statSensorCount /\ Create(w, k, ts)
     \/ /\ k \notin Tracked /\ Cardinality(Tracked) > statSensorCount
        /\ UNCHANGED <<heap, statRecords, upd>>
  /\ UNCHANGED <<statSensorCount, now, evict, evictTS, unseen>>

(* statRecordFindOrCreate: the record of the key, a new one, or none if    *)
(* the table is full, when the update is over (and counted as such).       *)
StatFind(w, k, ts) ==
  /\ upd[w] = NoUpdate /\ TableUnlocked
  /\ \/ /\ k \in Tracked
        /\ upd' = [upd EXCEPT ![w] = [rec |-> statRecords[k], ts |-> ts]]
        /\ UNCHANGED <<heap, statRecords>>
     \/ k \notin Tracked /\ Cardinality(Tracked) < statSensorCount /\ Create(w, k, ts)
     \/ /\ k \notin Tracked /\ Cardinality(Tracked) >= statSensorCount
        /\ UNCHANGED <<heap, statRecords, upd>>
  /\ UNCHANGED <<statSensorCount, now, evict, evictTS, unseen>>

(* Under the record's lock: observe the time since the last sample, or     *)
(* count one that comes out of order.  The record may have been evicted    *)
(* since it was found: then nobody will look at it again.                  *)
StatUpdate(w) ==
  /\ upd[w].rec # 0
  /\ LET r  == heap[upd[w].rec]
         ts == upd[w].ts
     IN  heap' = [heap EXCEPT ![upd[w].rec] =
           [r EXCEPT !.last     = IF ts > r.last THEN ts ELSE @,
                     !.observed = IF ts > r.last THEN @ + Since(r.last, ts) ELSE @,
                     !.newest   = IF ts > @ THEN ts ELSE @]]
  /\ upd' = [upd EXCEPT ![w] = NoUpdate]
  /\ UNCHANGED <<statSensorCount, statRecords, now, evict, evictTS, unseen>>

-----------------------------------------------------------------------------
(* scheduleEviction and evictStale *)

Tick ==
  /\ now < MaxNow
  /\ now' = now + 1
  /\ UNCHANGED <<statSensorCount, heap, statRecords, upd, evict, evictTS, unseen>>

(* scheduleEviction has slept and sends; the channel has room for one. *)
EvictDue ==
  /\ evict = "sleep"
  /\ evict' = "token"
  /\ UNCHANGED <<statSensorCount, heap, statRecords, upd, now, evictTS, unseen>>

(* The control loop takes the token; evictStale reads the clock (to the    *)
(* second, the unit here) before it asks for the lock.                     *)
EvictStart ==
  /\ evict = "token"
  /\ evict' = "time" /\ evictTS' = now
  /\ UNCHANGED <<statSensorCount, heap, statRecords, upd, now, unseen>>

EvictLock ==
  /\ evict = "time"
  /\ evict' = "scan" /\ unseen' = Tracked
  /\ UNCHANGED <<statSensorCount, heap, statRecords, upd, now, evictTS>>

(* Faulty: the difference alone, which wraps for a record whose device has *)
(* a clock ahead of ours.                                                  *)
IsStaleWrapped(r, ts) == Since(r.last, ts) > StaleAfter

IsStale(r, ts) == ts > r.last /\ Since(r.last, ts) > StaleAfter

(* The loop comes to the record of key k, in no particular order. *)
EvictVisit(k) ==
  /\ evict = "scan" /\ k \in unseen
  /\ unseen' = unseen \ {k}
  /\ statRecords' = IF IsStale(Rec(k), evictTS)
                      THEN [j \in Tracked \ {k} |-> statRecords[j]]
                      ELSE statRecords
  /\ UNCHANGED <<statSensorCount, heap, upd, now, evict, evictTS>>

(* Faulty: the next eviction is not scheduled. *)
EvictLast ==
  /\ evict = "scan" /\ unseen = {}
  /\ evict' = "off" /\ evictTS' = 0
  /\ UNCHANGED <<statSensorCount, heap, statRecords, upd, now, unseen>>

(* evictStale returns, and the control loop starts scheduleEviction again. *)
EvictDone ==
  /\ evict = "scan" /\ unseen = {}
  /\ evict' = "sleep" /\ evictTS' = 0
  /\ UNCHANGED <<statSensorCount, heap, statRecords, upd, now, unseen>>

-----------------------------------------------------------------------------
(* The table is never larger than statsensorcount says, and a key never   *)
(* has two records in it, however many workers find it missing at once;   *)
(* every record, also one evicted under a worker that holds it, accounts  *)
(* for the time from its first to its last sample exactly once, whatever  *)
(* order the workers' samples come in.                                    *)
StatsSound ==
  /\ Cardinality(Tracked) <= statSensorCount
  /\ \A k \in Tracked : statRecords[k] \in DOMAIN heap /\ Rec(k).key = k
  /\ \A i \in DOMAIN heap : heap[i].observed = heap[i].last - heap[i].first

(* evictStale drops a sensor only when every sample its record was updated *)
(* with has a timestamp more than STATEVICTIONSTALE behind our clock: not  *)
(* one updated with a newer sample since evictStale read the clock, nor    *)
(* one whose device has a clock ahead of ours, whatever order the samples  *)
(* came in.  Timestamps are the device's: "Stat for sensor which is not    *)
(* updated for 5 minutes is dropped as stale" (metrics.go:37) is what this *)
(* comes to when the clocks agree.  A sensor whose device has a clock that *)
(* far behind ours is dropped although it is updated all the time.         *)
FreshKept ==
  [][\A k \in Tracked :
       k \notin DOMAIN statRecords' => Rec(k).newest + StaleAfter < now]_statVars

=============================================================================
