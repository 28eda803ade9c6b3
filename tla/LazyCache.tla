----------------------------- MODULE LazyCache -----------------------------
(***************************************************************************)
(* The two caches of the GPB codec that are filled on first use by         *)
(* whichever goroutine comes first: the decoded table of a compact message *)
(* (getGPBDecodedTbl; one message goes to several outputs, and so to       *)
(* several goroutines) and the internal names of the children of a node of *)
(* the metrics specification (produceGPBMetricsForNode; the workers of an  *)
(* output share the specification).  Both look, lock, look again, fill the *)
(* cache piece by piece, publish it and unlock; a reader that finds it     *)
(* published takes no lock.                                                *)
(***************************************************************************)
EXTENDS Naturals, Sequences

CONSTANTS
  Reader,     \* goroutines
  Lazy,       \* what is cached: tables and names of nodes
  Pieces(_),  \* what filling it writes, in order: rows, children's names
  Decodable   \* those that can be filled: the archive knows the path

VARIABLES
  published,  \* cachedDecodeTbl is not nil, internalNamesCached is true
  filled,     \* how many pieces the latest fill has written
  fills,      \* how many times filling has begun
  lockedBy,   \* holders of the mutex of each cache
  look        \* per reader: [at, x]: where it is in looking up x

lazyVars == <<published, filled, fills, lockedBy, look>>

ASSUME LazyAssumption == \A x \in Lazy : Len(Pieces(x)) \in Nat

Idle == [at |-> "idle"]

(* What a reader sees of the cache of x. *)
Written(x) == {Pieces(x)[i] : i \in 1 .. filled[x]}

LazyInit ==
  /\ published = [x \in Lazy |-> FALSE]
  /\ filled = [x \in Lazy |-> 0]
  /\ fills = [x \in Lazy |-> 0]
  /\ lockedBy = [x \in Lazy |-> {}]
  /\ look = [r \in Reader |-> Idle]

At(r, x, at) == look' = [look EXCEPT ![r] = [at |-> at, x |-> x]]

Unlock(r, x) == lockedBy' = [lockedBy EXCEPT ![x] = @ \ {r}]

(* The first Load, without the lock. *)
LazyLoad(r, x) ==
  /\ look[r] = Idle
  /\ At(r, x, IF published[x] THEN "use" ELSE "lock")
  /\ UNCHANGED <<published, filled, fills, lockedBy>>

LazyLock(r) ==
  /\ look[r].at = "lock"
  /\ lockedBy[look[r].x] = {}
  /\ lockedBy' = [lockedBy EXCEPT ![look[r].x] = {r}]
  /\ At(r, look[r].x, "again")
  /\ UNCHANGED <<published, filled, fills>>

(* Faulty: fills without looking again. *)
LazyNoRecheck(r) ==
  /\ look[r].at = "again"
  /\ LET x == look[r].x IN
       /\ fills' = [fills EXCEPT ![x] = @ + 1]
       /\ filled' = [filled EXCEPT ![x] = 0]
       /\ At(r, x, "fill")
  /\ UNCHANGED <<lockedBy, published>>

(* The second Load, under the lock.  What cannot be decoded is not cached: *)
(* the caller gets nil, and the next one tries again.                      *)
LazyRecheck(r) ==
  /\ look[r].at = "again"
  /\ LET x == look[r].x IN
       \/ /\ published[x]
          /\ Unlock(r, x) /\ At(r, x, "use")
          /\ UNCHANGED <<filled, fills>>
       \/ /\ ~published[x] /\ x \notin Decodable
          /\ Unlock(r, x) /\ At(r, x, "nil")
          /\ UNCHANGED <<filled, fills>>
       \/ /\ ~published[x] /\ x \in Decodable
          /\ fills' = [fills EXCEPT ![x] = @ + 1]
          /\ filled' = [filled EXCEPT ![x] = 0]
          /\ At(r, x, "fill")
          /\ UNCHANGED lockedBy
  /\ UNCHANGED published

(* One more row is decoded, one more name is set. *)
LazyFill(r) ==
  /\ look[r].at = "fill"
  /\ filled[look[r].x] < Len(Pieces(look[r].x))
  /\ filled' = [filled EXCEPT ![look[r].x] = @ + 1]
  /\ UNCHANGED <<published, fills, lockedBy, look>>

(* Faulty: stores and keeps the lock. *)
LazyStoreKeepsLock(r) ==
  /\ look[r].at = "fill"
  /\ filled[look[r].x] = Len(Pieces(look[r].x))
  /\ published' = [published EXCEPT ![look[r].x] = TRUE]
  /\ At(r, look[r].x, "use")
  /\ UNCHANGED <<filled, fills, lockedBy>>

(* Store, and unlock. *)
LazyStore(r) ==
  /\ look[r].at = "fill"
  /\ filled[look[r].x] = Len(Pieces(look[r].x))
  /\ published' = [published EXCEPT ![look[r].x] = TRUE]
  /\ Unlock(r, look[r].x) /\ At(r, look[r].x, "use")
  /\ UNCHANGED <<filled, fills>>

LazyStep(r) == LazyLock(r) \/ LazyRecheck(r) \/ LazyFill(r) \/ LazyStore(r)

(* The reader has what it came for, or nil, and is done with it. *)
LazyLeave(r) ==
  /\ look' = [look EXCEPT ![r] = Idle]
  /\ UNCHANGED <<published, filled, fills, lockedBy>>

LazyTypeOK ==
  /\ published \in [Lazy -> BOOLEAN]
  /\ filled \in [Lazy -> Nat]
  /\ fills \in [Lazy -> Nat]
  /\ lockedBy \in [Lazy -> SUBSET Reader]
  /\ look \in [Reader -> {Idle} \union
       [at : {"lock", "again", "fill", "use", "nil"}, x : Lazy]]

(* "once cached, internal names are never updated so we don't need to take *)
(* a lock" (codec_gpb.go:976), and the decoded table of a message is set   *)
(* once: whoever uses a cache finds it complete, whatever the others are   *)
(* doing, and it is filled at most once.                                   *)
FilledOnce ==
  /\ \A x \in Lazy : fills[x] <= 1
  /\ \A r \in Reader :
       look[r].at = "use" =>
         published[look[r].x] /\ filled[look[r].x] = Len(Pieces(look[r].x))

=============================================================================
