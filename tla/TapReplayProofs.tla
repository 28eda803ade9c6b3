-------------------------- MODULE TapReplayProofs --------------------------
(***************************************************************************)
(* ReplaysWhatWasTapped and AckMeansFlushed, for any messages, any size of *)
(* header, buffer and payload, and any number of starts of the tap.        *)
(***************************************************************************)
EXTENDS TapReplay, Integers, TLAPS

Unit == Nat \X Nat

(* What concatenation does, its order of evaluation does not matter, and   *)
(* the two parts of a sequence make it whole.                              *)
LEMMA Concatenated ==
  ASSUME NEW S, NEW f \in Seq(S), NEW g \in Seq(S)
  PROVE  /\ f \o g \in Seq(S) /\ Len(f \o g) = Len(f) + Len(g)
         /\ \A i \in 1 .. Len(f) + Len(g) :
              (f \o g)[i] = IF i <= Len(f) THEN f[i] ELSE g[i - Len(f)]
  OBVIOUS

LEMMA Regrouped ==
  ASSUME NEW S, NEW f \in Seq(S), NEW g \in Seq(S), NEW h \in Seq(S)
  PROVE  (f \o g) \o h = f \o (g \o h)
  OBVIOUS

LEMMA SameSeq ==
  ASSUME NEW S, NEW f \in Seq(S), NEW g \in Seq(S),
         Len(f) = Len(g), \A i \in 1 .. Len(f) : f[i] = g[i]
  PROVE  f = g
  OBVIOUS

LEMMA Split ==
  ASSUME NEW S, NEW f \in Seq(S), NEW k \in 0 .. Len(f)
  PROVE  SubSeq(f, 1, k) \o SubSeq(f, k + 1, Len(f)) = f
<1> DEFINE x == SubSeq(f, 1, k)
           y == SubSeq(f, k + 1, Len(f))
<1>1. x \in Seq(S) /\ Len(x) = k /\ \A i \in 1 .. k : x[i] = f[i]
  OBVIOUS
<1>2. y \in Seq(S) /\ Len(y) = Len(f) - k /\ \A i \in 1 .. Len(f) - k : y[i] = f[k + i]
  OBVIOUS
<1> HIDE DEF x, y
<1>3. /\ x \o y \in Seq(S) /\ Len(x \o y) = Len(x) + Len(y)
      /\ \A i \in 1 .. Len(x) + Len(y) : (x \o y)[i] = IF i <= Len(x) THEN x[i] ELSE y[i - Len(x)]
  BY <1>1, <1>2, Concatenated, Zenon
<1>4. Len(x \o y) = Len(f) /\ Len(f) \in Nat
  BY <1>1, <1>2, <1>3
<1>5. ASSUME NEW i \in 1 .. Len(f) PROVE (x \o y)[i] = f[i]
  <2>1. i \in 1 .. Len(x) + Len(y) /\ i \in Int /\ k \in Int
    BY <1>1, <1>2
  <2>2. CASE i <= k
    <3>1. i \in 1 .. k
      BY <2>1, <2>2
    <3> QED BY <1>1, <1>3, <2>1, <2>2, <3>1, Zenon
  <2>3. CASE ~(i <= k)
    <3>1. i - k \in 1 .. Len(f) - k /\ k + (i - k) = i
      BY <1>4, <2>1, <2>3
    <3>2. y[i - k] = f[i]
      BY <1>2, <3>1
    <3> QED BY <1>1, <1>3, <2>1, <2>3, <3>2
  <2> QED BY <2>2, <2>3, Zenon
<1>6. x \o y = f
  BY <1>3, <1>4, <1>5, SameSeq, Zenon
<1> QED BY <1>6, Zenon DEF x, y

(* An archive q of the messages r: behind each unit of a record are all    *)
(* the units before it, and records stand in the order they were begun in. *)
(* A record may break off, and the next one follow.  Only a message with   *)
(* an encapsulation has one.                                               *)
Framed(q, r) ==
  /\ \A k \in 1 .. Len(q) :
       /\ q[k][1] \in 1 .. Len(r) /\ r[q[k][1]].kind \in {"gpb", "json"}
       /\ q[k][2] \in 1 .. HdrSize + r[q[k][1]].len /\ q[k][2] <= k
       /\ \A d \in 0 .. q[k][2] - 1 : q[k - d] = <<q[k][1], q[k][2] - d>>
  /\ \A k, l \in 1 .. Len(q) :
       k < l => /\ q[k][1] <= q[l][1]
                /\ q[k][1] = q[l][1] => q[l][2] = q[k][2] + (l - k)

(* The record of unit k ends with unit EndOf, and not behind pos. *)
EndOf(q, r, k) == k - q[k][2] + HdrSize + r[q[k][1]].len
Ended(q, r, k, pos) == EndOf(q, r, k) <= pos /\ q[EndOf(q, r, k)][1] = q[k][1]

(* Boundary and TornBefore, of any archive and without counting. *)
WholeTo(q, r, pos) == \A k \in 1 .. pos : Ended(q, r, k, pos)
TornTo(q, r, pos) ==
  \E k, l \in 1 .. pos : k < l /\ q[l][1] # q[k][1] /\ ~Ended(q, r, k, Len(q))

(* p is q, up to where p ends. *)
StartOf(p, q) == Len(p) <= Len(q) /\ \A k \in 1 .. Len(p) : p[k] = q[k]

(* All messages that have an encapsulation are in the archive. *)
Complete(q, r) ==
  /\ WholeTo(q, r, Len(q))
  /\ \A i \in 1 .. Len(r) :
       EncapOf(r[i].kind) # "UNSED" => \E k \in 1 .. Len(q) : q[k][1] = i

(* What is in the archive, with what the tap has buffered for it. *)
ArchiveInv ==
  /\ file \in Seq(Unit) /\ buf \in Seq(Unit) /\ rec \in Seq(Message)
  /\ Framed(file \o buf, rec)
  /\ tap # "run" => buf = << >>

(* Nothing is missing as long as the first process writes. *)
FirstStartInv ==
  /\ starts \in Nat /\ (starts = 0 => tap = "off" /\ file = << >> /\ rec = << >>)
  /\ starts = 1 /\ tap \in {"run", "acked"} => Complete(file \o buf, rec)

(* Where replay is in the archive, if it has not passed a record that was  *)
(* cut off: in front of a record, or behind its header.                    *)
ReaderInv ==
  ~TornTo(file, rec, rpos) =>
    /\ parser.state = "hdr" => WholeTo(file, rec, rpos)
    /\ parser.state = "data" => /\ rpos > 0 /\ file[rpos][2] = HdrSize
                                /\ parser.size = rec[file[rpos][1]].len
                                /\ parser.codec = rec[file[rpos][1]].kind
    /\ rep \in {"test", "send"} => /\ parser.state = "hdr" /\ rpos > 0
                                   /\ msg.rec = file[rpos][1]

USE EncapAssumption

(* Places in an archive. *)
LEMMA Places ==
  /\ \A n \in Nat : \A x \in 1 .. n : x \in Nat /\ x > 0
  /\ \A n \in Nat : \A a \in 1 .. n : \A x \in 1 .. a : x \in 1 .. n /\ x \in Nat
  /\ \A a, n \in Nat : n > 0 => a + n \in a + 1 .. a + n /\ n \in 1 .. n
  /\ \A a, n, l \in Nat : n > 0 /\ a + n <= l => a + 1 \in 1 .. l /\ a + n \in 1 .. l
OBVIOUS

(* Of a unit, the record and the place in it. *)
LEMMA UnitType ==
  ASSUME NEW q \in Seq(Unit), NEW k \in 1 .. Len(q)
  PROVE  q[k] \in Unit /\ q[k][1] \in Nat /\ q[k][2] \in Nat /\ q[k] = <<q[k][1], q[k][2]>>
BY DEF Unit

(* What Framed says of one unit, and of two. *)
LEMMA FramedUnit ==
  ASSUME NEW q \in Seq(Unit), NEW r \in Seq(Message), Framed(q, r), NEW k \in 1 .. Len(q)
  PROVE  /\ q[k][1] \in 1 .. Len(r) /\ r[q[k][1]].len \in Nat
         /\ q[k][2] \in 1 .. HdrSize + r[q[k][1]].len /\ q[k][2] <= k
         /\ EndOf(q, r, k) \in Nat /\ EndOf(q, r, k) >= k
         /\ r[q[k][1]].kind \in {"gpb", "json"}
<1>1. /\ q[k][1] \in 1 .. Len(r) /\ r[q[k][1]].kind \in {"gpb", "json"}
      /\ q[k][2] \in 1 .. HdrSize + r[q[k][1]].len /\ q[k][2] <= k
  BY DEF Framed
<1>2. r[q[k][1]] \in Message
  BY <1>1
<1>3. r[q[k][1]].len \in Nat
  BY <1>2, TapReplayAssumption
<1>4. ASSUME NEW j, NEW n \in Nat, j \in 1 .. HdrSize + n, j <= k
      PROVE  k - j + HdrSize + n \in Nat /\ k - j + HdrSize + n >= k
  BY <1>4
<1> QED
  BY <1>1, <1>3, <1>4, Zenon DEF EndOf

(* A part of an archive from its start is one too. *)
LEMMA FramedPrefix ==
  ASSUME NEW p \in Seq(Unit), NEW q \in Seq(Unit), NEW r, Framed(q, r), StartOf(p, q)
  PROVE  Framed(p, r)
<1> USE DEF StartOf
<1>0. Len(p) \in Nat /\ Len(q) \in Nat
  OBVIOUS
<1>1. ASSUME NEW k \in 1 .. Len(p)
      PROVE  /\ p[k][1] \in 1 .. Len(r) /\ r[p[k][1]].kind \in {"gpb", "json"}
             /\ p[k][2] \in 1 .. HdrSize + r[p[k][1]].len /\ p[k][2] <= k
             /\ \A d \in 0 .. p[k][2] - 1 : p[k - d] = <<p[k][1], p[k][2] - d>>
  <2>1. /\ k \in 1 .. Len(q) /\ p[k] = q[k]
    BY <1>0
  <2>2. /\ q[k][1] \in 1 .. Len(r) /\ r[q[k][1]].kind \in {"gpb", "json"}
        /\ q[k][2] \in 1 .. HdrSize + r[q[k][1]].len /\ q[k][2] <= k
        /\ \A d \in 0 .. q[k][2] - 1 : q[k - d] = <<q[k][1], q[k][2] - d>>
    BY <2>1, Zenon DEF Framed
  <2>3. q[k][2] \in Nat
    BY <2>1, UnitType
  <2>4. \A j \in Nat : j <= k => \A d \in 0 .. j - 1 : k - d \in 1 .. Len(p)
    BY <1>0
  <2> QED
    BY <2>1, <2>2, <2>3, <2>4, Zenon
<1>2. \A k, l \in 1 .. Len(p) :
        k < l => /\ p[k][1] <= p[l][1]
                 /\ p[k][1] = p[l][1] => p[l][2] = p[k][2] + (l - k)
  <2>1. \A k \in 1 .. Len(p) : k \in 1 .. Len(q) /\ p[k] = q[k]
    BY <1>0
  <2> QED
    BY <2>1, Zenon DEF Framed
<1> QED
  BY <1>1, <1>2 DEF Framed

(* A record as it is written. *)
LEMMA RecordUnits ==
  ASSUME NEW n \in Nat, NEW len \in Nat
  PROVE  /\ Record(n, len) \in Seq(Unit) /\ Len(Record(n, len)) = HdrSize + len
         /\ \A j \in 1 .. HdrSize + len : Record(n, len)[j] = <<n, j>>
<1>1. \A j \in 1 .. HdrSize + len : <<n, j>> \in Unit
  BY DEF Unit
<1>2. HdrSize + len \in Nat
  OBVIOUS
<1> QED
  BY <1>1, <1>2 DEF Record

(* The archive with one more record, unit by unit. *)
LEMMA AppendUnits ==
  ASSUME NEW q \in Seq(Unit), NEW r \in Seq(Message), NEW m \in Message
  PROVE  LET a == q \o Record(Len(r) + 1, m.len) IN
         /\ a \in Seq(Unit) /\ Len(a) = Len(q) + HdrSize + m.len /\ m.len \in Nat
         /\ \A k \in 1 .. Len(q) : a[k] = q[k]
         /\ \A k \in Len(q) + 1 .. Len(q) + HdrSize + m.len : a[k] = <<Len(r) + 1, k - Len(q)>>
<1>1. m.len \in Nat /\ Len(r) + 1 \in Nat /\ Len(q) \in Nat
  BY TapReplayAssumption
<1> DEFINE x == Record(Len(r) + 1, m.len)
           a == q \o x
<1>2. /\ x \in Seq(Unit) /\ Len(x) = HdrSize + m.len
      /\ \A j \in 1 .. HdrSize + m.len : x[j] = <<Len(r) + 1, j>>
  BY <1>1, RecordUnits, Zenon
<1>l. Len(x) = HdrSize + m.len
  BY <1>2, Zenon
<1> HIDE DEF x
<1>3. /\ a \in Seq(Unit) /\ Len(a) = Len(q) + Len(x)
      /\ \A i \in 1 .. Len(q) + Len(x) : a[i] = IF i <= Len(q) THEN q[i] ELSE x[i - Len(q)]
  BY <1>2, Concatenated, Zenon
<1> HIDE DEF a
<1>4. ASSUME NEW k \in 1 .. Len(q) PROVE a[k] = q[k]
  <2>1. k \in 1 .. Len(q) + Len(x) /\ k <= Len(q)
    BY <1>1, <1>l
  <2> QED
    BY <1>3, <2>1
<1>5. ASSUME NEW k \in Len(q) + 1 .. Len(q) + HdrSize + m.len
      PROVE  a[k] = <<Len(r) + 1, k - Len(q)>>
  <2>1. k \in 1 .. Len(q) + Len(x) /\ ~(k <= Len(q)) /\ k - Len(q) \in 1 .. HdrSize + m.len
    BY <1>1, <1>l
  <2> QED
    BY <1>2, <1>3, <2>1, Zenon
<1>6. Len(a) = Len(q) + HdrSize + m.len
  BY <1>1, <1>2, <1>3
<1> QED
  BY <1>1, <1>3, <1>4, <1>5, <1>6, Zenon DEF a, x

(* One more message. *)
LEMMA AppendMessage ==
  ASSUME NEW r \in Seq(Message), NEW m \in Message
  PROVE  /\ Append(r, m) \in Seq(Message) /\ Len(Append(r, m)) = Len(r) + 1
         /\ \A i \in 1 .. Len(r) : Append(r, m)[i] = r[i]
         /\ Append(r, m)[Len(r) + 1] = m
OBVIOUS

(* What follows from an archive with one more record. *)
LEMMA FramedAppend ==
  ASSUME NEW q \in Seq(Unit), NEW r \in Seq(Message), NEW m \in Message, Framed(q, r),
         m.kind \in {"gpb", "json"}
  PROVE  Framed(q \o Record(Len(r) + 1, m.len), Append(r, m))
<1> DEFINE a == q \o Record(Len(r) + 1, m.len)
           s == Append(r, m)
<1>1. /\ a \in Seq(Unit) /\ Len(a) = Len(q) + HdrSize + m.len /\ m.len \in Nat
      /\ \A k \in 1 .. Len(q) : a[k] = q[k]
      /\ \A k \in Len(q) + 1 .. Len(q) + HdrSize + m.len : a[k] = <<Len(r) + 1, k - Len(q)>>
  BY AppendUnits, Zenon
<1> HIDE DEF a
<1>2. /\ Len(s) = Len(r) + 1 /\ s[Len(r) + 1] = m
      /\ \A i \in 1 .. Len(r) : s[i] = r[i]
  BY AppendMessage
<1>3. Len(q) \in Nat /\ Len(r) \in Nat
  OBVIOUS
<1> HIDE DEF s
<1>4. ASSUME NEW k \in 1 .. Len(a)
      PROVE  /\ a[k][1] \in 1 .. Len(s) /\ s[a[k][1]].kind \in {"gpb", "json"}
             /\ a[k][2] \in 1 .. HdrSize + s[a[k][1]].len /\ a[k][2] <= k
             /\ \A d \in 0 .. a[k][2] - 1 : a[k - d] = <<a[k][1], a[k][2] - d>>
  <2>1. CASE k <= Len(q)
    <3>1. k \in 1 .. Len(q) /\ a[k] = q[k] /\ q[k][2] \in Nat
      BY <1>1, <1>3, <2>1, UnitType
    <3>2. /\ q[k][1] \in 1 .. Len(r) /\ r[q[k][1]].kind \in {"gpb", "json"}
          /\ q[k][2] \in 1 .. HdrSize + r[q[k][1]].len /\ q[k][2] <= k
          /\ \A d \in 0 .. q[k][2] - 1 : q[k - d] = <<q[k][1], q[k][2] - d>>
      BY <3>1, Zenon DEF Framed
    <3>3. \A j \in Nat : j <= k => \A d \in 0 .. j - 1 : k - d \in 1 .. Len(q)
      BY <1>3, <3>1
    <3>4. s[q[k][1]] = r[q[k][1]] /\ q[k][1] \in 1 .. Len(s)
      BY <1>2, <1>3, <3>2
    <3>5. \A d \in 0 .. q[k][2] - 1 : a[k - d] = q[k - d]
      BY <1>1, <3>1, <3>2, <3>3, Zenon
    <3> QED
      BY <3>1, <3>2, <3>4, <3>5, Zenon
  <2>2. CASE k > Len(q)
    <3>1. k \in Len(q) + 1 .. Len(q) + HdrSize + m.len /\ k - Len(q) \in 1 .. HdrSize + m.len
      BY <1>1, <1>3, <2>2
    <3>2. a[k][1] = Len(r) + 1 /\ a[k][2] = k - Len(q)
      BY <1>1, <3>1
    <3>3. \A d \in 0 .. (k - Len(q)) - 1 :
            /\ k - d \in Len(q) + 1 .. Len(q) + HdrSize + m.len
            /\ (k - d) - Len(q) = (k - Len(q)) - d
      BY <1>1, <1>3, <3>1
    <3>4. \A d \in 0 .. a[k][2] - 1 : a[k - d] = <<a[k][1], a[k][2] - d>>
      BY <1>1, <3>2, <3>3, Zenon
    <3>5. Len(r) + 1 \in 1 .. Len(s) /\ k - Len(q) <= k
      BY <1>2, <1>3, <3>1
    <3> QED
      BY <1>2, <3>1, <3>2, <3>4, <3>5
  <2>3. k <= Len(q) \/ k > Len(q)
    BY <1>1, <1>3
  <2> QED
    BY <2>1, <2>2, <2>3, Zenon
<1>5. ASSUME NEW k \in 1 .. Len(a), NEW l \in 1 .. Len(a), k < l
      PROVE  /\ a[k][1] <= a[l][1]
             /\ a[k][1] = a[l][1] => a[l][2] = a[k][2] + (l - k)
  <2>1. CASE l <= Len(q)
    <3>1. k \in 1 .. Len(q) /\ l \in 1 .. Len(q) /\ a[k] = q[k] /\ a[l] = q[l]
      BY <1>1, <1>3, <1>5, <2>1
    <3> QED
      BY <1>5, <3>1 DEF Framed
  <2>2. CASE l > Len(q)
    <3>1. a[l][1] = Len(r) + 1 /\ a[l][2] = l - Len(q)
      BY <1>1, <1>3, <2>2
    <3>2. CASE k <= Len(q)
      <4>1. k \in 1 .. Len(q) /\ a[k] = q[k]
        BY <1>1, <1>3, <3>2
      <4>2. q[k][1] \in 1 .. Len(r)
        BY <4>1 DEF Framed
      <4> QED
        BY <1>3, <3>1, <4>1, <4>2
    <3>3. CASE k > Len(q)
      <4>1. a[k][1] = Len(r) + 1 /\ a[k][2] = k - Len(q)
        BY <1>1, <1>3, <3>3
      <4> QED
        BY <1>1, <1>3, <3>1, <4>1
    <3> QED
      BY <1>1, <1>3, <3>2, <3>3
  <2> QED
    BY <1>1, <1>3, <2>1, <2>2
<1> QED
  BY <1>4, <1>5, Zenon DEF Framed, a, s

(* Units of the same record, and of records in order. *)
LEMMA FramedPair ==
  ASSUME NEW q \in Seq(Unit), NEW r, Framed(q, r),
         NEW k \in 1 .. Len(q), NEW l \in 1 .. Len(q)
  PROVE  /\ k <= l => q[k][1] <= q[l][1]
         /\ q[k][1] = q[l][1] => l + q[k][2] = k + q[l][2]
<1>0. /\ q[k][1] \in Nat /\ q[k][2] \in Nat /\ q[l][1] \in Nat /\ q[l][2] \in Nat
      /\ k \in Nat /\ l \in Nat
  BY UnitType
<1>1. k < l => q[k][1] <= q[l][1] /\ (q[k][1] = q[l][1] => q[l][2] = q[k][2] + (l - k))
  BY DEF Framed
<1>2. l < k => q[l][1] <= q[k][1] /\ (q[l][1] = q[k][1] => q[k][2] = q[l][2] + (k - l))
  BY DEF Framed
<1> QED
  BY <1>0, <1>1, <1>2

(* The places the record of unit k is to fill: n of them, behind b. *)
LEMMA RecordSpan ==
  ASSUME NEW q \in Seq(Unit), NEW r \in Seq(Message), Framed(q, r), NEW k \in 1 .. Len(q)
  PROVE  \E b, n \in Nat : /\ n = HdrSize + r[q[k][1]].len /\ n > 0
                           /\ b + n = EndOf(q, r, k) /\ k = b + q[k][2]
                           /\ q[k][2] \in 1 .. n
<1>1. /\ r[q[k][1]].len \in Nat /\ q[k][2] \in 1 .. HdrSize + r[q[k][1]].len /\ q[k][2] <= k
  BY FramedUnit
<1>2. PICK j \in Nat, len \in Nat : j = q[k][2] /\ len = r[q[k][1]].len
  BY <1>1
<1>3. j <= k
  BY <1>1, <1>2
<1>4. /\ k - j \in Nat /\ HdrSize + len \in Nat /\ HdrSize + len > 0
      /\ (k - j) + (HdrSize + len) = k - j + HdrSize + len /\ k = (k - j) + j
  BY <1>3
<1> QED
  BY <1>1, <1>2, <1>4, Zenon DEF EndOf

(* Between two units of a record are only units of it. *)
LEMMA Between ==
  ASSUME NEW q \in Seq(Unit), NEW r, Framed(q, r), NEW k \in 1 .. Len(q), NEW l \in 1 .. Len(q),
         NEW e \in 1 .. Len(q), k <= l, l <= e, q[k][1] = q[e][1]
  PROVE  q[l][1] = q[k][1]
<1>1. q[k][1] <= q[l][1] /\ q[l][1] <= q[e][1]
  BY FramedPair
<1>2. q[k][1] \in Nat /\ q[l][1] \in Nat /\ q[e][1] \in Nat
  BY UnitType
<1> QED
  BY <1>1, <1>2

(* A record that has broken off in front of another stays broken off, and  *)
(* what was whole stays whole, as the archive grows.                       *)
LEMMA Grows ==
  ASSUME NEW p \in Seq(Unit), NEW q \in Seq(Unit), NEW r \in Seq(Message), NEW s \in Seq(Message),
         Framed(p, r), Framed(q, s), StartOf(p, q), StartOf(r, s), NEW pos \in 0 .. Len(p)
  PROVE  /\ WholeTo(p, r, pos) => WholeTo(q, s, pos)
         /\ TornTo(p, r, pos) => TornTo(q, s, pos)
<1>0. /\ Len(p) \in Nat /\ Len(q) \in Nat /\ pos \in Nat /\ Len(p) <= Len(q)
      /\ \A k \in 1 .. Len(p) : p[k] = q[k]
      /\ \A i \in 1 .. Len(r) : s[i] = r[i]
  BY DEF StartOf
<1>1. ASSUME NEW k \in 1 .. Len(p)
      PROVE  /\ k \in 1 .. Len(q) /\ p[k] = q[k]
             /\ EndOf(p, r, k) = EndOf(q, s, k) /\ EndOf(p, r, k) \in Nat /\ EndOf(p, r, k) >= k
  <2>1. k \in 1 .. Len(q) /\ p[k] = q[k]
    BY <1>0
  <2>2. p[k][1] \in 1 .. Len(r) /\ EndOf(p, r, k) \in Nat /\ EndOf(p, r, k) >= k
    BY FramedUnit
  <2> QED
    BY <1>0, <2>1, <2>2 DEF EndOf
<1>2. ASSUME NEW k \in 1 .. Len(p), NEW n \in 0 .. Len(p), EndOf(p, r, k) <= n
      PROVE  p[EndOf(p, r, k)] = q[EndOf(q, s, k)]
  <2>1. EndOf(p, r, k) \in 1 .. Len(p)
    BY <1>0, <1>1, <1>2
  <2> QED
    BY <1>1, <2>1
<1>3. ASSUME WholeTo(p, r, pos) PROVE WholeTo(q, s, pos)
  <2> SUFFICES ASSUME NEW k \in 1 .. pos PROVE Ended(q, s, k, pos)
    BY DEF WholeTo
  <2>1. k \in 1 .. Len(p) /\ Ended(p, r, k, pos)
    BY <1>0, <1>3 DEF WholeTo
  <2> QED
    BY <1>1, <1>2, <2>1 DEF Ended
<1>4. ASSUME TornTo(p, r, pos) PROVE TornTo(q, s, pos)
  <2>1. PICK k \in 1 .. pos, l \in 1 .. pos :
          k < l /\ p[l][1] # p[k][1] /\ ~Ended(p, r, k, Len(p))
    BY <1>4 DEF TornTo
  <2>2. /\ k \in 1 .. Len(p) /\ l \in 1 .. Len(p) /\ k \in 1 .. Len(q) /\ l \in 1 .. Len(q)
        /\ q[k] = p[k] /\ q[l] = p[l]
    BY <1>0, <1>1
  <2>3. ASSUME Ended(q, s, k, Len(q)) PROVE FALSE
    <3> DEFINE e == EndOf(q, s, k)
    <3>1. e \in Nat /\ e >= k /\ e <= Len(q) /\ q[e][1] = q[k][1] /\ e = EndOf(p, r, k)
      BY <1>1, <2>2, <2>3 DEF Ended
    <3> HIDE DEF e
    <3>2. CASE e <= Len(p)
      <4>1. e \in 1 .. Len(p)
        BY <2>2, <3>1, <3>2
      <4>2. p[e] = q[e]
        BY <1>1, <4>1
      <4> QED
        BY <2>1, <2>2, <3>1, <3>2, <4>2 DEF Ended
    <3>3. CASE e > Len(p)
      <4>1. e \in 1 .. Len(q) /\ k <= l /\ l <= e
        BY <1>0, <2>1, <2>2, <3>1, <3>3
      <4> QED
        BY <2>1, <2>2, <3>1, <4>1, Between
    <3> QED
      BY <1>0, <3>1, <3>2, <3>3
  <2> QED
    BY <2>1, <2>2, <2>3 DEF TornTo
<1> QED
  BY <1>3, <1>4

(* Reading on, replay does not get past what was torn before. *)
LEMMA TornOnward ==
  ASSUME NEW q, NEW r, NEW pos \in Nat, NEW n \in Nat, TornTo(q, r, pos)
  PROVE  TornTo(q, r, pos + n)
<1>1. \A k \in 1 .. pos : k \in 1 .. pos + n
  OBVIOUS
<1> QED
  BY <1>1 DEF TornTo

(* Up to where its record ends, or replay has read, unit k is followed by  *)
(* the next ones of its record, unless the archive is torn.                *)
LEMMA Unbroken ==
  ASSUME NEW q \in Seq(Unit), NEW r \in Seq(Message), Framed(q, r),
         NEW k \in 1 .. Len(q), NEW pos \in 1 .. Len(q), pos <= EndOf(q, r, k),
         ~TornTo(q, r, pos), NEW l \in k .. pos
  PROVE  q[l] = <<q[k][1], q[k][2] + (l - k)>>
<1>0. /\ l \in 1 .. Len(q) /\ k \in Nat /\ l \in Nat /\ pos \in Nat /\ Len(q) \in Nat
      /\ EndOf(q, r, k) \in Nat
  BY FramedUnit
<1>1. q[l][1] = q[k][1]
  <2>1. CASE l = k
    BY <2>1
  <2>2. CASE q[l][1] # q[k][1] /\ k < l
    <3>1. Ended(q, r, k, Len(q))
      BY <1>0, <2>2 DEF TornTo
    <3> DEFINE e == EndOf(q, r, k)
    <3>2. e <= Len(q) /\ q[e][1] = q[k][1] /\ pos <= e /\ e \in Nat
      BY <1>0, <3>1 DEF Ended
    <3> HIDE DEF e
    <3>3. e \in 1 .. Len(q) /\ k <= l /\ l <= e
      BY <1>0, <2>2, <3>2
    <3> QED
      BY <1>0, <2>2, <3>2, <3>3, Between
  <2> QED
    BY <1>0, <2>1, <2>2
<1>2. l + q[k][2] = k + q[l][2] /\ q[k][2] \in Nat /\ q[l][2] \in Nat
  BY <1>0, <1>1, FramedPair, UnitType
<1>3. \A i, j \in Nat : l + i = k + j => j = i + (l - k)
  BY <1>0
<1>4. q[l][2] = q[k][2] + (l - k)
  BY <1>2, <1>3, Zenon
<1> QED
  BY <1>0, <1>1, <1>4, UnitType

(* Behind whole records a record begins. *)
LEMMA BeginsAtBoundary ==
  ASSUME NEW q \in Seq(Unit), NEW r \in Seq(Message), Framed(q, r),
         NEW pos \in Nat, NEW k \in 1 .. Len(q), k = pos + 1, WholeTo(q, r, pos)
  PROVE  q[k][2] = 1
<1>0. Len(q) \in Nat /\ k \in Nat
  OBVIOUS
<1>1. PICK b \in Nat, n \in Nat : /\ n = HdrSize + r[q[k][1]].len /\ n > 0
                                  /\ b + n = EndOf(q, r, k) /\ k = b + q[k][2]
                                  /\ q[k][2] \in 1 .. n
  BY RecordSpan, SMTT(30)
<1> SUFFICES ASSUME q[k][2] # 1 PROVE FALSE
  OBVIOUS
<1>2. PICK j \in Nat : j = q[k][2] /\ j > 1 /\ j <= n /\ k = b + j
  BY <1>1
<1>3. j > 1 /\ j <= n /\ k = b + j
  BY <1>2
<1>4. 1 \in 0 .. j - 1 /\ pos \in 1 .. pos /\ pos \in 1 .. Len(q) /\ k - 1 = pos
  BY <1>0, <1>3
<1>5. q[pos] = <<q[k][1], j - 1>>
  <2>1. \A d \in 0 .. q[k][2] - 1 : q[k - d] = <<q[k][1], q[k][2] - d>>
    BY DEF Framed
  <2> QED
    BY <1>2, <1>4, <2>1
<1>6. EndOf(q, r, pos) = EndOf(q, r, k)
  <2>1. PICK len \in Nat : len = r[q[k][1]].len
    BY FramedUnit
  <2>2. pos - (j - 1) + HdrSize + len = k - j + HdrSize + len
    OBVIOUS
  <2>3. q[pos][1] = q[k][1] /\ q[pos][2] = j - 1 /\ q[k][2] = j
    BY <1>2, <1>5
  <2>4. EndOf(q, r, pos) = pos - (j - 1) + HdrSize + len
    BY <2>1, <2>3 DEF EndOf
  <2>5. EndOf(q, r, k) = k - j + HdrSize + len
    BY <2>1, <2>3 DEF EndOf
  <2> QED
    BY <2>2, <2>4, <2>5
<1>7. EndOf(q, r, pos) <= pos
  BY <1>4 DEF WholeTo, Ended
<1>8. b + n <= pos
  BY <1>1, <1>6, <1>7
<1> QED
  BY <1>3, <1>8

(* The block replay reads in front of a record is its header. *)
LEMMA HeaderUnits ==
  ASSUME NEW q \in Seq(Unit), NEW r \in Seq(Message), Framed(q, r),
         NEW pos \in Nat, pos + HdrSize <= Len(q), WholeTo(q, r, pos),
         ~TornTo(q, r, pos + HdrSize)
  PROVE  \A j \in 1 .. HdrSize : q[pos + j] = <<q[pos + 1][1], j>>
<1>0. PICK k \in 1 .. Len(q) : k = pos + 1
  OBVIOUS
<1>1. q[k][2] = 1
  BY <1>0, BeginsAtBoundary
<1>2. pos + HdrSize \in 1 .. Len(q) /\ k \in Nat
  BY <1>0
<1>3. pos + HdrSize <= EndOf(q, r, k)
  <2>1. PICK len \in Nat : len = r[q[k][1]].len
    BY FramedUnit
  <2>2. pos + HdrSize <= k - 1 + HdrSize + len
    BY <1>0
  <2> QED
    BY <1>1, <2>1, <2>2 DEF EndOf
<1> TAKE j \in 1 .. HdrSize
<1>4. pos + j \in k .. pos + HdrSize /\ 1 + ((pos + j) - k) = j
  BY <1>0
<1>5. q[pos + j] = <<q[k][1], q[k][2] + ((pos + j) - k)>>
  BY <1>2, <1>3, <1>4, Unbroken
<1> QED
  BY <1>0, <1>1, <1>4, <1>5

(* A record whose header ends at place a ends as many places on as its     *)
(* message is long, counted from any unit of it.                           *)
LEMMA EndPlace ==
  ASSUME NEW a \in Nat, NEW b \in Nat, NEW i \in Nat, NEW n \in Nat, a + i = b + HdrSize
  PROVE  b - i + HdrSize + n = a + n
OBVIOUS

(* The same of EndOf. *)
LEMMA RecordEnd ==
  ASSUME NEW q, NEW r, NEW k \in Nat, NEW a \in Nat, q[k][2] \in Nat, r[q[k][1]].len \in Nat,
         a + q[k][2] = k + HdrSize
  PROVE  EndOf(q, r, k) = a + r[q[k][1]].len
<1> DEFINE i == q[k][2]
           n == r[q[k][1]].len
<1>1. i \in Nat /\ n \in Nat /\ a + i = k + HdrSize
  BY Zenon
<1> HIDE DEF i, n
<1>2. k - i + HdrSize + n = a + n
  BY <1>1, EndPlace
<1> QED
  BY <1>2, Zenon DEF EndOf, i, n

(* The block it reads behind a header is the payload, and then it is in    *)
(* front of a record again.                                                *)
LEMMA UnitsToEnd ==
  ASSUME NEW q \in Seq(Unit), NEW r \in Seq(Message), Framed(q, r),
         NEW pos \in 1 .. Len(q), q[pos][2] = HdrSize, r[q[pos][1]].len \in Nat,
         NEW n \in Nat, EndOf(q, r, pos) = pos + n,
         pos + n <= Len(q), ~TornTo(q, r, pos + n)
  PROVE  /\ \A j \in 0 .. n : q[pos + j] = <<q[pos][1], HdrSize + j>>
         /\ WholeTo(q, r, pos + n)
<1>0. pos \in Nat /\ Len(q) \in Nat /\ pos + n \in 1 .. Len(q)
  OBVIOUS
<1>1. EndOf(q, r, pos) = pos + n
  OBVIOUS
<1>2. ASSUME NEW j \in 0 .. n PROVE q[pos + j] = <<q[pos][1], HdrSize + j>>
  <2>1. pos + j \in pos .. pos + n /\ (pos + j) - pos = j /\ pos + n <= pos + n
    BY <1>0
  <2>2. q[pos + j] = <<q[pos][1], q[pos][2] + ((pos + j) - pos)>>
    BY <1>0, <1>1, <2>1, Unbroken, ZenonT(30)
  <2> QED
    BY <2>1, <2>2
<1>3. ASSUME NEW k \in 1 .. pos + n PROVE Ended(q, r, k, pos + n)
  <2>0. k \in 1 .. Len(q) /\ k \in Nat
    BY <1>0, Places, Zenon
  <2>1. CASE q[k][1] = q[pos][1]
    <3>1. pos + q[k][2] = k + HdrSize /\ q[k][2] \in Nat
      BY <2>0, <2>1, FramedPair, UnitType, Zenon
    <3>2. r[q[k][1]].len = r[q[pos][1]].len
      BY <2>1, Zenon
    <3>3. EndOf(q, r, k) = pos + n
      <4>1. EndOf(q, r, k) = pos + r[q[k][1]].len
        BY <1>0, <2>0, <3>1, <3>2, RecordEnd, Zenon
      <4>2. EndOf(q, r, pos) = pos + r[q[pos][1]].len
        BY <1>0, RecordEnd, Zenon
      <4> QED
        BY <1>1, <3>2, <4>1, <4>2, Zenon
    <3>4. n \in 0 .. n /\ pos + n <= pos + n
      BY <1>0
    <3>5. q[pos + n] = <<q[pos][1], HdrSize + n>>
      BY <1>2, <3>4, Zenon
    <3> QED
      BY <2>1, <3>3, <3>4, <3>5 DEF Ended
  <2>2. CASE q[k][1] # q[pos][1]
    <3>1. k < pos
      <4>1. CASE k >= pos
        <5>1. k - pos \in 0 .. n /\ pos + (k - pos) = k
          BY <1>0, <2>0, <4>1
        <5>2. q[k] = <<q[pos][1], HdrSize + (k - pos)>>
          BY <1>2, <5>1, Zenon
        <5> QED
          BY <2>2, <5>2
      <4> QED
        BY <1>0, <2>0, <4>1
    <3>2. pos \in 1 .. pos + n
      BY <1>0
    <3>3. Ended(q, r, k, Len(q))
      BY <2>2, <3>1, <3>2 DEF TornTo
    <3> DEFINE e == EndOf(q, r, k)
    <3>4. e \in Nat /\ e >= k /\ e <= Len(q) /\ q[e][1] = q[k][1]
      BY <2>0, <3>3, FramedUnit DEF Ended
    <3> HIDE DEF e
    <3>5. e \in 1 .. Len(q)
      BY <2>0, <3>4
    <3>6. CASE pos <= e
      <4>1. k <= pos
        BY <2>0, <3>1
      <4>2. q[pos][1] = q[k][1]
        BY <2>0, <3>4, <3>5, <3>6, <4>1, Between, Zenon
      <4> QED
        BY <2>2, <4>2
    <3>7. CASE e < pos
      <4>1. e <= pos + n
        BY <1>0, <3>5, <3>7, SMTT(30)
      <4> QED
        BY <3>4, <4>1 DEF Ended, e
    <3> QED
      BY <1>0, <3>5, <3>6, <3>7
  <2> QED
    BY <2>1, <2>2
<1> QED
  BY <1>2, <1>3, ZenonT(30) DEF WholeTo

(* The same, of the length that stands in the header. *)
LEMMA PayloadUnits ==
  ASSUME NEW q \in Seq(Unit), NEW r \in Seq(Message), Framed(q, r),
         NEW pos \in 1 .. Len(q), q[pos][2] = HdrSize, NEW n \in Nat, n = r[q[pos][1]].len,
         pos + n <= Len(q), ~TornTo(q, r, pos + n)
  PROVE  /\ \A j \in 0 .. n : q[pos + j] = <<q[pos][1], HdrSize + j>>
         /\ WholeTo(q, r, pos + n)
<1>1. EndOf(q, r, pos) = pos + n
  <2>1. pos - HdrSize + HdrSize + n = pos + n
    OBVIOUS
  <2> QED
    BY <2>1, Zenon DEF EndOf
<1>2. r[q[pos][1]].len \in Nat
  BY Zenon
<1> QED
  BY <1>1, <1>2, UnitsToEnd, Zenon

-----------------------------------------------------------------------------
(* What the writer leaves of a sequence of units in the file, and what it  *)
(* keeps.                                                                  *)
LEMMA Spill ==
  ASSUME NEW f \in Seq(Unit), NEW a \in Seq(Unit), NEW k \in 0 .. Len(a)
  PROVE  /\ f \o SubSeq(a, 1, k) \in Seq(Unit) /\ SubSeq(a, k + 1, Len(a)) \in Seq(Unit)
         /\ Len(SubSeq(a, k + 1, Len(a))) = Len(a) - k
         /\ StartOf(f \o SubSeq(a, 1, k), f \o a) /\ StartOf(f, f \o SubSeq(a, 1, k))
         /\ (f \o SubSeq(a, 1, k)) \o SubSeq(a, k + 1, Len(a)) = f \o a
<1> DEFINE x == SubSeq(a, 1, k)
           y == SubSeq(a, k + 1, Len(a))
<1>0. Len(a) \in Nat /\ Len(f) \in Nat /\ k \in Nat /\ k <= Len(a)
  OBVIOUS
<1>1. x \in Seq(Unit) /\ Len(x) = k /\ \A i \in 1 .. k : x[i] = a[i]
  BY <1>0
<1>2. y \in Seq(Unit) /\ Len(y) = Len(a) - k /\ \A i \in 1 .. Len(a) - k : y[i] = a[k + i]
  BY <1>0
<1> HIDE DEF x, y
<1>3. /\ f \o x \in Seq(Unit) /\ Len(f \o x) = Len(f) + k
      /\ \A i \in 1 .. Len(f) + k : (f \o x)[i] = IF i <= Len(f) THEN f[i] ELSE x[i - Len(f)]
  BY <1>1, Concatenated, Zenon
<1>4. /\ f \o a \in Seq(Unit) /\ Len(f \o a) = Len(f) + Len(a)
      /\ \A i \in 1 .. Len(f) + Len(a) : (f \o a)[i] = IF i <= Len(f) THEN f[i] ELSE a[i - Len(f)]
  BY Concatenated
<1>5. StartOf(f \o x, f \o a)
  <2>1. ASSUME NEW i \in 1 .. Len(f) + k PROVE (f \o x)[i] = (f \o a)[i]
    <3>1. i \in 1 .. Len(f) + Len(a)
      BY <1>0
    <3>2. CASE i <= Len(f)
      BY <1>3, <1>4, <3>1, <3>2
    <3>3. CASE ~(i <= Len(f))
      <4>1. i - Len(f) \in 1 .. k
        BY <1>0, <3>3
      <4> QED
        BY <1>1, <1>3, <1>4, <3>1, <3>3, <4>1
    <3> QED
      BY <3>2, <3>3, Zenon
  <2>2. Len(f) + k <= Len(f) + Len(a)
    BY <1>0
  <2> QED
    BY <1>3, <1>4, <2>1, <2>2 DEF StartOf
<1>6. StartOf(f, f \o x)
  <2>1. \A i \in 1 .. Len(f) : i \in 1 .. Len(f) + k /\ i <= Len(f)
    BY <1>0
  <2>2. Len(f) <= Len(f) + k
    BY <1>0
  <2> QED
    BY <1>3, <2>1, <2>2 DEF StartOf
<1>7. (f \o x) \o y = f \o a
  <2>1. x \o y = a
    <3>1. k \in 0 .. Len(a)
      BY <1>0
    <3> QED
      BY <3>1, Split, Zenon DEF x, y
  <2>2. (f \o x) \o y = f \o (x \o y)
    <3>1. x \in Seq(Unit) /\ y \in Seq(Unit)
      BY <1>1, <1>2
    <3> QED
      BY <3>1, Regrouped
  <2> QED
    BY <2>1, <2>2, SMTT(30)
<1> QED
  BY <1>1, <1>2, <1>3, <1>5, <1>6, <1>7, Zenon DEF x, y

(* The archive as a whole with one more record, and that all is in it if   *)
(* all was before.                                                         *)
LEMMA CompleteAppend ==
  ASSUME NEW q \in Seq(Unit), NEW r \in Seq(Message), NEW m \in Message, Framed(q, r),
         m.kind \in {"gpb", "json"}, Complete(q, r)
  PROVE  Complete(q \o Record(Len(r) + 1, m.len), Append(r, m))
<1> DEFINE a == q \o Record(Len(r) + 1, m.len)
           s == Append(r, m)
<1>1. /\ a \in Seq(Unit) /\ Len(a) = Len(q) + HdrSize + m.len /\ m.len \in Nat
      /\ \A k \in 1 .. Len(q) : a[k] = q[k]
      /\ \A k \in Len(q) + 1 .. Len(q) + HdrSize + m.len : a[k] = <<Len(r) + 1, k - Len(q)>>
  BY AppendUnits, Zenon
<1>2. /\ s \in Seq(Message) /\ Len(s) = Len(r) + 1 /\ s[Len(r) + 1] = m
      /\ \A i \in 1 .. Len(r) : s[i] = r[i]
  BY AppendMessage
<1>3. Framed(a, s)
  BY FramedAppend
<1>4. Len(q) \in Nat /\ Len(r) \in Nat
  OBVIOUS
<1> HIDE DEF a, s
<1>5. ASSUME NEW k \in 1 .. Len(a) PROVE Ended(a, s, k, Len(a))
  <2>1. CASE k <= Len(q)
    <3>1. StartOf(q, a) /\ StartOf(r, s)
      BY <1>1, <1>2, <1>4 DEF StartOf
    <3>2. Len(q) \in 0 .. Len(q) /\ k \in 1 .. Len(q) /\ Len(q) <= Len(a) /\ Len(a) \in Nat
      BY <1>1, <1>4, <2>1
    <3>3. WholeTo(a, s, Len(q))
      BY <1>1, <1>2, <1>3, <3>1, <3>2, Grows, Zenon DEF Complete
    <3>4. Ended(a, s, k, Len(q)) /\ EndOf(a, s, k) \in Nat
      BY <1>1, <1>2, <1>3, <3>2, <3>3, FramedUnit DEF WholeTo
    <3> QED
      BY <1>4, <3>2, <3>4 DEF Ended
  <2>2. CASE k > Len(q)
    <3>1. k \in Len(q) + 1 .. Len(q) + HdrSize + m.len
      BY <1>1, <1>4, <2>2
    <3>2. a[k][1] = Len(r) + 1 /\ a[k][2] = k - Len(q)
      BY <1>1, <3>1
    <3>3. k - (k - Len(q)) + HdrSize + m.len = Len(a)
      BY <1>1, <1>4, <3>1
    <3>4. EndOf(a, s, k) = Len(a)
      BY <1>2, <3>2, <3>3 DEF EndOf
    <3>5. Len(a) \in Len(q) + 1 .. Len(q) + HdrSize + m.len /\ Len(a) <= Len(a)
      BY <1>1, <1>4
    <3>6. a[Len(a)][1] = Len(r) + 1
      BY <1>1, <3>5
    <3> QED
      BY <3>2, <3>4, <3>5, <3>6 DEF Ended
  <2>3. k <= Len(q) \/ k > Len(q)
    BY <1>1, <1>4
  <2> QED
    BY <2>1, <2>2, <2>3
<1>6. ASSUME NEW i \in 1 .. Len(s), EncapOf(s[i].kind) # "UNSED" PROVE \E k \in 1 .. Len(a) : a[k][1] = i
  <2>1. CASE i \in 1 .. Len(r)
    <3>1. PICK k \in 1 .. Len(q) : q[k][1] = i
      BY <1>2, <1>6, <2>1 DEF Complete
    <3>2. k \in 1 .. Len(a) /\ a[k] = q[k]
      BY <1>1, <1>4
    <3> QED
      BY <3>1, <3>2
  <2>2. CASE i = Len(r) + 1
    <3>1. Len(q) + 1 \in Len(q) + 1 .. Len(q) + HdrSize + m.len /\ Len(q) + 1 \in 1 .. Len(a)
      BY <1>1, <1>4
    <3>2. a[Len(q) + 1][1] = Len(r) + 1
      BY <1>1, <3>1, SMTT(30)
    <3> QED
      BY <2>2, <3>1, <3>2
  <2> QED
    BY <1>2, <1>4, <2>1, <2>2
<1> QED
  BY <1>5, <1>6, Zenon DEF Complete, WholeTo, a, s

-----------------------------------------------------------------------------
TapInv == TypeOK /\ ArchiveInv /\ FirstStartInv /\ ReaderInv

USE DEF tapVars, confVars, repVars, chanVars, vars

(* What a sequence begins with. *)
LEMMA ConcatStart ==
  ASSUME NEW f \in Seq(Unit), NEW b \in Seq(Unit)
  PROVE  f \o b \in Seq(Unit) /\ StartOf(f, f \o b)
<1>1. /\ f \o b \in Seq(Unit) /\ Len(f \o b) = Len(f) + Len(b)
      /\ \A i \in 1 .. Len(f) + Len(b) : (f \o b)[i] = IF i <= Len(f) THEN f[i] ELSE b[i - Len(f)]
  BY Concatenated
<1>2. /\ Len(f) <= Len(f) + Len(b)
      /\ \A i \in 1 .. Len(f) : i \in 1 .. Len(f) + Len(b) /\ i <= Len(f)
  OBVIOUS
<1> QED
  BY <1>1, <1>2 DEF StartOf

(* The file is an archive, with the buffer and without. *)
LEMMA FileFramed ==
  ASSUME ArchiveInv
  PROVE  Framed(file, rec) /\ StartOf(file, file \o buf) /\ file \o buf \in Seq(Unit)
<1>1. /\ file \in Seq(Unit) /\ buf \in Seq(Unit) /\ Framed(file \o buf, rec)
  BY DEF ArchiveInv
<1>2. file \o buf \in Seq(Unit) /\ StartOf(file, file \o buf)
  BY <1>1, ConcatStart
<1> QED
  BY <1>1, <1>2, FramedPrefix, ZenonT(30)

(* The archive once the tap has written another message to it. *)
LEMMA NewRecord ==
  ASSUME ArchiveInv, NEW m \in Message, m.kind \in {"gpb", "json"}
  PROVE  LET all == buf \o Record(Len(rec) + 1, m.len) IN
         /\ all \in Seq(Unit) /\ file \o all \in Seq(Unit)
         /\ file \o all = (file \o buf) \o Record(Len(rec) + 1, m.len)
         /\ Framed(file \o all, Append(rec, m))
<1> DEFINE x == Record(Len(rec) + 1, m.len)
<1>1. /\ file \in Seq(Unit) /\ buf \in Seq(Unit) /\ rec \in Seq(Message)
      /\ Framed(file \o buf, rec)
  BY DEF ArchiveInv
<1>2. x \in Seq(Unit)
  <2>1. Len(rec) + 1 \in Nat /\ m.len \in Nat
    BY <1>1, TapReplayAssumption
  <2> QED
    BY <2>1, RecordUnits, Zenon
<1>3. Framed((file \o buf) \o x, Append(rec, m))
  <2>1. file \o buf \in Seq(Unit)
    BY <1>1
  <2> QED
    BY <1>1, <2>1, FramedAppend, ZenonT(30)
<1> HIDE DEF x
<1>4. buf \o x \in Seq(Unit) /\ file \o (buf \o x) \in Seq(Unit)
  BY <1>1, <1>2
<1>5. file \o (buf \o x) = (file \o buf) \o x
  <2>1. file \in Seq(Unit) /\ buf \in Seq(Unit)
    BY <1>1
  <2> QED
    BY <1>2, <2>1, Regrouped
<1> QED
  BY <1>3, <1>4, <1>5, Zenon DEF x

(* A message that gets a record. *)
LEMMA Encoded ==
  ASSUME NEW m \in Message, EncapOf(m.kind) # "UNSED" PROVE m.kind \in {"gpb", "json"}
BY TapReplayAssumption DEF EncapOf, encapSTFromEncoding, dataMsgStreamTypeToEncoding, MsgKind

(* A step is one of the tap or of somebody else. *)
LEMMA TapOrNot ==
  ASSUME [Next]_vars
  PROVE  \/ UNCHANGED tapVars
         \/ UNCHANGED repVars /\ Tap
<1>1. CASE Tap
  BY <1>1, ZenonT(30) DEF Tap, TapStart, TapSkip, TapWrite, TapWriteFails, TapShutdown, TapProcessEnds
<1>2. CASE Replay
  BY <1>2 DEF Replay, RepOpen, RepTick, RepReadFails, RepEnd, RepTest, RepSend, RepHeader, RepData
<1>3. CASE RepAsk \/ RepAck \/ Outputs
  BY <1>3 DEF RepAsk, RepAck, Outputs, OtherSends, Take, OutputDies
<1> QED
  BY <1>1, <1>2, <1>3, SMTT(30) DEF Next

(* A sequence begins as it does. *)
LEMMA StartSelf == ASSUME NEW S, NEW q \in Seq(S) PROVE StartOf(q, q)
BY DEF StartOf

(* A message that is skipped does not change what the archive is, ... *)
LEMMA FramedSkip ==
  ASSUME NEW q \in Seq(Unit), NEW r \in Seq(Message), NEW m \in Message, Framed(q, r)
  PROVE  Framed(q, Append(r, m)) /\ Append(r, m) \in Seq(Message) /\ StartOf(r, Append(r, m))
<1> DEFINE s == Append(r, m)
<1>1. /\ s \in Seq(Message) /\ Len(s) = Len(r) + 1 /\ Len(r) \in Nat
      /\ \A i \in 1 .. Len(r) : s[i] = r[i]
  BY AppendMessage
<1> HIDE DEF s
<1>2. \A i \in 1 .. Len(r) : i \in 1 .. Len(s) /\ s[i] = r[i]
  BY <1>1
<1>3. Framed(q, s)
  BY <1>2, Zenon DEF Framed
<1> QED
  BY <1>1, <1>3 DEF StartOf, s

(* ... nor that all is in it, if it has no encapsulation. *)
LEMMA CompleteSkip ==
  ASSUME NEW q \in Seq(Unit), NEW r \in Seq(Message), NEW m \in Message, Framed(q, r),
         EncapOf(m.kind) = "UNSED", Complete(q, r)
  PROVE  Complete(q, Append(r, m))
<1> DEFINE s == Append(r, m)
<1>1. /\ Len(s) = Len(r) + 1 /\ s[Len(r) + 1] = m /\ Len(r) \in Nat
      /\ \A i \in 1 .. Len(r) : s[i] = r[i]
  BY AppendMessage
<1>2. Framed(q, s) /\ s \in Seq(Message) /\ StartOf(r, s)
  BY FramedSkip, Zenon
<1> HIDE DEF s
<1>3. StartOf(q, q) /\ Len(q) \in 0 .. Len(q)
  BY StartSelf
<1>4. WholeTo(q, s, Len(q))
  BY <1>2, <1>3, Grows, ZenonT(30) DEF Complete
<1>5. \A i \in 1 .. Len(s) : i \in 1 .. Len(r) \/ i = Len(r) + 1
  BY <1>1
<1>6. ASSUME NEW i \in 1 .. Len(s), EncapOf(s[i].kind) # "UNSED"
      PROVE  \E k \in 1 .. Len(q) : q[k][1] = i
  BY <1>1, <1>5, <1>6, Zenon DEF Complete
<1> QED
  BY <1>4, <1>6, Zenon DEF Complete, s

(* The archive grows, and stays an archive. *)
LEMMA TapArchive ==
  ASSUME ArchiveInv, [Next]_vars
  PROVE  ArchiveInv' /\ StartOf(file, file') /\ StartOf(rec, rec')
<1>1. /\ file \in Seq(Unit) /\ buf \in Seq(Unit) /\ rec \in Seq(Message)
      /\ Framed(file \o buf, rec) /\ (tap # "run" => buf = << >>)
      /\ StartOf(file, file) /\ StartOf(rec, rec)
  BY StartSelf, ZenonT(30) DEF ArchiveInv
<1>2. CASE UNCHANGED <<file, buf, rec>> /\ (tap' # "run" => tap # "run" \/ buf = << >>)
  BY <1>1, <1>2 DEF ArchiveInv
<1>3. CASE TapProcessEnds
  <2>1. file' = file /\ buf' = << >> /\ rec' = rec
    BY <1>3 DEF TapProcessEnds
  <2>2. file' \o buf' = file /\ Framed(file, rec)
    BY <1>1, <2>1, FileFramed
  <2> QED
    BY <1>1, <2>1, <2>2 DEF ArchiveInv
<1>4. CASE TapShutdown
  <2>1. buf' = << >> /\ rec' = rec /\ tap' # "run"
    BY <1>4 DEF TapShutdown
  <2>2. file' \in Seq(Unit) /\ StartOf(file', file \o buf) /\ StartOf(file, file')
    <3>1. CASE file' = file \o buf
      BY <1>1, <3>1, FileFramed, StartSelf, ZenonT(30)
    <3>2. CASE file' = file
      BY <1>1, <3>2, FileFramed
    <3>3. CASE \E k \in 0 .. Len(buf) - 1 : file' = file \o SubSeq(buf, 1, k)
      <4> PICK k \in 0 .. Len(buf) - 1 : file' = file \o SubSeq(buf, 1, k)
        BY <3>3
      <4>1. k \in 0 .. Len(buf)
        BY <1>1
      <4> QED
        BY <1>1, <4>1, Spill, Zenon
    <3> QED
      BY <1>4, <3>1, <3>2, <3>3, Zenon DEF TapShutdown
  <2>3. Framed(file', rec)
    BY <1>1, <2>2, FileFramed, FramedPrefix, ZenonT(30)
  <2>4. file' \o buf' = file'
    BY <2>1, <2>2
  <2> QED
    BY <1>1, <2>1, <2>2, <2>3, <2>4 DEF ArchiveInv
<1>5. ASSUME NEW m \in Message, TapWrite(m) \/ TapWriteFails(m)
      PROVE  ArchiveInv' /\ StartOf(file, file') /\ StartOf(rec, rec')
  <2> DEFINE all == buf \o Record(Len(rec) + 1, m.len)
  <2>2. rec' = Append(rec, m) /\ m.kind \in {"gpb", "json"}
    BY <1>5, Encoded DEF TapWrite, TapWriteFails
  <2>1. /\ all \in Seq(Unit) /\ file \o all \in Seq(Unit)
        /\ Framed(file \o all, Append(rec, m))
    BY <2>2, NewRecord
  <2>3. rec' \in Seq(Message) /\ StartOf(rec, rec')
    <3>1. file \o buf \in Seq(Unit)
      BY <1>1
    <3> QED
      BY <1>1, <2>2, <3>1, FramedSkip, ZenonT(30)
  <2>4. CASE TapWrite(m)
    <3>0. Buffered(all) /\ tap' = "run"
      BY <2>4 DEF TapWrite
    <3> HIDE DEF all
    <3>1. CASE file' = file /\ buf' = all
      BY <1>1, <2>1, <2>2, <2>3, <3>0, <3>1, Zenon DEF ArchiveInv
    <3>2. ASSUME NEW k \in 1 .. Len(all), file' = file \o SubSeq(all, 1, k),
                 buf' = SubSeq(all, k + 1, Len(all))
          PROVE  ArchiveInv' /\ StartOf(file, file')
      <4>1. k \in 0 .. Len(all)
        BY <2>1
      <4>2. /\ file' \in Seq(Unit) /\ buf' \in Seq(Unit) /\ file' \o buf' = file \o all
            /\ StartOf(file, file')
        BY <1>1, <2>1, <3>2, <4>1, Spill, ZenonT(30)
      <4> QED
        BY <2>1, <2>2, <2>3, <3>0, <4>2, Zenon DEF ArchiveInv
    <3> QED
      BY <1>1, <2>3, <3>0, <3>1, <3>2, ZenonT(30) DEF Buffered
  <2>5. CASE TapWriteFails(m)
    <3>0. buf' = << >> /\ tap' = "broken" /\ \E k \in 0 .. Len(all) - 1 : file' = file \o SubSeq(all, 1, k)
      BY <2>5, Zenon DEF TapWriteFails
    <3> HIDE DEF all
    <3> PICK k \in 0 .. Len(all) - 1 : file' = file \o SubSeq(all, 1, k)
      BY <3>0
    <3>1. k \in 0 .. Len(all)
      BY <2>1
    <3>2. file' \in Seq(Unit) /\ StartOf(file', file \o all) /\ StartOf(file, file')
      BY <1>1, <2>1, <3>1, Spill, Zenon
    <3>3. Framed(file', rec')
      BY <2>1, <2>2, <3>2, FramedPrefix, ZenonT(30)
    <3>4. file' \o buf' = file' /\ buf' \in Seq(Unit)
      BY <3>0, <3>2
    <3> QED
      BY <2>3, <3>0, <3>2, <3>3, <3>4 DEF ArchiveInv
  <2> QED
    BY <1>5, <2>4, <2>5
<1>6. CASE TapStart
  BY <1>1, <1>2, <1>6 DEF TapStart
<1>7. ASSUME NEW m \in Message, TapSkip(m)
      PROVE  ArchiveInv' /\ StartOf(file, file') /\ StartOf(rec, rec')
  <2>1. UNCHANGED <<file, buf, tap>> /\ rec' = Append(rec, m)
    BY <1>7 DEF TapSkip
  <2>2. file \o buf \in Seq(Unit)
    BY <1>1
  <2>3. Framed(file \o buf, rec') /\ rec' \in Seq(Message) /\ StartOf(rec, rec')
    BY <1>1, <2>1, <2>2, FramedSkip, ZenonT(30)
  <2> QED
    BY <1>1, <2>1, <2>3, Zenon DEF ArchiveInv
<1> QED
  BY <1>2, <1>3, <1>4, <1>5, <1>6, <1>7, TapOrNot DEF Tap

(* The file is an archive of its own after the step too. *)
LEMMA FileFramedNext ==
  ASSUME ArchiveInv, [Next]_vars
  PROVE  /\ Framed(file', rec') /\ file' \in Seq(Unit) /\ rec' \in Seq(Message)
         /\ StartOf(file, file') /\ StartOf(rec, rec')
<1>1. /\ file' \in Seq(Unit) /\ buf' \in Seq(Unit) /\ Framed(file' \o buf', rec')
      /\ rec' \in Seq(Message) /\ StartOf(file, file') /\ StartOf(rec, rec')
  BY TapArchive, Zenon DEF ArchiveInv
<1>2. file' \o buf' \in Seq(Unit) /\ StartOf(file', file' \o buf')
  BY <1>1, ConcatStart
<1>3. Framed(file', rec')
  BY <1>1, <1>2, FramedPrefix, ZenonT(30)
<1> QED
  BY <1>1, <1>3, Zenon

(* While it is the first process that writes, nothing is missing. *)
LEMMA TapFirstStart ==
  ASSUME ArchiveInv, FirstStartInv, [Next]_vars PROVE FirstStartInv'
<1>1. /\ file \in Seq(Unit) /\ buf \in Seq(Unit) /\ rec \in Seq(Message)
      /\ file \o buf \in Seq(Unit) /\ Framed(file \o buf, rec) /\ (tap # "run" => buf = << >>)
      /\ starts \in Nat /\ (starts = 0 => tap = "off" /\ file = << >> /\ rec = << >>)
      /\ starts = 1 /\ tap \in {"run", "acked"} => Complete(file \o buf, rec)
  BY FileFramed DEF ArchiveInv, FirstStartInv
<1>2. CASE UNCHANGED <<file, buf, rec, tap, starts>>
  BY <1>1, <1>2 DEF FirstStartInv
<1>3. CASE TapStart
  <2>1. starts' = starts + 1 /\ UNCHANGED <<file, buf, rec>> /\ starts' # 0
    BY <1>1, <1>3 DEF TapStart
  <2>2. ASSUME starts' = 1 PROVE Complete(file \o buf, rec)
    <3>1. file = << >> /\ buf = << >> /\ rec = << >>
      BY <1>1, <2>1, <2>2
    <3>2. file \o buf = << >>
      BY <3>1
    <3>3. Len(<< >>) = 0 /\ 1 .. 0 = {}
      OBVIOUS
    <3> QED
      BY <3>1, <3>2, <3>3 DEF Complete, WholeTo
  <2> QED
    BY <1>1, <2>1, <2>2 DEF FirstStartInv
<1>4. CASE TapProcessEnds
  <2>1. tap' = "off" /\ UNCHANGED <<file, rec, starts>>
    BY <1>4 DEF TapProcessEnds
  <2> QED
    BY <1>1, <2>1 DEF FirstStartInv
<1>5. CASE TapShutdown
  <2>1. tap \in {"run", "broken"} /\ starts # 0 /\ UNCHANGED <<rec, starts>> /\ buf' = << >>
    BY <1>1, <1>5 DEF TapShutdown
  <2>2. tap' = "lost" \/ (tap = "run" /\ file' = file \o buf)
    BY <1>5 DEF TapShutdown
  <2>3. ASSUME tap = "run", file' = file \o buf PROVE file' \o buf' = file \o buf
    BY <1>1, <2>1, <2>3
  <2> QED
    BY <1>1, <2>1, <2>2, <2>3, ZenonT(30) DEF FirstStartInv
<1>6. ASSUME NEW m \in Message, TapWrite(m) PROVE FirstStartInv'
  <2> DEFINE all == buf \o Record(Len(rec) + 1, m.len)
  <2>0. m.kind \in {"gpb", "json"}
    BY <1>6, Encoded DEF TapWrite
  <2>1. /\ all \in Seq(Unit) /\ file \o all = (file \o buf) \o Record(Len(rec) + 1, m.len)
    BY <2>0, NewRecord
  <2>2. /\ tap = "run" /\ starts # 0 /\ UNCHANGED <<starts, tap>> /\ rec' = Append(rec, m)
        /\ Buffered(all)
    BY <1>1, <1>6 DEF TapWrite
  <2>3. file' \o buf' = file \o all
    <3> HIDE DEF all
    <3>1. CASE file' = file /\ buf' = all
      BY <3>1
    <3>2. ASSUME NEW k \in 1 .. Len(all), file' = file \o SubSeq(all, 1, k),
                 buf' = SubSeq(all, k + 1, Len(all))
          PROVE  file' \o buf' = file \o all
      <4>1. k \in 0 .. Len(all)
        BY <2>1
      <4> QED
        BY <1>1, <2>1, <3>2, <4>1, Spill, ZenonT(30)
    <3> QED
      BY <2>2, <3>1, <3>2, Zenon DEF Buffered
  <2>4. ASSUME starts = 1 PROVE Complete(file' \o buf', rec')
    <3>1. Complete((file \o buf) \o Record(Len(rec) + 1, m.len), Append(rec, m))
      BY <1>1, <2>0, <2>2, <2>4, CompleteAppend, ZenonT(30)
    <3> QED
      BY <2>1, <2>2, <2>3, <3>1, Zenon
  <2> QED
    BY <1>1, <2>2, <2>4 DEF FirstStartInv
<1>7. ASSUME NEW m \in Message, TapWriteFails(m) PROVE FirstStartInv'
  BY <1>1, <1>7 DEF TapWriteFails, FirstStartInv
<1>8. ASSUME NEW m \in Message, TapSkip(m) PROVE FirstStartInv'
  <2>1. /\ UNCHANGED <<file, buf, tap, starts>> /\ rec' = Append(rec, m) /\ starts # 0
        /\ tap = "broken" \/ (tap = "run" /\ EncapOf(m.kind) = "UNSED")
    BY <1>1, <1>8 DEF TapSkip
  <2>2. ASSUME starts = 1, tap \in {"run", "acked"} PROVE Complete(file \o buf, rec')
    <3>1. EncapOf(m.kind) = "UNSED"
      BY <2>1, <2>2
    <3> QED
      BY <1>1, <2>1, <2>2, <3>1, CompleteSkip, ZenonT(30)
  <2> QED
    BY <1>1, <2>1, <2>2, Zenon DEF FirstStartInv
<1> QED
  BY <1>2, <1>3, <1>4, <1>5, <1>6, <1>7, <1>8, TapOrNot, Zenon DEF Tap

(* Types: the tap's, replay's, and those of the data channels. *)
LEMMA TapTypes ==
  ASSUME TapInv, [Next]_vars
  PROVE  /\ Len(rec') <= MaxRec
         /\ \A k \in DOMAIN file' : file'[k][1] \in DOMAIN rec'
         /\ Len(buf') <= BufSize
         /\ tap' \in {"off", "gone", "run", "broken", "acked", "lost"}
<1>0. /\ ArchiveInv /\ rec \in Seq(Message) /\ Len(rec) <= MaxRec
      /\ Len(buf) <= BufSize /\ tap \in {"off", "gone", "run", "broken", "acked", "lost"}
      /\ buf \in Seq(Unit) /\ Len(rec) \in Nat
  <2>1. /\ ArchiveInv /\ rec \in Seq(Message) /\ Len(rec) <= MaxRec
        /\ Len(buf) <= BufSize /\ tap \in {"off", "gone", "run", "broken", "acked", "lost"}
    BY Zenon DEF TapInv, TypeOK
  <2>2. buf \in Seq(Unit)
    BY <2>1, Zenon DEF ArchiveInv
  <2> QED
    BY <2>1, <2>2
<1>c. BufSize \in Nat /\ MaxRec \in Nat /\ Len(<< >>) = 0
  BY TapReplayAssumption, SMTT(30)
<1>1. \A k \in DOMAIN file' : file'[k][1] \in DOMAIN rec'
  <2>1. Framed(file', rec') /\ file' \in Seq(Unit) /\ rec' \in Seq(Message)
    BY <1>0, FileFramedNext
  <2>2. DOMAIN file' = 1 .. Len(file') /\ DOMAIN rec' = 1 .. Len(rec')
    BY <2>1
  <2> QED
    BY <2>1, <2>2, Zenon DEF Framed
<1>2. CASE UNCHANGED tapVars
  BY <1>0, <1>1, <1>2, Zenon
<1>3. CASE TapStart \/ TapShutdown \/ TapProcessEnds
  BY <1>0, <1>c, <1>1, <1>3 DEF TapStart, TapShutdown, TapProcessEnds
<1>4. ASSUME NEW m \in Message, TapSkip(m)
      PROVE  /\ Len(rec') <= MaxRec /\ Len(buf') <= BufSize
             /\ tap' \in {"off", "gone", "run", "broken", "acked", "lost"}
  <2>1. rec' = Append(rec, m) /\ Len(rec) < MaxRec /\ UNCHANGED <<buf, tap>>
    BY <1>4 DEF TapSkip
  <2>2. Len(rec') = Len(rec) + 1
    BY <1>0, <2>1, AppendMessage
  <2> QED
    BY <1>0, <1>c, <2>1, <2>2
<1>5. ASSUME NEW m \in Message, TapWrite(m) \/ TapWriteFails(m)
      PROVE  /\ Len(rec') <= MaxRec /\ Len(buf') <= BufSize
             /\ tap' \in {"off", "gone", "run", "broken", "acked", "lost"}
  <2>1. rec' = Append(rec, m) /\ Len(rec) < MaxRec /\ tap' \in {tap, "broken"}
    BY <1>5 DEF TapWrite, TapWriteFails
  <2>2. Len(rec') = Len(rec) + 1
    BY <1>0, <2>1, AppendMessage
  <2>3. Len(rec') <= MaxRec
    BY <1>0, <1>c, <2>1, <2>2
  <2>4. Len(buf') <= BufSize
    <3>1. CASE TapWriteFails(m)
      BY <1>c, <3>1 DEF TapWriteFails
    <3>2. CASE TapWrite(m)
      <4> DEFINE all == buf \o Record(Len(rec) + 1, m.len)
      <4>0. m.kind \in {"gpb", "json"} /\ Buffered(all)
        BY <3>2, Encoded DEF TapWrite
      <4>1. all \in Seq(Unit) /\ Buffered(all)
        BY <1>0, <4>0, NewRecord, Zenon
      <4> HIDE DEF all
      <4>2. ASSUME NEW k \in 1 .. Len(all), Len(all) - k <= BufSize,
                   buf' = SubSeq(all, k + 1, Len(all))
            PROVE  Len(buf') <= BufSize
        <5>1. k \in 0 .. Len(all)
          BY <4>1
        <5>2. Len(buf') = Len(all) - k
          BY <4>1, <4>2, <5>1, Spill
        <5> QED
          BY <4>2, <5>2
      <4> QED
        BY <4>1, <4>2 DEF Buffered
    <3> QED
      BY <1>5, <3>1, <3>2
  <2> QED
    BY <1>0, <2>1, <2>3, <2>4, Zenon
<1> QED
  BY <1>1, <1>2, <1>3, <1>4, <1>5, TapOrNot DEF Tap

(* The types of what replay and the outputs write. *)
LEMMA RepTypes ==
  ASSUME TapInv, [Next]_vars
  PROVE  /\ rep' \in {"start", "select", "read", "test", "send", "retry", "acked", "ended"}
         /\ rpos' \in 0 .. Len(file') /\ parser' \in Parser
         /\ msg'.rec \in 0 .. MaxRec + 1 /\ next' \in 1 .. NumOut
         /\ queued' \in [Output -> 0 .. Depth]
<1>0. /\ rep \in {"start", "select", "read", "test", "send", "retry", "acked", "ended"}
      /\ rpos \in 0 .. Len(file) /\ parser \in Parser
      /\ msg.rec \in 0 .. MaxRec + 1 /\ next \in 1 .. NumOut
      /\ queued \in [Output -> 0 .. Depth]
  BY DEF TapInv, TypeOK
<1>c. NumOut \in Nat \ {0} /\ Depth \in Nat /\ MaxRec \in Nat
  BY TapReplayAssumption, SMTT(30)
<1>1. /\ file \in Seq(Unit) /\ file' \in Seq(Unit) /\ Len(file) \in Nat /\ Len(file') \in Nat
      /\ Len(file) <= Len(file')
  BY FileFramedNext DEF TapInv, ArchiveInv, StartOf
<1>2. queued' \in [Output -> 0 .. Depth]
  <2>1. CASE UNCHANGED queued
    BY <1>0, <2>1
  <2>2. ASSUME NEW o \in Output, queued[o] < Depth, queued' = [queued EXCEPT ![o] = @ + 1]
        PROVE  queued' \in [Output -> 0 .. Depth]
    BY <1>0, <1>c, <2>2
  <2>3. ASSUME NEW o \in Output, queued[o] > 0, queued' = [queued EXCEPT ![o] = @ - 1]
        PROVE  queued' \in [Output -> 0 .. Depth]
    BY <1>0, <1>c, <2>3
  <2>4. next \in Output
    BY <1>0 DEF Output
  <2>5. CASE Outputs
    BY <2>1, <2>2, <2>3, <2>5, Zenon DEF Outputs, OtherSends, Take, OutputDies
  <2>6. CASE Replay
    BY <2>1, <2>2, <2>4, <2>6, Zenon
    DEF Replay, RepOpen, RepTick, RepReadFails, RepEnd, RepTest, RepSend, RepHeader, RepData
  <2>7. CASE Tap \/ RepAsk \/ RepAck
    BY <2>1, <2>7 DEF Tap, TapStart, TapSkip, TapWrite, TapWriteFails, TapShutdown, TapProcessEnds,
                      RepAsk, RepAck
  <2> QED
    BY <2>1, <2>5, <2>6, <2>7 DEF Next
<1>3. CASE UNCHANGED repVars
  BY <1>0, <1>1, <1>2, <1>3
<1>4. CASE RepAck
  BY <1>0, <1>2, <1>4, Zenon DEF RepAck
<1>5. CASE RepOpen \/ RepTick \/ RepReadFails \/ RepEnd
  <2>1. NewParser \in Parser /\ 0 \in 0 .. Len(file')
    BY <1>1 DEF NewParser, Parser, Codec
  <2> QED
    BY <1>0, <1>2, <1>5, <2>1, Zenon DEF RepOpen, RepTick, RepReadFails, RepStop, RepEnd
<1>6. CASE RepTest \/ RepSend
  <2>1. /\ rep' \in {"test", "send", "select"} /\ msg' \in {msg, None} /\ next' \in 1 .. NumOut
        /\ UNCHANGED <<rpos, parser, file>>
    BY <1>0, <1>c, <1>6 DEF RepTest, RepSend, Advance
  <2>2. None.rec = 0
    BY DEF None
  <2> QED
    BY <1>0, <1>c, <1>2, <2>1, <2>2, SMTT(30)
<1>7. ASSUME NEW hdr \in Header, RepHeader(hdr)
      PROVE  /\ rep' \in {rep, "retry"} /\ rpos' \in 0 .. Len(file') /\ parser' \in Parser
             /\ UNCHANGED <<msg, next>>
  <2>1. CASE HeaderOK(hdr)
    <3>1. /\ parser' = AfterHeader(parser, hdr) /\ rpos' = rpos + HdrSize /\ file' = file
          /\ Len(file) - rpos >= HdrSize /\ UNCHANGED <<rep, msg, next>>
      BY <1>7, <2>1 DEF RepHeader, Want, Left, NextBlockSize
    <3>2. hdr.len \in 0 .. MaxPayload /\ CodecFor(hdr.encap) \in Codec
      BY <2>1, SMTT(30) DEF HeaderOK, Header, CodecFor, Codec, Encap
    <3>3. parser' \in Parser
      BY <3>1, <3>2, ZenonT(30) DEF AfterHeader, Parser
    <3>4. rpos' \in 0 .. Len(file')
      BY <1>0, <1>1, <3>1, SMTT(30)
    <3> QED
      BY <3>1, <3>3, <3>4, SMTT(30)
  <2>2. CASE ~HeaderOK(hdr)
    BY <1>0, <1>7, <2>2 DEF RepHeader, RepStop
  <2> QED
    BY <2>1, <2>2
<1>8. ASSUME NEW m \in [rec : 1 .. MaxRec + 1] \union {None}, RepData(m)
      PROVE  /\ rep' \in {"test", "retry"} /\ rpos' \in 0 .. Len(file') /\ parser' \in Parser
             /\ msg'.rec \in 0 .. MaxRec + 1 /\ next' \in 1 .. NumOut
  <2>1. CASE m = None
    BY <1>0, <1>8, <2>1 DEF RepData, RepStop
  <2>2. CASE m # None
    <3>1. /\ rep' = "test" /\ msg' = m /\ next' = 1 /\ rpos' = rpos + parser.size /\ file' = file
          /\ Len(file) - rpos >= parser.size /\ parser' = AfterData(parser)
      BY <1>8, <2>2 DEF RepData, Want, Left, NextBlockSize
    <3>2. m.rec \in 0 .. MaxRec + 1 /\ 1 \in 1 .. NumOut
      BY <1>c, <2>2
    <3>3. parser' \in Parser /\ parser.size \in Nat
      <4>1. parser.size \in 0 .. MaxPayload /\ parser.codec \in Codec /\ 0 \in 0 .. MaxPayload
        BY <1>0 DEF Parser
      <4>2. parser' = [state |-> "hdr", size |-> 0, codec |-> parser.codec]
        BY <1>0, <3>1, Zenon DEF AfterData, Parser
      <4>3. parser' \in Parser
        BY <4>1, <4>2 DEF Parser
      <4> QED
        BY <4>1, <4>3
    <3>4. rpos' \in 0 .. Len(file')
      BY <1>0, <1>1, <3>1, <3>3, SMTT(30)
    <3> QED
      BY <3>1, <3>2, <3>3, <3>4, Zenon
  <2> QED
    BY <2>1, <2>2, SMTT(30)
<1>9. CASE Replay
  BY <1>0, <1>2, <1>5, <1>6, <1>7, <1>8, <1>9, Zenon DEF Replay
<1>10. UNCHANGED repVars \/ RepAck \/ Replay
  BY TapOrNot, ZenonT(30) DEF Next, Tap, RepAsk, Outputs, OtherSends, Take, OutputDies, TapStart, TapSkip,
                  TapWrite, TapWriteFails, TapShutdown, TapProcessEnds
<1> QED
  BY <1>3, <1>4, <1>9, <1>10, Zenon

(* The codec replay gets from the header of a record is the one its        *)
(* message was encoded with.                                               *)
LEMMA CodecOfKind ==
  ASSUME NEW kind \in {"gpb", "json"} PROVE CodecFor(EncapOf(kind)) = kind
BY DEF CodecFor, EncapOf, encapSTFromEncoding, dataMsgStreamTypeToEncoding

(* A block of the archive. *)
LEMMA BlockUnits ==
  ASSUME NEW q \in Seq(Unit), NEW pos \in Nat, NEW n \in Nat, pos + n <= Len(q)
  PROVE  SubSeq(q, pos + 1, pos + n) = [j \in 1 .. n |-> q[pos + j]]
<1>1. /\ SubSeq(q, pos + 1, pos + n) \in Seq(Unit)
      /\ Len(SubSeq(q, pos + 1, pos + n)) = n
      /\ \A j \in 1 .. n : SubSeq(q, pos + 1, pos + n)[j] = q[pos + j]
  BY SMTT(30)
<1> QED
  BY <1>1

(* What the invariant says of the variables replay reads. *)
LEMMA ReaderFacts ==
  ASSUME TapInv
  PROVE  /\ ArchiveInv /\ ReaderInv /\ Framed(file, rec)
         /\ file \in Seq(Unit) /\ rec \in Seq(Message) /\ Len(file) \in Nat
         /\ rpos \in 0 .. Len(file) /\ rpos \in Nat /\ parser \in Parser /\ parser.size \in Nat
<1>1. ArchiveInv /\ ReaderInv /\ rpos \in 0 .. Len(file) /\ parser \in Parser
  BY Zenon DEF TapInv, TypeOK
<1>2. file \in Seq(Unit) /\ rec \in Seq(Message)
  BY <1>1, Zenon DEF ArchiveInv
<1>3. Framed(file, rec)
  BY <1>1, FileFramed, Zenon
<1>4. Len(file) \in Nat /\ parser.size \in Nat
  BY <1>1, <1>2 DEF Parser
<1>5. rpos \in Nat
  BY <1>1, <1>4
<1> QED
  BY <1>1, <1>2, <1>3, <1>4, <1>5, Zenon

(* Replay stays where it knows to be, while the archive grows ... *)
LEMMA ReaderWaits ==
  ASSUME TapInv, [Next]_vars, UNCHANGED <<rep, rpos, parser, msg>> PROVE ReaderInv'
<1>1. /\ ArchiveInv /\ ReaderInv /\ rpos \in 0 .. Len(file) /\ file \in Seq(Unit)
      /\ rec \in Seq(Message) /\ Framed(file, rec) /\ Len(file) \in Nat
  BY ReaderFacts, Zenon
<1>2. /\ Framed(file', rec') /\ file' \in Seq(Unit) /\ rec' \in Seq(Message)
      /\ StartOf(file, file') /\ StartOf(rec, rec')
  BY <1>1, FileFramedNext, Zenon
<1> SUFFICES ASSUME ~TornTo(file', rec', rpos)
             PROVE  /\ parser.state = "hdr" => WholeTo(file', rec', rpos)
                    /\ parser.state = "data" => /\ rpos > 0 /\ file'[rpos][2] = HdrSize
                                                /\ parser.size = rec'[file'[rpos][1]].len
                                                /\ parser.codec = rec'[file'[rpos][1]].kind
                    /\ rep \in {"test", "send"} => /\ parser.state = "hdr" /\ rpos > 0
                                                   /\ msg.rec = file'[rpos][1]
  BY DEF ReaderInv
<1>3. /\ WholeTo(file, rec, rpos) => WholeTo(file', rec', rpos)
      /\ TornTo(file, rec, rpos) => TornTo(file', rec', rpos)
  BY <1>1, <1>2, Grows, Zenon
<1>4. rpos > 0 => /\ file'[rpos] = file[rpos]
                  /\ rec'[file'[rpos][1]] = rec[file[rpos][1]]
  <2>1. rpos > 0 => rpos \in 1 .. Len(file)
    BY <1>1, SMTT(30)
  <2>2. rpos > 0 => file[rpos][1] \in 1 .. Len(rec)
    BY <1>1, <2>1, FramedUnit, Zenon
  <2> QED
    BY <1>2, <2>1, <2>2 DEF StartOf
<1> QED
  BY <1>1, <1>3, <1>4, ZenonT(30) DEF ReaderInv

(* ... and reads on from header to payload and from record to record. *)
LEMMA ReaderHeader ==
  ASSUME TapInv, NEW hdr \in Header, RepHeader(hdr), HeaderOK(hdr) PROVE ReaderInv'
<1>1. /\ ArchiveInv /\ ReaderInv /\ rpos \in 0 .. Len(file) /\ file \in Seq(Unit)
      /\ rec \in Seq(Message) /\ Framed(file, rec) /\ Len(file) \in Nat /\ rpos \in Nat
  BY ReaderFacts, Zenon
<1>2. /\ UNCHANGED <<file, rec, rep>> /\ rep = "read" /\ parser.state = "hdr"
      /\ rpos' = rpos + HdrSize /\ parser' = AfterHeader(parser, hdr)
      /\ Want = HdrSize /\ Len(file) - rpos >= HdrSize /\ hdr \in Headers
  BY DEF RepHeader, Want, Left, NextBlockSize
<1>3. rpos + HdrSize <= Len(file) /\ rpos' \in 1 .. Len(file)
  BY <1>1, <1>2
<1> SUFFICES ASSUME ~TornTo(file, rec, rpos + HdrSize)
             PROVE  /\ file[rpos'][2] = HdrSize
                    /\ parser'.size = rec[file[rpos'][1]].len
                    /\ parser'.codec = rec[file[rpos'][1]].kind
  <2>1. rpos' > 0
    BY <1>1, <1>3, Places, Zenon
  <2>2. parser'.state = "data" /\ rep' = "read"
    BY <1>2, Zenon DEF AfterHeader
  <2> QED
    BY <1>2, <2>1, <2>2, Zenon DEF ReaderInv
<1>4. WholeTo(file, rec, rpos)
  BY <1>1, <1>2, TornOnward, Zenon DEF ReaderInv
<1>5. \A j \in 1 .. HdrSize : file[rpos + j] = <<file[rpos + 1][1], j>>
  BY <1>1, <1>3, <1>4, HeaderUnits, ZenonT(30)
<1> DEFINE i == file[rpos + 1][1]
<1>6. file[rpos'] = <<i, HdrSize>> /\ i \in 1 .. Len(rec) /\ rec[i].kind \in {"gpb", "json"}
  <2>1. HdrSize \in 1 .. HdrSize /\ rpos + 1 \in 1 .. Len(file)
    <3>1. HdrSize \in Nat /\ HdrSize > 0
      BY TapReplayAssumption
    <3> QED
      BY <1>1, <1>3, <3>1, Places, Zenon
  <2> QED
    BY <1>1, <1>2, <1>5, <2>1, FramedUnit, ZenonT(30)
<1>7. Block = [j \in 1 .. HdrSize |-> <<i, j>>] /\ Block[1][1] = i
  <2>1. SubSeq(file, rpos + 1, rpos + HdrSize) = [j \in 1 .. HdrSize |-> file[rpos + j]]
    BY <1>1, <1>3, BlockUnits, SMTT(30)
  <2>2. Block = [j \in 1 .. HdrSize |-> <<i, j>>]
    BY <1>2, <1>5, <2>1, ZenonT(30) DEF Block
  <2>3. 1 \in 1 .. HdrSize
    OBVIOUS
  <2> QED
    BY <2>2, <2>3, SMTT(30)
<1> HIDE DEF i
<1>8. hdr = [encap |-> EncapOf(rec[i].kind), len |-> rec[i].len, flag |-> "none"]
  BY <1>2, <1>7 DEF Headers, HeaderAt
<1>9. CodecFor(EncapOf(rec[i].kind)) = rec[i].kind
  BY <1>1, <1>6, CodecOfKind, Zenon
<1>10. file[rpos'][1] = i /\ file[rpos'][2] = HdrSize
  BY <1>6
<1>11. hdr.len = rec[i].len /\ hdr.encap = EncapOf(rec[i].kind)
  BY <1>8
<1>12. parser'.size = hdr.len /\ parser'.codec = CodecFor(hdr.encap)
  BY <1>2 DEF AfterHeader
<1> QED
  BY <1>9, <1>10, <1>11, <1>12, Zenon

(* ... is in front of a record again once it has read one's payload, which *)
(* is the message it holds ...                                             *)
LEMMA ReaderData ==
  ASSUME TapInv, NEW m, RepData(m), m # None PROVE ReaderInv'
<1>1. /\ ArchiveInv /\ ReaderInv /\ rpos \in 0 .. Len(file) /\ file \in Seq(Unit)
      /\ rec \in Seq(Message) /\ Framed(file, rec) /\ Len(file) \in Nat /\ rpos \in Nat
      /\ parser.size \in Nat
  BY ReaderFacts, Zenon
<1>2. /\ UNCHANGED <<file, rec>> /\ rep' = "test" /\ parser.state = "data"
      /\ Want = parser.size /\ parser.size > 0
      /\ rpos' = rpos + parser.size /\ parser' = AfterData(parser) /\ msg' = m
      /\ Len(file) - rpos >= parser.size /\ m \in Decoded
  BY Zenon DEF RepData, Want, Left, NextBlockSize
<1>3. rpos + parser.size <= Len(file) /\ rpos' > 0
  BY <1>1, <1>2
<1>4. parser'.state = "hdr"
  BY <1>2 DEF AfterData, TapInv, TypeOK, Parser
<1> SUFFICES ASSUME ~TornTo(file, rec, rpos + parser.size)
             PROVE  WholeTo(file, rec, rpos + parser.size) /\ m.rec = file[rpos + parser.size][1]
  BY <1>2, <1>3, <1>4, ZenonT(30) DEF ReaderInv
<1>5. /\ rpos > 0 /\ file[rpos][2] = HdrSize /\ parser.size = rec[file[rpos][1]].len
      /\ parser.codec = rec[file[rpos][1]].kind
  BY <1>1, <1>2, TornOnward, ZenonT(30) DEF ReaderInv
<1>6. rpos \in 1 .. Len(file)
  BY <1>1, <1>5, SMTT(30)
<1> DEFINE i == file[rpos][1]
<1>7. /\ \A j \in 0 .. parser.size : file[rpos + j] = <<i, HdrSize + j>>
      /\ WholeTo(file, rec, rpos + parser.size)
  BY <1>1, <1>3, <1>5, <1>6, PayloadUnits, Zenon
<1>8. i \in 1 .. Len(rec) /\ parser.codec \in {"gpb", "json"}
  BY <1>1, <1>5, <1>6, FramedUnit, Zenon
<1>9. file[rpos + parser.size][1] = i
  <2>1. parser.size \in 0 .. parser.size
    BY <1>1
  <2> QED
    BY <1>7, <2>1, SMTT(30)
<1>10. Block = [j \in 1 .. parser.size |-> <<i, HdrSize + j>>] /\ Block[1][1] = i
  <2>1. SubSeq(file, rpos + 1, rpos + parser.size) = [j \in 1 .. parser.size |-> file[rpos + j]]
    BY <1>1, <1>3, BlockUnits, Zenon
  <2>2. \A j \in 1 .. parser.size : file[rpos + j] = <<i, HdrSize + j>>
    BY <1>1, <1>7, SMTT(30)
  <2>3. Block = [j \in 1 .. parser.size |-> <<i, HdrSize + j>>]
    BY <1>2, <2>1, <2>2, ZenonT(30) DEF Block
  <2>4. 1 \in 1 .. parser.size
    BY <1>1, <1>2
  <2> QED
    BY <2>3, <2>4, Zenon
<1>11. PayloadAt
  BY <1>2, <1>5, <1>10, Zenon DEF PayloadAt
<1>12. m = [rec |-> i]
  BY <1>2, <1>8, <1>10, <1>11 DEF Decoded
<1> QED
  BY <1>7, <1>9, <1>12, SMTT(30)

(* Nothing is torn, and all is whole, where nothing was read. *)
LEMMA ReaderRewinds ==
  ASSUME NEW q, NEW r PROVE WholeTo(q, r, 0) /\ ~TornTo(q, r, 0)
BY DEF WholeTo, TornTo

(* ... and starts over, gives up, or sends what it holds, with all else as *)
(* it was.                                                                 *)
LEMMA TapReader ==
  ASSUME TapInv, [Next]_vars PROVE ReaderInv'
<1>0. ReaderInv /\ parser \in Parser
  BY DEF TapInv, TypeOK
<1>1. CASE UNCHANGED <<rep, rpos, parser, msg>>
  BY <1>1, ReaderWaits, Zenon
<1>2. CASE UNCHANGED <<file, rec, rpos, parser, msg>> /\ rep' \notin {"test", "send"}
  BY <1>0, <1>2, Zenon DEF ReaderInv
<1>3. CASE rpos' = 0 /\ parser' = NewParser /\ rep' \notin {"test", "send"}
  <2>1. parser'.state = "hdr"
    BY <1>3, Zenon DEF NewParser
  <2> QED
    BY <1>3, <2>1, ReaderRewinds DEF ReaderInv
<1>4. CASE RepTest \/ RepSend
  <2>1. UNCHANGED <<file, rec, rpos, parser>> /\ rep \in {"test", "send"}
    BY <1>4, Zenon DEF RepTest, RepSend
  <2>2. rep' \in {"test", "send"} => msg' = msg
    BY <1>4, SMTT(30) DEF RepTest, RepSend, Advance
  <2> QED
    BY <1>0, <2>1, <2>2 DEF ReaderInv
<1>5. ASSUME NEW hdr \in Header, RepHeader(hdr) PROVE ReaderInv'
  BY <1>2, <1>5, ReaderHeader, Zenon DEF RepHeader, RepStop
<1>6. ASSUME NEW m, RepData(m) PROVE ReaderInv'
  BY <1>2, <1>6, ReaderData, Zenon DEF RepData, RepStop
<1>7. CASE RepOpen \/ RepTick \/ RepReadFails \/ RepEnd
  BY <1>2, <1>3, <1>7, Zenon DEF RepOpen, RepTick, RepReadFails, RepStop, RepEnd
<1>8. CASE RepAck
  BY <1>2, <1>8 DEF RepAck
<1>9. CASE Replay
  BY <1>4, <1>5, <1>6, <1>7, <1>9, Zenon DEF Replay
<1>10. CASE Tap \/ RepAsk \/ Outputs \/ UNCHANGED vars
  BY <1>1, <1>10, ZenonT(30) DEF Tap, RepAsk, Outputs, OtherSends, Take, OutputDies, TapStart, TapSkip,
                     TapWrite, TapWriteFails, TapShutdown, TapProcessEnds
<1> QED
  BY <1>8, <1>9, <1>10 DEF Next

(* Initially the archive is empty. *)
LEMMA TapInitInv == Init => TapInv
<1> SUFFICES ASSUME Init PROVE TapInv
  OBVIOUS
<1>c. BufSize \in Nat /\ MaxRec \in Nat /\ NumOut \in Nat \ {0} /\ Depth \in Nat
  BY TapReplayAssumption
<1>1. /\ file = << >> /\ buf = << >> /\ rec = << >> /\ tap = "off" /\ starts = 0
      /\ rep = "start" /\ rpos = 0 /\ parser = NewParser /\ msg = None /\ next = 1
      /\ queued = [o \in Output |-> 0]
  BY DEF Init
<1>2. /\ Len(<< >>) = 0 /\ << >> \in Seq(Unit) /\ << >> \in Seq(Message)
      /\ << >> \o << >> = << >> /\ DOMAIN << >> = {} /\ 1 .. 0 = {}
  OBVIOUS
<1>3. TypeOK
  <2>1. NewParser \in Parser
    BY DEF NewParser, Parser, Codec
  <2>2. queued \in [Output -> 0 .. Depth]
    BY <1>c, <1>1
  <2>3. msg.rec \in 0 .. MaxRec + 1
    BY <1>c, <1>1 DEF None
  <2>4. /\ rec \in Seq(Message) /\ Len(rec) <= MaxRec
        /\ \A k \in DOMAIN file : file[k][1] \in DOMAIN rec
        /\ Len(buf) <= BufSize /\ rpos \in 0 .. Len(file) /\ next \in 1 .. NumOut
    BY <1>c, <1>1, <1>2, SMTT(30)
  <2> QED
    BY <1>1, <2>1, <2>2, <2>3, <2>4, Zenon DEF TypeOK
<1>4. ArchiveInv
  BY <1>1, <1>2 DEF ArchiveInv, Framed
<1>5. FirstStartInv
  BY <1>1 DEF FirstStartInv
<1>6. ReaderInv
  <2>1. parser.state = "hdr" /\ rep \notin {"test", "send"}
    BY <1>1 DEF NewParser
  <2> QED
    BY <1>1, <2>1, ReaderRewinds DEF ReaderInv
<1> QED
  BY <1>3, <1>4, <1>5, <1>6 DEF TapInv

(* The invariant holds of every behaviour of the tap and of replay. *)
THEOREM TapInvariant == Spec => []TapInv
<1>1. ASSUME TapInv, [Next]_vars PROVE TapInv'
  <2>1. ArchiveInv' /\ FirstStartInv' /\ ReaderInv'
    BY <1>1, TapArchive, TapFirstStart, TapReader DEF TapInv
  <2>2. rec' \in Seq(Message)
    BY <2>1, Zenon DEF ArchiveInv
  <2>3. TypeOK'
    BY <1>1, <2>2, TapTypes, RepTypes DEF TypeOK
  <2> QED
    BY <2>1, <2>3, Zenon DEF TapInv
<1> QED
  BY TapInitInv, <1>1, PTL DEF Spec

(* What is left needs the library's facts about finite sets. *)
INSTANCE FiniteSetTheorems

(* The units of one record, counted: there are as many as the record has   *)
(* exactly if the last is among them.                                      *)
LEMMA CountWhole ==
  ASSUME NEW q \in Seq(Unit), NEW r \in Seq(Message), Framed(q, r),
         NEW pos \in 0 .. Len(q), NEW k \in 1 .. pos
  PROVE  Cardinality({l \in 1 .. pos : q[l][1] = q[k][1]}) = HdrSize + r[q[k][1]].len
           <=> Ended(q, r, k, pos)
<1>0. Len(q) \in Nat /\ pos \in Nat /\ k \in 1 .. Len(q) /\ k \in Nat
  OBVIOUS
<1>1. PICK b \in Nat, n \in Nat : /\ n = HdrSize + r[q[k][1]].len /\ n > 0
                                  /\ b + n = EndOf(q, r, k) /\ k = b + q[k][2]
                                  /\ q[k][2] \in 1 .. n
  BY <1>0, RecordSpan, Zenon
<1>1a. n > 0
  BY <1>1
<1> DEFINE U == {l \in 1 .. pos : q[l][1] = q[k][1]}
<1>2. ASSUME NEW l \in 1 .. Len(q), q[l][1] = q[k][1]
      PROVE  l = b + q[l][2] /\ q[l][2] \in 1 .. n
  <2>1. q[l][2] \in 1 .. n
    BY <1>1, <1>2, FramedUnit, Zenon
  <2>2. l + q[k][2] = k + q[l][2]
    BY <1>0, <1>2, FramedPair
  <2>3. PICK i \in Nat, j \in Nat : i = q[k][2] /\ j = q[l][2]
    BY <1>1, <2>1, Places, Zenon
  <2>4. k = b + i /\ l + i = k + j
    BY <1>1, <2>2, <2>3
  <2>5. l = b + j
    BY <2>4
  <2> QED
    BY <2>1, <2>3, <2>5
<1>3. U \subseteq b + 1 .. b + n
  <2> SUFFICES ASSUME NEW l \in U PROVE l \in b + 1 .. b + n
    OBVIOUS
  <2>1. l \in 1 .. Len(q) /\ q[l][1] = q[k][1]
    BY <1>0
  <2>2. PICK j \in 1 .. n : l = b + j
    BY <1>2, <2>1, Zenon
  <2> QED
    BY <2>2
<1>4. IsFiniteSet(b + 1 .. b + n) /\ Cardinality(b + 1 .. b + n) = n
  <2>1. b + 1 \in Int /\ b + n \in Int /\ ~(b + 1 > b + n) /\ (b + n) - (b + 1) + 1 = n
    BY <1>1a
  <2>2. Cardinality(b + 1 .. b + n) = IF b + 1 > b + n THEN 0 ELSE (b + n) - (b + 1) + 1
    BY <2>1, FS_Interval
  <2> QED
    BY <2>1, <2>2, FS_Interval
<1>5. ASSUME Cardinality(U) = n PROVE Ended(q, r, k, pos)
  <2>1. U = b + 1 .. b + n
    BY <1>3, <1>4, <1>5, FS_Subset, Zenon
  <2>2. b + n \in b + 1 .. b + n
    BY <1>1a, Places, Zenon
  <2>3. b + n \in U
    BY <2>1, <2>2
  <2>4. b + n <= pos /\ q[b + n][1] = q[k][1]
    BY <1>0, <2>3
  <2> QED
    BY <1>1, <2>4, Zenon DEF Ended
<1>6. ASSUME Ended(q, r, k, pos) PROVE Cardinality(U) = n
  <2>1. b + n <= pos /\ q[b + n][1] = q[k][1]
    BY <1>1, <1>6, Zenon DEF Ended
  <2>2. b + n \in 1 .. Len(q)
    <3>1. b + n <= pos
      BY <2>1
    <3> QED
      BY <1>0, <1>1a, <3>1
  <2>3. b + n = b + q[b + n][2] /\ q[b + n][2] \in 1 .. n
    BY <1>2, <2>1, <2>2
  <2>4. q[b + n][2] = n
    BY <2>3
  <2>5. \A d \in 0 .. n - 1 : q[(b + n) - d] = <<q[k][1], n - d>>
    BY <2>1, <2>2, <2>4, Zenon DEF Framed
  <2>6. ASSUME NEW l \in b + 1 .. b + n PROVE l \in U
    <3>1. (b + n) - l \in 0 .. n - 1 /\ (b + n) - ((b + n) - l) = l /\ l \in 1 .. pos
      BY <1>0, <2>1
    <3>2. q[l] = <<q[k][1], n - ((b + n) - l)>>
      BY <2>5, <3>1, Zenon
    <3> QED
      BY <3>1, <3>2
  <2>7. U = b + 1 .. b + n
    BY <1>3, <2>6
  <2> QED
    BY <1>4, <2>7, Zenon
<1> QED
  BY <1>1, <1>5, <1>6

(* Boundary and TornBefore without counting. *)
LEMMA Counted ==
  ASSUME ArchiveInv, NEW pos \in 0 .. Len(file)
  PROVE  /\ Boundary(pos) <=> WholeTo(file, rec, pos)
         /\ TornBefore(pos) <=> TornTo(file, rec, pos)
<1>1. Framed(file, rec) /\ file \in Seq(Unit) /\ rec \in Seq(Message) /\ Len(file) \in Nat
  BY FileFramed DEF ArchiveInv
<1>2. \A k \in 1 .. pos :
        Cardinality({l \in 1 .. pos : file[l][1] = file[k][1]}) = RecLen(file[k][1])
          <=> Ended(file, rec, k, pos)
  BY <1>1, CountWhole DEF RecLen
<1>3. \A k \in 1 .. pos :
        Cardinality({l \in 1 .. Len(file) : file[l][1] = file[k][1]}) = RecLen(file[k][1])
          <=> Ended(file, rec, k, Len(file))
  <2>1. Len(file) \in 0 .. Len(file) /\ \A k \in 1 .. pos : k \in 1 .. Len(file)
    BY <1>1
  <2> QED
    BY <1>1, <2>1, CountWhole DEF RecLen
<1>4. \A k \in 1 .. pos : \A l : l \in k + 1 .. pos <=> l \in 1 .. pos /\ k < l
  BY <1>1
<1>5. Boundary(pos) <=> WholeTo(file, rec, pos)
  BY <1>2, Zenon DEF Boundary, WholeTo
<1>6. TornBefore(pos) <=> TornTo(file, rec, pos)
  BY <1>3, <1>4, Zenon DEF TornBefore, TornTo
<1> QED
  BY <1>5, <1>6

(* What replay sends is a message as the tap received it, the one that     *)
(* ends where replay has read to, unless the archive was torn before:      *)
(* whatever the writer had spilled when replay read, and at any restart.   *)
THEOREM TapReplayed == Spec => []ReplaysWhatWasTapped
<1>1. ASSUME TapInv PROVE ReplaysWhatWasTapped
  <2>1. ArchiveInv /\ ReaderInv /\ rpos \in 0 .. Len(file)
    BY <1>1 DEF TapInv, TypeOK
  <2>2. /\ Boundary(rpos) <=> WholeTo(file, rec, rpos)
        /\ TornBefore(rpos) <=> TornTo(file, rec, rpos)
    BY <2>1, Counted, Zenon
  <2> QED
    BY <2>1, <2>2, ZenonT(30) DEF ReaderInv, ReplaysWhatWasTapped
<1> QED
  BY TapInvariant, <1>1, PTL

(* A tap whose writer never failed acknowledges SHUTDOWN only when all it  *)
(* has received and has an encapsulation for is in the archive, whole and  *)
(* in order.                                                               *)
THEOREM TapFlushed == Spec => []AckMeansFlushed
<1>1. ASSUME TapInv PROVE AckMeansFlushed
  <2> SUFFICES ASSUME tap = "acked", starts = 1
               PROVE  /\ Boundary(Len(file))
                      /\ \A i \in DOMAIN rec : EncapOf(rec[i].kind) # "UNSED" =>
                           \E k \in DOMAIN file : file[k][1] = i
                      /\ \A k, l \in DOMAIN file : k < l => file[k][1] <= file[l][1]
    BY DEF AckMeansFlushed
  <2>1. /\ ArchiveInv /\ Complete(file \o buf, rec) /\ buf = << >>
        /\ file \in Seq(Unit) /\ rec \in Seq(Message)
    BY <1>1 DEF TapInv, ArchiveInv, FirstStartInv
  <2>2. file \o buf = file
    BY <2>1
  <2>3. Len(file) \in 0 .. Len(file) /\ DOMAIN file = 1 .. Len(file) /\ DOMAIN rec = 1 .. Len(rec)
    BY <2>1
  <2>4. Framed(file, rec)
    BY <2>1, FileFramed
  <2>5. \A k, l \in DOMAIN file : k < l => file[k][1] <= file[l][1]
    BY <2>3, <2>4, Zenon DEF Framed
  <2> QED
    BY <2>1, <2>2, <2>3, <2>5, Counted DEF Complete
<1> QED
  BY TapInvariant, <1>1, PTL

=============================================================================
