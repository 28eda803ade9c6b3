------------------------ MODULE MetricsWorkersProofs ------------------------
(***************************************************************************)
(* GroupsApart and AckMeansSettled of the workers of a metrics output, for *)
(* any messages, any specification, any number of workers and of failures. *)
(*                                                                         *)
(* That metrics are posted to the group of their own tags is seen from the *)
(* stack of loops of a walk (Walk): loops that walk down write nothing, so *)
(* the buffer is empty in them; a loop that writes is on the top of the    *)
(* stack, with the flush that has the same tags right under it.            *)
(***************************************************************************)
EXTENDS MetricsWorkers, TLAPS

(* The walk *)

(* The functions that are sequences. *)
IsSeq(s) == s \in Seq(Range(s))

(* Loops that walk down write nothing. *)
Visits(loop) ==
  \A x \in loop : /\ x.do \in {"row", "kv", "gpb", "list"}
                  /\ x.do = "list" => \A y \in x.loop : y.do = "gpb"
Below(stack, k) == \A j \in k .. Len(stack) : Visits(stack[j])

(* A loop of sensors or of updates that writes nothing, and one that       *)
(* writes with n tags.                                                     *)
Silent(loop) == \A x \in loop : \/ x.do = "track"
                                \/ x.do = "update" /\ ~HasVal(x.update)
Writes(loop, n) == \A x \in loop : \/ x.do = "track"
                                   \/ x.do \in {"build", "update"} /\ x.n = n

(* What is written is flushed right after the loop that writes it. *)
Visiting(stack) ==
  \/ Below(stack, 1)
  \/ stack # << >> /\ Silent(stack[1]) /\ Below(stack, 2)
FlushNext(stack, f) ==
  stack # << >> /\ stack[1] = {f} /\ f.do = "flush" /\ Below(stack, 2)
FlushAfter(stack, f) ==
  /\ Len(stack) > 1 /\ Writes(stack[1], f.n)
  /\ stack[2] = {f} /\ f.do = "flush" /\ Below(stack, 3)

(* The loops of a gNMI message (g) and those of the others. *)
Fit(g, x) ==
  IF g THEN x.do = "flush" \/ (x.do = "update" /\ x.n \in Nat /\ Cardinality(x.update.keys) \in Nat)
       ELSE x.do # "update"
Fits(g, stack) == \A j \in 1 .. Len(stack) : \A x \in stack[j] : Fit(g, x)

(* What has been built has the tags of the flush, at least. *)
Tagged(g, buffer, array, n) ==
  \A e \in Range(buffer) : IF g THEN Range(SubSeq(array, 1, n)) \subseteq Range(e.tags)
                                ELSE e.tags = SubSeq(array, 1, n)

(* A worker in its walk; clear, if nothing stayed in the buffer when a     *)
(* post failed; posting, if it is about to post what the buffer holds.     *)
Walk(g, clear, posting, stack, array, buffer) ==
  /\ IsSeq(stack) /\ Fits(g, stack)
  /\ g => IsSeq(array)
  /\ \/ ~posting /\ Visiting(stack) /\ (clear => buffer = << >>)
     \/ \E f : /\ FlushNext(stack, f) \/ (~posting /\ FlushAfter(stack, f))
               /\ clear => Tagged(g, buffer, array, f.n)
               /\ g => f.n \in 0 .. Len(array)

-----------------------------------------------------------------------------
(* Sequences. *)
LEMMA SeqOfMore ==
  ASSUME NEW S, NEW T, S \subseteq T, NEW s \in Seq(S)
  PROVE  s \in Seq(T)
OBVIOUS

(* A sequence is a function. *)
LEMMA SeqIsFunction ==
  ASSUME NEW T, NEW s \in Seq(T)
  PROVE  /\ Len(s) \in Nat /\ DOMAIN s = 1 .. Len(s)
         /\ s \in [1 .. Len(s) -> T]
OBVIOUS

(* Sequences with the same elements are the same. *)
LEMMA SameSeq ==
  ASSUME NEW T, NEW p \in Seq(T), NEW q \in Seq(T),
         Len(p) = Len(q), \A i \in 1 .. Len(p) : p[i] = q[i]
  PROVE  p = q
OBVIOUS

(* What concatenation does. *)
LEMMA Concat ==
  ASSUME NEW T, NEW p \in Seq(T), NEW q \in Seq(T)
  PROVE  /\ p \o q \in Seq(T) /\ Len(p \o q) = Len(p) + Len(q)
         /\ \A i \in 1 .. Len(p) + Len(q) :
              (p \o q)[i] = IF i <= Len(p) THEN p[i] ELSE q[i - Len(p)]
OBVIOUS

(* Nothing before a sequence. *)
LEMMA ConcatNone ==
  ASSUME NEW T, NEW s \in Seq(T)
  PROVE  << >> \o s = s
OBVIOUS

(* A part of a sequence, empty if it ends before it begins. *)
LEMMA Part ==
  ASSUME NEW T, NEW s, NEW m \in Int, NEW n \in Int, \A i \in m .. n : s[i] \in T
  PROVE  /\ SubSeq(s, m, n) \in Seq(T)
         /\ Len(SubSeq(s, m, n)) = IF m <= n THEN n - m + 1 ELSE 0
         /\ \A i \in 1 .. n - m + 1 : SubSeq(s, m, n)[i] = s[m + i - 1]
OBVIOUS

(* A sequence without its first element. *)
LEMMA TailSeq ==
  ASSUME NEW T, NEW s \in Seq(T), s # << >>
  PROVE  /\ Tail(s) \in Seq(T) /\ Len(Tail(s)) = Len(s) - 1
         /\ \A i \in 1 .. Len(Tail(s)) : Tail(s)[i] = s[i + 1]
OBVIOUS

(* A sequence of elements of any set is one of its own elements. *)
LEMMA SeqIsSeq == ASSUME NEW T, NEW s \in Seq(T) PROVE IsSeq(s)
<1>1. s \in [1 .. Len(s) -> Range(s)] /\ Len(s) \in Nat
  BY SeqIsFunction DEF Range
<1> QED BY <1>1 DEF IsSeq

(* The length of a sequence and where it is defined. *)
LEMMA SeqFacts ==
  ASSUME NEW s, IsSeq(s)
  PROVE  /\ Len(s) \in Nat /\ DOMAIN s = 1 .. Len(s)
         /\ s # << >> => Len(s) >= 1
         /\ s = << >> => Len(s) = 0
BY DEF IsSeq

(* The stack below its top loop. *)
LEMMA TailFacts ==
  ASSUME NEW s, IsSeq(s), s # << >>
  PROVE  /\ IsSeq(Tail(s)) /\ Len(Tail(s)) = Len(s) - 1 /\ Len(s) \in Nat \ {0}
         /\ Head(s) = s[1]
         /\ \A j \in 1 .. Len(s) - 1 : Tail(s)[j] = s[j + 1]
<1>1. Tail(s) \in Seq(Range(s)) /\ Len(Tail(s)) = Len(s) - 1
  BY TailSeq DEF IsSeq
<1>2. IsSeq(Tail(s))
  BY <1>1, SeqIsSeq, Zenon
<1>3. \A j \in 1 .. Len(s) - 1 : Tail(s)[j] = s[j + 1]
  BY <1>1, TailSeq DEF IsSeq
<1>4. Len(s) \in Nat \ {0} /\ Head(s) = s[1]
  BY DEF IsSeq
<1> QED BY <1>1, <1>2, <1>3, <1>4

(* A loop more on the stack. *)
LEMMA ConsFacts ==
  ASSUME NEW s, IsSeq(s), NEW loop
  PROVE  LET q == <<loop>> \o s IN
         /\ IsSeq(q) /\ Len(q) = Len(s) + 1 /\ q # << >> /\ q[1] = loop
         /\ \A j \in 1 .. Len(s) : q[j + 1] = s[j]
<1> DEFINE T == Range(s) \union {loop}
<1>1. s \in Seq(T) /\ <<loop>> \in Seq(T) /\ Len(<<loop>>) = 1 /\ <<loop>>[1] = loop
  BY SeqOfMore DEF IsSeq
<1>2. Len(s) \in Nat
  BY SeqFacts
<1> HIDE DEF T
<1>3. /\ <<loop>> \o s \in Seq(T) /\ Len(<<loop>> \o s) = 1 + Len(s)
      /\ \A i \in 1 .. 1 + Len(s) :
           (<<loop>> \o s)[i] = IF i <= 1 THEN <<loop>>[i] ELSE s[i - 1]
  BY <1>1, Concat
<1> DEFINE q == <<loop>> \o s
<1>4. IsSeq(q)
  BY <1>3, SeqIsSeq, Zenon
<1> HIDE DEF q
<1>5. Len(q) = 1 + Len(s) /\ q \in Seq(T)
      /\ \A i \in 1 .. 1 + Len(s) : q[i] = IF i <= 1 THEN <<loop>>[i] ELSE s[i - 1]
  BY <1>3 DEF q
<1>6. q # << >>
  BY <1>5, <1>2
<1>7. q[1] = loop /\ \A j \in 1 .. Len(s) : q[j + 1] = s[j]
  BY <1>5, <1>2, <1>1
<1> QED BY <1>4, <1>5, <1>2, <1>6, <1>7 DEF q

(* A loop put on a stack, if it has work. *)
LEMMA BeginFacts ==
  ASSUME NEW s, IsSeq(s), NEW loop
  PROVE  /\ loop = {} => Begin(loop) \o s = s
         /\ loop # {} => Begin(loop) \o s = <<loop>> \o s
         /\ IsSeq(Begin(loop) \o s)
<1>1. loop = {} => Begin(loop) \o s = s
  BY ConcatNone DEF Begin, IsSeq
<1>2. loop # {} => Begin(loop) \o s = <<loop>> \o s
  BY DEF Begin
<1> QED BY <1>1, <1>2, ConsFacts, Zenon

(* Concatenation of three and of four sequences, from either end. *)
Associates(a, b, c) == (a \o b) \o c = a \o (b \o c)
Chains(a, b, c, d) == ((a \o b) \o c) \o d = a \o (b \o (c \o d))

(* Concatenation of three may be done from either end, *)
LEMMA ConcatThree ==
  ASSUME NEW T, NEW p \in Seq(T), NEW q \in Seq(T), NEW r \in Seq(T)
  PROVE  Associates(p, q, r)
BY SMTT(30) DEF Associates

(* and so of four. *)
LEMMA ConcatFour ==
  ASSUME NEW T, NEW p \in Seq(T), NEW q \in Seq(T), NEW r \in Seq(T), NEW s \in Seq(T)
  PROVE  Chains(p, q, r, s)
<1>1. p \o q \in Seq(T) /\ r \o s \in Seq(T)
  BY Concat, Zenon
<1>2. Associates(p \o q, r, s) /\ Associates(p, q, r \o s)
  BY <1>1, ConcatThree, Zenon
<1> QED
  BY <1>2, Zenon DEF Associates, Chains

(* The loops of a visit, begun one by one. *)
LEMMA BeginThree ==
  ASSUME NEW s, IsSeq(s), NEW a, NEW b, NEW c
  PROVE  (Begin(a) \o Begin(b) \o Begin(c)) \o s = Begin(a) \o (Begin(b) \o (Begin(c) \o s))
<1> DEFINE T == Range(s) \union {a, b, c}
<1>1. s \in Seq(T)
  BY SeqOfMore DEF IsSeq
<1>2. a \in T /\ b \in T /\ c \in T
  OBVIOUS
<1> HIDE DEF T
<1>3. ASSUME NEW l \in T PROVE Begin(l) \in Seq(T)
  <2>1. << >> \in Seq(T) /\ <<l>> \in Seq(T)
    OBVIOUS
  <2> QED BY <2>1 DEF Begin
<1>4. Begin(a) \in Seq(T) /\ Begin(b) \in Seq(T) /\ Begin(c) \in Seq(T)
  BY <1>2, <1>3
<1>5. Chains(Begin(a), Begin(b), Begin(c), s)
  BY <1>1, <1>4, ConcatFour, Zenon
<1> QED
  BY <1>5, Zenon DEF Chains

(* What is on a stack with one more loop, and on one with one less. *)
LEMMA BeginOn ==
  ASSUME NEW s, IsSeq(s), NEW loop, NEW g
  PROVE  /\ Below(s, 1) /\ Visits(loop) => Below(Begin(loop) \o s, 1)
         /\ Fits(g, s) /\ (\A x \in loop : Fit(g, x)) => Fits(g, Begin(loop) \o s)
<1> DEFINE q == <<loop>> \o s
<1>1. IsSeq(q) /\ Len(q) = Len(s) + 1 /\ q[1] = loop /\ \A j \in 1 .. Len(s) : q[j + 1] = s[j]
  BY ConsFacts
<1>2. Len(s) \in Nat
  BY SeqFacts
<1> HIDE DEF q
<1>3. \A j \in 1 .. Len(q) : q[j] = loop \/ \E i \in 1 .. Len(s) : q[j] = s[i]
  <2> TAKE j \in 1 .. Len(q)
  <2>1. j = 1 \/ (j - 1 \in 1 .. Len(s) /\ q[(j - 1) + 1] = s[j - 1] /\ (j - 1) + 1 = j)
    BY <1>1, <1>2
  <2> QED BY <2>1, <1>1
<1>4. Below(s, 1) /\ Visits(loop) => Below(q, 1)
  BY <1>3 DEF Below
<1>6. Fits(g, s) /\ (\A x \in loop : Fit(g, x)) => Fits(g, q)
  BY <1>3 DEF Fits
<1>7. (loop = {} => Begin(loop) \o s = s) /\ (loop # {} => Begin(loop) \o s = q)
  BY BeginFacts DEF q
<1> QED BY <1>4, <1>6, <1>7, Zenon

(* When a piece of the top loop is done the loop stays without it, or goes *)
(* if it was the last.                                                     *)
LEMMA AfterFacts ==
  ASSUME NEW s, IsSeq(s), s # << >>, NEW x
  PROVE  /\ IsSeq(After(x, s))
         /\ s[1] \ {x} = {} => After(x, s) = Tail(s)
         /\ s[1] \ {x} # {} => /\ Len(After(x, s)) = Len(s) /\ After(x, s)[1] = s[1] \ {x}
                               /\ \A j \in 2 .. Len(s) : After(x, s)[j] = s[j]
<1> DEFINE t == Tail(s)
           l == s[1] \ {x}
<1>1. /\ IsSeq(t) /\ Len(t) = Len(s) - 1 /\ Len(s) \in Nat \ {0}
      /\ Head(s) = s[1] /\ \A j \in 1 .. Len(s) - 1 : t[j] = s[j + 1]
  BY TailFacts
<1> HIDE DEF t
<1>2. After(x, s) = Begin(l) \o t
  BY <1>1 DEF After, t
<1>3. /\ l = {} => Begin(l) \o t = t
      /\ l # {} => Begin(l) \o t = <<l>> \o t
      /\ IsSeq(Begin(l) \o t)
  BY <1>1, BeginFacts, Zenon
<1> DEFINE q == <<l>> \o t
<1>4. Len(q) = Len(t) + 1 /\ q[1] = l /\ \A j \in 1 .. Len(t) : q[j + 1] = t[j]
  BY <1>1, ConsFacts
<1> HIDE DEF q
<1>5. ASSUME NEW j \in 2 .. Len(s) PROVE q[j] = s[j]
  <2>1. j - 1 \in 1 .. Len(t) /\ (j - 1) + 1 = j /\ j - 1 \in 1 .. Len(s) - 1
    BY <1>1
  <2>2. q[(j - 1) + 1] = t[j - 1] /\ t[j - 1] = s[(j - 1) + 1]
    BY <2>1, <1>1, <1>4
  <2> QED BY <2>1, <2>2
<1>6. Len(q) = Len(s)
  BY <1>1, <1>4
<1> QED BY <1>2, <1>3, <1>4, <1>5, <1>6, Zenon DEF q, t

(* When the top loop is done with x, what holds of every loop still does. *)
LEMMA AfterOn ==
  ASSUME NEW s, IsSeq(s), s # << >>, NEW x, NEW g
  PROVE  /\ Fits(g, s) => Fits(g, After(x, s))
         /\ Below(s, 1) => Below(After(x, s), 1)
         /\ Below(s, 2) => Below(Tail(s), 1)
<1>1. /\ IsSeq(Tail(s)) /\ Len(Tail(s)) = Len(s) - 1 /\ Len(s) \in Nat \ {0}
      /\ \A j \in 1 .. Len(s) - 1 : Tail(s)[j] = s[j + 1]
  BY TailFacts
<1>2. \A j \in 1 .. Len(Tail(s)) : j + 1 \in 2 .. Len(s) /\ Tail(s)[j] = s[j + 1]
  BY <1>1
<1>3. Below(s, 2) => Below(Tail(s), 1)
  BY <1>2 DEF Below
<1>4. CASE s[1] \ {x} = {}
  <2>1. After(x, s) = Tail(s)
    BY <1>4, AfterFacts
  <2>2. \A j \in 2 .. Len(s) : j \in 1 .. Len(s)
    BY <1>1
  <2>3. Below(s, 1) => Below(s, 2)
    BY <2>2 DEF Below
  <2>4. Fits(g, s) => Fits(g, Tail(s))
    BY <1>2, <2>2 DEF Fits
  <2> QED BY <2>1, <2>3, <2>4, <1>3
<1>5. CASE s[1] \ {x} # {}
  <2> DEFINE q == After(x, s)
  <2>1. Len(q) = Len(s) /\ q[1] = s[1] \ {x} /\ \A j \in 2 .. Len(s) : q[j] = s[j]
    BY <1>5, AfterFacts
  <2> HIDE DEF q
  <2>2. \A j \in 1 .. Len(s) : j = 1 \/ j \in 2 .. Len(s)
    BY <1>1
  <2>3. \A j \in 1 .. Len(q) : j \in 1 .. Len(s) /\ \A y \in q[j] : y \in s[j]
    BY <2>1, <2>2
  <2>4. Fits(g, s) => Fits(g, q)
    BY <2>3 DEF Fits
  <2>5. Below(s, 1) => Below(q, 1)
    BY <2>3 DEF Below, Visits
  <2> QED BY <2>4, <2>5, <1>3 DEF q
<1> QED BY <1>4, <1>5

(* Which loop it is by what it has to do. *)
LEMMA TopLoop ==
  ASSUME NEW s, IsSeq(s), s # << >>, NEW x \in s[1], NEW f
  PROVE  /\ x.do \in {"row", "kv", "gpb", "list"} =>
              /\ Visiting(s) => Below(s, 1)
              /\ ~FlushNext(s, f) /\ ~FlushAfter(s, f)
         /\ x.do = "flush" =>
              /\ ~Visiting(s) /\ ~FlushAfter(s, f)
              /\ FlushNext(s, f) => f = x
         /\ x.do \in {"track", "build", "update"} =>
              /\ Visiting(s) => Silent(s[1]) /\ Below(s, 2)
              /\ ~FlushNext(s, f)
<1>1. 1 \in 1 .. Len(s)
  BY SeqFacts
<1>2. Below(s, 1) => Visits(s[1])
  BY <1>1 DEF Below
<1>3. Visits(s[1]) => x.do \in {"row", "kv", "gpb", "list"}
  BY DEF Visits
<1>4. Silent(s[1]) => x.do \in {"track", "update"}
  BY DEF Silent
<1>5. FlushNext(s, f) => f = x /\ x.do = "flush"
  BY DEF FlushNext
<1>6. FlushAfter(s, f) => x.do \in {"track", "build", "update"}
  BY DEF FlushAfter, Writes
<1> QED BY <1>2, <1>3, <1>4, <1>5, <1>6 DEF Visiting

(* The loop of sensors or updates goes on, or its flush is next. *)
LEMMA AfterWrite ==
  ASSUME NEW s, IsSeq(s), s # << >>, NEW x \in s[1], NEW f
  PROVE  /\ Silent(s[1]) /\ Below(s, 2) => Visiting(After(x, s))
         /\ FlushAfter(s, f) => FlushAfter(After(x, s), f) \/ FlushNext(After(x, s), f)
<1> DEFINE q == After(x, s)
<1>1. /\ IsSeq(Tail(s)) /\ Len(Tail(s)) = Len(s) - 1 /\ Len(s) \in Nat \ {0}
      /\ \A j \in 1 .. Len(s) - 1 : Tail(s)[j] = s[j + 1]
  BY TailFacts
<1>2. CASE s[1] \ {x} = {}
  <2>1. q = Tail(s)
    BY <1>2, AfterFacts
  <2>2. Below(s, 2) => Below(q, 1)
    BY <2>1, AfterOn
  <2> HIDE DEF q
  <2>3. ASSUME FlushAfter(s, f) PROVE FlushNext(q, f)
    <3>1. Len(s) > 1 /\ s[2] = {f} /\ f.do = "flush" /\ Below(s, 3)
      BY <2>3 DEF FlushAfter
    <3>2. \A j \in 2 .. Len(q) : j + 1 \in 3 .. Len(s) /\ q[j] = s[j + 1]
      BY <1>1, <2>1
    <3>3. 1 \in 1 .. Len(s) - 1 /\ 1 + 1 = 2
      BY <3>1, <1>1
    <3>4. q[1] = s[2]
      BY <3>3, <1>1, <2>1
    <3>5. q # << >>
      <4>1. Len(q) >= 1
        BY <3>1, <2>1, <1>1
      <4>2. Len(<< >>) = 0
        OBVIOUS
      <4> QED BY <4>1, <4>2
    <3>6. Below(q, 2)
      BY <3>1, <3>2 DEF Below
    <3> QED BY <3>1, <3>4, <3>5, <3>6 DEF FlushNext
  <2> QED BY <2>2, <2>3 DEF Visiting, q
<1>3. CASE s[1] \ {x} # {}
  <2>1. Len(q) = Len(s) /\ q[1] = s[1] \ {x} /\ \A j \in 2 .. Len(s) : q[j] = s[j]
    BY <1>3, AfterFacts
  <2>2. IsSeq(q)
    BY AfterFacts
  <2> HIDE DEF q
  <2>3. q # << >>
    BY <2>1, <2>2, <1>1, SeqFacts
  <2>4. Below(s, 2) => Below(q, 2)
    BY <2>1 DEF Below
  <2>5. Silent(s[1]) => Silent(q[1])
    BY <2>1 DEF Silent
  <2>6. \A j \in 3 .. Len(s) : j \in 2 .. Len(s)
    BY <1>1
  <2>7. Below(s, 3) => Below(q, 3)
    BY <2>1, <2>6 DEF Below
  <2>8. Len(s) > 1 => q[2] = s[2]
    BY <2>1, <1>1
  <2>9. FlushAfter(s, f) => FlushAfter(q, f)
    BY <2>1, <2>7, <2>8 DEF FlushAfter, Writes
  <2> QED BY <2>3, <2>4, <2>5, <2>9 DEF Visiting, q
<1> QED BY <1>2, <1>3

(* A loop on top moves the others down. *)
LEMMA ConsBelow ==
  ASSUME NEW s, IsSeq(s), NEW loop, NEW k \in {1, 2}, Below(s, k)
  PROVE  Below(<<loop>> \o s, k + 1)
<1> DEFINE q == <<loop>> \o s
<1>1. Len(q) = Len(s) + 1 /\ \A j \in 1 .. Len(s) : q[j + 1] = s[j]
  BY ConsFacts
<1>2. Len(s) \in Nat
  BY SeqFacts
<1> HIDE DEF q
<1>3. ASSUME NEW j \in k + 1 .. Len(q) PROVE Visits(q[j])
  <2>1. j - 1 \in k .. Len(s) /\ j - 1 \in 1 .. Len(s) /\ (j - 1) + 1 = j
    BY <1>1, <1>2
  <2>2. q[(j - 1) + 1] = s[j - 1]
    BY <2>1, <1>1
  <2> QED BY <2>1, <2>2 DEF Below
<1> QED BY <1>3 DEF Below, q

(* An entry more in a buffer. *)
LEMMA AppendFacts ==
  ASSUME NEW s, IsSeq(s), NEW e
  PROVE  /\ IsSeq(Append(s, e)) /\ Append(s, e) # << >>
         /\ Range(Append(s, e)) = Range(s) \union {e}
<1> DEFINE T == Range(s) \union {e}
           q == Append(s, e)
<1>1. s \in Seq(T) /\ e \in T
  BY SeqOfMore DEF IsSeq
<1>2. DOMAIN s = 1 .. Len(s) /\ Len(s) \in Nat
  BY SeqFacts
<1> HIDE DEF T
<1>3. q \in Seq(T) /\ Len(q) = Len(s) + 1 /\ q[Len(s) + 1] = e
      /\ \A i \in 1 .. Len(s) : q[i] = s[i]
  BY <1>1
<1>4. DOMAIN q = 1 .. Len(s) + 1
  BY <1>3, <1>2
<1>6. IsSeq(q)
  BY <1>3, SeqIsSeq, Zenon
<1> HIDE DEF q
<1>5. q # << >>
  <2>1. Len(q) >= 1
    BY <1>3, <1>2
  <2>2. Len(<< >>) = 0
    OBVIOUS
  <2> QED BY <2>1, <2>2
<1>7. Range(q) = Range(s) \union {e}
  <2>1. \A i \in 1 .. Len(s) + 1 : i \in 1 .. Len(s) \/ i = Len(s) + 1
    BY <1>2
  <2>2. \A i \in 1 .. Len(s) : i \in 1 .. Len(s) + 1
    BY <1>2
  <2>3. Len(s) + 1 \in 1 .. Len(s) + 1
    BY <1>2
  <2>4. \A y \in Range(q) : y \in Range(s) \union {e}
    BY <2>1, <1>2, <1>3, <1>4 DEF Range
  <2>5. \A y \in Range(s) \union {e} : y \in Range(q)
    BY <2>2, <2>3, <1>2, <1>3, <1>4 DEF Range
  <2> QED BY <2>4, <2>5
<1> QED BY <1>5, <1>6, <1>7 DEF q

-----------------------------------------------------------------------------
(* A flush ends its level, and what it flushes has its tags. *)
LEMMA FlushTags ==
  ASSUME NEW g \in BOOLEAN, NEW clear, NEW posting, NEW s, NEW t, NEW b,
         Walk(g, clear, posting, s, t, b), s # << >>, NEW x \in s[1], x.do = "flush"
  PROVE  FlushNext(s, x) /\ (clear => Tagged(g, b, t, x.n))
<1>1. IsSeq(s)
  BY Zenon DEF Walk
<1>2. PICK f : FlushNext(s, f) /\ (clear => Tagged(g, b, t, f.n))
  BY <1>1, TopLoop, Zenon DEF Walk
<1>3. f = x
  BY <1>2, Zenon DEF FlushNext
<1> QED BY <1>2, <1>3, Zenon

(* A flush ends what was written: the walk goes on with an empty buffer,   *)
(* or with any after a failure.                                            *)
LEMMA WalkFlush ==
  ASSUME NEW g \in BOOLEAN, NEW clear, NEW posting, NEW s, NEW t, NEW b,
         Walk(g, clear, posting, s, t, b), s # << >>, NEW x \in s[1], x.do = "flush",
         NEW later, NEW left, later => left = << >>
  PROVE  Walk(g, later, FALSE, After(x, s), t, left)
<1>1. IsSeq(s) /\ Fits(g, s) /\ (g => IsSeq(t))
  BY Zenon DEF Walk
<1>0. FlushNext(s, x)
  BY FlushTags, Zenon
<1>2. s[1] = {x} /\ Below(s, 2)
  BY <1>0, Zenon DEF FlushNext
<1>3. IsSeq(After(x, s)) /\ After(x, s) = Tail(s)
  BY <1>1, <1>2, AfterFacts
<1>4. Visiting(After(x, s)) /\ Fits(g, After(x, s))
  BY <1>1, <1>2, <1>3, AfterOn, Zenon DEF Visiting
<1> QED BY <1>1, <1>3, <1>4 DEF Walk

(* A level: sensors or updates (a) and, if they write, their flush (b). *)
Level(a, b, n) ==
  \/ b = {} /\ Silent(a)
  \/ \E f : b = {f} /\ f.do = "flush" /\ f.n = n /\ Writes(a, n)

(* A loop that writes and its flush may go on top of loops that write      *)
(* nothing.                                                                *)
LEMMA WalkLevel ==
  ASSUME NEW g \in BOOLEAN, NEW clear, NEW d, IsSeq(d), Fits(g, d), Below(d, 1),
         NEW a, NEW b, NEW n, Level(a, b, n), \A y \in a \union b : Fit(g, y),
         NEW array, g => IsSeq(array) /\ n \in 0 .. Len(array),
         NEW buffer, clear => buffer = << >>
  PROVE  Walk(g, clear, FALSE, Begin(a) \o (Begin(b) \o d), array, buffer)
<1> DEFINE e == Begin(b) \o d
           q == Begin(a) \o e
<1>7. IsSeq(d) /\ Fits(g, d) /\ Below(d, 1)
  OBVIOUS
<1>8. IsSeq(e) /\ Fits(g, e)
  BY <1>7, BeginFacts, BeginOn, Zenon
<1>9. IsSeq(q) /\ Fits(g, q)
  BY <1>8, BeginFacts, BeginOn, Zenon
<1>10. CASE b = {} /\ Silent(a)
  <2>1. e = d
    BY <1>10, <1>7, BeginFacts, Zenon
  <2>2. CASE a = {}
    <3>1. q = d
      BY <2>1, <2>2, <1>7, BeginFacts, Zenon
    <3> QED BY <3>1, <1>7 DEF Walk, Visiting, q, e
  <2>3. CASE a # {}
    <3>1. q = <<a>> \o d
      BY <2>1, <2>3, <1>7, BeginFacts
    <3>2. q # << >> /\ q[1] = a
      BY <3>1, <1>7, ConsFacts
    <3>3. Below(q, 2)
      BY <3>1, <1>7, ConsBelow
    <3>4. Visiting(q)
      BY <3>2, <3>3, <1>10 DEF Visiting
    <3> QED BY <3>4, <1>9 DEF Walk, q, e
  <2> QED BY <2>2, <2>3, Zenon
<1>11. CASE \E f : b = {f} /\ f.do = "flush" /\ f.n = n /\ Writes(a, n)
  <2>1. PICK f : b = {f} /\ f.do = "flush" /\ f.n = n /\ Writes(a, f.n)
    BY <1>11
  <2>2. e = <<b>> \o d
    BY <2>1, <1>7, BeginFacts, Zenon
  <2>3. e # << >> /\ e[1] = {f} /\ Len(e) = Len(d) + 1 /\ Len(d) \in Nat
    <3>1. Len(d) \in Nat
      BY <1>7, SeqFacts
    <3> HIDE DEF e
    <3>2. e # << >> /\ e[1] = b /\ Len(e) = Len(d) + 1
      BY <2>2, <1>7, ConsFacts
    <3> QED BY <2>1, <3>1, <3>2
  <2>4. Below(e, 2)
    BY <2>2, <1>7, ConsBelow
  <2>5. clear => Tagged(g, buffer, array, f.n)
    BY DEF Tagged, Range
  <2>8. g => IsSeq(array) /\ f.n \in 0 .. Len(array)
    BY <2>1
  <2> HIDE DEF e
  <2>6. CASE a = {}
    <3>1. q = e
      BY <2>6, <1>8, BeginFacts, Zenon
    <3>2. FlushNext(q, f)
      BY <3>1, <2>1, <2>3, <2>4 DEF FlushNext
    <3> QED BY <3>2, <2>5, <2>8, <1>9 DEF Walk, q, e
  <2>7. CASE a # {}
    <3>1. q = <<a>> \o e
      BY <2>7, <1>8, BeginFacts
    <3> DEFINE p == <<a>> \o e
    <3>2. /\ Len(p) = Len(e) + 1 /\ p[1] = a
          /\ \A j \in 1 .. Len(e) : p[j + 1] = e[j]
      BY <1>8, ConsFacts
    <3>3. Below(p, 3)
      BY <1>8, <2>4, ConsBelow
    <3> HIDE DEF p
    <3>4. Len(p) > 1 /\ p[2] = {f}
      BY <3>2, <2>3
    <3>5. FlushAfter(q, f)
      BY <3>1, <3>2, <3>3, <3>4, <2>1 DEF FlushAfter, p
    <3> QED BY <3>5, <2>5, <2>8, <1>9 DEF Walk, q, e
  <2> QED BY <2>6, <2>7, Zenon
<1> QED BY <1>10, <1>11, Zenon DEF Level, q, e

(* A visit begins a level, and leaves what is below (c) for later. *)
LEMMA WalkVisit ==
  ASSUME NEW g \in BOOLEAN, NEW clear, NEW s, NEW t, NEW buffer,
         Walk(g, clear, FALSE, s, t, buffer), s # << >>,
         NEW x \in s[1], x.do \in {"row", "kv", "gpb", "list"},
         NEW a, NEW b, NEW c, NEW n, Level(a, b, n), Visits(c),
         \A y \in a \union b : y.do # "update", NEW array
  PROVE  Walk(g, clear, FALSE, (Begin(a) \o Begin(b) \o Begin(c)) \o After(x, s), array, buffer)
<1>1. IsSeq(s) /\ Fits(g, s)
  BY DEF Walk
<1>2. 1 \in 1 .. Len(s)
  BY <1>1, SeqFacts
<1>3. ~g
  <2>1. Fit(g, x)
    BY <1>1, <1>2 DEF Fits
  <2> QED BY <2>1 DEF Fit
<1>4. Below(s, 1) /\ (clear => buffer = << >>)
  BY <1>1, TopLoop, Zenon DEF Walk
<1> DEFINE r == After(x, s)
           d == Begin(c) \o r
<1>5. IsSeq(r) /\ Fits(g, r) /\ Below(r, 1)
  BY <1>1, <1>4, AfterFacts, AfterOn
<1> HIDE DEF r
<1>6. \A y \in a \union b \union c : Fit(g, y)
  BY <1>3 DEF Fit, Visits
<1>7. IsSeq(d) /\ Fits(g, d) /\ Below(d, 1)
  BY <1>5, <1>6, BeginFacts, BeginOn, Zenon
<1> HIDE DEF d
<1>8. Walk(g, clear, FALSE, Begin(a) \o (Begin(b) \o d), array, buffer)
  BY <1>3, <1>4, <1>6, <1>7, WalkLevel, Zenon
<1>9. (Begin(a) \o Begin(b) \o Begin(c)) \o r = Begin(a) \o (Begin(b) \o d)
  <2>1. \A u : IsSeq(u) => (Begin(a) \o Begin(b) \o Begin(c)) \o u
                              = Begin(a) \o (Begin(b) \o (Begin(c) \o u))
    BY BeginThree, SMTT(30)
  <2> QED BY <2>1, <1>5, SMTT(30) DEF d
<1> QED BY <1>8, <1>9, Zenon DEF r

(* The same with nothing but what is below. *)
LEMMA WalkInto ==
  ASSUME NEW g \in BOOLEAN, NEW clear, NEW s, NEW t, NEW buffer,
         Walk(g, clear, FALSE, s, t, buffer), s # << >>,
         NEW x \in s[1], x.do \in {"row", "kv", "gpb", "list"},
         NEW c, Visits(c), NEW array
  PROVE  Walk(g, clear, FALSE, Begin(c) \o After(x, s), array, buffer)
<1>1. Level({}, {}, 0) /\ \A y \in {} \union {} : y.do # "update"
  BY DEF Level, Silent
<1>2. Walk(g, clear, FALSE, (Begin({}) \o Begin({}) \o Begin(c)) \o After(x, s), array, buffer)
  BY <1>1, WalkVisit, Zenon
<1>3. Begin({}) \o Begin({}) \o Begin(c) = Begin(c)
  BY DEF Begin
<1> QED BY <1>2, <1>3, Zenon

(* A sensor is tracked. *)
LEMMA WalkTrack ==
  ASSUME NEW g \in BOOLEAN, NEW clear, NEW s, NEW t, NEW b,
         Walk(g, clear, FALSE, s, t, b), s # << >>, NEW x \in s[1], x.do = "track"
  PROVE  Walk(g, clear, FALSE, After(x, s), t, b)
<1>1. IsSeq(s) /\ Fits(g, s) /\ (g => IsSeq(t))
  BY DEF Walk
<1>2. IsSeq(After(x, s)) /\ Fits(g, After(x, s))
  BY <1>1, AfterFacts, AfterOn
<1>3. CASE Visiting(s) /\ (clear => b = << >>)
  <2>1. Visiting(After(x, s))
    BY <1>1, <1>3, TopLoop, AfterWrite, Zenon
  <2> QED BY <1>1, <1>2, <1>3, <2>1 DEF Walk
<1>4. ASSUME NEW f, FlushNext(s, f) \/ FlushAfter(s, f),
             clear => Tagged(g, b, t, f.n), g => f.n \in 0 .. Len(t)
      PROVE  Walk(g, clear, FALSE, After(x, s), t, b)
  <2>1. FlushAfter(s, f)
    BY <1>1, <1>4, TopLoop
  <2>2. FlushAfter(After(x, s), f) \/ FlushNext(After(x, s), f)
    BY <1>1, <2>1, AfterWrite
  <2> QED BY <1>1, <1>2, <1>4, <2>2 DEF Walk
<1> QED BY <1>3, <1>4 DEF Walk

(* A metric is built, with the tags of the level. *)
LEMMA WalkBuild ==
  ASSUME NEW g \in BOOLEAN, NEW clear, NEW s, NEW t, NEW b,
         Walk(g, clear, FALSE, s, t, b), s # << >>, NEW x \in s[1], x.do = "build",
         IsSeq(b), NEW e, clear => e.tags = SubSeq(t, 1, x.n)
  PROVE  Walk(g, clear, FALSE, After(x, s), t, Append(b, e))
<1>1. IsSeq(s) /\ Fits(g, s)
  BY DEF Walk
<1>2. IsSeq(After(x, s)) /\ Fits(g, After(x, s))
  BY <1>1, AfterFacts, AfterOn
<1>3. ~g
  <2>1. Fit(g, x)
    BY <1>1, SeqFacts DEF Fits
  <2> QED BY <2>1 DEF Fit
<1>4. ~Visiting(s)
  BY <1>1, TopLoop DEF Silent
<1>5. PICK f : FlushAfter(s, f) /\ (clear => Tagged(g, b, t, f.n))
  BY <1>1, <1>4, TopLoop, Zenon DEF Walk
<1>6. FlushAfter(After(x, s), f) \/ FlushNext(After(x, s), f)
  BY <1>1, <1>5, AfterWrite
<1>7. x.n = f.n
  BY <1>5 DEF FlushAfter, Writes
<1>8. clear => Tagged(g, Append(b, e), t, f.n)
  BY <1>3, <1>5, <1>7, AppendFacts DEF Tagged
<1> QED BY <1>2, <1>3, <1>6, <1>8 DEF Walk

(* The tags of the prefix stay when others are put after them. *)
LEMMA PrefixStays ==
  ASSUME NEW t, IsSeq(t), NEW n \in Nat, NEW own, IsSeq(own)
  PROVE  LET all == SubSeq(t, 1, n) \o own IN
         /\ IsSeq(all) /\ Len(all) \in Nat /\ Len(all) >= n
         /\ SubSeq(all, 1, n) = SubSeq(t, 1, n)
         /\ Range(SubSeq(t, 1, n)) \subseteq Range(all)
<1> DEFINE T == {t[i] : i \in 1 .. n} \union Range(own)
           p == SubSeq(t, 1, n)
           all == p \o own
<1>1. \A i \in 1 .. n : t[i] \in T
  OBVIOUS
<1>2. own \in Seq(T) /\ Len(own) \in Nat
  BY SeqOfMore, SeqFacts DEF IsSeq
<1> HIDE DEF T
<1>3. p \in Seq(T) /\ Len(p) = n /\ DOMAIN p = 1 .. n
  <2>1. /\ SubSeq(t, 1, n) \in Seq(T)
        /\ Len(SubSeq(t, 1, n)) = IF 1 <= n THEN n - 1 + 1 ELSE 0
    BY <1>1, Part
  <2> HIDE DEF p
  <2>2. p \in Seq(T) /\ Len(p) = n
    BY <2>1 DEF p
  <2> QED BY <2>2, SeqIsFunction
<1> HIDE DEF p
<1>4. /\ all \in Seq(T) /\ Len(all) = n + Len(own)
      /\ \A i \in 1 .. n + Len(own) : all[i] = IF i <= n THEN p[i] ELSE own[i - n]
  BY <1>2, <1>3, Concat, Zenon
<1>5. IsSeq(all)
  BY <1>4, SeqIsSeq, Zenon
<1> HIDE DEF all
<1>6. \A i \in 1 .. n : all[i] = p[i] /\ i \in 1 .. Len(all)
  BY <1>2, <1>4
<1>7. SubSeq(all, 1, n) = p
  <2> DEFINE u == SubSeq(all, 1, n)
  <2>1. \A i \in 1 .. n : all[i] \in T
    BY <1>3, <1>6
  <2>2. /\ u \in Seq(T) /\ Len(u) = IF 1 <= n THEN n - 1 + 1 ELSE 0
        /\ \A i \in 1 .. n - 1 + 1 : u[i] = all[1 + i - 1]
    BY <2>1, Part
  <2> HIDE DEF u
  <2>3. Len(u) = Len(p) /\ \A i \in 1 .. Len(u) : u[i] = p[i]
    BY <2>2, <1>3, <1>6
  <2>4. u = p
    BY <2>2, <2>3, <1>3, SameSeq
  <2> QED BY <2>4 DEF u
<1>8. Range(p) \subseteq Range(all)
  <2>1. DOMAIN all = 1 .. Len(all)
    BY <1>5, SeqFacts
  <2> QED BY <2>1, <1>3, <1>6 DEF Range
<1>9. Len(all) \in Nat /\ Len(all) >= n
  BY <1>2, <1>4
<1> QED BY <1>5, <1>7, <1>8, <1>9 DEF all, p

(* An update is built with the tags of the prefix and its own. *)
LEMMA WalkUpdate ==
  ASSUME NEW clear, NEW s, NEW t, NEW b, Walk(TRUE, clear, FALSE, s, t, b),
         s # << >>, NEW x \in s[1], x.do = "update", IsSeq(b),
         NEW own, IsSeq(own), NEW e, NEW left,
         IF HasVal(x.update)
           THEN left = Append(b, e) /\ (clear => e.tags = SubSeq(t, 1, x.n) \o own)
           ELSE left = b
  PROVE  Walk(TRUE, clear, FALSE, After(x, s), SubSeq(t, 1, x.n) \o own, left)
<1> DEFINE all == SubSeq(t, 1, x.n) \o own
<1>1. IsSeq(s) /\ Fits(TRUE, s) /\ IsSeq(t)
  BY Zenon DEF Walk
<1>2. IsSeq(After(x, s)) /\ Fits(TRUE, After(x, s))
  BY <1>1, AfterFacts, AfterOn, Zenon
<1>3. x.n \in Nat
  <2>0. 1 \in 1 .. Len(s)
    BY <1>1, SeqFacts
  <2>1. Fit(TRUE, x)
    BY <1>1, <2>0, Zenon DEF Fits
  <2> QED BY <2>1 DEF Fit
<1>4. /\ IsSeq(all) /\ Len(all) \in Nat /\ Len(all) >= x.n
      /\ SubSeq(all, 1, x.n) = SubSeq(t, 1, x.n)
      /\ Range(SubSeq(t, 1, x.n)) \subseteq Range(all)
  BY <1>1, <1>3, PrefixStays, Zenon
<1>5. CASE Visiting(s) /\ (clear => b = << >>)
  <2>1. Silent(s[1]) /\ Below(s, 2)
    BY <1>1, <1>5, TopLoop
  <2>2. Visiting(After(x, s))
    BY <1>1, <2>1, AfterWrite
  <2>3. left = b
    BY <2>1 DEF Silent
  <2> QED BY <1>2, <1>4, <1>5, <2>2, <2>3, Zenon DEF Walk
<1>6. ASSUME NEW f, FlushNext(s, f) \/ FlushAfter(s, f), clear => Tagged(TRUE, b, t, f.n)
      PROVE  Walk(TRUE, clear, FALSE, After(x, s), all, left)
  <2>1. FlushAfter(s, f)
    BY <1>1, <1>6, TopLoop
  <2>2. FlushAfter(After(x, s), f) \/ FlushNext(After(x, s), f)
    BY <1>1, <2>1, AfterWrite
  <2>3. x.n = f.n
    BY <2>1 DEF FlushAfter, Writes
  <2> HIDE DEF all
  <2>4. f.n \in 0 .. Len(all)
    BY <1>3, <1>4, <2>3
  <2>5. clear => \A y \in Range(b) : Range(SubSeq(all, 1, f.n)) \subseteq Range(y.tags)
    BY <1>4, <1>6, <2>3, Zenon DEF Tagged
  <2>6. clear => Tagged(TRUE, left, all, f.n)
    <3>1. CASE HasVal(x.update)
      <4>1. Range(left) = Range(b) \union {e}
        BY <3>1, AppendFacts, Zenon
      <4>2. clear => e.tags = all
        BY <3>1, Zenon DEF all
      <4> QED BY <4>1, <4>2, <1>4, <2>3, <2>5, Zenon DEF Tagged
    <3>2. CASE ~HasVal(x.update)
      BY <3>2, <2>5 DEF Tagged
    <3> QED BY <3>1, <3>2, Zenon
  <2> QED BY <1>2, <1>4, <2>2, <2>4, <2>6, Zenon DEF Walk
<1> QED BY <1>5, <1>6, Zenon DEF Walk

-----------------------------------------------------------------------------
(* What a visit with n tags begins: a level, and loops below. *)
Visit(loops, n) ==
  \E a, b, c : /\ loops = Begin(a) \o Begin(b) \o Begin(c)
              /\ Level(a, b, n) /\ Visits(c)
              /\ \A y \in a \union b : y.do # "update"

(* A piece that walks down puts the loops of a level on the stack. *)
LEMMA WalkLoops ==
  ASSUME NEW g \in BOOLEAN, NEW clear, NEW s, NEW t, NEW buffer,
         Walk(g, clear, FALSE, s, t, buffer), s # << >>,
         NEW x \in s[1], x.do \in {"row", "kv", "gpb", "list"},
         NEW loops, NEW n, Visit(loops, n), NEW array
  PROVE  Walk(g, clear, FALSE, loops \o After(x, s), array, buffer)
<1>1. PICK a, b, c : /\ loops = Begin(a) \o Begin(b) \o Begin(c)
                     /\ Level(a, b, n) /\ Visits(c)
                     /\ \A y \in a \union b : y.do # "update"
  BY DEF Visit
<1>2. Walk(g, clear, FALSE, (Begin(a) \o Begin(b) \o Begin(c)) \o After(x, s), array, buffer)
  BY <1>1, WalkVisit, Zenon
<1> QED BY <1>1, <1>2, Zenon

(* What the visits of MetricsWalk begin are levels. *)
LEMMA FlushLevel ==
  ASSUME NEW a, NEW builds, NEW n, NEW ts, Writes(a, n),
         \A y \in a : y \in builds \/ y.do = "track", \A y \in a : y.do # "update"
  PROVE  /\ Level(a, FlushOf(builds, n, ts), n)
         /\ \A y \in a \union FlushOf(builds, n, ts) : y.do # "update"
<1> DEFINE f == [pos |-> 0, do |-> "flush", n |-> n, ts |-> ts]
<1>1. CASE builds = {}
  BY <1>1 DEF FlushOf, Level, Silent
<1>2. CASE builds # {}
  <2>1. FlushOf(builds, n, ts) = {f} /\ f.do = "flush" /\ f.n = n
    BY <1>2 DEF FlushOf
  <2> HIDE DEF f
  <2> QED BY <2>1 DEF Level
<1> QED BY <1>1, <1>2

(* The loops of key-value content are those of a level: the sensors, their *)
(* flush if there is anything to write, the containers.                    *)
LEMMA VisitKVLevel ==
  ASSUME NEW it, NEW own
  PROVE  Visit(VisitKV(it, own), Len(own))
<1> DEFINE field(i) == it.fields[i]
           ts(i)    == TsOr(field(i).ts, it.ts)
           sensor   == it.node.kids.sensor
           inside   == it.node.kids.container
           met      == PlacesOf(it.fields, sensor)
           tracks   == {[pos |-> 2 * i, do |-> "track", ts |-> ts(i),
                         key |-> <<sensor[field(i).name].fqName, own>>] :
                          i \in {j \in met : sensor[field(j).name].track}}
           builds   == {[pos |-> 2 * i + 1, do |-> "build", n |-> Len(own), ts |-> ts(i),
                         sensor |-> Atom(sensor[field(i).name].fqName, field(i).val)] :
                          i \in {j \in met : HasVal(field(j))}}
           children == {[pos |-> i, do |-> "kv", node |-> inside[field(i).name],
                         fields |-> field(i).fields, ts |-> ts(i), n |-> Len(own)] :
                          i \in PlacesOf(it.fields, inside)}
           named    == FieldsNamed(it.fields, sensor)
           last     == TsOr(named[Len(named)].ts, it.ts)
<1>1. VisitKV(it, own) = Begin(tracks \union builds)
                           \o Begin(FlushOf(builds, Len(own), last)) \o Begin(children)
  BY SMTT(30) DEF VisitKV
<1>2. \A y \in tracks : y.do = "track"
  BY SMTT(30)
<1>3. \A y \in builds : y.do = "build" /\ y.n = Len(own)
  OBVIOUS
<1>4. Visits(children)
  BY DEF Visits
<1> HIDE DEF tracks, builds, children, last
<1>5. Writes(tracks \union builds, Len(own))
  BY <1>2, <1>3 DEF Writes
<1>6. \A y \in tracks \union builds : (y \in builds \/ y.do = "track") /\ y.do # "update"
  BY <1>2, <1>3
<1>7. /\ Level(tracks \union builds, FlushOf(builds, Len(own), last), Len(own))
      /\ \A y \in (tracks \union builds) \union FlushOf(builds, Len(own), last) : y.do # "update"
  BY <1>5, <1>6, FlushLevel, Zenon
<1> QED BY <1>1, <1>4, <1>7, Zenon DEF Visit

(* So are those of a struct, whatever names are set in the cache. *)
LEMMA VisitGPBLevel ==
  ASSUME NEW it, NEW own, NEW names
  PROVE  Visit(VisitGPB(it, own, names), Len(own))
<1> DEFINE leaf   == it.data.leaf
           sub    == it.data.sub
           sensor == it.node.kids.sensor
           inside == it.node.kids.container
           builds == {[pos |-> 0, do |-> "build", n |-> Len(own), ts |-> it.ts, of |-> nm,
                       sensor |-> Atom(sensor[nm].fqName, leaf[nm])] :
                        nm \in Found(sensor, names, DOMAIN leaf)}
           loop(nm) == {[pos |-> j, do |-> "gpb", node |-> inside[nm],
                         data |-> sub[nm][j], ts |-> it.ts, n |-> Len(own)] :
                           j \in DOMAIN sub[nm]}
           lists  == {[pos |-> 0, do |-> "list", of |-> nm, loop |-> loop(nm)] :
                        nm \in Found(inside, names, DOMAIN sub)}
<1>1. VisitGPB(it, own, names) = Begin(builds) \o Begin(FlushOf(builds, Len(own), it.ts))
                                   \o Begin(lists)
  BY DEF VisitGPB
<1>2. \A nm : \A y \in loop(nm) : y.do = "gpb"
  OBVIOUS
<1>3. \A y \in builds : y.do = "build" /\ y.n = Len(own)
  OBVIOUS
<1> HIDE DEF loop
<1>4. \A x \in lists : x.do = "list" /\ \E nm : x.loop = loop(nm)
  OBVIOUS
<1> HIDE DEF builds, lists
<1>5. Visits(lists)
  BY <1>2, <1>4 DEF Visits
<1>6. Writes(builds, Len(own)) /\ \A y \in builds : y.do # "update"
  BY <1>3 DEF Writes
<1>7. /\ Level(builds, FlushOf(builds, Len(own), it.ts), Len(own))
      /\ \A y \in builds \union FlushOf(builds, Len(own), it.ts) : y.do # "update"
  BY <1>6, FlushLevel, Zenon
<1> QED BY <1>1, <1>5, <1>7 DEF Visit

(* What a message begins with. *)
LEMMA EmptyStack ==
  ASSUME NEW g
  PROVE  IsSeq(<< >>) /\ Fits(g, << >>) /\ Below(<< >>, 1)
BY DEF IsSeq, Fits, Below

(* An empty buffer holds no entries. *)
LEMMA EmptyBuffer == IsSeq(<< >>) /\ Range(<< >>) = {}
BY DEF IsSeq, Range

(* The walk of a message with rows begins well, *)
LEMMA RowsWalk ==
  ASSUME NEW m, NEW clear, NEW array
  PROVE  Walk(FALSE, clear, FALSE, Rows(m), array, << >>)
<1> DEFINE c == {[pos |-> i, do |-> "row", row |-> m.rows[i]] : i \in DOMAIN m.rows}
<1>1. Rows(m) = Begin(c) /\ Visits(c)
  BY DEF Rows, Visits
<1> HIDE DEF c
<1>2. Begin(c) \o << >> = Begin(c)
  BY DEF Begin
<1>3. \A y \in c : Fit(FALSE, y)
  BY <1>1 DEF Visits, Fit
<1>4. IsSeq(Begin(c) \o << >>) /\ Below(Begin(c) \o << >>, 1) /\ Fits(FALSE, Begin(c) \o << >>)
  BY <1>1, <1>3, EmptyStack, BeginFacts, BeginOn, Zenon
<1> QED BY <1>1, <1>2, <1>4, Zenon DEF Walk, Visiting

(* and that of a gNMI message, if the slice of tags has those of the       *)
(* prefix.                                                                 *)
LEMMA UpdatesWalk ==
  ASSUME NEW m, NEW clear, NEW array, IsSeq(array), NEW n \in 0 .. Len(array),
         \A i \in DOMAIN m.updates : Cardinality(m.updates[i].keys) \in Nat
  PROVE  Walk(TRUE, clear, FALSE, Updates(m, n), array, << >>)
<1> DEFINE all == {[pos |-> i, do |-> "update", update |-> m.updates[i], ts |-> m.ts, n |-> n] :
                     i \in DOMAIN m.updates}
           valued == {x \in all : HasVal(x.update)}
           b == FlushOf(valued, n, m.ts)
<1>0. n \in Nat
  BY SeqFacts
<1>1. Updates(m, n) = Begin(all) \o Begin(b)
  BY DEF Updates
<1>2. \A y \in all : y.do = "update" /\ y.n = n /\ Cardinality(y.update.keys) \in Nat
  OBVIOUS
<1> HIDE DEF all
<1>3. Level(all, b, n)
  <2>1. CASE valued = {}
    BY <1>2, <2>1 DEF FlushOf, Level, Silent
  <2>2. CASE valued # {}
    <3> DEFINE f == [pos |-> 0, do |-> "flush", n |-> n, ts |-> m.ts]
    <3>1. b = {f} /\ f.do = "flush" /\ f.n = n
      BY <2>2 DEF FlushOf
    <3> HIDE DEF f, b
    <3> QED BY <1>2, <3>1 DEF Level, Writes
  <2> QED BY <2>1, <2>2
<1>4. \A y \in b : y.do = "flush"
  BY DEF FlushOf
<1> HIDE DEF b
<1>5. \A y \in all \union b : Fit(TRUE, y)
  BY <1>0, <1>2, <1>4 DEF Fit
<1>6. Begin(b) \o << >> = Begin(b)
  BY DEF Begin
<1>7. Walk(TRUE, clear, FALSE, Begin(all) \o (Begin(b) \o << >>), array, << >>)
  BY <1>3, <1>5, EmptyStack, WalkLevel, Zenon
<1> QED BY <1>1, <1>6, <1>7, Zenon

(* A failure more makes less to be shown. *)
LEMMA WalkClear ==
  ASSUME NEW g, NEW clear, NEW posting, NEW s, NEW t, NEW b,
         Walk(g, clear, posting, s, t, b), NEW later, later => clear
  PROVE  Walk(g, later, posting, s, t, b)
BY Zenon DEF Walk

(* The keys of a gNMI path in some order. *)
LEMMA KeysSeq ==
  ASSUME NEW keys, Cardinality(keys) \in Nat, NEW own \in Orders(keys)
  PROVE  IsSeq(own)
<1>1. own \in [1 .. Cardinality(keys) -> keys]
  BY DEF Orders, Bijection, Injection
<1>2. own \in Seq(keys)
  BY <1>1
<1> QED BY <1>2, SeqIsSeq, Zenon


-----------------------------------------------------------------------------
(* The workers *)

(* A worker with a message; whether it came over gNMI, and whether nothing *)
(* of it can be left in the buffer from a failed post.                     *)
Busy == {"table", "walk", "ship"}
IsGnmi(w) == feed[cur[w]].form = "gnmi"
Clear(w) == kind = "prometheus" /\ fate[cur[w]] # "lost"

(* What a worker has in its walk, also while it waits for its table and,   *)
(* of Prometheus, for the answer to a post.                                *)
WalkOf(w) ==
  at[w] \in {"table", "walk"} \/ (at[w] = "ship" /\ kind = "prometheus") =>
    Walk(IsGnmi(w), Clear(w), at[w] = "ship", todo[w], tags[w], buf[w])

(* What a worker holds comes from its own message. *)
HeldBy(w) ==
  at[w] \in Busy =>
    /\ cur[w] \in 1 .. taken
    /\ IsSeq(buf[w]) /\ \A e \in Range(buf[w]) : e.msg = cur[w]
    /\ IsSeq(points[w]) /\ \A p \in Range(points[w]) : \A e \in p.fields : e.msg = cur[w]
    /\ kind = "prometheus" => points[w] = << >>
    /\ at[w] = "table" => buf[w] = << >>

(* Messages arrive and are taken in order, and each has a fate. *)
WorkTypes ==
  /\ kind \in Kinds
  /\ \E s \in Setups : feed = s.feed
  /\ arrived \in Nat /\ taken \in Nat /\ taken <= arrived /\ arrived <= Len(feed)
  /\ fate \in [1 .. Len(feed) -> {"open", "ok", "lost"}]
  /\ \A f \in {at, cur, todo, tags, buf, points} : DOMAIN f = Worker

(* What was shipped is of messages of the feed; an Influx point has one    *)
(* set of tags.                                                            *)
ShippedInv ==
  /\ GroupsApart
  /\ \A e \in shipped : e.msg \in 1 .. Len(feed) /\ (kind = "influx" => e.group = e.tags)

(* A message that is taken and not settled is with a worker, and there is  *)
(* none when SHUTDOWN is acknowledged.                                     *)
SettleInv ==
  /\ \A i \in 1 .. taken : fate[i] = "open" => \E w \in Worker : at[w] \in Busy /\ cur[w] = i
  /\ \A w \in Worker : w \notin Workers \/ ctrl = "acked" => at[w] = "gone"

(* The inductive invariant. *)
WorkInv ==
  /\ WorkTypes /\ ShippedInv /\ SettleInv
  /\ \A w \in Worker : WalkOf(w) /\ HeldBy(w)

-----------------------------------------------------------------------------
(* The feed, and the sequences it makes tags of. *)
LEMMA FeedFacts ==
  ASSUME WorkTypes
  PROVE  /\ Len(feed) \in Nat /\ DOMAIN feed = 1 .. Len(feed)
         /\ \A i \in 1 .. Len(feed) : feed[i].form = "gnmi" =>
              /\ Cardinality(feed[i].keys) \in Nat
              /\ \A j \in DOMAIN feed[i].updates : Cardinality(feed[i].updates[j].keys) \in Nat
<1>1. PICK s \in Setups : feed = s.feed
  BY DEF WorkTypes
<1>2. feed \in Seq(Range(feed))
  BY <1>1, SetupsAssumption
<1>3. Len(feed) \in Nat /\ DOMAIN feed = 1 .. Len(feed)
  BY <1>2
<1>4. \A i \in 1 .. Len(feed) : feed[i] \in Range(feed)
  BY <1>3 DEF Range
<1> QED BY <1>1, <1>3, <1>4, SetupsAssumption

(* A step that leaves worker v alone and takes back no failure. *)
Aside(v) ==
  /\ kind' = kind /\ feed' = feed /\ taken' \in Nat /\ taken <= taken'
  /\ at'[v] = at[v] /\ cur'[v] = cur[v] /\ todo'[v] = todo[v] /\ tags'[v] = tags[v]
  /\ buf'[v] = buf[v] /\ points'[v] = points[v]
  /\ kind = "prometheus" => \A i \in 1 .. taken : fate[i] = "lost" => fate'[i] = "lost"

(* What is said of a worker stays true when others step. *)
LEMMA AsideInv ==
  ASSUME NEW v, taken \in Nat, WalkOf(v), HeldBy(v), Aside(v)
  PROVE  WalkOf(v)' /\ HeldBy(v)'
<1>1. HeldBy(v)'
  <2>1. \A i \in 1 .. taken : i \in 1 .. taken'
    BY DEF Aside
  <2> QED BY <2>1 DEF HeldBy, Aside
<1>2. WalkOf(v)'
  <2> SUFFICES ASSUME at[v] \in {"table", "walk"} \/ (at[v] = "ship" /\ kind = "prometheus")
               PROVE  Walk(IsGnmi(v), Clear(v)', at[v] = "ship", todo[v], tags[v], buf[v])
    BY DEF WalkOf, Aside, IsGnmi
  <2>1. Walk(IsGnmi(v), Clear(v), at[v] = "ship", todo[v], tags[v], buf[v])
    BY DEF WalkOf
  <2>2. cur[v] \in 1 .. taken
    BY DEF HeldBy, Busy
  <2>3. Clear(v)' => Clear(v)
    BY <2>2 DEF Clear, Aside
  <2> QED BY <2>1, <2>3, WalkClear
<1> QED BY <1>1, <1>2

(* What is next in a walk is in its top loop. *)
LEMMA ComingFacts ==
  ASSUME NEW w, WalkOf(w), NEW do, NEW x \in Coming(w, do)
  PROVE  /\ at[w] = "walk" /\ todo[w] # << >> /\ x \in todo[w][1] /\ x.do = do
         /\ Walk(IsGnmi(w), Clear(w), FALSE, todo[w], tags[w], buf[w])
<1>1. at[w] = "walk" /\ todo[w] # << >> /\ x \in Head(todo[w]) /\ x.do = do
  BY DEF Coming, Due
<1>2. Walk(IsGnmi(w), Clear(w), FALSE, todo[w], tags[w], buf[w])
  BY <1>1, Zenon DEF WalkOf
<1>3. Head(todo[w]) = todo[w][1]
  BY <1>1, <1>2, TailFacts DEF Walk
<1> QED BY <1>1, <1>2, <1>3, Zenon

(* Of two functions on workers, the later has e for w and else the same. *)
Changed(f, later, w, e) ==
  DOMAIN later = Worker /\ later[w] = e /\ \A v \in Worker \ {w} : later[v] = f[v]

(* An assignment for one worker, and none. *)
LEMMA ChangedAt ==
  ASSUME NEW f, DOMAIN f = Worker, NEW w \in Worker, NEW e
  PROVE  Changed(f, [f EXCEPT ![w] = e], w, e) /\ Changed(f, f, w, f[w])
BY DEF Changed

(* What is kept per worker. *)
LEMMA Domains ==
  ASSUME WorkTypes
  PROVE  /\ DOMAIN at = Worker /\ DOMAIN cur = Worker /\ DOMAIN todo = Worker
         /\ DOMAIN tags = Worker /\ DOMAIN buf = Worker /\ DOMAIN points = Worker
BY DEF WorkTypes

(* A step of the walk of worker w keeps the invariant if the walk goes on. *)
LEMMA WalkStep ==
  ASSUME WorkInv, NEW w \in Worker, at[w] = "walk",
         UNCHANGED <<confVars, arrived, taken, ctrl, at, cur, shipped, fate>>,
         NEW s, Changed(todo, todo', w, s), NEW t, Changed(tags, tags', w, t),
         NEW b, Changed(buf, buf', w, b), NEW p, Changed(points, points', w, p),
         Walk(IsGnmi(w), Clear(w), FALSE, s, t, b),
         IsSeq(b), \A e \in Range(b) : e.msg = cur[w],
         IsSeq(p), \A q \in Range(p) : \A e \in q.fields : e.msg = cur[w],
         kind = "prometheus" => p = << >>
  PROVE  WorkInv'
<1>1. WorkTypes /\ ShippedInv /\ SettleInv /\ \A v \in Worker : WalkOf(v) /\ HeldBy(v)
  BY DEF WorkInv
<1>2. UNCHANGED <<kind, feed, arrived, taken, ctrl, at, cur, shipped, fate>>
  BY SMTT(30) DEF confVars
<1>3. WorkTypes'
  <2>1. DOMAIN todo' = Worker /\ DOMAIN tags' = Worker /\ DOMAIN buf' = Worker
        /\ DOMAIN points' = Worker
    BY SMTT(30) DEF Changed
  <2> QED BY <1>1, <1>2, <2>1, SMTT(30) DEF WorkTypes
<1>4. ShippedInv' /\ SettleInv'
  <2>1. ShippedInv'
    BY <1>1, <1>2, Zenon DEF ShippedInv, GroupsApart
  <2>2. SettleInv'
    BY <1>1, <1>2, ZenonT(30) DEF SettleInv, Workers
  <2> QED BY <2>1, <2>2
<1>5. ASSUME NEW v \in Worker, v # w PROVE WalkOf(v)' /\ HeldBy(v)'
  <2>1. taken \in Nat
    BY <1>1, Zenon DEF WorkTypes
  <2>2. /\ todo'[v] = todo[v] /\ tags'[v] = tags[v] /\ buf'[v] = buf[v]
        /\ points'[v] = points[v]
    BY <1>5, Zenon DEF Changed
  <2>3. Aside(v)
    BY <1>2, <2>1, <2>2 DEF Aside
  <2> QED BY <1>1, <2>1, <2>3, AsideInv, Zenon
<1>6. WalkOf(w)'
  BY <1>2, Zenon DEF WalkOf, IsGnmi, Clear, Changed
<1>7. HeldBy(w)'
  <2>1. cur[w] \in 1 .. taken
    BY <1>1 DEF HeldBy, Busy
  <2>2. buf'[w] = b /\ points'[w] = p
    BY DEF Changed
  <2> QED BY <1>2, <2>1, <2>2, SMTT(30) DEF HeldBy
<1> QED BY <1>3, <1>4, <1>5, <1>6, <1>7 DEF WorkInv

(* What a worker in its walk holds. *)
LEMMA WalkFacts ==
  ASSUME WorkInv, NEW w \in Worker, at[w] = "walk"
  PROVE  /\ WorkTypes /\ WalkOf(w) /\ cur[w] \in 1 .. taken /\ cur[w] \in 1 .. Len(feed)
         /\ Walk(IsGnmi(w), Clear(w), FALSE, todo[w], tags[w], buf[w])
         /\ IsGnmi(w) \in BOOLEAN
         /\ IsSeq(buf[w]) /\ \A e \in Range(buf[w]) : e.msg = cur[w]
         /\ IsSeq(points[w]) /\ \A q \in Range(points[w]) : \A e \in q.fields : e.msg = cur[w]
         /\ kind = "prometheus" => points[w] = << >>
<1>1. WorkTypes /\ WalkOf(w) /\ HeldBy(w)
  BY DEF WorkInv
<1>2. taken \in Nat /\ Len(feed) \in Nat /\ taken <= Len(feed)
  <2>1. Len(feed) \in Nat
    BY <1>1, FeedFacts, Zenon
  <2> QED BY <1>1, <2>1, SMTT(30) DEF WorkTypes
<1>3. cur[w] \in 1 .. taken
  BY <1>1 DEF HeldBy, Busy
<1>4. cur[w] \in 1 .. Len(feed)
  BY <1>2, <1>3
<1> QED BY <1>1, <1>3, <1>4, Zenon DEF HeldBy, WalkOf, IsGnmi, Busy

(* A step that only changes the loops and the array of tags. *)
LEMMA PureStep ==
  ASSUME WorkInv, NEW w \in Worker, at[w] = "walk",
         UNCHANGED <<confVars, arrived, taken, ctrl, at, cur, buf, points, shipped, fate>>,
         NEW s, Changed(todo, todo', w, s), NEW t, Changed(tags, tags', w, t),
         Walk(IsGnmi(w), Clear(w), FALSE, s, t, buf[w])
  PROVE  WorkInv'
<1>1. Changed(buf, buf', w, buf[w]) /\ Changed(points, points', w, points[w])
  <2>1. DOMAIN buf = Worker /\ DOMAIN points = Worker
    BY Domains DEF WorkInv
  <2> QED BY <2>1 DEF Changed
<1>2. /\ IsSeq(buf[w]) /\ \A e \in Range(buf[w]) : e.msg = cur[w]
      /\ IsSeq(points[w]) /\ \A q \in Range(points[w]) : \A e \in q.fields : e.msg = cur[w]
      /\ kind = "prometheus" => points[w] = << >>
  BY WalkFacts, ZenonT(30)
<1>3. UNCHANGED <<confVars, arrived, taken, ctrl, at, cur, shipped, fate>>
  OBVIOUS
<1> QED BY <1>1, <1>2, <1>3, WalkStep, ZenonT(30)

(* The steps of the walk: a row is begun with its tags, *)
LEMMA RowInv == ASSUME WorkInv, NEW w \in Worker, Row(w) PROVE WorkInv'
<1>1. PICK x \in Coming(w, "row") :
        LET m    == feed[cur[w]]
            base == Len(BaseTags(m))
        IN /\ tags' = [tags EXCEPT ![w] = Own(w, base) \o RowTags(kind, x.row)]
           /\ Done(w, x, <<VisitRow(specDB[m.path], m, x.row, base + Len(KeysAhead(x.row)))>>)
  BY Zenon DEF Row
<1> DEFINE m    == feed[cur[w]]
           base == Len(BaseTags(m))
           t    == Own(w, base) \o RowTags(kind, x.row)
           c    == VisitRow(specDB[m.path], m, x.row, base + Len(KeysAhead(x.row)))
           s    == <<c>> \o After(x, todo[w])
<1>2. WalkOf(w) /\ WorkTypes
  BY DEF WorkInv
<1>3. /\ at[w] = "walk" /\ todo[w] # << >> /\ x \in todo[w][1] /\ x.do = "row"
      /\ Walk(IsGnmi(w), Clear(w), FALSE, todo[w], tags[w], buf[w])
  BY <1>2, ComingFacts, Zenon
<1>4. Changed(tags, tags', w, t) /\ Changed(todo, todo', w, s)
  BY <1>1, <1>2, Domains, ChangedAt, Zenon DEF Done
<1>5. Visits(c) /\ Begin(c) = <<c>>
  <2>1. c # {} /\ \A y \in c : y.do \in {"kv", "gpb"}
    BY DEF VisitRow
  <2> HIDE DEF c
  <2> QED BY <2>1 DEF Visits, Begin
<1> HIDE DEF c, t
<1>6. Walk(IsGnmi(w), Clear(w), FALSE, s, t, buf[w])
  <2>1. Walk(IsGnmi(w), Clear(w), FALSE, Begin(c) \o After(x, todo[w]), t, buf[w])
    BY <1>3, <1>5, WalkInto, WalkFacts, Zenon
  <2> QED BY <2>1, <1>5, Zenon
<1> QED BY <1>3, <1>4, <1>6, PureStep, Zenon DEF Row

(* a level of key-value content is visited, *)
LEMMA KVNodeInv == ASSUME WorkInv, NEW w \in Worker, KVNode(w) PROVE WorkInv'
<1>1. PICK x \in Coming(w, "kv") :
        LET all == Own(w, x.n) \o KVTags(x.node, x.fields)
        IN tags' = [tags EXCEPT ![w] = all] /\ Done(w, x, VisitKV(x, all))
  BY Zenon DEF KVNode
<1> DEFINE t == Own(w, x.n) \o KVTags(x.node, x.fields)
           s == VisitKV(x, t) \o After(x, todo[w])
<1>2. WalkOf(w) /\ WorkTypes
  BY DEF WorkInv
<1>3. /\ at[w] = "walk" /\ todo[w] # << >> /\ x \in todo[w][1] /\ x.do = "kv"
      /\ Walk(IsGnmi(w), Clear(w), FALSE, todo[w], tags[w], buf[w])
  BY <1>2, ComingFacts, Zenon
<1>4. Changed(tags, tags', w, t) /\ Changed(todo, todo', w, s)
  BY <1>1, <1>2, Domains, ChangedAt, Zenon DEF Done
<1> HIDE DEF t
<1>5. Visit(VisitKV(x, t), Len(t)) /\ IsGnmi(w) \in BOOLEAN
  BY VisitKVLevel DEF IsGnmi
<1>6. Walk(IsGnmi(w), Clear(w), FALSE, s, t, buf[w])
  BY <1>3, <1>5, WalkLoops, Zenon
<1> QED BY <1>3, <1>4, <1>6, PureStep, Zenon DEF KVNode

(* a struct is visited, *)
LEMMA GPBNodeInv ==
  ASSUME WorkInv, NEW w \in Worker, NEW names, GPBNode(w, names)
  PROVE  WorkInv'
<1>1. PICK x \in Coming(w, "gpb") : \E own :
        LET all == Own(w, x.n) \o own
        IN tags' = [tags EXCEPT ![w] = all] /\ Done(w, x, VisitGPB(x, all, names))
  BY Zenon DEF GPBNode
<1>2. PICK own :
        LET all == Own(w, x.n) \o own
        IN tags' = [tags EXCEPT ![w] = all] /\ Done(w, x, VisitGPB(x, all, names))
  BY <1>1, Zenon
<1> DEFINE t == Own(w, x.n) \o own
           s == VisitGPB(x, t, names) \o After(x, todo[w])
<1>3. WalkOf(w) /\ WorkTypes
  BY DEF WorkInv
<1>4. /\ at[w] = "walk" /\ todo[w] # << >> /\ x \in todo[w][1] /\ x.do = "gpb"
      /\ Walk(IsGnmi(w), Clear(w), FALSE, todo[w], tags[w], buf[w])
  BY <1>3, ComingFacts, Zenon
<1>5. Changed(tags, tags', w, t) /\ Changed(todo, todo', w, s)
  BY <1>2, <1>3, Domains, ChangedAt, Zenon DEF Done
<1> HIDE DEF t
<1>6. Visit(VisitGPB(x, t, names), Len(t)) /\ IsGnmi(w) \in BOOLEAN
  BY VisitGPBLevel DEF IsGnmi
<1>7. Walk(IsGnmi(w), Clear(w), FALSE, s, t, buf[w])
  BY <1>4, <1>6, WalkLoops, Zenon
<1> QED BY <1>4, <1>5, <1>7, PureStep, Zenon DEF GPBNode

(* a list of structs is begun, *)
LEMMA GPBListInv == ASSUME WorkInv, NEW w \in Worker, GPBList(w) PROVE WorkInv'
<1>1. PICK x \in Coming(w, "list") : Done(w, x, Begin(x.loop))
  BY DEF GPBList
<1> DEFINE s == Begin(x.loop) \o After(x, todo[w])
<1>2. WalkOf(w) /\ WorkTypes
  BY DEF WorkInv
<1>3. /\ at[w] = "walk" /\ todo[w] # << >> /\ x \in todo[w][1] /\ x.do = "list"
      /\ Walk(IsGnmi(w), Clear(w), FALSE, todo[w], tags[w], buf[w])
  BY <1>2, ComingFacts, Zenon
<1>4. Changed(tags, tags', w, tags[w]) /\ Changed(todo, todo', w, s)
  BY <1>1, <1>2, Domains, ChangedAt, Zenon DEF Done, GPBList
<1>5. Visits(x.loop)
  <2>1. IsSeq(todo[w])
    BY <1>3 DEF Walk
  <2>2. Below(todo[w], 1)
    BY <1>3, <2>1, TopLoop, Zenon DEF Walk
  <2>3. 1 \in 1 .. Len(todo[w])
    BY <1>3, <2>1, SeqFacts
  <2>4. \A y \in x.loop : y.do = "gpb"
    BY <1>3, <2>2, <2>3 DEF Below, Visits
  <2> QED BY <2>4, SMTT(30) DEF Visits
<1>6. Walk(IsGnmi(w), Clear(w), FALSE, s, tags[w], buf[w])
  BY <1>3, <1>5, WalkInto, WalkFacts, Zenon
<1> QED BY <1>3, <1>4, <1>6, PureStep, Zenon DEF GPBList

(* The end of a piece that begins no loop. *)
LEMMA DoneAfter ==
  ASSUME WorkTypes, NEW w \in Worker, IsSeq(todo[w]), todo[w] # << >>, NEW x, Done(w, x, << >>)
  PROVE  Changed(todo, todo', w, After(x, todo[w]))
<1>1. IsSeq(After(x, todo[w]))
  BY AfterFacts
<1>2. << >> \o After(x, todo[w]) = After(x, todo[w])
  BY <1>1, ConcatNone DEF IsSeq
<1>3. Changed(todo, todo', w, << >> \o After(x, todo[w]))
  BY Domains, ChangedAt, Zenon DEF Done
<1> QED BY <1>2, <1>3

(* and statistics are updated. *)
LEMMA TrackInv ==
  ASSUME WorkInv, NEW w \in Worker, NEW x \in Coming(w, "track"), TrackOver(w, x)
  PROVE  WorkInv'
<1>1. WalkOf(w) /\ WorkTypes
  BY DEF WorkInv
<1>2. /\ at[w] = "walk" /\ todo[w] # << >> /\ x \in todo[w][1] /\ x.do = "track"
      /\ Walk(IsGnmi(w), Clear(w), FALSE, todo[w], tags[w], buf[w])
  BY <1>1, ComingFacts, Zenon
<1>3. /\ UNCHANGED <<confVars, arrived, taken, ctrl, at, cur, buf, points, shipped, fate, tags>>
      /\ Done(w, x, << >>)
  BY DEF TrackOver
<1>4. Changed(tags, tags', w, tags[w])
  BY <1>1, <1>3, Domains, SMTT(30) DEF Changed
<1>5. Changed(todo, todo', w, After(x, todo[w]))
  BY <1>1, <1>2, <1>3, DoneAfter, Zenon DEF Walk
<1>6. Walk(IsGnmi(w), Clear(w), FALSE, After(x, todo[w]), tags[w], buf[w])
  <2>1. IsGnmi(w) \in BOOLEAN
    BY DEF IsGnmi
  <2> QED BY <1>2, <2>1, WalkTrack, Zenon
<1> QED BY <1>2, <1>3, <1>4, <1>5, <1>6, PureStep, Zenon

(* A metric more in the buffer. *)
Line(w, sensor, ts, own) ==
  [msg |-> cur[w], key |-> sensor.key, val |-> sensor.val, ts |-> ts,
   tags |-> IF kind = "prometheus" THEN own ELSE << >>]

(* The buffer after buildMetric: still all of one message, and the new     *)
(* metric has the tags it was built with.                                  *)
LEMMA BuiltFacts ==
  ASSUME WorkInv, NEW w \in Worker, at[w] = "walk", NEW sensor, NEW ts, NEW own,
         buildMetric(w, sensor, ts, own)
  PROVE  LET e == Line(w, sensor, ts, own) IN
         /\ Changed(buf, buf', w, Append(buf[w], e))
         /\ Clear(w) => e.tags = own
         /\ IsSeq(Append(buf[w], e))
         /\ \A d \in Range(Append(buf[w], e)) : d.msg = cur[w]
<1> DEFINE e == Line(w, sensor, ts, own)
<1>1. buf' = [buf EXCEPT ![w] = Append(buf[w], e)]
  BY SMTT(30) DEF buildMetric, Built, Line
<1>2. e.msg = cur[w] /\ (Clear(w) => e.tags = own)
  BY Zenon DEF Clear, Line
<1> HIDE DEF e
<1>3. WorkTypes /\ IsSeq(buf[w]) /\ \A d \in Range(buf[w]) : d.msg = cur[w]
  BY WalkFacts, Zenon
<1>4. Changed(buf, buf', w, Append(buf[w], e))
  BY <1>1, <1>3, Domains, ChangedAt, Zenon
<1>5. IsSeq(Append(buf[w], e)) /\ Range(Append(buf[w], e)) = Range(buf[w]) \union {e}
  BY <1>3, AppendFacts, ZenonT(30)
<1>6. \A d \in Range(Append(buf[w], e)) : d.msg = cur[w]
  BY <1>2, <1>3, <1>5
<1> QED BY <1>2, <1>4, <1>5, <1>6, Zenon DEF e

(* A sensor is built with the tags of its level, those of the flush to     *)
(* come.                                                                   *)
LEMMA BuildInv == ASSUME WorkInv, NEW w \in Worker, Build(w) PROVE WorkInv'
<1>1. PICK x \in Coming(w, "build") :
        buildMetric(w, x.sensor, x.ts, Own(w, x.n)) /\ Done(w, x, << >>)
  BY DEF Build
<1>2. WalkOf(w) /\ WorkTypes /\ IsGnmi(w) \in BOOLEAN
  BY DEF WorkInv, IsGnmi
<1>3. /\ at[w] = "walk" /\ todo[w] # << >> /\ x \in todo[w][1] /\ x.do = "build"
      /\ Walk(IsGnmi(w), Clear(w), FALSE, todo[w], tags[w], buf[w])
  BY <1>2, ComingFacts, Zenon
<1>4. UNCHANGED <<confVars, arrived, taken, ctrl, at, cur, tags, points, shipped, fate>>
  BY DEF Build
<1> DEFINE e == Line(w, x.sensor, x.ts, Own(w, x.n))
<1>5. /\ Changed(buf, buf', w, Append(buf[w], e))
      /\ Clear(w) => e.tags = Own(w, x.n)
      /\ IsSeq(Append(buf[w], e))
      /\ \A d \in Range(Append(buf[w], e)) : d.msg = cur[w]
  BY <1>1, <1>3, BuiltFacts, ZenonT(30)
<1> HIDE DEF e
<1>6. /\ IsSeq(buf[w]) /\ IsSeq(points[w])
      /\ \A q \in Range(points[w]) : \A d \in q.fields : d.msg = cur[w]
      /\ kind = "prometheus" => points[w] = << >>
  BY <1>3, WalkFacts, Zenon
<1>7. Changed(todo, todo', w, After(x, todo[w]))
  BY <1>1, <1>2, <1>3, DoneAfter, Zenon DEF Walk
<1>8. Walk(IsGnmi(w), Clear(w), FALSE, After(x, todo[w]), tags[w], Append(buf[w], e))
  BY <1>2, <1>3, <1>5, <1>6, WalkBuild, Zenon DEF Own
<1>9. Changed(tags, tags', w, tags[w]) /\ Changed(points, points', w, points[w])
  BY <1>2, <1>4, Domains DEF Changed
<1> QED BY <1>3, <1>4, <1>5, <1>6, <1>7, <1>8, <1>9, WalkStep, Zenon

(* A gNMI update is built with the tags of the prefix, those of the flush  *)
(* to come, and its own.                                                   *)
LEMMA UpdateInv == ASSUME WorkInv, NEW w \in Worker, Update(w) PROVE WorkInv'
<1>1. PICK x \in Coming(w, "update") :
        /\ \E own \in Orders(x.update.keys) :
             LET all == Own(w, x.n) \o own IN
               /\ tags' = [tags EXCEPT ![w] = all]
               /\ IF HasVal(x.update)
                    THEN buildMetric(w, Atom(x.update.name, x.update.val), x.ts, all)
                    ELSE UNCHANGED buf
        /\ Done(w, x, << >>)
  BY Zenon DEF Update
<1>2. PICK own \in Orders(x.update.keys) :
        /\ tags' = [tags EXCEPT ![w] = Own(w, x.n) \o own]
        /\ IF HasVal(x.update)
             THEN buildMetric(w, Atom(x.update.name, x.update.val), x.ts, Own(w, x.n) \o own)
             ELSE UNCHANGED buf
  BY <1>1, Zenon
<1> DEFINE all == Own(w, x.n) \o own
<1>3. WalkOf(w) /\ WorkTypes /\ IsGnmi(w) \in BOOLEAN
  BY DEF WorkInv, IsGnmi
<1>4. /\ at[w] = "walk" /\ todo[w] # << >> /\ x \in todo[w][1] /\ x.do = "update"
      /\ Walk(IsGnmi(w), Clear(w), FALSE, todo[w], tags[w], buf[w])
  BY <1>3, ComingFacts, Zenon
<1>5. IsGnmi(w) /\ Cardinality(x.update.keys) \in Nat
  <2>1. IsSeq(todo[w]) /\ Fits(IsGnmi(w), todo[w])
    BY <1>4 DEF Walk
  <2>2. 1 \in 1 .. Len(todo[w])
    BY <1>4, <2>1, SeqFacts, SMTT(30)
  <2>3. Fit(IsGnmi(w), x)
    BY <1>4, <2>1, <2>2 DEF Fits
  <2> QED BY <1>3, <1>4, <2>3, SMTT(30) DEF Fit
<1>6. IsSeq(own)
  BY <1>5, KeysSeq
<1>7. UNCHANGED <<confVars, arrived, taken, ctrl, at, cur, points, shipped, fate>>
  BY DEF Update
<1>8. /\ IsSeq(buf[w]) /\ \A d \in Range(buf[w]) : d.msg = cur[w]
      /\ IsSeq(points[w]) /\ \A q \in Range(points[w]) : \A d \in q.fields : d.msg = cur[w]
      /\ kind = "prometheus" => points[w] = << >>
  BY <1>4, WalkFacts, Zenon
<1>9. /\ Changed(todo, todo', w, After(x, todo[w])) /\ Changed(tags, tags', w, all)
      /\ Changed(points, points', w, points[w])
  <2>1. Changed(todo, todo', w, After(x, todo[w]))
    BY <1>1, <1>3, <1>4, DoneAfter, Zenon DEF Walk
  <2>2. Changed(tags, tags', w, all)
    BY <1>2, <1>3, Domains, ChangedAt, ZenonT(30)
  <2>3. Changed(points, points', w, points[w])
    BY <1>3, <1>7, Domains DEF Changed
  <2> QED BY <2>1, <2>2, <2>3, SMTT(30)
<1>10. Walk(TRUE, Clear(w), FALSE, todo[w], tags[w], buf[w])
  <2>1. IsGnmi(w) = TRUE
    BY <1>3, <1>5
  <2> QED BY <1>4, <2>1, Zenon
<1>11. CASE HasVal(x.update)
  <2> DEFINE e == Line(w, Atom(x.update.name, x.update.val), x.ts, all)
  <2>1. /\ Changed(buf, buf', w, Append(buf[w], e))
        /\ Clear(w) => e.tags = all
        /\ IsSeq(Append(buf[w], e))
        /\ \A d \in Range(Append(buf[w], e)) : d.msg = cur[w]
    <3>1. buildMetric(w, Atom(x.update.name, x.update.val), x.ts, all)
      BY <1>2, <1>11
    <3> QED BY <1>4, <3>1, BuiltFacts, Zenon
  <2> HIDE DEF e
  <2>2. Walk(TRUE, Clear(w), FALSE, After(x, todo[w]), all, Append(buf[w], e))
    BY <1>4, <1>6, <1>8, <1>10, <1>11, <2>1, WalkUpdate, Zenon DEF Own
  <2>3. Walk(IsGnmi(w), Clear(w), FALSE, After(x, todo[w]), all, Append(buf[w], e))
    BY <1>3, <1>5, <2>2, Zenon
  <2> QED BY <1>4, <1>7, <1>8, <1>9, <2>1, <2>3, WalkStep, Zenon
<1>12. CASE ~HasVal(x.update)
  <2>1. Changed(buf, buf', w, buf[w])
    BY <1>2, <1>3, <1>12, Domains DEF Changed
  <2>2. Walk(TRUE, Clear(w), FALSE, After(x, todo[w]), all, buf[w])
    BY <1>4, <1>6, <1>8, <1>10, <1>12, WalkUpdate, Zenon DEF Own
  <2>3. Walk(IsGnmi(w), Clear(w), FALSE, After(x, todo[w]), all, buf[w])
    BY <1>3, <1>5, <2>2, Zenon
  <2> QED BY <1>4, <1>7, <1>8, <1>9, <2>1, <2>3, WalkStep, Zenon
<1> QED BY <1>11, <1>12

(* An Influx point is made of fields of one message; there may be none. *)
LEMMA FlushPointInv == ASSUME WorkInv, NEW w \in Worker, FlushPoint(w) PROVE WorkInv'
<1>1. PICK x \in Coming(w, "flush") :
       LET fields == LastOfEach(buf[w]) IN
         /\ points' = IF \E e \in fields : e.val = NaN THEN points
                        ELSE [points EXCEPT ![w] = Append(@,
                               [tags |-> LastOfEach(Own(w, x.n)), ts |-> x.ts, fields |-> fields])]
         /\ Done(w, x, << >>)
  BY Zenon DEF FlushPoint
<1> DEFINE p == [tags |-> LastOfEach(Own(w, x.n)), ts |-> x.ts, fields |-> LastOfEach(buf[w])]
           none == \E e \in LastOfEach(buf[w]) : e.val = NaN
           ps == IF none THEN points[w] ELSE Append(points[w], p)
<1>1a. Done(w, x, << >>) /\ points' = IF none THEN points ELSE [points EXCEPT ![w] = Append(@, p)]
  BY <1>1, Zenon
<1>2. WalkOf(w) /\ WorkTypes /\ IsGnmi(w) \in BOOLEAN
  BY DEF WorkInv, IsGnmi
<1>3. /\ at[w] = "walk" /\ todo[w] # << >> /\ x \in todo[w][1] /\ x.do = "flush"
      /\ Walk(IsGnmi(w), Clear(w), FALSE, todo[w], tags[w], buf[w])
  BY <1>2, ComingFacts, Zenon
<1>4. /\ UNCHANGED <<confVars, arrived, taken, ctrl, at, cur, tags, shipped, fate>>
      /\ buf' = [buf EXCEPT ![w] = << >>] /\ kind = "influx"
  BY DEF FlushPoint
<1>5. /\ IsSeq(buf[w]) /\ \A d \in Range(buf[w]) : d.msg = cur[w]
      /\ IsSeq(points[w]) /\ \A q \in Range(points[w]) : \A d \in q.fields : d.msg = cur[w]
  BY <1>3, WalkFacts, Zenon
<1>6. p.fields \subseteq Range(buf[w])
  BY DEF LastOfEach, Range
<1> HIDE DEF p, none
<1>7. /\ IsSeq(ps)
      /\ \A q \in Range(ps) : \A d \in q.fields : d.msg = cur[w]
  <2>1. IsSeq(Append(points[w], p)) /\ Range(Append(points[w], p)) = Range(points[w]) \union {p}
    BY <1>5, AppendFacts
  <2>2. \A q \in Range(Append(points[w], p)) : \A d \in q.fields : d.msg = cur[w]
    BY <1>5, <1>6, <2>1
  <2> QED BY <1>5, <2>1, <2>2, Zenon
<1>8. Changed(points, points', w, ps) /\ Changed(buf, buf', w, << >>)
  <2>1. Changed(buf, buf', w, << >>)
    BY <1>2, <1>4, Domains, ChangedAt, Zenon
  <2>2. CASE none
    <3>1. points' = points /\ ps = points[w]
      BY <1>1a, <2>2, Zenon
    <3> QED BY <1>2, <2>1, <3>1, Domains, ChangedAt, Zenon
  <2>3. CASE ~none
    <3>1. points' = [points EXCEPT ![w] = Append(points[w], p)] /\ ps = Append(points[w], p)
      BY <1>1a, <2>3, Zenon
    <3> QED BY <1>2, <2>1, <3>1, Domains, ChangedAt, Zenon
  <2> QED BY <2>2, <2>3, Zenon
<1> HIDE DEF ps
<1>9. Changed(todo, todo', w, After(x, todo[w])) /\ Changed(tags, tags', w, tags[w])
  <2>1. Changed(todo, todo', w, After(x, todo[w]))
    BY <1>1, <1>2, <1>3, DoneAfter, Zenon DEF Walk
  <2> QED BY <1>2, <1>4, <2>1, Domains DEF Changed
<1>10. Walk(IsGnmi(w), Clear(w), FALSE, After(x, todo[w]), tags[w], << >>)
  BY <1>2, <1>3, WalkFlush, Zenon
<1>11. IsSeq(<< >>) /\ \A d \in Range(<< >>) : d.msg = cur[w]
  BY EmptyBuffer, Zenon
<1>12. UNCHANGED <<confVars, arrived, taken, ctrl, at, cur, shipped, fate>> /\ kind # "prometheus"
  BY <1>4
<1> QED BY <1>3, <1>7, <1>8, <1>9, <1>10, <1>11, <1>12, WalkStep, Zenon

-----------------------------------------------------------------------------
(* Steps that take a worker to another place. *)

(* What was shipped is as it was, and so is a failure. *)
LostStays == \A i \in 1 .. Len(feed) : kind = "prometheus" /\ fate[i] = "lost" => fate'[i] = "lost"

(* What is shipped stays in its place as long as no failure is taken back. *)
LEMMA ShippedStays ==
  ASSUME WorkTypes, ShippedInv, UNCHANGED <<kind, feed, shipped>>, LostStays
  PROVE  ShippedInv'
<1>1. ASSUME NEW e \in shipped
      PROVE  /\ e.of = e.msg /\ e.msg \in 1 .. Len(feed) /\ (kind = "influx" => e.group = e.tags)
             /\ \/ e.group = e.tags
                \/ feed[e.msg].form = "gnmi" /\ e.group \subseteq e.tags
                \/ fate'[e.msg] = "lost"
  <2>1. /\ e.of = e.msg /\ e.msg \in 1 .. Len(feed) /\ (kind = "influx" => e.group = e.tags)
        /\ \/ e.group = e.tags
           \/ feed[e.msg].form = "gnmi" /\ e.group \subseteq e.tags
           \/ fate[e.msg] = "lost"
    BY Zenon DEF ShippedInv, GroupsApart
  <2>2. kind = "prometheus" \/ kind = "influx"
    BY DEF WorkTypes, Kinds
  <2> QED BY <2>1, <2>2, Zenon DEF LostStays
<1> QED BY <1>1, Zenon DEF ShippedInv, GroupsApart

(* A step of one worker: it is enough to show what is said of this worker, *)
(* of what is shipped, and that a message it lets go of is settled.        *)
LEMMA WorkerStep ==
  ASSUME WorkInv, NEW w \in Worker, at[w] # "gone", UNCHANGED <<confVars, arrived, ctrl>>,
         NEW a, Changed(at, at', w, a), NEW c, Changed(cur, cur', w, c),
         NEW s, Changed(todo, todo', w, s), NEW t, Changed(tags, tags', w, t),
         NEW b, Changed(buf, buf', w, b), NEW p, Changed(points, points', w, p),
         taken' \in Nat, taken <= taken', taken' <= arrived,
         fate' \in [1 .. Len(feed) -> {"open", "ok", "lost"}], LostStays,
         \A i \in 1 .. taken' : fate'[i] = "open" =>
           \/ a \in Busy /\ c = i
           \/ i \in 1 .. taken /\ fate[i] = "open" /\ ~(at[w] \in Busy /\ cur[w] = i),
         WalkOf(w)', HeldBy(w)', ShippedInv'
  PROVE  WorkInv'
<1>1. WorkTypes /\ SettleInv /\ \A v \in Worker : WalkOf(v) /\ HeldBy(v)
  BY Zenon DEF WorkInv
<1>2. kind' = kind /\ feed' = feed /\ arrived' = arrived /\ ctrl' = ctrl
  BY DEF confVars
<1>3. taken \in Nat /\ arrived \in Nat /\ taken <= arrived /\ arrived <= Len(feed)
  BY <1>1 DEF WorkTypes
<1>4. WorkTypes'
  <2>1. \A f \in {at', cur', todo', tags', buf', points'} : DOMAIN f = Worker
    BY Zenon DEF Changed
  <2>2. kind \in Kinds /\ \E u \in Setups : feed = u.feed
    BY <1>1, Zenon DEF WorkTypes
  <2> QED BY <1>2, <1>3, <2>1, <2>2 DEF WorkTypes
<1>5. ASSUME NEW v \in Worker, v # w PROVE WalkOf(v)' /\ HeldBy(v)'
  <2>1. /\ at'[v] = at[v] /\ cur'[v] = cur[v] /\ todo'[v] = todo[v] /\ tags'[v] = tags[v]
        /\ buf'[v] = buf[v] /\ points'[v] = points[v]
    BY <1>5, Zenon DEF Changed
  <2>2. Len(feed) \in Nat
    BY <1>1, FeedFacts, Zenon
  <2>3. \A i \in 1 .. taken : i \in 1 .. Len(feed)
    BY <1>3, <2>2
  <2>4. Aside(v)
    BY <1>2, <2>1, <2>3, Zenon DEF Aside, LostStays
  <2> QED BY <1>1, <1>3, <2>4, AsideInv, Zenon
<1>6. SettleInv'
  <2>1. w \in Workers /\ ctrl # "acked"
    BY <1>1, Zenon DEF SettleInv
  <2>2. Workers' = Workers
    BY <1>2, Zenon DEF Workers
  <2>3. ASSUME NEW v \in Worker, v \notin Workers \/ ctrl = "acked" PROVE at'[v] = "gone"
    <3>1. v # w /\ at[v] = "gone"
      BY <1>1, <2>1, <2>3, Zenon DEF SettleInv
    <3> QED BY <3>1, Zenon DEF Changed
  <2>4. ASSUME NEW i \in 1 .. taken', fate'[i] = "open"
        PROVE  \E v \in Worker : at'[v] \in Busy /\ cur'[v] = i
    <3>1. CASE a \in Busy /\ c = i
      BY <3>1, Zenon DEF Changed
    <3>2. CASE i \in 1 .. taken /\ fate[i] = "open" /\ ~(at[w] \in Busy /\ cur[w] = i)
      <4>1. PICK v \in Worker : at[v] \in Busy /\ cur[v] = i
        BY <1>1, <3>2, Zenon DEF SettleInv
      <4>2. v # w
        BY <3>2, <4>1, Zenon
      <4> QED BY <4>1, <4>2, Zenon DEF Changed
    <3> QED BY <2>4, <3>1, <3>2, Zenon
  <2> QED BY <1>2, <2>2, <2>3, <2>4, Zenon DEF SettleInv
<1> QED BY <1>4, <1>5, <1>6, Zenon DEF WorkInv

(* What fate may be after a step that settles message i, or leaves it. *)
LEMMA FateSet ==
  ASSUME WorkTypes, NEW i \in 1 .. Len(feed), NEW r \in {"ok", "lost"},
         kind = "prometheus" /\ fate[i] = "lost" => r = "lost",
         fate' = [fate EXCEPT ![i] = r]
  PROVE  /\ fate' \in [1 .. Len(feed) -> {"open", "ok", "lost"}] /\ LostStays
         /\ fate'[i] = r /\ \A j \in 1 .. Len(feed) : j # i => fate'[j] = fate[j]
<1>1. fate \in [1 .. Len(feed) -> {"open", "ok", "lost"}]
  BY Zenon DEF WorkTypes
<1>2. fate' \in [1 .. Len(feed) -> {"open", "ok", "lost"}]
  BY <1>1
<1>3. fate'[i] = r /\ \A j \in 1 .. Len(feed) : j # i => fate'[j] = fate[j]
  BY <1>1
<1>4. LostStays
  BY <1>3, Zenon DEF LostStays
<1> QED BY <1>2, <1>3, <1>4

(* A step that settles nothing. *)
LEMMA FateStays ==
  ASSUME WorkTypes, fate' = fate
  PROVE  fate' \in [1 .. Len(feed) -> {"open", "ok", "lost"}] /\ LostStays
BY Zenon DEF WorkTypes, LostStays

(* The first loops of a message. *)
LEMMA PlanWalk ==
  ASSUME WorkTypes, NEW i \in 1 .. Len(feed), NEW plan \in Plans(feed[i]), NEW clear
  PROVE  Walk(feed[i].form = "gnmi", clear, FALSE, plan.todo, plan.tags, << >>)
<1> DEFINE m == feed[i]
<1>1. CASE m.form = "gnmi"
  <2>1. Plans(m) = {[tags |-> BaseTags(m) \o p, todo |-> Updates(m, Len(BaseTags(m)) + Len(p))] :
                      p \in Orders(m.keys)}
    BY <1>1 DEF Plans, HasMetrics
  <2>2. PICK p \in Orders(m.keys) : /\ plan.tags = BaseTags(m) \o p
                                       /\ plan.todo = Updates(m, Len(BaseTags(m)) + Len(p))
    BY <2>1, SMTT(30)
  <2>3. Cardinality(m.keys) \in Nat /\ \A j \in DOMAIN m.updates : Cardinality(m.updates[j].keys) \in Nat
    BY <1>1, FeedFacts
  <2>4. IsSeq(p)
    BY <2>3, KeysSeq
  <2> DEFINE first == Atom(<<"EncodingPath">>, m.path)
             q == <<first>> \o p
  <2>5. BaseTags(m) = <<first>> /\ Len(BaseTags(m)) = 1
    BY DEF BaseTags
  <2> HIDE DEF first
  <2>6. IsSeq(q) /\ Len(q) = Len(p) + 1 /\ Len(p) \in Nat
    BY <2>4, ConsFacts, SeqFacts
  <2> HIDE DEF q
  <2>7. Len(BaseTags(m)) + Len(p) \in 0 .. Len(q)
    BY <2>5, <2>6
  <2>8. Walk(TRUE, clear, FALSE, Updates(m, Len(BaseTags(m)) + Len(p)), q, << >>)
    BY <2>3, <2>6, <2>7, UpdatesWalk, Zenon
  <2>9. plan.tags = q
    BY <2>2, <2>5 DEF q
  <2> QED BY <1>1, <2>2, <2>8, <2>9, Zenon
<1>2. CASE m.form # "gnmi" /\ HasMetrics(m)
  <2>1. Plans(m) = {[tags |-> BaseTags(m), todo |-> Rows(m)]}
    BY <1>2 DEF Plans
  <2>2. plan.todo = Rows(m)
    BY <2>1
  <2> QED BY <1>2, <2>2, RowsWalk, Zenon
<1>3. CASE m.form # "gnmi" /\ ~HasMetrics(m)
  <2>1. Plans(m) = {[tags |-> BaseTags(m), todo |-> << >>]}
    BY <1>3 DEF Plans
  <2>2. plan.todo = << >>
    BY <2>1
  <2> QED BY <1>3, <2>2, EmptyStack DEF Walk, Visiting
<1> QED BY <1>1, <1>2, <1>3, Zenon

(* What a step leaves alone. *)
LEMMA Unmoved ==
  ASSUME WorkTypes, NEW w \in Worker
  PROVE  /\ Changed(at, at, w, at[w]) /\ Changed(cur, cur, w, cur[w])
         /\ Changed(todo, todo, w, todo[w]) /\ Changed(tags, tags, w, tags[w])
         /\ Changed(buf, buf, w, buf[w]) /\ Changed(points, points, w, points[w])
BY Domains, Zenon DEF Changed

(* What a worker that has a message holds. *)
LEMMA BusyFacts ==
  ASSUME WorkInv, NEW w \in Worker, at[w] \in Busy
  PROVE  /\ WorkTypes /\ WalkOf(w) /\ HeldBy(w) /\ ShippedInv /\ at[w] # "gone"
         /\ cur[w] \in 1 .. taken /\ cur[w] \in 1 .. Len(feed)
         /\ taken \in Nat /\ taken <= arrived /\ taken <= Len(feed) /\ Len(feed) \in Nat
         /\ IsGnmi(w) \in BOOLEAN
<1>1. WorkTypes /\ WalkOf(w) /\ HeldBy(w) /\ ShippedInv
  BY Zenon DEF WorkInv
<1>2. Len(feed) \in Nat
  BY <1>1, FeedFacts, Zenon
<1>3. arrived \in Nat /\ taken \in Nat /\ taken <= arrived /\ arrived <= Len(feed)
  BY <1>1, Zenon DEF WorkTypes
<1>4. cur[w] \in 1 .. taken
  BY <1>1, Zenon DEF HeldBy
<1>5. taken <= Len(feed) /\ cur[w] \in 1 .. Len(feed)
  BY <1>2, <1>3, <1>4
<1>6. at[w] # "gone" /\ IsGnmi(w) \in BOOLEAN
  BY DEF Busy, IsGnmi
<1> QED BY <1>1, <1>2, <1>3, <1>4, <1>5, <1>6

(* What has been taken has arrived. *)
LEMMA PartOfFeed ==
  ASSUME NEW n \in Nat, NEW l \in Nat, n <= l
  PROVE  \A i \in 1 .. n : i \in 1 .. l
OBVIOUS

(* A worker that keeps its message, of which a post may have failed. *)
LEMMA KeepStep ==
  ASSUME WorkInv, NEW w \in Worker, at[w] \in Busy, NEW a \in Busy,
         UNCHANGED <<confVars, arrived, taken, ctrl, cur, points>>,
         Changed(at, at', w, a), NEW s, Changed(todo, todo', w, s),
         NEW t, Changed(tags, tags', w, t), NEW b, Changed(buf, buf', w, b),
         fate' = fate \/ fate' = [fate EXCEPT ![cur[w]] = "lost"],
         a \in {"table", "walk"} \/ (a = "ship" /\ kind = "prometheus") =>
           Walk(IsGnmi(w), Clear(w)', a = "ship", s, t, b),
         IsSeq(b), \A e \in Range(b) : e.msg = cur[w], a # "table",
         ShippedInv'
  PROVE  WorkInv'
<1>1. /\ WorkTypes /\ WalkOf(w) /\ HeldBy(w) /\ ShippedInv /\ at[w] # "gone"
      /\ cur[w] \in 1 .. taken /\ cur[w] \in 1 .. Len(feed)
      /\ taken \in Nat /\ taken <= arrived /\ taken <= Len(feed) /\ Len(feed) \in Nat
  BY BusyFacts, Zenon
<1>2. Changed(cur, cur', w, cur[w]) /\ Changed(points, points', w, points[w])
  BY <1>1, Unmoved, ZenonT(30)
<1>3. /\ fate' \in [1 .. Len(feed) -> {"open", "ok", "lost"}] /\ LostStays
      /\ \A j \in 1 .. Len(feed) : j # cur[w] => fate'[j] = fate[j]
  <2>1. CASE fate' = fate
    BY <1>1, <2>1, FateStays, Zenon
  <2>2. CASE fate' = [fate EXCEPT ![cur[w]] = "lost"]
    BY <1>1, <2>2, FateSet, Zenon
  <2> QED BY <2>1, <2>2
<1>4. \A i \in 1 .. taken' : fate'[i] = "open" =>
           \/ a \in Busy /\ cur[w] = i
           \/ i \in 1 .. taken /\ fate[i] = "open" /\ ~(at[w] \in Busy /\ cur[w] = i)
  <2>1. taken' = taken
    BY Zenon
  <2>2. \A i \in 1 .. taken : i \in 1 .. Len(feed)
    BY <1>1, PartOfFeed, Zenon
  <2> QED BY <1>3, <2>1, <2>2, ZenonT(30)
<1>5. at'[w] = a /\ todo'[w] = s /\ buf'[w] = b /\ cur' = cur /\ tags'[w] = t
      /\ points' = points /\ taken' = taken /\ kind' = kind /\ feed' = feed
  BY Zenon DEF Changed, confVars
<1>6. WalkOf(w)'
  BY <1>5, Zenon DEF WalkOf, IsGnmi
<1>7. HeldBy(w)'
  BY <1>1, <1>5, ZenonT(30) DEF HeldBy
<1>8. taken' \in Nat /\ taken <= taken' /\ taken' <= arrived
  BY <1>1
<1> QED BY <1>1, <1>2, <1>3, <1>4, <1>6, <1>7, <1>8, WorkerStep, Zenon

(* A worker that is done with its message, or has none. *)
LEMMA FreeStep ==
  ASSUME WorkInv, NEW w \in Worker, at[w] # "gone",
         NEW a \in {"recv", "redial", "gone"}, Changed(at, at', w, a),
         UNCHANGED <<confVars, arrived, taken, ctrl>>,
         NEW c, Changed(cur, cur', w, c), NEW s, Changed(todo, todo', w, s),
         NEW t, Changed(tags, tags', w, t), NEW b, Changed(buf, buf', w, b),
         NEW p, Changed(points, points', w, p),
         fate' \in [1 .. Len(feed) -> {"open", "ok", "lost"}], LostStays,
         \A i \in 1 .. taken : fate'[i] = "open" =>
           fate[i] = "open" /\ ~(at[w] \in Busy /\ cur[w] = i),
         ShippedInv'
  PROVE  WorkInv'
<1>1. WalkOf(w)' /\ HeldBy(w)'
  <2>1. at'[w] = a /\ a \notin {"table", "walk", "ship"}
    BY Zenon DEF Changed
  <2> QED BY <2>1, ZenonT(30) DEF WalkOf, HeldBy, Busy
<1>2. taken' \in Nat /\ taken <= taken' /\ taken' <= arrived
  <2>1. taken \in Nat /\ taken <= arrived
    BY Zenon DEF WorkInv, WorkTypes
  <2> QED BY <2>1
<1>3. \A i \in 1 .. taken' : fate'[i] = "open" =>
           \/ a \in Busy /\ c = i
           \/ i \in 1 .. taken /\ fate[i] = "open" /\ ~(at[w] \in Busy /\ cur[w] = i)
  <2>1. taken' = taken
    OBVIOUS
  <2> QED BY <2>1, Zenon
<1> QED BY <1>1, <1>2, <1>3, WorkerStep, ZenonT(30)

(* A worker takes a message, with nothing in its context. *)
LEMMA RecvInv == ASSUME WorkInv, NEW w \in Worker, Recv(w) PROVE WorkInv'
<1> DEFINE m == feed[taken + 1]
           a == IF m.form = "gpb" /\ HasMetrics(m) THEN "table" ELSE "walk"
<1>1. PICK plan \in Plans(m) : /\ todo' = [todo EXCEPT ![w] = plan.todo]
                               /\ tags' = [tags EXCEPT ![w] = plan.tags]
  BY Zenon DEF Recv
<1>2. /\ at[w] = "recv" /\ taken < arrived /\ taken' = taken + 1
      /\ cur' = [cur EXCEPT ![w] = taken + 1] /\ buf' = [buf EXCEPT ![w] = << >>]
      /\ points' = [points EXCEPT ![w] = << >>] /\ at' = [at EXCEPT ![w] = a]
      /\ UNCHANGED <<confVars, arrived, ctrl, shipped, fate>>
  BY DEF Recv, Goto
<1>3. WorkTypes /\ ShippedInv
  BY Zenon DEF WorkInv
<1>4. taken + 1 \in 1 .. Len(feed) /\ taken \in Nat /\ arrived \in Nat
  <2>1. Len(feed) \in Nat
    BY <1>3, FeedFacts, Zenon
  <2>2. arrived \in Nat /\ taken \in Nat /\ arrived <= Len(feed)
    BY <1>3, Zenon DEF WorkTypes
  <2> QED BY <1>2, <2>1, <2>2
<1>5. a \in {"table", "walk"}
  OBVIOUS
<1>6. \A clear : Walk(m.form = "gnmi", clear, FALSE, plan.todo, plan.tags, << >>)
  BY <1>3, <1>4, PlanWalk, Zenon
<1>7. /\ Changed(at, at', w, a) /\ Changed(cur, cur', w, taken + 1)
      /\ Changed(todo, todo', w, plan.todo) /\ Changed(tags, tags', w, plan.tags)
      /\ Changed(buf, buf', w, << >>) /\ Changed(points, points', w, << >>)
  <2> HIDE DEF a
  <2> QED BY <1>1, <1>2, <1>3, Domains, ChangedAt, Zenon
<1> HIDE DEF a
<1>8. /\ at'[w] = a /\ cur'[w] = taken + 1 /\ todo'[w] = plan.todo /\ tags'[w] = plan.tags
      /\ buf'[w] = << >> /\ points'[w] = << >> /\ feed' = feed /\ fate' = fate
  BY <1>2, <1>7, Zenon DEF Changed, confVars
<1>9. WalkOf(w)'
  <2>1. (at[w] = "ship")' = FALSE /\ IsGnmi(w)' = (m.form = "gnmi")
    BY <1>5, <1>8 DEF IsGnmi
  <2> QED BY <1>6, <1>8, <2>1, Zenon DEF WalkOf
<1>10. HeldBy(w)'
  <2>1. taken + 1 \in 1 .. taken'
    BY <1>2, <1>4
  <2> QED BY <1>8, <2>1, EmptyBuffer, Zenon DEF HeldBy
<1>11. fate' \in [1 .. Len(feed) -> {"open", "ok", "lost"}] /\ LostStays
  BY <1>3, <1>8, FateStays, Zenon
<1>12. \A i \in 1 .. taken' : fate'[i] = "open" =>
           \/ a \in Busy /\ taken + 1 = i
           \/ i \in 1 .. taken /\ fate[i] = "open" /\ ~(at[w] \in Busy /\ cur[w] = i)
  <2>1. a \in Busy /\ at[w] \notin Busy
    BY <1>2, <1>5 DEF Busy
  <2>2. \A i \in 1 .. taken' : i = taken + 1 \/ i \in 1 .. taken
    BY <1>2, <1>4
  <2> QED BY <1>8, <2>1, <2>2, Zenon
<1>13. ShippedInv'
  BY <1>2, <1>3, <1>11, ShippedStays, Zenon DEF confVars
<1>14. at[w] # "gone" /\ taken' \in Nat /\ taken <= taken' /\ taken' <= arrived
  BY <1>2, <1>4
<1>15. UNCHANGED <<confVars, arrived, ctrl>>
  BY <1>2, Zenon
<1> HIDE DEF m
<1> QED BY <1>7, <1>9, <1>10, <1>11, <1>12, <1>13, <1>14, <1>15, WorkerStep, ZenonT(60)

(* Steps that change nothing of this. *)
LEMMA StayInv == ASSUME WorkInv, UNCHANGED workVars PROVE WorkInv'
<1>1. UNCHANGED <<kind, feed, arrived, taken, ctrl, at, cur, todo, tags, buf, points, shipped, fate>>
  BY DEF workVars, confVars
<1>2. WorkTypes /\ ShippedInv /\ SettleInv /\ \A v \in Worker : WalkOf(v) /\ HeldBy(v)
  BY Zenon DEF WorkInv
<1>3. WorkTypes' /\ ShippedInv' /\ SettleInv'
  BY <1>1, <1>2, Zenon DEF WorkTypes, ShippedInv, GroupsApart, SettleInv, Workers
<1>4. \A v \in Worker : WalkOf(v)' /\ HeldBy(v)'
  BY <1>1, <1>2, Zenon DEF WalkOf, HeldBy, IsGnmi, Clear
<1> QED BY <1>3, <1>4, Zenon DEF WorkInv

(* A worker whose table is there walks it, and without one walks nothing. *)
LEMMA TableInv ==
  ASSUME WorkInv, NEW w \in Worker, TableReady(w) \/ TableNil(w)
  PROVE  WorkInv'
<1>1. /\ at[w] = "table" /\ at' = [at EXCEPT ![w] = "walk"]
      /\ todo' = todo \/ todo' = [todo EXCEPT ![w] = << >>]
      /\ UNCHANGED <<confVars, arrived, taken, ctrl, cur, tags, buf, points, fails, shipped, fate>>
  BY DEF TableReady, TableNil, Goto
<1>2. at[w] \in Busy /\ "walk" \in Busy
  BY <1>1 DEF Busy
<1>3. WorkTypes /\ WalkOf(w) /\ HeldBy(w) /\ ShippedInv
  BY <1>2, BusyFacts, Zenon
<1>4. PICK s \in {todo[w], << >>} : Changed(todo, todo', w, s)
  BY <1>1, <1>3, Domains, ChangedAt, Zenon
<1>5. /\ Changed(at, at', w, "walk") /\ Changed(tags, tags', w, tags[w])
      /\ Changed(buf, buf', w, buf[w])
  BY <1>1, <1>3, Domains, ChangedAt, Zenon
<1>6. Walk(IsGnmi(w), Clear(w), FALSE, todo[w], tags[w], buf[w])
  BY <1>1, <1>3, Zenon DEF WalkOf
<1>7. Clear(w)' = Clear(w)
  BY <1>1 DEF Clear, confVars
<1>8. IsSeq(buf[w]) /\ (\A e \in Range(buf[w]) : e.msg = cur[w]) /\ buf[w] = << >>
  BY <1>1, <1>2, <1>3, Zenon DEF HeldBy
<1>9. Walk(IsGnmi(w), Clear(w), FALSE, << >>, tags[w], buf[w])
  <2>1. IsGnmi(w) => IsSeq(tags[w])
    BY <1>6, Zenon DEF Walk
  <2> QED BY <1>8, <2>1, EmptyStack, Zenon DEF Walk, Visiting
<1>10. Walk(IsGnmi(w), Clear(w)', FALSE, s, tags[w], buf[w])
  BY <1>4, <1>6, <1>7, <1>9, Zenon
<1>11. ("walk" = "ship") = FALSE /\ "walk" # "table"
  OBVIOUS
<1>12. ShippedInv'
  <2>1. fate' = fate /\ UNCHANGED <<kind, feed, shipped>>
    BY <1>1 DEF confVars
  <2> QED BY <1>3, <2>1, FateStays, ShippedStays, Zenon
<1>13. UNCHANGED <<confVars, arrived, taken, ctrl, cur, points>> /\ fate' = fate
  BY <1>1, Zenon
<1> QED BY <1>2, <1>4, <1>5, <1>8, <1>10, <1>11, <1>12, <1>13, KeepStep, ZenonT(30)

(* A worker about to post has the flush on its stack. *)
LEMMA WalkPosting ==
  ASSUME NEW g \in BOOLEAN, NEW clear, NEW s, NEW t, NEW b
  PROVE  /\ Walk(g, clear, TRUE, s, t, b) =>
              s # << >> /\ Head(s) = s[1] /\ \A x \in s[1] : x.do = "flush"
         /\ Walk(g, clear, FALSE, s, t, b) /\ s # << >>
              => \A x \in s[1] : x.do = "flush" => Walk(g, clear, TRUE, s, t, b)
<1>1. ASSUME Walk(g, clear, TRUE, s, t, b)
      PROVE  s # << >> /\ Head(s) = s[1] /\ \A x \in s[1] : x.do = "flush"
  <2>1. IsSeq(s) /\ \E f : FlushNext(s, f)
    BY <1>1, Zenon DEF Walk
  <2>2. PICK f : FlushNext(s, f)
    BY <2>1
  <2>3. s # << >> /\ \A x \in s[1] : x.do = "flush"
    BY <2>2 DEF FlushNext
  <2> QED BY <2>1, <2>3, TailFacts, Zenon
<1>2. ASSUME Walk(g, clear, FALSE, s, t, b), s # << >>, NEW x \in s[1], x.do = "flush"
      PROVE  Walk(g, clear, TRUE, s, t, b)
  <2>1. IsSeq(s) /\ Fits(g, s) /\ (g => IsSeq(t))
    BY <1>2, Zenon DEF Walk
  <2>2. ~Visiting(s) /\ \A f : ~FlushAfter(s, f)
    BY <1>2, <2>1, TopLoop, Zenon
  <2> QED BY <1>2, <2>1, <2>2, Zenon DEF Walk
<1> QED BY <1>1, <1>2, Zenon

(* A Prometheus worker comes to a flush: nothing to post, or it posts. *)
LEMMA FlushPostInv == ASSUME WorkInv, NEW w \in Worker, FlushPost(w) PROVE WorkInv'
<1>1. PICK x \in Coming(w, "flush") :
        IF buf[w] = << >> THEN Done(w, x, << >>) /\ UNCHANGED at
          ELSE Goto(w, "ship") /\ UNCHANGED todo
  BY SMTT(30) DEF FlushPost
<1>2. WalkOf(w) /\ WorkTypes /\ ShippedInv /\ IsGnmi(w) \in BOOLEAN
  BY DEF WorkInv, IsGnmi
<1>3. /\ at[w] = "walk" /\ todo[w] # << >> /\ x \in todo[w][1] /\ x.do = "flush"
      /\ Walk(IsGnmi(w), Clear(w), FALSE, todo[w], tags[w], buf[w])
  BY <1>2, ComingFacts, ZenonT(30)
<1>4. UNCHANGED <<confVars, arrived, taken, ctrl, cur, tags, buf, points, shipped, fate>>
  BY Zenon DEF FlushPost
<1>5. CASE buf[w] = << >>
  <2>1. Changed(todo, todo', w, After(x, todo[w])) /\ at' = at
    BY <1>1, <1>2, <1>3, <1>5, DoneAfter, Zenon DEF Walk
  <2>2. Changed(tags, tags', w, tags[w])
    BY <1>2, <1>4, Unmoved, Zenon
  <2>3. Walk(IsGnmi(w), Clear(w), FALSE, After(x, todo[w]), tags[w], buf[w])
    BY <1>2, <1>3, <1>5, WalkFlush, Zenon
  <2> QED BY <1>3, <1>4, <2>1, <2>2, <2>3, PureStep, ZenonT(30)
<1>6. CASE buf[w] # << >>
  <2>1. at' = [at EXCEPT ![w] = "ship"] /\ todo' = todo
    BY <1>1, <1>6 DEF Goto
  <2>2. /\ Changed(at, at', w, "ship") /\ Changed(todo, todo', w, todo[w])
        /\ Changed(tags, tags', w, tags[w]) /\ Changed(buf, buf', w, buf[w])
    BY <1>2, <1>4, <2>1, Domains, ChangedAt, Zenon
  <2>3. Walk(IsGnmi(w), Clear(w), TRUE, todo[w], tags[w], buf[w])
    BY <1>2, <1>3, WalkPosting, ZenonT(30)
  <2>4. Clear(w)' = Clear(w)
    BY <1>4, SMTT(30) DEF Clear, confVars
  <2>5. at[w] \in Busy /\ "ship" \in Busy /\ "ship" # "table" /\ ("ship" = "ship") = TRUE
    BY <1>3 DEF Busy
  <2>6. IsSeq(buf[w]) /\ \A e \in Range(buf[w]) : e.msg = cur[w]
    BY <1>3, WalkFacts, Zenon
  <2>7. ShippedInv'
    <3>1. fate' = fate /\ UNCHANGED <<kind, feed, shipped>>
      BY <1>4 DEF confVars
    <3> QED BY <1>2, <3>1, FateStays, ShippedStays, Zenon
  <2>8. UNCHANGED <<confVars, arrived, taken, ctrl, cur, points>> /\ fate' = fate
    BY <1>4, Zenon
  <2>9. Walk(IsGnmi(w), Clear(w)', "ship" = "ship", todo[w], tags[w], buf[w])
    BY <2>3, <2>4, <2>5, Zenon
  <2> QED BY <2>2, <2>5, <2>6, <2>7, <2>8, <2>9, KeepStep, ZenonT(30)
<1> QED BY <1>5, <1>6, SMTT(30)

(* A worker that posts, and what its loops are afterwards. *)
LEMMA PostFacts ==
  ASSUME WorkInv, NEW w \in Worker, at[w] = "ship", kind = "prometheus",
         NEW x \in Head(todo[w]), Done(w, x, << >>), NEW later, NEW left, later => left = << >>
  PROVE  /\ Changed(todo, todo', w, After(x, todo[w]))
         /\ Clear(w) => Tagged(IsGnmi(w), buf[w], tags[w], x.n)
         /\ Walk(IsGnmi(w), later, FALSE, After(x, todo[w]), tags[w], left)
<1>1. at[w] \in Busy
  BY DEF Busy
<1>2. WorkTypes /\ WalkOf(w) /\ IsGnmi(w) \in BOOLEAN
  BY <1>1, BusyFacts, Zenon
<1>3. Walk(IsGnmi(w), Clear(w), TRUE, todo[w], tags[w], buf[w])
  <2>1. (at[w] = "ship") = TRUE
    OBVIOUS
  <2> QED BY <1>2, <2>1, Zenon DEF WalkOf
<1>4. todo[w] # << >> /\ x \in todo[w][1] /\ x.do = "flush"
  BY <1>2, <1>3, WalkPosting, ZenonT(30)
<1>5. Changed(todo, todo', w, After(x, todo[w]))
  BY <1>2, <1>3, <1>4, DoneAfter, Zenon DEF Walk
<1>6. Clear(w) => Tagged(IsGnmi(w), buf[w], tags[w], x.n)
  BY <1>2, <1>3, <1>4, FlushTags, Zenon
<1>7. Walk(IsGnmi(w), later, FALSE, After(x, todo[w]), tags[w], left)
  BY <1>2, <1>3, <1>4, WalkFlush, Zenon
<1> QED BY <1>5, <1>6, <1>7, Zenon

(* The gateway answers: what was in the buffer has the tags of its group,  *)
(* unless an earlier post of this message failed.                          *)
LEMMA PostAnsweredInv == ASSUME WorkInv, NEW w \in Worker, PostAnswered(w) PROVE WorkInv'
<1> DEFINE New(x) == {[msg |-> cur[w], of |-> e.msg, group |-> Range(Own(w, x.n)),
                       tags |-> Range(e.tags), ts |-> e.ts, key |-> e.key, val |-> e.val] :
                        e \in Range(buf[w])}
<1>1. PICK x \in Head(todo[w]) :
        /\ \/ shipped' = shipped \union New(x) /\ UNCHANGED fate
           \/ fate' = [fate EXCEPT ![cur[w]] = "lost"] /\ UNCHANGED shipped
        /\ Done(w, x, << >>)
  BY ZenonT(30) DEF PostAnswered
<1>2. /\ at[w] = "ship" /\ kind = "prometheus"
      /\ buf' = [buf EXCEPT ![w] = << >>] /\ at' = [at EXCEPT ![w] = "walk"]
      /\ UNCHANGED <<confVars, arrived, taken, ctrl, cur, tags, points>>
  BY DEF PostAnswered, Goto
<1>3. at[w] \in Busy /\ "walk" \in Busy /\ "walk" # "table" /\ ("walk" = "ship") = FALSE
  BY <1>2 DEF Busy
<1>4. WorkTypes /\ HeldBy(w) /\ ShippedInv /\ cur[w] \in 1 .. Len(feed) /\ IsGnmi(w) \in BOOLEAN
  BY <1>3, BusyFacts, Zenon
<1>5. /\ Changed(todo, todo', w, After(x, todo[w]))
      /\ Clear(w) => Tagged(IsGnmi(w), buf[w], tags[w], x.n)
      /\ Walk(IsGnmi(w), Clear(w)', FALSE, After(x, todo[w]), tags[w], << >>)
  BY <1>1, <1>2, PostFacts, Zenon
<1>6. /\ Changed(at, at', w, "walk") /\ Changed(buf, buf', w, << >>)
      /\ Changed(tags, tags', w, tags[w])
  BY <1>2, <1>4, Domains, ChangedAt, Zenon
<1>7. IsSeq(<< >>) /\ \A e \in Range(<< >>) : e.msg = cur[w]
  BY EmptyBuffer, Zenon
<1>8. kind' = kind /\ feed' = feed
  BY <1>2 DEF confVars
<1>9. ShippedInv'
  <2>1. CASE shipped' = shipped \union New(x) /\ fate' = fate
    <3>1. ASSUME NEW e \in New(x)
          PROVE  /\ e.of = e.msg /\ e.msg \in 1 .. Len(feed)
                 /\ \/ e.group = e.tags
                    \/ feed[e.msg].form = "gnmi" /\ e.group \subseteq e.tags
                    \/ fate[e.msg] = "lost"
      <4>1. PICK d \in Range(buf[w]) : /\ e.msg = cur[w] /\ e.of = d.msg
                                       /\ e.group = Range(SubSeq(tags[w], 1, x.n))
                                       /\ e.tags = Range(d.tags)
        BY DEF Own
      <4>2. d.msg = cur[w]
        BY <1>3, <1>4, <4>1, Zenon DEF HeldBy
      <4>3. CASE fate[cur[w]] = "lost"
        BY <1>4, <4>1, <4>2, <4>3, Zenon
      <4>4. CASE fate[cur[w]] # "lost"
        <5>1. Clear(w)
          BY <1>2, <4>4, Zenon DEF Clear
        <5>2. IF IsGnmi(w) THEN Range(SubSeq(tags[w], 1, x.n)) \subseteq Range(d.tags)
                           ELSE d.tags = SubSeq(tags[w], 1, x.n)
          BY <1>5, <4>1, <5>1, Zenon DEF Tagged
        <5> QED BY <1>4, <4>1, <4>2, <5>2, Zenon DEF IsGnmi
      <4> QED BY <4>3, <4>4, ZenonT(30)
    <3> HIDE DEF New
    <3>2. kind # "influx"
      BY <1>2
    <3> QED BY <1>4, <1>8, <2>1, <3>1, <3>2, ZenonT(30) DEF ShippedInv, GroupsApart
  <2>2. CASE fate' = [fate EXCEPT ![cur[w]] = "lost"] /\ shipped' = shipped
    <3>1. LostStays
      BY <1>4, <2>2, FateSet, Zenon
    <3> QED BY <1>4, <1>8, <2>2, <3>1, ShippedStays, Zenon
  <2> QED BY <1>1, <2>1, <2>2, ZenonT(30)
<1>10. UNCHANGED <<confVars, arrived, taken, ctrl, cur, points>>
       /\ (fate' = fate \/ fate' = [fate EXCEPT ![cur[w]] = "lost"])
  BY <1>1, <1>2, Zenon
<1> QED BY <1>3, <1>5, <1>6, <1>7, <1>9, <1>10, KeepStep, ZenonT(30)

(* What a failed post leaves of the buffer. *)
LEMMA RestFacts ==
  ASSUME NEW b, IsSeq(b), NEW n \in 0 .. Len(b)
  PROVE  IsSeq(SubSeq(b, n + 1, Len(b))) /\ Range(SubSeq(b, n + 1, Len(b))) \subseteq Range(b)
<1> DEFINE r == SubSeq(b, n + 1, Len(b))
<1>1. Len(b) \in Nat /\ DOMAIN b = 1 .. Len(b) /\ b \in Seq(Range(b))
  BY SeqFacts DEF IsSeq
<1>2. r \in Seq(Range(b))
  <2>1. n + 1 \in Int /\ Len(b) \in Int /\ \A i \in n + 1 .. Len(b) : i \in 1 .. Len(b)
    BY <1>1
  <2>2. \A i \in n + 1 .. Len(b) : b[i] \in Range(b)
    BY <1>1, <2>1, Zenon DEF Range
  <2> QED BY <2>1, <2>2, Part, Zenon
<1> HIDE DEF r
<1>3. IsSeq(r)
  BY <1>2, SeqIsSeq, Zenon
<1>4. \A i \in DOMAIN r : r[i] \in Range(b)
  BY <1>2
<1>5. Range(r) \subseteq Range(b)
  BY <1>4, Zenon DEF Range
<1> QED BY <1>3, <1>5 DEF r

(* A post fails: what stays in the buffer is of this message, which is     *)
(* lost.                                                                   *)
LEMMA PostFailsInv == ASSUME WorkInv, NEW w \in Worker, PostFails(w) PROVE WorkInv'
<1>1. /\ at[w] = "ship" /\ kind = "prometheus" /\ fate' = [fate EXCEPT ![cur[w]] = "lost"]
      /\ at' = [at EXCEPT ![w] = "walk"]
      /\ UNCHANGED <<confVars, arrived, taken, ctrl, cur, tags, points, shipped>>
  BY DEF PostFails, Goto
<1>2. PICK n \in 0 .. Len(buf[w]) : buf' = [buf EXCEPT ![w] = SubSeq(buf[w], n + 1, Len(buf[w]))]
  BY Zenon DEF PostFails
<1>3. PICK x \in Head(todo[w]) : Done(w, x, << >>)
  BY DEF PostFails
<1> DEFINE left == SubSeq(buf[w], n + 1, Len(buf[w]))
<1>4. at[w] \in Busy /\ "walk" \in Busy /\ "walk" # "table" /\ ("walk" = "ship") = FALSE
  BY <1>1 DEF Busy
<1>5. WorkTypes /\ HeldBy(w) /\ ShippedInv /\ cur[w] \in 1 .. Len(feed)
  BY <1>4, BusyFacts, Zenon
<1>6. IsSeq(left) /\ \A e \in Range(left) : e.msg = cur[w]
  <2>1. IsSeq(buf[w]) /\ \A e \in Range(buf[w]) : e.msg = cur[w]
    BY <1>4, <1>5, Zenon DEF HeldBy
  <2>2. IsSeq(left) /\ Range(left) \subseteq Range(buf[w])
    BY <2>1, RestFacts
  <2> HIDE DEF left
  <2> QED BY <2>1, <2>2
<1>7. LostStays /\ fate'[cur[w]] = "lost"
  BY <1>1, <1>5, FateSet, Zenon
<1>8. ~Clear(w)'
  BY <1>1, <1>7, Zenon DEF Clear
<1> HIDE DEF left
<1>9. /\ Changed(todo, todo', w, After(x, todo[w]))
      /\ Walk(IsGnmi(w), Clear(w)', FALSE, After(x, todo[w]), tags[w], left)
  BY <1>1, <1>3, <1>8, PostFacts, Zenon
<1>10. /\ Changed(at, at', w, "walk") /\ Changed(buf, buf', w, left)
       /\ Changed(tags, tags', w, tags[w])
  BY <1>1, <1>2, <1>5, Domains, ChangedAt, Zenon DEF left
<1>11. ShippedInv'
  <2>1. UNCHANGED <<kind, feed, shipped>>
    BY <1>1 DEF confVars
  <2> QED BY <1>5, <1>7, <2>1, ShippedStays, Zenon
<1>12. UNCHANGED <<confVars, arrived, taken, ctrl, cur, points>>
  BY <1>1, Zenon
<1> QED BY <1>1, <1>4, <1>6, <1>9, <1>10, <1>11, <1>12, KeepStep, ZenonT(30)

(* produceMetrics returns: an Influx worker goes on to write its points,   *)
(* else the message is settled.                                            *)
LEMMA ProducedInv == ASSUME WorkInv, NEW w \in Worker, Produced(w) PROVE WorkInv'
<1>1. /\ at[w] = "walk" /\ tags' = [tags EXCEPT ![w] = << >>]
      /\ UNCHANGED <<confVars, arrived, taken, ctrl, todo, buf, points, shipped>>
  BY DEF Produced
<1>2. at[w] \in Busy /\ at[w] # "gone" /\ "ship" \in Busy /\ "ship" # "table"
  BY <1>1 DEF Busy
<1>3. /\ WorkTypes /\ HeldBy(w) /\ ShippedInv /\ cur[w] \in 1 .. Len(feed)
      /\ taken \in Nat /\ taken <= Len(feed) /\ Len(feed) \in Nat
  BY <1>2, BusyFacts, Zenon
<1>4. /\ Changed(tags, tags', w, << >>) /\ Changed(todo, todo', w, todo[w])
      /\ Changed(buf, buf', w, buf[w]) /\ Changed(points, points', w, points[w])
  BY <1>1, <1>3, Domains, ChangedAt, Zenon
<1>5. UNCHANGED <<kind, feed, shipped>>
  BY <1>1 DEF confVars
<1>6. CASE points[w] # << >>
  <2>1. at' = [at EXCEPT ![w] = "ship"] /\ UNCHANGED <<cur, fate>>
    BY <1>6 DEF Produced, Goto
  <2>2. kind # "prometheus" /\ IsSeq(buf[w]) /\ \A e \in Range(buf[w]) : e.msg = cur[w]
    BY <1>2, <1>3, <1>6, Zenon DEF HeldBy
  <2>3. Changed(at, at', w, "ship")
    BY <1>3, <2>1, Domains, ChangedAt, Zenon
  <2>4. ShippedInv'
    BY <1>3, <1>5, <2>1, FateStays, ShippedStays, Zenon
  <2>5. "ship" \notin {"table", "walk"}
    OBVIOUS
  <2>6. UNCHANGED <<confVars, arrived, taken, ctrl, cur, points>>
    BY <1>1, <2>1, Zenon
  <2> QED BY <1>2, <1>4, <2>1, <2>2, <2>3, <2>4, <2>5, <2>6, KeepStep, ZenonT(30)
<1>7. CASE points[w] = << >>
  <2> DEFINE r == IF fate[cur[w]] = "open" THEN "ok" ELSE fate[cur[w]]
  <2>1. /\ at' = [at EXCEPT ![w] = "recv"] /\ cur' = [cur EXCEPT ![w] = 0]
        /\ fate' = [fate EXCEPT ![cur[w]] = r]
    BY <1>7 DEF Produced, Goto
  <2>2. r \in {"ok", "lost"} /\ (fate[cur[w]] = "lost" => r = "lost")
    BY <1>3 DEF WorkTypes
  <2> HIDE DEF r
  <2>3. /\ fate' \in [1 .. Len(feed) -> {"open", "ok", "lost"}] /\ LostStays
        /\ fate'[cur[w]] = r /\ \A j \in 1 .. Len(feed) : j # cur[w] => fate'[j] = fate[j]
    BY <1>3, <2>1, <2>2, FateSet, Zenon
  <2>4. ASSUME NEW i \in 1 .. taken, fate'[i] = "open"
        PROVE  fate[i] = "open" /\ ~(at[w] \in Busy /\ cur[w] = i)
    <3>1. i \in 1 .. Len(feed)
      BY <1>3
    <3>2. i # cur[w]
      BY <2>2, <2>3, <2>4
    <3> QED BY <2>3, <2>4, <3>1, <3>2, Zenon
  <2>5. Changed(at, at', w, "recv") /\ Changed(cur, cur', w, 0)
    BY <1>3, <2>1, Domains, ChangedAt, Zenon
  <2>6. ShippedInv'
    BY <1>3, <1>5, <2>3, ShippedStays, Zenon
  <2>7. UNCHANGED <<confVars, arrived, taken, ctrl>> /\ "recv" \in {"recv", "redial", "gone"}
    BY <1>1, Zenon
  <2> QED BY <1>2, <1>4, <2>3, <2>4, <2>5, <2>6, <2>7, FreeStep, ZenonT(30)
<1> QED BY <1>6, <1>7, SMTT(30)

(* The batch is written, or lost, and its message is settled. *)
LEMMA WriteInv == ASSUME WorkInv, NEW w \in Worker, Write(w) PROVE WorkInv'
<1> DEFINE Made(p) == {[msg |-> cur[w], of |-> e.msg, group |-> p.tags, tags |-> p.tags,
                        ts |-> p.ts, key |-> e.key, val |-> e.val] : e \in p.fields}
           New == UNION {Made(p) : p \in Range(points[w])}
<1>1. /\ at[w] = "ship" /\ kind = "influx"
      /\ cur' = [cur EXCEPT ![w] = 0] /\ points' = [points EXCEPT ![w] = << >>]
      /\ UNCHANGED <<confVars, arrived, taken, ctrl, todo, tags, buf>>
  BY SMTT(30) DEF Write
<1>2. PICK r \in {"ok", "lost"} :
        /\ fate' = [fate EXCEPT ![cur[w]] = r]
        /\ shipped' = shipped \union New \/ shipped' = shipped
        /\ at' = [at EXCEPT ![w] = IF r = "ok" THEN "recv" ELSE "redial"]
  <2>1. CASE /\ shipped' = shipped \union New /\ fate' = [fate EXCEPT ![cur[w]] = "ok"]
             /\ at' = [at EXCEPT ![w] = "recv"]
    BY <2>1
  <2>2. CASE /\ shipped' = shipped /\ fate' = [fate EXCEPT ![cur[w]] = "lost"]
             /\ at' = [at EXCEPT ![w] = "redial"]
    BY <2>2
  <2> QED BY <2>1, <2>2, SMTT(30) DEF Write, Goto
<1> DEFINE a == IF r = "ok" THEN "recv" ELSE "redial"
<1>3. at[w] \in Busy /\ at[w] # "gone" /\ a \in {"recv", "redial", "gone"} /\ kind # "prometheus"
  BY <1>1 DEF Busy
<1>4. /\ WorkTypes /\ HeldBy(w) /\ ShippedInv /\ cur[w] \in 1 .. Len(feed)
      /\ taken \in Nat /\ taken <= Len(feed) /\ Len(feed) \in Nat
  BY <1>3, BusyFacts, Zenon
<1> HIDE DEF a
<1>5. /\ Changed(at, at', w, a) /\ Changed(cur, cur', w, 0)
      /\ Changed(points, points', w, << >>) /\ Changed(todo, todo', w, todo[w])
      /\ Changed(tags, tags', w, tags[w]) /\ Changed(buf, buf', w, buf[w])
  BY <1>1, <1>2, <1>4, Domains, ChangedAt, Zenon DEF a
<1>6. /\ fate' \in [1 .. Len(feed) -> {"open", "ok", "lost"}] /\ LostStays
      /\ fate'[cur[w]] = r /\ \A j \in 1 .. Len(feed) : j # cur[w] => fate'[j] = fate[j]
  BY <1>2, <1>3, <1>4, FateSet, Zenon
<1>7. ASSUME NEW i \in 1 .. taken, fate'[i] = "open"
      PROVE  fate[i] = "open" /\ ~(at[w] \in Busy /\ cur[w] = i)
  <2>1. i \in 1 .. Len(feed)
    BY <1>4
  <2>2. i # cur[w]
    BY <1>2, <1>6, <1>7
  <2> QED BY <1>6, <1>7, <2>1, <2>2, Zenon
<1>8. kind' = kind /\ feed' = feed
  BY <1>1 DEF confVars
<1>9. ShippedInv'
  <2>1. ASSUME NEW e \in New
        PROVE  e.of = e.msg /\ e.msg \in 1 .. Len(feed) /\ e.group = e.tags
    <3> HIDE DEF Made
    <3>1. PICK p \in Range(points[w]) : e \in Made(p)
      BY ZenonT(30)
    <3>2. PICK d \in p.fields : e.msg = cur[w] /\ e.of = d.msg /\ e.group = e.tags
      BY <3>1 DEF Made
    <3>3. d.msg = cur[w]
      BY <1>3, <1>4, Zenon DEF HeldBy
    <3> QED BY <1>4, <3>2, <3>3, Zenon
  <2> HIDE DEF New
  <2>2. \A e \in shipped : e.of = e.msg /\ e.msg \in 1 .. Len(feed) /\ e.group = e.tags
    BY <1>1, <1>4, Zenon DEF ShippedInv, GroupsApart
  <2>3. \A e \in shipped' : e.of = e.msg /\ e.msg \in 1 .. Len(feed) /\ e.group = e.tags
    BY <1>2, <2>1, <2>2
  <2> QED BY <1>8, <2>3, Zenon DEF ShippedInv, GroupsApart
<1>10. UNCHANGED <<confVars, arrived, taken, ctrl>>
  BY <1>1, Zenon
<1> QED BY <1>3, <1>5, <1>6, <1>7, <1>9, <1>10, FreeStep, ZenonT(30)

(* Redial and Leave: a worker without a message. *)
LEMMA IdleInv ==
  ASSUME WorkInv, NEW w \in Worker, at[w] \in {"recv", "redial"},
         NEW a \in {"recv", "gone"}, at' = [at EXCEPT ![w] = a],
         UNCHANGED <<confVars, arrived, taken, ctrl, cur, todo, tags, buf, points, shipped, fate>>
  PROVE  WorkInv'
<1>1. at[w] # "gone" /\ at[w] \notin Busy /\ a \in {"recv", "redial", "gone"}
  BY DEF Busy
<1>2. WorkTypes /\ ShippedInv
  BY Zenon DEF WorkInv
<1>3. /\ Changed(at, at', w, a) /\ Changed(cur, cur', w, cur[w])
      /\ Changed(todo, todo', w, todo[w]) /\ Changed(tags, tags', w, tags[w])
      /\ Changed(buf, buf', w, buf[w]) /\ Changed(points, points', w, points[w])
  BY <1>2, Domains, ChangedAt, Zenon
<1>4. fate' \in [1 .. Len(feed) -> {"open", "ok", "lost"}] /\ LostStays /\ fate' = fate
  BY <1>2, FateStays, Zenon
<1>5. UNCHANGED <<kind, feed, shipped>>
  BY DEF confVars
<1>6. ShippedInv'
  BY <1>2, <1>4, <1>5, ShippedStays, Zenon
<1> QED BY <1>1, <1>3, <1>4, <1>6, FreeStep, Zenon

(* The steps of the control loop and of the module's channel, and a panic. *)
LEMMA LoopInv ==
  ASSUME WorkInv, Arrive \/ Shutdown \/ Ack \/ Crash
  PROVE  WorkInv'
<1>1. UNCHANGED <<kind, feed, taken, at, cur, todo, tags, buf, points, shipped, fate>>
  BY DEF Arrive, Shutdown, Ack, Crash, confVars
<1>2. WorkTypes /\ ShippedInv /\ SettleInv /\ \A v \in Worker : WalkOf(v) /\ HeldBy(v)
  BY Zenon DEF WorkInv
<1>3. WorkTypes'
  <2>1. arrived' = arrived \/ (arrived < Len(feed) /\ arrived' = arrived + 1)
    BY DEF Arrive, Shutdown, Ack, Crash
  <2>2. Len(feed) \in Nat
    BY <1>2, FeedFacts, Zenon
  <2>3. arrived \in Nat /\ taken \in Nat /\ taken <= arrived /\ arrived <= Len(feed)
    BY <1>2, Zenon DEF WorkTypes
  <2>4. arrived' \in Nat /\ taken <= arrived' /\ arrived' <= Len(feed)
    BY <2>1, <2>2, <2>3
  <2> QED BY <1>1, <1>2, <2>4, Zenon DEF WorkTypes
<1>4. ShippedInv'
  BY <1>1, <1>2, Zenon DEF ShippedInv, GroupsApart
<1>5. SettleInv'
  <2>1. ASSUME NEW v \in Worker, v \notin Workers \/ ctrl' = "acked" PROVE at[v] = "gone"
    <3>1. CASE v \notin Workers \/ ctrl = "acked"
      BY <1>2, <3>1, Zenon DEF SettleInv
    <3>2. CASE v \in Workers /\ ctrl' = "acked" /\ ctrl # "acked"
      BY <3>2 DEF Arrive, Shutdown, Ack, Crash
    <3> QED BY <2>1, <3>1, <3>2, Zenon
  <2> QED BY <1>1, <1>2, <2>1, Zenon DEF SettleInv, Workers
<1>6. \A v \in Worker : WalkOf(v)' /\ HeldBy(v)'
  BY <1>1, <1>2, ZenonT(30) DEF WalkOf, HeldBy, IsGnmi, Clear
<1> QED BY <1>3, <1>4, <1>5, <1>6, Zenon DEF WorkInv

(* The inductive invariant holds at first, *)
LEMMA InitInv == ASSUME WorkersInit PROVE WorkInv
<1>1. /\ kind \in Kinds /\ arrived = 0 /\ taken = 0 /\ ctrl = "run" /\ shipped = {}
      /\ at = [w \in Worker |-> IF w \in Workers THEN "recv" ELSE "gone"]
      /\ fate = [i \in DOMAIN feed |-> "open"] /\ \E s \in Setups : feed = s.feed
      /\ DOMAIN cur = Worker /\ DOMAIN todo = Worker /\ DOMAIN tags = Worker
      /\ DOMAIN buf = Worker /\ DOMAIN points = Worker
  BY DEF WorkersInit
<1>2. PICK s \in Setups : feed = s.feed
  BY <1>1
<1>3. feed \in Seq(Range(feed))
  BY <1>2, SetupsAssumption, Zenon
<1>4. Len(feed) \in Nat /\ DOMAIN feed = 1 .. Len(feed)
  BY <1>3
<1>5. WorkTypes
  <2>1. arrived \in Nat /\ taken \in Nat /\ taken <= arrived /\ arrived <= Len(feed)
    BY <1>1, <1>4
  <2>2. fate \in [1 .. Len(feed) -> {"open", "ok", "lost"}]
    BY <1>1, <1>4
  <2>3. \A f \in {at, cur, todo, tags, buf, points} : DOMAIN f = Worker
    BY <1>1
  <2> QED BY <1>1, <2>1, <2>2, <2>3, Zenon DEF WorkTypes
<1>6. ShippedInv
  BY <1>1 DEF ShippedInv, GroupsApart
<1>7. \A w \in Worker : at[w] \in {"recv", "gone"} /\ (w \notin Workers => at[w] = "gone")
  BY <1>1
<1>8. SettleInv
  <2>1. \A i \in 1 .. taken : FALSE
    BY <1>1
  <2>2. ctrl # "acked"
    BY <1>1, SMTT(30)
  <2> QED BY <1>7, <2>1, <2>2, Zenon DEF SettleInv
<1>9. \A w \in Worker : WalkOf(w) /\ HeldBy(w)
  BY <1>7 DEF WalkOf, HeldBy, Busy
<1> QED BY <1>5, <1>6, <1>8, <1>9, Zenon DEF WorkInv

(* and every step of the workers and of the control loop preserves it. *)
LEMMA NextInv == ASSUME WorkInv, [WorkersNext]_workVars PROVE WorkInv'
<1>1. CASE UNCHANGED workVars
  BY <1>1, StayInv, Zenon
<1>2. CASE Arrive \/ Shutdown \/ Ack \/ Crash
  BY <1>2, LoopInv, Zenon
<1>3. ASSUME NEW w \in Worker, Alone(w) PROVE WorkInv'
  <2>1. CASE Recv(w)
    BY <2>1, RecvInv, Zenon
  <2>2. CASE Row(w) \/ KVNode(w) \/ GPBList(w)
    BY <2>2, RowInv, KVNodeInv, GPBListInv, Zenon
  <2>3. CASE Build(w) \/ Update(w)
    BY <2>3, BuildInv, UpdateInv, Zenon
  <2>4. CASE FlushPoint(w) \/ FlushPost(w)
    BY <2>4, FlushPointInv, FlushPostInv, Zenon
  <2>5. CASE Produced(w)
    BY <2>5, ProducedInv, Zenon
  <2>6. CASE Redial(w)
    BY <2>6, IdleInv, Zenon DEF Redial, Goto
  <2>7. CASE Leave(w)
    BY <2>7, IdleInv, Zenon DEF Leave, Goto
  <2>8. CASE UpdatePanics(w)
    BY <2>8, LoopInv, Zenon DEF UpdatePanics
  <2> QED BY <1>3, <2>1, <2>2, <2>3, <2>4, <2>5, <2>6, <2>7, <2>8, Zenon DEF Alone
<1>4. ASSUME NEW w \in Worker, Ship(w) PROVE WorkInv'
  BY <1>4, PostAnsweredInv, PostFailsInv, WriteInv, Zenon DEF Ship
<1>5. ASSUME NEW w \in Worker, TableReady(w) \/ TableNil(w) PROVE WorkInv'
  BY <1>5, TableInv, Zenon
<1>6. ASSUME NEW w \in Worker, NEW names, GPBNode(w, names) PROVE WorkInv'
  BY <1>6, GPBNodeInv, Zenon
<1>7. ASSUME NEW w \in Worker, NEW x \in Coming(w, "track"), TrackOver(w, x) PROVE WorkInv'
  BY <1>7, TrackInv, Zenon
<1> QED BY <1>1, <1>2, <1>3, <1>4, <1>5, <1>6, <1>7, Zenon DEF WorkersNext

(* It holds throughout. *)
THEOREM WorkersInvariant == WorkersSpec => []WorkInv
<1>1. WorkersInit => WorkInv
  BY InitInv
<1>2. WorkInv /\ [WorkersNext]_workVars => WorkInv'
  BY NextInv
<1> QED BY <1>1, <1>2, PTL DEF WorkersSpec

(* A metric is posted to the group of its own tags (for gNMI, of the       *)
(* prefix), and never with another message, unless an earlier post of its  *)
(* message failed: for any messages and specifications, any number of      *)
(* workers, any failures, and whatever the caches and the table of         *)
(* statistics hold.                                                        *)
THEOREM WorkersGroups == WorkersSpec => []GroupsApart
<1>1. WorkInv => GroupsApart
  BY Zenon DEF WorkInv, ShippedInv
<1> QED BY <1>1, WorkersInvariant, PTL

(* When SHUTDOWN is acknowledged, every message that a worker took has     *)
(* been shipped or has failed.                                             *)
THEOREM WorkersSettled == WorkersSpec => []AckMeansSettled
<1>1. WorkInv => AckMeansSettled
  <2> SUFFICES ASSUME WorkInv, ctrl = "acked", NEW i \in 1 .. taken, fate[i] = "open"
               PROVE  FALSE
    BY Zenon DEF AckMeansSettled
  <2>1. SettleInv
    BY Zenon DEF WorkInv
  <2>2. PICK w \in Worker : at[w] \in Busy /\ cur[w] = i
    BY <2>1, Zenon DEF SettleInv
  <2>3. at[w] = "gone"
    BY <2>1, Zenon DEF SettleInv
  <2> QED BY <2>2, <2>3 DEF Busy
<1> QED BY <1>1, WorkersInvariant, PTL
==========================================================================
