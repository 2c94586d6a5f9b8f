------------------------- MODULE ConversationProofs -------------------------
(***************************************************************************)
(* The lists of a conversation: the messages the context manager keeps for *)
(* the model, whose token count is the sum over them whatever is added,    *)
(* marked and trimmed; the messages the screen shows, for any number of    *)
(* questions asked and answered at once, and of messages each run sends;   *)
(* and the providers of the configuration panel, in the panel, in the      *)
(* memory and in the file.                                                 *)
(*                                                                         *)
(* The sum needs induction over sequences.  The induction theorems of the  *)
(* library take an operator as a parameter; here a set stands in its place *)
(* and the least number outside it is the counterexample.                  *)
(***************************************************************************)
EXTENDS ContextWindow, Terminal, ConfigPanel, SequenceTheorems, WellFoundedInduction, TLAPS

(* ---- Numbers and sequences.                                              *)

(* Every set of numbers has a least one.                                      *)
LEMMA LeastNumber ==
  ASSUME NEW T \in SUBSET Nat, T # {}
  PROVE  \E n \in T : \A m \in T : n <= m
<1> DEFINE R == OpToRel(<, Nat)
<1>1. IsWellFoundedOn(R, Nat)
  BY NatLessThanWellFounded
<1>2. PICK n \in T : \A m \in T : <<m, n>> \notin R
  BY <1>1, WFMin
<1>3. ASSUME NEW m \in T PROVE n <= m
  <2>1. <<m, n>> \notin R
    BY <1>2
  <2>2. ~(m < n)
    BY <2>1 DEF OpToRel
  <2> QED BY <2>2
<1> QED BY <1>2, <1>3

(* What holds up to 0, and from each number up to the next, holds up to n.    *)
LEMMA UpTo ==
  ASSUME NEW n \in Nat, NEW Good, 0 \in Good, \A m \in 1..n : m - 1 \in Good => m \in Good
  PROVE  0..n \subseteq Good
<1> SUFFICES ASSUME ~(0..n \subseteq Good) PROVE FALSE
  OBVIOUS
<1> DEFINE T == (0..n) \ Good
<1>1. PICK m \in T : \A k \in T : m <= k
  <2>1. T \in SUBSET Nat /\ T # {}
    OBVIOUS
  <2> HIDE DEF T
  <2> QED BY <2>1, LeastNumber
<1>2. m \in 1..n /\ m - 1 \in 0..n /\ ~(m <= m - 1)
  BY <1>1
<1> QED BY <1>1, <1>2

(* A sequence that is not empty is its front and its last element.            *)
LEMMA SplitLast ==
  ASSUME NEW M, NEW s \in Seq(M), s # <<>>
  PROVE  /\ SubSeq(s, 1, Len(s) - 1) \in Seq(M) /\ s[Len(s)] \in M /\ Len(s) \in Nat \ {0}
         /\ Len(SubSeq(s, 1, Len(s) - 1)) = Len(s) - 1
         /\ s = Append(SubSeq(s, 1, Len(s) - 1), s[Len(s)])
<1> DEFINE front == SubSeq(s, 1, Len(s) - 1)
           last  == s[Len(s)]
<1>1. Len(s) \in Nat /\ Len(s) >= 1 /\ last \in M
  <2>1. Len(s) \in Nat \ {0}
    BY EmptySeq
  <2>2. Len(s) \in 1..Len(s)
    BY <2>1
  <2> QED BY <2>1, <2>2, ElementOfSeq
<1>2. front \in Seq(M) /\ Len(front) = Len(s) - 1 /\ \A i \in 1..Len(s) - 1 : front[i] = s[i]
  <2>1. \A i \in 1..Len(s) - 1 : s[i] \in M
    BY <1>1, ElementOfSeq
  <2>2. /\ front \in Seq(M) /\ Len(front) = IF 1 <= Len(s) - 1 THEN Len(s) - 1 - 1 + 1 ELSE 0
        /\ \A i \in 1..(Len(s) - 1) - 1 + 1 : front[i] = s[1 + i - 1]
    BY <1>1, <2>1, SubSeqProperties
  <2> HIDE DEF front
  <2>3. Len(front) = Len(s) - 1
    <3> DEFINE n == Len(s)
    <3>1. n \in Nat /\ n >= 1 /\ Len(front) = IF 1 <= n - 1 THEN n - 1 - 1 + 1 ELSE 0
      BY <1>1, <2>2
    <3> HIDE DEF n
    <3>2. Len(front) = n - 1
      BY <3>1
    <3> QED BY <3>2 DEF n
  <2>4. ASSUME NEW i \in 1..Len(s) - 1 PROVE front[i] = s[i]
    <3>1. i \in 1..(Len(s) - 1) - 1 + 1 /\ 1 + i - 1 = i
      BY <1>1
    <3> QED BY <2>2, <3>1
  <2> QED BY <2>2, <2>3, <2>4
<1>3. s = Append(front, last)
  <2> HIDE DEF front
  <2>1. Append(front, last) \in Seq(M) /\ Len(Append(front, last)) = Len(s)
    BY <1>1, <1>2
  <2>2. ASSUME NEW i \in 1..Len(s) PROVE Append(front, last)[i] = s[i]
    BY <1>1, <1>2
  <2> QED BY <2>1, <2>2, SeqEqual
<1> QED BY <1>1, <1>2, <1>3

(* What holds of the empty sequence and is kept by Append holds of every      *)
(* sequence.                                                                  *)
LEMMA EverySequence ==
  ASSUME NEW M, NEW Good, <<>> \in Good,
         \A s \in Seq(M), e \in M : s \in Good => Append(s, e) \in Good
  PROVE  Seq(M) \subseteq Good
<1> SUFFICES ASSUME ~(Seq(M) \subseteq Good) PROVE FALSE
  OBVIOUS
<1> DEFINE T == {Len(s) : s \in Seq(M) \ Good}
<1>1. T \in SUBSET Nat /\ T # {}
  BY LenProperties
<1>2. PICK n \in T : \A m \in T : n <= m
  BY <1>1, LeastNumber
<1>3. PICK s \in Seq(M) \ Good : Len(s) = n
  BY <1>2
<1>4. s # <<>>
  BY <1>3
<1> DEFINE front == SubSeq(s, 1, Len(s) - 1)
<1>5. front \in Seq(M) /\ s[Len(s)] \in M /\ s = Append(front, s[Len(s)]) /\ Len(front) = n - 1 /\ n \in Nat
  BY <1>3, <1>4, SplitLast
<1>6. front \in Good
  <2>1. n - 1 \notin T
    <3> HIDE DEF T, front
    <3>1. n \in Nat
      BY <1>5
    <3> QED BY <1>2, <3>1
  <2> QED BY <1>5, <2>1
<1> QED BY <1>3, <1>5, <1>6

(* A function given by its first value and by each value's successor.         *)
Recursions(N, V, base, next) ==
  {g \in [0..N -> V] : g[0] = base /\ \A n \in 1..N : g[n] = next[n][g[n - 1]]}

(* There is such a function, whatever the successors are.                     *)
LEMMA RecursionExists ==
  ASSUME NEW N \in Nat, NEW V, NEW base \in V, NEW next \in [1..N -> [V -> V]]
  PROVE  Recursions(N, V, base, next) # {}
<1> DEFINE Upto(n) == {g \in [0..n -> V] : g[0] = base /\ \A m \in 1..n : g[m] = next[m][g[m - 1]]}
           Good == {n \in 0..N : Upto(n) # {}}
<1>1. 0 \in Good
  <2>1. [m \in 0..0 |-> base] \in Upto(0)
    OBVIOUS
  <2> QED BY <2>1
<1>2. ASSUME NEW n \in 1..N, n - 1 \in Good PROVE n \in Good
  <2>1. PICK g : g \in Upto(n - 1)
    BY <1>2
  <2> DEFINE h == [m \in 0..n |-> IF m = n THEN next[n][g[n - 1]] ELSE g[m]]
  <2>2. next[n][g[n - 1]] \in V
    BY <2>1
  <2>3. h \in [0..n -> V] /\ h[0] = base
    BY <2>1, <2>2
  <2>4. ASSUME NEW m \in 1..n PROVE h[m] = next[m][h[m - 1]]
    <3>1. h[m - 1] = g[m - 1]
      OBVIOUS
    <3>2. CASE m = n
      BY <3>1, <3>2
    <3>3. CASE m # n
      <4>1. m \in 1..n - 1 /\ h[m] = g[m]
        BY <3>3
      <4> QED BY <2>1, <3>1, <4>1
    <3> QED BY <3>2, <3>3
  <2>5. h \in Upto(n)
    BY <2>3, <2>4
  <2> QED BY <2>5
<1>3. N \in Good
  <2> HIDE DEF Good
  <2>1. 0..N \subseteq Good
    BY <1>1, <1>2, UpTo
  <2> QED BY <2>1
<1> QED BY <1>3 DEF Recursions

LEMMA AppendToConcat ==
  ASSUME NEW M, NEW s \in Seq(M), NEW t \in Seq(M), NEW e \in M
  PROVE  s \o Append(t, e) = Append(s \o t, e)
OBVIOUS


-----------------------------------------------------------------------------
(* ---- The context window.                                                 *)

(* The sums over the prefixes of a list of messages; Total is the last.       *)
IsSum(g, s) ==
  g \in [0..Len(s) -> Nat] /\ g[0] = 0 /\ \A n \in 1..Len(s) : g[n] = g[n - 1] + s[n].tokens

LEMMA TotalIsSum ==
  ASSUME NEW s \in Seq(Message)
  PROVE  \E g : IsSum(g, s) /\ Total(s) = g[Len(s)]
<1>1. Len(s) \in Nat /\ \A n \in 1..Len(s) : s[n].tokens \in Nat
  <2>1. \A n \in 1..Len(s) : s[n] \in Message
    BY ElementOfSeq
  <2> QED BY <2>1, LenProperties, SizesAssumption DEF Message
<1> DEFINE next == [n \in 1..Len(s) |-> [v \in Nat |-> v + s[n].tokens]]
<1>2. next \in [1..Len(s) -> [Nat -> Nat]]
  BY <1>1
<1>3. PICK g : g \in Recursions(Len(s), Nat, 0, next)
  <2> HIDE DEF next
  <2>1. Len(s) \in Nat /\ 0 \in Nat
    BY <1>1
  <2> QED BY <1>2, <2>1, RecursionExists
<1>4. ASSUME NEW n \in 1..Len(s) PROVE g[n] = g[n - 1] + s[n].tokens
  <2>1. g[n - 1] \in Nat /\ g[n] = next[n][g[n - 1]]
    <3> HIDE DEF next
    <3> QED BY <1>1, <1>3 DEF Recursions
  <2>2. next[n][g[n - 1]] = g[n - 1] + s[n].tokens
    BY <2>1
  <2> QED BY <2>1, <2>2
<1> DEFINE Eq(f) == f = [n \in 0..Len(s) |-> IF n = 0 THEN 0 ELSE f[n - 1] + s[n].tokens]
<1>5. Eq(g)
  BY <1>1, <1>3, <1>4 DEF Recursions
<1> DEFINE sum == CHOOSE f : Eq(f)
<1>6. Eq(sum)
  BY <1>5
<1>7. Total(s) = sum[Len(s)]
  BY DEF Total
<1> HIDE DEF sum
<1>8. DOMAIN sum = 0..Len(s) /\ sum[0] = 0 /\ \A n \in 1..Len(s) : sum[n] = sum[n - 1] + s[n].tokens
  BY <1>1, <1>6
<1>9. ASSUME NEW n \in 0..Len(s) PROVE sum[n] = g[n]
  <2> DEFINE Good == {m \in 0..Len(s) : sum[m] = g[m]}
  <2>1. 0 \in Good
    BY <1>1, <1>3, <1>8 DEF Recursions
  <2>2. ASSUME NEW m \in 1..Len(s), m - 1 \in Good PROVE m \in Good
    BY <1>1, <1>4, <1>8, <2>2
  <2>3. 0..Len(s) \subseteq Good
    <3> HIDE DEF Good
    <3> QED BY <1>1, <2>1, <2>2, UpTo
  <2> QED BY <2>3
<1> QED BY <1>1, <1>3, <1>4, <1>7, <1>9 DEF IsSum, Recursions

LEMMA TotalOfNone == Total(<<>>) = 0
<1>1. <<>> \in Seq(Message) /\ Len(<<>>) = 0
  BY EmptySeq
<1>2. PICK g : IsSum(g, <<>>) /\ Total(<<>>) = g[Len(<<>>)]
  BY <1>1, TotalIsSum
<1> QED BY <1>1, <1>2 DEF IsSum

LEMMA TotalIsNat ==
  ASSUME NEW s \in Seq(Message)
  PROVE  Total(s) \in Nat
<1>1. PICK g : IsSum(g, s) /\ Total(s) = g[Len(s)]
  BY TotalIsSum
<1> QED BY <1>1, LenProperties DEF IsSum

LEMMA TotalOfAppend ==
  ASSUME NEW s \in Seq(Message), NEW e \in Message
  PROVE  Total(Append(s, e)) = Total(s) + e.tokens
<1> DEFINE t == Append(s, e)
<1>1. /\ t \in Seq(Message) /\ Len(t) = Len(s) + 1 /\ Len(s) \in Nat /\ t[Len(s) + 1] = e
      /\ \A n \in 1..Len(s) : t[n] = s[n]
  BY LenProperties
<1> HIDE DEF t
<1>2. PICK g : IsSum(g, s) /\ Total(s) = g[Len(s)]
  BY TotalIsSum
<1>3. PICK h : IsSum(h, t) /\ Total(t) = h[Len(t)]
  BY <1>1, TotalIsSum
<1> DEFINE Good == {n \in 0..Len(s) : g[n] = h[n]}
<1>4. 0 \in Good
  BY <1>1, <1>2, <1>3 DEF IsSum
<1>5. ASSUME NEW n \in 1..Len(s), n - 1 \in Good PROVE n \in Good
  <2>1. g[n] = g[n - 1] + s[n].tokens /\ h[n] = h[n - 1] + t[n].tokens
    BY <1>1, <1>2, <1>3 DEF IsSum
  <2>2. g[n - 1] = h[n - 1] /\ t[n] = s[n]
    BY <1>1, <1>5
  <2> QED BY <2>1, <2>2
<1>6. 0..Len(s) \subseteq Good
  <2> HIDE DEF Good
  <2> QED BY <1>1, <1>4, <1>5, UpTo
<1>7. g[Len(s)] = h[Len(s)] /\ h[Len(s) + 1] = h[Len(s)] + e.tokens
  BY <1>1, <1>3, <1>6 DEF IsSum
<1> QED BY <1>1, <1>2, <1>3, <1>7 DEF t

LEMMA TotalOfConcat ==
  ASSUME NEW s \in Seq(Message), NEW t \in Seq(Message)
  PROVE  Total(s \o t) = Total(s) + Total(t)
<1> DEFINE Good == {u \in Seq(Message) : Total(s \o u) = Total(s) + Total(u)}
<1>1. <<>> \in Good
  BY EmptySeq, ConcatEmptySeq, TotalOfNone, TotalIsNat
<1>2. ASSUME NEW u \in Seq(Message), NEW e \in Message, u \in Good PROVE Append(u, e) \in Good
  <2>1. s \o Append(u, e) = Append(s \o u, e) /\ s \o u \in Seq(Message) /\ Append(u, e) \in Seq(Message)
    BY AppendToConcat, ConcatProperties
  <2>2. Total(Append(s \o u, e)) = Total(s \o u) + e.tokens /\ Total(Append(u, e)) = Total(u) + e.tokens
    BY <2>1, TotalOfAppend
  <2>3. Total(s) \in Nat /\ Total(u) \in Nat /\ e.tokens \in Nat
    BY TotalIsNat, SizesAssumption DEF Message
  <2>4. Total(s \o u) = Total(s) + Total(u)
    BY <1>2
  <2>5. Total(s \o Append(u, e)) = Total(s) + Total(Append(u, e))
    BY <2>1, <2>2, <2>3, <2>4
  <2> QED BY <2>1, <2>5
<1>3. Seq(Message) \subseteq Good
  <2> HIDE DEF Good
  <2> QED BY <1>1, <1>2, EverySequence
<1> QED BY <1>3

(* A prefix and what is behind it.                                            *)
LEMMA TotalOfSplit ==
  ASSUME NEW s \in Seq(Message), NEW n \in 0..Len(s)
  PROVE  /\ SubSeq(s, 1, n) \in Seq(Message) /\ SubSeq(s, n + 1, Len(s)) \in Seq(Message)
         /\ SubSeq(s, 1, n) \o SubSeq(s, n + 1, Len(s)) = s
         /\ Total(s) = Total(SubSeq(s, 1, n)) + Total(SubSeq(s, n + 1, Len(s)))
<1>1. Len(s) \in Nat /\ 1 \in 1..Len(s) + 1 /\ n \in 1 - 1..Len(s) /\ Len(s) \in n..Len(s)
  BY LenProperties
<1>2. \A m \in 1..Len(s) : s[m] \in Message
  BY ElementOfSeq
<1>3. SubSeq(s, 1, n) \in Seq(Message)
  <2>1. \A m \in 1..n : s[m] \in Message
    BY <1>1, <1>2
  <2> QED BY <1>1, <2>1, SubSeqProperties
<1>4. SubSeq(s, n + 1, Len(s)) \in Seq(Message)
  <2>1. \A m \in n + 1..Len(s) : s[m] \in Message
    BY <1>1, <1>2
  <2> QED BY <1>1, <2>1, SubSeqProperties
<1>5. SubSeq(s, 1, n) \o SubSeq(s, n + 1, Len(s)) = SubSeq(s, 1, Len(s))
  BY <1>1, ConcatAdjacentSubSeq
<1>6. SubSeq(s, 1, Len(s)) = s
  BY SubSeqFull
<1> QED BY <1>3, <1>4, <1>5, <1>6, TotalOfConcat

-----------------------------------------------------------------------------
IsMarked(g, s, mark) ==
  /\ g \in [0..Len(s) -> Seq(Message)] /\ g[0] = <<>>
  /\ \A n \in 1..Len(s) : g[n] = IF s[n].key = mark THEN Append(g[n - 1], s[n]) ELSE g[n - 1]

LEMMA MarkedIs ==
  ASSUME NEW s \in Seq(Message), NEW mark
  PROVE  \E g : IsMarked(g, s, mark) /\ Marked(s, mark) = g[Len(s)]
<1>1. Len(s) \in Nat /\ <<>> \in Seq(Message) /\ \A n \in 1..Len(s) : s[n] \in Message
  BY LenProperties, ElementOfSeq, EmptySeq
<1> DEFINE next == [n \in 1..Len(s) |-> [v \in Seq(Message) |-> IF s[n].key = mark THEN Append(v, s[n]) ELSE v]]
<1>2. next \in [1..Len(s) -> [Seq(Message) -> Seq(Message)]]
  <2>1. \A n \in 1..Len(s), v \in Seq(Message) : Append(v, s[n]) \in Seq(Message)
    BY <1>1
  <2> QED BY <2>1
<1>3. PICK g : g \in Recursions(Len(s), Seq(Message), <<>>, next)
  <2> HIDE DEF next
  <2> QED BY <1>1, <1>2, RecursionExists
<1>4. ASSUME NEW n \in 1..Len(s)
      PROVE  g[n] = IF s[n].key = mark THEN Append(g[n - 1], s[n]) ELSE g[n - 1]
  <2>1. g[n - 1] \in Seq(Message) /\ g[n] = next[n][g[n - 1]]
    <3> HIDE DEF next
    <3> QED BY <1>1, <1>3 DEF Recursions
  <2>2. next[n][g[n - 1]] = IF s[n].key = mark THEN Append(g[n - 1], s[n]) ELSE g[n - 1]
    BY <2>1
  <2> QED BY <2>1, <2>2
<1> HIDE DEF next
<1> DEFINE Eq(f) == f = [n \in 0..Len(s) |->
                          IF n = 0 THEN <<>>
                          ELSE IF s[n].key = mark THEN Append(f[n - 1], s[n]) ELSE f[n - 1]]
<1>5. Eq(g)
  <2>1. g \in [0..Len(s) -> Seq(Message)] /\ g[0] = <<>>
    BY <1>3 DEF Recursions
  <2>2. ASSUME NEW n \in 0..Len(s), n # 0 PROVE n \in 1..Len(s)
    BY <1>1, <2>2
  <2> QED BY <1>4, <2>1, <2>2
<1> DEFINE kept == CHOOSE f : Eq(f)
<1>6. Eq(kept)
  BY <1>5
<1>7. Marked(s, mark) = kept[Len(s)]
  BY DEF Marked
<1> HIDE DEF kept
<1>8. /\ DOMAIN kept = 0..Len(s) /\ kept[0] = <<>>
      /\ \A n \in 1..Len(s) : kept[n] = IF s[n].key = mark THEN Append(kept[n - 1], s[n]) ELSE kept[n - 1]
  <2>1. DOMAIN kept = 0..Len(s)
    BY <1>6
  <2>2. 0 \in 0..Len(s) /\ \A n \in 1..Len(s) : n \in 0..Len(s) /\ n # 0
    BY <1>1
  <2>3. kept[0] = <<>>
    BY <1>6, <2>2
  <2>4. ASSUME NEW n \in 1..Len(s)
        PROVE  kept[n] = IF s[n].key = mark THEN Append(kept[n - 1], s[n]) ELSE kept[n - 1]
    BY <1>6, <2>2
  <2> QED BY <2>1, <2>3, <2>4
<1>9. ASSUME NEW n \in 0..Len(s) PROVE kept[n] = g[n]
  <2> DEFINE Good == {m \in 0..Len(s) : kept[m] = g[m]}
  <2>1. 0 \in Good
    BY <1>1, <1>3, <1>8 DEF Recursions
  <2>2. ASSUME NEW m \in 1..Len(s), m - 1 \in Good PROVE m \in Good
    BY <1>1, <1>4, <1>8, <2>2
  <2>3. 0..Len(s) \subseteq Good
    <3> HIDE DEF Good
    <3> QED BY <1>1, <2>1, <2>2, UpTo
  <2> QED BY <2>3
<1> QED BY <1>1, <1>3, <1>4, <1>7, <1>9 DEF IsMarked, Recursions

LEMMA MarkedOfNone ==
  ASSUME NEW mark
  PROVE  Marked(<<>>, mark) = <<>>
<1>1. <<>> \in Seq(Message) /\ Len(<<>>) = 0
  BY EmptySeq
<1>2. PICK g : IsMarked(g, <<>>, mark) /\ Marked(<<>>, mark) = g[Len(<<>>)]
  BY <1>1, MarkedIs
<1> QED BY <1>1, <1>2 DEF IsMarked

LEMMA MarkedIsSeq ==
  ASSUME NEW s \in Seq(Message), NEW mark
  PROVE  Marked(s, mark) \in Seq(Message)
<1>1. PICK g : IsMarked(g, s, mark) /\ Marked(s, mark) = g[Len(s)]
  BY MarkedIs
<1> QED BY <1>1, LenProperties DEF IsMarked

LEMMA MarkedOfAppend ==
  ASSUME NEW s \in Seq(Message), NEW e \in Message, NEW mark
  PROVE  Marked(Append(s, e), mark) =
           IF e.key = mark THEN Append(Marked(s, mark), e) ELSE Marked(s, mark)
<1> DEFINE t == Append(s, e)
<1>1. /\ t \in Seq(Message) /\ Len(t) = Len(s) + 1 /\ Len(s) \in Nat /\ t[Len(s) + 1] = e
      /\ \A n \in 1..Len(s) : t[n] = s[n]
  BY LenProperties
<1> HIDE DEF t
<1>2. PICK g : IsMarked(g, s, mark) /\ Marked(s, mark) = g[Len(s)]
  BY MarkedIs
<1>3. PICK h : IsMarked(h, t, mark) /\ Marked(t, mark) = h[Len(t)]
  BY <1>1, MarkedIs
<1> DEFINE Good == {n \in 0..Len(s) : g[n] = h[n]}
<1>4. 0 \in Good
  BY <1>1, <1>2, <1>3 DEF IsMarked
<1>5. ASSUME NEW n \in 1..Len(s), n - 1 \in Good PROVE n \in Good
  <2>1. /\ g[n] = IF s[n].key = mark THEN Append(g[n - 1], s[n]) ELSE g[n - 1]
        /\ h[n] = IF t[n].key = mark THEN Append(h[n - 1], t[n]) ELSE h[n - 1]
    BY <1>1, <1>2, <1>3 DEF IsMarked
  <2>2. g[n - 1] = h[n - 1] /\ t[n] = s[n]
    BY <1>1, <1>5
  <2> QED BY <2>1, <2>2
<1>6. 0..Len(s) \subseteq Good
  <2> HIDE DEF Good
  <2> QED BY <1>1, <1>4, <1>5, UpTo
<1>7. g[Len(s)] = h[Len(s)]
  BY <1>1, <1>6
<1>8. h[Len(s) + 1] = IF e.key = mark THEN Append(h[Len(s)], e) ELSE h[Len(s)]
  <2>1. Len(s) + 1 \in 1..Len(t) /\ Len(s) + 1 - 1 = Len(s)
    BY <1>1
  <2> QED BY <1>1, <1>3, <2>1 DEF IsMarked
<1> QED BY <1>1, <1>2, <1>3, <1>7, <1>8 DEF t

(* Those kept are the marked ones, and of marked ones all are kept.           *)
MarkedOnly(mark) == {m \in Message : m.key = mark}

LEMMA MarkedAreMarked ==
  ASSUME NEW s \in Seq(Message), NEW mark
  PROVE  Marked(s, mark) \in Seq(MarkedOnly(mark))
<1> DEFINE Good == {u \in Seq(Message) : Marked(u, mark) \in Seq(MarkedOnly(mark))}
<1>1. <<>> \in Good
  BY EmptySeq, MarkedOfNone
<1>2. ASSUME NEW u \in Seq(Message), NEW e \in Message, u \in Good PROVE Append(u, e) \in Good
  <2>1. Marked(u, mark) \in Seq(MarkedOnly(mark)) /\ Append(u, e) \in Seq(Message)
    BY <1>2
  <2>2. e.key = mark => Append(Marked(u, mark), e) \in Seq(MarkedOnly(mark))
    BY <2>1 DEF MarkedOnly
  <2>3. Marked(Append(u, e), mark) \in Seq(MarkedOnly(mark))
    BY <2>1, <2>2, MarkedOfAppend
  <2> QED BY <2>1, <2>3
<1>3. Seq(Message) \subseteq Good
  <2> HIDE DEF Good
  <2> QED BY <1>1, <1>2, EverySequence
<1> QED BY <1>3

LEMMA MarkedOfMarked ==
  ASSUME NEW mark, NEW s \in Seq(MarkedOnly(mark))
  PROVE  Marked(s, mark) = s /\ \A other : other # mark => Marked(s, other) = <<>>
<1> DEFINE Good == {u \in Seq(MarkedOnly(mark)) :
                      Marked(u, mark) = u /\ \A other : other # mark => Marked(u, other) = <<>>}
<1>1. <<>> \in Good
  BY EmptySeq, MarkedOfNone
<1>2. ASSUME NEW u \in Seq(MarkedOnly(mark)), NEW e \in MarkedOnly(mark), u \in Good
      PROVE  Append(u, e) \in Good
  <2>1. MarkedOnly(mark) \subseteq Message /\ e \in Message /\ e.key = mark
    BY DEF MarkedOnly
  <2>2. u \in Seq(Message) /\ Append(u, e) \in Seq(MarkedOnly(mark))
    BY <2>1, SeqMonotonic
  <2>3. Marked(u, mark) = u /\ \A other : other # mark => Marked(u, other) = <<>>
    BY <1>2
  <2>4. Marked(Append(u, e), mark) = Append(u, e)
    BY <2>1, <2>2, <2>3, MarkedOfAppend
  <2>5. ASSUME NEW other, other # mark PROVE Marked(Append(u, e), other) = <<>>
    BY <2>1, <2>2, <2>3, <2>5, MarkedOfAppend
  <2> QED BY <2>2, <2>4, <2>5
<1>3. Seq(MarkedOnly(mark)) \subseteq Good
  <2> HIDE DEF Good
  <2> QED BY <1>1, <1>2, EverySequence
<1> QED BY <1>3

LEMMA EndOfMarked ==
  ASSUME NEW mark, NEW s \in Seq(MarkedOnly(mark)), NEW n \in 0..Len(s), NEW other, other # mark
  PROVE  Marked(SubSeq(s, n + 1, Len(s)), other) = <<>>
<1>1. Len(s) \in Nat /\ \A j \in 1..Len(s) : s[j] \in MarkedOnly(mark)
  BY LenProperties, ElementOfSeq
<1>2. n + 1 \in Int /\ Len(s) \in Int /\ \A j \in n + 1..Len(s) : s[j] \in MarkedOnly(mark)
  BY <1>1
<1>3. SubSeq(s, n + 1, Len(s)) \in Seq(MarkedOnly(mark))
  BY <1>2, SubSeqProperties
<1> DEFINE end == SubSeq(s, n + 1, Len(s))
<1> HIDE DEF end
<1>4. end \in Seq(MarkedOnly(mark))
  BY <1>3 DEF end
<1>5. \A o : o # mark => Marked(end, o) = <<>>
  BY <1>4, MarkedOfMarked
<1>6. Marked(end, other) = <<>>
  BY <1>5
<1> QED BY <1>6 DEF end

LEMMA MarkedOfConcat ==
  ASSUME NEW s \in Seq(Message), NEW t \in Seq(Message), NEW mark
  PROVE  Marked(s \o t, mark) = Marked(s, mark) \o Marked(t, mark)
<1> DEFINE Good == {u \in Seq(Message) : Marked(s \o u, mark) = Marked(s, mark) \o Marked(u, mark)}
<1>1. <<>> \in Good
  BY EmptySeq, ConcatEmptySeq, MarkedOfNone, MarkedIsSeq
<1>2. ASSUME NEW u \in Seq(Message), NEW e \in Message, u \in Good PROVE Append(u, e) \in Good
  <2>1. s \o Append(u, e) = Append(s \o u, e) /\ s \o u \in Seq(Message) /\ Append(u, e) \in Seq(Message)
    BY AppendToConcat, ConcatProperties
  <2>2. Marked(s \o u, mark) = Marked(s, mark) \o Marked(u, mark)
    BY <1>2
  <2>3. Marked(s, mark) \in Seq(Message) /\ Marked(u, mark) \in Seq(Message)
    BY MarkedIsSeq
  <2>4. Marked(s, mark) \o Append(Marked(u, mark), e) = Append(Marked(s, mark) \o Marked(u, mark), e)
    BY <2>3, AppendToConcat
  <2>5. /\ Marked(Append(s \o u, e), mark) =
              IF e.key = mark THEN Append(Marked(s \o u, mark), e) ELSE Marked(s \o u, mark)
        /\ Marked(Append(u, e), mark) = IF e.key = mark THEN Append(Marked(u, mark), e) ELSE Marked(u, mark)
    BY <2>1, MarkedOfAppend
  <2>6. Marked(Append(s \o u, e), mark) = Marked(s, mark) \o Marked(Append(u, e), mark)
    BY <2>2, <2>4, <2>5, Zenon
  <2> QED BY <2>1, <2>6
<1>3. Seq(Message) \subseteq Good
  <2> HIDE DEF Good
  <2> QED BY <1>1, <1>2, EverySequence
<1> QED BY <1>3

(* The key messages and the others have the tokens of all.                    *)
LEMMA TotalOfParts ==
  ASSUME NEW s \in Seq(Message)
  PROVE  /\ Rest(s) \in Seq(Message) /\ KeyContext(s) \in Seq(Message)
         /\ Total(s) = Total(Rest(s)) + Total(KeyContext(s))
<1> DEFINE Good == {u \in Seq(Message) : Total(u) = Total(Marked(u, FALSE)) + Total(Marked(u, TRUE))}
<1>1. <<>> \in Good
  <2>1. Marked(<<>>, FALSE) = <<>> /\ Marked(<<>>, TRUE) = <<>>
    BY MarkedOfNone, Zenon
  <2>2. <<>> \in Seq(Message) /\ 0 = 0 + 0
    BY EmptySeq
  <2> QED BY <2>1, <2>2, TotalOfNone, Zenon
<1>2. ASSUME NEW u \in Seq(Message), NEW e \in Message, u \in Good PROVE Append(u, e) \in Good
  <2> DEFINE r == Marked(u, FALSE)
             k == Marked(u, TRUE)
  <2>1. r \in Seq(Message) /\ k \in Seq(Message)
    BY MarkedIsSeq, Zenon
  <2>2. /\ Marked(Append(u, e), FALSE) = IF e.key = FALSE THEN Append(r, e) ELSE r
        /\ Marked(Append(u, e), TRUE) = IF e.key = TRUE THEN Append(k, e) ELSE k
    BY MarkedOfAppend
  <2>3. Total(u) = Total(r) + Total(k)
    BY <1>2
  <2> HIDE DEF r, k
  <2>4. Total(r) \in Nat /\ Total(k) \in Nat /\ e.tokens \in Nat
    BY <2>1, TotalIsNat, SizesAssumption DEF Message
  <2>5. /\ Total(Append(u, e)) = Total(u) + e.tokens
        /\ Total(Append(r, e)) = Total(r) + e.tokens /\ Total(Append(k, e)) = Total(k) + e.tokens
    BY <2>1, TotalOfAppend
  <2>9. Append(u, e) \in Seq(Message)
    OBVIOUS
  <2>6. CASE e.key = TRUE
    <3>1. Marked(Append(u, e), FALSE) = r /\ Marked(Append(u, e), TRUE) = Append(k, e)
      BY <2>2, <2>6, Zenon
    <3>2. Total(Append(u, e)) = Total(r) + Total(Append(k, e))
      BY <2>3, <2>4, <2>5
    <3> QED BY <2>9, <3>1, <3>2, Zenon
  <2>7. CASE e.key = FALSE
    <3>1. Marked(Append(u, e), FALSE) = Append(r, e) /\ Marked(Append(u, e), TRUE) = k
      BY <2>2, <2>7, Zenon
    <3>2. Total(Append(u, e)) = Total(Append(r, e)) + Total(k)
      BY <2>3, <2>4, <2>5
    <3> QED BY <2>9, <3>1, <3>2, Zenon
  <2>8. e.key \in BOOLEAN
    BY DEF Message
  <2> QED BY <2>6, <2>7, <2>8
<1>3. Seq(Message) \subseteq Good
  <2> HIDE DEF Good
  <2> QED BY <1>1, <1>2, EverySequence
<1> QED BY <1>3, MarkedIsSeq DEF Rest, KeyContext

(* A count depends on the sizes only.                                         *)
LEMMA TotalOfSameSizes ==
  ASSUME NEW s \in Seq(Message), NEW t \in Seq(Message), Len(t) = Len(s),
         \A n \in 1..Len(s) : t[n].tokens = s[n].tokens
  PROVE  Total(t) = Total(s)
<1>1. PICK g : IsSum(g, s) /\ Total(s) = g[Len(s)]
  BY TotalIsSum
<1>2. PICK h : IsSum(h, t) /\ Total(t) = h[Len(t)]
  BY TotalIsSum
<1>3. Len(s) \in Nat
  BY LenProperties
<1> DEFINE Good == {n \in 0..Len(s) : g[n] = h[n]}
<1>4. 0 \in Good
  BY <1>1, <1>2, <1>3 DEF IsSum
<1>5. ASSUME NEW n \in 1..Len(s), n - 1 \in Good PROVE n \in Good
  <2>1. g[n] = g[n - 1] + s[n].tokens /\ h[n] = h[n - 1] + t[n].tokens
    BY <1>1, <1>2, <1>3 DEF IsSum
  <2>2. g[n - 1] = h[n - 1] /\ t[n].tokens = s[n].tokens
    BY <1>5
  <2> QED BY <2>1, <2>2
<1>6. 0..Len(s) \subseteq Good
  <2> HIDE DEF Good
  <2> QED BY <1>3, <1>4, <1>5, UpTo
<1> QED BY <1>1, <1>2, <1>3, <1>6

-----------------------------------------------------------------------------
ContextInv ==
  /\ TokensAddUp
  /\ saved.messages \in Seq(Message) /\ saved.currentTokens = Total(saved.messages)

(* The longest end that fits is an end, and fits: nothing at all would.       *)
LEMMA RecentIs ==
  ASSUME NEW s \in Seq(Message), NEW max \in Nat
  PROVE  /\ Total(Recent(s, max)) <= max
         /\ \E n \in 0..Len(s) : Recent(s, max) = SubSeq(s, n + 1, Len(s))
<1> DEFINE fits == {n \in 0..Len(s) : Total(SubSeq(s, n + 1, Len(s))) <= max}
           first == CHOOSE n \in fits : \A m \in fits : n <= m
<1>1. Len(s) \in Nat
  BY LenProperties
<1>2. Len(s) \in fits
  <2>1. SubSeq(s, Len(s) + 1, Len(s)) = <<>>
    BY <1>1, SubSeqEmpty
  <2>2. Total(SubSeq(s, Len(s) + 1, Len(s))) = 0
    BY <2>1, TotalOfNone, Zenon
  <2> QED BY <1>1, <2>2
<1>3. \E n \in fits : \A m \in fits : n <= m
  <2>1. fits \in SUBSET Nat /\ fits # {}
    BY <1>1, <1>2
  <2> HIDE DEF fits
  <2> QED BY <2>1, LeastNumber
<1>4. first \in fits
  <2> HIDE DEF fits
  <2> QED BY <1>3
<1>5. Recent(s, max) = SubSeq(s, first + 1, Len(s))
  BY DEF Recent
<1> HIDE DEF first
<1> QED BY <1>4, <1>5

LEMMA RecentIsMessages ==
  ASSUME NEW s \in Seq(Message), NEW max \in Nat
  PROVE  Recent(s, max) \in Seq(Message)
BY RecentIs, TotalOfSplit

LEMMA AppendedOne ==
  ASSUME NEW t \in Sizes, NEW mark \in BOOLEAN
  PROVE  /\ [tokens |-> t, key |-> mark] \in Message /\ t \in Nat
         /\ <<[tokens |-> t, key |-> mark]>> \in Seq(Message)
         /\ Total(<<[tokens |-> t, key |-> mark]>>) = t
<1> DEFINE m == [tokens |-> t, key |-> mark]
<1>1. m \in Message /\ m.tokens = t /\ t \in Nat
  BY SizesAssumption DEF Message
<1> HIDE DEF m
<1>2. <<m>> = Append(<<>>, m) /\ <<m>> \in Seq(Message) /\ <<>> \in Seq(Message)
  BY <1>1, EmptySeq
<1>3. Total(<<m>>) = t
  <2>1. Total(Append(<<>>, m)) = Total(<<>>) + m.tokens
    BY <1>1, <1>2, TotalOfAppend
  <2>2. 0 + t = t
    BY <1>1
  <2> QED BY <1>1, <1>2, <2>1, <2>2, TotalOfNone, Zenon
<1> QED BY <1>1, <1>2, <1>3 DEF m

LEMMA AddKeeps ==
  ASSUME ContextInv, AddMessage
  PROVE  ContextInv'
<1>1. PICK t \in Sizes : /\ messages' = Append(messages, [tokens |-> t, key |-> FALSE])
                         /\ currentTokens' = currentTokens + t /\ saved' = saved
  BY Zenon DEF AddMessage
<1> DEFINE m == [tokens |-> t, key |-> FALSE]
<1>2. m \in Message /\ m.tokens = t
  BY AppendedOne
<1> HIDE DEF m
<1>3. messages' = Append(messages, m) /\ messages \in Seq(Message) /\ currentTokens = Total(messages)
  BY <1>1, Zenon DEF m, ContextInv, TokensAddUp
<1>4. messages' \in Seq(Message) /\ currentTokens' = Total(messages')
  BY <1>1, <1>2, <1>3, TotalOfAppend
<1> QED BY <1>1, <1>4 DEF ContextInv, TokensAddUp

LEMMA MarkedMessage ==
  ASSUME NEW m \in Message, NEW mark \in BOOLEAN
  PROVE  [m EXCEPT !.key = mark] \in Message /\ [m EXCEPT !.key = mark].tokens = m.tokens
BY DEF Message

LEMMA MarkKeeps ==
  ASSUME ContextInv, MarkKeyContext
  PROVE  ContextInv'
<1>1. PICK i \in DOMAIN messages : messages' = [messages EXCEPT ![i].key = TRUE]
  BY Zenon DEF MarkKeyContext
<1>2. messages \in Seq(Message) /\ currentTokens = Total(messages) /\ i \in 1..Len(messages)
      /\ currentTokens' = currentTokens /\ saved' = saved
  BY LenProperties DEF ContextInv, TokensAddUp, MarkKeyContext
<1> DEFINE m == [messages[i] EXCEPT !.key = TRUE]
<1>3. m \in Message /\ m.tokens = messages[i].tokens
  <2>1. messages[i] \in Message
    BY <1>2, ElementOfSeq
  <2> QED BY <2>1, MarkedMessage, Zenon
<1>4. messages' = [messages EXCEPT ![i] = m]
  BY <1>1, Zenon
<1> HIDE DEF m
<1>5. /\ messages' \in Seq(Message) /\ Len(messages') = Len(messages)
      /\ \A n \in 1..Len(messages) : messages'[n] = IF n = i THEN m ELSE messages[n]
  BY <1>2, <1>3, <1>4, ExceptSeq
<1>6. Total(messages') = Total(messages)
  BY <1>2, <1>3, <1>5, TotalOfSameSizes
<1> QED BY <1>2, <1>5, <1>6 DEF ContextInv, TokensAddUp

LEMMA OtherCallsKeep ==
  ASSUME ContextInv, ResetContext \/ ToJSON \/ FromJSON
  PROVE  ContextInv'
<1>1. CASE ResetContext
  BY <1>1, EmptySeq, TotalOfNone DEF ContextInv, TokensAddUp, ResetContext
<1>2. CASE ToJSON
  BY <1>2 DEF ContextInv, TokensAddUp, ToJSON
<1>3. CASE FromJSON
  BY <1>3 DEF ContextInv, TokensAddUp, FromJSON
<1> QED BY <1>1, <1>2, <1>3

-----------------------------------------------------------------------------
LEMMA SlidingWindowKeeps ==
  ASSUME TokensAddUp, Len(messages) > WindowSize, TrimSlidingWindow
  PROVE  TokensAddUp'
<1>1. messages \in Seq(Message) /\ currentTokens = Total(messages)
  BY DEF TokensAddUp
<1> DEFINE start == Len(messages) - WindowSize
<1>2. start \in 0..Len(messages)
  BY <1>1, SizesAssumption, LenProperties
<1>3. messages' = SubSeq(messages, start + 1, Len(messages))
      /\ currentTokens' = currentTokens - Total(SubSeq(messages, 1, start))
  BY DEF TrimSlidingWindow
<1> HIDE DEF start
<1>4. /\ SubSeq(messages, 1, start) \in Seq(Message)
      /\ SubSeq(messages, start + 1, Len(messages)) \in Seq(Message)
      /\ Total(messages) = Total(SubSeq(messages, 1, start)) + Total(SubSeq(messages, start + 1, Len(messages)))
  BY <1>1, <1>2, TotalOfSplit
<1>5. Total(SubSeq(messages, 1, start)) \in Nat /\ Total(SubSeq(messages, start + 1, Len(messages))) \in Nat
  BY <1>4, TotalIsNat
<1> QED BY <1>1, <1>3, <1>4, <1>5 DEF TokensAddUp

LEMMA SummaryKeeps ==
  ASSUME TokensAddUp, TrimWithSummary
  PROVE  TokensAddUp'
<1>1. messages \in Seq(Message) /\ currentTokens = Total(messages)
  BY DEF TokensAddUp
<1> DEFINE half == Len(messages) \div 2
           old  == SubSeq(messages, 1, half)
           new  == SubSeq(messages, half + 1, Len(messages))
<1>2. half \in 0..Len(messages)
  BY <1>1, LenProperties
<1>3. CASE UNCHANGED <<messages, currentTokens>>
  BY <1>1, <1>3 DEF TokensAddUp
<1>4. ASSUME NEW t \in Sizes \ {0}, messages' = <<[tokens |-> t, key |-> TRUE]>> \o new,
             currentTokens' = currentTokens - Total(old) + t
      PROVE  TokensAddUp'
  <2> HIDE DEF half
  <2>1. old \in Seq(Message) /\ new \in Seq(Message) /\ Total(messages) = Total(old) + Total(new)
    BY <1>1, <1>2, TotalOfSplit
  <2> HIDE DEF old, new
  <2> DEFINE one == <<[tokens |-> t, key |-> TRUE]>>
  <2>2. one \in Seq(Message) /\ Total(one) = t /\ t \in Nat
    BY AppendedOne
  <2>3. messages' = one \o new
    BY <1>4, Zenon
  <2> HIDE DEF one
  <2>4. messages' \in Seq(Message) /\ Total(messages') = t + Total(new)
    BY <2>1, <2>2, <2>3, TotalOfConcat, ConcatProperties
  <2>5. Total(old) \in Nat /\ Total(new) \in Nat
    BY <2>1, TotalIsNat
  <2> QED BY <1>1, <1>4, <2>1, <2>2, <2>4, <2>5 DEF TokensAddUp
<1> QED BY <1>3, <1>4, Zenon DEF TrimWithSummary

(* What the base manager's trim does with a count that is right.              *)
LEMMA TrimBaseIs ==
  ASSUME TokensAddUp, NEW max \in Nat, currentTokens > max, TrimBase(max)
  PROVE  /\ TokensAddUp' /\ currentTokens' <= max
         /\ Len(KeyContext(messages')) < Len(KeyContext(messages)) => Rest(messages') = <<>>
<1> DEFINE rest    == Rest(messages)
           enough  == {n \in 0..Len(rest) :
                         n = Len(rest) \/ Total(SubSeq(rest, 1, n)) >= currentTokens - max}
           removed == CHOOSE n \in enough : \A m \in enough : n <= m
           tail    == SubSeq(rest, removed + 1, Len(rest))
           marked  == KeyContext(messages)
           left    == currentTokens - Total(SubSeq(rest, 1, removed))
<1>1. messages \in Seq(Message) /\ currentTokens = Total(messages)
  BY DEF TokensAddUp
<1>2. /\ rest \in Seq(Message) /\ marked \in Seq(Message)
      /\ Total(messages) = Total(rest) + Total(marked)
  BY <1>1, TotalOfParts
<1>3. /\ rest \in Seq(MarkedOnly(FALSE)) /\ marked \in Seq(MarkedOnly(TRUE))
  BY <1>1, MarkedAreMarked, Zenon DEF Rest, KeyContext
<1>4. IF left > max
      THEN messages' = Recent(tail \o marked, max) /\ currentTokens' = Total(Recent(tail \o marked, max))
      ELSE messages' = tail \o marked /\ currentTokens' = left
  BY DEF TrimBase
<1> HIDE DEF rest, marked
<1>5. removed \in enough
  <2>1. Len(rest) \in Nat
    BY <1>2, LenProperties
  <2>2. enough \in SUBSET Nat /\ Len(rest) \in enough
    BY <2>1
  <2> HIDE DEF enough
  <2>3. \E n \in enough : \A m \in enough : n <= m
    BY <2>2, LeastNumber
  <2> QED BY <2>3
<1> HIDE DEF removed
<1>6. removed \in 0..Len(rest) /\ (removed = Len(rest) \/ Total(SubSeq(rest, 1, removed)) >= currentTokens - max)
  BY <1>5
<1>7. /\ SubSeq(rest, 1, removed) \in Seq(Message) /\ tail \in Seq(Message)
      /\ Total(rest) = Total(SubSeq(rest, 1, removed)) + Total(tail)
  BY <1>2, <1>6, TotalOfSplit
<1>8. /\ Total(SubSeq(rest, 1, removed)) \in Nat /\ Total(tail) \in Nat /\ Total(marked) \in Nat
  BY <1>2, <1>7, TotalIsNat
<1>9. tail \o marked \in Seq(Message) /\ Total(tail \o marked) = Total(tail) + Total(marked)
  BY <1>2, <1>7, TotalOfConcat, ConcatProperties
<1>10. left = Total(tail \o marked) /\ left \in Nat
  BY <1>1, <1>2, <1>7, <1>8, <1>9
<1>11. CASE left > max
  <2>1. removed = Len(rest)
    BY <1>1, <1>2, <1>6, <1>7, <1>8, <1>11
  <2>2. tail = <<>>
    BY <2>1, <1>2, LenProperties, SubSeqEmpty
  <2>3. tail \o marked = marked
    BY <2>2, <1>2, ConcatEmptySeq
  <2>4. messages' = Recent(marked, max) /\ currentTokens' = Total(Recent(marked, max))
    BY <1>4, <1>11, <2>3
  <2>5. messages' \in Seq(Message) /\ currentTokens' <= max
    BY <1>2, <2>4, RecentIs, RecentIsMessages
  <2>6. Rest(messages') = <<>>
    <3>1. PICK n \in 0..Len(marked) : messages' = SubSeq(marked, n + 1, Len(marked))
      BY <1>2, <2>4, RecentIs
    <3>2. Marked(SubSeq(marked, n + 1, Len(marked)), FALSE) = <<>>
      BY <1>3, EndOfMarked, Zenon
    <3> QED BY <3>1, <3>2, Zenon DEF Rest
  <2> QED BY <2>4, <2>5, <2>6 DEF TokensAddUp
<1>12. CASE ~(left > max)
  <2>1. messages' = tail \o marked /\ currentTokens' = left
    BY <1>4, <1>12
  <2>2. TokensAddUp' /\ currentTokens' <= max
    BY <2>1, <1>9, <1>10, <1>12 DEF TokensAddUp
  <2>3. KeyContext(messages') = Marked(tail, TRUE) \o marked
    <3> HIDE DEF tail
    <3>1. \A mark : Marked(tail \o marked, mark) = Marked(tail, mark) \o Marked(marked, mark)
      BY <1>2, <1>7, MarkedOfConcat
    <3>2. Marked(marked, TRUE) = marked
      BY <1>3, MarkedOfMarked, Zenon
    <3> QED BY <2>1, <3>1, <3>2, Zenon DEF KeyContext
  <2>4. Marked(tail, TRUE) \in Seq(Message)
    BY <1>7, MarkedIsSeq, Zenon
  <2> DEFINE before == Marked(tail, TRUE)
  <2>5. ~(Len(before \o marked) < Len(marked))
    <3> HIDE DEF before
    <3>1. before \in Seq(Message)
      BY <2>4, Zenon DEF before
    <3>2. Len(before \o marked) = Len(before) + Len(marked) /\ Len(before) \in Nat /\ Len(marked) \in Nat
      BY <1>2, <3>1, ConcatProperties, LenProperties
    <3> QED BY <3>2
  <2>6. ~(Len(KeyContext(messages')) < Len(KeyContext(messages)))
    BY <2>3, <2>5, Zenon DEF marked
  <2> QED BY <2>2, <2>6
<1> QED BY <1>11, <1>12

LEMMA TrimKeeps ==
  ASSUME ContextInv, TrimContext
  PROVE  ContextInv'
<1>1. TokensAddUp
  BY DEF ContextInv
<1>2. PICK max \in Limits :
        /\ \/ strategy = "sliding_window" /\ Len(messages) > WindowSize /\ TrimSlidingWindow
           \/ strategy = "preserve_recent" /\ currentTokens > max /\ TrimPreserveRecent(max)
           \/ strategy = "summary" /\ currentTokens > max /\ TrimWithSummary
           \/ strategy \in {"summary", "preserve_key"} /\ currentTokens > max /\ TrimBase(max)
        /\ saved' = saved
  BY DEF TrimContext
<1>3. max \in Nat
  BY SizesAssumption
<1>4. TrimPreserveRecent(max) => TokensAddUp'
  BY <1>1, <1>3, RecentIsMessages DEF TrimPreserveRecent, TokensAddUp
<1>5. TokensAddUp'
  BY <1>1, <1>2, <1>3, <1>4, SlidingWindowKeeps, SummaryKeeps, TrimBaseIs
<1> QED BY <1>2, <1>5 DEF ContextInv

LEMMA ContextStarts == ContextInit => ContextInv
BY EmptySeq, TotalOfNone DEF ContextInit, ContextInv, TokensAddUp, NoJSON

LEMMA ContextInvKept == ContextInv /\ [ContextNext]_contextVars => ContextInv'
<1>1. ContextInv /\ UNCHANGED contextVars => ContextInv'
  BY DEF contextVars, ContextInv, TokensAddUp
<1> QED BY <1>1, AddKeeps, MarkKeeps, TrimKeeps, OtherCallsKeep DEF ContextNext

(* The count the manager keeps is the sum over its messages after any         *)
(* sequence of additions, marks, saves, loads and trims, for messages of any  *)
(* size (context.go:53-124, 176-276).                                         *)
THEOREM TokensAddUpHolds == ContextSpec => []TokensAddUp
<1>1. ContextSpec => []ContextInv
  BY ContextStarts, ContextInvKept, PTL DEF ContextSpec
<1>2. ContextInv => TokensAddUp
  BY DEF ContextInv
<1> QED BY <1>1, <1>2, PTL

(* The step the property is about.                                            *)
TrimIsRight ==
  \A max \in Limits : strategy = "preserve_key" /\ currentTokens > max /\ TrimBase(max) =>
       /\ currentTokens' <= max
       /\ Len(KeyContext(messages')) < Len(KeyContext(messages)) => Rest(messages') = <<>>

(* A trim that keeps key context comes below the maximum and drops a key      *)
(* message only when no other message is left (context.go:218-276).           *)
THEOREM TrimKeepsKeyContextHolds == ContextSpec => TrimKeepsKeyContext
<1>1. ContextSpec => []TokensAddUp
  BY TokensAddUpHolds
<1>2. TokensAddUp /\ [ContextNext]_contextVars => [TrimIsRight]_contextVars
  <2> SUFFICES ASSUME TokensAddUp PROVE TrimIsRight
    OBVIOUS
  <2>1. Limits \subseteq Nat
    BY SizesAssumption
  <2> QED BY <2>1, TrimBaseIs DEF TrimIsRight
<1> QED BY <1>1, <1>2, PTL DEF ContextSpec, TrimKeepsKeyContext, TrimIsRight

-----------------------------------------------------------------------------
(* ---- The screen.                                                         *)

(* What the goroutine of a question may still have to send, by where it is.   *)
Outs(place) ==
  CASE place = "running"   -> {<<>>} \cup {<<m>> : m \in Messages}
    [] place = "waiting"   -> {<<>>, <<"show">>}
    [] place = "ending"    -> {<<>>, <<"done">>, <<"chunk", "done">>, <<"tool", "done">>,
                               <<"chunk", "tool", "done">>, <<"failed">>, <<"note", "failed">>}
    [] place = "panicked"  -> {<<>>, <<"note">>}
    [] place = "proposing" -> {<<>>, <<"preview">>, <<"chunk", "preview">>}
    [] OTHER               -> {<<>>}

Places == {"new", "submitted", "starting", "demo", "running", "waiting", "ending",
           "panicked", "proposing", "ended"}

RunsSend ==
  /\ DOMAIN run = Questions
  /\ \A q \in Questions : /\ DOMAIN run[q] = {"at", "left", "out"}
                          /\ run[q].at \in Places /\ run[q].out \in Outs(run[q].at)

(* Messages with one among them that finishes the answer.                     *)
Finishes(out) == out \in {<<"done">>, <<"chunk", "done">>, <<"tool", "done">>,
                          <<"chunk", "tool", "done">>, <<"note", "failed">>}

(* A goroutine that goes on, or whose last word is still to be delivered.     *)
Unfinished(q) ==
  run[q].at \in {"running", "waiting", "panicked", "proposing"} \/ Finishes(run[q].out)

StreamHasEnd == answer = "streaming" => \E q \in Questions : Unfinished(q)

StreamingInv == RunsSend /\ StreamHasEnd

-----------------------------------------------------------------------------
LEMMA ScreenStarts == TerminalInit => StreamingInv
BY DEF TerminalInit, StreamingInv, RunsSend, StreamHasEnd, Places, Outs

(* Nothing but the two lines of a run and the answer matters.                 *)
LEMMA RestIsNothing ==
  ASSUME StreamingInv, run' = run, answer' = answer \/ answer' = "none"
  PROVE  StreamingInv'
BY DEF StreamingInv, RunsSend, StreamHasEnd, Unfinished, Finishes

(* A goroutine that is idle moves on, and if it had something to finish it    *)
(* still has.                                                                 *)
LEMMA MovesOn ==
  ASSUME StreamingInv, NEW q \in Questions, answer' = answer,
         DOMAIN run' = Questions, \A p \in Questions \ {q} : run'[p] = run[p],
         DOMAIN run'[q] = {"at", "left", "out"},
         run'[q].at \in Places, run'[q].out \in Outs(run'[q].at),
         Unfinished(q) => Unfinished(q)'
  PROVE  StreamingInv'
<1>1. RunsSend'
  BY DEF StreamingInv, RunsSend
<1>2. StreamHasEnd'
  BY DEF StreamingInv, StreamHasEnd, Unfinished, Finishes
<1> QED BY <1>1, <1>2 DEF StreamingInv

(* The lists of messages are short.                                           *)
LEMMA ShortLists ==
  ASSUME NEW a, NEW b, NEW c
  PROVE  /\ Head(<<a>>) = a /\ Tail(<<a>>) = <<>>
         /\ Head(<<a, b>>) = a /\ Tail(<<a, b>>) = <<b>>
         /\ Head(<<a, b, c>>) = a /\ Tail(<<a, b, c>>) = <<b, c>>
         /\ <<a>> # <<>> /\ <<a, b>> # <<>> /\ <<a, b, c>> # <<>>
<1>1. Head(<<a>>) = a /\ Tail(<<a>>) = <<>> /\ <<a>> # <<>>
  OBVIOUS
<1>2. Head(<<a, b>>) = a /\ Tail(<<a, b>>) = <<b>> /\ <<a, b>> # <<>>
  OBVIOUS
<1>3. Head(<<a, b, c>>) = a /\ Tail(<<a, b, c>>) = <<b, c>> /\ <<a, b, c>> # <<>>
  OBVIOUS
<1> QED BY <1>1, <1>2, <1>3

(* What is left when the first message of a run has been taken.               *)
LEMMA TailsStay ==
  ASSUME NEW place \in Places, NEW out \in Outs(place), out # <<>>
  PROVE  Tail(out) \in Outs(place)
<1>1. CASE place = "running"
  <2>1. PICK m \in Messages : out = <<m>>
    BY <1>1 DEF Outs
  <2> QED BY <1>1, <2>1, ShortLists DEF Outs
<1>2. CASE place = "waiting"
  <2>1. out = <<"show">>
    BY <1>2 DEF Outs
  <2> QED BY <1>2, <2>1, ShortLists DEF Outs
<1>3. CASE place = "ending"
  <2>1. \/ \E m \in {"done", "failed"} : out = <<m>>
       \/ \E m \in {"chunk", "tool"} : out = <<m, "done">>
       \/ out = <<"note", "failed">> \/ out = <<"chunk", "tool", "done">>
    BY <1>3 DEF Outs
  <2>2. CASE \E m \in {"done", "failed"} : out = <<m>>
    BY <1>3, <2>2, ShortLists DEF Outs
  <2>3. CASE \E m \in {"chunk", "tool"} : out = <<m, "done">>
    <3>1. Tail(out) = <<"done">>
      BY <2>3, ShortLists
    <3> QED BY <1>3, <3>1 DEF Outs
  <2>4. CASE out = <<"note", "failed">>
    BY <1>3, <2>4, ShortLists DEF Outs
  <2>5. CASE out = <<"chunk", "tool", "done">>
    BY <1>3, <2>5, ShortLists DEF Outs
  <2> QED BY <2>1, <2>2, <2>3, <2>4, <2>5
<1>4. CASE place = "panicked"
  <2>1. out = <<"note">>
    BY <1>4 DEF Outs
  <2> QED BY <1>4, <2>1, ShortLists DEF Outs
<1>5. CASE place = "proposing"
  <2>1. out = <<"preview">> \/ out = <<"chunk", "preview">>
    BY <1>5 DEF Outs
  <2>2. CASE out = <<"preview">>
    BY <1>5, <2>2, ShortLists DEF Outs
  <2>3. CASE out = <<"chunk", "preview">>
    BY <1>5, <2>3, ShortLists DEF Outs
  <2> QED BY <2>1, <2>2, <2>3
<1> QED BY <1>1, <1>2, <1>3, <1>4, <1>5 DEF Outs, Places

(* What the message has done to the answer: if that streams now, the run had  *)
(* its last word to say and still has, or it streamed before.                 *)
LEMMA Delivered ==
  ASSUME NEW place \in Places, NEW out \in Outs(place), out # <<>>,
         AfterMessage(Head(out)) = "streaming"
  PROVE  /\ Finishes(out) => Finishes(Tail(out))
         /\ answer # "streaming" =>
              place \in {"running", "waiting", "panicked", "proposing"} \/ Finishes(Tail(out))
<1>1. ASSUME Finishes(out) PROVE Finishes(Tail(out))
  <2>1. AfterMessage("done") # "streaming" /\ AfterMessage("note") # "streaming"
    BY DEF AfterMessage, FinishLastAIStreaming
  <2>2. out # <<"done">> /\ out # <<"note", "failed">>
    BY <2>1, ShortLists
  <2>3. CASE \E m \in {"chunk", "tool"} : out = <<m, "done">>
    <3>1. Tail(out) = <<"done">>
      BY <2>3, ShortLists
    <3> QED BY <3>1 DEF Finishes
  <2>4. CASE out = <<"chunk", "tool", "done">>
    BY <2>4, ShortLists DEF Finishes
  <2> QED BY <1>1, <2>2, <2>3, <2>4 DEF Finishes
<1>2. ASSUME answer # "streaming", ~Finishes(out)
      PROVE  place \in {"running", "waiting", "panicked", "proposing"}
  <2>1. AfterMessage("failed") # "streaming"
    BY <1>2 DEF AfterMessage
  <2>2. out # <<"failed">>
    BY <2>1, ShortLists
  <2> QED BY <1>2, <2>2 DEF Outs, Places, Finishes
<1> QED BY <1>1, <1>2

(* A message is taken from a run: the answer streams then only if that run or *)
(* another one that was unfinished before is unfinished.                      *)
LEMMA DeliverKeeps ==
  ASSUME StreamingInv, NEW q \in Questions, Deliver(q)
  PROVE  StreamingInv'
<1> DEFINE out == run[q].out
           r   == [run[q] EXCEPT !.out = Tail(@)]
<1>1. /\ run' = [run EXCEPT ![q] = r] /\ answer' = AfterMessage(Head(out)) /\ out # <<>>
      /\ DOMAIN run = Questions /\ run[q].at \in Places /\ out \in Outs(run[q].at)
      /\ DOMAIN run[q] = {"at", "left", "out"}
  BY DEF Deliver, StreamingInv, RunsSend
<1>2. /\ run'[q] = r /\ DOMAIN run' = Questions /\ \A p \in Questions \ {q} : run'[p] = run[p]
      /\ DOMAIN r = {"at", "left", "out"} /\ r.at = run[q].at /\ r.out = Tail(out)
  BY <1>1
<1>3. r.out \in Outs(r.at)
  BY <1>1, <1>2, TailsStay
<1>4. RunsSend'
  BY <1>1, <1>2, <1>3 DEF StreamingInv, RunsSend
<1>5. ASSUME answer' = "streaming" PROVE \E p \in Questions : Unfinished(p)'
  <2>1. /\ Finishes(out) => Finishes(Tail(out))
        /\ answer # "streaming" =>
             r.at \in {"running", "waiting", "panicked", "proposing"} \/ Finishes(Tail(out))
    BY <1>1, <1>2, <1>5, Delivered
  <2>2. CASE answer # "streaming"
    BY <1>2, <2>1, <2>2 DEF Unfinished
  <2>3. CASE answer = "streaming"
    <3>1. PICK p \in Questions : Unfinished(p)
      BY <2>3 DEF StreamingInv, StreamHasEnd
    <3>2. CASE p = q
      BY <1>2, <2>1, <3>1, <3>2 DEF Unfinished
    <3>3. CASE p # q
      BY <1>2, <3>1, <3>3 DEF Unfinished
    <3> QED BY <3>2, <3>3
  <2> QED BY <2>2, <2>3
<1> QED BY <1>4, <1>5 DEF StreamingInv, StreamHasEnd

(* The steps of a goroutine that is idle.                                     *)
LEMMA RunStepKeeps ==
  ASSUME StreamingInv, NEW q \in Questions, RunStep(q) \/ Ask(q) \/ HandleUserInput(q) \/ Submit(q)
  PROVE  StreamingInv'
<1>1. /\ DOMAIN run = Questions /\ run[q].at \in Places
      /\ DOMAIN run[q] = {"at", "left", "out"} /\ run[q].out \in Outs(run[q].at)
  BY DEF StreamingInv, RunsSend
<1>2. ASSUME NEW place \in Places, NEW out \in Outs(place), Become(q, place, out), answer' = answer,
             Unfinished(q) => place \in {"running", "waiting", "panicked", "proposing"} \/ Finishes(out)
      PROVE  StreamingInv'
  <2> DEFINE r == [run[q] EXCEPT !.at = place, !.out = out]
  <2>1. run' = [run EXCEPT ![q] = r] /\ DOMAIN r = {"at", "left", "out"} /\ r.at = place /\ r.out = out
    BY <1>1, <1>2 DEF Become
  <2>2. DOMAIN run' = Questions /\ run'[q] = r /\ \A p \in Questions \ {q} : run'[p] = run[p]
    BY <1>1, <2>1
  <2>3. Unfinished(q) => Unfinished(q)'
    BY <1>2, <2>1, <2>2 DEF Unfinished
  <2> HIDE DEF r
  <2> QED BY <1>2, <2>1, <2>2, <2>3, MovesOn
<1>3. ASSUME NEW place \in {"submitted", "starting", "demo"}, run[q].at \in {"new", "submitted"},
             run' = [run EXCEPT ![q].at = place], answer' = answer
      PROVE  StreamingInv'
  <2> DEFINE r == [run[q] EXCEPT !.at = place]
  <2>1. run' = [run EXCEPT ![q] = r] /\ DOMAIN r = {"at", "left", "out"} /\ r.at = place /\ r.out = <<>>
    BY <1>1, <1>3 DEF Outs
  <2>2. r.at \in Places /\ r.out \in Outs(r.at)
    BY <2>1 DEF Places, Outs
  <2>3. ~Unfinished(q)
    BY <1>1, <1>3 DEF Unfinished, Outs, Finishes
  <2>4. DOMAIN run' = Questions /\ run'[q] = r /\ \A p \in Questions \ {q} : run'[p] = run[p]
    BY <1>1, <2>1
  <2> HIDE DEF r
  <2> QED BY <1>3, <2>1, <2>2, <2>3, <2>4, MovesOn
<1>4. CASE StartRun(q)
  <2>1. run[q].at = "starting" /\ run[q].out = <<>> /\ answer' = answer
        /\ (Become(q, "running", <<>>) \/ Become(q, "panicked", <<"note">>))
    BY <1>4 DEF StartRun, Idle, shown
  <2> QED BY <1>2, <2>1 DEF Outs, Places
<1>5. CASE Emit(q)
  <2>1. PICK m \in Messages : run' = [run EXCEPT ![q] = [@ EXCEPT !.left = @ - 1, !.out = <<m>>]]
    BY <1>5 DEF Emit
  <2>2. run[q].at = "running" /\ answer' = answer
    BY <1>5 DEF Emit, Idle, shown
  <2>3. /\ DOMAIN run' = Questions /\ \A p \in Questions \ {q} : run'[p] = run[p]
        /\ DOMAIN run'[q] = {"at", "left", "out"} /\ run'[q].at = "running" /\ run'[q].out = <<m>>
    BY <1>1, <2>1, <2>2
  <2>4. run'[q].at \in Places /\ run'[q].out \in Outs(run'[q].at)
    BY <2>3 DEF Places, Outs
  <2>5. Unfinished(q)'
    BY <2>3 DEF Unfinished
  <2> QED BY <2>2, <2>3, <2>4, <2>5, MovesOn
<1>6. CASE Ask(q)
  <2>1. answer' = answer /\ Become(q, "waiting", <<"show">>)
    BY <1>6 DEF Ask, shown
  <2> QED BY <1>2, <2>1 DEF Outs, Places
<1>7. CASE EndRun(q)
  <2>1. answer' = answer
        /\ (\/ Become(q, "ending", <<"done">>) \/ Become(q, "ending", <<"chunk", "done">>)
            \/ Become(q, "ending", <<"note", "failed">>) \/ Become(q, "panicked", <<"note">>))
    BY <1>7 DEF EndRun, shown
  <2> QED BY <1>2, <2>1 DEF Outs, Places, Finishes
<1>8. CASE Demo(q)
  <2>1. answer' = answer
        /\ (Become(q, "ending", <<"chunk", "tool", "done">>) \/ Become(q, "proposing", <<"chunk", "preview">>))
    BY <1>8 DEF Demo, shown
  <2> QED BY <1>2, <2>1 DEF Outs, Places, Finishes
<1>9. CASE Ended(q)
  <2>1. run[q].at = "ending" /\ run[q].out = <<>> /\ answer' = answer /\ Become(q, "ended", <<>>)
    BY <1>9 DEF Ended, Idle, shown
  <2>2. ~Unfinished(q)
    BY <2>1 DEF Unfinished, Finishes
  <2> QED BY <1>2, <2>1, <2>2 DEF Outs, Places
<1>10. CASE NilResult(q)
  BY <1>10, RestIsNothing DEF NilResult, shown
<1>11. CASE HandleUserInput(q)
  <2>1. run[q].at = "submitted" /\ answer' = answer
        /\ \E place \in {"starting", "demo"} : run' = [run EXCEPT ![q].at = place]
    BY <1>11 DEF HandleUserInput, shown
  <2> QED BY <1>3, <2>1
<1>12. CASE Submit(q)
  BY <1>3, <1>12 DEF Submit, shown
<1> QED BY <1>4, <1>5, <1>6, <1>7, <1>8, <1>9, <1>10, <1>11, <1>12 DEF RunStep

(* Keys, messages of commands and the end of an initialisation.               *)
LEMMA OthersKeep ==
  ASSUME StreamingInv, Key \/ Initialised \/ \E c \in commands : TakeCommand(c)
  PROVE  StreamingInv'
<1>1. CASE \E q \in Questions : Submit(q)
  BY <1>1, RunStepKeeps
<1>2. CASE Key /\ ~\E q \in Questions : Submit(q)
  <2>1. run' = run /\ (answer' = answer \/ answer' = "none")
    BY <1>2 DEF Key, Quit, ToggleHelp, FocusInput, OpenPanel, CycleTheme, Reload, Blur, ClearInput,
                AnswerModal, ClosePreview, ClosePanel, SavePanel, Type, shown
  <2> QED BY <2>1, RestIsNothing
<1>3. CASE Initialised
  BY <1>3, RestIsNothing DEF Initialised, shown
<1>4. CASE \E c \in commands : TakeCommand(c)
  BY <1>4, RestIsNothing DEF TakeCommand, shown
<1> QED BY <1>1, <1>2, <1>3, <1>4

LEMMA ScreenSteps == StreamingInv /\ [TerminalNext]_terminalVars => StreamingInv'
<1> SUFFICES ASSUME StreamingInv, [TerminalNext]_terminalVars PROVE StreamingInv'
  OBVIOUS
<1>1. CASE Key \/ Initialised \/ \E c \in commands : TakeCommand(c)
  BY <1>1, OthersKeep
<1>2. ASSUME NEW q \in Questions, Handle(q) \/ Ask(q) \/ RunStep(q) PROVE StreamingInv'
  BY <1>2, DeliverKeeps, RunStepKeeps DEF Handle
<1>3. CASE UNCHANGED terminalVars
  BY <1>3, RestIsNothing DEF terminalVars, shown
<1> QED BY <1>1, <1>2, <1>3 DEF TerminalNext

-----------------------------------------------------------------------------
(* However many questions are answered at once and however their messages     *)
(* interleave: when all have ended, the chat shows no answer still streaming. *)
THEOREM StreamingSettlesHolds == TerminalSpec => []StreamingSettles
<1>1. StreamingInv => StreamingSettles
  <2> SUFFICES ASSUME StreamingInv, answer = "streaming"
               PROVE  \E q \in Questions : run[q].at \notin {"new", "ended"}
    BY DEF StreamingSettles
  <2>1. PICK q \in Questions : Unfinished(q)
    BY DEF StreamingInv, StreamHasEnd
  <2>2. run[q].at \in {"new", "ended"} => run[q].out = <<>>
    BY DEF StreamingInv, RunsSend, Outs
  <2> QED BY <2>1, <2>2 DEF Unfinished, Finishes
<1>2. TerminalSpec => []StreamingInv
  BY ScreenStarts, ScreenSteps, PTL DEF TerminalSpec
<1> QED BY <1>1, <1>2, PTL

-----------------------------------------------------------------------------
(* ---- The list of providers.                                              *)

(* One more in a list, and one put in another's place.                        *)
LEMMA ListWithOne ==
  ASSUME NEW l \in Seq(Names), NEW n \in Names
  PROVE  /\ Append(l, n) \in Seq(Names) /\ Len(Append(l, n)) = Len(l) + 1 /\ Len(l) \in Nat
         /\ \A i \in 1..Len(l) : i \in 1..Len(l) + 1 /\ Append(l, n)[i] = l[i]
         /\ InList(Append(l, n)) = InList(l) \cup {n}
<1> DEFINE s == Append(l, n)
           len == Len(l)
<1>1. /\ s \in Seq(Names) /\ Len(s) = len + 1 /\ len \in Nat
      /\ \A i \in 1..len : s[i] = l[i]
      /\ s[len + 1] = n
  BY AppendProperties, LenProperties
<1> HIDE DEF s
<1>2. /\ \A i \in 1..len : i \in 1..len + 1
      /\ \A i \in 1..len + 1 : i \in 1..len \/ i = len + 1
      /\ len + 1 \in 1..len + 1
  <2>1. len \in Nat
    BY <1>1
  <2> HIDE DEF len
  <2> QED BY <2>1
<1>3. InList(s) = InList(l) \cup {n}
  BY <1>1, <1>2 DEF InList
<1> QED BY <1>1, <1>2, <1>3 DEF s

LEMMA ListWithOther ==
  ASSUME NEW l \in Seq(Names), NEW n \in Names, NEW i \in 1..Len(l)
  PROVE  /\ [l EXCEPT ![i] = n] \in Seq(Names) /\ Len([l EXCEPT ![i] = n]) = Len(l)
         /\ [l EXCEPT ![i] = n][i] = n /\ \A k \in 1..Len(l) : k # i => [l EXCEPT ![i] = n][k] = l[k]
         /\ InList(l) \subseteq InList([l EXCEPT ![i] = n]) \cup {l[i]}
         /\ n \in InList([l EXCEPT ![i] = n])
<1> DEFINE s == [l EXCEPT ![i] = n]
<1>1. Len(l) \in Nat /\ DOMAIN l = 1..Len(l) /\ \A k \in 1..Len(l) : l[k] \in Names
  BY LenProperties, ElementOfSeq
<1>2. s[i] = n /\ \A k \in 1..Len(l) : k # i => s[k] = l[k]
  BY <1>1
<1>3. s \in Seq(Names) /\ Len(s) = Len(l)
  BY ExceptSeq
<1> HIDE DEF s
<1>4. InList(l) \subseteq InList(s) \cup {l[i]} /\ n \in InList(s)
  BY <1>2, <1>3 DEF InList
<1> QED BY <1>2, <1>3, <1>4 DEF s

(* Others keeps every other name.                                             *)
LEMMA OthersStay ==
  ASSUME NEW l \in Seq(Names), NEW n
  PROVE  Others(l, n) \in Seq(Names) /\ InList(l) \ {n} \subseteq InList(Others(l, n))
<1> DEFINE len == Len(l)
           Eq(f) == f = [i \in 0..len |-> IF i = 0 THEN <<>>
                                          ELSE IF l[i] # n THEN Append(f[i - 1], l[i]) ELSE f[i - 1]]
           next == [i \in 1..len |-> [v \in Seq(Names) |-> IF l[i] # n THEN Append(v, l[i]) ELSE v]]
<1>1. len \in Nat /\ <<>> \in Seq(Names) /\ \A i \in 1..len : l[i] \in Names
  BY LenProperties, ElementOfSeq, EmptySeq
<1>2. next \in [1..len -> [Seq(Names) -> Seq(Names)]]
  <2>1. \A i \in 1..len, v \in Seq(Names) : Append(v, l[i]) \in Seq(Names)
    BY <1>1
  <2> QED BY <2>1
<1>3. PICK g : g \in Recursions(len, Seq(Names), <<>>, next)
  <2> HIDE DEF next
  <2> QED BY <1>1, <1>2, RecursionExists
<1>4. ASSUME NEW i \in 1..len
      PROVE  g[i] = IF l[i] # n THEN Append(g[i - 1], l[i]) ELSE g[i - 1]
  <2>1. g[i - 1] \in Seq(Names) /\ g[i] = next[i][g[i - 1]]
    <3> HIDE DEF next
    <3> QED BY <1>1, <1>3 DEF Recursions
  <2>2. next[i][g[i - 1]] = IF l[i] # n THEN Append(g[i - 1], l[i]) ELSE g[i - 1]
    BY <2>1
  <2> QED BY <2>1, <2>2
<1> HIDE DEF next
<1>5. Eq(g)
  <2>1. g \in [0..len -> Seq(Names)] /\ g[0] = <<>>
    BY <1>3 DEF Recursions
  <2>2. \A i \in 0..len : i # 0 => i \in 1..len
    BY <1>1
  <2> QED BY <1>4, <2>1, <2>2
<1> DEFINE kept == CHOOSE f : Eq(f)
<1>6. Eq(kept)
  BY <1>5
<1>7. Others(l, n) = kept[len]
  BY DEF Others
<1> HIDE DEF kept
<1>8. kept[0] = <<>> /\ \A i \in 1..len : kept[i] = IF l[i] # n THEN Append(kept[i - 1], l[i]) ELSE kept[i - 1]
  <2>1. 0 \in 0..len /\ \A i \in 1..len : i \in 0..len /\ i # 0
    BY <1>1
  <2>2. kept[0] = <<>>
    BY <1>6, <2>1
  <2>3. ASSUME NEW i \in 1..len
        PROVE  kept[i] = IF l[i] # n THEN Append(kept[i - 1], l[i]) ELSE kept[i - 1]
    BY <1>6, <2>1
  <2> QED BY <2>2, <2>3
<1> DEFINE Good == {m \in 0..len : /\ kept[m] \in Seq(Names)
                                   /\ \A k \in 1..m : l[k] = n \/ l[k] \in InList(kept[m])}
<1>9. 0 \in Good
  <2>1. 0 \in 0..len /\ \A k \in 1..0 : FALSE
    <3>1. len \in Nat
      BY <1>1
    <3> HIDE DEF len
    <3> QED BY <3>1
  <2>2. kept[0] \in Seq(Names)
    BY <1>1, <1>8
  <2> QED BY <2>1, <2>2
<1>10. ASSUME NEW m \in 1..len, m - 1 \in Good PROVE m \in Good
  <2>1. kept[m - 1] \in Seq(Names) /\ \A k \in 1..m - 1 : l[k] = n \/ l[k] \in InList(kept[m - 1])
    BY <1>10
  <2>2. m \in 0..len /\ \A k \in 1..m : k \in 1..m - 1 \/ k = m
    BY <1>1
  <2>3. CASE l[m] # n
    <3>1. kept[m] = Append(kept[m - 1], l[m]) /\ l[m] \in Names
      BY <1>1, <1>8, <2>3
    <3>2. kept[m] \in Seq(Names) /\ InList(kept[m]) = InList(kept[m - 1]) \cup {l[m]}
      BY <2>1, <3>1, ListWithOne
    <3> QED BY <2>1, <2>2, <3>2
  <2>4. CASE l[m] = n
    <3>1. kept[m] = kept[m - 1]
      BY <1>8, <2>4
    <3> QED BY <2>1, <2>2, <2>4, <3>1
  <2> QED BY <2>3, <2>4
<1>11. len \in Good
  <2>1. len \in Nat
    BY <1>1
  <2> HIDE DEF Good, len
  <2>2. 0..len \subseteq Good
    BY <1>9, <1>10, <2>1, UpTo
  <2>3. len \in 0..len
    BY <2>1
  <2> QED BY <2>2, <2>3
<1>12. kept[len] \in Seq(Names) /\ \A k \in 1..len : l[k] = n \/ l[k] \in InList(kept[len])
  BY <1>11
<1> QED BY <1>7, <1>12 DEF InList

-----------------------------------------------------------------------------
(* What is in the file is in the memory, and in an open panel, unless the     *)
(* user asked to remove it; and a slice the two share is the same, but for    *)
(* what was appended to the panel's and not saved.                            *)
Configuration == [list : Seq(Names), current : Names \cup {NoName}]

InPlaces ==
  /\ InList(file.list) \subseteq InList(memory.list) \cup asked
  /\ mode # "hidden" => InList(file.list) \subseteq InList(list) \cup asked

SliceOK ==
  Len(memory.list) <= Len(list) /\ \A i \in 1..Len(memory.list) : memory.list[i] = list[i]

ConfigInv ==
  /\ file \in Configuration /\ memory \in Configuration /\ list \in Seq(Names)
  /\ torn \/ InPlaces
  /\ shared => SliceOK

LEMMA EmptyConfig == Empty \in Configuration
  BY EmptySeq DEF Empty, Configuration

LEMMA ConfigStarts == ConfigInit => ConfigInv
<1> SUFFICES ASSUME ConfigInit PROVE ConfigInv
  OBVIOUS
<1>1. <<>> \in Seq(Names) /\ \A m, n \in Names : <<n>> \in Seq(Names) /\ <<m, n>> \in Seq(Names)
  BY EmptySeq
<1>2. file \in Configuration
  <2>1. \A l \in Seq(Names), n \in Names : Config(l, n) \in Configuration
    BY DEF Config, Configuration
  <2>2. CASE file = Empty
    BY <2>2, EmptyConfig
  <2>3. ASSUME NEW n \in Names, file = Config(<<n>>, n) PROVE file \in Configuration
    BY <1>1, <2>1, <2>3
  <2>4. ASSUME NEW m \in Names, NEW n \in Names, file = Config(<<m, n>>, n) PROVE file \in Configuration
    BY <1>1, <2>1, <2>4
  <2> QED BY <2>2, <2>3, <2>4 DEF ConfigInit
<1>3. InPlaces
  BY DEF ConfigInit, InPlaces
<1> QED BY <1>1, <1>2, <1>3 DEF ConfigInit, ConfigInv

(* What the file holds and the next file does not, was asked to be removed.   *)
Kept == \A n \in InList(file.list) \ InList(file'.list) : n \in asked' \/ torn'

LEMMA UntouchedKeeps == file' = file => Kept
  BY DEF Kept

LEMMA LoadKeeps ==
  ASSUME ConfigInv, Load, ~shared', file' = file, list' = list, asked' = asked,
         mode' = "hidden"
  PROVE  ConfigInv' /\ Kept
<1>1. memory' \in Configuration
  BY EmptyConfig DEF ConfigInv, Load, Unreadable
<1>2. torn' \/ (~torn /\ memory' = file) \/ torn
  BY DEF Load, Unreadable
<1>3. torn => torn'
  BY DEF Load, Unreadable
<1>4. torn' \/ InPlaces'
  BY <1>2, <1>3 DEF InPlaces
<1> QED BY <1>1, <1>4, UntouchedKeeps DEF ConfigInv

(* The panel is loaded, moved in or left.                                     *)
LEMMA LooksKeep ==
  ASSUME ConfigInv, UNCHANGED <<file, memory, asked, torn>>,
         \/ list' = memory.list /\ ~shared'
         \/ list' = list /\ shared' = shared /\ (mode # "hidden" \/ mode' = mode)
  PROVE  ConfigInv' /\ Kept
<1>1. memory.list \in Seq(Names)
  BY DEF ConfigInv, Configuration
<1>2. torn' \/ InPlaces'
  BY DEF ConfigInv, InPlaces
<1>3. shared' => SliceOK'
  BY DEF ConfigInv, SliceOK
<1> QED BY <1>1, <1>2, <1>3, UntouchedKeeps DEF ConfigInv

(* A save of the panel's list that succeeds makes the three places one.       *)
LEMMA SavedKeeps ==
  ASSUME ConfigInv, NEW l \in Seq(Names), NEW n \in Names, Saved(l, n), list' = l,
         ~torn => InList(file.list) \subseteq InList(l) \cup asked'
  PROVE  ConfigInv' /\ Kept
<1>1. file' = Config(l, n) /\ memory' = Config(l, n) /\ torn' = torn
  BY DEF Saved, Saves
<1>2. Config(l, n) \in Configuration /\ Config(l, n).list = l
  BY DEF Config, Configuration
<1>3. InPlaces' /\ SliceOK'
  <2>1. Len(l) \in Nat
    BY LenProperties
  <2>2. Len(l) <= Len(l)
    BY <2>1
  <2> QED BY <1>1, <1>2, <2>2 DEF InPlaces, SliceOK
<1>4. Kept
  BY <1>1, <1>2 DEF Kept
<1> QED BY <1>1, <1>2, <1>3, <1>4 DEF ConfigInv

(* One that fails leaves the file, or leaves it empty.                        *)
LEMMA FailedKeeps ==
  ASSUME ConfigInv, SaveFails, memory' \in Configuration, list' \in Seq(Names),
         mode' = mode,
         InList(memory.list) \subseteq InList(memory'.list) \cup asked',
         InList(list) \subseteq InList(list') \cup asked',
         asked \subseteq asked',
         shared' => SliceOK'
  PROVE  ConfigInv' /\ Kept
<1>1. file' \in Configuration
  BY EmptyConfig DEF SaveFails, ConfigInv
<1>2. (file' = file /\ torn' = torn) \/ torn'
  BY DEF SaveFails
<1>3. torn' \/ InPlaces'
  <2>1. CASE file' = file /\ torn' = torn
    BY <2>1 DEF ConfigInv, InPlaces
  <2>2. CASE torn'
    BY <2>2
  <2> QED BY <1>2, <2>1, <2>2
<1>4. Kept
  BY <1>2 DEF Kept
<1> QED BY <1>1, <1>3, <1>4 DEF ConfigInv

LEMMA ChoiceKeeps ==
  ASSUME ConfigInv, SaveChoice
  PROVE  ConfigInv' /\ Kept
<1>1. /\ list' = list /\ asked' = asked /\ mode = "list" /\ list \in Seq(Names)
      /\ list[index] \in Names /\ memory \in Configuration
  BY ElementOfSeq DEF SaveChoice, ConfigInv
<1>2. CASE Saved(list, list[index])
  BY <1>1, <1>2, SavedKeeps DEF ConfigInv, InPlaces
<1>3. CASE SaveFails /\ UNCHANGED <<memory, shared, mode, savedMsg>>
  <2>1. shared' => SliceOK'
    BY <1>1, <1>3 DEF ConfigInv, SliceOK
  <2> QED BY <1>1, <1>3, <2>1, FailedKeeps
<1> QED BY <1>2, <1>3 DEF SaveChoice

LEMMA EditKeeps ==
  ASSUME ConfigInv, NEW n \in Names, SaveEdit(n)
  PROVE  ConfigInv' /\ Kept
<1> DEFINE i == selected
           l == [list EXCEPT ![i] = n]
<1>1. mode = "edit" /\ i \in 1..Len(list) /\ list' = l /\ list \in Seq(Names) /\ memory \in Configuration
  BY DEF SaveEdit, ConfigInv
<1>2. /\ l \in Seq(Names) /\ Len(l) = Len(list) /\ l[i] = n
      /\ \A k \in 1..Len(list) : k # i => l[k] = list[k]
      /\ InList(list) \subseteq InList(l) \cup {list[i]} /\ n \in InList(l)
  <2>1. i \in 1..Len(list) /\ list \in Seq(Names)
    BY <1>1
  <2> HIDE DEF i
  <2> QED BY <2>1, ListWithOther
<1> HIDE DEF l, i
<1>3. CASE Saved(l, n) /\ asked' = (asked \cup {list[i]}) \ {n}
  <2>1. ~torn => InList(file.list) \subseteq InList(l) \cup asked'
    BY <1>1, <1>2, <1>3 DEF ConfigInv, InPlaces
  <2> QED BY <1>1, <1>2, <1>3, <2>1, SavedKeeps
<1>4. CASE /\ SaveFails /\ UNCHANGED <<shared, mode, savedMsg>>
           /\ asked' = asked \cup {list[i]}
           /\ memory' = IF shared /\ i <= Len(memory.list) THEN [memory EXCEPT !.list[i] = n] ELSE memory
  <2>1. CASE shared /\ i <= Len(memory.list)
    <3> DEFINE m == [memory.list EXCEPT ![i] = n]
    <3>1. memory.list \in Seq(Names) /\ Len(memory.list) \in Nat
      BY <1>1, LenProperties DEF Configuration
    <3>2. i \in 1..Len(memory.list)
      BY <1>1, <2>1, <3>1
    <3>3. /\ m \in Seq(Names) /\ Len(m) = Len(memory.list) /\ m[i] = n
          /\ \A k \in 1..Len(memory.list) : k # i => m[k] = memory.list[k]
          /\ InList(memory.list) \subseteq InList(m) \cup {memory.list[i]}
      BY <3>1, <3>2, ListWithOther
    <3>4. memory'.list = m /\ memory' \in Configuration
      <4>1. memory' = [memory EXCEPT !.list = m]
        BY <1>4, <2>1
      <4> HIDE DEF m
      <4> QED BY <1>1, <3>3, <4>1 DEF Configuration
    <3> HIDE DEF m
    <3>5. /\ Len(memory.list) <= Len(list) /\ memory.list[i] = list[i]
          /\ \A k \in 1..Len(memory.list) : memory.list[k] = list[k]
      BY <2>1, <3>2 DEF ConfigInv, SliceOK
    <3>6. \A k \in 1..Len(memory.list) : k \in 1..Len(list)
      BY <1>1, <3>1, <3>5, LenProperties
    <3>7. SliceOK'
      <4>1. \A k \in 1..Len(m) : m[k] = l[k]
        BY <1>2, <3>3, <3>5, <3>6
      <4> QED BY <1>1, <1>2, <3>3, <3>4, <3>5, <4>1 DEF SliceOK
    <3> QED BY <1>1, <1>2, <1>4, <3>3, <3>4, <3>5, <3>7, FailedKeeps
  <2>2. CASE ~(shared /\ i <= Len(memory.list))
    <3>1. memory' = memory
      BY <1>4, <2>2
    <3>2. shared' => SliceOK'
      <4> SUFFICES ASSUME shared PROVE SliceOK'
        BY <1>4
      <4>1. Len(memory.list) <= Len(list) /\ \A k \in 1..Len(memory.list) : memory.list[k] = list[k]
        BY DEF ConfigInv, SliceOK
      <4>2. ~(i <= Len(memory.list)) /\ Len(memory.list) \in Nat /\ Len(list) \in Nat
        BY <1>1, <2>2, LenProperties DEF Configuration
      <4>3. \A k \in 1..Len(memory.list) : k # i /\ k \in 1..Len(list)
        BY <1>1, <4>1, <4>2
      <4> QED BY <1>1, <1>2, <3>1, <4>1, <4>3 DEF SliceOK
    <3> QED BY <1>1, <1>2, <1>4, <3>1, <3>2, FailedKeeps
  <2> QED BY <2>1, <2>2
<1> QED BY <1>1, <1>3, <1>4 DEF SaveEdit, i

LEMMA AddKeepsFile ==
  ASSUME ConfigInv, NEW n \in Names, SaveAdd(n)
  PROVE  ConfigInv' /\ Kept
<1> DEFINE l == Append(list, n)
<1>1. mode = "add" /\ list' = l /\ list \in Seq(Names) /\ memory \in Configuration
  BY DEF SaveAdd, ConfigInv
<1>2. /\ l \in Seq(Names) /\ Len(l) = Len(list) + 1 /\ Len(list) \in Nat
      /\ \A k \in 1..Len(list) : l[k] = list[k]
      /\ InList(l) = InList(list) \cup {n}
  BY <1>1, ListWithOne
<1> HIDE DEF l
<1>3. CASE Saved(l, n) /\ asked' = asked \ {n}
  <2>1. ~torn => InList(file.list) \subseteq InList(l) \cup asked'
    BY <1>1, <1>2, <1>3 DEF ConfigInv, InPlaces
  <2> QED BY <1>1, <1>2, <1>3, <2>1, SavedKeeps
<1>4. CASE SaveFails /\ shared' \in {shared, FALSE} /\ UNCHANGED <<memory, mode, savedMsg, asked>>
  <2>1. shared' => SliceOK'
    <3> SUFFICES ASSUME shared PROVE SliceOK'
      BY <1>4
    <3>1. Len(memory.list) <= Len(list) /\ \A k \in 1..Len(memory.list) : memory.list[k] = list[k]
      BY DEF ConfigInv, SliceOK
    <3>2. Len(memory.list) \in Nat
      BY <1>1, LenProperties DEF Configuration
    <3>3. Len(memory.list) <= Len(l) /\ \A k \in 1..Len(memory.list) : k \in 1..Len(list)
      BY <1>2, <3>1, <3>2
    <3> QED BY <1>1, <1>2, <1>4, <3>1, <3>3 DEF SliceOK
  <2> QED BY <1>1, <1>2, <1>4, <2>1, FailedKeeps
<1> QED BY <1>1, <1>3, <1>4 DEF SaveAdd

LEMMA DeleteKeeps ==
  ASSUME ConfigInv, DeleteProvider
  PROVE  ConfigInv' /\ Kept
<1> DEFINE n == list[index]
           rest == Others(memory.list, n)
<1>1. /\ mode = "list" /\ mode' = mode /\ memory' = WithoutProvider(n) /\ ~shared'
      /\ asked' = asked \cup {n} /\ n \in Names
      /\ list \in Seq(Names) /\ memory \in Configuration /\ memory.list \in Seq(Names)
  BY ElementOfSeq DEF DeleteProvider, ConfigInv, Configuration
<1>2. rest \in Seq(Names) /\ InList(memory.list) \ {n} \subseteq InList(rest)
  BY <1>1, OthersStay
<1>3. memory'.list = rest /\ memory' \in Configuration
  <2>1. rest # <<>> => rest[1] \in Names
    <3>1. rest # <<>> => 1 \in 1..Len(rest)
      <4> HIDE DEF rest
      <4> QED BY <1>2, EmptySeq
    <3> HIDE DEF rest
    <3> QED BY <1>2, <3>1, ElementOfSeq
  <2>2. memory.current \in Names \cup {NoName}
    BY <1>1 DEF Configuration
  <2>3. memory' = Config(rest, IF memory.current # n THEN memory.current
                               ELSE IF rest # <<>> THEN rest[1] ELSE NoName)
    BY <1>1 DEF WithoutProvider
  <2> HIDE DEF rest, n
  <2> QED BY <1>2, <2>1, <2>2, <2>3 DEF Config, Configuration
<1> HIDE DEF n, rest
<1>4. CASE Saves(memory') /\ list' = memory'.list
  <2>1. file' = memory' /\ torn' = torn
    BY <1>4 DEF Saves
  <2>2. InPlaces'
    BY <1>4, <2>1 DEF InPlaces
  <2>3. Kept
    BY <1>1, <1>2, <1>3, <2>1 DEF Kept, ConfigInv, InPlaces
  <2> QED BY <1>1, <1>2, <1>3, <1>4, <2>1, <2>2, <2>3 DEF ConfigInv
<1>5. CASE SaveFails /\ list' = list
  BY <1>1, <1>2, <1>3, <1>5, FailedKeeps
<1> QED BY <1>4, <1>5 DEF DeleteProvider

LEMMA ConfigSteps == ConfigInv /\ [ConfigNext]_configVars => ConfigInv' /\ Kept
<1> SUFFICES ASSUME ConfigInv, [ConfigNext]_configVars PROVE ConfigInv' /\ Kept
  OBVIOUS
<1>1. CASE ReloadConfig
  BY <1>1, LoadKeeps DEF ReloadConfig
<1>2. CASE ConfigSaved
  BY <1>2, LoadKeeps DEF ConfigSaved
<1>3. CASE Show \/ LoadProviders
  BY <1>3, LooksKeep DEF Show, LoadProviders
<1>4. CASE DeletePanics \/ Leave \/ Move \/ OpenForm
  BY <1>4, LooksKeep DEF DeletePanics, Leave, Move, OpenForm
<1>5. CASE SaveChoice
  BY <1>5, ChoiceKeeps
<1>6. CASE DeleteProvider
  BY <1>6, DeleteKeeps
<1>7. ASSUME NEW n \in Names, SaveEdit(n) PROVE ConfigInv' /\ Kept
  BY <1>7, EditKeeps
<1>8. ASSUME NEW n \in Names, SaveAdd(n) PROVE ConfigInv' /\ Kept
  BY <1>8, AddKeepsFile
<1>9. CASE UNCHANGED configVars
  BY <1>9, LooksKeep DEF configVars
<1> QED BY <1>1, <1>2, <1>3, <1>4, <1>5, <1>6, <1>7, <1>8, <1>9 DEF ConfigNext

(* For any number of names and of failed saves, a provider leaves the file    *)
(* only when the user has asked for it, unless a write failed midway or the   *)
(* file could not be read (llm_config.go:82-158, 229-246;                     *)
(* config_panel.go:258-356, 460-464).                                         *)
THEOREM SavedStaysHolds == ConfigSpec => SavedStays
<1>1. ConfigInv /\ [ConfigNext]_configVars => [Kept]_configVars
  BY ConfigSteps
<1>2. Kept <=> \A n \in InList(file.list) \ InList(file'.list) : n \in asked' \/ torn'
  BY DEF Kept
<1> QED BY <1>1, <1>2, ConfigStarts, ConfigSteps, PTL DEF ConfigSpec, SavedStays
=============================================================================
