----------------------------- MODULE Iteration ----------------------------
(***************************************************************************)
(* Loops over a sequence.  The node replays a chain block by block and a   *)
(* block transaction by transaction; both loops are recursive functions on *)
(* the positions of the sequence.  The lemmas say what such a loop gives   *)
(* for the empty sequence and for a longer one, and what all of its turns  *)
(* keep.  Step is the body of the loop: the modules that reason about a    *)
(* loop instantiate this one with theirs.                                  *)
(*                                                                         *)
(* Induction is by the least counterexample: LeastNat reads the library's  *)
(* theorem that the order of the natural numbers is well-founded.          *)
(***************************************************************************)
EXTENDS Integers, Sequences, WellFoundedInduction, TLAPS

CONSTANT Step(_, _)

Run(start, s) ==
    LET r[n \in 0..Len(s)] == IF n = 0 THEN start ELSE Step(r[n - 1], s[n])
    IN  r[Len(s)]

\* A set of natural numbers that is not empty has a least element.
LEMMA LeastNat ==
    ASSUME NEW T, T \subseteq Nat, T # {}
    PROVE  \E n \in T : \A m \in T : n <= m
<1> DEFINE R == {p \in Nat \X Nat : p[1] < p[2]}
<1>1. IsWellFoundedOn(R, Nat)
  BY NatLessThanWellFounded, Zenon DEF OpToRel
<1>2. PICK n \in T : \A m \in T : <<m, n>> \notin R
  <2> HIDE DEF R
  <2> QED
    BY <1>1, WFMin
<1>3. \A m \in T : ~(m < n)
  BY <1>2
<1> QED
  BY <1>3

\* f holds the results of the first n turns of the loop over s.
Trace(f, start, s, n) ==
    f = [k \in 0..n |-> IF k = 0 THEN start ELSE Step(f[k - 1], s[k])]

\* The loop has a result after each of its turns.
LEMMA TraceExists ==
    ASSUME NEW start, NEW s, NEW n \in Nat
    PROVE  \E f : Trace(f, start, s, n)
<1> DEFINE Bad == {k \in Nat : ~\E f : Trace(f, start, s, k)}
<1> SUFFICES ASSUME Bad # {}
             PROVE  FALSE
  OBVIOUS
<1>1. PICK k \in Bad : \A m \in Bad : k <= m
  BY LeastNat
<1>2. k # 0
  <2> DEFINE f == [j \in 0..0 |-> start]
  <2>1. Trace(f, start, s, 0)
    BY DEF Trace
  <2> QED
    BY <2>1
<1>3. k - 1 \in Nat /\ k - 1 \notin Bad
  BY <1>1, <1>2
<1>4. PICK f : Trace(f, start, s, k - 1)
  BY <1>3
<1> DEFINE g == [j \in 0..k |-> IF j = k THEN Step(f[k - 1], s[k]) ELSE f[j]]
<1>5. Trace(g, start, s, k)
  <2>1. ASSUME NEW j \in 0..k
        PROVE  g[j] = IF j = 0 THEN start ELSE Step(g[j - 1], s[j])
    <3>1. CASE j = k
      BY <1>2, <1>3, <3>1
    <3>2. CASE j # k
      <4>1. j \in 0..(k-1) /\ g[j] = f[j]
        BY <3>2, <1>3
      <4>2. f[j] = IF j = 0 THEN start ELSE Step(f[j - 1], s[j])
        BY <4>1, <1>4 DEF Trace
      <4>3. j # 0 => j - 1 \in 0..k /\ j - 1 # k /\ g[j - 1] = f[j - 1]
        BY <1>3, <4>1
      <4> HIDE DEF g
      <4> QED
        BY <4>1, <4>2, <4>3
    <3> QED
      BY <3>1, <3>2
  <2> HIDE DEF g
  <2>2. g = [j \in 0..k |-> g[j]]
    BY DEF g
  <2> QED
    BY <2>1, <2>2 DEF Trace
<1> QED
  BY <1>5

\* Two sequences with the same first elements have the same first results.
LEMMA TraceUnique ==
    ASSUME NEW start, NEW s, NEW n \in Nat, NEW t, NEW m \in Nat, m <= n,
           \A k \in 1..m : s[k] = t[k],
           NEW f, Trace(f, start, s, n), NEW g, Trace(g, start, t, m)
    PROVE  \A k \in 0..m : f[k] = g[k]
<1> DEFINE Bad == {k \in 0..m : f[k] # g[k]}
<1> SUFFICES ASSUME Bad # {}
             PROVE  FALSE
  OBVIOUS
<1>1. PICK k \in Bad : \A j \in Bad : k <= j
  <2>1. Bad \subseteq Nat
    OBVIOUS
  <2> HIDE DEF Bad
  <2> QED
    BY <2>1, LeastNat
<1>2. f[0] = start /\ g[0] = start
  BY DEF Trace
<1>3. k # 0 /\ k - 1 \in 0..m /\ k \in 1..m /\ k \in 0..n /\ f[k - 1] = g[k - 1]
  BY <1>1, <1>2
<1>4. f[k] = Step(f[k - 1], s[k])
  BY <1>3 DEF Trace
<1>5. g[k] = Step(g[k - 1], t[k])
  BY <1>3 DEF Trace
<1> QED
  BY <1>3, <1>4, <1>5
 
\* Run is the last result.
LEMMA RunTrace ==
    ASSUME NEW start, NEW S, NEW s \in Seq(S)
    PROVE  \E f : Trace(f, start, s, Len(s)) /\ Run(start, s) = f[Len(s)]
<1> DEFINE r == CHOOSE f : f = [n \in 0..Len(s) |-> IF n = 0 THEN start ELSE Step(f[n - 1], s[n])]
<1>1. \E f : f = [n \in 0..Len(s) |-> IF n = 0 THEN start ELSE Step(f[n - 1], s[n])]
  <2>1. Len(s) \in Nat
    OBVIOUS
  <2>2. PICK f : Trace(f, start, s, Len(s))
    BY <2>1, TraceExists
  <2> QED
    BY <2>2 DEF Trace
<1>2. r = [n \in 0..Len(s) |-> IF n = 0 THEN start ELSE Step(r[n - 1], s[n])]
  BY <1>1
<1>3. Run(start, s) = r[Len(s)]
  BY DEF Run
<1> QED
  BY <1>2, <1>3 DEF Trace

\* Nothing to do: the start is the result.
LEMMA RunEmpty ==
    ASSUME NEW start
    PROVE  Run(start, <<>>) = start
<1>1. PICK f : Trace(f, start, <<>>, 0) /\ Run(start, <<>>) = f[0]
  <2> DEFINE s == <<>>
  <2>1. s \in Seq({}) /\ Len(s) = 0
    OBVIOUS
  <2> HIDE DEF s
  <2>2. PICK f : Trace(f, start, s, Len(s)) /\ Run(start, s) = f[Len(s)]
    BY <2>1, RunTrace
  <2> QED
    BY <2>1, <2>2 DEF s
<1> QED
  BY <1>1 DEF Trace

\* One more element: one more turn.
LEMMA RunAppend ==
    ASSUME NEW start, NEW S, NEW s \in Seq(S), NEW x \in S
    PROVE  Run(start, Append(s, x)) = Step(Run(start, s), x)
<1> DEFINE t == Append(s, x)
           n == Len(s)
<1>1. t \in Seq(S) /\ n \in Nat /\ Len(t) = n + 1 /\ t[n + 1] = x /\ \A k \in 1..n : t[k] = s[k]
  OBVIOUS
<1> HIDE DEF t, n
<1>2. PICK f : Trace(f, start, s, n) /\ Run(start, s) = f[n]
  BY RunTrace DEF n
<1>3. PICK g : Trace(g, start, t, n + 1) /\ Run(start, t) = g[n + 1]
  BY <1>1, RunTrace
<1>4. g[n] = f[n]
  BY <1>1, <1>2, <1>3, TraceUnique
<1>5. g[n + 1] = Step(g[n], t[n + 1])
  <2>1. n + 1 \in 0..(n + 1) /\ n + 1 # 0 /\ (n + 1) - 1 = n
    BY <1>1
  <2> QED
    BY <1>3, <2>1 DEF Trace
<1> QED
  BY <1>1, <1>2, <1>3, <1>4, <1>5 DEF t

\* What holds at the start and is kept by every turn holds at the end; it may
\* depend on the number of turns.
LEMMA RunKeeps ==
    ASSUME NEW start, NEW S, NEW s \in Seq(S), NEW T, start \in T[0],
           \A k \in 1..Len(s) : \A r \in T[k - 1] : Step(r, s[k]) \in T[k]
    PROVE  Run(start, s) \in T[Len(s)]
<1>1. PICK f : Trace(f, start, s, Len(s)) /\ Run(start, s) = f[Len(s)]
  BY RunTrace
<1> DEFINE Bad == {k \in 0..Len(s) : f[k] \notin T[k]}
<1> SUFFICES ASSUME Bad # {}
             PROVE  FALSE
  BY <1>1
<1>2. PICK k \in Bad : \A j \in Bad : k <= j
  <2>1. Bad \subseteq Nat
    OBVIOUS
  <2> HIDE DEF Bad
  <2> QED
    BY <2>1, LeastNat
<1>3. f[0] = start
  BY <1>1 DEF Trace
<1>4. k # 0 /\ k - 1 \in 0..Len(s) /\ k \in 1..Len(s) /\ f[k - 1] \in T[k - 1]
  BY <1>2, <1>3
<1>5. f[k] = Step(f[k - 1], s[k])
  BY <1>1, <1>4 DEF Trace
<1> QED
  BY <1>4, <1>5
===========================================================================
