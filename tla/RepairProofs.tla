---------------------------- MODULE RepairProofs ----------------------------
(***************************************************************************)
(* Proofs about Repair: what the scan, the repairs and the search for the  *)
(* object do to any text.  The objects are followed by a machine, Reads,   *)
(* that reads JSON strictly; the functions of the code, which read anything*)
(* at all, agree with it as far as a text is the beginning of an object.   *)
(***************************************************************************)
EXTENDS Algorithms, SequenceTheorems, WellFoundedInduction, TLAPS

-----------------------------------------------------------------------------
(* Induction.  The theorems of the library about it have an operator as a parameter, but *)
(* its theorem about least elements has a set.                                           *)

Less == {pair \in Nat \X Nat : pair[1] < pair[2]}

LEMMA LessFounded == IsWellFoundedOn(Less, Nat)
BY NatLessThanWellFounded DEF OpToRel, Less

LEMMA Smallest ==
  ASSUME NEW T, T \subseteq Nat, T # {}
  PROVE  \E n \in T : \A m \in T : n <= m
<1>1. PICK n \in T : \A m \in T : <<m, n>> \notin Less
  BY LessFounded, WFMin
<1>2. \A m \in T : m \in Nat /\ n \in Nat /\ ~(m < n)
  BY <1>1 DEF Less
<1> QED
  BY <1>2

LEMMA Induction ==
  ASSUME NEW T, 0 \in T, \A n \in Nat : n \in T => n + 1 \in T
  PROVE  \A n \in Nat : n \in T
<1> SUFFICES ASSUME Nat \ T # {} PROVE FALSE
  OBVIOUS
<1>1. PICK n \in Nat \ T : \A m \in Nat \ T : n <= m
  BY Smallest
<1>2. n # 0 /\ n - 1 \in Nat
  BY <1>1
<1>3. n - 1 \in T
  BY <1>1, <1>2
<1> QED
  BY <1>1, <1>2, <1>3

\* A recursive definition over 0 .. N defines a function.
LEMMA Recursion ==
  ASSUME NEW S, NEW base \in S, NEW N \in Nat, NEW F \in [1 .. N -> [S -> S]]
  PROVE  \E f \in [0 .. N -> S] : /\ f[0] = base
                                  /\ \A i \in 1 .. N : f[i] = F[i][f[i - 1]]
<1> DEFINE Upto(n) == \E f \in [0 .. n -> S] : /\ f[0] = base
                                               /\ \A i \in 1 .. n : f[i] = F[i][f[i - 1]]
           T == {n \in Nat : n <= N => Upto(n)}
<1>1. 0 \in T
  <2> DEFINE f == [i \in 0 .. 0 |-> base]
  <2>1. f \in [0 .. 0 -> S] /\ f[0] = base
    OBVIOUS
  <2>2. \A i \in 1 .. 0 : f[i] = F[i][f[i - 1]]
    OBVIOUS
  <2>3. Upto(0)
    <3> HIDE DEF f
    <3> QED
      BY <2>1, <2>2
  <2> QED
    BY <2>3
<1>2. ASSUME NEW n \in Nat, n \in T PROVE n + 1 \in T
  <2> SUFFICES ASSUME n + 1 <= N PROVE Upto(n + 1)
    OBVIOUS
  <2>1. PICK f \in [0 .. n -> S] : f[0] = base /\ \A i \in 1 .. n : f[i] = F[i][f[i - 1]]
    BY <1>2
  <2> DEFINE g == [i \in 0 .. n + 1 |-> IF i = n + 1 THEN F[n + 1][f[n]] ELSE f[i]]
  <2>2. f[n] \in S /\ F[n + 1] \in [S -> S]
    BY <2>1
  <2>3. F[n + 1][f[n]] \in S
    BY <2>2
  <2>4. g \in [0 .. n + 1 -> S] /\ g[0] = base
    BY <2>1, <2>3
  <2>5. ASSUME NEW i \in 1 .. n + 1 PROVE g[i] = F[i][g[i - 1]]
    <3>1. g[i - 1] = f[i - 1]
      OBVIOUS
    <3>2. CASE i = n + 1
      BY <3>1, <3>2
    <3>3. CASE i # n + 1
      BY <2>1, <3>1, <3>3
    <3> QED
      BY <3>2, <3>3
  <2> QED
    BY <2>4, <2>5
<1>3. \A n \in Nat : n \in T
  <2> HIDE DEF T
  <2> QED
    BY <1>1, <1>2, Induction
<1> QED
  BY <1>3
-----------------------------------------------------------------------------
(* The recursive functions of Repair *)

Closers == {"rbrace", "rbrack"}
Flags == [inString : BOOLEAN, escaped : BOOLEAN]

LEMMA ScanIs ==
  ASSUME NEW X, NEW t \in Seq(X)
  PROVE  /\ Scan(t) \in [0 .. Len(t) -> Flags]
         /\ Scan(t)[0] = [inString |-> FALSE, escaped |-> FALSE]
         /\ \A i \in 1 .. Len(t) : Scan(t)[i] = Step(Scan(t)[i - 1], t[i])
<1> DEFINE N == Len(t)
           base == [inString |-> FALSE, escaped |-> FALSE]
           Body(f) == [i \in 0 .. N |-> IF i = 0 THEN base ELSE Step(f[i - 1], t[i])]
           F == [i \in 1 .. N |-> [s \in Flags |-> Step(s, t[i])]]
<1>0. N \in Nat
  OBVIOUS
<1>1. Scan(t) = CHOOSE f : f = Body(f)
  BY DEF Scan
<1>2. \A s \in Flags : \A token : Step(s, token) \in Flags
  BY DEF Flags, Step
<1>3. base \in Flags
  BY DEF Flags
<1>4. F \in [1 .. N -> [Flags -> Flags]]
  BY <1>2
<1> HIDE DEF N, base
<1>5. PICK f \in [0 .. N -> Flags] : f[0] = base /\ \A i \in 1 .. N : f[i] = F[i][f[i - 1]]
  <2> HIDE DEF F
  <2>1. \E f \in [0 .. N -> Flags] : f[0] = base /\ \A i \in 1 .. N : f[i] = F[i][f[i - 1]]
    BY <1>0, <1>3, <1>4, Recursion
  <2> QED
    BY <2>1
<1>6. \A i \in 1 .. N : f[i - 1] \in Flags /\ f[i] = Step(f[i - 1], t[i])
  <2>1. \A i \in 1 .. N : f[i - 1] \in Flags
    BY <1>0, <1>5
  <2> QED
    BY <1>5, <2>1
<1>7. f = Body(f)
  <2>1. \A i \in 0 .. N : i # 0 => i \in 1 .. N
    BY <1>0
  <2>2. \A i \in 0 .. N : f[i] = Body(f)[i]
    BY <1>5, <1>6, <2>1
  <2>3. f = [i \in 0 .. N |-> f[i]]
    BY <1>5
  <2> HIDE DEF F
  <2> QED
    BY <2>2, <2>3
<1> DEFINE scan == Scan(t)
<1>8. scan = Body(scan)
  <2> HIDE DEF Body
  <2> QED
    BY <1>1, <1>7
<1> HIDE DEF scan
<1>9. scan[0] = base /\ \A i \in 1 .. N : scan[i] = Step(scan[i - 1], t[i])
  <2>1. \A i \in 0 .. N : scan[i] = Body(scan)[i]
    BY <1>8
  <2> QED
    BY <1>0, <2>1
<1> DEFINE T == {n \in Nat : n <= N => scan[n] \in Flags}
<1>10. 0 \in T
  BY <1>3, <1>9
<1>11. ASSUME NEW n \in Nat, n \in T PROVE n + 1 \in T
  BY <1>0, <1>2, <1>9, <1>11
<1>12. \A n \in Nat : n \in T
  <2> HIDE DEF T
  <2> QED
    BY <1>10, <1>11, Induction
<1>13. scan \in [0 .. N -> Flags]
  <2>1. \A i \in 0 .. N : scan[i] \in Flags
    BY <1>0, <1>12
  <2>2. scan = [i \in 0 .. N |-> scan[i]]
    BY <1>8
  <2> QED
    BY <2>1, <2>2
<1> QED
  BY <1>9, <1>13 DEF scan, N, base

LEMMA ReadOnStack ==
  ASSUME NEW stack \in Seq(Closers), NEW token
  PROVE  Read(stack, token) \in Seq(Closers)
<1>1. Closer(token) \in Closers
  BY DEF Closer, Closers
<1>2. <<Closer(token)>> \o stack \in Seq(Closers)
  BY <1>1
<1>3. stack # <<>> => Tail(stack) \in Seq(Closers)
  OBVIOUS
<1> QED
  BY <1>2, <1>3 DEF Read

LEMMA OpenIs ==
  ASSUME NEW X, NEW t \in Seq(X)
  PROVE  /\ Open(t) \in [0 .. Len(t) -> Seq(Closers)]
         /\ Open(t)[0] = <<>>
         /\ \A i \in 1 .. Len(t) :
              Open(t)[i] = IF i \in Brackets(t) THEN Read(Open(t)[i - 1], t[i])
                           ELSE Open(t)[i - 1]
<1> DEFINE N == Len(t)
           S == Seq(Closers)
           brackets == Brackets(t)
           base == <<>>
           Following(s, i) == IF i \in brackets THEN Read(s, t[i]) ELSE s
           Body(f) == [i \in 0 .. N |-> IF i = 0 THEN base ELSE Following(f[i - 1], i)]
           F == [i \in 1 .. N |-> [s \in S |-> Following(s, i)]]
<1>0. N \in Nat
  OBVIOUS
<1>1. Open(t) = CHOOSE f : f = Body(f)
  BY DEF Open
<1>2. \A s \in S, i \in 1 .. N : Following(s, i) \in S
  BY ReadOnStack
<1>3. base \in S
  OBVIOUS
<1> HIDE DEF N, base, S, Following
<1>4. F \in [1 .. N -> [S -> S]]
  BY <1>2
<1>5. PICK f \in [0 .. N -> S] : f[0] = base /\ \A i \in 1 .. N : f[i] = F[i][f[i - 1]]
  <2> HIDE DEF F
  <2>1. \E f \in [0 .. N -> S] : f[0] = base /\ \A i \in 1 .. N : f[i] = F[i][f[i - 1]]
    BY <1>0, <1>3, <1>4, Recursion
  <2> QED
    BY <2>1
<1>6. \A i \in 1 .. N : f[i] = Following(f[i - 1], i)
  <2>1. \A i \in 1 .. N : f[i - 1] \in S
    BY <1>0, <1>5
  <2> QED
    BY <1>5, <2>1
<1>7. f = Body(f)
  <2>1. \A i \in 0 .. N : i # 0 => i \in 1 .. N
    BY <1>0
  <2>2. \A i \in 0 .. N : f[i] = Body(f)[i]
    BY <1>5, <1>6, <2>1
  <2>3. f = [i \in 0 .. N |-> f[i]]
    BY <1>5
  <2> HIDE DEF F
  <2> QED
    BY <2>2, <2>3
<1> DEFINE g == Open(t)
<1>8. g = Body(g)
  <2> HIDE DEF Body
  <2> QED
    BY <1>1, <1>7
<1> HIDE DEF g
<1>9. g[0] = base /\ \A i \in 1 .. N : g[i] = Following(g[i - 1], i)
  <2>1. \A i \in 0 .. N : g[i] = Body(g)[i]
    BY <1>8
  <2> QED
    BY <1>0, <2>1
<1> DEFINE T == {n \in Nat : n <= N => g[n] \in S}
<1>10. 0 \in T
  BY <1>3, <1>9
<1>11. ASSUME NEW n \in Nat, n \in T PROVE n + 1 \in T
  BY <1>0, <1>2, <1>9, <1>11
<1>12. \A n \in Nat : n \in T
  <2> HIDE DEF T
  <2> QED
    BY <1>10, <1>11, Induction
<1>13. g \in [0 .. N -> S]
  <2>1. \A i \in 0 .. N : g[i] \in S
    BY <1>0, <1>12
  <2>2. g = [i \in 0 .. N |-> g[i]]
    BY <1>8
  <2> QED
    BY <2>1, <2>2
<1> QED
  BY <1>9, <1>13 DEF g, N, base, S, Following

LEMMA DepthIs ==
  ASSUME NEW X, NEW t \in Seq(X)
  PROVE  /\ Depth(t) \in [0 .. Len(t) -> Int]
         /\ Depth(t)[0] = 0
         /\ \A i \in 1 .. Len(t) : Depth(t)[i] = IF i \notin Braces(t) THEN Depth(t)[i - 1]
                                                 ELSE IF t[i] = "lbrace" THEN Depth(t)[i - 1] + 1
                                                 ELSE Depth(t)[i - 1] - 1
<1> DEFINE N == Len(t)
           S == Int
           braces == Braces(t)
           base == 0
           Following(s, i) == IF i \notin braces THEN s
                         ELSE IF t[i] = "lbrace" THEN s + 1
                         ELSE s - 1
           Body(f) == [i \in 0 .. N |-> IF i = 0 THEN base ELSE Following(f[i - 1], i)]
           F == [i \in 1 .. N |-> [s \in S |-> Following(s, i)]]
<1>0. N \in Nat
  OBVIOUS
<1>1. Depth(t) = CHOOSE f : f = Body(f)
  BY DEF Depth
<1>2. \A s \in S, i \in 1 .. N : Following(s, i) \in S
  OBVIOUS
<1>3. base \in S
  OBVIOUS
<1> HIDE DEF N, base, S, Following
<1>4. F \in [1 .. N -> [S -> S]]
  BY <1>2
<1>5. PICK f \in [0 .. N -> S] : f[0] = base /\ \A i \in 1 .. N : f[i] = F[i][f[i - 1]]
  <2> HIDE DEF F
  <2>1. \E f \in [0 .. N -> S] : f[0] = base /\ \A i \in 1 .. N : f[i] = F[i][f[i - 1]]
    BY <1>0, <1>3, <1>4, Recursion
  <2> QED
    BY <2>1
<1>6. \A i \in 1 .. N : f[i] = Following(f[i - 1], i)
  <2>1. \A i \in 1 .. N : f[i - 1] \in S
    BY <1>0, <1>5
  <2> QED
    BY <1>5, <2>1
<1>7. f = Body(f)
  <2>1. \A i \in 0 .. N : i # 0 => i \in 1 .. N
    BY <1>0
  <2>2. \A i \in 0 .. N : f[i] = Body(f)[i]
    BY <1>5, <1>6, <2>1
  <2>3. f = [i \in 0 .. N |-> f[i]]
    BY <1>5
  <2> HIDE DEF F
  <2> QED
    BY <2>2, <2>3
<1> DEFINE g == Depth(t)
<1>8. g = Body(g)
  <2> HIDE DEF Body
  <2> QED
    BY <1>1, <1>7
<1> HIDE DEF g
<1>9. g[0] = base /\ \A i \in 1 .. N : g[i] = Following(g[i - 1], i)
  <2>1. \A i \in 0 .. N : g[i] = Body(g)[i]
    BY <1>8
  <2> QED
    BY <1>0, <2>1
<1> DEFINE T == {n \in Nat : n <= N => g[n] \in S}
<1>10. 0 \in T
  BY <1>3, <1>9
<1>11. ASSUME NEW n \in Nat, n \in T PROVE n + 1 \in T
  BY <1>0, <1>2, <1>9, <1>11
<1>12. \A n \in Nat : n \in T
  <2> HIDE DEF T
  <2> QED
    BY <1>10, <1>11, Induction
<1>13. g \in [0 .. N -> S]
  <2>1. \A i \in 0 .. N : g[i] \in S
    BY <1>0, <1>12
  <2>2. g = [i \in 0 .. N |-> g[i]]
    BY <1>8
  <2> QED
    BY <2>1, <2>2
<1> QED
  BY <1>9, <1>13 DEF g, N, base, S, Following

\* Kept, token by token.
LEMMA KeptIs ==
  ASSUME NEW X, NEW t \in Seq(X), NEW places
  PROVE  \E kept \in [0 .. Len(t) -> Seq(X)] :
           /\ kept[0] = <<>>
           /\ \A i \in 1 .. Len(t) :
                kept[i] = IF i \in places THEN Append(kept[i - 1], t[i]) ELSE kept[i - 1]
           /\ Kept(t, places) = kept[Len(t)]
<1> DEFINE N == Len(t)
           S == Seq(X)
           base == <<>>
           Following(s, i) == IF i \in places THEN Append(s, t[i]) ELSE s
           Body(f) == [i \in 0 .. N |-> IF i = 0 THEN base ELSE Following(f[i - 1], i)]
           F == [i \in 1 .. N |-> [s \in S |-> Following(s, i)]]
<1>0. N \in Nat
  OBVIOUS
<1> DEFINE kept == CHOOSE f : f = Body(f)
<1>1. Kept(t, places) = kept[N]
  BY DEF Kept
<1>2. \A s \in S, i \in 1 .. N : Following(s, i) \in S
  OBVIOUS
<1>3. base \in S
  OBVIOUS
<1> HIDE DEF N, base, S, Following
<1>4. F \in [1 .. N -> [S -> S]]
  BY <1>2
<1>5. PICK f \in [0 .. N -> S] : f[0] = base /\ \A i \in 1 .. N : f[i] = F[i][f[i - 1]]
  <2> HIDE DEF F
  <2>1. \E f \in [0 .. N -> S] : f[0] = base /\ \A i \in 1 .. N : f[i] = F[i][f[i - 1]]
    BY <1>0, <1>3, <1>4, Recursion
  <2> QED
    BY <2>1
<1>6. \A i \in 1 .. N : f[i] = Following(f[i - 1], i)
  <2>1. \A i \in 1 .. N : f[i - 1] \in S
    BY <1>0, <1>5
  <2> QED
    BY <1>5, <2>1
<1>7. f = Body(f)
  <2>1. \A i \in 0 .. N : i # 0 => i \in 1 .. N
    BY <1>0
  <2>2. \A i \in 0 .. N : f[i] = Body(f)[i]
    BY <1>5, <1>6, <2>1
  <2>3. f = [i \in 0 .. N |-> f[i]]
    BY <1>5
  <2> HIDE DEF F
  <2> QED
    BY <2>2, <2>3
<1> DEFINE g == kept
<1>8. g = Body(g)
  <2> HIDE DEF Body
  <2> QED
    BY <1>7
<1> HIDE DEF g
<1>9. g[0] = base /\ \A i \in 1 .. N : g[i] = Following(g[i - 1], i)
  <2>1. \A i \in 0 .. N : g[i] = Body(g)[i]
    BY <1>8
  <2> QED
    BY <1>0, <2>1
<1> DEFINE T == {n \in Nat : n <= N => g[n] \in S}
<1>10. 0 \in T
  BY <1>3, <1>9
<1>11. ASSUME NEW n \in Nat, n \in T PROVE n + 1 \in T
  BY <1>0, <1>2, <1>9, <1>11
<1>12. \A n \in Nat : n \in T
  <2> HIDE DEF T
  <2> QED
    BY <1>10, <1>11, Induction
<1>13. g \in [0 .. N -> S]
  <2>1. \A i \in 0 .. N : g[i] \in S
    BY <1>0, <1>12
  <2>2. g = [i \in 0 .. N |-> g[i]]
    BY <1>8
  <2> QED
    BY <2>1, <2>2
<1> QED
  BY <1>1, <1>9, <1>13 DEF g, N, base, S, Following

\* All places are kept, ...
LEMMA KeptAll ==
  ASSUME NEW X, NEW t \in Seq(X), NEW places, 1 .. Len(t) \subseteq places
  PROVE  Kept(t, places) = t
<1> DEFINE N == Len(t)
<1>1. N \in Nat
  OBVIOUS
<1>2. PICK kept \in [0 .. N -> Seq(X)] :
         /\ kept[0] = <<>>
         /\ \A i \in 1 .. N :
              kept[i] = IF i \in places THEN Append(kept[i - 1], t[i]) ELSE kept[i - 1]
         /\ Kept(t, places) = kept[N]
  BY KeptIs
<1>3. \A i \in 1 .. N : kept[i] = Append(kept[i - 1], t[i]) /\ t[i] \in X
  <2>1. \A i \in 1 .. N : i \in places /\ t[i] \in X
    OBVIOUS
  <2> QED
    BY <1>2, <2>1
<1> DEFINE Good(n) == Len(kept[n]) = n /\ \A i \in 1 .. n : kept[n][i] = t[i]
           T == {n \in Nat : n <= N => Good(n)}
<1> HIDE DEF N, Good
<1>4. 0 \in T
  <2>1. kept[0] = <<>>
    BY <1>2
  <2>2. Good(0)
    BY <2>1 DEF Good
  <2> QED
    BY <2>2
<1>5. ASSUME NEW n \in Nat, n \in T PROVE n + 1 \in T
  <2> SUFFICES ASSUME n + 1 <= N PROVE Good(n + 1)
    OBVIOUS
  <2>1. Good(n)
    BY <1>1, <1>5
  <2>2. kept[n] \in Seq(X)
    BY <1>1, <1>2
  <2>3. n + 1 \in 1 .. N /\ n + 1 - 1 = n
    BY <1>1
  <2>4. kept[n + 1] = Append(kept[n], t[n + 1]) /\ t[n + 1] \in X
    BY <1>3, <2>3
  <2> QED
    BY <2>1, <2>2, <2>4, AppendProperties DEF Good
<1>6. Good(N)
  <2> HIDE DEF T
  <2>1. N \in T
    BY <1>1, <1>4, <1>5, Induction
  <2> QED
    BY <1>1, <2>1 DEF T
<1>7. kept[N] \in Seq(X)
  BY <1>1, <1>2
<1>8. kept[N] = t
  BY <1>6, <1>7, SeqEqual DEF N, Good
<1> QED
  BY <1>2, <1>8

\* ... or all but one.
LEMMA KeptBut ==
  ASSUME NEW X, NEW t \in Seq(X), NEW places, NEW k \in 1 .. Len(t),
         k \notin places, \A i \in 1 .. Len(t) : i # k => i \in places
  PROVE  /\ Kept(t, places) \in Seq(X)
         /\ Len(Kept(t, places)) = Len(t) - 1
         /\ \A i \in 1 .. Len(t) - 1 : Kept(t, places)[i] = IF i < k THEN t[i] ELSE t[i + 1]
<1> DEFINE N == Len(t)
<1>1. N \in Nat /\ k \in 1 .. N
  OBVIOUS
<1>2. PICK kept \in [0 .. N -> Seq(X)] :
         /\ kept[0] = <<>>
         /\ \A i \in 1 .. N :
              kept[i] = IF i \in places THEN Append(kept[i - 1], t[i]) ELSE kept[i - 1]
         /\ Kept(t, places) = kept[N]
  BY KeptIs
<1>3. /\ \A i \in 1 .. N : i # k => kept[i] = Append(kept[i - 1], t[i]) /\ t[i] \in X
      /\ kept[k] = kept[k - 1]
  <2>1. \A i \in 1 .. N : t[i] \in X /\ (i # k => i \in places)
    OBVIOUS
  <2> HIDE DEF N
  <2> QED
    BY <1>1, <1>2, <2>1
<1> DEFINE Good(n) == /\ Len(kept[n]) = IF n < k THEN n ELSE n - 1
                      /\ \A i \in 1 .. Len(kept[n]) : kept[n][i] = IF i < k THEN t[i] ELSE t[i + 1]
           T == {n \in Nat : n <= N => Good(n)}
<1> HIDE DEF N, Good
<1>4. 0 \in T
  <2>1. kept[0] = <<>>
    BY <1>2
  <2>2. Good(0)
    BY <1>1, <2>1 DEF Good
  <2> QED
    BY <2>2
<1>5. ASSUME NEW n \in Nat, n \in T PROVE n + 1 \in T
  <2> SUFFICES ASSUME n + 1 <= N PROVE Good(n + 1)
    OBVIOUS
  <2>0. n + 1 \in 1 .. N /\ n + 1 - 1 = n
    BY <1>1
  <2>4. kept[n] \in Seq(X)
    BY <1>1, <1>2
  <2>1. Good(n) /\ kept[n] \in Seq(X)
    BY <1>1, <1>5, <2>4
  <2> USE DEF Good
  <2>2. CASE n + 1 = k
    <3>1. kept[n + 1] = kept[n]
      <4>1. k - 1 = n
        BY <1>1, <2>2
      <4> QED
        BY <1>3, <2>2, <4>1
    <3> QED
      BY <1>1, <2>1, <2>2, <3>1
  <2>3. CASE n + 1 # k
    <3>1. kept[n + 1] = Append(kept[n], t[n + 1]) /\ t[n + 1] \in X
      BY <1>3, <2>0, <2>3
    <3>2. /\ Len(kept[n + 1]) = Len(kept[n]) + 1
          /\ \A i \in 1 .. Len(kept[n]) : kept[n + 1][i] = kept[n][i]
          /\ kept[n + 1][Len(kept[n]) + 1] = t[n + 1]
      BY <2>1, <3>1, AppendProperties
    <3>3. Len(kept[n]) = IF n < k THEN n ELSE n - 1
      BY <2>1
    <3>4. \A i \in 1 .. Len(kept[n]) : kept[n + 1][i] = IF i < k THEN t[i] ELSE t[i + 1]
      BY <2>1, <3>2
    <3>5. kept[n + 1][Len(kept[n]) + 1]
             = IF Len(kept[n]) + 1 < k THEN t[Len(kept[n]) + 1] ELSE t[Len(kept[n]) + 1 + 1]
      BY <1>1, <2>3, <3>2, <3>3
    <3>6. Len(kept[n + 1]) = IF n + 1 < k THEN n + 1 ELSE n
      BY <1>1, <2>3, <3>2, <3>3
    <3>7. \A i \in 1 .. Len(kept[n + 1]) : i \in 1 .. Len(kept[n]) \/ i = Len(kept[n]) + 1
      BY <3>2, <3>3, <1>1
    <3> QED
      BY <3>4, <3>5, <3>6, <3>7
  <2> QED
    BY <2>2, <2>3
<1>6. Good(N)
  <2> HIDE DEF T
  <2>1. N \in T
    BY <1>1, <1>4, <1>5, Induction
  <2> QED
    BY <1>1, <2>1 DEF T
<1>7. kept[N] \in Seq(X) /\ Len(kept[N]) = N - 1
  BY <1>1, <1>2, <1>6 DEF Good
<1>8. \A i \in 1 .. N - 1 : kept[N][i] = IF i < k THEN t[i] ELSE t[i + 1]
  BY <1>6, <1>7 DEF Good
<1> QED
  BY <1>2, <1>7, <1>8 DEF N

-----------------------------------------------------------------------------
(* A machine that reads the texts of the grammar, and no others that matter here *)

Tokens == {"lbrace", "rbrace", "lbrack", "rbrack", "colon", "comma", "x", "quote", "back"} \cup Inside

\* In a string or not, and after a backslash there; after a comma; the closers that are to
\* come, and how many of them are braces.
States == [str : BOOLEAN, esc : BOOLEAN, comma : BOOLEAN, stack : Seq(Closers), depth : Nat]

Out(stack, depth, comma) ==
  [str |-> FALSE, esc |-> FALSE, comma |-> comma, stack |-> stack, depth |-> depth]
In(stack, depth, esc) ==
  [str |-> TRUE, esc |-> esc, comma |-> FALSE, stack |-> stack, depth |-> depth]

ReadsInside(a, c, b) ==
  \/ a.esc /\ b = In(a.stack, a.depth, FALSE)
  \/ ~a.esc /\ c = "back" /\ b = In(a.stack, a.depth, TRUE)
  \/ ~a.esc /\ c = "quote" /\ b = Out(a.stack, a.depth, FALSE)
  \/ ~a.esc /\ c \notin {"back", "quote"} /\ b = In(a.stack, a.depth, FALSE)

ReadsOutside(a, c, b) ==
  \/ c = "quote" /\ b = In(a.stack, a.depth, FALSE)
  \/ c = "lbrace" /\ b = Out(<<"rbrace">> \o a.stack, a.depth + 1, FALSE)
  \/ c = "lbrack" /\ b = Out(<<"rbrack">> \o a.stack, a.depth, FALSE)
  \/ /\ c \in Closers /\ a.stack # <<>> /\ a.stack[1] = c /\ ~a.comma
     /\ b = Out(Tail(a.stack), IF c = "rbrace" THEN a.depth - 1 ELSE a.depth, FALSE)
  \/ c \in {"x", "colon"} /\ b = Out(a.stack, a.depth, FALSE)
  \/ c = "comma" /\ b = Out(a.stack, a.depth, TRUE)

Reads(a, c, b) == IF a.str THEN ReadsInside(a, c, b) ELSE ReadsOutside(a, c, b)

\* The machine reads t from a to b, and no state has a depth less than low.
Runs(t, a, b, low) ==
  \E f \in [0 .. Len(t) -> States] :
    /\ f[0] = a /\ f[Len(t)] = b
    /\ \A i \in 1 .. Len(t) : Reads(f[i - 1], t[i], f[i])
    /\ \A i \in 0 .. Len(t) : f[i].depth >= low

LEMMA OutIsState ==
  ASSUME NEW stack \in Seq(Closers), NEW depth \in Nat, NEW comma \in BOOLEAN
  PROVE  Out(stack, depth, comma) \in States /\ Out(stack, depth, comma).depth = depth
BY DEF Out, States

LEMMA InIsState ==
  ASSUME NEW stack \in Seq(Closers), NEW depth \in Nat, NEW esc \in BOOLEAN
  PROVE  In(stack, depth, esc) \in States /\ In(stack, depth, esc).depth = depth
BY DEF In, States

LEMMA RunsOne ==
  ASSUME NEW a \in States, NEW b \in States, NEW c, Reads(a, c, b),
         NEW low \in Nat, a.depth >= low, b.depth >= low
  PROVE  Runs(<<c>>, a, b, low)
<1> DEFINE f == [i \in 0 .. 1 |-> IF i = 0 THEN a ELSE b]
<1>1. f \in [0 .. 1 -> States] /\ f[0] = a /\ f[1] = b
  OBVIOUS
<1>2. Len(<<c>>) = 1 /\ <<c>>[1] = c
  OBVIOUS
<1> HIDE DEF f
<1>3. \A i \in 1 .. 1 : Reads(f[i - 1], <<c>>[i], f[i])
  <2>1. \A i \in 1 .. 1 : i = 1 /\ i - 1 = 0
    OBVIOUS
  <2> QED
    BY <1>1, <1>2, <2>1
<1>4. \A i \in 0 .. 1 : f[i].depth >= low
  <2>1. \A i \in 0 .. 1 : i = 0 \/ i = 1
    OBVIOUS
  <2> QED
    BY <1>1, <2>1
<1> QED
  BY <1>1, <1>2, <1>3, <1>4 DEF Runs

LEMMA RunsConcat ==
  ASSUME NEW X, NEW s \in Seq(X), NEW t \in Seq(X), NEW a, NEW b, NEW c, NEW low,
         Runs(s, a, b, low), Runs(t, b, c, low)
  PROVE  Runs(s \o t, a, c, low)
<1>1. PICK f \in [0 .. Len(s) -> States] :
         /\ f[0] = a /\ f[Len(s)] = b
         /\ \A i \in 1 .. Len(s) : Reads(f[i - 1], s[i], f[i])
         /\ \A i \in 0 .. Len(s) : f[i].depth >= low
  BY DEF Runs
<1>2. PICK g \in [0 .. Len(t) -> States] :
         /\ g[0] = b /\ g[Len(t)] = c
         /\ \A i \in 1 .. Len(t) : Reads(g[i - 1], t[i], g[i])
         /\ \A i \in 0 .. Len(t) : g[i].depth >= low
  BY DEF Runs
<1> DEFINE M == Len(s)
           N == Len(t)
           h == [i \in 0 .. M + N |-> IF i <= M THEN f[i] ELSE g[i - M]]
<1>3. M \in Nat /\ N \in Nat /\ Len(s \o t) = M + N
  BY ConcatProperties
<1>4. \A i \in 1 .. M + N : (s \o t)[i] = IF i <= M THEN s[i] ELSE t[i - M]
  BY ConcatProperties
<1> HIDE DEF M, N
<1>5. h \in [0 .. M + N -> States]
  <2>1. \A i \in 0 .. M + N : /\ i <= M => i \in 0 .. M
                              /\ ~(i <= M) => i - M \in 0 .. N
    BY <1>3
  <2>2. f \in [0 .. M -> States] /\ g \in [0 .. N -> States]
    BY DEF M, N
  <2> QED
    BY <2>1, <2>2
<1>6. h[0] = a
  BY <1>1, <1>3 DEF M
<1>7. h[M + N] = c
  <2>1. CASE N = 0
    BY <1>1, <1>2, <1>3, <2>1 DEF M, N
  <2>2. CASE N # 0
    <3>1. h[M + N] = g[M + N - M] /\ M + N - M = N
      BY <1>3, <2>2
    <3> QED
      BY <1>2, <3>1 DEF N
  <2> QED
    BY <2>1, <2>2
<1>8. ASSUME NEW i \in 1 .. M + N PROVE Reads(h[i - 1], (s \o t)[i], h[i])
  <2>1. CASE i <= M
    <3>1. i \in 1 .. M /\ h[i] = f[i] /\ h[i - 1] = f[i - 1] /\ (s \o t)[i] = s[i]
      BY <1>3, <1>4, <2>1
    <3> QED
      BY <1>1, <3>1 DEF M
  <2>2. CASE i = M + 1
    <3>0. i - M = 1 /\ i - 1 = M /\ ~(i <= M) /\ 1 \in 1 .. N /\ M \in 0 .. M + N
      BY <1>3, <2>2
    <3>1. 1 \in 1 .. N /\ h[i] = g[1] /\ h[i - 1] = f[M] /\ (s \o t)[i] = t[1]
      <4>1. h[i] = g[i - M] /\ h[i - 1] = f[i - 1]
        BY <1>3, <3>0
      <4>2. (s \o t)[i] = t[i - M]
        BY <1>4, <3>0
      <4> QED
        BY <3>0, <4>1, <4>2
    <3>2. f[M] = g[0]
      BY <1>1, <1>2 DEF M
    <3>3. Reads(g[1 - 1], t[1], g[1])
      BY <1>2, <3>1 DEF N
    <3> QED
      BY <3>1, <3>2, <3>3
  <2>3. CASE i > M + 1
    <3>0. /\ i - M \in 1 .. N /\ ~(i <= M) /\ ~(i - 1 <= M) /\ i - 1 \in 0 .. M + N
          /\ i - 1 - M = (i - M) - 1
      BY <1>3, <2>3
    <3>1. h[i] = g[i - M] /\ h[i - 1] = g[i - 1 - M]
      BY <1>3, <3>0
    <3>2. (s \o t)[i] = t[i - M]
      BY <1>4, <3>0
    <3> QED
      BY <1>2, <3>0, <3>1, <3>2 DEF N
  <2> QED
    BY <1>3, <2>1, <2>2, <2>3
<1>9. ASSUME NEW i \in 0 .. M + N PROVE h[i].depth >= low
  <2>1. CASE i <= M
    BY <1>1, <1>3, <2>1 DEF M
  <2>2. CASE i > M
    <3>1. i - M \in 0 .. N /\ h[i] = g[i - M]
      BY <1>3, <2>2
    <3> QED
      BY <1>2, <3>1 DEF N
  <2> QED
    BY <1>3, <2>1, <2>2
<1> HIDE DEF h
<1> QED
  BY <1>3, <1>5, <1>6, <1>7, <1>8, <1>9 DEF Runs

LEMMA RunsLower ==
  ASSUME NEW t, NEW a, NEW b, NEW low \in Nat, NEW lower \in Nat, lower <= low,
         Runs(t, a, b, low)
  PROVE  Runs(t, a, b, lower)
<1>1. PICK f \in [0 .. Len(t) -> States] :
         /\ f[0] = a /\ f[Len(t)] = b
         /\ \A i \in 1 .. Len(t) : Reads(f[i - 1], t[i], f[i])
         /\ \A i \in 0 .. Len(t) : f[i].depth >= low
  BY DEF Runs
<1>2. \A i \in 0 .. Len(t) : f[i].depth \in Nat
  BY DEF States
<1>3. \A i \in 0 .. Len(t) : f[i].depth >= lower
  BY <1>1, <1>2
<1> QED
  BY <1>1, <1>3 DEF Runs

-----------------------------------------------------------------------------
(* The texts of the grammar are read to where they begin *)

Neutral(t) ==
  \A stack \in Seq(Closers), depth \in Nat, comma \in BOOLEAN :
    Runs(t, Out(stack, depth, comma), Out(stack, depth, FALSE), depth)

Neutrals == {t \in Seq(Tokens) : Neutral(t)}

LEMMA ReadsInString ==
  ASSUME NEW stack, NEW depth
  PROVE  /\ Reads(In(stack, depth, FALSE), "back", In(stack, depth, TRUE))
         /\ \A c : Reads(In(stack, depth, TRUE), c, In(stack, depth, FALSE))
         /\ \A c : c \notin {"back", "quote"} =>
                   Reads(In(stack, depth, FALSE), c, In(stack, depth, FALSE))
<1>1. Reads(In(stack, depth, FALSE), "back", In(stack, depth, TRUE))
  BY DEF Reads, ReadsInside, In
<1>2. ASSUME NEW c PROVE Reads(In(stack, depth, TRUE), c, In(stack, depth, FALSE))
  BY DEF Reads, ReadsInside, In
<1>3. ASSUME NEW c, c \notin {"back", "quote"}
      PROVE  Reads(In(stack, depth, FALSE), c, In(stack, depth, FALSE))
  BY <1>3 DEF Reads, ReadsInside, In
<1> QED
  BY <1>1, <1>2, <1>3

\* A quote of a string, outside and inside.
LEMMA QuoteRuns ==
  ASSUME NEW stack \in Seq(Closers), NEW depth \in Nat, NEW comma \in BOOLEAN
  PROVE  /\ Runs(<<"quote">>, Out(stack, depth, comma), In(stack, depth, FALSE), depth)
         /\ Runs(<<"quote">>, In(stack, depth, FALSE), Out(stack, depth, FALSE), depth)
<1> DEFINE a == Out(stack, depth, comma)
           b == In(stack, depth, FALSE)
           c == Out(stack, depth, FALSE)
<1>1. a \in States /\ c \in States /\ a.depth = depth /\ c.depth = depth
  BY OutIsState
<1>2. b \in States /\ b.depth = depth
  BY InIsState
<1>3. Reads(a, "quote", b)
  BY DEF Reads, ReadsOutside, Out
<1>4. Reads(b, "quote", c)
  BY DEF Reads, ReadsInside, In
<1> HIDE DEF a, b, c
<1>5. depth >= depth
  OBVIOUS
<1>6. Runs(<<"quote">>, a, b, depth) /\ Runs(<<"quote">>, b, c, depth)
  BY <1>1, <1>2, <1>3, <1>4, <1>5, RunsOne
<1> QED
  BY <1>6 DEF a, b, c

LEMMA BodyRuns ==
  ASSUME NEW n \in Nat, NEW t \in Bodies(n), NEW stack \in Seq(Closers), NEW depth \in Nat
  PROVE  /\ t \in Seq(Tokens)
         /\ Runs(t, In(stack, depth, FALSE), In(stack, depth, FALSE), depth)
<1>1. PICK escapes \in SUBSET (1 .. (n - 1)) :
         /\ \A i \in escapes : i + 1 \notin escapes
         /\ t \in [1 .. n -> Inside \cup {"quote", "back"}]
         /\ \A i \in 1 .. n : t[i] \in IF i \in escapes THEN {"back"}
                                      ELSE IF i - 1 \in escapes THEN {"quote", "back"}
                                      ELSE Inside
  BY DEF Bodies
<1>2. t \in Seq(Tokens) /\ Len(t) = n
  <2>1. t \in [1 .. n -> Tokens]
    BY <1>1 DEF Tokens
  <2> QED
    BY <2>1
<1> DEFINE f == [i \in 0 .. n |-> IF i \in escapes THEN In(stack, depth, TRUE)
                                       ELSE In(stack, depth, FALSE)]
<1>3. /\ In(stack, depth, TRUE) \in States /\ In(stack, depth, TRUE).depth = depth
      /\ In(stack, depth, FALSE) \in States /\ In(stack, depth, FALSE).depth = depth
  BY InIsState
<1>4. \A i \in 0 .. n : f[i] \in States /\ f[i].depth = depth
  BY <1>3
<1>5. f \in [0 .. n -> States]
  BY <1>4
<1>6. 0 \notin escapes /\ n \notin escapes
  BY <1>1
<1>7. f[0] = In(stack, depth, FALSE) /\ f[n] = In(stack, depth, FALSE)
  BY <1>6
<1>8. ASSUME NEW i \in 1 .. n PROVE Reads(f[i - 1], t[i], f[i])
  <2>1. i - 1 \in 0 .. n /\ i \in 0 .. n
    OBVIOUS
  <2>2. CASE i \in escapes
    <3>1. i - 1 \notin escapes
      BY <1>1, <2>2
    <3>2. t[i] = "back" /\ f[i - 1] = In(stack, depth, FALSE) /\ f[i] = In(stack, depth, TRUE)
      BY <1>1, <2>1, <2>2, <3>1
    <3> HIDE DEF f
    <3> QED
      BY <3>2, ReadsInString
  <2>3. CASE i \notin escapes /\ i - 1 \in escapes
    <3>1. f[i - 1] = In(stack, depth, TRUE) /\ f[i] = In(stack, depth, FALSE)
      BY <2>1, <2>3
    <3> HIDE DEF f
    <3> QED
      BY <3>1, ReadsInString
  <2>4. CASE i \notin escapes /\ i - 1 \notin escapes
    <3>1. f[i - 1] = In(stack, depth, FALSE) /\ f[i] = In(stack, depth, FALSE)
      BY <2>1, <2>4
    <3>2. t[i] \notin {"back", "quote"}
      BY <1>1, <2>4, RepairAssumption DEF RepairAssumption
    <3> HIDE DEF f
    <3> QED
      BY <3>1, <3>2, ReadsInString
  <2> QED
    BY <2>2, <2>3, <2>4
<1> HIDE DEF f
<1>9. \A i \in 0 .. n : f[i].depth >= depth
  <2>1. depth >= depth
    OBVIOUS
  <2> QED
    BY <1>4, <2>1
<1>10. Runs(t, In(stack, depth, FALSE), In(stack, depth, FALSE), depth)
  BY <1>2, <1>5, <1>7, <1>8, <1>9 DEF Runs
<1> QED
  BY <1>2, <1>10

LEMMA StringNeutral ==
  ASSUME NEW n \in Nat, NEW t \in String(n)
  PROVE  t \in Neutrals
<1>1. PICK b \in Bodies(n - 2) : t = <<"quote">> \o b \o <<"quote">>
  BY DEF String
<1>2. n - 2 \in Nat
  BY DEF String
<1>3. b \in Seq(Tokens)
  BY <1>2, BodyRuns, EmptySeq
<1> DEFINE q == <<"quote">>
<1>4. q \in Seq(Tokens)
  BY DEF Tokens
<1> HIDE DEF q
<1>5. q \o b \in Seq(Tokens)
  BY <1>3, <1>4, ConcatProperties
<1>6. (q \o b) \o q \in Seq(Tokens)
  BY <1>4, <1>5, ConcatProperties
<1>7. ASSUME NEW stack \in Seq(Closers), NEW depth \in Nat, NEW comma \in BOOLEAN
      PROVE  Runs((q \o b) \o q, Out(stack, depth, comma), Out(stack, depth, FALSE), depth)
  <2>1. Runs(q, Out(stack, depth, comma), In(stack, depth, FALSE), depth)
    BY QuoteRuns DEF q
  <2>2. Runs(b, In(stack, depth, FALSE), In(stack, depth, FALSE), depth)
    BY <1>2, BodyRuns
  <2>3. Runs(q \o b, Out(stack, depth, comma), In(stack, depth, FALSE), depth)
    BY <1>3, <1>4, <2>1, <2>2, RunsConcat
  <2>4. Runs(q, In(stack, depth, FALSE), Out(stack, depth, FALSE), depth)
    BY QuoteRuns DEF q
  <2> QED
    BY <1>4, <1>5, <2>3, <2>4, RunsConcat
<1> QED
  BY <1>1, <1>6, <1>7 DEF Neutrals, Neutral, q

LEMMA Pushed ==
  ASSUME NEW stack \in Seq(Closers), NEW c \in Closers
  PROVE  /\ <<c>> \o stack \in Seq(Closers) /\ <<c>> \o stack # <<>>
         /\ (<<c>> \o stack)[1] = c /\ Tail(<<c>> \o stack) = stack
         /\ Len(<<c>> \o stack) = Len(stack) + 1
<1> DEFINE s == <<c>> \o stack
<1>1. <<c>> \in Seq(Closers) /\ Len(<<c>>) = 1 /\ <<c>>[1] = c
  OBVIOUS
<1>2. /\ s \in Seq(Closers) /\ Len(s) = 1 + Len(stack)
      /\ \A i \in 1 .. 1 + Len(stack) : s[i] = IF i <= 1 THEN <<c>>[i] ELSE stack[i - 1]
  BY <1>1, ConcatProperties
<1> HIDE DEF s
<1>3. Len(stack) \in Nat
  OBVIOUS
<1>4. s # <<>> /\ s[1] = c
  BY <1>1, <1>2, <1>3
<1>5. Tail(s) \in Seq(Closers) /\ Len(Tail(s)) = Len(stack)
      /\ \A i \in 1 .. Len(stack) : Tail(s)[i] = s[i + 1]
  BY <1>2, <1>3, <1>4, HeadTailProperties
<1>6. \A i \in 1 .. Len(stack) : s[i + 1] = stack[i]
  BY <1>2, <1>3
<1>7. Tail(s) = stack
  BY <1>5, <1>6, SeqEqual
<1> QED
  BY <1>2, <1>3, <1>4, <1>7 DEF s

LEMMA BracketRuns ==
  ASSUME NEW stack \in Seq(Closers), NEW depth \in Nat, NEW comma \in BOOLEAN
  PROVE  /\ Runs(<<"lbrace">>, Out(stack, depth, comma),
                 Out(<<"rbrace">> \o stack, depth + 1, FALSE), depth)
         /\ Runs(<<"lbrack">>, Out(stack, depth, comma),
                 Out(<<"rbrack">> \o stack, depth, FALSE), depth)
         /\ Runs(<<"rbrace">>, Out(<<"rbrace">> \o stack, depth + 1, FALSE),
                 Out(stack, depth, FALSE), depth)
         /\ Runs(<<"rbrack">>, Out(<<"rbrack">> \o stack, depth, FALSE),
                 Out(stack, depth, FALSE), depth)
<1> DEFINE a == Out(stack, depth, comma)
           b == Out(<<"rbrace">> \o stack, depth + 1, FALSE)
           c == Out(<<"rbrack">> \o stack, depth, FALSE)
           d == Out(stack, depth, FALSE)
<1>1. /\ "rbrace" \in Closers /\ "rbrack" \in Closers
  BY DEF Closers
<1>2. <<"rbrace">> \o stack \in Seq(Closers) /\ <<"rbrack">> \o stack \in Seq(Closers)
  BY <1>1, Pushed
<1>3. /\ a \in States /\ b \in States /\ c \in States /\ d \in States
      /\ a.depth = depth /\ b.depth = depth + 1 /\ c.depth = depth /\ d.depth = depth
  <2>1. depth + 1 \in Nat /\ FALSE \in BOOLEAN
    OBVIOUS
  <2>2. a \in States /\ a.depth = depth /\ d \in States /\ d.depth = depth
    BY <2>1, OutIsState
  <2>3. b \in States /\ b.depth = depth + 1
    BY <1>2, <2>1, OutIsState
  <2>4. c \in States /\ c.depth = depth
    BY <1>2, <2>1, OutIsState
  <2> QED
    BY <2>2, <2>3, <2>4
<1>4. Reads(a, "lbrace", b) /\ Reads(a, "lbrack", c)
  BY DEF Reads, ReadsOutside, Out
<1>5. Reads(b, "rbrace", d)
  <2>1. /\ b.str = FALSE /\ b.stack = <<"rbrace">> \o stack /\ b.depth = depth + 1 /\ b.comma = FALSE
    BY DEF Out
  <2> HIDE DEF b
  <2>2. Tail(b.stack) = stack /\ b.stack # <<>> /\ b.stack[1] = "rbrace"
    BY <1>1, <2>1, Pushed
  <2>4. b.depth - 1 = depth
    <3>1. \A n : n = depth + 1 => n - 1 = depth
      OBVIOUS
    <3> QED
      BY <2>1, <3>1, Zenon
  <2>3. ReadsOutside(b, "rbrace", d)
    BY <1>1, <2>1, <2>2, <2>4 DEF ReadsOutside
  <2> QED
    BY <2>1, <2>3 DEF Reads
<1>6. Reads(c, "rbrack", d)
  <2>1. /\ c.str = FALSE /\ c.stack = <<"rbrack">> \o stack /\ c.depth = depth /\ c.comma = FALSE
    BY DEF Out
  <2> HIDE DEF c
  <2>2. Tail(c.stack) = stack /\ c.stack # <<>> /\ c.stack[1] = "rbrack"
    BY <1>1, <2>1, Pushed
  <2>3. ReadsOutside(c, "rbrack", d)
    BY <1>1, <2>1, <2>2 DEF ReadsOutside
  <2> QED
    BY <2>1, <2>3 DEF Reads
<1> HIDE DEF a, b, c, d
<1>7. depth >= depth /\ depth + 1 >= depth
  OBVIOUS
<1>8. Runs(<<"lbrace">>, a, b, depth) /\ Runs(<<"lbrack">>, a, c, depth)
  BY <1>3, <1>4, <1>7, RunsOne
<1>9. Runs(<<"rbrace">>, b, d, depth) /\ Runs(<<"rbrack">>, c, d, depth)
  BY <1>3, <1>5, <1>6, <1>7, RunsOne
<1> QED
  BY <1>8, <1>9 DEF a, b, c, d

\* Brackets around a text of the grammar, or around nothing, ...
LEMMA BracketsNeutral ==
  ASSUME NEW t \in Neutrals
  PROVE  /\ <<"lbrace">> \o t \o <<"rbrace">> \in Neutrals
         /\ <<"lbrack">> \o t \o <<"rbrack">> \in Neutrals
<1>1. /\ <<"lbrace">> \in Seq(Tokens) /\ <<"rbrace">> \in Seq(Tokens)
      /\ <<"lbrack">> \in Seq(Tokens) /\ <<"rbrack">> \in Seq(Tokens)
  BY DEF Tokens
<1>2. t \in Seq(Tokens)
  BY DEF Neutrals
<1> DEFINE a == <<"lbrace">>
           b == <<"rbrace">>
           c == <<"lbrack">>
           d == <<"rbrack">>
<1> HIDE DEF a, b, c, d
<1>3. /\ a \in Seq(Tokens) /\ b \in Seq(Tokens) /\ c \in Seq(Tokens) /\ d \in Seq(Tokens)
  BY <1>1 DEF a, b, c, d
<1>4. /\ a \o t \in Seq(Tokens) /\ c \o t \in Seq(Tokens)
  BY <1>2, <1>3, ConcatProperties
<1>5. /\ (a \o t) \o b \in Seq(Tokens) /\ (c \o t) \o d \in Seq(Tokens)
  BY <1>3, <1>4, ConcatProperties
<1>6. ASSUME NEW stack \in Seq(Closers), NEW depth \in Nat, NEW comma \in BOOLEAN
      PROVE  /\ Runs((a \o t) \o b, Out(stack, depth, comma), Out(stack, depth, FALSE), depth)
             /\ Runs((c \o t) \o d, Out(stack, depth, comma), Out(stack, depth, FALSE), depth)
  <2>1. "rbrace" \in Closers /\ "rbrack" \in Closers
    BY DEF Closers
  <2>2. <<"rbrace">> \o stack \in Seq(Closers) /\ <<"rbrack">> \o stack \in Seq(Closers)
    BY <2>1, Pushed
  <2> DEFINE u == Out(stack, depth, comma)
             v == Out(<<"rbrace">> \o stack, depth + 1, FALSE)
             w == Out(<<"rbrack">> \o stack, depth, FALSE)
             z == Out(stack, depth, FALSE)
  <2>3. /\ Runs(a, u, v, depth) /\ Runs(c, u, w, depth)
        /\ Runs(b, v, z, depth) /\ Runs(d, w, z, depth)
    BY BracketRuns DEF a, b, c, d
  <2>4. Runs(t, v, v, depth + 1) /\ Runs(t, w, w, depth)
    <3>1. depth + 1 \in Nat /\ FALSE \in BOOLEAN /\ Neutral(t)
      BY DEF Neutrals
    <3>2. Runs(t, v, v, depth + 1)
      BY <2>2, <3>1 DEF Neutral
    <3>3. Runs(t, w, w, depth)
      BY <2>2, <3>1 DEF Neutral
    <3> QED
      BY <3>2, <3>3
  <2> HIDE DEF u, v, w, z
  <2>5. Runs(t, v, v, depth)
    BY <2>4, RunsLower
  <2>6. Runs(a \o t, u, v, depth) /\ Runs(c \o t, u, w, depth)
    BY <1>2, <1>3, <2>3, <2>4, <2>5, RunsConcat
  <2>7. Runs((a \o t) \o b, u, z, depth) /\ Runs((c \o t) \o d, u, z, depth)
    BY <1>3, <1>4, <2>3, <2>6, RunsConcat
  <2> QED
    BY <2>7 DEF u, z
<1> QED
  BY <1>5, <1>6 DEF Neutrals, Neutral, a, b, c, d

LEMMA Pair ==
  ASSUME NEW X, NEW a \in X, NEW b \in X
  PROVE  <<a>> \o <<b>> = <<a, b>>
<1> DEFINE s == <<a>>
           t == <<b>>
           u == <<a, b>>
<1>1. /\ s \in Seq(X) /\ t \in Seq(X) /\ u \in Seq(X) /\ Len(s) = 1 /\ Len(t) = 1 /\ Len(u) = 2
      /\ s[1] = a /\ t[1] = b /\ u[1] = a /\ u[2] = b
  OBVIOUS
<1> HIDE DEF s, t, u
<1>2. /\ s \o t \in Seq(X) /\ Len(s \o t) = 2
      /\ \A i \in 1 .. 2 : (s \o t)[i] = IF i <= 1 THEN s[i] ELSE t[i - 1]
  <2>1. /\ s \o t \in Seq(X) /\ Len(s \o t) = Len(s) + Len(t)
        /\ \A i \in 1 .. Len(s) + Len(t) :
             (s \o t)[i] = IF i <= Len(s) THEN s[i] ELSE t[i - Len(s)]
    BY <1>1, ConcatProperties
  <2>2. Len(s) + Len(t) = 2
    BY <1>1
  <2> QED
    BY <1>1, <2>1, <2>2
<1>3. \A i \in 1 .. 2 : (s \o t)[i] = u[i]
  <2>1. \A i \in 1 .. 2 : i = 1 \/ (i = 2 /\ i - 1 = 1 /\ ~(i <= 1))
    OBVIOUS
  <2> QED
    BY <1>1, <1>2, <2>1
<1>4. s \o t = u
  BY <1>1, <1>2, <1>3, SeqEqual
<1> QED
  BY <1>4 DEF s, t, u

LEMMA HollowNeutral == <<"lbrace", "rbrace">> \in Neutrals /\ <<"lbrack", "rbrack">> \in Neutrals
<1> DEFINE a == <<"lbrace">>
           b == <<"rbrace">>
           c == <<"lbrack">>
           d == <<"rbrack">>
<1>1. a \o b = <<"lbrace", "rbrace">> /\ c \o d = <<"lbrack", "rbrack">>
  <2>1. "lbrace" \in Tokens /\ "rbrace" \in Tokens /\ "lbrack" \in Tokens /\ "rbrack" \in Tokens
    BY DEF Tokens
  <2> QED
    BY <2>1, Pair
<1>2. /\ a \in Seq(Tokens) /\ b \in Seq(Tokens) /\ c \in Seq(Tokens) /\ d \in Seq(Tokens)
  BY DEF Tokens
<1> HIDE DEF a, b, c, d
<1>3. a \o b \in Seq(Tokens) /\ c \o d \in Seq(Tokens)
  BY <1>2, ConcatProperties
<1>4. ASSUME NEW stack \in Seq(Closers), NEW depth \in Nat, NEW comma \in BOOLEAN
      PROVE  /\ Runs(a \o b, Out(stack, depth, comma), Out(stack, depth, FALSE), depth)
             /\ Runs(c \o d, Out(stack, depth, comma), Out(stack, depth, FALSE), depth)
  <2> DEFINE u == Out(stack, depth, comma)
             v == Out(<<"rbrace">> \o stack, depth + 1, FALSE)
             w == Out(<<"rbrack">> \o stack, depth, FALSE)
             z == Out(stack, depth, FALSE)
  <2>1. /\ Runs(a, u, v, depth) /\ Runs(c, u, w, depth)
        /\ Runs(b, v, z, depth) /\ Runs(d, w, z, depth)
    BY BracketRuns DEF a, b, c, d
  <2> HIDE DEF u, v, w, z
  <2>2. Runs(a \o b, u, z, depth) /\ Runs(c \o d, u, z, depth)
    BY <1>2, <2>1, RunsConcat
  <2> QED
    BY <2>2 DEF u, z
<1> QED
  BY <1>1, <1>3, <1>4 DEF Neutrals, Neutral

\* ... a scalar, ...
LEMMA ScalarNeutral == <<"x">> \in Neutrals
<1>1. <<"x">> \in Seq(Tokens)
  BY DEF Tokens
<1>2. ASSUME NEW stack \in Seq(Closers), NEW depth \in Nat, NEW comma \in BOOLEAN
      PROVE  Runs(<<"x">>, Out(stack, depth, comma), Out(stack, depth, FALSE), depth)
  <2> DEFINE a == Out(stack, depth, comma)
             b == Out(stack, depth, FALSE)
  <2>1. a \in States /\ b \in States /\ a.depth = depth /\ b.depth = depth
    BY OutIsState
  <2>2. Reads(a, "x", b)
    BY DEF Reads, ReadsOutside, Out
  <2> HIDE DEF a, b
  <2>3. depth >= depth
    OBVIOUS
  <2>4. Runs(<<"x">>, a, b, depth)
    BY <2>1, <2>2, <2>3, RunsOne
  <2> QED
    BY <2>4 DEF a, b
<1> QED
  BY <1>1, <1>2 DEF Neutrals, Neutral

\* ... a member, ...
LEMMA MemberNeutral ==
  ASSUME NEW v \in Neutrals
  PROVE  Key \o v \in Neutrals
<1> DEFINE q == <<"quote">>
           p == <<"colon">>
<1>1. v \in Seq(Tokens) /\ q \in Seq(Tokens) /\ p \in Seq(Tokens)
  <2>1. v \in Seq(Tokens)
    BY DEF Neutrals
  <2>2. q \in Seq(Tokens) /\ p \in Seq(Tokens)
    BY DEF Tokens
  <2> QED
    BY <2>1, <2>2
<1>2. Key \in Seq(Tokens) /\ Key = (q \o q) \o p
  <2>1. "quote" \in Tokens /\ "colon" \in Tokens
    BY DEF Tokens
  <2>2. q \o q = <<"quote", "quote">>
    BY <2>1, Pair
  <2>3. /\ Key \in Seq(Tokens) /\ Len(Key) = 3
        /\ Key[1] = "quote" /\ Key[2] = "quote" /\ Key[3] = "colon"
    BY <2>1 DEF Key
  <2> DEFINE s == <<"quote", "quote">>
  <2>4. /\ s \in Seq(Tokens) /\ Len(s) = 2 /\ s[1] = "quote" /\ s[2] = "quote"
        /\ Len(p) = 1 /\ p[1] = "colon"
    BY <2>1
  <2> HIDE DEF s, p
  <2>5. /\ s \o p \in Seq(Tokens) /\ Len(s \o p) = Len(s) + Len(p)
        /\ \A i \in 1 .. Len(s) + Len(p) : (s \o p)[i] = IF i <= Len(s) THEN s[i] ELSE p[i - Len(s)]
    BY <1>1, <2>4, ConcatProperties
  <2>6. Len(s) + Len(p) = 3
    BY <2>4
  <2>7. \A i \in 1 .. 3 : (s \o p)[i] = Key[i]
    <3>1. \A i \in 1 .. 3 : i = 1 \/ i = 2 \/ (i = 3 /\ i - 2 = 1 /\ ~(i <= 2))
      OBVIOUS
    <3>2. 1 <= 2 /\ 2 <= 2
      OBVIOUS
    <3> QED
      BY <2>3, <2>4, <2>5, <2>6, <3>1, <3>2
  <2>8. s \o p = Key
    BY <2>3, <2>5, <2>6, <2>7, SeqEqual
  <2> QED
    BY <2>2, <2>3, <2>8 DEF s
<1> HIDE DEF q, p
<1>3. q \o q \in Seq(Tokens)
  BY <1>1, ConcatProperties
<1>4. ASSUME NEW stack \in Seq(Closers), NEW depth \in Nat, NEW comma \in BOOLEAN
      PROVE  Runs(Key \o v, Out(stack, depth, comma), Out(stack, depth, FALSE), depth)
  <2> DEFINE a == Out(stack, depth, comma)
             b == In(stack, depth, FALSE)
             c == Out(stack, depth, FALSE)
  <2>0. FALSE \in BOOLEAN
    OBVIOUS
  <2>1. Runs(q, a, b, depth) /\ Runs(q, b, c, depth)
    BY QuoteRuns DEF q
  <2>2. Runs(p, c, c, depth)
    <3>1. c \in States /\ c.depth = depth
      BY <2>0, OutIsState
    <3>2. Reads(c, "colon", c)
      BY DEF Reads, ReadsOutside, Out
    <3> HIDE DEF c
    <3>3. depth >= depth
      OBVIOUS
    <3> QED
      BY <3>1, <3>2, <3>3, RunsOne DEF p
  <2>3. Runs(v, c, c, depth)
    BY <2>0 DEF Neutrals, Neutral
  <2> HIDE DEF a, b, c
  <2>4. Runs(q \o q, a, c, depth)
    BY <1>1, <2>1, RunsConcat
  <2>5. Runs((q \o q) \o p, a, c, depth)
    BY <1>1, <1>3, <2>2, <2>4, RunsConcat
  <2>6. Runs(Key \o v, a, c, depth)
    BY <1>1, <1>2, <2>3, <2>5, RunsConcat
  <2> QED
    BY <2>6 DEF a, c
<1>5. Key \o v \in Seq(Tokens)
  BY <1>1, <1>2, ConcatProperties
<1> QED
  BY <1>4, <1>5 DEF Neutrals, Neutral

\* ... and two of them with a comma between.
LEMMA ListNeutral ==
  ASSUME NEW s \in Neutrals, NEW t \in Neutrals
  PROVE  (s \o <<"comma">>) \o t \in Neutrals
<1> DEFINE p == <<"comma">>
<1>1. s \in Seq(Tokens) /\ t \in Seq(Tokens) /\ p \in Seq(Tokens)
  <2>1. s \in Seq(Tokens) /\ t \in Seq(Tokens)
    BY DEF Neutrals
  <2>2. p \in Seq(Tokens)
    BY DEF Tokens
  <2> QED
    BY <2>1, <2>2
<1> HIDE DEF p
<1>2. s \o p \in Seq(Tokens)
  BY <1>1, ConcatProperties
<1>3. ASSUME NEW stack \in Seq(Closers), NEW depth \in Nat, NEW comma \in BOOLEAN
      PROVE  Runs((s \o p) \o t, Out(stack, depth, comma), Out(stack, depth, FALSE), depth)
  <2> DEFINE a == Out(stack, depth, comma)
             b == Out(stack, depth, FALSE)
             c == Out(stack, depth, TRUE)
  <2>0. FALSE \in BOOLEAN /\ TRUE \in BOOLEAN
    OBVIOUS
  <2>1. Runs(s, a, b, depth) /\ Runs(t, c, b, depth)
    BY <2>0 DEF Neutrals, Neutral
  <2>2. Runs(p, b, c, depth)
    <3>1. b \in States /\ b.depth = depth /\ c \in States /\ c.depth = depth
      BY <2>0, OutIsState
    <3>2. Reads(b, "comma", c)
      BY DEF Reads, ReadsOutside, Out
    <3> HIDE DEF b, c
    <3>3. depth >= depth
      OBVIOUS
    <3> QED
      BY <3>1, <3>2, <3>3, RunsOne DEF p
  <2> HIDE DEF a, b, c
  <2>4. Runs(s \o p, a, c, depth)
    BY <1>1, <2>1, <2>2, RunsConcat
  <2>5. Runs((s \o p) \o t, a, b, depth)
    BY <1>1, <1>2, <2>1, <2>4, RunsConcat
  <2> QED
    BY <2>5 DEF a, b
<1>4. (s \o p) \o t \in Seq(Tokens)
  BY <1>1, <1>2, ConcatProperties
<1> QED
  BY <1>3, <1>4 DEF Neutrals, Neutral, p

-----------------------------------------------------------------------------
(* The grammar *)

Braced == {<<"lbrace">> \o t \o <<"rbrace">> : t \in Neutrals}
Derived == [object : SUBSET Braced, value : SUBSET Neutrals, items : SUBSET Neutrals,
           members : SUBSET Neutrals]

LEMMA Concatenated ==
  ASSUME NEW S, NEW T, NEW u \in Concat(S, T)
  PROVE  \E s \in S, t \in T : u = s \o t
BY DEF Concat

LEMMA ListsNeutral ==
  ASSUME NEW S, NEW T, S \subseteq Neutrals, T \subseteq Neutrals
  PROVE  Concat(Concat(S, {<<"comma">>}), T) \subseteq Neutrals
<1> DEFINE p == <<"comma">>
           P == {p}
           Separated == Concat(S, P)
<1>1. ASSUME NEW s \in Neutrals, NEW t \in Neutrals PROVE (s \o p) \o t \in Neutrals
  BY ListNeutral
<1> HIDE DEF p, P, Separated
<1>2. ASSUME NEW u \in Concat(Separated, T) PROVE u \in Neutrals
  <2>1. PICK a \in Separated, t \in T : u = a \o t
    BY Concatenated
  <2>0. a \in Concat(S, P)
    BY DEF Separated
  <2>2. PICK s \in S, q \in P : a = s \o q
    BY <2>0, Concatenated
  <2>3. q = p
    BY DEF P
  <2> QED
    BY <1>1, <2>1, <2>2, <2>3
<1> QED
  BY <1>2 DEF Separated, P, p

LEMMA LongerTextsNeutral ==
  ASSUME NEW n \in 1 .. Longest, NEW texts \in Seq(Derived), Len(texts) = n - 1
  PROVE  LongerTexts(texts, n) \in Seq(Derived) /\ Len(LongerTexts(texts, n)) = n
<1>0. n \in Nat /\ \A m : m \in 1 .. (n - 1) => texts[m] \in Derived
  OBVIOUS
<1> DEFINE Value(m) == IF m \in 1 .. (n - 1) THEN texts[m]["value"] ELSE {}
           Items(m) == IF m \in 1 .. (n - 1) THEN texts[m]["items"] ELSE {}
           Members(m) == IF m \in 1 .. (n - 1) THEN texts[m]["members"] ELSE {}
           object == {<<"lbrace">> \o l \o <<"rbrace">> : l \in Members(n - 2)}
           array == {<<"lbrack">> \o l \o <<"rbrack">> : l \in Items(n - 2)}
           scalar == IF n = 1 THEN {<<"x">>} ELSE {}
           hollow == IF n = 2 THEN {<<"lbrace", "rbrace">>, <<"lbrack", "rbrack">>} ELSE {}
           value == IF n <= Longest - 5
                    THEN object \cup array \cup String(n) \cup scalar \cup hollow ELSE {}
           Member(m) == {Key \o v : v \in Value(m - 3)}
           moreItems ==
             UNION {Concat(Concat(Items(m), {<<"comma">>}), Value(n - m - 1)) : m \in 1 .. (n - 2)}
           moreMembers ==
             UNION {Concat(Concat(Members(m), {<<"comma">>}), Member(n - m - 1)) : m \in 1 .. (n - 2)}
           items == IF n <= Longest - 7 THEN value \cup moreItems ELSE {}
           longer == [object |-> object, value |-> value, items |-> items,
                      members |-> Member(n) \cup moreMembers]
<1>1. LongerTexts(texts, n) = Append(texts, longer)
  BY DEF LongerTexts
<1>2. \A m : Value(m) \subseteq Neutrals /\ Items(m) \subseteq Neutrals /\ Members(m) \subseteq Neutrals
  BY <1>0 DEF Derived
<1> HIDE DEF Value, Items, Members
<1>3. object \subseteq Braced /\ object \subseteq Neutrals /\ array \subseteq Neutrals
  BY <1>2, BracketsNeutral DEF Braced
<1>4. String(n) \subseteq Neutrals /\ scalar \subseteq Neutrals /\ hollow \subseteq Neutrals
  BY <1>0, StringNeutral, ScalarNeutral, HollowNeutral
<1>5. \A m : Member(m) \subseteq Neutrals
  BY <1>2, MemberNeutral
<1> HIDE DEF object, array, scalar, hollow, Member
<1>6. value \subseteq Neutrals
  BY <1>3, <1>4
<1>7. ASSUME NEW S, NEW T, S \subseteq Neutrals, T \subseteq Neutrals
      PROVE  Concat(Concat(S, {<<"comma">>}), T) \subseteq Neutrals
  BY <1>7, ListsNeutral
<1>8. moreItems \subseteq Neutrals /\ moreMembers \subseteq Neutrals
  <2>1. \A m : /\ Concat(Concat(Items(m), {<<"comma">>}), Value(n - m - 1)) \subseteq Neutrals
               /\ Concat(Concat(Members(m), {<<"comma">>}), Member(n - m - 1)) \subseteq Neutrals
    BY <1>2, <1>5, <1>7
  <2> QED
    BY <2>1
<1> HIDE DEF value, moreItems, moreMembers
<1>9. longer \in Derived
  BY <1>3, <1>5, <1>6, <1>8 DEF Derived
<1> HIDE DEF longer
<1> QED
  BY <1>0, <1>1, <1>9, AppendProperties

LEMMA TextsAreDerived ==
  /\ \A n \in 0 .. Longest : TextsUpTo[n] \in Seq(Derived) /\ Len(TextsUpTo[n]) = n
  /\ Longest \in Nat
<1> DEFINE N == Longest
           S == Seq(Derived)
           base == <<>>
           Following(s, i) == CHOOSE all \in {LongerTexts(shorter, i) : shorter \in {s}} : TRUE
           Body(f) == [i \in 0 .. N |-> IF i = 0 THEN base ELSE Following(f[i - 1], i)]
           F == [i \in 1 .. N |-> [s \in S |-> IF Len(s) = i - 1 THEN LongerTexts(s, i) ELSE s]]
<1>0. N \in Nat
  BY RepairAssumption DEF RepairAssumption
<1>1. TextsUpTo = CHOOSE f : f = Body(f)
  BY DEF TextsUpTo
<1>2. \A s, i : Following(s, i) = LongerTexts(s, i)
  OBVIOUS
<1>3. base \in S /\ Len(base) = 0
  OBVIOUS
<1>4. \A i \in 1 .. N, s \in S : Len(s) = i - 1 => LongerTexts(s, i) \in S /\ Len(LongerTexts(s, i)) = i
  BY LongerTextsNeutral
<1> HIDE DEF N, base, S, Following
<1>5. F \in [1 .. N -> [S -> S]]
  BY <1>4
<1>6. PICK f \in [0 .. N -> S] : f[0] = base /\ \A i \in 1 .. N : f[i] = F[i][f[i - 1]]
  <2> HIDE DEF F
  <2>1. \E f \in [0 .. N -> S] : f[0] = base /\ \A i \in 1 .. N : f[i] = F[i][f[i - 1]]
    BY <1>0, <1>3, <1>5, Recursion
  <2> QED
    BY <2>1
<1>7. \A i \in 1 .. N : /\ f[i - 1] \in S
                        /\ f[i] = IF Len(f[i - 1]) = i - 1 THEN LongerTexts(f[i - 1], i) ELSE f[i - 1]
  <2>1. \A i \in 1 .. N : f[i - 1] \in S
    BY <1>0, <1>6
  <2> QED
    BY <1>6, <2>1
<1> DEFINE T == {n \in Nat : n <= N => Len(f[n]) = n}
<1>8. 0 \in T
  BY <1>3, <1>6
<1>9. ASSUME NEW n \in Nat, n \in T PROVE n + 1 \in T
  <2> SUFFICES ASSUME n + 1 <= N PROVE Len(f[n + 1]) = n + 1
    OBVIOUS
  <2>1. n + 1 \in 1 .. N /\ n + 1 - 1 = n /\ Len(f[n]) = n
    BY <1>0, <1>9
  <2> QED
    BY <1>4, <1>7, <2>1
<1>10. \A i \in 1 .. N : f[i] = Following(f[i - 1], i)
  <2>1. \A n \in Nat : n \in T
    <3> HIDE DEF T
    <3> QED
      BY <1>8, <1>9, Induction
  <2>2. \A i \in 1 .. N : Len(f[i - 1]) = i - 1
    BY <1>0, <2>1
  <2> QED
    BY <1>2, <1>7, <2>2
<1>11. f = Body(f)
  <2>1. \A i \in 0 .. N : i # 0 => i \in 1 .. N
    BY <1>0
  <2>2. \A i \in 0 .. N : f[i] = Body(f)[i]
    BY <1>6, <1>10, <2>1
  <2>3. f = [i \in 0 .. N |-> f[i]]
    BY <1>6
  <2> HIDE DEF F
  <2> QED
    BY <2>2, <2>3
<1> DEFINE g == TextsUpTo
<1>12. g = Body(g)
  <2> HIDE DEF Body
  <2> QED
    BY <1>1, <1>11
<1> HIDE DEF g
<1>13. g[0] = base /\ \A i \in 1 .. N : g[i] = LongerTexts(g[i - 1], i)
  <2>1. \A i \in 0 .. N : g[i] = Body(g)[i]
    BY <1>12
  <2> QED
    BY <1>0, <1>2, <2>1
<1> DEFINE U == {n \in Nat : n <= N => g[n] \in S /\ Len(g[n]) = n}
<1>14. 0 \in U
  BY <1>3, <1>13
<1>15. ASSUME NEW n \in Nat, n \in U PROVE n + 1 \in U
  <2> SUFFICES ASSUME n + 1 <= N PROVE g[n + 1] \in S /\ Len(g[n + 1]) = n + 1
    OBVIOUS
  <2>1. n + 1 \in 1 .. N /\ n + 1 - 1 = n /\ g[n] \in S /\ Len(g[n]) = n
    BY <1>0, <1>15
  <2> QED
    BY <1>4, <1>13, <2>1
<1>16. \A n \in Nat : n \in U
  <2> HIDE DEF U
  <2> QED
    BY <1>14, <1>15, Induction
<1> QED
  BY <1>0, <1>16 DEF g, N, S

\* Every object is a text of the grammar in braces.
LEMMA ObjectsBraced == Objects \subseteq Braced
<1>1. ASSUME NEW n \in 1 .. Longest PROVE Grammar[n].object \subseteq Braced
  <2>1. Longest \in 0 .. Longest /\ Longest \in Nat
    BY TextsAreDerived
  <2>2. Grammar \in Seq(Derived) /\ Len(Grammar) = Longest
    BY <2>1, TextsAreDerived DEF Grammar
  <2>3. Grammar[n] \in Derived
    BY <2>2
  <2> QED
    BY <2>3 DEF Derived
<1> QED
  BY <1>1 DEF Objects

-----------------------------------------------------------------------------
(* What the machine reads, the functions of the code read as well *)

Start == Out(<<>>, 0, FALSE)

\* f reads all of r and comes to depth 0 at its ends only.
Follows(f, r) ==
  /\ f \in [0 .. Len(r) -> States]
  /\ f[0] = Start /\ f[Len(r)] = Start
  /\ \A i \in 1 .. Len(r) : Reads(f[i - 1], r[i], f[i])
  /\ \A i \in 1 .. (Len(r) - 1) : f[i].depth >= 1

LEMMA StartIsState == Start \in States /\ Start.depth = 0
BY EmptySeq, OutIsState DEF Start

LEMMA ObjectsFollowed ==
  ASSUME NEW r \in Objects
  PROVE  /\ r \in Seq(Tokens) /\ Len(r) >= 2 /\ r[1] = "lbrace" /\ r[Len(r)] = "rbrace"
         /\ \E f : Follows(f, r)
<1>1. PICK t \in Neutrals : r = <<"lbrace">> \o t \o <<"rbrace">>
  BY ObjectsBraced DEF Braced
<1> DEFINE a == <<"lbrace">>
           b == <<"rbrace">>
           u == a \o t
           N == Len(t)
<1>2. /\ a \in Seq(Tokens) /\ b \in Seq(Tokens) /\ Len(a) = 1 /\ Len(b) = 1
      /\ a[1] = "lbrace" /\ b[1] = "rbrace"
  BY DEF Tokens
<1>3. t \in Seq(Tokens) /\ N \in Nat
  BY DEF Neutrals
<1>4. r = u \o b
  BY <1>1
<1> HIDE DEF a, b, N
<1>5. /\ u \in Seq(Tokens) /\ Len(u) = 1 + N
      /\ \A i \in 1 .. 1 + N : u[i] = IF i <= 1 THEN a[i] ELSE t[i - 1]
  <2>1. /\ u \in Seq(Tokens) /\ Len(u) = Len(a) + Len(t)
        /\ \A i \in 1 .. Len(a) + Len(t) :
             u[i] = IF i <= Len(a) THEN a[i] ELSE t[i - Len(a)]
    BY <1>2, <1>3, ConcatProperties DEF u
  <2>2. Len(a) = 1 /\ Len(t) = N
    BY <1>2 DEF N
  <2> QED
    BY <2>1, <2>2
<1> HIDE DEF u
<1>6. /\ r \in Seq(Tokens) /\ Len(r) = N + 2
      /\ \A i \in 1 .. N + 2 : r[i] = IF i <= 1 + N THEN u[i] ELSE b[i - (1 + N)]
  <2>1. /\ u \o b \in Seq(Tokens) /\ Len(u \o b) = Len(u) + Len(b)
        /\ \A i \in 1 .. Len(u) + Len(b) :
             (u \o b)[i] = IF i <= Len(u) THEN u[i] ELSE b[i - Len(u)]
    BY <1>2, <1>5, ConcatProperties
  <2>2. Len(u) = 1 + N /\ Len(b) = 1
    BY <1>2, <1>5
  <2>3. 1 + N + 1 = N + 2
    BY <1>3
  <2> QED
    BY <1>4, <2>1, <2>2, <2>3
<1>7. r[1] = "lbrace" /\ r[N + 2] = "rbrace" /\ \A i \in 1 .. N : r[i + 1] = t[i]
  <2>1. r[1] = "lbrace"
    <3>1. 1 \in 1 .. N + 2 /\ 1 \in 1 .. 1 + N /\ 1 <= 1 + N /\ 1 <= 1
      BY <1>3
    <3> QED
      BY <1>2, <1>5, <1>6, <3>1
  <2>2. r[N + 2] = b[1]
    <3> DEFINE k == N + 2
    <3>1. k - (1 + N) = 1 /\ k \in 1 .. N + 2 /\ ~(k <= 1 + N)
      BY <1>3
    <3> HIDE DEF k
    <3>2. r[k] = b[k - (1 + N)]
      BY <1>6, <3>1
    <3>3. r[k] = b[1]
      BY <3>1, <3>2
    <3> QED
      BY <3>3 DEF k
  <2>3. ASSUME NEW i \in 1 .. N PROVE r[i + 1] = t[i]
    <3>1. /\ i + 1 \in 1 .. N + 2 /\ i + 1 \in 1 .. 1 + N /\ i + 1 <= 1 + N /\ ~(i + 1 <= 1)
          /\ i + 1 - 1 = i
      BY <1>3
    <3> QED
      BY <1>5, <1>6, <3>1
  <2> QED
    BY <1>2, <2>1, <2>2, <2>3
<1> DEFINE c == Out(<<"rbrace">> \o <<>>, 0 + 1, FALSE)
<1>8. /\ <<>> \in Seq(Closers) /\ 0 \in Nat /\ FALSE \in BOOLEAN /\ "rbrace" \in Closers
  BY DEF Closers
<1>9. Runs(t, c, c, 1)
  <2>0. <<"rbrace">> \o <<>> \in Seq(Closers)
    BY <1>8, Pushed
  <2>1. 0 + 1 \in Nat /\ 0 + 1 = 1
    OBVIOUS
  <2>2. Runs(t, c, c, 0 + 1)
    BY <1>8, <2>0, <2>1 DEF Neutrals, Neutral
  <2> QED
    BY <2>1, <2>2
<1>10. Runs(<<"lbrace">>, Start, c, 0) /\ Runs(<<"rbrace">>, c, Start, 0)
  BY <1>8, BracketRuns DEF Start
<1> HIDE DEF c
<1>11. PICK g \in [0 .. N -> States] :
         /\ g[0] = c /\ g[N] = c
         /\ \A i \in 1 .. N : Reads(g[i - 1], t[i], g[i])
         /\ \A i \in 0 .. N : g[i].depth >= 1
  BY <1>9 DEF Runs, N
<1>12. Reads(Start, "lbrace", c) /\ Reads(c, "rbrace", Start)
  <2>1. ASSUME NEW from, NEW to, NEW d, Runs(<<d>>, from, to, 0) PROVE Reads(from, d, to)
    <3>1. Len(<<d>>) = 1 /\ <<d>>[1] = d
      OBVIOUS
    <3> DEFINE s == <<d>>
    <3>2. s[1] = d /\ Len(s) = 1 /\ Runs(s, from, to, 0)
      BY <2>1, <3>1
    <3> HIDE DEF s
    <3>3. PICK f \in [0 .. 1 -> States] : /\ f[0] = from /\ f[1] = to
                                          /\ \A i \in 1 .. 1 : Reads(f[i - 1], s[i], f[i])
      BY <3>2 DEF Runs
    <3>4. Reads(f[1 - 1], s[1], f[1]) /\ 1 - 1 = 0
      BY <3>3
    <3> QED
      BY <3>2, <3>3, <3>4
  <2> QED
    BY <1>10, <2>1
<1> DEFINE f == [i \in 0 .. N + 2 |-> IF i \in 1 .. N + 1 THEN g[i - 1] ELSE Start]
<1>13. \A i \in 1 .. N + 1 : i - 1 \in 0 .. N /\ i \in 0 .. N + 2
  BY <1>3
<1>14. f \in [0 .. N + 2 -> States]
  BY <1>11, <1>13, StartIsState
<1>15. \A i \in 1 .. N + 1 : f[i] = g[i - 1]
  BY <1>13
<1>16. f[0] = Start /\ f[N + 2] = Start /\ f[1] = c /\ f[N + 1] = c
  <2>1. 0 \notin 1 .. N + 1 /\ 0 \in 0 .. N + 2 /\ N + 2 \notin 1 .. N + 1 /\ N + 2 \in 0 .. N + 2
    BY <1>3
  <2>2. 1 \in 1 .. N + 1 /\ N + 1 \in 1 .. N + 1 /\ 1 - 1 = 0 /\ N + 1 - 1 = N
    BY <1>3
  <2>3. f[1] = g[0] /\ f[N + 1] = g[N]
    <3> DEFINE k == N + 1
    <3>1. k \in 1 .. N + 1 /\ k - 1 = N /\ 1 \in 1 .. N + 1 /\ 1 - 1 = 0
      BY <1>3
    <3> HIDE DEF k, f
    <3>2. f[k] = g[k - 1] /\ f[1] = g[1 - 1]
      BY <1>15, <3>1
    <3>3. f[k] = g[N] /\ f[1] = g[0]
      BY <3>1, <3>2
    <3> QED
      BY <3>3 DEF k
  <2> QED
    BY <1>11, <2>1, <2>3
<1> HIDE DEF f
<1>17. ASSUME NEW i \in 1 .. N + 2 PROVE Reads(f[i - 1], r[i], f[i])
  <2>1. CASE i = 1
    <3>1. i - 1 = 0
      BY <2>1
    <3> QED
      BY <1>7, <1>12, <1>16, <2>1, <3>1
  <2>2. CASE i = N + 2
    <3>1. i - 1 = N + 1
      BY <1>3, <2>2
    <3> QED
      BY <1>7, <1>12, <1>16, <2>2, <3>1
  <2>3. CASE i # 1 /\ i # N + 2
    <3>1. i \in 1 .. N + 1 /\ i - 1 \in 1 .. N + 1 /\ i - 1 \in 1 .. N /\ i - 1 + 1 = i
      BY <1>3, <2>3
    <3>2. f[i] = g[i - 1] /\ f[i - 1] = g[i - 1 - 1] /\ r[i] = t[i - 1]
      BY <1>7, <1>15, <3>1
    <3> QED
      BY <1>11, <3>1, <3>2
  <2> QED
    BY <2>1, <2>2, <2>3
<1>18. \A i \in 1 .. (N + 2 - 1) : f[i].depth >= 1
  BY <1>3, <1>11, <1>13, <1>15
<1>19. Follows(f, r)
  <2>1. Len(r) = N + 2
    BY <1>6
  <2> QED
    <3>1. f \in [0 .. Len(r) -> States]
      BY <1>14, <2>1
    <3>2. f[0] = Start /\ f[Len(r)] = Start
      BY <1>16, <2>1
    <3>3. \A i \in 1 .. Len(r) : Reads(f[i - 1], r[i], f[i])
      BY <1>17, <2>1
    <3>4. \A i \in 1 .. (Len(r) - 1) : f[i].depth >= 1
      <4>1. Len(r) - 1 = N + 2 - 1
        BY <1>3, <2>1
      <4> QED
        BY <1>18, <4>1
    <3> QED
      BY <3>1, <3>2, <3>3, <3>4 DEF Follows
<1>20. N + 2 >= 2 /\ Len(r) = N + 2 /\ r \in Seq(Tokens)
  BY <1>3, <1>6
<1> QED
  BY <1>7, <1>19, <1>20

\* Between the tokens of an object there may be white space, and commas.
Loosely(a, c, b) == Reads(a, c, b) \/ (~a.str /\ c \in {"space", "comma"} /\ b = a)

\* The first n tokens of u are read like this.
ReadsTo(u, n, f) ==
  /\ \A i \in 0 .. n : f[i] \in States
  /\ f[0] = Start
  /\ \A i \in 1 .. n : Loosely(f[i - 1], u[i], f[i])

Tracked(a) == ~a.str => ~a.esc

\* Tokens outside strings that are not quotes or brackets.
LEMMA OtherTokens ==
  ASSUME NEW a, NEW b, NEW c, Loosely(a, c, b), ~a.str,
         c \notin {"quote", "lbrace", "lbrack", "rbrace", "rbrack"}
  PROVE  b = a \/ b = Out(a.stack, a.depth, FALSE) \/ b = Out(a.stack, a.depth, TRUE)
BY DEF Loosely, Reads, ReadsOutside, Closers

LEMMA ScanAgrees ==
  ASSUME NEW a \in States, NEW b \in States, NEW c, Loosely(a, c, b), Tracked(a)
  PROVE  /\ Step([inString |-> a.str, escaped |-> a.esc], c) = [inString |-> b.str, escaped |-> b.esc]
         /\ Tracked(b)
<1> DEFINE at == [inString |-> a.str, escaped |-> a.esc]
<1>0. at.inString = a.str /\ at.escaped = a.esc
  OBVIOUS
<1> HIDE DEF at
<1>1. CASE a.str
  <2>1. ReadsInside(a, c, b)
    BY <1>1 DEF Loosely, Reads
  <2>2. CASE a.esc /\ b = In(a.stack, a.depth, FALSE)
    <3>1. b.str = TRUE /\ b.esc = FALSE
      BY <2>2 DEF In
    <3> QED
      BY <1>0, <1>1, <2>2, <3>1 DEF Step, Tracked, at
  <2>3. CASE ~a.esc /\ c = "back" /\ b = In(a.stack, a.depth, TRUE)
    <3>1. b.str = TRUE /\ b.esc = TRUE
      BY <2>3 DEF In
    <3> QED
      BY <1>0, <1>1, <2>3, <3>1 DEF Step, Tracked, at
  <2>4. CASE ~a.esc /\ c = "quote" /\ b = Out(a.stack, a.depth, FALSE)
    <3>1. b.str = FALSE /\ b.esc = FALSE
      BY <2>4 DEF Out
    <3> QED
      BY <1>0, <1>1, <2>4, <3>1 DEF Step, Tracked, at
  <2>5. CASE ~a.esc /\ c \notin {"back", "quote"} /\ b = In(a.stack, a.depth, FALSE)
    <3>1. b.str = TRUE /\ b.esc = FALSE
      BY <2>5 DEF In
    <3> QED
      BY <1>0, <1>1, <2>5, <3>1 DEF Step, Tracked, at
  <2> QED
    BY <2>1, <2>2, <2>3, <2>4, <2>5 DEF ReadsInside
<1>2. CASE ~a.str
  <2>0. a.str = FALSE /\ a.esc = FALSE
    BY <1>2 DEF Tracked, States
  <2>1. CASE c = "quote"
    <3>1. b = In(a.stack, a.depth, FALSE)
      BY <1>2, <2>1 DEF Loosely, Reads, ReadsOutside, Closers
    <3>2. b.str = TRUE /\ b.esc = FALSE
      BY <3>1 DEF In
    <3> QED
      BY <1>0, <2>0, <2>1, <3>2 DEF Step, Tracked, at
  <2>2. CASE c # "quote"
    <3>0. b = a \/ \E stack, depth, comma : b = Out(stack, depth, comma)
      BY <1>2, <2>2 DEF Loosely, Reads, ReadsOutside
    <3>1. b.str = FALSE /\ b.esc = FALSE
      BY <2>0, <3>0 DEF Out
    <3> QED
      BY <1>0, <2>0, <2>2, <3>1 DEF Step, Tracked, at
  <2> QED
    BY <2>1, <2>2
<1> QED
  BY <1>1, <1>2

LEMMA StackAgrees ==
  ASSUME NEW a \in States, NEW b \in States, NEW c, Loosely(a, c, b)
  PROVE  b.stack = IF c \in {"lbrace", "rbrace", "lbrack", "rbrack"} /\ ~a.str
                   THEN Read(a.stack, c) ELSE a.stack
<1>1. CASE a.str
  BY <1>1 DEF Loosely, Reads, ReadsInside, In, Out
<1>2. CASE ~a.str /\ c = "quote"
  <2>1. b = In(a.stack, a.depth, FALSE)
    BY <1>2 DEF Loosely, Reads, ReadsOutside, Closers
  <2> QED
    BY <1>2, <2>1 DEF In
<1>6. CASE ~a.str /\ c \notin {"quote", "lbrace", "lbrack", "rbrace", "rbrack"}
  <2>1. b = a \/ b = Out(a.stack, a.depth, FALSE) \/ b = Out(a.stack, a.depth, TRUE)
    BY <1>6, OtherTokens
  <2>2. b.stack = a.stack
    BY <2>1 DEF Out
  <2> QED
    BY <1>6, <2>2
<1>3. CASE ~a.str /\ c = "lbrace"
  <2>1. b = Out(<<"rbrace">> \o a.stack, a.depth + 1, FALSE)
    BY <1>3 DEF Loosely, Reads, ReadsOutside, Closers
  <2>2. Read(a.stack, c) = <<"rbrace">> \o a.stack
    BY <1>3 DEF Read, Closer
  <2> QED
    BY <1>3, <2>1, <2>2 DEF Out
<1>4. CASE ~a.str /\ c = "lbrack"
  <2>1. b = Out(<<"rbrack">> \o a.stack, a.depth, FALSE)
    BY <1>4 DEF Loosely, Reads, ReadsOutside, Closers
  <2>2. Read(a.stack, c) = <<"rbrack">> \o a.stack
    BY <1>4 DEF Read, Closer
  <2> QED
    BY <1>4, <2>1, <2>2 DEF Out
<1>5. CASE ~a.str /\ c \in {"rbrace", "rbrack"}
  <2>1. /\ a.stack # <<>> /\ a.stack[1] = c
        /\ b = Out(Tail(a.stack), IF c = "rbrace" THEN a.depth - 1 ELSE a.depth, FALSE)
    BY <1>5 DEF Loosely, Reads, ReadsOutside, Closers
  <2>2. Read(a.stack, c) = Tail(a.stack)
    BY <1>5, <2>1 DEF Read
  <2> QED
    BY <1>5, <2>1, <2>2 DEF Out
<1> QED
  BY <1>1, <1>2, <1>3, <1>4, <1>5, <1>6

LEMMA DepthAgrees ==
  ASSUME NEW a \in States, NEW b \in States, NEW c, Loosely(a, c, b)
  PROVE  b.depth = IF c \notin {"lbrace", "rbrace"} \/ a.str THEN a.depth
                   ELSE IF c = "lbrace" THEN a.depth + 1
                   ELSE a.depth - 1
<1>1. CASE a.str
  BY <1>1 DEF Loosely, Reads, ReadsInside, In, Out
<1>2. CASE ~a.str /\ c = "quote"
  <2>1. b = In(a.stack, a.depth, FALSE)
    BY <1>2 DEF Loosely, Reads, ReadsOutside, Closers
  <2> QED
    BY <1>2, <2>1 DEF In
<1>5. CASE ~a.str /\ c = "lbrack"
  <2>1. b = Out(<<"rbrack">> \o a.stack, a.depth, FALSE)
    BY <1>5 DEF Loosely, Reads, ReadsOutside, Closers
  <2> QED
    BY <1>5, <2>1 DEF Out
<1>6. CASE ~a.str /\ c \notin {"quote", "lbrace", "lbrack", "rbrace", "rbrack"}
  <2>1. b = a \/ b = Out(a.stack, a.depth, FALSE) \/ b = Out(a.stack, a.depth, TRUE)
    BY <1>6, OtherTokens
  <2>2. b.depth = a.depth
    BY <2>1 DEF Out
  <2> QED
    BY <1>6, <2>2
<1>3. CASE ~a.str /\ c = "lbrace"
  <2>1. b = Out(<<"rbrace">> \o a.stack, a.depth + 1, FALSE)
    BY <1>3 DEF Loosely, Reads, ReadsOutside, Closers
  <2> QED
    BY <1>3, <2>1 DEF Out
<1>4. CASE ~a.str /\ c \in {"rbrace", "rbrack"}
  <2>1. b = Out(Tail(a.stack), IF c = "rbrace" THEN a.depth - 1 ELSE a.depth, FALSE)
    BY <1>4 DEF Loosely, Reads, ReadsOutside, Closers
  <2>2. b.depth = IF c = "rbrace" THEN a.depth - 1 ELSE a.depth
    BY <2>1 DEF Out
  <2> QED
    BY <1>4, <2>2
<1> QED
  BY <1>1, <1>2, <1>3, <1>4, <1>5, <1>6

LEMMA Agree ==
  ASSUME NEW X, NEW u \in Seq(X), NEW n \in 0 .. Len(u), NEW f, ReadsTo(u, n, f)
  PROVE  \A i \in 0 .. n : /\ Scan(u)[i] = [inString |-> f[i].str, escaped |-> f[i].esc]
                           /\ Scan(u)[i].inString = f[i].str
                           /\ Open(u)[i] = f[i].stack
                           /\ Depth(u)[i] = f[i].depth
<1>0. n \in Nat /\ 0 .. n \subseteq 0 .. Len(u) /\ 1 .. n \subseteq 1 .. Len(u)
  OBVIOUS
<1>1. /\ f[0] = Start
      /\ \A i \in 1 .. n : Loosely(f[i - 1], u[i], f[i]) /\ f[i] \in States /\ f[i - 1] \in States
  <2>1. (\A i \in 0 .. n : f[i] \in States) /\ \A i \in 1 .. n : i - 1 \in 0 .. n /\ i \in 0 .. n
    BY <1>0 DEF ReadsTo
  <2>2. \A i \in 1 .. n : f[i] \in States /\ f[i - 1] \in States
    BY <2>1
  <2> QED
    BY <2>2 DEF ReadsTo
<1> DEFINE Good(i) == /\ Scan(u)[i] = [inString |-> f[i].str, escaped |-> f[i].esc]
                      /\ Tracked(f[i])
                      /\ Open(u)[i] = f[i].stack
                      /\ Depth(u)[i] = f[i].depth
           T == {i \in Nat : i <= n => Good(i)}
<1>2. /\ Start.str = FALSE /\ Start.esc = FALSE /\ Start.stack = <<>> /\ Start.depth = 0
  BY DEF Start, Out
<1>3. Good(0)
  BY <1>1, <1>2, ScanIs, OpenIs, DepthIs DEF Tracked
<1>4. ASSUME NEW i \in 1 .. n, Good(i - 1) PROVE Good(i)
  <2>0. i \in 1 .. Len(u)
    BY <1>0
  <2> DEFINE a == f[i - 1]
             b == f[i]
             c == u[i]
             at == [inString |-> a.str, escaped |-> a.esc]
  <2>1. a \in States /\ b \in States /\ Loosely(a, c, b) /\ Tracked(a)
    BY <1>1, <1>4
  <2>2. Scan(u)[i - 1] = at /\ Open(u)[i - 1] = a.stack /\ Depth(u)[i - 1] = a.depth
    BY <1>4
  <2>3. at.inString = a.str
    OBVIOUS
  <2>4. /\ i \in Brackets(u) <=> (c \in {"lbrace", "rbrace", "lbrack", "rbrack"} /\ ~a.str)
        /\ i \in Braces(u) <=> (c \in {"lbrace", "rbrace"} /\ ~a.str)
    BY <2>0, <2>2, <2>3 DEF Brackets, Braces, Outside
  <2> HIDE DEF a, b, c, at
  <2>5. Scan(u)[i] = [inString |-> b.str, escaped |-> b.esc] /\ Tracked(b)
    <3>1. Scan(u)[i] = Step(Scan(u)[i - 1], u[i])
      BY <2>0, ScanIs
    <3>2. Scan(u)[i] = Step(at, c)
      BY <2>2, <3>1 DEF c
    <3> QED
      BY <2>1, <3>2, ScanAgrees DEF at
  <2>6. Open(u)[i] = b.stack
    <3>1. Open(u)[i] = IF i \in Brackets(u) THEN Read(Open(u)[i - 1], u[i]) ELSE Open(u)[i - 1]
      BY <2>0, OpenIs
    <3>2. b.stack = IF c \in {"lbrace", "rbrace", "lbrack", "rbrack"} /\ ~a.str
                    THEN Read(a.stack, c) ELSE a.stack
      BY <2>1, StackAgrees
    <3>3. Open(u)[i] = IF i \in Brackets(u) THEN Read(a.stack, c) ELSE a.stack
      BY <2>2, <3>1 DEF c
    <3>4. CASE i \in Brackets(u)
      BY <2>4, <3>2, <3>3, <3>4
    <3>5. CASE i \notin Brackets(u)
      BY <2>4, <3>2, <3>3, <3>5
    <3> QED
      BY <3>4, <3>5
  <2>7. Depth(u)[i] = b.depth
    <3>1. Depth(u)[i] = IF i \notin Braces(u) THEN Depth(u)[i - 1]
                        ELSE IF u[i] = "lbrace" THEN Depth(u)[i - 1] + 1
                        ELSE Depth(u)[i - 1] - 1
      BY <2>0, DepthIs
    <3>2. b.depth = IF c \notin {"lbrace", "rbrace"} \/ a.str THEN a.depth
                    ELSE IF c = "lbrace" THEN a.depth + 1
                    ELSE a.depth - 1
      BY <2>1, DepthAgrees
    <3>3. Depth(u)[i] = IF i \notin Braces(u) THEN a.depth
                        ELSE IF c = "lbrace" THEN a.depth + 1
                        ELSE a.depth - 1
      BY <2>2, <3>1 DEF c
    <3>4. CASE i \in Braces(u)
      <4>1. c \in {"lbrace", "rbrace"} /\ ~a.str
        BY <2>4, <3>4
      <4> DEFINE next == IF c = "lbrace" THEN a.depth + 1 ELSE a.depth - 1
      <4>2. b.depth = next
        BY <3>2, <4>1
      <4>3. Depth(u)[i] = next
        BY <3>3, <3>4
      <4> HIDE DEF next
      <4> QED
        BY <4>2, <4>3
    <3>5. CASE i \notin Braces(u)
      BY <2>4, <3>2, <3>3, <3>5
    <3> QED
      BY <3>4, <3>5
  <2> QED
    BY <2>5, <2>6, <2>7 DEF b
<1> HIDE DEF Good
<1>5. 0 \in T
  BY <1>3
<1>6. ASSUME NEW i \in Nat, i \in T PROVE i + 1 \in T
  <2> SUFFICES ASSUME i + 1 <= n PROVE Good(i + 1)
    OBVIOUS
  <2>1. i + 1 \in 1 .. n /\ i + 1 - 1 = i /\ Good(i)
    BY <1>0, <1>6
  <2> QED
    BY <1>4, <2>1
<1>7. \A i \in Nat : i \in T
  <2> HIDE DEF T
  <2> QED
    BY <1>5, <1>6, Induction
<1>8. ASSUME NEW i \in 0 .. n PROVE Good(i) /\ Scan(u)[i].inString = f[i].str
  <2>1. Good(i)
    BY <1>0, <1>7
  <2> QED
    BY <2>1 DEF Good
<1> QED
  BY <1>8 DEF Good

LEMMA AgreeAll ==
  ASSUME NEW X, NEW u \in Seq(X), NEW f, ReadsTo(u, Len(u), f)
  PROVE  /\ \A i \in 0 .. Len(u) : Scan(u)[i].inString = f[i].str
         /\ \A i \in 0 .. Len(u) : Open(u)[i] = f[i].stack
         /\ \A i \in 0 .. Len(u) : Depth(u)[i] = f[i].depth
<1> DEFINE n == Len(u)
<1>1. n \in 0 .. Len(u) /\ ReadsTo(u, n, f)
  OBVIOUS
<1> HIDE DEF n
<1>2. \A i \in 0 .. n : /\ Scan(u)[i] = [inString |-> f[i].str, escaped |-> f[i].esc]
                        /\ Scan(u)[i].inString = f[i].str
                        /\ Open(u)[i] = f[i].stack
                        /\ Depth(u)[i] = f[i].depth
  BY <1>1, Agree
<1> QED
  BY <1>2 DEF n

-----------------------------------------------------------------------------
(* The beginnings of objects *)

\* All of u is read strictly.
Strictly(u, f) ==
  /\ \A i \in 0 .. Len(u) : f[i] \in States
  /\ f[0] = Start
  /\ \A i \in 1 .. Len(u) : Reads(f[i - 1], u[i], f[i])

\* u is a beginning of r.
Begins(u, r) == Len(u) <= Len(r) /\ \A i \in 1 .. Len(u) : u[i] = r[i]

LEMMA BeginningRead ==
  ASSUME NEW X, NEW u \in Seq(X), NEW Y, NEW r \in Seq(Y), Begins(u, r), NEW f, Follows(f, r)
  PROVE  Strictly(u, f)
<1>1. 0 .. Len(u) \subseteq 0 .. Len(r) /\ 1 .. Len(u) \subseteq 1 .. Len(r)
  BY DEF Begins
<1>2. f \in [0 .. Len(r) -> States] /\ f[0] = Start
  BY DEF Follows
<1>3. \A i \in 0 .. Len(u) : f[i] \in States
  BY <1>1, <1>2
<1>4. \A i \in 1 .. Len(u) : Reads(f[i - 1], u[i], f[i])
  BY <1>1 DEF Follows, Begins
<1> QED
  BY <1>2, <1>3, <1>4 DEF Strictly

LEMMA StrictlyAgree ==
  ASSUME NEW X, NEW u \in Seq(X), NEW f, Strictly(u, f)
  PROVE  \A i \in 0 .. Len(u) : /\ Scan(u)[i].inString = f[i].str
                                /\ Open(u)[i] = f[i].stack
                                /\ Depth(u)[i] = f[i].depth
<1>1. Len(u) \in 0 .. Len(u)
  OBVIOUS
<1>2. ReadsTo(u, Len(u), f)
  BY DEF Strictly, ReadsTo, Loosely
<1> DEFINE n == Len(u)
<1>3. n \in 0 .. Len(u) /\ ReadsTo(u, n, f)
  BY <1>1, <1>2
<1> HIDE DEF n
<1>4. \A i \in 0 .. n : /\ Scan(u)[i] = [inString |-> f[i].str, escaped |-> f[i].esc]
                       /\ Scan(u)[i].inString = f[i].str
                       /\ Open(u)[i] = f[i].stack
                       /\ Depth(u)[i] = f[i].depth
  BY <1>3, Agree
<1> QED
  BY <1>4 DEF n

LEMMA CommaRead ==
  ASSUME NEW a, NEW b, NEW c, NEW d, Reads(a, "comma", b), ~a.str, Reads(b, c, d)
  PROVE  c \notin {"rbrace", "rbrack", "space"}
<1>1. b = Out(a.stack, a.depth, TRUE)
  BY DEF Reads, ReadsOutside, Closers
<1>2. ~b.str /\ b.comma
  BY <1>1 DEF Out
<1>3. ReadsOutside(b, c, d)
  BY <1>2 DEF Reads
<1> QED
  BY <1>2, <1>3 DEF ReadsOutside, Closers

\* Nothing is removed from what is read strictly.
LEMMA StrictlyKept ==
  ASSUME NEW X, NEW u \in Seq(X), NEW f, Strictly(u, f)
  PROVE  Compact(u) = u /\ FixTrailingComma(u) = u
<1> DEFINE N == Len(u)
<1>0. N \in Nat
  OBVIOUS
<1>1. \A i \in 1 .. N : /\ i - 1 \in 0 .. N
                        /\ Scan(u)[i - 1].inString = f[i - 1].str /\ Reads(f[i - 1], u[i], f[i])
  <2>1. \A i \in 1 .. N : i - 1 \in 0 .. N
    BY <1>0
  <2> QED
    BY <2>1, StrictlyAgree DEF Strictly
<1>2. \A i \in 1 .. N : u[i] = "space" => f[i - 1].str
  BY <1>1 DEF Reads, ReadsOutside, Closers
<1>3. Outside(u, {"space"}) = {}
  BY <1>1, <1>2 DEF Outside
<1>4. Compact(u) = u
  <2>1. Compact(u) = Kept(u, 1 .. Len(u))
    BY <1>3 DEF Compact
  <2> QED
    BY <2>1, KeptAll
<1>5. ASSUME NEW i \in 1 .. N, i \in Commas(u), NEW j \in (i + 1) .. N, u[j] \in {"rbrace", "rbrack"},
             \A k \in (i + 1) .. (j - 1) : u[k] = "space"
      PROVE  FALSE
  <2>1. i + 1 \in 1 .. N /\ i + 1 - 1 = i
    BY <1>0
  <2>2. u[i] = "comma" /\ ~f[i - 1].str
    BY <1>1, <1>5 DEF Commas, Outside
  <2>3. Reads(f[i - 1], "comma", f[i]) /\ Reads(f[i], u[i + 1], f[i + 1])
    <3>1. Reads(f[i - 1], u[i], f[i]) /\ Reads(f[i + 1 - 1], u[i + 1], f[i + 1])
      BY <1>1, <2>1
    <3> QED
      BY <2>1, <2>2, <3>1
  <2>4. u[i + 1] \notin {"rbrace", "rbrack", "space"}
    BY <2>2, <2>3, CommaRead
  <2>5. CASE j = i + 1
    BY <1>5, <2>4, <2>5
  <2>6. CASE j # i + 1
    <3>1. i + 1 \in (i + 1) .. (j - 1)
      BY <1>0, <2>6
    <3> QED
      BY <1>5, <2>4, <3>1
  <2> QED
    BY <2>5, <2>6
<1> DEFINE Trailing(i) == \E j \in (i + 1) .. N : /\ u[j] \in {"rbrace", "rbrack"}
                                                 /\ \A k \in (i + 1) .. (j - 1) : u[k] = "space"
           places == {i \in 1 .. N : i \in Commas(u) => ~Trailing(i)}
<1>6. FixTrailingComma(u) = Kept(u, places)
  BY DEF FixTrailingComma
<1>7. 1 .. Len(u) \subseteq places
  BY <1>5
<1> HIDE DEF places
<1>8. FixTrailingComma(u) = u
  BY <1>6, <1>7, KeptAll
<1> QED
  BY <1>4, <1>8

\* No object begins another one.
LEMMA ProperBeginning ==
  ASSUME NEW r \in Objects, NEW u \in Objects, Begins(u, r)
  PROVE  u = r
<1>1. /\ r \in Seq(Tokens) /\ Len(r) >= 2 /\ u \in Seq(Tokens) /\ Len(u) >= 2
  BY ObjectsFollowed
<1>2. PICK f : Follows(f, r)
  BY ObjectsFollowed
<1>3. PICK g : Follows(g, u)
  BY ObjectsFollowed
<1>4. Strictly(u, f)
  BY <1>1, <1>2, BeginningRead
<1>5. Strictly(u, g)
  <2>1. Begins(u, u)
    BY <1>1 DEF Begins
  <2> QED
    BY <1>1, <1>3, <2>1, BeginningRead
<1>6. f[Len(u)].depth = 0
  <2>1. Len(u) \in 0 .. Len(u)
    BY <1>1
  <2>2. Depth(u)[Len(u)] = f[Len(u)].depth /\ Depth(u)[Len(u)] = g[Len(u)].depth
    BY <1>1, <1>4, <1>5, <2>1, StrictlyAgree
  <2>3. g[Len(u)].depth = 0
    BY <1>3, StartIsState DEF Follows
  <2> QED
    BY <2>2, <2>3
<1>7. Len(u) = Len(r)
  <2> SUFFICES ASSUME Len(u) # Len(r) PROVE FALSE
    OBVIOUS
  <2>1. Len(u) \in 1 .. (Len(r) - 1)
    BY <1>1 DEF Begins
  <2>2. f[Len(u)].depth >= 1
    BY <1>2, <2>1 DEF Follows
  <2> QED
    BY <1>6, <2>2
<1> QED
  BY <1>1, <1>7, SeqEqual DEF Begins

-----------------------------------------------------------------------------
(* White space around a text *)

LEMMA Extremes ==
  ASSUME NEW n \in Nat, NEW S, S \subseteq 1 .. n, S # {}
  PROVE  /\ Min(S) \in S /\ \A i \in S : Min(S) <= i
         /\ Max(S) \in S /\ \A i \in S : i <= Max(S)
<1>1. \A i \in S : i \in Nat /\ n - i \in Nat
  OBVIOUS
<1>2. \E i \in S : \A j \in S : i <= j
  BY <1>1, Smallest
<1>3. \E i \in S : \A j \in S : i >= j
  <2> DEFINE T == {n - i : i \in S}
  <2>1. T \subseteq Nat /\ T # {}
    BY <1>1
  <2>2. PICK k \in T : \A m \in T : k <= m
    BY <2>1, Smallest
  <2>3. PICK i \in S : k = n - i
    OBVIOUS
  <2>4. \A j \in S : n - i <= n - j
    BY <2>2, <2>3
  <2> QED
    BY <1>1, <2>4
<1>4. Min(S) \in S /\ \A i \in S : Min(S) <= i
  BY <1>2 DEF Min
<1>5. Max(S) \in S /\ \A i \in S : Max(S) >= i
  BY <1>3 DEF Max
<1> QED
  BY <1>1, <1>4, <1>5

\* A text that begins with no white space loses that at its end.
LEMMA Trimmed ==
  ASSUME NEW X, NEW t \in Seq(X), t # <<>>, t[1] # "space"
  PROVE  \E m \in 1 .. Len(t) : /\ TrimSpace(t) = SubSeq(t, 1, m)
                                /\ t[m] # "space"
                                /\ \A i \in (m + 1) .. Len(t) : t[i] = "space"
<1> DEFINE N == Len(t)
           solid == {i \in 1 .. N : t[i] # "space"}
<1>1. N \in Nat /\ 1 \in 1 .. N
  OBVIOUS
<1>2. 1 \in solid
  BY <1>1
<1>3. TrimSpace(t) = SubSeq(t, Min(solid), Max(solid))
  BY <1>2 DEF TrimSpace
<1> HIDE DEF N
<1>4. /\ Min(solid) \in solid /\ \A i \in solid : Min(solid) <= i
      /\ Max(solid) \in solid /\ \A i \in solid : i <= Max(solid)
  <2>1. solid \subseteq 1 .. N /\ solid # {}
    BY <1>2
  <2> HIDE DEF solid
  <2> QED
    BY <1>1, <2>1, Extremes
<1>5. Min(solid) = 1
  <2>1. Min(solid) <= 1 /\ Min(solid) \in 1 .. N
    BY <1>2, <1>4
  <2> QED
    BY <1>1, <2>1
<1> DEFINE m == Max(solid)
<1>6. m \in 1 .. N /\ t[m] # "space"
  BY <1>4
<1>7. TrimSpace(t) = SubSeq(t, 1, m)
  BY <1>3, <1>5
<1>8. ASSUME NEW i \in (m + 1) .. N PROVE t[i] = "space"
  <2> SUFFICES ASSUME t[i] # "space" PROVE FALSE
    OBVIOUS
  <2>1. i \in solid
    BY <1>1, <1>6, <1>8
  <2>2. i <= m
    BY <1>4, <2>1
  <2> QED
    BY <1>6, <2>2
<1> HIDE DEF m
<1> QED
  BY <1>6, <1>7, <1>8 DEF N

LEMMA Beginning ==
  ASSUME NEW X, NEW t \in Seq(X), NEW m \in 0 .. Len(t)
  PROVE  /\ SubSeq(t, 1, m) \in Seq(X) /\ Len(SubSeq(t, 1, m)) = m
         /\ \A i \in 1 .. m : SubSeq(t, 1, m)[i] = t[i]
         /\ Begins(SubSeq(t, 1, m), t)
<1>1. 1 \in Int /\ m \in Int /\ \A i \in 1 .. m : t[i] \in X
  OBVIOUS
<1>2. /\ SubSeq(t, 1, m) \in Seq(X)
      /\ Len(SubSeq(t, 1, m)) = IF 1 <= m THEN m - 1 + 1 ELSE 0
      /\ \A i \in 1 .. m - 1 + 1 : SubSeq(t, 1, m)[i] = t[1 + i - 1]
  BY <1>1, SubSeqProperties
<1>3. Len(SubSeq(t, 1, m)) = m
  BY <1>2
<1>4. \A i \in 1 .. m : SubSeq(t, 1, m)[i] = t[i]
  <2>1. \A i \in 1 .. m : i \in 1 .. m - 1 + 1 /\ 1 + i - 1 = i
    OBVIOUS
  <2> QED
    BY <1>2, <2>1
<1> QED
  BY <1>2, <1>3, <1>4 DEF Begins

LEMMA TrimBegins ==
  ASSUME NEW X, NEW t \in Seq(X), t # <<>>, t[1] # "space"
  PROVE  /\ TrimSpace(t) \in Seq(X) /\ TrimSpace(t) # <<>> /\ Begins(TrimSpace(t), t)
         /\ TrimSpace(t)[1] = t[1] /\ TrimSpace(t)[Len(TrimSpace(t))] # "space"
         /\ \A i \in (Len(TrimSpace(t)) + 1) .. Len(t) : t[i] = "space"
<1>1. PICK m \in 1 .. Len(t) : /\ TrimSpace(t) = SubSeq(t, 1, m)
                               /\ t[m] # "space"
                               /\ \A i \in (m + 1) .. Len(t) : t[i] = "space"
  BY Trimmed
<1> DEFINE u == SubSeq(t, 1, m)
<1>2. /\ u \in Seq(X) /\ Len(u) = m /\ Begins(u, t)
      /\ \A i \in 1 .. m : u[i] = t[i]
  <2>1. m \in 0 .. Len(t)
    OBVIOUS
  <2> QED
    BY <2>1, Beginning
<1> HIDE DEF u
<1>3. TrimSpace(t) = u
  BY <1>1 DEF u
<1>4. u # <<>> /\ u[1] = t[1] /\ u[Len(u)] # "space"
  BY <1>1, <1>2
<1> QED
  BY <1>1, <1>2, <1>3, <1>4

LEMMA TrimNothing ==
  ASSUME NEW X, NEW t \in Seq(X), t # <<>>, t[1] # "space", t[Len(t)] # "space"
  PROVE  TrimSpace(t) = t
<1>1. PICK m \in 1 .. Len(t) : /\ TrimSpace(t) = SubSeq(t, 1, m)
                               /\ t[m] # "space"
                               /\ \A i \in (m + 1) .. Len(t) : t[i] = "space"
  BY Trimmed
<1>2. m = Len(t)
  <2> SUFFICES ASSUME m # Len(t) PROVE FALSE
    OBVIOUS
  <2>1. Len(t) \in (m + 1) .. Len(t)
    OBVIOUS
  <2> QED
    BY <1>1, <2>1
<1> QED
  BY <1>1, <1>2, SubSeqFull

-----------------------------------------------------------------------------
(* What closes a text *)

LEMMA CloserRead ==
  ASSUME NEW a \in States, NEW b, NEW c \in Closers, Reads(a, c, b)
  PROVE  /\ a.str => b.str
         /\ ~a.str => /\ ~b.str /\ a.stack # <<>> /\ a.stack[1] = c /\ b.stack = Tail(a.stack)
<1>1. CASE a.str
  <2>1. \E esc : b = In(a.stack, a.depth, esc)
    BY <1>1 DEF Reads, ReadsInside, Closers
  <2> QED
    BY <1>1, <2>1 DEF In
<1>2. CASE ~a.str
  <2>1. /\ a.stack # <<>> /\ a.stack[1] = c
        /\ b = Out(Tail(a.stack), IF c = "rbrace" THEN a.depth - 1 ELSE a.depth, FALSE)
    BY <1>2 DEF Reads, ReadsOutside, Closers
  <2> QED
    BY <1>2, <2>1 DEF Out
<1> QED
  BY <1>1, <1>2

\* Closers outside strings, up to the end of an object, are those that the stack holds.
LEMMA Popped ==
  ASSUME NEW r, NEW f, Follows(f, r), NEW n \in 0 .. Len(r), Len(r) \in Nat, ~f[n].str,
         \A i \in (n + 1) .. Len(r) : r[i] \in Closers
  PROVE  /\ f[n].stack \in Seq(Closers) /\ Len(f[n].stack) = Len(r) - n
         /\ \A k \in 1 .. (Len(r) - n) : f[n].stack[k] = r[n + k]
<1> DEFINE N == Len(r)
           S0 == f[n].stack
           Good(j) == LET S == f[n + j].stack IN
                      /\ ~f[n + j].str
                      /\ S \in Seq(Closers) /\ Len(S0) = j + Len(S)
                      /\ \A k \in 1 .. Len(S) : S[k] = S0[k + j]
                      /\ \A k \in 1 .. j : S0[k] = r[n + k]
           T == {j \in Nat : j <= N - n => Good(j)}
<1>0. N \in Nat /\ n \in Nat /\ n <= N
  OBVIOUS
<1>1. /\ \A i \in 0 .. N : f[i] \in States
      /\ f[N] = Start
      /\ \A i \in 1 .. N : Reads(f[i - 1], r[i], f[i])
  BY DEF Follows
<1>2. \A i \in 0 .. N : f[i].stack \in Seq(Closers)
  BY <1>1 DEF States
<1> HIDE DEF N
<1>3. S0 \in Seq(Closers)
  BY <1>0, <1>2
<1>4. 0 \in T
  <2>1. n + 0 = n
    BY <1>0
  <2>2. \A k \in 1 .. Len(S0) : k + 0 = k
    BY <1>3
  <2>3. Len(S0) = 0 + Len(S0)
    BY <1>3
  <2>4. Good(0)
    BY <1>3, <2>1, <2>2, <2>3
  <2> QED
    BY <2>4
<1> HIDE DEF Good
<1>5. ASSUME NEW j \in Nat, j \in T PROVE j + 1 \in T
  <2> SUFFICES ASSUME j + 1 <= N - n PROVE Good(j + 1)
    OBVIOUS
  <2>1. Good(j)
    BY <1>0, <1>5
  <2> DEFINE i == n + j + 1
             S == f[n + j].stack
             R == f[n + (j + 1)].stack
  <2>2. i \in (n + 1) .. N /\ i \in 1 .. N /\ i - 1 = n + j /\ i = n + (j + 1) /\ n + j \in 0 .. N
    BY <1>0
  <2>3. r[i] \in Closers
    BY <2>2 DEF N
  <2>4. Reads(f[n + j], r[i], f[n + (j + 1)]) /\ f[n + j] \in States
    <3>1. Reads(f[i - 1], r[i], f[i])
      BY <1>1, <2>2
    <3> QED
      BY <1>1, <2>2, <3>1
  <2>5. ~f[n + j].str
    BY <2>1 DEF Good
  <2>6. ~f[n + (j + 1)].str /\ S # <<>> /\ S[1] = r[i] /\ R = Tail(S)
    BY <2>3, <2>4, <2>5, CloserRead
  <2>7. /\ S \in Seq(Closers) /\ Len(S0) = j + Len(S)
        /\ \A k \in 1 .. Len(S) : S[k] = S0[k + j]
        /\ \A k \in 1 .. j : S0[k] = r[n + k]
    BY <2>1 DEF Good
  <2> HIDE DEF S, R, S0
  <2>8. R \in Seq(Closers) /\ Len(R) = Len(S) - 1 /\ \A k \in 1 .. Len(R) : R[k] = S[k + 1]
    BY <2>6, <2>7, HeadTailProperties
  <2>9. Len(S) \in Nat /\ Len(S) >= 1
    BY <2>6, <2>7
  <2>10. Len(S0) = (j + 1) + Len(R)
    BY <2>7, <2>8, <2>9
  <2>11. ASSUME NEW k \in 1 .. Len(R) PROVE R[k] = S0[k + (j + 1)]
    <3>1. k + 1 \in 1 .. Len(S) /\ k + 1 + j = k + (j + 1)
      BY <2>8, <2>9
    <3>2. S[k + 1] = S0[k + 1 + j]
      BY <2>7, <3>1
    <3> QED
      BY <2>8, <3>1, <3>2
  <2>12. ASSUME NEW k \in 1 .. (j + 1) PROVE S0[k] = r[n + k]
    <3>1. CASE k = j + 1
      <4>1. 1 \in 1 .. Len(S) /\ 1 + j = k /\ n + k = i
        BY <1>0, <2>9, <3>1
      <4>2. S[1] = S0[1 + j]
        BY <2>7, <4>1
      <4> QED
        BY <2>6, <4>1, <4>2
    <3>2. CASE k # j + 1
      <4>1. k \in 1 .. j
        BY <3>2
      <4> QED
        BY <2>7, <4>1
    <3> QED
      BY <3>1, <3>2
  <2> QED
    BY <2>6, <2>8, <2>10, <2>11, <2>12 DEF Good, R, S0
<1>6. Good(N - n)
  <2>1. N - n \in Nat
    BY <1>0
  <2>2. \A j \in Nat : j \in T
    <3> HIDE DEF T
    <3> QED
      BY <1>4, <1>5, Induction
  <2> QED
    BY <2>1, <2>2
<1>7. Len(S0) = N - n
  <2>1. n + (N - n) = N /\ N - n \in Nat
    BY <1>0
  <2>2. f[N].stack = <<>>
    BY <1>1 DEF Start, Out
  <2>3. Len(S0) = (N - n) + Len(f[n + (N - n)].stack)
    BY <1>6 DEF Good
  <2>4. Len(f[n + (N - n)].stack) = 0
    BY <2>1, <2>2
  <2> QED
    BY <2>1, <2>3, <2>4
<1>8. \A k \in 1 .. (N - n) : S0[k] = r[n + k]
  BY <1>6 DEF Good
<1> QED
  BY <1>3, <1>7, <1>8 DEF N

\* Closers inside a string leave it open.
LEMMA StuckInside ==
  ASSUME NEW r, NEW f, Follows(f, r), NEW n \in 0 .. Len(r), Len(r) \in Nat, f[n].str,
         \A i \in (n + 1) .. Len(r) : r[i] \in Closers
  PROVE  FALSE
<1> DEFINE N == Len(r)
           T == {j \in Nat : j <= N - n => f[n + j].str}
<1>0. N \in Nat /\ n \in Nat /\ n <= N
  OBVIOUS
<1>1. /\ \A i \in 0 .. N : f[i] \in States
      /\ f[N] = Start
      /\ \A i \in 1 .. N : Reads(f[i - 1], r[i], f[i])
  BY DEF Follows
<1> HIDE DEF N
<1>2. 0 \in T
  <2>1. n + 0 = n
    BY <1>0
  <2> QED
    BY <2>1
<1>3. ASSUME NEW j \in Nat, j \in T PROVE j + 1 \in T
  <2> SUFFICES ASSUME j + 1 <= N - n PROVE f[n + (j + 1)].str
    OBVIOUS
  <2> DEFINE i == n + j + 1
  <2>1. i \in (n + 1) .. N /\ i \in 1 .. N /\ i - 1 = n + j /\ i = n + (j + 1) /\ n + j \in 0 .. N
    BY <1>0
  <2>2. r[i] \in Closers /\ f[n + j].str
    BY <1>0, <1>3, <2>1 DEF N
  <2>3. Reads(f[n + j], r[i], f[n + (j + 1)]) /\ f[n + j] \in States
    <3>1. Reads(f[i - 1], r[i], f[i])
      BY <1>1, <2>1
    <3> QED
      BY <1>1, <2>1, <3>1
  <2> QED
    BY <2>2, <2>3, CloserRead
<1>4. f[n + (N - n)].str
  <2>1. N - n \in Nat
    BY <1>0
  <2>2. \A j \in Nat : j \in T
    <3> HIDE DEF T
    <3> QED
      BY <1>2, <1>3, Induction
  <2> QED
    BY <2>1, <2>2
<1>5. f[N].str
  <2>1. n + (N - n) = N
    BY <1>0
  <2> QED
    BY <1>4, <2>1
<1> QED
  BY <1>1, <1>5 DEF Start, Out

LEMMA ClosedBy ==
  ASSUME NEW r \in Objects, NEW f, Follows(f, r), NEW X, NEW u \in Seq(X), Begins(u, r),
         ~f[Len(u)].str, \A i \in (Len(u) + 1) .. Len(r) : r[i] \in Closers
  PROVE  BalanceBrackets(u) = r
<1> DEFINE n == Len(u)
           N == Len(r)
           stack == f[n].stack
<1>1. r \in Seq(Tokens)
  BY ObjectsFollowed
<1>2. n \in Nat /\ N \in Nat /\ n \in 0 .. N /\ n \in 0 .. Len(u)
  BY <1>1 DEF Begins
<1>3. Open(u)[n] = stack
  <2>1. Strictly(u, f)
    BY <1>1, BeginningRead
  <2> QED
    BY <1>2, <2>1, StrictlyAgree
<1>4. /\ stack \in Seq(Closers) /\ Len(stack) = N - n
      /\ \A k \in 1 .. (N - n) : stack[k] = r[n + k]
  BY <1>2, Popped
<1>5. BalanceBrackets(u) = u \o stack
  BY <1>3 DEF BalanceBrackets
<1> HIDE DEF stack
<1>6. u \in Seq(Tokens) /\ stack \in Seq(Tokens)
  <2>1. \A i \in 1 .. n : u[i] = r[i] /\ r[i] \in Tokens
    BY <1>1, <1>2 DEF Begins
  <2>2. u \in Seq(Tokens)
    BY <2>1, IsASeq
  <2>3. Closers \subseteq Tokens
    BY DEF Closers, Tokens
  <2>4. stack \in Seq(Tokens)
    BY <1>4, <2>3, SeqMonotonic
  <2> QED
    BY <2>2, <2>4
<1>7. /\ u \o stack \in Seq(Tokens) /\ Len(u \o stack) = n + Len(stack)
      /\ \A i \in 1 .. n + Len(stack) : (u \o stack)[i] = IF i <= n THEN u[i] ELSE stack[i - n]
  BY <1>6, ConcatProperties
<1> HIDE DEF n, N
<1>8. n + Len(stack) = N
  BY <1>2, <1>4
<1>9. ASSUME NEW i \in 1 .. N PROVE (u \o stack)[i] = r[i]
  <2>1. CASE i <= n
    <3>1. i \in 1 .. n
      BY <2>1
    <3> QED
      BY <1>7, <1>8, <2>1, <3>1 DEF Begins, n
  <2>2. CASE ~(i <= n)
    <3>1. i - n \in 1 .. (N - n) /\ n + (i - n) = i
      BY <1>2, <2>2
    <3> QED
      BY <1>4, <1>7, <1>8, <2>2, <3>1
  <2> QED
    BY <2>1, <2>2
<1>10. u \o stack = r
  <2>1. Len(u \o stack) = Len(r)
    BY <1>7, <1>8 DEF N
  <2> QED
    BY <1>1, <1>7, <1>8, <1>9, <2>1, SeqEqual
<1> QED
  BY <1>5, <1>10

LEMMA FixOfTrimmed ==
  ASSUME NEW t, NEW s, s = TrimSpace(t), s # <<>>
  PROVE  FixUnterminatedString(t)
           = BalanceBrackets(IF Scan(s)[Len(s)].inString THEN Append(s, "quote") ELSE s)
BY DEF FixUnterminatedString

LEMMA ClosesIs ==
  ASSUME NEW X, NEW t \in Seq(X), NEW Y, NEW r \in Seq(Y)
  PROVE  Closes(t, r) <=> /\ Begins(t, r)
                          /\ \A i \in (Len(t) + 1) .. Len(r) :
                               r[i] \in Closers \/ (i = Len(t) + 1 /\ r[i] = "quote")
<1> DEFINE n == Len(t)
           N == Len(r)
           rest == SubSeq(r, n + 1, N)
<1>1. n \in Nat /\ N \in Nat
  OBVIOUS
<1>2. IsPrefix(t, r) <=> Begins(t, r)
  <2>1. CASE n <= N
    <3>1. SubSeq(t, 1, n) = t
      BY SubSeqFull
    <3> DEFINE u == SubSeq(r, 1, n)
    <3>2. u \in Seq(Y) /\ Len(u) = n /\ \A i \in 1 .. n : u[i] = r[i]
      <4>1. n \in 0 .. N
        BY <1>1, <2>1
      <4> QED
        BY <4>1, Beginning
    <3>3. IsPrefix(t, r) <=> t = u
      BY <2>1, <3>1 DEF IsPrefix
    <3> HIDE DEF u
    <3>4. t = u <=> \A i \in 1 .. n : t[i] = u[i]
      <4>1. t \in Seq(X \cup Y) /\ u \in Seq(X \cup Y)
        BY <3>2, SeqMonotonic
      <4> QED
        BY <3>2, <4>1, SeqEqual
    <3> QED
      BY <2>1, <3>2, <3>3, <3>4 DEF Begins
  <2>2. CASE ~(n <= N)
    BY <2>2 DEF IsPrefix, Begins
  <2> QED
    BY <2>1, <2>2
<1>3. SUFFICES ASSUME n <= N
               PROVE  (\A i \in DOMAIN rest :
                         rest[i] \in {"rbrace", "rbrack"} \/ (i = 1 /\ rest[i] = "quote"))
                      <=> \A i \in (n + 1) .. N : r[i] \in Closers \/ (i = n + 1 /\ r[i] = "quote")
  BY <1>2 DEF Closes, Closers, Begins
<1>4. Len(rest) = N - n /\ DOMAIN rest = 1 .. (N - n) /\ \A i \in 1 .. (N - n) : rest[i] = r[n + i]
  <2>1. n + 1 \in Int /\ N \in Int /\ \A i \in (n + 1) .. N : r[i] \in Y
    BY <1>1
  <2>2. /\ rest \in Seq(Y)
        /\ Len(rest) = IF n + 1 <= N THEN N - (n + 1) + 1 ELSE 0
        /\ \A i \in 1 .. N - (n + 1) + 1 : rest[i] = r[n + 1 + i - 1]
    BY <2>1, SubSeqProperties
  <2>3. N - (n + 1) + 1 = N - n /\ \A i \in 1 .. (N - n) : n + 1 + i - 1 = n + i
    BY <1>1
  <2>4. Len(rest) = N - n
    BY <1>1, <1>3, <2>2
  <2> HIDE DEF rest, n, N
  <2>5. DOMAIN rest = 1 .. Len(rest)
    BY <2>2, LenProperties
  <2>6. \A i \in 1 .. (N - n) : rest[i] = r[n + i]
    BY <2>2, <2>3
  <2> QED
    BY <2>4, <2>5, <2>6
<1> HIDE DEF rest, n, N
<1>5. \A i \in (n + 1) .. N : i - n \in 1 .. (N - n) /\ n + (i - n) = i /\ (i - n = 1 <=> i = n + 1)
  BY <1>1
<1>6. \A i \in 1 .. (N - n) : n + i \in (n + 1) .. N /\ (n + i = n + 1 <=> i = 1)
  BY <1>1
<1>7. ASSUME \A i \in DOMAIN rest : rest[i] \in {"rbrace", "rbrack"} \/ (i = 1 /\ rest[i] = "quote"),
             NEW i \in (n + 1) .. N
      PROVE  r[i] \in Closers \/ (i = n + 1 /\ r[i] = "quote")
  <2> DEFINE k == i - n
  <2>1. k \in 1 .. (N - n) /\ n + k = i /\ (k = 1 => i = n + 1)
    BY <1>5
  <2> HIDE DEF k
  <2>2. rest[k] \in {"rbrace", "rbrack"} \/ (k = 1 /\ rest[k] = "quote")
    BY <1>4, <1>7, <2>1
  <2>3. rest[k] = r[i]
    BY <1>4, <2>1
  <2> QED
    BY <2>1, <2>2, <2>3 DEF Closers
<1>8. ASSUME \A i \in (n + 1) .. N : r[i] \in Closers \/ (i = n + 1 /\ r[i] = "quote"),
             NEW k \in DOMAIN rest
      PROVE  rest[k] \in {"rbrace", "rbrack"} \/ (k = 1 /\ rest[k] = "quote")
  <2> DEFINE i == n + k
  <2>1. k \in 1 .. (N - n) /\ i \in (n + 1) .. N /\ (i = n + 1 => k = 1)
    BY <1>4, <1>6
  <2>2. rest[k] = r[i]
    BY <1>4, <2>1
  <2> HIDE DEF i
  <2>3. r[i] \in Closers \/ (i = n + 1 /\ r[i] = "quote")
    BY <1>8, <2>1
  <2> QED
    BY <2>1, <2>2, <2>3 DEF Closers
<1> QED
  BY <1>7, <1>8

Completed(s) == BalanceBrackets(IF Scan(s)[Len(s)].inString THEN Append(s, "quote") ELSE s)

\* Only one object can complete a text, and the code finds it.
LEMMA OneCompletion ==
  ASSUME NEW X, NEW s \in Seq(X), NEW r \in Objects, Closes(s, r)
  PROVE  r = Completed(s)
<1> DEFINE n == Len(s)
           N == Len(r)
<1>1. r \in Seq(Tokens)
  BY ObjectsFollowed
<1>2. PICK f : Follows(f, r)
  BY ObjectsFollowed
<1>3. /\ Begins(s, r)
      /\ \A i \in (n + 1) .. N : r[i] \in Closers \/ (i = n + 1 /\ r[i] = "quote")
  BY <1>1, ClosesIs
<1>4. n \in Nat /\ N \in Nat /\ n \in 0 .. N /\ n \in 0 .. Len(s)
  BY <1>1, <1>3 DEF Begins
<1>5. Scan(s)[n].inString = f[n].str
  <2>1. Strictly(s, f)
    BY <1>1, <1>2, <1>3, BeginningRead
  <2> QED
    BY <1>4, <2>1, StrictlyAgree
<1>6. \A i \in (n + 2) .. N : r[i] \in Closers
  BY <1>3, <1>4
<1>7. f[N].str = FALSE
  BY <1>2 DEF Follows, Start, Out
<1>8. \A i \in 1 .. N : Reads(f[i - 1], r[i], f[i])
  BY <1>2 DEF Follows
<1>9. CASE \A i \in (n + 1) .. N : r[i] \in Closers
  <2>1. ~f[n].str
    BY <1>2, <1>4, <1>9, StuckInside
  <2>2. BalanceBrackets(s) = r
    BY <1>2, <1>3, <1>9, <2>1, ClosedBy
  <2> QED
    BY <1>5, <2>1, <2>2 DEF Completed
<1>10. CASE ~\A i \in (n + 1) .. N : r[i] \in Closers
  <2>1. n + 1 \in 1 .. N /\ r[n + 1] = "quote" /\ n + 1 - 1 = n
    BY <1>3, <1>4, <1>10
  <2>2. Reads(f[n], "quote", f[n + 1])
    BY <1>8, <2>1
  <2>3. ~f[n + 1].str
    <3>1. n + 1 \in 0 .. N /\ n + 1 + 1 = n + 2
      BY <1>4, <2>1
    <3> DEFINE m == n + 1
    <3>2. m \in 0 .. N /\ \A i \in (m + 1) .. N : r[i] \in Closers
      BY <1>6, <3>1
    <3> HIDE DEF m
    <3>3. ~f[m].str
      BY <1>2, <1>4, <3>2, StuckInside
    <3> QED
      BY <3>3 DEF m
  <2>4. f[n].str
    <3> SUFFICES ASSUME ~f[n].str PROVE FALSE
      OBVIOUS
    <3>1. f[n + 1] = In(f[n].stack, f[n].depth, FALSE)
      BY <2>2 DEF Reads, ReadsOutside, Closers
    <3> QED
      BY <2>3, <3>1 DEF In
  <2> DEFINE u == Append(s, "quote")
  <2>5. /\ u \in Seq(X \cup {"quote"}) /\ Len(u) = n + 1
        /\ \A i \in 1 .. n : u[i] = s[i]
        /\ u[n + 1] = "quote"
    <3>1. s \in Seq(X \cup {"quote"})
      BY SeqMonotonic
    <3> QED
      BY <3>1, AppendProperties
  <2> HIDE DEF u
  <2>6. Begins(u, r)
    <3>1. Len(u) <= N
      BY <1>4, <2>1, <2>5
    <3>2. \A i \in 1 .. Len(u) : u[i] = r[i]
      <4>1. \A i \in 1 .. Len(u) : i \in 1 .. n \/ i = n + 1
        BY <1>4, <2>5
      <4>2. \A i \in 1 .. n : s[i] = r[i]
        BY <1>3 DEF Begins
      <4> QED
        BY <2>1, <2>5, <4>1, <4>2
    <3> QED
      BY <3>1, <3>2 DEF Begins
  <2>7. ~f[Len(u)].str /\ \A i \in (Len(u) + 1) .. Len(r) : r[i] \in Closers
    <3>1. n + 1 + 1 = n + 2
      BY <1>4
    <3> QED
      BY <1>6, <2>3, <2>5, <3>1
  <2>8. BalanceBrackets(u) = r
    BY <1>2, <2>5, <2>6, <2>7, ClosedBy
  <2> QED
    BY <1>5, <2>4, <2>8 DEF Completed, u
<1> QED
  BY <1>9, <1>10

\* What is completed is only closed.
LEMMA CompletedCloses ==
  ASSUME NEW X, NEW s \in Seq(X)
  PROVE  /\ Completed(s) \in Seq(X \cup Tokens)
         /\ Len(Completed(s)) >= Len(s)
         /\ Closes(s, Completed(s))
<1> DEFINE Y == X \cup Tokens
           q == IF Scan(s)[Len(s)].inString THEN Append(s, "quote") ELSE s
           n == Len(s)
           m == Len(q)
           stack == Open(q)[m]
<1>1. /\ q \in Seq(Y) /\ \A i \in 1 .. n : q[i] = s[i]
      /\ m = n \/ (m = n + 1 /\ q[n + 1] = "quote")
  <2>1. s \in Seq(Y) /\ "quote" \in Y
    BY SeqMonotonic DEF Tokens
  <2>2. /\ Append(s, "quote") \in Seq(Y) /\ Len(Append(s, "quote")) = n + 1
        /\ \A i \in 1 .. n : Append(s, "quote")[i] = s[i]
        /\ Append(s, "quote")[n + 1] = "quote"
    BY <2>1, AppendProperties
  <2>3. CASE Scan(s)[Len(s)].inString
    BY <2>2, <2>3
  <2>4. CASE ~Scan(s)[Len(s)].inString
    BY <2>1, <2>4
  <2> QED
    BY <2>3, <2>4
<1> HIDE DEF q
<1>2. n \in Nat /\ m \in Nat /\ m \in 0 .. Len(q)
  BY <1>1
<1>3. stack \in Seq(Closers)
  BY <1>1, <1>2, OpenIs
<1>4. stack \in Seq(Y)
  <2>1. Closers \subseteq Y
    BY DEF Closers, Tokens
  <2> QED
    BY <1>3, <2>1, SeqMonotonic
<1>5. Completed(s) = q \o stack
  BY DEF Completed, BalanceBrackets, q
<1> HIDE DEF stack, Y
<1> DEFINE r == q \o stack
           N == Len(r)
<1>6. /\ r \in Seq(Y) /\ N = m + Len(stack)
      /\ \A i \in 1 .. N : r[i] = IF i <= m THEN q[i] ELSE stack[i - m]
  BY <1>1, <1>4, ConcatProperties
<1> HIDE DEF r, n, m, N
<1>7. Len(stack) \in Nat /\ N \in Nat /\ m >= n /\ N >= n
  BY <1>1, <1>2, <1>3, <1>6
<1>8. Begins(s, r)
  <2>1. Len(s) <= Len(r)
    BY <1>2, <1>7 DEF n, N
  <2>2. ASSUME NEW i \in 1 .. n PROVE s[i] = r[i]
    <3>1. i \in 1 .. N /\ i <= m
      BY <1>2, <1>7
    <3> QED
      BY <1>1, <1>6, <3>1
  <2> QED
    BY <2>1, <2>2 DEF Begins, n
<1>9. ASSUME NEW i \in (n + 1) .. N PROVE r[i] \in Closers \/ (i = n + 1 /\ r[i] = "quote")
  <2>1. CASE i <= m
    <3>1. m = n + 1 /\ i = n + 1 /\ i \in 1 .. N
      BY <1>1, <1>2, <1>7, <2>1
    <3> QED
      BY <1>1, <1>6, <2>1, <3>1
  <2>2. CASE ~(i <= m)
    <3>1. i - m \in 1 .. Len(stack) /\ i \in 1 .. N
      BY <1>2, <1>6, <1>7, <2>2
    <3>2. stack[i - m] \in Closers
      BY <1>3, <3>1
    <3> QED
      BY <1>6, <2>2, <3>1, <3>2
  <2> QED
    BY <2>1, <2>2
<1>10. Closes(s, r)
  BY <1>6, <1>8, <1>9, ClosesIs DEF n, N
<1> QED
  BY <1>5, <1>6, <1>7, <1>10 DEF r, Y, n, N

-----------------------------------------------------------------------------
(* What is parsed *)

LEMMA Parsed ==
  ASSUME NEW raw, NEW a, NEW b, NEW c,
         a = ExtractJSONBlock(raw), b = Fixed(a), c = Fixed(ExtractJSONObject(raw))
  PROVE  ParseDiagnosisJSON(raw) = IF Parses(a) THEN Compact(a)
                                   ELSE IF Parses(b) THEN Compact(b)
                                   ELSE IF Parses(c) THEN Compact(c)
                                   ELSE Error
<1> DEFINE attempts == Attempts(raw)
           I == {i \in 1 .. 3 : Parses(attempts[i])}
           n == IF I # {} THEN Min(I) ELSE 0
<1>1. attempts = <<a, b, c>>
  BY DEF Attempts
<1>2. Len(attempts) = 3 /\ attempts[1] = a /\ attempts[2] = b /\ attempts[3] = c
  BY <1>1
<1> HIDE DEF attempts
<1>3. SelectInSeq(attempts, Parses) = n
  BY <1>2 DEF SelectInSeq
<1>4. ParseDiagnosisJSON(raw) = IF n = 0 THEN Error ELSE Compact(attempts[n])
  BY <1>3 DEF ParseDiagnosisJSON, attempts
<1>5. \A i \in 1 .. 3 : i = 1 \/ i = 2 \/ i = 3
  OBVIOUS
<1>6. I # {} => n \in I /\ \A i \in I : n <= i
  <2>1. I \subseteq 1 .. 3 /\ 3 \in Nat
    OBVIOUS
  <2> HIDE DEF I
  <2> QED
    BY <2>1, Extremes
<1>7. CASE Parses(a)
  <2>1. 1 \in I
    BY <1>2, <1>7
  <2>2. n \in 1 .. 3 /\ n <= 1
    BY <1>6, <2>1
  <2>3. n = 1
    BY <2>2
  <2> HIDE DEF n
  <2> QED
    BY <1>2, <1>4, <1>7, <2>3
<1>8. CASE ~Parses(a) /\ Parses(b)
  <2>1. 2 \in I /\ 1 \notin I
    BY <1>2, <1>8
  <2>2. n \in 1 .. 3 /\ n <= 2 /\ n # 1
    BY <1>6, <2>1
  <2>3. n = 2
    BY <2>2
  <2> HIDE DEF n
  <2> QED
    BY <1>2, <1>4, <1>8, <2>3
<1>9. CASE ~Parses(a) /\ ~Parses(b) /\ Parses(c)
  <2>1. 3 \in I /\ 1 \notin I /\ 2 \notin I
    BY <1>2, <1>9
  <2>2. n \in 1 .. 3 /\ n # 1 /\ n # 2
    BY <1>6, <2>1
  <2>3. n = 3
    BY <2>2
  <2> HIDE DEF n
  <2> QED
    BY <1>2, <1>4, <1>9, <2>3
<1>10. CASE ~Parses(a) /\ ~Parses(b) /\ ~Parses(c)
  <2>1. I = {}
    BY <1>2, <1>5, <1>10
  <2>2. n = 0
    BY <2>1
  <2> HIDE DEF n
  <2> QED
    BY <1>4, <1>10, <2>2
<1> QED
  BY <1>7, <1>8, <1>9, <1>10

LEMMA NonEmpty ==
  ASSUME NEW X, NEW t \in Seq(X)
  PROVE  /\ Len(t) \in Nat
         /\ t # <<>> => Len(t) >= 1 /\ 1 \in 1 .. Len(t)
         /\ Len(t) >= 1 => t # <<>>
OBVIOUS

LEMMA AtLeastOne ==
  ASSUME NEW n \in Nat, NEW m \in Nat, n >= 1, m >= n
  PROVE  1 \in 1 .. n /\ m >= 1
OBVIOUS

LEMMA KeptFirst ==
  ASSUME NEW X, NEW t \in Seq(X), NEW places, t # <<>>, 1 \in places
  PROVE  /\ Kept(t, places) \in Seq(X) /\ Kept(t, places) # <<>>
         /\ Kept(t, places)[1] = t[1]
<1> DEFINE N == Len(t)
<1>1. N \in Nat /\ 1 \in 1 .. N
  OBVIOUS
<1>2. PICK kept \in [0 .. N -> Seq(X)] :
         /\ kept[0] = <<>>
         /\ \A i \in 1 .. N :
              kept[i] = IF i \in places THEN Append(kept[i - 1], t[i]) ELSE kept[i - 1]
         /\ Kept(t, places) = kept[N]
  BY KeptIs
<1>3. \A i \in 1 .. N : t[i] \in X
  OBVIOUS
<1> DEFINE Good(n) == kept[n] # <<>> /\ kept[n][1] = t[1]
           T == {n \in Nat : n + 1 <= N => Good(n + 1)}
<1> HIDE DEF N, Good
<1>4. 0 \in T
  <2>1. kept[1] = Append(<<>>, t[1])
    <3>1. ASSUME NEW i \in 1 .. N, i = 1 PROVE kept[i] = Append(kept[i - 1], t[i]) /\ i - 1 = 0
      <4>1. i \in places
        BY <3>1
      <4>2. kept[i] = Append(kept[i - 1], t[i])
        BY <1>2, <4>1
      <4>3. i - 1 = 0
        BY <3>1
      <4> QED
        BY <4>2, <4>3
    <3>2. \A i \in 1 .. N : i = 1 => kept[i] = Append(kept[0], t[i])
      BY <3>1
    <3> QED
      BY <1>1, <1>2, <3>2
  <2>2. Good(1)
    BY <1>1, <1>3, <2>1 DEF Good
  <2> QED
    BY <2>2
<1>5. ASSUME NEW n \in Nat, n \in T PROVE n + 1 \in T
  <2> SUFFICES ASSUME n + 1 + 1 <= N PROVE Good(n + 1 + 1)
    OBVIOUS
  <2>1. Good(n + 1) /\ n + 1 + 1 \in 1 .. N /\ n + 1 + 1 - 1 = n + 1 /\ n + 1 \in 0 .. N
    BY <1>1, <1>5
  <2>2. kept[n + 1] \in Seq(X)
    BY <1>2, <2>1
  <2>3. CASE n + 1 + 1 \in places
    <3> DEFINE m == n + 1 + 1
    <3>1. m \in 1 .. N /\ m \in places /\ m - 1 = n + 1
      BY <2>1, <2>3
    <3> HIDE DEF m
    <3>2. kept[m] = Append(kept[n + 1], t[m]) /\ t[m] \in X
      BY <1>2, <1>3, <3>1
    <3>3. Len(kept[n + 1]) >= 1 /\ kept[n + 1][1] = t[1]
      BY <2>1, <2>2 DEF Good
    <3>4. kept[m] # <<>> /\ kept[m][1] = t[1]
      <4> DEFINE k == kept[n + 1]
      <4>1. k \in Seq(X) /\ Len(k) >= 1 /\ k[1] = t[1]
        BY <2>2, <3>3
      <4>2. kept[m] = Append(k, t[m])
        BY <3>2
      <4> HIDE DEF k
      <4>3. /\ Len(kept[m]) = Len(k) + 1 /\ kept[m] \in Seq(X)
            /\ \A i \in 1 .. Len(k) : kept[m][i] = k[i]
        BY <3>2, <4>1, <4>2, AppendProperties
      <4>4. 1 \in 1 .. Len(k) /\ Len(kept[m]) >= 1
        BY <4>1, <4>3
      <4> QED
        BY <4>1, <4>3, <4>4, NonEmpty
    <3>5. Good(m)
      BY <3>4 DEF Good
    <3> QED
      BY <3>5 DEF m
  <2>4. CASE n + 1 + 1 \notin places
    <3>1. kept[n + 1 + 1] = kept[n + 1]
      BY <1>2, <2>1, <2>4
    <3> QED
      BY <2>1, <3>1 DEF Good
  <2> QED
    BY <2>3, <2>4
<1>6. Good(N)
  <2>1. \A n \in Nat : n \in T
    <3> HIDE DEF T
    <3> QED
      BY <1>4, <1>5, Induction
  <2> DEFINE m == N - 1
  <2>2. m \in Nat /\ m + 1 = N /\ m + 1 <= N
    BY <1>1
  <2> HIDE DEF m
  <2>3. Good(m + 1)
    BY <2>1, <2>2
  <2> QED
    BY <2>2, <2>3
<1> QED
  BY <1>1, <1>2, <1>6 DEF Good

LEMMA NoObject ==
  ASSUME NEW X, NEW t \in Seq(X), t # <<>>, t[1] \notin {"space", "lbrace"}
  PROVE  ~Parses(t)
<1>1. 1 \in (1 .. Len(t)) \ Outside(t, {"space"})
  <2>1. 1 \in 1 .. Len(t)
    BY NonEmpty
  <2>2. \A i \in Outside(t, {"space"}) : t[i] = "space"
    BY DEF Outside
  <2> QED
    BY <2>1, <2>2
<1>2. Compact(t)[1] = t[1]
  BY <1>1, KeptFirst DEF Compact
<1> QED
  BY <1>2, ObjectsFollowed DEF Parses

\* What begins with something else than an object is no object, repaired or not.
LEMMA NoObjectFixed ==
  ASSUME NEW X, NEW t \in Seq(X), t # <<>>, t[1] \notin {"space", "lbrace", "comma"}
  PROVE  ~Parses(t) /\ ~Parses(Fixed(t))
<1>1. ~Parses(t)
  BY NoObject
<1> DEFINE u == FixTrailingComma(t)
           s == TrimSpace(u)
           r == Completed(s)
<1>2. u \in Seq(X) /\ u # <<>> /\ u[1] = t[1]
  <2> DEFINE Trailing(i) == \E j \in (i + 1)..Len(t) :
                              /\ t[j] \in {"rbrace", "rbrack"}
                              /\ \A k \in (i + 1)..(j - 1) : t[k] = "space"
             places == {i \in 1 .. Len(t) : i \in Commas(t) => ~Trailing(i)}
  <2>1. u = Kept(t, places)
    BY DEF FixTrailingComma
  <2>2. 1 \in places
    <3>1. 1 \in 1 .. Len(t)
      BY NonEmpty
    <3>2. \A i \in Commas(t) : t[i] = "comma"
      BY DEF Commas, Outside
    <3> QED
      BY <3>1, <3>2
  <2> HIDE DEF places, u
  <2> QED
    BY <2>1, <2>2, KeptFirst
<1> HIDE DEF u
<1>3. s \in Seq(X) /\ s # <<>> /\ s[1] = t[1]
  BY <1>2, TrimBegins
<1>4. Fixed(t) = r
  BY <1>3, FixOfTrimmed DEF Fixed, Completed, u
<1> HIDE DEF s
<1>5. r \in Seq(X \cup Tokens) /\ r # <<>> /\ r[1] = t[1]
  <2>1. r \in Seq(X \cup Tokens) /\ Len(r) >= Len(s) /\ Closes(s, r)
    BY <1>3, CompletedCloses
  <2> HIDE DEF r
  <2>2. Begins(s, r)
    BY <1>3, <2>1, ClosesIs
  <2>3. 1 \in 1 .. Len(s) /\ Len(r) >= 1
    <3>1. Len(s) >= 1 /\ Len(s) \in Nat
      BY <1>3, NonEmpty
    <3>2. Len(r) \in Nat
      BY <2>1, NonEmpty
    <3>3. Len(r) >= Len(s)
      BY <2>1
    <3> QED
      BY <3>1, <3>2, <3>3, AtLeastOne
  <2> QED
    <3>1. r[1] = s[1]
      BY <2>2, <2>3 DEF Begins
    <3>2. r # <<>>
      BY <2>1, <2>3, NonEmpty
    <3> QED
      BY <1>3, <2>1, <3>1, <3>2
<1> HIDE DEF r
<1>6. ~Parses(r)
  BY <1>5, NoObject
<1> QED
  BY <1>1, <1>4, <1>6

LEMMA Itself ==
  ASSUME NEW X, NEW t \in Seq(X)
  PROVE  Begins(t, t) /\ Len(t) \in 0 .. Len(t) /\ (Len(t) + 1) .. Len(t) = {}
<1>1. Len(t) \in Nat
  OBVIOUS
<1>2. \A n \in Nat : n <= n /\ n \in 0 .. n /\ (n + 1) .. n = {}
  OBVIOUS
<1> QED
  BY <1>1, <1>2 DEF Begins

LEMMA Shorter ==
  ASSUME NEW a \in Nat, NEW b \in Nat, NEW c \in Nat, a <= b, b < c
  PROVE  a <= c /\ a # c /\ 1 .. a \subseteq 1 .. b
OBVIOUS

\* Where white space is in strings only, Compact changes nothing.
LEMMA CompactNothing ==
  ASSUME NEW X, NEW u \in Seq(X), NEW n \in 0 .. Len(u), NEW f, ReadsTo(u, n, f),
         \A i \in 1 .. n : Reads(f[i - 1], u[i], f[i]),
         \A i \in (n + 1) .. Len(u) : u[i] # "space"
  PROVE  Compact(u) = u
<1> DEFINE N == Len(u)
<1>0. N \in Nat /\ n \in Nat
  OBVIOUS
<1>1. \A i \in 1 .. n : i - 1 \in 0 .. n
  BY <1>0
<1>2. \A i \in 1 .. n : Scan(u)[i - 1].inString = f[i - 1].str
  <2>1. \A i \in 0 .. n : /\ Scan(u)[i] = [inString |-> f[i].str, escaped |-> f[i].esc]
                         /\ Scan(u)[i].inString = f[i].str
                         /\ Open(u)[i] = f[i].stack
                         /\ Depth(u)[i] = f[i].depth
    BY Agree
  <2> QED
    BY <1>1, <2>1
<1>3. \A i \in 1 .. n : u[i] = "space" => f[i - 1].str
  BY DEF Reads, ReadsOutside, Closers
<1>4. \A i \in 1 .. N : i \in 1 .. n \/ i \in (n + 1) .. N
  BY <1>0
<1>5. Outside(u, {"space"}) = {}
  BY <1>2, <1>3, <1>4 DEF Outside
<1>6. Compact(u) = Kept(u, 1 .. Len(u))
  BY <1>5 DEF Compact
<1> QED
  BY <1>6, KeptAll

LEMMA WholeParsed ==
  ASSUME NEW r \in Objects
  PROVE  Compact(r) = r /\ Parses(r) /\ Fixed(r) = r
<1>1. r \in Seq(Tokens) /\ Len(r) >= 2 /\ r[1] = "lbrace" /\ r[Len(r)] = "rbrace"
  BY ObjectsFollowed
<1>2. PICK f : Follows(f, r)
  BY ObjectsFollowed
<1>3. Strictly(r, f)
  <2>1. Begins(r, r)
    BY <1>1, Itself
  <2> QED
    BY <1>1, <1>2, <2>1, BeginningRead
<1>4. Compact(r) = r /\ FixTrailingComma(r) = r
  BY <1>1, <1>3, StrictlyKept
<1>5. r # <<>>
  <2>1. Len(r) \in Nat
    BY <1>1, NonEmpty
  <2>2. \A n \in Nat : n >= 2 => n >= 1
    OBVIOUS
  <2>3. Len(r) >= 1
    BY <1>1, <2>1, <2>2
  <2> QED
    BY <1>1, <2>3, NonEmpty
<1>6. TrimSpace(r) = r
  BY <1>1, <1>5, TrimNothing
<1>7. BalanceBrackets(r) = r
  <2>1. f[Len(r)].str = FALSE
    BY <1>2 DEF Follows, Start, Out
  <2>2. (Len(r) + 1) .. Len(r) = {}
    BY <1>1, Itself
  <2>3. Begins(r, r)
    BY <1>1, Itself
  <2> QED
    BY <1>1, <1>2, <2>1, <2>2, <2>3, ClosedBy
<1>8. ~Scan(r)[Len(r)].inString
  <2>1. f[Len(r)].str = FALSE
    BY <1>2 DEF Follows, Start, Out
  <2>2. Len(r) \in 0 .. Len(r)
    BY <1>1, Itself
  <2> QED
    BY <1>1, <1>3, <2>1, <2>2, StrictlyAgree
<1>9. Fixed(r) = r
  BY <1>4, <1>5, <1>6, <1>7, <1>8, FixOfTrimmed DEF Fixed
<1> QED
  BY <1>4, <1>9 DEF Parses

\* A beginning of an object, white space at its end removed or not.
LEMMA CutParsed ==
  ASSUME NEW whole \in Objects, NEW p \in Seq(Tokens), Begins(p, whole),
         Len(p) >= 1, Len(p) < Len(whole), NEW t, t = TrimSpace(p)
  PROVE  /\ t \in Seq(Tokens) /\ t # <<>>
         /\ ~Parses(t)
         /\ Fixed(t) = Completed(t) /\ Fixed(p) = Completed(t)
         /\ Compact(Completed(t)) = Completed(t)
<1>1. whole \in Seq(Tokens) /\ whole[1] = "lbrace"
  BY ObjectsFollowed
<1>2. PICK f : Follows(f, whole)
  BY ObjectsFollowed
<1>3. p # <<>> /\ p[1] = "lbrace"
  <2>1. p # <<>> /\ 1 \in 1 .. Len(p)
    BY NonEmpty
  <2> QED
    BY <1>1, <2>1 DEF Begins
<1>4. /\ t \in Seq(Tokens) /\ t # <<>> /\ Begins(t, p) /\ t[1] = p[1] /\ t[Len(t)] # "space"
  BY <1>3, TrimBegins
<1>5. Begins(t, whole)
  <2>1. Len(t) \in Nat /\ Len(p) \in Nat /\ Len(whole) \in Nat
    BY <1>1, <1>4, NonEmpty
  <2>3. Len(t) <= Len(p)
    BY <1>4 DEF Begins
  <2>2. Len(t) <= Len(whole) /\ 1 .. Len(t) \subseteq 1 .. Len(p)
    BY <2>1, <2>3, Shorter
  <2> QED
    BY <1>4, <2>2 DEF Begins
<1>6. Strictly(p, f) /\ Strictly(t, f)
  BY <1>1, <1>2, <1>4, <1>5, BeginningRead
<1>7. Compact(t) = t /\ FixTrailingComma(t) = t /\ FixTrailingComma(p) = p
  BY <1>4, <1>6, StrictlyKept
<1>8. ~Parses(t)
  <2> SUFFICES ASSUME t \in Objects PROVE FALSE
    BY <1>7 DEF Parses
  <2>1. t = whole
    BY <1>5, ProperBeginning
  <2>2. Len(t) \in Nat /\ Len(p) \in Nat /\ Len(whole) \in Nat
    BY <1>1, <1>4, NonEmpty
  <2>3. Len(t) <= Len(p)
    BY <1>4 DEF Begins
  <2>4. Len(t) # Len(whole)
    BY <2>2, <2>3, Shorter
  <2> QED
    BY <2>1, <2>4
<1>9. Fixed(p) = Completed(t)
  BY <1>4, <1>7, FixOfTrimmed DEF Fixed, Completed
<1>10. TrimSpace(t) = t
  BY <1>3, <1>4, TrimNothing
<1>11. Fixed(t) = Completed(t)
  BY <1>4, <1>7, <1>10, FixOfTrimmed DEF Fixed, Completed
<1> DEFINE r == Completed(t)
           n == Len(t)
<1>12. /\ r \in Seq(Tokens \cup Tokens) /\ Len(r) >= n /\ Closes(t, r)
  BY <1>4, CompletedCloses
<1> HIDE DEF r
<1>13. /\ Begins(t, r)
       /\ \A i \in (n + 1) .. Len(r) : r[i] \in Closers \/ (i = n + 1 /\ r[i] = "quote")
  BY <1>4, <1>12, ClosesIs
<1>14. n \in 0 .. Len(r)
  <2>1. n \in Nat /\ Len(r) \in Nat
    BY <1>4, <1>12, NonEmpty
  <2> QED
    BY <1>13, <2>1 DEF Begins
<1>15. \A i \in 1 .. n : Reads(f[i - 1], r[i], f[i])
  BY <1>6, <1>13 DEF Begins, Strictly
<1>16. ReadsTo(r, n, f)
  BY <1>6, <1>15 DEF ReadsTo, Strictly, Loosely
<1>17. \A i \in (n + 1) .. Len(r) : r[i] # "space"
  BY <1>13 DEF Closers
<1>18. Compact(r) = r
  BY <1>12, <1>14, <1>15, <1>16, <1>17, CompactNothing
<1> QED
  BY <1>4, <1>8, <1>9, <1>11, <1>18 DEF r

\* The result for it, from whatever attempts.
LEMMA CutResult ==
  ASSUME NEW whole \in Objects, NEW p \in Seq(Tokens), Begins(p, whole),
         Len(p) >= 1, Len(p) < Len(whole), NEW t, t = TrimSpace(p), NEW raw,
         ExtractJSONObject(raw) = p,
         \/ ExtractJSONBlock(raw) = t
         \/ ~Parses(ExtractJSONBlock(raw)) /\ ~Parses(Fixed(ExtractJSONBlock(raw)))
  PROVE  IF Completions(t) = {} THEN ParseDiagnosisJSON(raw) = Error
         ELSE ParseDiagnosisJSON(raw) \in Completions(t)
<1> DEFINE r == Completed(t)
           a == ExtractJSONBlock(raw)
           b == Fixed(a)
           result == ParseDiagnosisJSON(raw)
<1>1. /\ t \in Seq(Tokens) /\ ~Parses(t) /\ Fixed(t) = r /\ Fixed(p) = r /\ Compact(r) = r
  BY CutParsed
<1>2. result = IF Parses(a) THEN Compact(a)
               ELSE IF Parses(b) THEN Compact(b)
               ELSE IF Parses(r) THEN Compact(r)
               ELSE Error
  BY <1>1, Parsed
<1>3. ~Parses(a) /\ (b = r \/ ~Parses(b))
  BY <1>1
<1> HIDE DEF a, b, result, r
<1>4. result = IF r \in Objects THEN r ELSE Error
  BY <1>1, <1>2, <1>3 DEF Parses
<1>5. CASE r \in Objects
  <2>1. Closes(t, r)
    BY <1>1, CompletedCloses DEF r
  <2>2. r \in Completions(t)
    BY <1>5, <2>1 DEF Completions
  <2> QED
    BY <1>4, <1>5, <2>2 DEF result
<1>6. CASE r \notin Objects
  <2>1. Completions(t) = {}
    BY <1>1, <1>6, OneCompletion DEF Completions, r
  <2> QED
    BY <1>4, <1>6, <2>1 DEF result
<1> QED
  BY <1>5, <1>6

-----------------------------------------------------------------------------
(* Objects with a comma or white space too many *)

\* u is r with m more tokens, white space and commas, before the closer at i.
Widened(r, u, i, m) ==
  /\ Len(u) = Len(r) + m
  /\ \A k \in 1 .. (i - 1) : u[k] = r[k]
  /\ \A k \in i .. Len(r) : u[k + m] = r[k]
  /\ \A k \in i .. (i + m - 1) : u[k] \in {"space", "comma"}

\* g reads u as f reads r.
Stretches(f, g, r, u, i, m) ==
  /\ ReadsTo(u, Len(u), g) /\ g[Len(u)] = Start
  /\ \A k \in 1 .. (Len(u) - 1) : g[k].depth >= 1
  /\ \A k \in 0 .. (i - 1) : g[k] = f[k]
  /\ \A k \in (i - 1) .. Len(r) : g[k + m] = f[k]
  /\ \A k \in (i - 1) .. (i + m - 1) : g[k] = f[i - 1]

LEMMA WidenedRead ==
  ASSUME NEW r \in Objects, NEW f, Follows(f, r), NEW i \in 1 .. Len(r), ~f[i - 1].str,
         r[i] \in Closers, NEW X, NEW u \in Seq(X), NEW m \in Nat, Widened(r, u, i, m)
  PROVE  \E g : Stretches(f, g, r, u, i, m)
<1> DEFINE N == Len(r)
           g == [k \in 0 .. N + m |-> IF k < i THEN f[k] ELSE IF k < i + m THEN f[i - 1] ELSE f[k - m]]
<1>1. r \in Seq(Tokens) /\ r[1] = "lbrace"
  BY ObjectsFollowed
<1>2. N \in Nat /\ i \in Nat /\ i <= N /\ i >= 2
  <2>1. N \in Nat
    BY <1>1, NonEmpty
  <2>2. i # 1
    BY <1>1 DEF Closers
  <2> QED
    BY <2>1, <2>2
<1>3. /\ \A k \in 0 .. N : f[k] \in States
      /\ f[0] = Start /\ f[N] = Start
      /\ \A k \in 1 .. N : Reads(f[k - 1], r[k], f[k])
      /\ \A k \in 1 .. (N - 1) : f[k].depth >= 1
  BY DEF Follows
<1>4. /\ Len(u) = N + m
      /\ \A k \in 1 .. (i - 1) : u[k] = r[k]
      /\ \A k \in i .. N : u[k + m] = r[k]
      /\ \A k \in i .. (i + m - 1) : u[k] \in {"space", "comma"}
  BY DEF Widened
<1> HIDE DEF N
<1>5. /\ \A k \in 0 .. (i - 1) : g[k] = f[k]
      /\ \A k \in i .. (i + m - 1) : g[k] = f[i - 1]
      /\ \A k \in (i + m) .. (N + m) : g[k] = f[k - m]
  <2>1. ASSUME NEW k \in 0 .. (i - 1) PROVE g[k] = f[k]
    BY <1>2
  <2>2. ASSUME NEW k \in i .. (i + m - 1) PROVE g[k] = f[i - 1]
    BY <1>2
  <2>3. ASSUME NEW k \in (i + m) .. (N + m) PROVE g[k] = f[k - m]
    BY <1>2
  <2> QED
    BY <2>1, <2>2, <2>3
<1> HIDE DEF g
<1>6. \A k \in (i - 1) .. (i + m - 1) : g[k] = f[i - 1]
  <2>1. \A k \in (i - 1) .. (i + m - 1) : k \in i .. (i + m - 1) \/ (k = i - 1 /\ k \in 0 .. (i - 1))
    BY <1>2
  <2> QED
    BY <1>5, <2>1
<1>7. ASSUME NEW k \in (i - 1) .. N PROVE g[k + m] = f[k]
  <2>1. CASE k = i - 1
    <3>1. k + m \in (i - 1) .. (i + m - 1)
      BY <1>2, <2>1
    <3> QED
      BY <1>6, <2>1, <3>1
  <2>2. CASE k # i - 1
    <3>1. k + m \in (i + m) .. (N + m) /\ k + m - m = k
      BY <1>2, <2>2
    <3> QED
      BY <1>5, <3>1
  <2> QED
    BY <2>1, <2>2
<1>8. \A k \in 0 .. N + m : \/ k \in 0 .. (i - 1)
                            \/ k \in i .. (i + m - 1)
                            \/ k \in (i + m) .. (N + m) /\ k - m \in i .. N /\ k - m + m = k
  BY <1>2
<1>9. g[0] = Start /\ g[N + m] = Start
  <2>1. 0 \in 0 .. (i - 1) /\ N \in (i - 1) .. N
    BY <1>2
  <2> QED
    BY <1>3, <1>5, <1>7, <2>1
<1>10. \A k \in 0 .. N + m : g[k] \in States
  <2>1. i - 1 \in 0 .. N /\ (\A k \in 0 .. (i - 1) : k \in 0 .. N) /\ (\A k \in i .. N : k \in 0 .. N)
    BY <1>2
  <2> QED
    BY <1>3, <1>5, <1>8, <2>1
<1>11. ASSUME NEW k \in 1 .. N + m PROVE Loosely(g[k - 1], u[k], g[k])
  <2>1. CASE k < i
    <3>1. k \in 1 .. (i - 1) /\ k \in 0 .. (i - 1) /\ k - 1 \in 0 .. (i - 1) /\ k \in 1 .. N
      BY <1>2, <2>1
    <3>2. g[k - 1] = f[k - 1] /\ g[k] = f[k] /\ u[k] = r[k]
      BY <1>4, <1>5, <3>1
    <3>3. Reads(f[k - 1], r[k], f[k])
      BY <1>3, <3>1
    <3> QED
      BY <3>2, <3>3 DEF Loosely
  <2>2. CASE k >= i /\ k < i + m
    <3>1. k \in i .. (i + m - 1) /\ k \in (i - 1) .. (i + m - 1) /\ k - 1 \in (i - 1) .. (i + m - 1)
      BY <1>2, <2>2
    <3>2. g[k - 1] = f[i - 1] /\ g[k] = f[i - 1] /\ u[k] \in {"space", "comma"}
      BY <1>4, <1>6, <3>1
    <3> QED
      BY <3>2 DEF Loosely
  <2>3. CASE k >= i + m
    <3> DEFINE j == k - m
    <3>1. /\ j \in i .. N /\ j \in (i - 1) .. N /\ j - 1 \in (i - 1) .. N
          /\ j + m = k /\ j - 1 + m = k - 1 /\ j \in 1 .. N
      BY <1>2, <2>3
    <3> HIDE DEF j
    <3>2. g[j - 1 + m] = f[j - 1] /\ g[j + m] = f[j] /\ u[j + m] = r[j]
      BY <1>4, <1>7, <3>1
    <3>3. Reads(f[j - 1], r[j], f[j])
      BY <1>3, <3>1
    <3>4. g[k - 1] = f[j - 1] /\ g[k] = f[j] /\ u[k] = r[j]
      BY <3>1, <3>2
    <3> QED
      BY <3>3, <3>4 DEF Loosely
  <2> QED
    BY <1>2, <2>1, <2>2, <2>3
<1>12. ASSUME NEW k \in 1 .. (N + m - 1) PROVE g[k].depth >= 1
  <2>1. CASE k < i
    <3>1. k \in 0 .. (i - 1) /\ k \in 1 .. (N - 1)
      BY <1>2, <2>1
    <3> QED
      BY <1>3, <1>5, <3>1
  <2>2. CASE k >= i /\ k < i + m
    <3>1. k \in i .. (i + m - 1) /\ i - 1 \in 1 .. (N - 1)
      BY <1>2, <2>2
    <3> QED
      BY <1>3, <1>5, <3>1
  <2>3. CASE k >= i + m
    <3>1. k \in (i + m) .. (N + m) /\ k - m \in 1 .. (N - 1)
      BY <1>2, <2>3
    <3> QED
      BY <1>3, <1>5, <3>1
  <2> QED
    BY <1>2, <2>1, <2>2, <2>3
<1>13. ReadsTo(u, Len(u), g) /\ g[Len(u)] = Start
  BY <1>4, <1>9, <1>10, <1>11 DEF ReadsTo
<1>14. \A k \in 1 .. (Len(u) - 1) : g[k].depth >= 1
  <2>1. Len(u) = N + m
    BY <1>4
  <2>2. Len(u) - 1 = N + m - 1
    BY <1>2, <2>1
  <2> QED
    BY <1>12, <2>2
<1>15. Stretches(f, g, r, u, i, m)
  BY <1>5, <1>6, <1>7, <1>13, <1>14 DEF Stretches, N
<1> QED
  BY <1>15

\* Removing one of the tokens too many.
LEMMA OneLess ==
  ASSUME NEW X, NEW Y, NEW r \in Seq(X), NEW u \in Seq(Y), NEW i \in 1 .. Len(r), NEW m \in Nat,
         Widened(r, u, i, m + 1), NEW k \in i .. (i + m), NEW v, Len(v) = Len(u) - 1,
         \A j \in 1 .. Len(u) - 1 : v[j] = IF j < k THEN u[j] ELSE u[j + 1]
  PROVE  Widened(r, v, i, m)
<1> DEFINE N == Len(r)
<1>1. N \in Nat /\ i \in Nat /\ i <= N /\ i >= 1 /\ k \in Nat /\ k >= i /\ k <= i + m
  BY NonEmpty
<1>2. /\ Len(u) = N + (m + 1)
      /\ \A j \in 1 .. (i - 1) : u[j] = r[j]
      /\ \A j \in i .. N : u[j + (m + 1)] = r[j]
      /\ \A j \in i .. (i + (m + 1) - 1) : u[j] \in {"space", "comma"}
  BY DEF Widened
<1> HIDE DEF N
<1>3. Len(v) = N + m /\ Len(u) - 1 = N + m
  <2>1. Len(u) = N + (m + 1)
    BY <1>2
  <2>2. N \in Nat
    BY <1>1
  <2> QED
    BY <2>1, <2>2
<1>4. ASSUME NEW j \in 1 .. (i - 1) PROVE v[j] = r[j]
  <2>1. j \in 1 .. (N + m) /\ j < k
    BY <1>1
  <2> QED
    BY <1>2, <1>3, <2>1
<1>5. ASSUME NEW j \in i .. N PROVE v[j + m] = r[j]
  <2>1. j + m \in 1 .. (N + m) /\ ~(j + m < k) /\ j + m + 1 = j + (m + 1)
    BY <1>1
  <2>2. v[j + m] = u[j + m + 1]
    BY <1>3, <2>1
  <2> QED
    BY <1>2, <2>1, <2>2
<1>6. ASSUME NEW j \in i .. (i + m - 1) PROVE v[j] \in {"space", "comma"}
  <2>1. /\ j \in 1 .. (N + m)
        /\ j \in i .. (i + (m + 1) - 1) /\ j + 1 \in i .. (i + (m + 1) - 1)
    BY <1>1
  <2>2. v[j] = u[j] \/ v[j] = u[j + 1]
    BY <1>3, <2>1
  <2> QED
    BY <1>2, <2>1, <2>2
<1> QED
  BY <1>3, <1>4, <1>5, <1>6 DEF Widened, N

LEMMA NoneMore ==
  ASSUME NEW X, NEW Y, NEW r \in Seq(X), NEW u \in Seq(Y), NEW i \in 1 .. Len(r),
         Widened(r, u, i, 0)
  PROVE  u = r
<1>1. Len(r) \in Nat /\ i \in Nat /\ i <= Len(r)
  BY NonEmpty
<1>2. Len(u) = Len(r)
  <2>1. Len(u) = Len(r) + 0
    BY DEF Widened
  <2> QED
    BY <1>1, <2>1
<1>3. ASSUME NEW k \in 1 .. Len(r) PROVE u[k] = r[k]
  <2>1. CASE k < i
    <3>1. k \in 1 .. (i - 1)
      BY <1>1, <2>1
    <3> QED
      BY <3>1 DEF Widened
  <2>2. CASE k >= i
    <3>1. k \in i .. Len(r) /\ k + 0 = k
      BY <1>1, <2>2
    <3>2. u[k + 0] = r[k]
      BY <3>1 DEF Widened
    <3> QED
      BY <3>1, <3>2
  <2> QED
    BY <1>1, <2>1, <2>2
<1> QED
  BY <1>2, <1>3, SeqEqual

\* White space outside strings is only among these tokens, and commas before closers, too.
LEMMA OnlyThere ==
  ASSUME NEW r \in Objects, NEW f, Follows(f, r), NEW i \in 1 .. Len(r), ~f[i - 1].str,
         NEW X, NEW u \in Seq(X), NEW m \in Nat, Widened(r, u, i, m),
         NEW g, Stretches(f, g, r, u, i, m), NEW k \in 1 .. Len(u)
  PROVE  /\ k \in Outside(u, {"space"}) => k \in i .. (i + m - 1)
         /\ k \in i .. (i + m - 1) /\ u[k] = "space" => k \in Outside(u, {"space"})
         /\ k \in i .. (i + m - 1) /\ u[k] = "comma" => k \in Commas(u)
<1> DEFINE N == Len(r)
<1>1. N \in Nat /\ i \in Nat /\ i <= N /\ i >= 1 /\ Len(u) \in Nat
  <2>1. r \in Seq(Tokens)
    BY ObjectsFollowed
  <2> QED
    BY <2>1, NonEmpty
<1>2. \A j \in 1 .. N : Reads(f[j - 1], r[j], f[j])
  BY DEF Follows
<1>3. Len(u) = N + m
  BY DEF Widened
<1>4. k - 1 \in 0 .. Len(u) /\ Len(u) \in 0 .. Len(u)
  BY <1>1
<1>5. Scan(u)[k - 1].inString = g[k - 1].str
  <2>1. ReadsTo(u, Len(u), g)
    BY DEF Stretches
  <2>2. \A j \in 0 .. Len(u) : Scan(u)[j].inString = g[j].str
    BY <2>1, AgreeAll
  <2> QED
    BY <1>4, <2>2
<1> HIDE DEF N
<1>6. k \in i .. (i + m - 1) => ~Scan(u)[k - 1].inString
  <2> SUFFICES ASSUME k \in i .. (i + m - 1) PROVE ~g[k - 1].str
    BY <1>5
  <2>1. k - 1 \in (i - 1) .. (i + m - 1)
    BY <1>1
  <2> QED
    BY <2>1 DEF Stretches
<1>7. ASSUME k \in Outside(u, {"space"}), k \notin i .. (i + m - 1) PROVE FALSE
  <2>1. u[k] = "space" /\ ~g[k - 1].str
    BY <1>5, <1>7 DEF Outside
  <2>2. CASE k < i
    <3>1. k \in 1 .. (i - 1) /\ k - 1 \in 0 .. (i - 1) /\ k \in 1 .. N
      BY <1>1, <2>2
    <3>2. r[k] = u[k] /\ g[k - 1] = f[k - 1]
      BY <3>1 DEF Widened, Stretches
    <3> QED
      BY <1>2, <2>1, <3>1, <3>2 DEF Reads, ReadsOutside, Closers
  <2>3. CASE k >= i + m
    <3> DEFINE j == k - m
    <3>1. j \in i .. N /\ j - 1 \in (i - 1) .. N /\ j + m = k /\ j - 1 + m = k - 1 /\ j \in 1 .. N
      BY <1>1, <1>3, <2>3
    <3> HIDE DEF j
    <3>2. u[j + m] = r[j] /\ g[j - 1 + m] = f[j - 1]
      BY <3>1 DEF Widened, Stretches, N
    <3>3. u[k] = r[j] /\ g[k - 1] = f[j - 1]
      BY <3>1, <3>2
    <3> QED
      BY <1>2, <2>1, <3>1, <3>3 DEF Reads, ReadsOutside, Closers
  <2> QED
    BY <1>1, <1>7, <2>2, <2>3
<1> QED
  BY <1>6, <1>7 DEF Outside, Commas

\* An object is no object with a comma before a closer, ...
LEMMA CommaTooMany ==
  ASSUME NEW r \in Objects, NEW f, Follows(f, r), NEW i \in 1 .. Len(r), ~f[i - 1].str,
         r[i] \in Closers, NEW X, NEW u \in Seq(X), Widened(r, u, i, 1), u[i] = "comma"
  PROVE  u \notin Objects
<1> SUFFICES ASSUME u \in Objects PROVE FALSE
  OBVIOUS
<1>1. r \in Seq(Tokens) /\ Len(r) \in Nat
  BY ObjectsFollowed, NonEmpty
<1>2. PICK e : Follows(e, u)
  BY ObjectsFollowed
<1>3. PICK g : Stretches(f, g, r, u, i, 1)
  <2>1. 1 \in Nat
    OBVIOUS
  <2> QED
    BY <2>1, WidenedRead
<1> DEFINE N == Len(r)
           M == Len(u)
<1>0. N \in Nat /\ i \in Nat /\ i >= 1 /\ i <= N
  BY <1>1
<1>4. M = N + 1 /\ u[i + 1] = r[i]
  <2>1. i \in i .. N
    BY <1>0
  <2> QED
    BY <2>1 DEF Widened
<1> HIDE DEF N, M
<1>5. /\ i \in 1 .. M /\ i + 1 \in 1 .. M /\ i + 1 - 1 = i
      /\ i - 1 \in 0 .. M /\ i - 1 \in 0 .. (i - 1)
  BY <1>0, <1>4
<1> USE DEF M
<1>6. ReadsTo(u, Len(u), e)
  BY <1>2 DEF Follows, ReadsTo, Loosely
<1>7. ~e[i - 1].str
  <2>1. \A k \in 0 .. Len(u) : Scan(u)[k].inString = e[k].str
    BY <1>6, AgreeAll
  <2>2. ReadsTo(u, Len(u), g)
    BY <1>3 DEF Stretches
  <2>3. \A k \in 0 .. Len(u) : Scan(u)[k].inString = g[k].str
    BY <2>2, AgreeAll
  <2>4. g[i - 1] = f[i - 1]
    BY <1>3, <1>5 DEF Stretches
  <2> QED
    BY <1>5, <2>1, <2>3, <2>4
<1>8. Reads(e[i - 1], u[i], e[i]) /\ Reads(e[i + 1 - 1], u[i + 1], e[i + 1])
  BY <1>2, <1>5 DEF Follows
<1>9. Reads(e[i - 1], "comma", e[i]) /\ Reads(e[i], u[i + 1], e[i + 1])
  BY <1>5, <1>8
<1> QED
  BY <1>4, <1>7, <1>9, CommaRead DEF Closers

\* ... but it is with white space there, and nothing has to be repaired in that.
LEMMA SpaceTooMuch ==
  ASSUME NEW r \in Objects, NEW f, Follows(f, r), NEW i \in 1 .. Len(r), ~f[i - 1].str,
         r[i] \in Closers, NEW X, NEW u \in Seq(X), Widened(r, u, i, 1), u[i] = "space"
  PROVE  Compact(u) = r /\ FixUnterminatedString(u) = u
<1>1. r \in Seq(Tokens) /\ Len(r) \in Nat /\ r[1] = "lbrace" /\ r[Len(r)] = "rbrace"
  BY ObjectsFollowed, NonEmpty
<1>2. PICK g : Stretches(f, g, r, u, i, 1)
  <2>1. 1 \in Nat
    OBVIOUS
  <2> QED
    BY <2>1, WidenedRead
<1>3. Len(u) = Len(r) + 1
  BY DEF Widened
<1>4. i # 1
  BY <1>1 DEF Closers
<1>5. u[1] = "lbrace" /\ u[Len(u)] = "rbrace"
  <2>1. 1 \in 1 .. (i - 1) /\ Len(r) \in i .. Len(r)
    BY <1>1, <1>4
  <2>2. u[1] = r[1] /\ u[Len(r) + 1] = r[Len(r)]
    BY <2>1 DEF Widened
  <2> QED
    BY <1>1, <1>3, <2>2
<1>6. /\ i \in 1 .. Len(u) /\ Len(u) \in 0 .. Len(u) /\ u # <<>>
      /\ \A k : k \in i .. (i + 1 - 1) <=> k = i
  BY <1>1, <1>3
<1>7. ReadsTo(u, Len(u), g) /\ g[Len(u)] = Start
  BY <1>2 DEF Stretches
<1>8. Compact(u) = r
  <2> DEFINE places == (1 .. Len(u)) \ Outside(u, {"space"})
             v == Kept(u, places)
  <2>1. ASSUME NEW k \in 1 .. Len(u) PROVE k \in Outside(u, {"space"}) <=> k = i
    <3>1. /\ k \in Outside(u, {"space"}) => k \in i .. (i + 1 - 1)
          /\ k \in i .. (i + 1 - 1) /\ u[k] = "space" => k \in Outside(u, {"space"})
      <4>1. 1 \in Nat
        OBVIOUS
      <4> QED
        BY <1>2, <4>1, OnlyThere
    <3> QED
      BY <1>6, <3>1
  <2>2. i \notin places /\ \A k \in 1 .. Len(u) : k # i => k \in places
    BY <1>6, <2>1
  <2> HIDE DEF places
  <2>3. /\ v \in Seq(X)
        /\ Len(v) = Len(u) - 1
        /\ \A k \in 1 .. Len(u) - 1 : v[k] = IF k < i THEN u[k] ELSE u[k + 1]
    BY <1>6, <2>2, KeptBut
  <2> HIDE DEF v
  <2>4. Widened(r, u, i, 0 + 1) /\ 0 \in Nat /\ i \in i .. (i + 0)
    BY <1>1
  <2>5. Widened(r, v, i, 0)
    BY <1>1, <2>3, <2>4, OneLess
  <2>6. v = r
    BY <1>1, <2>3, <2>5, NoneMore
  <2> QED
    BY <2>6 DEF Compact, v, places
<1>9. TrimSpace(u) = u
  BY <1>5, <1>6, TrimNothing
<1>10. /\ Scan(u)[Len(u)].inString = g[Len(u)].str
       /\ Open(u)[Len(u)] = g[Len(u)].stack
  <2>1. /\ \A k \in 0 .. Len(u) : Scan(u)[k].inString = g[k].str
        /\ \A k \in 0 .. Len(u) : Open(u)[k] = g[k].stack
    BY <1>7, AgreeAll
  <2> QED
    BY <1>6, <2>1
<1>11. ~Scan(u)[Len(u)].inString /\ Open(u)[Len(u)] = <<>>
  BY <1>7, <1>10 DEF Start, Out
<1>12. BalanceBrackets(u) = u
  BY <1>11 DEF BalanceBrackets
<1>13. FixUnterminatedString(u) = u
  BY <1>6, <1>9, <1>11, <1>12, FixOfTrimmed
<1> QED
  BY <1>8, <1>13

LoosenedAt(r, i) == SubSeq(r, 1, i - 1) \o <<"comma", "space">> \o SubSeq(r, i, Len(r))

LEMMA LoosenedIs ==
  ASSUME NEW r \in Seq(Tokens), NEW i \in 1 .. Len(r)
  PROVE  /\ LoosenedAt(r, i) \in Seq(Tokens \cup {"space"})
         /\ Widened(r, LoosenedAt(r, i), i, 2)
         /\ LoosenedAt(r, i)[i] = "comma" /\ LoosenedAt(r, i)[i + 1] = "space"
<1> DEFINE N == Len(r)
           X == Tokens \cup {"space"}
           a == SubSeq(r, 1, i - 1)
           b == <<"comma", "space">>
           c == SubSeq(r, i, N)
           ab == a \o b
           u == ab \o c
<1>1. N \in Nat /\ i \in Nat /\ i <= N /\ i >= 1 /\ i - 1 \in 0 .. N
  BY NonEmpty
<1>2. /\ a \in Seq(Tokens) /\ Len(a) = i - 1
      /\ \A k \in 1 .. (i - 1) : a[k] = r[k]
  BY <1>1, Beginning
<1>3. /\ c \in Seq(Tokens) /\ Len(c) = N - i + 1
      /\ \A k \in 1 .. (N - i + 1) : c[k] = r[i + k - 1]
  BY <1>1, SubSeqProperties
<1>4. b \in Seq(X) /\ Len(b) = 2 /\ b[1] = "comma" /\ b[2] = "space"
  BY DEF Tokens
<1>5. a \in Seq(X) /\ c \in Seq(X)
  BY <1>2, <1>3
<1> HIDE DEF a, b, c, X
<1>6. /\ ab \in Seq(X) /\ Len(ab) = i + 1
      /\ \A k \in 1 .. (i - 1) : ab[k] = r[k]
      /\ ab[i] = "comma" /\ ab[i + 1] = "space"
  <2>1. /\ ab \in Seq(X) /\ Len(ab) = Len(a) + Len(b)
        /\ \A k \in 1 .. Len(a) + Len(b) : ab[k] = IF k <= Len(a) THEN a[k] ELSE b[k - Len(a)]
    BY <1>4, <1>5, ConcatProperties
  <2>2. Len(a) + Len(b) = i + 1
    BY <1>1, <1>2, <1>4
  <2> HIDE DEF ab
  <2>3. \A k \in 1 .. i + 1 : ab[k] = IF k <= i - 1 THEN a[k] ELSE b[k - (i - 1)]
    BY <1>2, <2>1, <2>2
  <2>4. \A k \in 1 .. (i - 1) : k \in 1 .. i + 1 /\ k <= i - 1
    BY <1>1
  <2>5. \A k \in 1 .. (i - 1) : ab[k] = r[k]
    BY <1>2, <2>3, <2>4
  <2>6. /\ i \in 1 .. i + 1 /\ ~(i <= i - 1) /\ i - (i - 1) = 1
        /\ i + 1 \in 1 .. i + 1 /\ ~(i + 1 <= i - 1) /\ i + 1 - (i - 1) = 2
    BY <1>1
  <2> DEFINE k1 == i + 1
  <2>7. ab[i] = b[1]
    BY <2>3, <2>6
  <2>8. k1 \in 1 .. i + 1 /\ ~(k1 <= i - 1) /\ k1 - (i - 1) = 2
    BY <2>6
  <2> HIDE DEF k1
  <2>9. ab[k1] = b[2]
    BY <2>3, <2>8
  <2>10. ab[i + 1] = b[2]
    BY <2>9 DEF k1
  <2> QED
    BY <1>4, <2>1, <2>2, <2>5, <2>7, <2>10
<1> HIDE DEF ab
<1>7. /\ u \in Seq(X) /\ Len(u) = Len(ab) + Len(c)
      /\ \A k \in 1 .. Len(ab) + Len(c) : u[k] = IF k <= Len(ab) THEN ab[k] ELSE c[k - Len(ab)]
  BY <1>5, <1>6, ConcatProperties
<1> HIDE DEF u, N
<1>8. Len(ab) + Len(c) = N + 2 /\ Len(ab) = i + 1
  BY <1>1, <1>3, <1>6
<1>9. Len(u) = N + 2 /\ \A k \in 1 .. N + 2 : u[k] = IF k <= i + 1 THEN ab[k] ELSE c[k - (i + 1)]
  BY <1>7, <1>8
<1>10. ASSUME NEW k \in 1 .. (i - 1) PROVE u[k] = r[k]
  <2>1. k \in 1 .. N + 2 /\ k <= i + 1
    BY <1>1
  <2> QED
    BY <1>6, <1>9, <2>1
<1>11. ASSUME NEW k \in i .. N PROVE u[k + 2] = r[k]
  <2> DEFINE j == k + 2
  <2>1. /\ j \in 1 .. N + 2 /\ ~(j <= i + 1) /\ j - (i + 1) \in 1 .. (N - i + 1)
        /\ i + (j - (i + 1)) - 1 = k
    BY <1>1
  <2> HIDE DEF j
  <2>2. u[j] = c[j - (i + 1)]
    BY <1>9, <2>1
  <2> DEFINE h == j - (i + 1)
  <2>3. h \in 1 .. (N - i + 1) /\ i + h - 1 = k
    BY <2>1
  <2> HIDE DEF h
  <2>4. c[h] = r[k]
    BY <1>3, <2>3
  <2> QED
    BY <2>2, <2>4 DEF h, j
<1>12. u[i] = "comma" /\ u[i + 1] = "space"
  <2>1. i \in 1 .. N + 2 /\ i <= i + 1
    BY <1>1
  <2> DEFINE k1 == i + 1
  <2>2. k1 \in 1 .. N + 2 /\ k1 <= i + 1
    BY <1>1
  <2> HIDE DEF k1
  <2>3. u[i] = ab[i] /\ u[k1] = ab[k1]
    BY <1>9, <2>1, <2>2
  <2> QED
    BY <1>6, <2>3 DEF k1
<1>13. ASSUME NEW k \in i .. (i + 2 - 1) PROVE u[k] \in {"space", "comma"}
  <2>1. k = i \/ k = i + 1
    BY <1>1
  <2> QED
    BY <1>12, <2>1
<1>14. Widened(r, u, i, 2)
  BY <1>9, <1>10, <1>11, <1>13 DEF Widened, N
<1> QED
  BY <1>7, <1>12, <1>14 DEF LoosenedAt, u, ab, a, b, c, N, X

\* A loosened object is none, but its repair is the object with white space in it.
LEMMA LoosenedParsed ==
  ASSUME NEW r \in Objects, NEW i \in 1 .. Len(r), r[i] \in Closers,
         NEW f, Follows(f, r), ~f[i - 1].str
  PROVE  /\ LoosenedAt(r, i) \in Seq(Tokens \cup {"space"})
         /\ ~Parses(LoosenedAt(r, i))
         /\ Compact(Fixed(LoosenedAt(r, i))) = r
<1> DEFINE N == Len(r)
           X == Tokens \cup {"space"}
           u == LoosenedAt(r, i)
<1>1. r \in Seq(Tokens) /\ N \in Nat
  BY ObjectsFollowed, NonEmpty
<1>2. u \in Seq(X) /\ Widened(r, u, i, 2) /\ u[i] = "comma" /\ u[i + 1] = "space"
  BY <1>1, LoosenedIs
<1> HIDE DEF X, u
<1>3. PICK g : Stretches(f, g, r, u, i, 2)
  <2>1. 2 \in Nat
    OBVIOUS
  <2> QED
    BY <1>2, <2>1, WidenedRead
<1>4. Len(u) = N + 2
  BY <1>2 DEF Widened
<1>5. /\ i \in Nat /\ i >= 1 /\ i <= N
      /\ i \in 1 .. Len(u) /\ i + 1 \in 1 .. Len(u) /\ i + 2 \in 1 .. Len(u)
      /\ \A k : k \in i .. (i + 2 - 1) <=> k \in {i, i + 1}
  BY <1>1, <1>4
<1>6. ASSUME NEW k \in 1 .. Len(u)
      PROVE  /\ k \in Outside(u, {"space"}) <=> k = i + 1
             /\ k = i => k \in Commas(u)
  <2>1. 2 \in Nat
    OBVIOUS
  <2>2. /\ k \in Outside(u, {"space"}) => k \in i .. (i + 2 - 1)
        /\ k \in i .. (i + 2 - 1) /\ u[k] = "space" => k \in Outside(u, {"space"})
        /\ k \in i .. (i + 2 - 1) /\ u[k] = "comma" => k \in Commas(u)
    BY <1>2, <1>3, <2>1, OnlyThere
  <2>3. k \in Outside(u, {"space"}) => u[k] = "space"
    BY DEF Outside
  <2> QED
    BY <1>2, <1>5, <2>2, <2>3
<1>7. ~Parses(u)
  <2> DEFINE places == (1 .. Len(u)) \ Outside(u, {"space"})
             v == Kept(u, places)
             k1 == i + 1
  <2>1. k1 \notin places /\ (\A k \in 1 .. Len(u) : k # k1 => k \in places) /\ k1 \in 1 .. Len(u)
    BY <1>5, <1>6
  <2>2. k1 \in i .. (i + 1) /\ i < k1
    BY <1>5
  <2> HIDE DEF places, k1
  <2>3. /\ v \in Seq(X)
        /\ Len(v) = Len(u) - 1
        /\ \A k \in 1 .. Len(u) - 1 : v[k] = IF k < k1 THEN u[k] ELSE u[k + 1]
    BY <1>2, <2>1, KeptBut
  <2> HIDE DEF v
  <2>4. Widened(r, u, i, 1 + 1) /\ 1 \in Nat
    BY <1>2
  <2>5. Widened(r, v, i, 1)
    BY <1>1, <1>2, <2>2, <2>3, <2>4, OneLess
  <2>6. i \in 1 .. Len(u) - 1
    BY <1>4, <1>5
  <2>7. v[i] = "comma"
    BY <1>2, <2>2, <2>3, <2>6
  <2>8. v \notin Objects
    BY <2>3, <2>5, <2>7, CommaTooMany
  <2> QED
    BY <2>8 DEF Parses, Compact, v, places
<1> DEFINE Trailing(k) == \E j \in (k + 1) .. Len(u) : /\ u[j] \in {"rbrace", "rbrack"}
                                                      /\ \A l \in (k + 1) .. (j - 1) : u[l] = "space"
           kept == {k \in 1 .. Len(u) : k \in Commas(u) => ~Trailing(k)}
           w == Kept(u, kept)
<1>8. i \notin kept
  <2>1. i + 2 \in (i + 1) .. Len(u) /\ \A l \in (i + 1) .. (i + 2 - 1) : l = i + 1
    BY <1>4, <1>5
  <2>2. u[i + 2] = r[i]
    <3>1. i \in i .. N
      BY <1>5
    <3> QED
      BY <1>2, <3>1 DEF Widened
  <2>3. u[i + 2] \in {"rbrace", "rbrack"} /\ \A l \in (i + 1) .. (i + 2 - 1) : u[l] = "space"
    BY <1>2, <2>1, <2>2 DEF Closers
  <2>4. Trailing(i)
    BY <2>1, <2>3
  <2> QED
    BY <1>5, <1>6, <2>4
<1>9. ASSUME NEW k \in 1 .. Len(u), k # i, k \in Commas(u) PROVE ~Trailing(k)
  <2> SUFFICES ASSUME NEW j \in (k + 1) .. Len(u), u[j] \in {"rbrace", "rbrack"},
                      \A l \in (k + 1) .. (j - 1) : u[l] = "space"
               PROVE  FALSE
    OBVIOUS
  <2>1. k \in Nat /\ j \in Nat /\ k + 1 <= j /\ j <= N + 2 /\ k >= 1
    BY <1>1, <1>4
  <2>2. u[k + 1] \in {"rbrace", "rbrack", "space"}
    <3>1. j = k + 1 \/ k + 1 \in (k + 1) .. (j - 1)
      BY <2>1
    <3> QED
      BY <3>1
  <2>3. u[k] = "comma" /\ ~g[k - 1].str
    <3>1. k - 1 \in 0 .. Len(u) /\ Len(u) \in 0 .. Len(u)
      BY <1>1, <1>4, <2>1
    <3>2. ReadsTo(u, Len(u), g)
      BY <1>3 DEF Stretches
    <3>3. \A l \in 0 .. Len(u) : Scan(u)[l].inString = g[l].str
      BY <1>2, <3>2, AgreeAll
    <3> QED
      BY <1>9, <3>1, <3>3 DEF Commas, Outside
  <2>4. \A l \in 1 .. N : Reads(f[l - 1], r[l], f[l])
    BY DEF Follows, N
  <2>5. CASE k < i
    <3>1. CASE k + 1 = i
      BY <1>2, <2>2, <3>1
    <3>2. CASE k + 1 # i
      <4> DEFINE k1 == k + 1
      <4>1. /\ k \in 1 .. (i - 1) /\ k1 \in 1 .. (i - 1) /\ k - 1 \in 0 .. (i - 1)
            /\ k \in 1 .. N /\ k1 \in 1 .. N /\ k1 - 1 = k
        BY <1>5, <2>1, <2>5, <3>2
      <4> HIDE DEF k1
      <4>2. u[k] = r[k] /\ u[k1] = r[k1] /\ g[k - 1] = f[k - 1]
        BY <1>2, <1>3, <4>1 DEF Widened, Stretches
      <4>3. Reads(f[k - 1], r[k], f[k]) /\ Reads(f[k1 - 1], r[k1], f[k1])
        BY <2>4, <4>1
      <4>4. Reads(f[k - 1], "comma", f[k]) /\ Reads(f[k], r[k1], f[k1]) /\ ~f[k - 1].str
        BY <2>3, <4>1, <4>2, <4>3
      <4>5. r[k1] \in {"rbrace", "rbrack", "space"}
        BY <2>2, <4>2 DEF k1
      <4> QED
        BY <4>4, <4>5, CommaRead
    <3> QED
      BY <3>1, <3>2
  <2>6. CASE k = i + 1
    BY <1>2, <2>3, <2>6
  <2>7. CASE k > i + 1
    <3> DEFINE h == k - 2
               h1 == h + 1
    <3>1. /\ h \in i .. N /\ h1 \in i .. N /\ h - 1 \in (i - 1) .. N
          /\ h \in 1 .. N /\ h1 \in 1 .. N /\ h1 - 1 = h
          /\ h + 2 = k /\ h1 + 2 = k + 1 /\ h - 1 + 2 = k - 1
      BY <1>5, <2>1, <2>7
    <3> HIDE DEF h1, h
    <3>2. u[h + 2] = r[h] /\ u[h1 + 2] = r[h1] /\ g[h - 1 + 2] = f[h - 1]
      BY <1>2, <1>3, <3>1 DEF Widened, Stretches, N
    <3>3. u[k] = r[h] /\ u[k + 1] = r[h1] /\ g[k - 1] = f[h - 1]
      BY <3>1, <3>2
    <3>4. Reads(f[h - 1], r[h], f[h]) /\ Reads(f[h1 - 1], r[h1], f[h1])
      BY <2>4, <3>1
    <3>5. Reads(f[h - 1], "comma", f[h]) /\ Reads(f[h], r[h1], f[h1]) /\ ~f[h - 1].str
      BY <2>3, <3>1, <3>3, <3>4
    <3> QED
      BY <2>2, <3>3, <3>5, CommaRead
  <2> QED
    BY <1>5, <1>9, <2>1, <2>5, <2>6, <2>7
<1>10. \A k \in 1 .. Len(u) : k # i => k \in kept
  BY <1>9
<1>11. FixTrailingComma(u) = w
  BY DEF FixTrailingComma
<1> HIDE DEF kept
<1>12. /\ w \in Seq(X)
       /\ Len(w) = Len(u) - 1
       /\ \A k \in 1 .. Len(u) - 1 : w[k] = IF k < i THEN u[k] ELSE u[k + 1]
  BY <1>2, <1>5, <1>8, <1>10, KeptBut
<1> HIDE DEF w
<1>13. Widened(r, w, i, 1)
  <2>1. Widened(r, u, i, 1 + 1) /\ 1 \in Nat /\ i \in i .. (i + 1)
    BY <1>2, <1>5
  <2> QED
    BY <1>1, <1>2, <1>12, <2>1, OneLess
<1>14. w[i] = "space"
  <2>1. i \in 1 .. Len(u) - 1 /\ ~(i < i)
    BY <1>4, <1>5
  <2> QED
    BY <1>2, <1>12, <2>1
<1>15. Compact(w) = r /\ FixUnterminatedString(w) = w
  BY <1>12, <1>13, <1>14, SpaceTooMuch
<1>16. Compact(Fixed(u)) = r
  BY <1>11, <1>15 DEF Fixed
<1> QED
  BY <1>2, <1>7, <1>16 DEF u, X

-----------------------------------------------------------------------------
(* Where the object is *)

\* The first place of raw that holds one of the tokens, or 0.
First(raw, tokens) == SelectInSeq(raw, LAMBDA c : c \in tokens)

LEMMA FirstIs ==
  ASSUME NEW X, NEW raw \in Seq(X), NEW tokens
  PROVE  /\ (\A i \in 1 .. Len(raw) : raw[i] \notin tokens) => First(raw, tokens) = 0
         /\ \A k \in 1 .. Len(raw) :
              raw[k] \in tokens /\ (\A i \in 1 .. (k - 1) : raw[i] \notin tokens) =>
                First(raw, tokens) = k
<1> DEFINE N == Len(raw)
           hits == {i \in 1 .. N : raw[i] \in tokens}
           first == IF hits # {} THEN Min(hits) ELSE 0
<1>1. N \in Nat
  BY NonEmpty
<1>2. First(raw, tokens) = first
  BY DEF First, SelectInSeq
<1>3. (\A i \in 1 .. N : raw[i] \notin tokens) => first = 0
  OBVIOUS
<1>4. ASSUME NEW k \in 1 .. N, raw[k] \in tokens, \A i \in 1 .. (k - 1) : raw[i] \notin tokens
      PROVE  first = k
  <2>1. k \in hits
    BY <1>4
  <2>2. hits \subseteq 1 .. N /\ hits # {}
    BY <2>1
  <2>3. Min(hits) \in hits /\ \A i \in hits : Min(hits) <= i
    BY <1>1, <2>2, Extremes
  <2>4. \A i \in hits : i \notin 1 .. (k - 1) /\ i \in 1 .. N
    BY <1>4
  <2> DEFINE m == Min(hits)
  <2>5. m \in 1 .. N /\ m \notin 1 .. (k - 1) /\ m <= k
    BY <2>1, <2>3, <2>4
  <2> HIDE DEF m
  <2>6. m = k
    BY <1>1, <2>5
  <2> QED
    BY <2>2, <2>6 DEF m
<1> QED
  BY <1>2, <1>3, <1>4

\* The text between the first of the openers and the next fence.
BlockAfter(raw, openers) ==
  LET open == First(raw, openers)
      ends == {i \in (open + 1) .. Len(raw) : raw[i] \in Fences}
  IN  IF open = 0 \/ ends = {} THEN <<>>
      ELSE << TrimSpace(SubSeq(raw, open + 1, Min(ends) - 1)) >>

LEMMA BlockIs ==
  ASSUME NEW raw, NEW tagged, tagged = BlockAfter(raw, {"json"}),
         NEW plain, plain = BlockAfter(raw, Fences)
  PROVE  ExtractJSONBlock(raw) =
           IF tagged # <<>> THEN tagged[1]
           ELSE IF plain # <<>> /\ plain[1] # <<>> /\ plain[1][1] = "lbrace" THEN plain[1]
           ELSE TrimSpace(raw)
BY DEF ExtractJSONBlock, BlockAfter, First

\* A fence that is not closed does not count.
LEMMA NoBlock ==
  ASSUME NEW X, NEW raw \in Seq(X), \A i \in 2 .. Len(raw) : raw[i] \notin Fences
  PROVE  ExtractJSONBlock(raw) = TrimSpace(raw)
<1>1. ASSUME NEW openers, openers \subseteq Fences PROVE BlockAfter(raw, openers) = <<>>
  <2>1. CASE Len(raw) = 0 \/ raw[1] \notin openers
    <3>1. \A i \in 1 .. Len(raw) : i = 1 \/ i \in 2 .. Len(raw)
      BY NonEmpty
    <3>2. \A i \in 1 .. Len(raw) : raw[i] \notin openers
      BY <1>1, <2>1, <3>1
    <3>3. First(raw, openers) = 0
      BY <3>2, FirstIs
    <3> QED
      BY <3>3 DEF BlockAfter
  <2>2. CASE Len(raw) # 0 /\ raw[1] \in openers
    <3>1. Len(raw) \in Nat
      BY NonEmpty
    <3>2. 1 \in 1 .. Len(raw) /\ 1 .. (1 - 1) = {}
      BY <2>2, <3>1
    <3>3. First(raw, openers) = 1
      BY <2>2, <3>2, FirstIs
    <3>4. {i \in (1 + 1) .. Len(raw) : raw[i] \in Fences} = {}
      OBVIOUS
    <3> QED
      BY <3>3, <3>4 DEF BlockAfter
  <2> QED
    BY <2>1, <2>2
<1>2. BlockAfter(raw, {"json"}) = <<>> /\ BlockAfter(raw, Fences) = <<>>
  BY <1>1 DEF Fences
<1> QED
  BY <1>2, BlockIs

\* A block is what stands between two fences.
LEMMA BlockFound ==
  ASSUME NEW X, NEW raw \in Seq(X), Len(raw) >= 1, raw[1] \in Fences,
         NEW e \in 2 .. Len(raw), raw[e] \in Fences, \A i \in 2 .. (e - 1) : raw[i] \notin Fences,
         raw[1] = "fence" => \A i \in 1 .. Len(raw) : raw[i] # "json",
         TrimSpace(SubSeq(raw, 2, e - 1)) # <<>>, TrimSpace(SubSeq(raw, 2, e - 1))[1] = "lbrace"
  PROVE  ExtractJSONBlock(raw) = TrimSpace(SubSeq(raw, 2, e - 1))
<1> DEFINE s == TrimSpace(SubSeq(raw, 2, e - 1))
<1>0. s # <<>> /\ s[1] = "lbrace"
  OBVIOUS
<1> SUFFICES ExtractJSONBlock(raw) = s
  OBVIOUS
<1> HIDE DEF s
<1>1. Len(raw) \in Nat /\ 1 \in 1 .. Len(raw) /\ 1 .. (1 - 1) = {} /\ 1 + 1 = 2
  BY NonEmpty
<1>2. ASSUME NEW openers, raw[1] \in openers PROVE BlockAfter(raw, openers) = <<s>>
  <2>1. First(raw, openers) = 1
    BY <1>1, <1>2, FirstIs
  <2> DEFINE ends == {i \in 2 .. Len(raw) : raw[i] \in Fences}
  <2>2. e \in ends /\ ends \subseteq 1 .. Len(raw)
    BY <1>1
  <2>3. ends # {}
    BY <2>2
  <2>4. Min(ends) \in ends /\ \A i \in ends : Min(ends) <= i
    BY <1>1, <2>2, <2>3, Extremes
  <2> DEFINE m == Min(ends)
  <2>5. m \in 2 .. Len(raw) /\ m \notin 2 .. (e - 1) /\ m <= e
    BY <2>2, <2>4
  <2>6. m = e
    <3> HIDE DEF m
    <3> QED
      BY <1>1, <2>5
  <2> QED
    BY <1>1, <2>1, <2>3, <2>6 DEF BlockAfter, s
<1>3. BlockAfter(raw, Fences) = <<s>>
  BY <1>2
<1>4. <<s>> # <<>> /\ <<s>>[1] = s
  OBVIOUS
<1>5. CASE raw[1] = "json"
  <2>1. BlockAfter(raw, {"json"}) = <<s>>
    BY <1>2, <1>5
  <2> QED
    BY <1>0, <1>4, <2>1, BlockIs
<1>6. CASE raw[1] = "fence"
  <2>1. First(raw, {"json"}) = 0
    BY <1>6, FirstIs
  <2>2. BlockAfter(raw, {"json"}) = <<>>
    BY <2>1 DEF BlockAfter
  <2> QED
    BY <1>0, <1>3, <1>4, <2>2, BlockIs
<1> QED
  BY <1>5, <1>6 DEF Fences

\* What follows the first brace is read to where it is closed, ...
ObjectFrom(t) ==
  LET ends == {i \in Braces(t) : Depth(t)[i] = 0}
  IN  IF ends = {} THEN t ELSE SubSeq(t, 1, Min(ends))

LEMMA ObjectAfter ==
  ASSUME NEW raw, NEW b, b = First(raw, {"lbrace"}), b # 0
  PROVE  ExtractJSONObject(raw) = ObjectFrom(SubSeq(raw, b, Len(raw)))
<1> DEFINE hits == {i \in 1 .. Len(raw) : raw[i] = "lbrace"}
           others == {i \in 1 .. Len(raw) : raw[i] \in {"lbrace"}}
           start == IF hits # {} THEN Min(hits) ELSE 0
<1>1. b = IF others # {} THEN Min(others) ELSE 0
  BY DEF First, SelectInSeq
<1>2. hits = others
  OBVIOUS
<1> HIDE DEF hits, others
<1>3. b = start
  BY <1>1, <1>2
<1> HIDE DEF start
<1>4. SelectInSeq(raw, LAMBDA c : c = "lbrace") = start
  BY DEF SelectInSeq, start, hits
<1> QED
  BY <1>3, <1>4 DEF ExtractJSONObject, ObjectFrom

LEMMA FirstClosed ==
  ASSUME NEW X, NEW t \in Seq(X), NEW n \in 1 .. Len(t), NEW f, ReadsTo(t, n, f),
         \A i \in 1 .. (n - 1) : f[i].depth >= 1, f[n] = Start, t[n] = "rbrace"
  PROVE  ObjectFrom(t) = SubSeq(t, 1, n)
<1>3. Len(t) \in Nat /\ n \in Nat
  BY NonEmpty
<1>4. n \in 0 .. Len(t) /\ n - 1 \in 0 .. n /\ n \in 0 .. n
  BY <1>3
<1>5. \A i \in 0 .. n : Scan(t)[i].inString = f[i].str /\ Depth(t)[i] = f[i].depth
  <2>1. \A i \in 0 .. n : /\ Scan(t)[i] = [inString |-> f[i].str, escaped |-> f[i].esc]
                          /\ Scan(t)[i].inString = f[i].str
                          /\ Open(t)[i] = f[i].stack
                          /\ Depth(t)[i] = f[i].depth
    BY <1>4, Agree
  <2> QED
    BY <2>1
<1>6. ~f[n - 1].str
  <2>1. Loosely(f[n - 1], "rbrace", f[n])
    BY DEF ReadsTo
  <2>2. f[n].str = FALSE
    BY DEF Start, Out
  <2>3. f[n - 1] \in States
    BY <1>4 DEF ReadsTo
  <2> QED
    BY <2>1, <2>2, <2>3 DEF Loosely, Reads, ReadsInside, In
<1> DEFINE ends == {i \in Braces(t) : Depth(t)[i] = 0}
           m == Min(ends)
<1>7. n \in ends
  <2>1. n \in Braces(t)
    BY <1>4, <1>5, <1>6 DEF Braces, Outside
  <2>2. Depth(t)[n] = 0
    BY <1>4, <1>5, StartIsState
  <2> QED
    BY <2>1, <2>2
<1>8. ends \subseteq 1 .. Len(t) /\ ends # {}
  BY <1>7 DEF Braces, Outside
<1>9. m \in ends /\ m <= n
  BY <1>3, <1>7, <1>8, Extremes
<1>10. \A i \in 1 .. (n - 1) : i \notin ends
  <2>1. \A i \in 1 .. (n - 1) : i \in 0 .. n
    BY <1>3
  <2>2. \A i \in 1 .. (n - 1) : Depth(t)[i] >= 1
    BY <1>5, <2>1
  <2> QED
    BY <2>2
<1>11. m = n
  <2>1. m \in 1 .. Len(t) /\ m \notin 1 .. (n - 1) /\ m <= n
    BY <1>8, <1>9, <1>10
  <2> HIDE DEF m
  <2> QED
    BY <1>3, <2>1
<1>12. ObjectFrom(t) = IF ends = {} THEN t ELSE SubSeq(t, 1, m)
  BY DEF ObjectFrom
<1> HIDE DEF ends, m
<1> QED
  BY <1>8, <1>11, <1>12

LEMMA ObjectFound ==
  ASSUME NEW X, NEW raw \in Seq(X), NEW b \in 1 .. Len(raw), raw[b] = "lbrace",
         \A i \in 1 .. (b - 1) : raw[i] # "lbrace",
         NEW t \in Seq(X), t = SubSeq(raw, b, Len(raw)), NEW n \in 1 .. Len(t), NEW f,
         ReadsTo(t, n, f), \A i \in 1 .. (n - 1) : f[i].depth >= 1, f[n] = Start,
         t[n] = "rbrace"
  PROVE  ExtractJSONObject(raw) = SubSeq(t, 1, n)
<1>1. First(raw, {"lbrace"}) = b /\ b # 0
  <2>1. raw[b] \in {"lbrace"} /\ \A i \in 1 .. (b - 1) : raw[i] \notin {"lbrace"}
    OBVIOUS
  <2>2. First(raw, {"lbrace"}) = b
    BY <2>1, FirstIs
  <2>3. b # 0
    BY NonEmpty
  <2> QED
    BY <2>2, <2>3
<1>2. ExtractJSONObject(raw) = ObjectFrom(t)
  BY <1>1, ObjectAfter
<1>3. ObjectFrom(t) = SubSeq(t, 1, n)
  BY FirstClosed
<1> QED
  BY <1>2, <1>3

\* ... or to the end of the text.
LEMMA NeverClosed ==
  ASSUME NEW X, NEW t \in Seq(X), NEW f, ReadsTo(t, Len(t), f),
         \A i \in 1 .. Len(t) : f[i].depth >= 1
  PROVE  ObjectFrom(t) = t
<1>1. \A i \in 1 .. Len(t) : i \in 0 .. Len(t)
  BY NonEmpty
<1>2. \A i \in 1 .. Len(t) : Depth(t)[i] >= 1
  <2>1. \A i \in 0 .. Len(t) : Depth(t)[i] = f[i].depth
    BY AgreeAll
  <2> QED
    BY <1>1, <2>1
<1> DEFINE ends == {i \in Braces(t) : Depth(t)[i] = 0}
<1>3. Braces(t) \subseteq 1 .. Len(t)
  BY DEF Braces, Outside
<1>4. ends = {}
  BY <1>2, <1>3
<1>5. ObjectFrom(t) = IF ends = {} THEN t ELSE SubSeq(t, 1, Min(ends))
  BY DEF ObjectFrom
<1> HIDE DEF ends
<1> QED
  BY <1>4, <1>5

LEMMA ObjectOpen ==
  ASSUME NEW X, NEW raw \in Seq(X), NEW b \in 1 .. Len(raw), raw[b] = "lbrace",
         \A i \in 1 .. (b - 1) : raw[i] # "lbrace",
         NEW t \in Seq(X), t = SubSeq(raw, b, Len(raw)), NEW f, ReadsTo(t, Len(t), f),
         \A i \in 1 .. Len(t) : f[i].depth >= 1
  PROVE  ExtractJSONObject(raw) = t
<1>1. First(raw, {"lbrace"}) = b /\ b # 0
  <2>1. raw[b] \in {"lbrace"} /\ \A i \in 1 .. (b - 1) : raw[i] \notin {"lbrace"}
    OBVIOUS
  <2>2. First(raw, {"lbrace"}) = b
    BY <2>1, FirstIs
  <2>3. b # 0
    BY NonEmpty
  <2> QED
    BY <2>2, <2>3
<1>2. ExtractJSONObject(raw) = ObjectFrom(t)
  BY <1>1, ObjectAfter
<1>3. ObjectFrom(t) = t
  BY NeverClosed
<1> QED
  BY <1>2, <1>3

\* A text with others around it.
\* The parts of raw, one after another.
Parts(X, w, s, v, raw) ==
  /\ raw \in Seq(X) /\ Len(raw) = Len(w) + Len(s) + Len(v)
  /\ \A k \in 1 .. Len(w) : raw[k] = w[k]
  /\ \A k \in 1 .. Len(s) : raw[Len(w) + k] = s[k]
  /\ \A k \in 1 .. Len(v) : raw[Len(w) + Len(s) + k] = v[k]

LEMMA AroundIs ==
  ASSUME NEW X, NEW w \in Seq(X), NEW s \in Seq(X), NEW v \in Seq(X), NEW raw, raw = w \o s \o v
  PROVE  Parts(X, w, s, v, raw)
<1> DEFINE a == Len(w)
           n == Len(s)
           m == Len(v)
           ws == w \o s
<1>1. a \in Nat /\ n \in Nat /\ m \in Nat
  BY NonEmpty
<1>2. /\ ws \in Seq(X) /\ Len(ws) = a + n
      /\ \A k \in 1 .. a + n : ws[k] = IF k <= a THEN w[k] ELSE s[k - a]
  BY ConcatProperties
<1> HIDE DEF ws
<1>3. /\ raw \in Seq(X) /\ Len(raw) = a + n + m
      /\ \A k \in 1 .. a + n + m : raw[k] = IF k <= a + n THEN ws[k] ELSE v[k - (a + n)]
  <2>1. raw = ws \o v
    BY DEF ws
  <2>2. ws \in Seq(X)
    BY <1>2
  <2>3. /\ ws \o v \in Seq(X) /\ Len(ws \o v) = Len(ws) + Len(v)
        /\ \A k \in 1 .. Len(ws) + Len(v) :
             (ws \o v)[k] = IF k <= Len(ws) THEN ws[k] ELSE v[k - Len(ws)]
    BY <2>2, ConcatProperties
  <2> QED
    BY <1>2, <2>1, <2>3
<1> HIDE DEF a, n, m
<1>4. ASSUME NEW k \in 1 .. a PROVE raw[k] = w[k]
  <2>1. k \in 1 .. a + n /\ k \in 1 .. a + n + m /\ k <= a + n /\ k <= a
    BY <1>1
  <2> QED
    BY <1>2, <1>3, <2>1
<1>5. ASSUME NEW k \in 1 .. n PROVE raw[a + k] = s[k]
  <2> DEFINE j == a + k
  <2>1. j \in 1 .. a + n /\ j \in 1 .. a + n + m /\ j <= a + n /\ ~(j <= a) /\ j - a = k
    BY <1>1
  <2> HIDE DEF j
  <2>2. raw[j] = s[k]
    BY <1>2, <1>3, <2>1
  <2> QED
    BY <2>2 DEF j
<1>6. ASSUME NEW k \in 1 .. m PROVE raw[a + n + k] = v[k]
  <2> DEFINE j == a + n + k
  <2>1. j \in 1 .. a + n + m /\ ~(j <= a + n) /\ j - (a + n) = k
    BY <1>1
  <2> HIDE DEF j
  <2>2. raw[j] = v[k]
    BY <1>3, <2>1
  <2> QED
    BY <2>2 DEF j
<1> QED
  BY <1>3, <1>4, <1>5, <1>6 DEF Parts, a, n, m

LEMMA NothingAround ==
  ASSUME NEW X, NEW s \in Seq(X), NEW raw, Parts(X, <<>>, s, <<>>, raw)
  PROVE  raw = s
<1>1. /\ raw \in Seq(X) /\ Len(raw) = 0 + Len(s) + 0
      /\ \A k \in 1 .. Len(s) : raw[0 + k] = s[k]
  BY DEF Parts
<1>2. Len(raw) = Len(s) /\ \A k \in 1 .. Len(s) : 0 + k = k
  BY <1>1, NonEmpty
<1>3. \A k \in 1 .. Len(raw) : raw[k] = s[k]
  BY <1>1, <1>2
<1> QED
  BY <1>1, <1>2, <1>3, SeqEqual

LEMMA SplitAt ==
  ASSUME NEW a \in Nat, NEW n \in Nat, NEW m \in Nat, n >= 1
  PROVE  /\ a + 1 \in 1 .. a + n + m /\ a + 1 - 1 = a /\ a + n + m - (a + 1) + 1 = n + m
         /\ \A k \in 1 .. n : k \in 1 .. n + m /\ a + 1 + k - 1 = a + k
OBVIOUS

\* The first brace of a text with others around it, none of them with a brace before it.
FromBrace(X, w, s, v, raw) ==
  LET b == Len(w) + 1
      t == SubSeq(raw, b, Len(raw))
  IN  /\ raw \in Seq(X) /\ b \in 1 .. Len(raw) /\ raw[b] = "lbrace"
      /\ \A k \in 1 .. (b - 1) : raw[k] # "lbrace"
      /\ t \in Seq(X) /\ Len(t) = Len(s) + Len(v) /\ \A k \in 1 .. Len(s) : t[k] = s[k]

LEMMA FirstBrace ==
  ASSUME NEW X, NEW w \in Seq(X), NEW s \in Seq(X), NEW v \in Seq(X), NEW raw, Parts(X, w, s, v, raw),
         s # <<>>, s[1] = "lbrace", \A k \in 1 .. Len(w) : w[k] # "lbrace"
  PROVE  FromBrace(X, w, s, v, raw)
<1> DEFINE a == Len(w)
           n == Len(s)
           m == Len(v)
           N == Len(raw)
           b == a + 1
           t == SubSeq(raw, b, N)
<1>1. a \in Nat /\ n \in Nat /\ m \in Nat /\ n >= 1 /\ 1 \in 1 .. n
  BY NonEmpty
<1>2. /\ raw \in Seq(X) /\ N = a + n + m
      /\ \A k \in 1 .. a : raw[k] = w[k]
      /\ \A k \in 1 .. n : raw[a + k] = s[k]
  BY DEF Parts
<1> HIDE DEF a, n, m, N, t
<1>3. b = a + 1
  OBVIOUS
<1>4. /\ b \in 1 .. N /\ b - 1 = a /\ N \in Nat /\ b \in Nat /\ N - b + 1 = n + m
      /\ \A k \in 1 .. n : k \in 1 .. n + m /\ b + k - 1 = a + k
  <2>1. b \in Nat /\ N \in Nat /\ N = a + n + m
    BY <1>1, <1>2
  <2>2. /\ a + 1 \in 1 .. a + n + m /\ a + 1 - 1 = a /\ a + n + m - (a + 1) + 1 = n + m
        /\ \A k \in 1 .. n : k \in 1 .. n + m /\ a + 1 + k - 1 = a + k
    BY <1>1, SplitAt
  <2> QED
    BY <1>1, <2>1, <2>2
<1> HIDE DEF b
<1>5. raw[b] = "lbrace"
  BY <1>1, <1>2, <1>3
<1>6. \A k \in 1 .. (b - 1) : raw[k] # "lbrace"
  BY <1>2, <1>4 DEF a
<1>7. t = SubSeq(raw, b, N)
  BY DEF t
<1>8. \A k \in b .. N : raw[k] \in X
  <2>1. \A k \in b .. N : k \in 1 .. N
    BY <1>4
  <2> QED
    BY <1>2, <2>1 DEF N
<1>9. /\ t \in Seq(X) /\ Len(t) = n + m
      /\ \A k \in 1 .. n + m : t[k] = raw[b + k - 1]
  <2>1. b \in Int /\ N \in Int /\ b <= N
    BY <1>4
  <2>2. /\ SubSeq(raw, b, N) \in Seq(X) /\ Len(SubSeq(raw, b, N)) = N - b + 1
        /\ \A k \in 1 .. N - b + 1 : SubSeq(raw, b, N)[k] = raw[b + k - 1]
    BY <1>8, <2>1, SubSeqProperties
  <2> QED
    BY <1>4, <1>7, <2>2
<1>10. ASSUME NEW k \in 1 .. n PROVE t[k] = s[k]
  <2>1. k \in 1 .. n + m /\ b + k - 1 = a + k
    BY <1>4
  <2>2. t[k] = raw[b + k - 1]
    BY <1>9, <2>1
  <2> QED
    BY <1>2, <2>1, <2>2
<1> QED
  BY <1>2, <1>4, <1>5, <1>6, <1>9, <1>10 DEF FromBrace, N, n, m, a, b, t

\* The object is found with anything after it, ...
LEMMA ObjectAround ==
  ASSUME NEW X, NEW w \in Seq(X), NEW s \in Seq(X), NEW v \in Seq(X), NEW raw, Parts(X, w, s, v, raw),
         s # <<>>, s[1] = "lbrace", s[Len(s)] = "rbrace", \A k \in 1 .. Len(w) : w[k] # "lbrace",
         NEW f, ReadsTo(s, Len(s), f), \A i \in 1 .. (Len(s) - 1) : f[i].depth >= 1,
         f[Len(s)] = Start
  PROVE  ExtractJSONObject(raw) = s
<1> DEFINE n == Len(s)
           b == Len(w) + 1
           t == SubSeq(raw, b, Len(raw))
<1>1. n \in Nat /\ Len(v) \in Nat /\ n >= 1 /\ \A k \in 1 .. n : k \in 1 .. n
  BY NonEmpty
<1>2. /\ raw \in Seq(X) /\ b \in 1 .. Len(raw) /\ raw[b] = "lbrace"
      /\ \A k \in 1 .. (b - 1) : raw[k] # "lbrace"
      /\ t \in Seq(X) /\ Len(t) = n + Len(v) /\ \A k \in 1 .. n : t[k] = s[k]
  <2>1. FromBrace(X, w, s, v, raw)
    BY FirstBrace
  <2> QED
    BY <2>1 DEF FromBrace
<1> HIDE DEF b
<1>3. n \in 1 .. Len(t) /\ n \in 0 .. Len(t) /\ n \in 1 .. n
  BY <1>1, <1>2
<1>4. ReadsTo(t, n, f)
  BY <1>2 DEF ReadsTo
<1>5. t[n] = "rbrace"
  BY <1>2, <1>3
<1>6. ExtractJSONObject(raw) = SubSeq(t, 1, n)
  BY <1>2, <1>3, <1>4, <1>5, ObjectFound
<1> HIDE DEF t
<1>7. /\ SubSeq(t, 1, n) \in Seq(X) /\ Len(SubSeq(t, 1, n)) = n
      /\ \A i \in 1 .. n : SubSeq(t, 1, n)[i] = t[i]
  BY <1>2, <1>3, Beginning
<1>8. SubSeq(t, 1, n) = s
  <2> DEFINE c == SubSeq(t, 1, n)
  <2>1. c \in Seq(X) /\ Len(c) = Len(s) /\ \A i \in 1 .. Len(s) : c[i] = s[i]
    BY <1>2, <1>7
  <2> HIDE DEF c
  <2>2. c = s
    BY <2>1, SeqEqual
  <2> QED
    BY <2>2 DEF c
<1> QED
  BY <1>6, <1>8

\* ... and the beginning of one with nothing after it.
LEMMA BeginningAround ==
  ASSUME NEW X, NEW w \in Seq(X), NEW s \in Seq(X), NEW raw, Parts(X, w, s, <<>>, raw),
         s # <<>>, s[1] = "lbrace", \A k \in 1 .. Len(w) : w[k] # "lbrace",
         NEW f, ReadsTo(s, Len(s), f), \A i \in 1 .. Len(s) : f[i].depth >= 1
  PROVE  ExtractJSONObject(raw) = s
<1> DEFINE n == Len(s)
           v == <<>>
           b == Len(w) + 1
           t == SubSeq(raw, b, Len(raw))
<1>1. n \in Nat /\ v \in Seq(X) /\ Len(v) = 0 /\ Parts(X, w, s, v, raw)
  BY NonEmpty
<1> HIDE DEF v
<1>2. /\ raw \in Seq(X) /\ b \in 1 .. Len(raw) /\ raw[b] = "lbrace"
      /\ \A k \in 1 .. (b - 1) : raw[k] # "lbrace"
      /\ t \in Seq(X) /\ Len(t) = n + Len(v) /\ \A k \in 1 .. n : t[k] = s[k]
  <2>1. FromBrace(X, w, s, v, raw)
    BY <1>1, FirstBrace
  <2> QED
    BY <2>1 DEF FromBrace
<1>3. Len(t) = n
  BY <1>1, <1>2
<1> HIDE DEF b
<1>4. t = s
  <2> HIDE DEF t
  <2> QED
    BY <1>2, <1>3, SeqEqual
<1>5. ReadsTo(t, Len(t), f) /\ \A i \in 1 .. Len(t) : f[i].depth >= 1
  BY <1>4
<1>6. ExtractJSONObject(raw) = t
  BY <1>2, <1>5, ObjectOpen
<1> QED
  BY <1>4, <1>6

\* A text that begins with something else than an object, and has no block.
LEMMA NoAttempt ==
  ASSUME NEW X, NEW raw \in Seq(X), raw # <<>>, raw[1] \notin {"space", "lbrace", "comma"},
         \A i \in 2 .. Len(raw) : raw[i] \notin Fences
  PROVE  ~Parses(ExtractJSONBlock(raw)) /\ ~Parses(Fixed(ExtractJSONBlock(raw)))
<1> DEFINE t == TrimSpace(raw)
<1>1. t \in Seq(X) /\ t # <<>> /\ t[1] = raw[1]
  BY TrimBegins
<1>2. ExtractJSONBlock(raw) = t
  BY NoBlock
<1> HIDE DEF t
<1>3. ~Parses(t) /\ ~Parses(Fixed(t))
  BY <1>1, NoObjectFixed
<1> QED
  BY <1>2, <1>3

\* White space before a text is removed.
LEMMA TrimFront ==
  ASSUME NEW X, NEW t \in Seq(X), NEW b \in 1 .. Len(t), t[b] # "space", t[Len(t)] # "space",
         \A k \in 1 .. (b - 1) : t[k] = "space"
  PROVE  TrimSpace(t) = SubSeq(t, b, Len(t))
<1> DEFINE N == Len(t)
           solid == {i \in 1 .. N : t[i] # "space"}
           low == Min(solid)
           high == Max(solid)
<1>1. N \in Nat /\ b \in Nat /\ N \in 1 .. N
  <2>1. N \in Nat
    BY NonEmpty
  <2> HIDE DEF N
  <2> QED
    BY <2>1 DEF N
<1>2. b \in solid /\ N \in solid /\ solid \subseteq 1 .. N
  BY <1>1
<1>3. solid # {}
  BY <1>2
<1>4. \A i \in solid : i \notin 1 .. (b - 1)
  OBVIOUS
<1>5. /\ low \in solid /\ \A i \in solid : low <= i
      /\ high \in solid /\ \A i \in solid : i <= high
  <2> HIDE DEF solid, N
  <2> QED
    BY <1>1, <1>2, <1>3, Extremes
<1>6. low = b
  <2>1. low \in 1 .. N /\ low \notin 1 .. (b - 1) /\ low <= b
    BY <1>2, <1>4, <1>5
  <2> HIDE DEF low, solid, N
  <2> QED
    BY <1>1, <2>1
<1>7. high = N
  <2>1. high \in 1 .. N /\ N <= high
    BY <1>2, <1>5
  <2> HIDE DEF high, solid, N
  <2> QED
    BY <1>1, <2>1
<1>8. TrimSpace(t) = SubSeq(t, low, high)
  BY <1>3 DEF TrimSpace
<1> HIDE DEF low, high
<1> QED
  BY <1>6, <1>7, <1>8

\* Prose around an answer, or a fence before it that is not closed.
LEMMA Unblocked ==
  ASSUME NEW w \in Seq(Characters), NEW s \in Seq(Characters), NEW v \in Seq(Characters),
         Prose(<<w, v>>) \/ (Fenced(<<w, v>>) /\ v = <<>>),
         \A k \in 1 .. Len(s) : s[k] \notin Fences, NEW raw, Parts(Characters, w, s, v, raw)
  PROVE  ~Parses(ExtractJSONBlock(raw)) /\ ~Parses(Fixed(ExtractJSONBlock(raw)))
<1> DEFINE a == Len(w)
           n == Len(s)
           m == Len(v)
<1>1. a \in Nat /\ n \in Nat /\ m \in Nat
  BY NonEmpty
<1>2. /\ raw \in Seq(Characters) /\ Len(raw) = a + n + m
      /\ \A k \in 1 .. a : raw[k] = w[k]
      /\ \A k \in 1 .. n : raw[a + k] = s[k]
      /\ \A k \in 1 .. m : raw[a + n + k] = v[k]
  BY DEF Parts
<1>3. /\ w # <<>> /\ w[1] \notin {"space", "lbrace", "comma"}
      /\ \A k \in 2 .. a : w[k] \notin Fences
      /\ \A k \in 1 .. m : v[k] \notin Fences
  <2>1. DOMAIN w = 1 .. a /\ DOMAIN v = 1 .. m
    OBVIOUS
  <2>2. CASE Prose(<<w, v>>)
    <3>1. /\ w # <<>> /\ w[1] \notin {"space", "comma"}
          /\ \A i \in 1 .. a : w[i] \notin Fences \cup {"lbrace"}
          /\ \A i \in 1 .. m : v[i] \notin Fences
      BY <2>1, <2>2 DEF Prose
    <3>2. 1 \in 1 .. a /\ 2 .. a \subseteq 1 .. a
      BY <1>1, <3>1, NonEmpty
    <3> QED
      BY <3>1, <3>2
  <2>3. CASE Fenced(<<w, v>>) /\ v = <<>>
    <3>1. w # <<>> /\ w[1] \in Fences /\ \A i \in 2 .. a : w[i] = "space"
      BY <2>3 DEF Fenced
    <3>2. 1 .. m = {}
      BY <2>3
    <3> QED
      BY <3>1, <3>2 DEF Fences
  <2> QED
    BY <2>2, <2>3
<1>4. a >= 1
  BY <1>3, NonEmpty
<1> HIDE DEF a, n, m
<1>5. ASSUME NEW i \in 2 .. Len(raw) PROVE raw[i] \notin Fences
  <2>1. CASE i <= a
    <3>1. i \in 2 .. a /\ i \in 1 .. a
      BY <1>1, <1>2, <2>1
    <3> QED
      BY <1>2, <1>3, <3>1
  <2>2. CASE i > a /\ i <= a + n
    <3> DEFINE k == i - a
    <3>1. k \in 1 .. n /\ a + k = i
      BY <1>1, <1>2, <2>2
    <3> HIDE DEF k
    <3>2. raw[a + k] = s[k] /\ s[k] \notin Fences
      BY <1>2, <3>1 DEF n
    <3> QED
      BY <3>1, <3>2
  <2>3. CASE i > a + n
    <3> DEFINE k == i - (a + n)
    <3>1. k \in 1 .. m /\ a + n + k = i
      BY <1>1, <1>2, <2>3
    <3> HIDE DEF k
    <3>2. raw[a + n + k] = v[k] /\ v[k] \notin Fences
      BY <1>2, <1>3, <3>1
    <3> QED
      BY <3>1, <3>2
  <2> QED
    BY <1>1, <1>2, <2>1, <2>2, <2>3
<1>6. raw # <<>> /\ raw[1] = w[1]
  <2>1. 1 \in 1 .. a /\ Len(raw) >= 1
    BY <1>1, <1>2, <1>4
  <2> QED
    BY <1>2, <2>1, NonEmpty
<1> QED
  BY <1>2, <1>3, <1>5, <1>6, NoAttempt

\* An answer in a block.
LEMMA BlockAround ==
  ASSUME NEW w \in Seq(Characters), NEW s \in Seq(Characters), NEW v \in Seq(Characters),
         Fenced(<<w, v>>), v # <<>>, s # <<>>, s[1] = "lbrace", s[Len(s)] # "space",
         \A k \in 1 .. Len(s) : s[k] \notin Fences,
         NEW raw, Parts(Characters, w, s, v, raw)
  PROVE  ExtractJSONBlock(raw) = s
<1> DEFINE a == Len(w)
           n == Len(s)
           m == Len(v)
           e == a + n + 1
           N == Len(raw)
           t == SubSeq(raw, 2, e - 1)
<1>1. a \in Nat /\ n \in Nat /\ m \in Nat
  BY NonEmpty
<1>2. /\ raw \in Seq(Characters) /\ N = a + n + m
      /\ \A k \in 1 .. a : raw[k] = w[k]
      /\ \A k \in 1 .. n : raw[a + k] = s[k]
      /\ \A k \in 1 .. m : raw[a + n + k] = v[k]
  BY DEF Parts
<1>3. /\ w # <<>> /\ w[1] \in Fences /\ \A k \in 2 .. a : w[k] = "space"
      /\ v[1] \in Fences
      /\ w[1] = "fence" => \A k \in 1 .. m : v[k] # "json"
  <2>1. DOMAIN v = 1 .. m
    OBVIOUS
  <2> QED
    BY <2>1 DEF Fenced
<1>4. a >= 1 /\ n >= 1 /\ m >= 1
  BY <1>3, NonEmpty
<1>5. s[n] # "space" /\ \A k \in 1 .. n : s[k] \notin Fences
  OBVIOUS
<1> HIDE DEF a, n, m, N
<1>6. N \in Nat /\ e \in 2 .. N /\ N >= 1 /\ e - 1 = a + n /\ e \in Nat
  BY <1>1, <1>2, <1>4
<1>7. raw[1] = w[1]
  <2>1. 1 \in 1 .. a
    BY <1>1, <1>4
  <2> QED
    BY <1>2, <2>1
<1>8. raw[e] \in Fences
  <2>1. 1 \in 1 .. m /\ a + n + 1 = e
    BY <1>1, <1>4
  <2>2. raw[a + n + 1] = v[1]
    BY <1>2, <2>1
  <2> QED
    BY <1>3, <2>1, <2>2
<1> HIDE DEF e
<1>9. ASSUME NEW k \in 2 .. a PROVE raw[k] = "space"
  <2>1. k \in 1 .. a
    BY <1>1
  <2> QED
    BY <1>2, <1>3, <2>1
<1>10. \A k \in 1 .. n : raw[a + k] = s[k] /\ raw[a + k] \notin Fences
  BY <1>2, <1>5
<1>11. ASSUME NEW k \in 2 .. (e - 1) PROVE raw[k] \notin Fences
  <2>1. CASE k <= a
    <3>1. k \in 2 .. a
      BY <1>1, <2>1
    <3> QED
      BY <1>9, <3>1 DEF Fences
  <2>2. CASE k > a
    <3> DEFINE j == k - a
    <3>1. j \in 1 .. n /\ a + j = k
      BY <1>1, <1>6, <2>2
    <3> HIDE DEF j
    <3>2. raw[a + j] \notin Fences
      BY <1>10, <3>1
    <3> QED
      BY <3>1, <3>2
  <2>3. k <= a \/ k > a
    BY <1>1
  <2> QED
    BY <2>1, <2>2, <2>3
<1>12. ASSUME raw[1] = "fence", NEW k \in 1 .. N PROVE raw[k] # "json"
  <2>1. CASE k = 1
    BY <1>12, <2>1
  <2>2. CASE k # 1 /\ k <= e - 1
    <3>1. k \in 2 .. (e - 1)
      BY <1>6, <2>2
    <3> QED
      BY <1>11, <3>1 DEF Fences
  <2>3. CASE k > e - 1
    <3> DEFINE j == k - (a + n)
    <3>1. j \in 1 .. m /\ a + n + j = k
      BY <1>1, <1>2, <1>6, <2>3
    <3> HIDE DEF j
    <3>2. raw[a + n + j] = v[j] /\ v[j] # "json"
      BY <1>2, <1>3, <1>7, <1>12, <3>1
    <3> QED
      BY <3>1, <3>2
  <2>4. k = 1 \/ (k # 1 /\ k <= e - 1) \/ k > e - 1
    BY <1>6
  <2> QED
    BY <2>1, <2>2, <2>3, <2>4
<1>13. /\ t \in Seq(Characters) /\ Len(t) = a + n - 1
       /\ \A k \in 1 .. a + n - 1 : t[k] = raw[k + 1]
  <2>1. \A k \in 2 .. (e - 1) : raw[k] \in Characters
    <3>1. \A k \in 2 .. (e - 1) : k \in 1 .. N
      BY <1>6
    <3> QED
      BY <1>2, <3>1 DEF N
  <2>2. 2 <= e - 1 /\ e - 1 - 2 + 1 = a + n - 1 /\ e - 1 \in Int /\ 2 \in Int
    BY <1>1, <1>4, <1>6
  <2>3. /\ t \in Seq(Characters) /\ Len(t) = a + n - 1
        /\ \A k \in 1 .. e - 1 - 2 + 1 : t[k] = raw[2 + k - 1]
    <3> DEFINE l == e - 1
    <3>1. 2 <= l /\ l \in Int /\ 2 \in Int /\ l - 2 + 1 = a + n - 1
      BY <2>2
    <3>2. \A k \in 2 .. l : raw[k] \in Characters
      BY <2>1
    <3> HIDE DEF l
    <3>3. /\ SubSeq(raw, 2, l) \in Seq(Characters) /\ Len(SubSeq(raw, 2, l)) = l - 2 + 1
          /\ \A k \in 1 .. l - 2 + 1 : SubSeq(raw, 2, l)[k] = raw[2 + k - 1]
      BY <3>1, <3>2, SubSeqProperties
    <3> QED
      BY <3>1, <3>3 DEF l
  <2> HIDE DEF t
  <2>4. ASSUME NEW k \in 1 .. a + n - 1 PROVE t[k] = raw[k + 1]
    <3>1. k \in 1 .. e - 1 - 2 + 1 /\ 2 + k - 1 = k + 1
      BY <1>1, <2>2
    <3>2. t[k] = raw[2 + k - 1]
      BY <2>3, <3>1
    <3> QED
      BY <3>1, <3>2
  <2> QED
    BY <2>3, <2>4
<1> HIDE DEF t
<1>14. ASSUME NEW j \in 1 .. n PROVE t[a - 1 + j] = s[j]
  <2> DEFINE k == a - 1 + j
  <2>1. k \in 1 .. a + n - 1 /\ k + 1 = a + j
    BY <1>1, <1>4
  <2> HIDE DEF k
  <2>2. t[k] = raw[a + j]
    <3>1. t[k] = raw[k + 1]
      BY <1>13, <2>1
    <3> QED
      BY <2>1, <3>1
  <2>3. t[k] = s[j]
    BY <1>10, <2>2
  <2> QED
    BY <2>3 DEF k
<1>15. a \in 1 .. Len(t)
  BY <1>1, <1>4, <1>13
<1>16. t[a] # "space"
  <2>1. 1 \in 1 .. n /\ a - 1 + 1 = a
    BY <1>1, <1>4
  <2>2. t[a - 1 + 1] = s[1]
    BY <1>14, <2>1
  <2> QED
    BY <2>1, <2>2
<1>17. t[Len(t)] # "space"
  <2>1. n \in 1 .. n /\ a - 1 + n = Len(t)
    BY <1>1, <1>4, <1>13
  <2>2. t[a - 1 + n] = s[n]
    BY <1>14, <2>1
  <2> QED
    BY <1>5, <2>1, <2>2
<1>18. ASSUME NEW k \in 1 .. (a - 1) PROVE t[k] = "space"
  <2>1. k \in 1 .. a + n - 1 /\ k + 1 \in 2 .. a
    BY <1>1
  <2>2. t[k] = raw[k + 1]
    BY <1>13, <2>1
  <2> QED
    BY <1>9, <2>1, <2>2
<1>19. TrimSpace(t) = SubSeq(t, a, Len(t))
  BY <1>13, <1>15, <1>16, <1>17, <1>18, TrimFront
<1>20. SubSeq(t, a, Len(t)) = s
  <2> DEFINE c == SubSeq(t, a, Len(t))
  <2>1. \A k \in a .. Len(t) : t[k] \in Characters
    <3>1. \A k \in a .. Len(t) : k \in 1 .. Len(t)
      BY <1>1, <1>4, <1>13
    <3> QED
      BY <1>13, <3>1
  <2>2. a \in Int /\ Len(t) \in Int /\ a <= Len(t) /\ Len(t) - a + 1 = n
    BY <1>1, <1>4, <1>13
  <2>3. /\ c \in Seq(Characters) /\ Len(c) = n
        /\ \A k \in 1 .. n : c[k] = t[a + k - 1]
    BY <2>1, <2>2, SubSeqProperties
  <2> HIDE DEF c
  <2>4. ASSUME NEW k \in 1 .. n PROVE c[k] = s[k]
    <3>1. a + k - 1 = a - 1 + k
      BY <1>1
    <3>2. c[k] = t[a - 1 + k]
      BY <2>3, <3>1
    <3> QED
      BY <1>14, <3>2
  <2>5. c = s
    BY <2>3, <2>4, SeqEqual DEF n
  <2> QED
    BY <2>5 DEF c
<1>21. s = TrimSpace(SubSeq(raw, 2, e - 1))
  BY <1>19, <1>20 DEF t
<1>22. raw[1] \in Fences /\ (raw[1] = "fence" => \A i \in 1 .. Len(raw) : raw[i] # "json")
  BY <1>3, <1>7, <1>12 DEF N
<1>23. raw \in Seq(Characters) /\ Len(raw) >= 1 /\ e \in 2 .. Len(raw)
  BY <1>2, <1>6 DEF N
<1>24. \A k \in 2 .. (e - 1) : raw[k] \notin Fences
  BY <1>11
<1>25. TrimSpace(SubSeq(raw, 2, e - 1)) # <<>> /\ TrimSpace(SubSeq(raw, 2, e - 1))[1] = "lbrace"
  BY <1>21
<1>26. ExtractJSONBlock(raw) = TrimSpace(SubSeq(raw, 2, e - 1))
  BY <1>8, <1>22, <1>23, <1>24, <1>25, BlockFound
<1> QED
  BY <1>21, <1>26

-----------------------------------------------------------------------------
(* Answers *)

\* The object as it is, or with a comma before one of its closers.
Intact(s, whole) ==
  s = whole \/ \E i \in Outside(whole, {"rbrace", "rbrack"}) : s = LoosenedAt(whole, i)

LEMMA TokensAreCharacters == Tokens \subseteq Characters /\ "json" \notin Tokens
BY RepairAssumption DEF Tokens, Characters

LEMMA InCharacters ==
  ASSUME NEW s \in Seq(Tokens \cup {"space"})
  PROVE  s \in Seq(Characters)
<1> DEFINE X == Tokens \cup {"space"}
<1>1. X \subseteq Characters
  BY TokensAreCharacters DEF Characters
<1> HIDE DEF X
<1>2. s \in Seq(X)
  BY DEF X
<1> QED
  BY <1>1, <1>2, SeqMonotonic

LEMMA OutsideCloser ==
  ASSUME NEW r \in Objects, NEW f, Follows(f, r), NEW i \in Outside(r, {"rbrace", "rbrack"})
  PROVE  i \in 1 .. Len(r) /\ r[i] \in Closers /\ ~f[i - 1].str
<1>1. r \in Seq(Tokens) /\ Len(r) \in Nat
  BY ObjectsFollowed, NonEmpty
<1>2. i \in 1 .. Len(r) /\ r[i] \in Closers /\ ~Scan(r)[i - 1].inString
  BY DEF Outside, Closers
<1>3. Strictly(r, f)
  <2>1. Begins(r, r)
    BY <1>1, Itself
  <2> QED
    BY <1>1, <2>1, BeginningRead
<1>4. i - 1 \in 0 .. Len(r)
  BY <1>1, <1>2
<1>5. Scan(r)[i - 1].inString = f[i - 1].str
  BY <1>1, <1>3, <1>4, StrictlyAgree
<1> QED
  BY <1>2, <1>5

LEMMA IntactParsed ==
  ASSUME NEW whole \in Objects, NEW s, Intact(s, whole)
  PROVE  /\ Parses(s) => Compact(s) = whole
         /\ Compact(Fixed(s)) = whole
<1>1. CASE s = whole
  BY <1>1, WholeParsed
<1>2. ASSUME NEW i \in Outside(whole, {"rbrace", "rbrack"}), s = LoosenedAt(whole, i)
      PROVE  ~Parses(s) /\ Compact(Fixed(s)) = whole
  <2>1. PICK f : Follows(f, whole)
    BY ObjectsFollowed
  <2>2. i \in 1 .. Len(whole) /\ whole[i] \in Closers /\ ~f[i - 1].str
    BY <2>1, OutsideCloser
  <2> QED
    BY <1>2, <2>1, <2>2, LoosenedParsed
<1> QED
  BY <1>1, <1>2 DEF Intact

LEMMA IntactRead ==
  ASSUME NEW whole \in Objects, "fence" \notin ToSet(whole), NEW s, Intact(s, whole)
  PROVE  /\ s \in Seq(Characters) /\ s # <<>> /\ s[1] = "lbrace" /\ s[Len(s)] = "rbrace"
         /\ \A k \in 1 .. Len(s) : s[k] \notin Fences
         /\ \E g : /\ ReadsTo(s, Len(s), g) /\ g[Len(s)] = Start
                   /\ \A k \in 1 .. (Len(s) - 1) : g[k].depth >= 1
<1> DEFINE N == Len(whole)
<1>1. whole \in Seq(Tokens) /\ N >= 2 /\ N \in Nat /\ whole[1] = "lbrace" /\ whole[N] = "rbrace"
  BY ObjectsFollowed, NonEmpty
<1>2. PICK f : Follows(f, whole)
  BY ObjectsFollowed
<1>3. whole \in Seq(Characters)
  BY <1>1, TokensAreCharacters, SeqMonotonic
<1>4. \A k \in 1 .. N : whole[k] \notin Fences
  <2>1. \A k \in 1 .. N : whole[k] \in Tokens /\ whole[k] \in ToSet(whole)
    BY <1>1 DEF ToSet
  <2> QED
    BY <2>1, TokensAreCharacters DEF Fences
<1>5. CASE s = whole
  <2>1. N >= 1
    <3> HIDE DEF N
    <3> QED
      BY <1>1
  <2>2. whole # <<>>
    BY <1>1, <2>1, NonEmpty
  <2>3. ReadsTo(whole, N, f)
    BY <1>2 DEF Follows, ReadsTo, Loosely
  <2>4. f[N] = Start /\ \A k \in 1 .. (N - 1) : f[k].depth >= 1
    BY <1>2 DEF Follows
  <2> QED
    BY <1>1, <1>3, <1>4, <1>5, <2>2, <2>3, <2>4
<1>6. ASSUME NEW i \in Outside(whole, {"rbrace", "rbrack"}), s = LoosenedAt(whole, i)
      PROVE  /\ s \in Seq(Characters) /\ s # <<>> /\ s[1] = "lbrace" /\ s[Len(s)] = "rbrace"
             /\ \A k \in 1 .. Len(s) : s[k] \notin Fences
             /\ \E g : /\ ReadsTo(s, Len(s), g) /\ g[Len(s)] = Start
                       /\ \A k \in 1 .. (Len(s) - 1) : g[k].depth >= 1
  <2>1. i \in 1 .. N /\ whole[i] \in Closers /\ ~f[i - 1].str
    BY <1>2, OutsideCloser
  <2>2. s \in Seq(Tokens \cup {"space"}) /\ Widened(whole, s, i, 2)
    BY <1>1, <1>6, <2>1, LoosenedIs
  <2>3. PICK g : Stretches(f, g, whole, s, i, 2)
    <3>1. 2 \in Nat
      OBVIOUS
    <3> QED
      BY <1>2, <2>1, <2>2, <3>1, WidenedRead
  <2>4. s \in Seq(Characters)
    BY <2>2, InCharacters
  <2>5. i # 1 /\ i \in Nat /\ i <= N /\ i >= 1
    BY <1>1, <2>1 DEF Closers
  <2>6. /\ Len(s) = N + 2
        /\ \A k \in 1 .. (i - 1) : s[k] = whole[k]
        /\ \A k \in i .. N : s[k + 2] = whole[k]
        /\ \A k \in i .. (i + 2 - 1) : s[k] \in {"space", "comma"}
    BY <2>2 DEF Widened
  <2> HIDE DEF N
  <2>7. 1 \in 1 .. (i - 1) /\ N \in i .. N /\ N + 2 >= 1
    BY <1>1, <2>5
  <2>8. s # <<>> /\ s[1] = "lbrace"
    BY <1>1, <2>4, <2>6, <2>7, NonEmpty
  <2>9. s[Len(s)] = "rbrace"
    BY <1>1, <2>6, <2>7
  <2>10. ASSUME NEW k \in 1 .. Len(s) PROVE s[k] \notin Fences
    <3>1. CASE k < i
      <4>1. k \in 1 .. (i - 1) /\ k \in 1 .. N
        BY <1>1, <2>5, <3>1
      <4> QED
        BY <1>4, <2>6, <4>1
    <3>2. CASE k >= i /\ k < i + 2
      <4>1. k \in i .. (i + 2 - 1)
        BY <2>5, <3>2
      <4> QED
        BY <2>6, <4>1 DEF Fences
    <3>3. CASE k >= i + 2
      <4> DEFINE j == k - 2
      <4>1. j \in i .. N /\ j \in 1 .. N /\ j + 2 = k
        BY <1>1, <2>5, <2>6, <3>3
      <4> HIDE DEF j
      <4>2. s[j + 2] = whole[j] /\ whole[j] \notin Fences
        BY <1>4, <2>6, <4>1
      <4> QED
        BY <4>1, <4>2
    <3> QED
      BY <2>5, <3>1, <3>2, <3>3
  <2>11. /\ ReadsTo(s, Len(s), g) /\ g[Len(s)] = Start
         /\ \A k \in 1 .. (Len(s) - 1) : g[k].depth >= 1
    BY <2>3 DEF Stretches
  <2> QED
    BY <2>4, <2>8, <2>9, <2>10, <2>11
<1>7. CASE \E i \in Outside(whole, {"rbrace", "rbrack"}) : s = LoosenedAt(whole, i)
  BY <1>6, <1>7
<1> QED
  BY <1>5, <1>7 DEF Intact

\* What stands around an answer.
Envelope(w, v) == (w = <<>> /\ v = <<>>) \/ <<w, v>> \in Wrappings

LEMMA EnvelopeIs ==
  ASSUME NEW w, NEW v, Envelope(w, v)
  PROVE  /\ w \in Seq(Characters) /\ v \in Seq(Characters)
         /\ \A k \in 1 .. Len(w) : w[k] # "lbrace"
         /\ \/ w = <<>> /\ v = <<>>
            \/ Prose(<<w, v>>) \/ (Fenced(<<w, v>>) /\ v = <<>>)
            \/ Fenced(<<w, v>>) /\ v # <<>>
<1>1. CASE w = <<>> /\ v = <<>>
  BY <1>1
<1>2. CASE <<w, v>> \in Wrappings
  <2>1. <<w, v>> \in Seq(Characters) \X Seq(Characters) /\ (Prose(<<w, v>>) \/ Fenced(<<w, v>>))
    BY <1>2, AlgorithmsAssumption
  <2>2. w \in Seq(Characters) /\ v \in Seq(Characters)
    BY <2>1
  <2>3. ASSUME NEW k \in 1 .. Len(w) PROVE w[k] # "lbrace"
    <3>1. CASE Prose(<<w, v>>)
      <4>1. DOMAIN w = 1 .. Len(w)
        BY <2>2
      <4> QED
        BY <3>1, <4>1 DEF Prose
    <3>2. CASE Fenced(<<w, v>>)
      <4>1. k = 1 \/ k \in 2 .. Len(w)
        BY <2>2, NonEmpty
      <4> QED
        BY <3>2, <4>1 DEF Fenced, Fences
    <3> QED
      BY <2>1, <3>1, <3>2
  <2> QED
    BY <2>1, <2>2, <2>3
<1> QED
  BY <1>1, <1>2 DEF Envelope

\* An answer that was only loosened or wrapped.
LEMMA WholeAnswer ==
  ASSUME NEW whole \in Objects, "fence" \notin ToSet(whole), NEW s, Intact(s, whole),
         NEW w, NEW v, Envelope(w, v), NEW raw, Parts(Characters, w, s, v, raw)
  PROVE  ParseDiagnosisJSON(raw) = whole
<1> DEFINE a == ExtractJSONBlock(raw)
           b == Fixed(a)
           o == ExtractJSONObject(raw)
           c == Fixed(o)
           result == ParseDiagnosisJSON(raw)
<1>1. /\ s \in Seq(Characters) /\ s # <<>> /\ s[1] = "lbrace" /\ s[Len(s)] = "rbrace"
      /\ \A k \in 1 .. Len(s) : s[k] \notin Fences
  BY IntactRead
<1>2. PICK g : /\ ReadsTo(s, Len(s), g) /\ g[Len(s)] = Start
               /\ \A k \in 1 .. (Len(s) - 1) : g[k].depth >= 1
  BY IntactRead
<1>3. /\ Parses(s) => Compact(s) = whole
      /\ Compact(Fixed(s)) = whole
  BY IntactParsed
<1>4. /\ w \in Seq(Characters) /\ v \in Seq(Characters)
      /\ \A k \in 1 .. Len(w) : w[k] # "lbrace"
      /\ \/ w = <<>> /\ v = <<>>
         \/ Prose(<<w, v>>) \/ (Fenced(<<w, v>>) /\ v = <<>>)
         \/ Fenced(<<w, v>>) /\ v # <<>>
  BY EnvelopeIs
<1>5. o = s
  BY <1>1, <1>2, <1>4, ObjectAround
<1>6. a = s \/ (~Parses(a) /\ ~Parses(b))
  <2>1. CASE w = <<>> /\ v = <<>>
    <3>1. raw = s
      BY <1>1, <2>1, NothingAround
    <3>2. \A i \in 2 .. Len(s) : s[i] \notin Fences
      <4>1. \A i \in 2 .. Len(s) : i \in 1 .. Len(s)
        BY <1>1, NonEmpty
      <4> QED
        BY <1>1, <4>1
    <3>3. a = TrimSpace(s)
      BY <1>1, <3>1, <3>2, NoBlock
    <3>4. TrimSpace(s) = s
      BY <1>1, TrimNothing
    <3> QED
      BY <3>3, <3>4
  <2>2. CASE Prose(<<w, v>>) \/ (Fenced(<<w, v>>) /\ v = <<>>)
    BY <1>1, <1>4, <2>2, Unblocked
  <2>3. CASE Fenced(<<w, v>>) /\ v # <<>>
    BY <1>1, <1>4, <2>3, BlockAround
  <2> QED
    BY <1>4, <2>1, <2>2, <2>3
<1>7. result = IF Parses(a) THEN Compact(a)
               ELSE IF Parses(b) THEN Compact(b)
               ELSE IF Parses(c) THEN Compact(c)
               ELSE Error
  BY Parsed
<1>8. Parses(Fixed(s))
  BY <1>3 DEF Parses
<1>9. c = Fixed(s) /\ (a = s => b = Fixed(s))
  BY <1>5
<1> HIDE DEF a, b, c, o, result
<1>10. result = whole
  BY <1>3, <1>6, <1>7, <1>8, <1>9
<1> QED
  BY <1>10 DEF result

\* An answer that was cut off.
LEMMA CutAnswer ==
  ASSUME NEW whole \in Objects, "fence" \notin ToSet(whole),
         NEW p \in Seq(Tokens), Begins(p, whole), Len(p) >= 1, Len(p) < Len(whole),
         NEW w, Envelope(w, <<>>), NEW raw, Parts(Characters, w, p, <<>>, raw), NEW t, t = TrimSpace(p)
  PROVE  IF Completions(t) = {} THEN ParseDiagnosisJSON(raw) = Error
         ELSE ParseDiagnosisJSON(raw) \in Completions(t)
<1>1. whole \in Seq(Tokens) /\ whole[1] = "lbrace" /\ Len(whole) \in Nat /\ Len(p) \in Nat
  BY ObjectsFollowed, NonEmpty
<1>2. PICK f : Follows(f, whole)
  BY ObjectsFollowed
<1>3. p \in Seq(Characters) /\ p # <<>> /\ 1 \in 1 .. Len(p)
  BY TokensAreCharacters, SeqMonotonic, NonEmpty
<1>4. p[1] = "lbrace"
  BY <1>1, <1>3 DEF Begins
<1>5. ASSUME NEW k \in 1 .. Len(p) PROVE p[k] \notin Fences
  <2>1. k \in 1 .. Len(whole)
    BY <1>1
  <2>2. p[k] \in Tokens /\ p[k] \in ToSet(whole)
    <3>1. p[k] = whole[k]
      BY DEF Begins
    <3> QED
      BY <1>1, <2>1, <3>1 DEF ToSet
  <2> QED
    BY <2>2, TokensAreCharacters DEF Fences
<1>6. ReadsTo(p, Len(p), f)
  <2>1. Strictly(p, f)
    BY <1>1, <1>2, BeginningRead
  <2> QED
    BY <2>1 DEF Strictly, ReadsTo, Loosely
<1>7. \A k \in 1 .. Len(p) : f[k].depth >= 1
  <2>1. \A k \in 1 .. Len(p) : k \in 1 .. (Len(whole) - 1)
    BY <1>1
  <2> QED
    BY <1>2, <2>1 DEF Follows
<1>8. /\ w \in Seq(Characters) /\ <<>> \in Seq(Characters)
      /\ \A k \in 1 .. Len(w) : w[k] # "lbrace"
      /\ w = <<>> \/ Prose(<<w, <<>>>>) \/ Fenced(<<w, <<>>>>)
  BY EnvelopeIs
<1>9. ExtractJSONObject(raw) = p
  BY <1>3, <1>4, <1>6, <1>7, <1>8, BeginningAround
<1>10. \/ ExtractJSONBlock(raw) = t
       \/ ~Parses(ExtractJSONBlock(raw)) /\ ~Parses(Fixed(ExtractJSONBlock(raw)))
  <2>1. CASE w = <<>>
    <3>1. raw = p
      BY <1>3, <2>1, NothingAround
    <3>2. \A i \in 2 .. Len(p) : p[i] \notin Fences
      <4>1. \A i \in 2 .. Len(p) : i \in 1 .. Len(p)
        BY <1>1
      <4> QED
        BY <1>5, <4>1
    <3> QED
      BY <1>3, <3>1, <3>2, NoBlock
  <2>2. CASE Prose(<<w, <<>>>>) \/ Fenced(<<w, <<>>>>)
    BY <1>3, <1>5, <1>8, <2>2, Unblocked
  <2> QED
    BY <1>8, <2>1, <2>2
<1> QED
  BY <1>9, <1>10, CutResult
=============================================================================
