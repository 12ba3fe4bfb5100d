---------------------------- MODULE LineCodecProofs ----------------------------
(***************************************************************************)
(* What the encoder and the parser are to each other, for every spelling   *)
(* of the tables' words, every bound of a field and of a line, and every   *)
(* value: what is written is read as it was meant (MessagesAreRead), and   *)
(* what is read has a line of its own, no longer than the one it came in,  *)
(* that is read the same (AcceptedIsWrittenAgain).                         *)
(*                                                                         *)
(* A number is followed digit by digit and a text byte by byte: each way,  *)
(* what is left of the value is what is left of the scan.  A line is its   *)
(* tokens, joined and cut (IsLineOf, TokensAreCut).  A line that is heard  *)
(* may have its fields in any order, and its texts with escapes they need  *)
(* not have: it is no shorter, since its tokens do not overlap and each is *)
(* no shorter than the same field's, written (CellsFit).                   *)
(***************************************************************************)
EXTENDS LineCodec, TLAPS, FiniteSetTheorems, NaturalsInduction

-----------------------------------------------------------------------------
(* Induction. *)

(* Of some numbers one is the least. *)
LEMMA LeastIsOne ==
  ASSUME NEW S \in SUBSET Nat, S # {}
  PROVE  Min(S) \in S /\ \A n \in S : Min(S) <= n
<1>1. PICK least \in S : \A n \in S : <<n, least>> \notin OpToRel(<, Nat)
  BY NatLessThanWellFounded, WFMin
<1>2. \A n \in S : least <= n
  <2>1. \A n \in S : ~(n < least)
    BY <1>1 DEF OpToRel
  <2>2. QED
    BY <2>1
<1>3. QED
  BY <1>2 DEF Min

(* A set that holds each number whose predecessors it holds, holds all.    *)
LEMMA ByPredecessors ==
  ASSUME NEW S, \A n \in Nat : (\A m \in 0..(n - 1) : m \in S) => n \in S
  PROVE  \A n \in Nat : n \in S
<1> DEFINE lacking == {n \in Nat : n \notin S}
<1> SUFFICES ASSUME lacking # {} PROVE FALSE
  OBVIOUS
<1>1. /\ Min(lacking) \in Nat /\ Min(lacking) \notin S
      /\ \A n \in lacking : Min(lacking) <= n
  <2>1. lacking \in SUBSET Nat
    OBVIOUS
  <2>2. QED
    BY <2>1, LeastIsOne
<1>2. \A m \in 0..(Min(lacking) - 1) : m \in S
  BY <1>1
<1>3. QED
  BY <1>1, <1>2

(* A set that holds 0 and, below n, with each number the next, holds all   *)
(* numbers up to n.                                                        *)
LEMMA ByNext ==
  ASSUME NEW S, NEW n \in Nat, 0 \in S, \A i \in 0..(n - 1) : i \in S => i + 1 \in S
  PROVE  \A i \in 0..n : i \in S
<1> DEFINE T == {i \in Nat : i \in 0..n => i \in S}
<1>1. ASSUME NEW i \in Nat, \A m \in 0..(i - 1) : m \in T PROVE i \in T
  <2>1. CASE i = 0
    BY <2>1
  <2>2. CASE i # 0
    <3>1. i - 1 \in 0..(i - 1) /\ i - 1 \in T
      BY <1>1, <2>2
    <3>2. i \in 0..n => i - 1 \in 0..(n - 1) /\ i = (i - 1) + 1
      BY <2>2
    <3>3. QED
      BY <3>1, <3>2
  <2>3. QED
    BY <2>1, <2>2
<1> HIDE DEF T
<1>2. \A i \in Nat : i \in T
  BY <1>1, ByPredecessors
<1>3. QED
  BY <1>2 DEF T

-----------------------------------------------------------------------------
(* Recursive functions. *)

(* A run of n steps: what a recursive function over 0 to n is.             *)
IsRun(run, X, base, step, n) ==
    /\ run \in [0..n -> X]
    /\ run[0] = base
    /\ \A i \in 0..(n - 1) : run[i + 1] = step[<<run[i], i + 1>>]

(* Every function that takes a step has its runs. *)
LEMMA RunExists ==
  ASSUME NEW X, NEW base \in X, NEW n \in Nat,
         NEW step \in [X \X (1..n) -> X]
  PROVE  \E run : IsRun(run, X, base, step, n)
<1> DEFINE S == {m \in 0..n : \E run : IsRun(run, X, base, step, m)}
<1>1. 0 \in S
  <2>1. IsRun([i \in 0..0 |-> base], X, base, step, 0)
    BY DEF IsRun
  <2>2. QED
    BY <2>1
<1>2. ASSUME NEW m \in 0..(n - 1), m \in S PROVE m + 1 \in S
  <2>1. PICK run : IsRun(run, X, base, step, m)
    BY <1>2
  <2> DEFINE next == [i \in 0..(m + 1) |->
                        IF i = m + 1 THEN step[<<run[m], m + 1>>] ELSE run[i]]
  <2>2. run[m] \in X /\ m + 1 \in 1..n
    BY <2>1 DEF IsRun
  <2>3. step[<<run[m], m + 1>>] \in X
    BY <2>2
  <2>4. next \in [0..(m + 1) -> X]
    BY <2>1, <2>3 DEF IsRun
  <2>5. next[0] = base
    BY <2>1 DEF IsRun
  <2>6. /\ next[m + 1] = step[<<run[m], m + 1>>]
        /\ \A i \in 0..m : next[i] = run[i]
    OBVIOUS
  <2> HIDE DEF next
  <2>7. ASSUME NEW i \in 0..((m + 1) - 1) PROVE next[i + 1] = step[<<next[i], i + 1>>]
    <3>1. CASE i = m
      BY <2>6, <3>1
    <3>2. CASE i # m
      <4>1. i \in 0..(m - 1) /\ i \in 0..m /\ i + 1 \in 0..m
        BY <3>2
      <4>2. QED
        BY <2>1, <2>6, <4>1 DEF IsRun
    <3>3. QED
      BY <3>1, <3>2
  <2>8. IsRun(next, X, base, step, m + 1)
    BY <2>4, <2>5, <2>7 DEF IsRun
  <2>9. QED
    BY <2>8
<1> HIDE DEF S
<1>3. n \in S
  BY <1>1, <1>2, ByNext
<1>4. QED
  BY <1>3 DEF S

(* The sequences FlattenSeq joins, one after the other. *)
IsJoining(run, parts, S) ==
    /\ run \in [0..Len(parts) -> Seq(S)]
    /\ run[0] = <<>>
    /\ \A i \in 0..(Len(parts) - 1) : run[i + 1] = run[i] \o parts[i + 1]

(* What FlattenSeq is: its parts joined, one after the other. *)
LEMMA FlattenJoins ==
  ASSUME NEW S, NEW parts \in Seq(Seq(S))
  PROVE  \E run : IsJoining(run, parts, S) /\ FlattenSeq(parts) = run[Len(parts)]
<1> DEFINE n == Len(parts)
           step == [at \in Seq(S) \X (1..n) |-> at[1] \o parts[at[2]]]
           Defines(f) == f = [i \in 1..n |-> IF i = 1 THEN parts[i] ELSE f[i - 1] \o parts[i]]
           flatten == CHOOSE f : Defines(f)
<1>0. n \in Nat /\ \A i \in 1..n : parts[i] \in Seq(S)
  OBVIOUS
<1>1. PICK run : IsRun(run, Seq(S), <<>>, step, n)
  <2>1. step \in [Seq(S) \X (1..n) -> Seq(S)]
    BY <1>0
  <2>2. <<>> \in Seq(S)
    OBVIOUS
  <2> HIDE DEF step, n
  <2>3. QED
    BY <1>0, <2>1, <2>2, RunExists
<1>2. /\ run \in [0..n -> Seq(S)] /\ run[0] = <<>>
      /\ \A i \in 0..(n - 1) : run[i + 1] = run[i] \o parts[i + 1]
  <2>1. /\ run \in [0..n -> Seq(S)] /\ run[0] = <<>>
        /\ \A i \in 0..(n - 1) : run[i + 1] = step[<<run[i], i + 1>>]
    BY <1>1 DEF IsRun
  <2>2. ASSUME NEW i \in 0..(n - 1) PROVE run[i + 1] = run[i] \o parts[i + 1]
    <3>1. i \in 0..n /\ i + 1 \in 1..n
      BY <1>0
    <3>2. run[i] \in Seq(S)
      BY <2>1, <3>1
    <3>3. <<run[i], i + 1>> \in Seq(S) \X (1..n)
      BY <3>1, <3>2
    <3>4. step[<<run[i], i + 1>>] = run[i] \o parts[i + 1]
      BY <3>3
    <3> HIDE DEF step
    <3>5. QED
      BY <2>1, <3>4
  <2>3. QED
    BY <2>1, <2>2
<1>3. IsJoining(run, parts, S)
  BY <1>2 DEF IsJoining
<1>7. n > 0 => run[1] = parts[1]
  <2> HAVE n > 0
  <2>1. 0 \in 0..(n - 1) /\ parts[1] \in Seq(S)
    BY <1>0
  <2>2. run[0 + 1] = <<>> \o parts[0 + 1]
    BY <1>2, <2>1
  <2>3. QED
    BY <2>1, <2>2
<1>4. CASE n = 0
  <2>1. FlattenSeq(parts) = <<>>
    BY <1>4 DEF FlattenSeq
  <2>2. QED
    BY <1>2, <1>3, <1>4, <2>1
<1>5. CASE n # 0
  <2>1. FlattenSeq(parts) = flatten[n]
    BY <1>5 DEF FlattenSeq
  <2>2. \E f : Defines(f)
    <3> DEFINE f == [i \in 1..n |-> run[i]]
    <3>1. ASSUME NEW i \in 1..n
          PROVE  run[i] = IF i = 1 THEN parts[i] ELSE f[i - 1] \o parts[i]
      <4>1. CASE i = 1
        BY <1>0, <1>7, <4>1
      <4>2. CASE i # 1
        <5>1. i - 1 \in 0..(n - 1) /\ i - 1 \in 1..n /\ (i - 1) + 1 = i
          BY <1>0, <4>2
        <5>2. f[i - 1] = run[i - 1]
          BY <5>1
        <5>3. run[(i - 1) + 1] = run[i - 1] \o parts[(i - 1) + 1]
          BY <1>2, <5>1
        <5> HIDE DEF f
        <5>4. QED
          BY <4>2, <5>1, <5>2, <5>3
      <4>3. QED
        BY <4>1, <4>2
    <3>2. f = [i \in 1..n |-> run[i]]
      OBVIOUS
    <3> HIDE DEF f
    <3>3. Defines(f)
      BY <3>1, <3>2
    <3>4. QED
      BY <3>3
  <2>3. Defines(flatten)
    BY <2>2
  <2> HIDE DEF flatten, n
  <2> DEFINE T == {i \in 0..n : i > 0 => flatten[i] = run[i]}
  <2>4. 0 \in T
    BY <1>0
  <2>5. ASSUME NEW i \in 0..(n - 1), i \in T PROVE i + 1 \in T
    <3>1. i + 1 \in 1..n /\ (i + 1) - 1 = i /\ i + 1 \in 0..n
      BY <1>0
    <3>2. flatten[i + 1] = IF i + 1 = 1 THEN parts[i + 1] ELSE flatten[i] \o parts[i + 1]
      BY <2>3, <3>1
    <3>3. run[i + 1] = run[i] \o parts[i + 1]
      BY <1>2, <3>1
    <3>4. CASE i = 0
      BY <1>0, <1>7, <3>1, <3>2, <3>4
    <3>5. CASE i # 0
      <4>1. flatten[i] = run[i]
        BY <2>5, <3>5
      <4>2. PICK next \in 0..n : next = i + 1 /\ next # 1
        BY <3>1, <3>5
      <4>3. flatten[next] = flatten[i] \o parts[next]
        BY <3>2, <4>2
      <4>4. run[next] = run[i] \o parts[next]
        BY <3>3, <4>2
      <4>5. next \in T
        BY <4>1, <4>3, <4>4
      <4>6. QED
        BY <4>2, <4>5
    <3>6. QED
      BY <3>4, <3>5
  <2>6. n \in T
    <3> HIDE DEF T
    <3>1. \A i \in 0..n : i \in T
      BY <1>0, <2>4, <2>5, ByNext
    <3>2. QED
      BY <1>0, <3>1
  <2>7. flatten[n] = run[n]
    BY <1>0, <1>5, <2>6
  <2>8. QED
    BY <1>3, <2>1, <2>7 DEF n
<1>6. QED
  BY <1>4, <1>5

(* One part more at the end. *)
LEMMA FlattenAppend ==
  ASSUME NEW S, NEW parts \in Seq(Seq(S)), NEW part \in Seq(S)
  PROVE  FlattenSeq(Append(parts, part)) = FlattenSeq(parts) \o part
<1> DEFINE more == Append(parts, part)
           n == Len(parts)
<1>1. /\ more \in Seq(Seq(S)) /\ Len(more) = n + 1 /\ n \in Nat
      /\ more[n + 1] = part /\ \A i \in 1..n : more[i] = parts[i]
  OBVIOUS
<1> HIDE DEF more
<1>2. PICK run : IsJoining(run, parts, S) /\ FlattenSeq(parts) = run[n]
  BY FlattenJoins
<1>3. PICK longer : IsJoining(longer, more, S) /\ FlattenSeq(more) = longer[n + 1]
  BY <1>1, FlattenJoins
<1>4. /\ run[0] = <<>> /\ longer[0] = <<>>
      /\ \A i \in 0..(n - 1) : run[i + 1] = run[i] \o parts[i + 1]
      /\ \A i \in 0..n : longer[i + 1] = longer[i] \o more[i + 1]
  <2>1. (n + 1) - 1 = n
    BY <1>1
  <2>2. QED
    BY <1>1, <1>2, <1>3, <2>1 DEF IsJoining
<1> HIDE DEF n
<1> DEFINE T == {i \in 0..n : longer[i] = run[i]}
<1>5. 0 \in T
  BY <1>1, <1>4
<1>6. ASSUME NEW i \in 0..(n - 1), i \in T PROVE i + 1 \in T
  <2>1. i + 1 \in 1..n /\ i + 1 \in 0..n /\ i \in 0..n
    BY <1>1
  <2>2. longer[i + 1] = longer[i] \o more[i + 1] /\ more[i + 1] = parts[i + 1]
    BY <1>1, <1>4, <2>1
  <2>3. longer[i + 1] = run[i + 1]
    BY <1>4, <1>6, <2>2
  <2>4. QED
    BY <2>1, <2>3
<1> HIDE DEF T
<1>7. \A i \in 0..n : i \in T
  BY <1>1, <1>5, <1>6, ByNext
<1>8. n \in 0..n
  BY <1>1
<1>9. longer[n] = run[n] /\ longer[n + 1] = longer[n] \o part
  BY <1>1, <1>4, <1>7, <1>8 DEF T
<1>10. QED
  BY <1>2, <1>3, <1>9 DEF more

-----------------------------------------------------------------------------
(* Where the parts of a joined sequence lie: the part k after its first    *)
(* after[k] elements.                                                      *)
LiesAfter(whole, parts, after) ==
    /\ after \in [1..(Len(parts) + 1) -> Nat]
    /\ after[1] = 0 /\ after[Len(parts) + 1] = Len(whole)
    /\ \A k \in 1..Len(parts) :
         /\ after[k + 1] = after[k] + Len(parts[k])
         /\ \A j \in 1..Len(parts[k]) : whole[after[k] + j] = parts[k][j]

(* A joined sequence is its parts, each where the ones before it end.      *)
LEMMA FlattenLies ==
  ASSUME NEW S, NEW parts \in Seq(Seq(S))
  PROVE  /\ FlattenSeq(parts) \in Seq(S)
         /\ \E after : LiesAfter(FlattenSeq(parts), parts, after)
<1> DEFINE n == Len(parts)
           whole == FlattenSeq(parts)
<1>0. n \in Nat /\ \A i \in 1..n : parts[i] \in Seq(S) /\ Len(parts[i]) \in Nat
  OBVIOUS
<1>1. PICK run : IsJoining(run, parts, S) /\ whole = run[n]
  BY FlattenJoins
<1>2. /\ \A i \in 0..n : run[i] \in Seq(S) /\ Len(run[i]) \in Nat
      /\ run[0] = <<>>
      /\ \A i \in 0..(n - 1) : run[i + 1] = run[i] \o parts[i + 1]
  <2>1. \A i \in 0..n : run[i] \in Seq(S)
    BY <1>1 DEF IsJoining
  <2>2. QED
    BY <1>1, <2>1 DEF IsJoining
<1> HIDE DEF n, whole
<1> DEFINE after == [k \in 1..(n + 1) |-> Len(run[k - 1])]
           Agrees(i) == \A j \in 1..Len(run[i]) : whole[j] = run[i][j]
           T == {i \in 0..n : Agrees(n - i)}
<1>3. ASSUME NEW k \in 1..n
      PROVE  /\ Len(run[k]) = Len(run[k - 1]) + Len(parts[k])
             /\ \A j \in 1..Len(run[k - 1]) : run[k][j] = run[k - 1][j]
             /\ \A j \in 1..Len(parts[k]) : run[k][Len(run[k - 1]) + j] = parts[k][j]
  <2>1. k - 1 \in 0..(n - 1) /\ k - 1 \in 0..n /\ (k - 1) + 1 = k
    BY <1>0
  <2> DEFINE front == run[k - 1]
             part == parts[k]
  <2>2. front \in Seq(S) /\ part \in Seq(S)
    BY <1>0, <1>2, <2>1
  <2>3. run[(k - 1) + 1] = run[k - 1] \o parts[(k - 1) + 1]
    BY <1>2, <2>1
  <2>4. run[k] = front \o part
    BY <2>1, <2>3
  <2> HIDE DEF front, part
  <2>5. /\ Len(run[k]) = Len(front) + Len(part)
        /\ \A j \in 1..Len(front) : run[k][j] = front[j]
        /\ \A j \in 1..Len(part) : run[k][Len(front) + j] = part[j]
    BY <2>2, <2>4
  <2>6. QED
    BY <2>5 DEF front, part
<1>4. 0 \in T
  BY <1>0, <1>1
<1>5. ASSUME NEW i \in 0..(n - 1), i \in T PROVE i + 1 \in T
  <2>1. n - i \in 1..n /\ (n - i) - 1 = n - (i + 1) /\ i + 1 \in 0..n
        /\ (n - i) - 1 \in 0..n
    BY <1>0
  <2>2. Agrees(n - i)
    BY <1>5
  <2>3. /\ Len(run[n - i]) = Len(run[(n - i) - 1]) + Len(parts[n - i])
        /\ Len(run[(n - i) - 1]) \in Nat /\ Len(parts[n - i]) \in Nat
        /\ \A j \in 1..Len(run[(n - i) - 1]) : run[n - i][j] = run[(n - i) - 1][j]
    BY <1>0, <1>2, <1>3, <2>1
  <2>4. Agrees((n - i) - 1)
    <3> DEFINE m == n - i
               l == (n - i) - 1
    <3> HIDE DEF m, l
    <3>1. /\ \A j \in 1..Len(run[m]) : whole[j] = run[m][j]
          /\ Len(run[m]) = Len(run[l]) + Len(parts[m])
          /\ Len(run[l]) \in Nat /\ Len(parts[m]) \in Nat
          /\ \A j \in 1..Len(run[l]) : run[m][j] = run[l][j]
      BY <2>2, <2>3 DEF m, l
    <3>2. ASSUME NEW j \in 1..Len(run[l]) PROVE whole[j] = run[l][j]
      <4>1. j \in 1..Len(run[m])
        <5> DEFINE a == Len(run[m])
                   b == Len(run[l])
                   c == Len(parts[m])
        <5>1. b \in Nat /\ c \in Nat /\ a = b + c /\ j \in 1..b
          BY <3>1
        <5> HIDE DEF a, b, c
        <5>2. j \in 1..a
          BY <5>1
        <5>3. QED
          BY <5>2 DEF a
      <4>2. whole[j] = run[m][j] /\ run[m][j] = run[l][j]
        BY <3>1, <4>1
      <4>3. QED
        BY <4>2
    <3>3. QED
      BY <3>2 DEF l
  <2>5. QED
    BY <2>1, <2>4
<1>6. \A i \in 0..n : i \in T
  <2> HIDE DEF T
  <2>1. QED
    BY <1>0, <1>4, <1>5, ByNext
<1>7. ASSUME NEW k \in 0..n PROVE Agrees(k)
  <2> HIDE DEF T, n
  <2>0. n - k \in 0..n /\ n - (n - k) = k
    BY <1>0
  <2>1. n - k \in T /\ n - (n - k) = k
    BY <1>6, <2>0
  <2> USE DEF T
  <2> HIDE DEF Agrees
  <2>2. QED
    BY <2>1
<1>8. after \in [1..(n + 1) -> Nat]
  <2>1. \A k \in 1..(n + 1) : k - 1 \in 0..n
    BY <1>0
  <2>2. QED
    BY <1>2, <2>1
<1>9. after[1] = 0 /\ after[n + 1] = Len(whole)
  <2>1. 1 - 1 = 0 /\ (n + 1) - 1 = n /\ 1 \in 1..(n + 1) /\ n + 1 \in 1..(n + 1)
    BY <1>0
  <2>2. Len(run[0]) = 0
    BY <1>2
  <2>3. QED
    BY <1>1, <2>1, <2>2
<1>10. ASSUME NEW k \in 1..n
       PROVE  /\ after[k + 1] = after[k] + Len(parts[k])
              /\ \A j \in 1..Len(parts[k]) : whole[after[k] + j] = parts[k][j]
  <2>1. after[k] = Len(run[k - 1]) /\ after[k + 1] = Len(run[k])
    <3>1. k \in 1..(n + 1) /\ k + 1 \in 1..(n + 1) /\ (k + 1) - 1 = k
      BY <1>0
    <3>2. QED
      BY <3>1
  <2> HIDE DEF after
  <2>2. Len(run[k - 1]) \in Nat /\ Len(parts[k]) \in Nat
    <3>1. k - 1 \in 0..n
      BY <1>0
    <3>2. QED
      BY <1>0, <1>2, <3>1
  <2>3. Agrees(k)
    <3>1. k \in 0..n
      BY <1>0
    <3> HIDE DEF Agrees
    <3>2. QED
      BY <1>7, <3>1
  <2>4. ASSUME NEW j \in 1..Len(parts[k]) PROVE whole[after[k] + j] = parts[k][j]
    <3>1. Len(run[k]) = Len(run[k - 1]) + Len(parts[k])
      BY <1>3
    <3>2. after[k] + j \in 1..Len(run[k])
      <4> DEFINE a == Len(run[k - 1])
                 b == Len(parts[k])
                 c == Len(run[k])
      <4>1. a \in Nat /\ b \in Nat /\ c = a + b /\ j \in 1..b
        BY <2>2, <3>1
      <4> HIDE DEF a, b, c
      <4>2. a + j \in 1..c
        BY <4>1
      <4>3. QED
        BY <2>1, <4>2 DEF a, c
    <3>3. whole[after[k] + j] = run[k][after[k] + j]
      BY <2>3, <3>2
    <3>4. run[k][Len(run[k - 1]) + j] = parts[k][j]
      BY <1>3
    <3>5. QED
      BY <2>1, <3>3, <3>4
  <2>5. QED
    BY <1>3, <2>1, <2>4
<1> HIDE DEF after
<1>11. LiesAfter(whole, parts, after)
  BY <1>8, <1>9, <1>10 DEF LiesAfter, n
<1>12. whole \in Seq(S)
  BY <1>0, <1>1, <1>2
<1>13. QED
  BY <1>11, <1>12 DEF whole

(* Every element is of some part. *)
IsOfAPart(i, parts, after) ==
    \E k \in 1..Len(parts) : \E j \in 1..Len(parts[k]) : i = after[k] + j

(* Every element of the whole is of a part.                                *)
LEMMA LiesSomewhere ==
  ASSUME NEW S, NEW parts \in Seq(Seq(S)), NEW whole, NEW after,
         LiesAfter(whole, parts, after), NEW i \in 1..Len(whole)
  PROVE  IsOfAPart(i, parts, after)
<1> DEFINE n == Len(parts)
           beyond == {k \in 1..(n + 1) : i <= after[k]}
           least == Min(beyond)
<1>0. n \in Nat /\ \A k \in 1..n : Len(parts[k]) \in Nat
  OBVIOUS
<1>1. /\ \A k \in 1..(n + 1) : after[k] \in Nat
      /\ after[1] = 0 /\ after[n + 1] = Len(whole)
      /\ \A k \in 1..n : after[k + 1] = after[k] + Len(parts[k])
  BY DEF LiesAfter
<1>2. beyond \in SUBSET Nat /\ beyond # {}
  <2>1. n + 1 \in beyond
    BY <1>0, <1>1
  <2>2. QED
    BY <1>0, <2>1
<1>3. least \in beyond /\ \A k \in beyond : least <= k
  <2> HIDE DEF beyond
  <2>1. QED
    BY <1>2, LeastIsOne
<1> HIDE DEF least
<1>4. least # 1
  BY <1>1, <1>3
<1>5. least - 1 \in 1..n /\ (least - 1) + 1 = least /\ least - 1 \in 1..(n + 1)
  BY <1>0, <1>3, <1>4
<1>6. ~(i <= after[least - 1])
  <2>1. least - 1 \notin beyond
    BY <1>2, <1>3, <1>5
  <2>2. QED
    BY <1>5, <2>1
<1>7. after[least] = after[least - 1] + Len(parts[least - 1])
  BY <1>1, <1>5
<1>8. /\ after[least - 1] \in Nat /\ Len(parts[least - 1]) \in Nat
      /\ i <= after[least]
  BY <1>0, <1>1, <1>3, <1>5
<1> DEFINE j == i - after[least - 1]
<1>9. j \in 1..Len(parts[least - 1]) /\ i = after[least - 1] + j
  BY <1>6, <1>7, <1>8
<1>10. QED
  BY <1>5, <1>9 DEF IsOfAPart

(* The parts lie in their order. *)
LEMMA LiesInOrder ==
  ASSUME NEW S, NEW parts \in Seq(Seq(S)), NEW whole, NEW after,
         LiesAfter(whole, parts, after),
         NEW k \in 1..Len(parts), NEW l \in 1..Len(parts), k < l
  PROVE  after[k + 1] <= after[l]
<1> DEFINE n == Len(parts)
           m == l - (k + 1)
           T == {i \in 0..m : after[k + 1] <= after[(k + 1) + i]}
<1>0. n \in Nat /\ \A i \in 1..n : Len(parts[i]) \in Nat
  OBVIOUS
<1>1. /\ \A i \in 1..(n + 1) : after[i] \in Nat
      /\ \A i \in 1..n : after[i + 1] = after[i] + Len(parts[i])
  BY DEF LiesAfter
<1>2. m \in Nat /\ (k + 1) + m = l /\ k + 1 \in 1..(n + 1) /\ l \in 1..n /\ k \in 1..n
  BY <1>0
<1> HIDE DEF n, m
<1>3. 0 \in T
  <2>1. (k + 1) + 0 = k + 1 /\ after[k + 1] \in Nat
    BY <1>1, <1>2
  <2>2. QED
    BY <1>2, <2>1
<1>4. ASSUME NEW i \in 0..(m - 1), i \in T PROVE i + 1 \in T
  <2> DEFINE p == (k + 1) + i
  <2>1. p \in 1..n /\ (k + 1) + (i + 1) = p + 1 /\ p \in 1..(n + 1)
        /\ i + 1 \in 0..m
    BY <1>0, <1>2
  <2>2. after[k + 1] <= after[p]
    BY <1>4
  <2> HIDE DEF p
  <2>3. after[p + 1] = after[p] + Len(parts[p])
    BY <1>1, <2>1
  <2>4. after[k + 1] \in Nat /\ after[p] \in Nat /\ Len(parts[p]) \in Nat
    BY <1>0, <1>1, <1>2, <2>1
  <2>5. after[k + 1] <= after[p + 1]
    BY <2>2, <2>3, <2>4
  <2>6. QED
    BY <2>1, <2>5
<1>5. m \in T
  <2> HIDE DEF T
  <2>1. \A i \in 0..m : i \in T
    BY <1>2, <1>3, <1>4, ByNext
  <2>2. QED
    BY <1>2, <2>1
<1>6. QED
  BY <1>2, <1>5

-----------------------------------------------------------------------------
(* Numbers. *)

(* A number is its last digit and the number before it.                    *)
LEMMA LastDigit ==
  ASSUME NEW n \in Nat
  PROVE  /\ n \div 10 \in Nat /\ n % 10 \in 0..9 /\ n = 10 * (n \div 10) + (n % 10)
         /\ n >= 10 => n \div 10 \in 1..(n - 1)
OBVIOUS

(* A digit more is the last digit.                                         *)
LEMMA DigitAdded ==
  ASSUME NEW n \in Nat, NEW digit \in 0..9
  PROVE  (10 * n + digit) \div 10 = n /\ (10 * n + digit) % 10 = digit
OBVIOUS

(* The numbers up to a bound, written: as much of Decimal as they need.    *)
IsWritten(table, bound) ==
    /\ DOMAIN table = 0..bound
    /\ \A n \in 0..bound :
         table[n] = IF n < 10 THEN <<48 + n>>
                    ELSE Append(table[n \div 10], 48 + (n % 10))

(* There is such a table of the numbers up to every bound.                 *)
LEMMA WrittenExists ==
  ASSUME NEW bound \in Nat
  PROVE  \E table : IsWritten(table, bound)
<1> DEFINE S == {m \in 0..bound : \E table : IsWritten(table, m)}
<1>1. 0 \in S
  <2>1. IsWritten([n \in 0..0 |-> <<48 + n>>], 0)
    BY DEF IsWritten
  <2>2. QED
    BY <2>1
<1>2. ASSUME NEW m \in 0..(bound - 1), m \in S PROVE m + 1 \in S
  <2>1. PICK table : IsWritten(table, m)
    BY <1>2
  <2> DEFINE next == [n \in 0..(m + 1) |->
                        IF n < 10 THEN <<48 + n>>
                        ELSE Append(table[n \div 10], 48 + (n % 10))]
  <2>2. ASSUME NEW n \in 0..m PROVE next[n] = table[n]
    <3>1. table[n] = IF n < 10 THEN <<48 + n>> ELSE Append(table[n \div 10], 48 + (n % 10))
      BY <2>1 DEF IsWritten
    <3>2. n \in 0..(m + 1)
      OBVIOUS
    <3>3. next[n] = IF n < 10 THEN <<48 + n>> ELSE Append(table[n \div 10], 48 + (n % 10))
      BY <3>2
    <3> HIDE DEF next
    <3>4. QED
      BY <3>1, <3>3
  <2>3. ASSUME NEW n \in 0..(m + 1), n >= 10
        PROVE  next[n] = Append(next[n \div 10], 48 + (n % 10))
    <3>1. n \div 10 \in 0..m
      BY <2>3, LastDigit
    <3>2. next[n] = Append(table[n \div 10], 48 + (n % 10))
      BY <2>3
    <3> HIDE DEF next
    <3>3. QED
      BY <2>2, <3>1, <3>2
  <2>4. ASSUME NEW n \in 0..(m + 1), n < 10 PROVE next[n] = <<48 + n>>
    BY <2>4
  <2>5. DOMAIN next = 0..(m + 1)
    OBVIOUS
  <2> HIDE DEF next
  <2>6. IsWritten(next, m + 1)
    <3>1. ASSUME NEW n \in 0..(m + 1)
          PROVE  next[n] = IF n < 10 THEN <<48 + n>>
                           ELSE Append(next[n \div 10], 48 + (n % 10))
      <4>1. CASE n < 10
        BY <2>4, <4>1
      <4>2. CASE ~(n < 10)
        <5>1. n >= 10
          BY <4>2
        <5>2. QED
          BY <2>3, <4>2, <5>1
      <4>3. QED
        BY <4>1, <4>2
    <3>2. QED
      BY <2>5, <3>1 DEF IsWritten
  <2>7. m + 1 \in 0..bound
    OBVIOUS
  <2>8. QED
    BY <2>6, <2>7
<1> HIDE DEF S
<1>3. bound \in S
  BY <1>1, <1>2, ByNext
<1>4. QED
  BY <1>3 DEF S

(* Numbers are written the same whatever the bound. *)
LEMMA WrittenAgree ==
  ASSUME NEW bound \in Nat, NEW more \in Nat, bound <= more,
         NEW table, IsWritten(table, bound), NEW other, IsWritten(other, more)
  PROVE  \A n \in 0..bound : table[n] = other[n]
<1> DEFINE S == {n \in Nat : n <= bound => table[n] = other[n]}
<1>1. ASSUME NEW n \in Nat, \A m \in 0..(n - 1) : m \in S PROVE n \in S
  <2> SUFFICES ASSUME n <= bound PROVE table[n] = other[n]
    OBVIOUS
  <2>1. n \in 0..bound /\ n \in 0..more
    OBVIOUS
  <2>2. CASE n < 10
    BY <2>1, <2>2 DEF IsWritten
  <2>3. CASE n >= 10
    <3>1. n \div 10 \in 0..(n - 1)
      BY <2>3, LastDigit
    <3>2. n \div 10 \in S /\ n \div 10 <= bound
      BY <1>1, <3>1
    <3>3. table[n \div 10] = other[n \div 10]
      BY <3>2
    <3>4. ~(n < 10)
      BY <2>3
    <3>5. QED
      BY <2>1, <3>3, <3>4 DEF IsWritten
  <2>4. QED
    BY <2>2, <2>3
<1> HIDE DEF S
<1>2. \A n \in Nat : n \in S
  BY <1>1, ByPredecessors
<1>3. QED
  BY <1>2 DEF S

(* write_unsigned, digit by digit. *)
LEMMA DecimalUnfolds ==
  ASSUME NEW number \in Nat
  PROVE  /\ number < 10 => Decimal[number] = <<48 + number>>
         /\ number >= 10 =>
              Decimal[number] = Append(Decimal[number \div 10], 48 + (number % 10))
<1> DEFINE table(n) == CHOOSE t : IsWritten(t, n)
           f == [n \in Nat |-> table(n)[n]]
           Defines(g) == g = [n \in Nat |->
                               IF n < 10 THEN <<48 + n>>
                               ELSE Append(g[n \div 10], 48 + (n % 10))]
<1>1. \A n \in Nat : IsWritten(table(n), n)
  BY WrittenExists
<1> HIDE DEF table
<1>2. ASSUME NEW n \in Nat
      PROVE  table(n)[n] = IF n < 10 THEN <<48 + n>>
                           ELSE Append(f[n \div 10], 48 + (n % 10))
  <2>1. n \in 0..n
    OBVIOUS
  <2>2. table(n)[n] = IF n < 10 THEN <<48 + n>>
                      ELSE Append(table(n)[n \div 10], 48 + (n % 10))
    BY <1>1, <2>1 DEF IsWritten
  <2>3. CASE n < 10
    BY <2>2, <2>3
  <2>4. CASE n >= 10
    <3>1. n \div 10 \in 1..(n - 1) /\ n \div 10 \in Nat /\ n \div 10 <= n
          /\ n \div 10 \in 0..(n \div 10)
      BY <2>4, LastDigit
    <3> DEFINE m == n \div 10
    <3> HIDE DEF m
    <3>2. table(m)[m] = table(n)[m]
      BY <1>1, <3>1, WrittenAgree DEF m
    <3>3. f[m] = table(m)[m]
      BY <3>1 DEF m
    <3> HIDE DEF f
    <3>4. table(n)[n] = Append(table(n)[m], 48 + (n % 10)) /\ ~(n < 10)
      BY <2>2, <2>4 DEF m
    <3>5. table(n)[n] = Append(f[m], 48 + (n % 10))
      BY <3>2, <3>3, <3>4
    <3>6. QED
      BY <3>4, <3>5 DEF m
  <2>5. QED
    BY <2>3, <2>4
<1>3. f = [n \in Nat |-> table(n)[n]]
  OBVIOUS
<1> HIDE DEF f
<1>4. Defines(f)
  BY <1>2, <1>3
<1>5. Defines(Decimal)
  <2>1. Decimal = CHOOSE g : Defines(g)
    BY DEF Decimal
  <2> HIDE DEF Defines
  <2>2. QED
    BY <1>4, <2>1
<1>6. Decimal[number] = IF number < 10 THEN <<48 + number>>
                        ELSE Append(Decimal[number \div 10], 48 + (number % 10))
  BY <1>5, Zenon
<1>7. number >= 10 => ~(number < 10)
  OBVIOUS
<1>8. QED
  BY <1>6, <1>7, Zenon

(* A number is written in digits, without a leading zero but its own.      *)
LEMMA DecimalIsNumeral ==
  ASSUME NEW n \in Nat
  PROVE  /\ Decimal[n] \in Seq(48..57) /\ Len(Decimal[n]) \in Nat
         /\ Len(Decimal[n]) >= 1
         /\ n < 10 => Len(Decimal[n]) = 1
         /\ Decimal[n][1] = 48 => n = 0
<1> DEFINE Good(raw, m) == /\ raw \in Seq(48..57) /\ Len(raw) \in Nat /\ Len(raw) >= 1
                           /\ m < 10 => Len(raw) = 1
                           /\ raw[1] = 48 => m = 0
           S == {m \in Nat : Good(Decimal[m], m)}
<1>1. ASSUME NEW m \in Nat, \A l \in 0..(m - 1) : l \in S PROVE m \in S
  <2>1. CASE m < 10
    <3>1. Decimal[m] = <<48 + m>>
      BY <2>1, DecimalUnfolds
    <3>2. Good(<<48 + m>>, m)
      BY <2>1
    <3>3. QED
      BY <3>1, <3>2
  <2>2. CASE m >= 10
    <3> DEFINE l == m \div 10
               digit == 48 + (m % 10)
    <3>1. l \in 0..(m - 1) /\ l # 0 /\ digit \in 48..57
      BY <2>2, LastDigit
    <3>2. ~(m < 10)
      BY <2>2
    <3>w. Decimal[m] = Append(Decimal[l], digit)
      BY <2>2, DecimalUnfolds, Zenon
    <3>3. Good(Decimal[l], l)
      BY <1>1, <3>1
    <3> HIDE DEF l, digit
    <3> DEFINE raw == Decimal[l]
    <3>4. raw \in Seq(48..57) /\ Len(raw) >= 1 /\ raw[1] # 48
      BY <3>1, <3>3
    <3> HIDE DEF raw
    <3>5. /\ Append(raw, digit) \in Seq(48..57) /\ Append(raw, digit)[1] = raw[1]
          /\ Len(Append(raw, digit)) \in Nat /\ Len(Append(raw, digit)) >= 1
      BY <3>1, <3>4
    <3>6. Good(Decimal[m], m)
      BY <3>2, <3>w, <3>4, <3>5 DEF raw
    <3>7. QED
      BY <3>6
  <2>3. QED
    BY <2>1, <2>2
<1> HIDE DEF S
<1>2. n \in S
  BY <1>1, ByPredecessors
<1>3. QED
  BY <1>2 DEF S

(* A smaller number takes no more digits. *)
LEMMA DecimalGrows ==
  ASSUME NEW n \in Nat, NEW m \in 0..n
  PROVE  Len(Decimal[m]) <= Len(Decimal[n])
<1> DEFINE S == {k \in Nat : \A l \in 0..k : Len(Decimal[l]) <= Len(Decimal[k])}
<1>1. ASSUME NEW k \in Nat, \A j \in 0..(k - 1) : j \in S PROVE k \in S
  <2> SUFFICES ASSUME NEW l \in 0..k PROVE Len(Decimal[l]) <= Len(Decimal[k])
    OBVIOUS
  <2>1. CASE l < 10
    BY <2>1, DecimalIsNumeral
  <2>2. CASE l >= 10
    <3>1. /\ k \div 10 \in 0..(k - 1) /\ l \div 10 \in 0..(k \div 10)
          /\ l \div 10 \in Nat /\ k \div 10 \in Nat
      BY <2>2, LastDigit
    <3>2. Len(Decimal[l \div 10]) <= Len(Decimal[k \div 10])
      BY <1>1, <3>1
    <3>w. l \in Nat /\ k \in Nat /\ k >= 10
      BY <2>2
    <3>3. /\ Decimal[l] = Append(Decimal[l \div 10], 48 + (l % 10))
          /\ Decimal[k] = Append(Decimal[k \div 10], 48 + (k % 10))
      BY <2>2, <3>w, DecimalUnfolds, Zenon
    <3>4. /\ Len(Decimal[l]) = Len(Decimal[l \div 10]) + 1
          /\ Len(Decimal[k]) = Len(Decimal[k \div 10]) + 1
          /\ Len(Decimal[l \div 10]) \in Nat /\ Len(Decimal[k \div 10]) \in Nat
      BY <3>1, <3>3, DecimalIsNumeral
    <3>5. QED
      BY <3>2, <3>4
  <2>3. QED
    BY <2>1, <2>2
<1> HIDE DEF S
<1>2. n \in S
  BY <1>1, ByPredecessors
<1>3. QED
  BY <1>2 DEF S

(* decode_unsigned's loop over the bytes of a value. *)
ReadsDigits(scans, raw) ==
    /\ scans[0] = [error |-> "NONE", number |-> 0]
    /\ \A i \in 0..(Len(raw) - 1) : scans[i + 1] = DecodeDigit(scans[i], raw[i + 1])

DigitScans == [error : {"NONE", "BAD_VALUE"}, number : 0..MaximumUnsigned]

(* A digit within the range. *)
LEMMA DigitRead ==
  ASSUME NEW scan \in DigitScans, NEW byte \in Nat
  PROVE  LET next == DecodeDigit(scan, byte)
         IN  /\ next \in DigitScans
             /\ next.error = "NONE" <=>
                  /\ scan.error = "NONE" /\ byte \in 48..57
                  /\ 10 * scan.number + (byte - 48) <= MaximumUnsigned
             /\ next.error = "NONE" => next.number = 10 * scan.number + (byte - 48)
<1> DEFINE digit == byte - 48
           next == DecodeDigit(scan, byte)
           late == \/ scan.error # "NONE" \/ byte \notin 48..57
                   \/ scan.number > (MaximumUnsigned - digit) \div 10
<1>0. /\ scan.error \in {"NONE", "BAD_VALUE"} /\ scan.number \in Nat
      /\ scan.number <= MaximumUnsigned /\ MaximumUnsigned \in Nat
  BY CodecAssumption DEF DigitScans
<1>1. CASE late
  <2>1. next = [scan EXCEPT !.error = "BAD_VALUE"]
    BY <1>1 DEF DecodeDigit
  <2>2. next \in DigitScans /\ next.error = "BAD_VALUE"
    BY <2>1 DEF DigitScans
  <2> HIDE DEF next
  <2>3. ~(/\ scan.error = "NONE" /\ byte \in 48..57
          /\ 10 * scan.number + (byte - 48) <= MaximumUnsigned)
    BY <1>0, <1>1
  <2>4. QED
    BY <2>2, <2>3 DEF next
<1>2. CASE ~late
  <2>1. next = [scan EXCEPT !.number = 10 * @ + digit]
    BY <1>2 DEF DecodeDigit
  <2>2. 10 * scan.number + digit \in 0..MaximumUnsigned
    BY <1>0, <1>2
  <2>3. /\ next \in DigitScans /\ next.error = "NONE"
        /\ next.number = 10 * scan.number + digit
    BY <1>2, <2>1, <2>2 DEF DigitScans
  <2> HIDE DEF next
  <2>4. QED
    BY <1>2, <2>2, <2>3 DEF next
<1>3. QED
  BY <1>1, <1>2

(* decode_unsigned, as its loop ends.                                      *)
LEMMA UnsignedScanned ==
  ASSUME NEW field, NEW raw \in Seq(Nat)
  PROVE  \E scans :
           /\ ReadsDigits(scans, raw)
           /\ \A i \in 0..Len(raw) : scans[i] \in DigitScans
           /\ DecodedUnsigned(field, raw) =
                IF ~SpelledOnce(raw) \/ scans[Len(raw)].error # "NONE"
                THEN Refused("BAD_VALUE")
                ELSE Accepted(field, Number(scans[Len(raw)].number))
<1> DEFINE n == Len(raw)
           start == [error |-> "NONE", number |-> 0]
           step == [at \in DigitScans \X (1..n) |-> DecodeDigit(at[1], raw[at[2]])]
           Defines(f) == f = [i \in 0..n |-> IF i = 0 THEN start
                                             ELSE DecodeDigit(f[i - 1], raw[i])]
           scans == CHOOSE f : Defines(f)
<1>0. n \in Nat /\ \A i \in 1..n : raw[i] \in Nat
  OBVIOUS
<1>1. start \in DigitScans
  BY CodecAssumption DEF DigitScans
<1>2. step \in [DigitScans \X (1..n) -> DigitScans]
  <2>1. ASSUME NEW at \in DigitScans \X (1..n) PROVE DecodeDigit(at[1], raw[at[2]]) \in DigitScans
    BY <1>0, DigitRead
  <2>2. QED
    BY <2>1
<1>3. PICK run : IsRun(run, DigitScans, start, step, n)
  <2> HIDE DEF step, start, n
  <2>1. QED
    BY <1>0, <1>1, <1>2, RunExists
<1>4. /\ run \in [0..n -> DigitScans] /\ run[0] = start
      /\ \A i \in 0..(n - 1) : run[i + 1] = step[<<run[i], i + 1>>]
  BY <1>3 DEF IsRun
<1>5. ASSUME NEW i \in 0..(n - 1) PROVE run[i + 1] = DecodeDigit(run[i], raw[i + 1])
  <2>1. i \in 0..n /\ i + 1 \in 1..n
    BY <1>0
  <2>2. <<run[i], i + 1>> \in DigitScans \X (1..n)
    BY <1>4, <2>1
  <2>3. step[<<run[i], i + 1>>] = DecodeDigit(run[i], raw[i + 1])
    BY <2>2
  <2> HIDE DEF step
  <2>4. QED
    BY <1>4, <2>3
<1> HIDE DEF start, step, n
<1>6. Defines(run)
  <2>1. ASSUME NEW i \in 0..n
        PROVE  run[i] = IF i = 0 THEN start ELSE DecodeDigit(run[i - 1], raw[i])
    <3>1. CASE i = 0
      BY <1>4, <3>1
    <3>2. CASE i # 0
      <4>1. i - 1 \in 0..(n - 1) /\ (i - 1) + 1 = i
        BY <1>0, <3>2
      <4>2. run[(i - 1) + 1] = DecodeDigit(run[i - 1], raw[(i - 1) + 1])
        BY <1>5, <4>1
      <4>3. QED
        BY <3>2, <4>1, <4>2
    <3>3. QED
      BY <3>1, <3>2
  <2>2. run = [i \in 0..n |-> run[i]]
    BY <1>4
  <2>3. QED
    BY <2>1, <2>2
<1>7. Defines(scans)
  <2> HIDE DEF Defines
  <2>1. QED
    BY <1>6
<1>8. DecodedUnsigned(field, raw) =
        IF ~SpelledOnce(raw) \/ scans[n].error # "NONE" THEN Refused("BAD_VALUE")
        ELSE Accepted(field, Number(scans[n].number))
  BY DEF DecodedUnsigned, start, n
<1> HIDE DEF scans
<1>9. scans[0] = start /\ \A i \in 0..(n - 1) : scans[i + 1] = DecodeDigit(scans[i], raw[i + 1])
  <2>1. 0 \in 0..n
    BY <1>0
  <2>2. ASSUME NEW i \in 0..(n - 1) PROVE scans[i + 1] = DecodeDigit(scans[i], raw[i + 1])
    <3>1. i + 1 \in 0..n /\ i + 1 # 0 /\ (i + 1) - 1 = i
      BY <1>0
    <3>2. scans[i + 1] = DecodeDigit(scans[(i + 1) - 1], raw[i + 1])
      BY <1>7, <3>1
    <3>3. QED
      BY <3>1, <3>2
  <2>3. scans[0] = start
    BY <1>7, <2>1
  <2>4. QED
    BY <2>2, <2>3
<1>10. \A i \in 0..n : scans[i] \in DigitScans
  <2> DEFINE T == {i \in 0..n : scans[i] \in DigitScans}
  <2>1. 0 \in T
    BY <1>0, <1>1, <1>9
  <2>2. ASSUME NEW i \in 0..(n - 1), i \in T PROVE i + 1 \in T
    <3>1. i + 1 \in 1..n /\ raw[i + 1] \in Nat /\ i + 1 \in 0..n
      BY <1>0
    <3>2. DecodeDigit(scans[i], raw[i + 1]) \in DigitScans
      BY <2>2, <3>1, DigitRead
    <3>3. QED
      BY <1>9, <3>1, <3>2
  <2> HIDE DEF T
  <2>3. \A i \in 0..n : i \in T
    BY <1>0, <2>1, <2>2, ByNext
  <2>4. QED
    BY <2>3 DEF T
<1>11. ReadsDigits(scans, raw)
  BY <1>9 DEF ReadsDigits, start, n
<1>12. QED
  BY <1>8, <1>10, <1>11 DEF n

(* A number that is written is read. *)
LEMMA DecimalIsRead ==
  ASSUME NEW n \in 0..MaximumUnsigned, NEW scans, ReadsDigits(scans, Decimal[n])
  PROVE  scans[Len(Decimal[n])] = [error |-> "NONE", number |-> n]
<1> DEFINE Reads(m) == m <= MaximumUnsigned /\ ReadsDigits(scans, Decimal[m]) =>
                         scans[Len(Decimal[m])] = [error |-> "NONE", number |-> m]
           S == {m \in Nat : Reads(m)}
<1>0. MaximumUnsigned \in Nat
  BY CodecAssumption
<1>1. ASSUME NEW m \in Nat, \A l \in 0..(m - 1) : l \in S PROVE m \in S
  <2> SUFFICES ASSUME m <= MaximumUnsigned, ReadsDigits(scans, Decimal[m])
               PROVE  scans[Len(Decimal[m])] = [error |-> "NONE", number |-> m]
    OBVIOUS
  <2>0. ASSUME NEW scan \in DigitScans, NEW digit \in 0..9,
               scan.error = "NONE", 10 * scan.number + digit = m
        PROVE  DecodeDigit(scan, 48 + digit) = [error |-> "NONE", number |-> m]
    <3> DEFINE next == DecodeDigit(scan, 48 + digit)
    <3>1. 48 + digit \in Nat /\ 48 + digit \in 48..57 /\ (48 + digit) - 48 = digit
      OBVIOUS
    <3>2. /\ next \in DigitScans
          /\ next.error = "NONE" <=>
               10 * scan.number + ((48 + digit) - 48) <= MaximumUnsigned
          /\ next.error = "NONE" => next.number = 10 * scan.number + ((48 + digit) - 48)
      BY <2>0, <3>1, DigitRead
    <3>3. next.error = "NONE" /\ next.number = m
      BY <2>0, <3>1, <3>2
    <3> HIDE DEF next
    <3>4. next = [error |-> "NONE", number |-> m]
      BY <3>2, <3>3 DEF DigitScans
    <3>5. QED
      BY <3>4 DEF next
  <2>1. CASE m < 10
    <3>1. Decimal[m] = <<48 + m>>
      BY <2>1, DecimalUnfolds, Zenon
    <3>2. Len(Decimal[m]) = 1 /\ Decimal[m][1] = 48 + m
      BY <3>1
    <3>3. scans[0] = [error |-> "NONE", number |-> 0] /\ 0 \in 0..(Len(Decimal[m]) - 1)
          /\ 0 + 1 = 1
      BY <3>2 DEF ReadsDigits
    <3>4. scans[1] = DecodeDigit(scans[0], 48 + m)
      BY <3>2, <3>3 DEF ReadsDigits
    <3>5. scans[0] \in DigitScans /\ scans[0].error = "NONE" /\ 10 * scans[0].number + m = m
          /\ m \in 0..9
      BY <1>0, <2>1, <3>3 DEF DigitScans
    <3>6. QED
      BY <2>0, <3>2, <3>4, <3>5
  <2>2. CASE m >= 10
    <3> DEFINE l == m \div 10
               digit == m % 10
    <3>1. l \in 0..(m - 1) /\ l \in Nat /\ digit \in 0..9 /\ m = 10 * l + digit
          /\ l <= MaximumUnsigned
      BY <1>0, <2>2, LastDigit
    <3>2. Decimal[m] = Append(Decimal[l], 48 + digit)
      BY <2>2, DecimalUnfolds, Zenon
    <3>3. l \in S
      BY <1>1, <3>1
    <3> HIDE DEF l, digit
    <3> DEFINE front == Decimal[l]
               k == Len(front)
    <3>4. front \in Seq(48..57) /\ k \in Nat
      BY <3>1, DecimalIsNumeral
    <3>w. Reads(l)
      BY <3>3
    <3> HIDE DEF S, Reads, front
    <3>5. /\ Len(Decimal[m]) = k + 1 /\ Decimal[m][k + 1] = 48 + digit
          /\ \A i \in 1..k : Decimal[m][i] = front[i]
      BY <3>2, <3>4 DEF front
    <3>6. ReadsDigits(scans, front)
      <4>1. ASSUME NEW i \in 0..(k - 1) PROVE scans[i + 1] = DecodeDigit(scans[i], front[i + 1])
        <5>1. i + 1 \in 1..k /\ i \in 0..(Len(Decimal[m]) - 1)
          BY <3>4, <3>5
        <5>2. QED
          BY <3>5, <5>1 DEF ReadsDigits
      <4>2. QED
        BY <4>1 DEF ReadsDigits
    <3>7. scans[k] = [error |-> "NONE", number |-> l]
      BY <3>1, <3>6, <3>w DEF Reads, front
    <3>8. scans[k + 1] = DecodeDigit(scans[k], 48 + digit)
      <4>1. k \in 0..(Len(Decimal[m]) - 1)
        BY <3>4, <3>5
      <4>2. QED
        BY <3>5, <4>1 DEF ReadsDigits
    <3>9. scans[k] \in DigitScans /\ scans[k].error = "NONE" /\ scans[k].number = l
      BY <1>0, <3>1, <3>7 DEF DigitScans
    <3> HIDE DEF k
    <3>10. DecodeDigit(scans[k], 48 + digit) = [error |-> "NONE", number |-> m]
      BY <2>0, <3>1, <3>9
    <3>11. QED
      BY <3>5, <3>8, <3>10
  <2>3. QED
    BY <2>1, <2>2
<1> HIDE DEF S
<1>2. n \in S
  <2>1. n \in Nat
    BY <1>0
  <2>2. QED
    BY <1>1, <2>1, ByPredecessors
<1>3. QED
  BY <1>0, <1>2 DEF S

(* What is read as a number, in its one spelling, is how it is written.    *)
LEMMA ReadIsDecimal ==
  ASSUME NEW raw \in Seq(Nat), SpelledOnce(raw),
         NEW scans, ReadsDigits(scans, raw),
         \A i \in 0..Len(raw) : scans[i] \in DigitScans,
         scans[Len(raw)].error = "NONE"
  PROVE  raw = Decimal[scans[Len(raw)].number]
<1> DEFINE n == Len(raw)
           number(i) == scans[i].number
           front(i) == SubSeq(raw, 1, i)
           T == {i \in 0..n : scans[n - i].error = "NONE"}
           U == {i \in 0..n : i > 0 => front(i) = Decimal[number(i)]}
<1>0. /\ n \in Nat /\ n >= 1
      /\ raw[1] = 48 => n = 1
      /\ \A i \in 1..n : raw[i] \in Nat
  BY DEF SpelledOnce
<1>1. /\ scans[0] = [error |-> "NONE", number |-> 0]
      /\ \A i \in 0..(n - 1) : scans[i + 1] = DecodeDigit(scans[i], raw[i + 1])
      /\ \A i \in 0..n : scans[i] \in DigitScans
      /\ scans[n].error = "NONE"
  BY DEF ReadsDigits
<1> HIDE DEF n
<1>2. ASSUME NEW i \in 0..(n - 1), scans[i + 1].error = "NONE"
      PROVE  /\ scans[i].error = "NONE" /\ raw[i + 1] - 48 \in 0..9
             /\ number(i) \in Nat
             /\ number(i + 1) = 10 * number(i) + (raw[i + 1] - 48)
             /\ raw[i + 1] = 48 + (raw[i + 1] - 48)
  <2>1. i + 1 \in 1..n /\ i \in 0..n /\ raw[i + 1] \in Nat
    BY <1>0
  <2>2. scans[i] \in DigitScans /\ scans[i + 1] = DecodeDigit(scans[i], raw[i + 1])
    BY <1>1, <2>1
  <2>3. /\ scans[i].error = "NONE" /\ raw[i + 1] \in 48..57
        /\ number(i + 1) = 10 * number(i) + (raw[i + 1] - 48)
    <3> DEFINE scan == scans[i]
               byte == raw[i + 1]
               next == DecodeDigit(scan, byte)
    <3>1. scan \in DigitScans /\ byte \in Nat /\ scans[i + 1] = next
      BY <2>1, <2>2
    <3>2. next.error = "NONE"
      BY <1>2, <3>1
    <3> HIDE DEF scan, byte
    <3>3. /\ scan.error = "NONE" /\ byte \in 48..57
          /\ next.number = 10 * scan.number + (byte - 48)
      BY <3>1, <3>2, DigitRead
    <3> HIDE DEF next
    <3>4. scans[i + 1].number = 10 * scan.number + (byte - 48)
      BY <3>1, <3>3
    <3>5. QED
      BY <3>3, <3>4 DEF scan, byte
  <2>4. number(i) \in Nat
    BY <2>2 DEF DigitScans
  <2> HIDE DEF number
  <2>5. QED
    BY <2>3, <2>4
<1>3. \A i \in 0..n : scans[i].error = "NONE"
  <2>1. 0 \in T
    BY <1>0, <1>1
  <2>2. ASSUME NEW i \in 0..(n - 1), i \in T PROVE i + 1 \in T
    <3>1. n - (i + 1) \in 0..(n - 1) /\ (n - (i + 1)) + 1 = n - i /\ i + 1 \in 0..n
      BY <1>0
    <3>2. scans[n - (i + 1)].error = "NONE"
      BY <1>2, <2>2, <3>1
    <3>3. QED
      BY <3>1, <3>2
  <2>3. \A i \in 0..n : i \in T
    <3> HIDE DEF T
    <3>1. QED
      BY <1>0, <2>1, <2>2, ByNext
  <2>4. ASSUME NEW i \in 0..n PROVE scans[i].error = "NONE"
    <3>1. n - i \in 0..n /\ n - (n - i) = i
      BY <1>0
    <3>2. QED
      BY <2>3, <3>1
  <2>5. QED
    BY <2>4
<1>4. ASSUME NEW i \in 0..(n - 1)
      PROVE  /\ raw[i + 1] - 48 \in 0..9 /\ number(i) \in Nat
             /\ number(i + 1) = 10 * number(i) + (raw[i + 1] - 48)
             /\ raw[i + 1] = 48 + (raw[i + 1] - 48)
             /\ front(i + 1) = Append(front(i), raw[i + 1])
             /\ front(i) \in Seq(Nat)
  <2>1. i + 1 \in 0..n /\ i + 1 \in 1..n
    BY <1>0
  <2>2. front(i + 1) = Append(front(i), raw[i + 1]) /\ front(i) \in Seq(Nat)
    BY <2>1 DEF n
  <2>3. scans[i + 1].error = "NONE"
    BY <1>3, <2>1
  <2> HIDE DEF number, front
  <2>4. QED
    BY <1>2, <2>2, <2>3
<1>5. number(0) = 0 /\ front(0) = <<>>
  BY <1>1
<1> HIDE DEF number
<1>6. 0 \in U
  BY <1>0
<1>7. ASSUME NEW i \in 0..(n - 1), i \in U PROVE i + 1 \in U
  <2> DEFINE digit == raw[i + 1] - 48
  <2>1. digit \in 0..9 /\ number(i) \in Nat /\ number(i + 1) = 10 * number(i) + digit
        /\ raw[i + 1] = 48 + digit
    BY <1>4
  <2> HIDE DEF digit
  <2>2. CASE i = 0
    <3>1. number(1) = digit /\ digit < 10 /\ digit \in Nat
      <4>1. number(0 + 1) = 10 * number(0) + digit /\ 0 + 1 = 1
        BY <2>1, <2>2
      <4>2. number(1) = 10 * 0 + digit
        BY <1>5, <4>1
      <4>3. QED
        BY <2>1, <4>2
    <3>2. Decimal[digit] = <<48 + digit>>
      BY <3>1, DecimalUnfolds, Zenon
    <3>3. front(1) = Append(<<>>, 48 + digit)
      <4>1. front(0 + 1) = Append(front(0), raw[0 + 1]) /\ raw[0 + 1] = 48 + digit
        BY <1>4, <2>1, <2>2
      <4> HIDE DEF front
      <4>2. 0 + 1 = 1
        OBVIOUS
      <4>3. QED
        BY <1>5, <4>1, <4>2
    <3>4. Append(<<>>, 48 + digit) = <<48 + digit>>
      OBVIOUS
    <3>5. 1 \in 0..n
      BY <1>0
    <3> HIDE DEF front
    <3>6. QED
      BY <2>2, <3>1, <3>2, <3>3, <3>4, <3>5
  <2>3. CASE i # 0
    <3>1. front(i) = Decimal[number(i)]
      BY <1>7, <2>3
    <3>2. raw[1] # 48 /\ front(i)[1] = raw[1]
      <4>1. n # 1
        BY <1>0, <2>3
      <4>2. front(i)[1] = raw[1]
        BY <2>3 DEF n
      <4>3. QED
        BY <1>0, <4>1, <4>2
    <3>3. number(i) # 0
      <4>1. Decimal[0] = <<48 + 0>>
        BY DecimalUnfolds
      <4>2. Decimal[0][1] = 48
        BY <4>1
      <4> HIDE DEF front
      <4>3. QED
        BY <3>1, <3>2, <4>2
    <3>4. number(i + 1) \in Nat /\ number(i + 1) >= 10
      <4> DEFINE a == number(i)
      <4>1. a \in Nat /\ a # 0 /\ number(i + 1) = 10 * a + digit
        BY <2>1, <3>3
      <4> HIDE DEF a
      <4>2. 10 * a + digit \in Nat /\ 10 * a + digit >= 10
        BY <2>1, <4>1
      <4>3. QED
        BY <4>1, <4>2
    <3>5. number(i + 1) \div 10 = number(i) /\ number(i + 1) % 10 = digit
      BY <2>1, DigitAdded
    <3>6. Decimal[number(i + 1)] = Append(Decimal[number(i)], 48 + digit)
      BY <3>4, <3>5, DecimalUnfolds, Zenon
    <3>7. front(i + 1) = Append(front(i), 48 + digit)
      BY <1>4, <2>1
    <3>8. i + 1 \in 0..n
      BY <1>0
    <3> HIDE DEF front
    <3>9. QED
      BY <3>1, <3>6, <3>7, <3>8
  <2>4. QED
    BY <2>2, <2>3
<1> HIDE DEF U, front
<1>8. \A i \in 0..n : i \in U
  BY <1>0, <1>6, <1>7, ByNext
<1>9. n \in U /\ n \in 0..n /\ n > 0
  BY <1>0, <1>8
<1>10. front(n) = Decimal[number(n)]
  BY <1>9 DEF U
<1>11. front(n) = raw
  BY DEF front, n
<1>12. QED
  BY <1>10, <1>11 DEF number, n

(* A field of numbers reads what is written for it, and nothing else.      *)
LEMMA UnsignedReads ==
  ASSUME NEW field, ~IsText(field), NEW n \in 0..MaximumUnsigned,
         n \in field.minimum..field.maximum
  PROVE  DecodedUnsigned(field, Decimal[n]) = [error |-> "NONE", value |-> Number(n)]
<1>0. n \in Nat /\ MaximumUnsigned \in Nat
  BY CodecAssumption
<1>1. /\ Decimal[n] \in Seq(48..57) /\ Len(Decimal[n]) >= 1 /\ Len(Decimal[n]) \in Nat
      /\ Decimal[n][1] = 48 => Len(Decimal[n]) = 1
  BY <1>0, DecimalIsNumeral
<1>2. Decimal[n] \in Seq(Nat)
  BY <1>1
<1>3. SpelledOnce(Decimal[n])
  <2>1. Len(Decimal[n]) <= Len(Decimal[MaximumUnsigned])
    BY <1>0, DecimalGrows
  <2>2. Len(Decimal[MaximumUnsigned]) \in Nat
    BY <1>0, DecimalIsNumeral
  <2>3. QED
    BY <1>1, <2>1, <2>2, DigitsAssumption, CodecAssumption DEF SpelledOnce
<1>4. PICK scans :
        /\ ReadsDigits(scans, Decimal[n])
        /\ DecodedUnsigned(field, Decimal[n]) =
             IF ~SpelledOnce(Decimal[n]) \/ scans[Len(Decimal[n])].error # "NONE"
             THEN Refused("BAD_VALUE")
             ELSE Accepted(field, Number(scans[Len(Decimal[n])].number))
  BY <1>2, UnsignedScanned
<1>5. scans[Len(Decimal[n])] = [error |-> "NONE", number |-> n]
  BY <1>4, DecimalIsRead
<1>6. DecodedUnsigned(field, Decimal[n]) = Accepted(field, Number(n))
  BY <1>3, <1>4, <1>5
<1>7. IsValid(field, Number(n))
  BY DEF IsValid, Number
<1>8. QED
  BY <1>6, <1>7 DEF Accepted

(* What such a field reads is what would be written for it.                *)
LEMMA UnsignedWasWritten ==
  ASSUME NEW field, ~IsText(field), NEW raw \in Seq(Nat),
         DecodedUnsigned(field, raw).error = "NONE"
  PROVE  \E n \in 0..MaximumUnsigned :
           /\ raw = Decimal[n]
           /\ DecodedUnsigned(field, raw).value = Number(n)
           /\ IsValid(field, Number(n))
<1>1. PICK scans :
        /\ ReadsDigits(scans, raw)
        /\ \A i \in 0..Len(raw) : scans[i] \in DigitScans
        /\ DecodedUnsigned(field, raw) =
             IF ~SpelledOnce(raw) \/ scans[Len(raw)].error # "NONE"
             THEN Refused("BAD_VALUE")
             ELSE Accepted(field, Number(scans[Len(raw)].number))
  BY UnsignedScanned
<1> DEFINE n == scans[Len(raw)].number
<1>2. Refused("BAD_VALUE").error # "NONE"
  BY DEF Refused
<1>3. /\ SpelledOnce(raw) /\ scans[Len(raw)].error = "NONE"
      /\ DecodedUnsigned(field, raw) = Accepted(field, Number(n))
  BY <1>1, <1>2
<1>4. raw = Decimal[n]
  BY <1>1, <1>3, ReadIsDecimal
<1>5. n \in 0..MaximumUnsigned
  <2>1. Len(raw) \in 0..Len(raw)
    OBVIOUS
  <2>2. scans[Len(raw)] \in DigitScans
    BY <1>1, <2>1
  <2>3. QED
    BY <2>2 DEF DigitScans
<1> HIDE DEF n
<1>6. /\ Accepted(field, Number(n)).value = Number(n)
      /\ Accepted(field, Number(n)).error = "NONE" => IsValid(field, Number(n))
  BY DEF Accepted
<1>7. QED
  BY <1>3, <1>4, <1>5, <1>6

-----------------------------------------------------------------------------
(* Texts. *)

(* The digits of an escape need none, and give the byte back.              *)
LEMMA HexadecimalDigits ==
  ASSUME NEW byte \in PrintableBytes
  PROVE  LET high == HexadecimalDigit(byte \div 16)
             low == HexadecimalDigit(byte % 16)
         IN  /\ high \in Unreserved /\ low \in Unreserved
             /\ HexadecimalValue(high) \in 0..15 /\ HexadecimalValue(low) \in 0..15
             /\ 16 * HexadecimalValue(high) + HexadecimalValue(low) = byte
<1>1. ASSUME NEW n \in 0..15
      PROVE  HexadecimalDigit(n) \in Unreserved /\ HexadecimalValue(HexadecimalDigit(n)) = n
  <2>1. CASE n < 10
    <3>1. HexadecimalDigit(n) = 48 + n /\ 48 + n \in 48..57 /\ (48 + n) - 48 = n
      BY <2>1 DEF HexadecimalDigit
    <3>2. QED
      BY <3>1 DEF HexadecimalValue, Unreserved
  <2>2. CASE n >= 10
    <3>1. HexadecimalDigit(n) = 55 + n /\ 55 + n \in 65..70 /\ (55 + n) - 55 = n
          /\ 55 + n \notin 48..57 /\ 55 + n \in 65..90
      BY <2>2 DEF HexadecimalDigit
    <3>2. QED
      BY <3>1 DEF HexadecimalValue, Unreserved
  <2>3. QED
    BY <2>1, <2>2
<1>2. byte \div 16 \in 0..15 /\ byte % 16 \in 0..15 /\ 16 * (byte \div 16) + (byte % 16) = byte
  BY DEF PrintableBytes
<1>3. QED
  BY <1>1, <1>2

(* What a byte is written as: itself, or an escape of three.               *)
LEMMA EncodedByteType ==
  ASSUME NEW byte \in PrintableBytes
  PROVE  /\ EncodedByte(byte) \in Seq(Unreserved \cup {EscapeByte})
         /\ Len(EncodedByte(byte)) = IF byte \in Unreserved THEN 1 ELSE 3
<1>1. CASE byte \in Unreserved
  BY <1>1 DEF EncodedByte
<1>2. CASE byte \notin Unreserved
  <2>1. EncodedByte(byte) = <<EscapeByte, HexadecimalDigit(byte \div 16), HexadecimalDigit(byte % 16)>>
    BY <1>2 DEF EncodedByte, Escaped
  <2>2. HexadecimalDigit(byte \div 16) \in Unreserved /\ HexadecimalDigit(byte % 16) \in Unreserved
    BY HexadecimalDigits
  <2> HIDE DEF EncodedByte
  <2>3. QED
    BY <1>2, <2>1, <2>2
<1>3. QED
  BY <1>1, <1>2

(* A text is written byte by byte, in bytes that need no escape. *)
LEMMA EncodedText ==
  /\ PercentEncoded(<<>>) = <<>>
  /\ \A text \in Seq(PrintableBytes) :
       /\ PercentEncoded(text) \in Seq(Unreserved \cup {EscapeByte})
       /\ \A byte \in PrintableBytes :
            PercentEncoded(Append(text, byte)) = PercentEncoded(text) \o EncodedByte(byte)
<1> DEFINE S == Unreserved \cup {EscapeByte}
           parts(text) == [i \in DOMAIN text |-> EncodedByte(text[i])]
<1>1. ASSUME NEW text \in Seq(PrintableBytes)
      PROVE  parts(text) \in Seq(Seq(S)) /\ Len(parts(text)) = Len(text)
  <2>1. \A i \in 1..Len(text) : text[i] \in PrintableBytes
    OBVIOUS
  <2>2. \A i \in 1..Len(text) : EncodedByte(text[i]) \in Seq(S)
    BY <2>1, EncodedByteType
  <2>3. parts(text) = [i \in 1..Len(text) |-> EncodedByte(text[i])] /\ Len(text) \in Nat
    OBVIOUS
  <2>4. parts(text) \in [1..Len(text) -> Seq(S)]
    BY <2>2, <2>3
  <2> HIDE DEF parts, S
  <2>5. QED
    BY <2>3, <2>4
<1>2. PercentEncoded(<<>>) = <<>>
  <2>1. Len(parts(<<>>)) = 0 /\ parts(<<>>) = <<>>
    OBVIOUS
  <2>2. QED
    BY <2>1 DEF PercentEncoded, FlattenSeq
<1>3. ASSUME NEW text \in Seq(PrintableBytes)
      PROVE  PercentEncoded(text) \in Seq(S)
  <2>1. FlattenSeq(parts(text)) \in Seq(S)
    <3>1. parts(text) \in Seq(Seq(S))
      BY <1>1
    <3> HIDE DEF parts, S
    <3>2. QED
      BY <3>1, FlattenLies
  <2>2. QED
    BY <2>1 DEF PercentEncoded
<1>4. ASSUME NEW text \in Seq(PrintableBytes), NEW byte \in PrintableBytes
      PROVE  PercentEncoded(Append(text, byte)) = PercentEncoded(text) \o EncodedByte(byte)
  <2>1. parts(Append(text, byte)) = Append(parts(text), EncodedByte(byte))
    <3> DEFINE longer == Append(text, byte)
               n == Len(text)
    <3>1. /\ n \in Nat /\ DOMAIN longer = 1..(n + 1) /\ DOMAIN text = 1..n
          /\ longer[n + 1] = byte /\ \A i \in 1..n : longer[i] = text[i]
      OBVIOUS
    <3>2. parts(text) \in Seq(Seq(S)) /\ Len(parts(text)) = n
      BY <1>1
    <3>3. /\ DOMAIN Append(parts(text), EncodedByte(byte)) = 1..(n + 1)
          /\ Append(parts(text), EncodedByte(byte))[n + 1] = EncodedByte(byte)
          /\ \A i \in 1..n : Append(parts(text), EncodedByte(byte))[i] = parts(text)[i]
          /\ Append(parts(text), EncodedByte(byte)) =
               [i \in 1..(n + 1) |-> Append(parts(text), EncodedByte(byte))[i]]
      <4> DEFINE p == parts(text)
                 e == EncodedByte(byte)
      <4>1. p \in Seq(Seq(S)) /\ Len(p) = n
        BY <3>2
      <4>2. e \in Seq(S)
        BY EncodedByteType
      <4> HIDE DEF p, e, S, n
      <4>3. Append(p, e) \in Seq(Seq(S)) /\ Len(Append(p, e)) = n + 1
        BY <3>1, <4>1, <4>2
      <4>4. QED
        BY <3>1, <4>1, <4>2, <4>3 DEF p, e
    <3>4. \A i \in 1..n : parts(text)[i] = EncodedByte(text[i])
      BY <3>1
    <3>5. parts(longer) = [i \in 1..(n + 1) |-> EncodedByte(longer[i])]
      BY <3>1
    <3> HIDE DEF parts, longer, n, S
    <3> DEFINE more == Append(parts(text), EncodedByte(byte))
    <3>6. ASSUME NEW i \in 1..(n + 1) PROVE EncodedByte(longer[i]) = more[i]
      <4>1. CASE i = n + 1
        BY <3>1, <3>3, <4>1
      <4>2. CASE i # n + 1
        <5>1. i \in 1..n
          BY <3>1, <4>2
        <5>2. QED
          BY <3>1, <3>3, <3>4, <5>1
      <4>3. QED
        BY <4>1, <4>2
    <3>7. more = [i \in 1..(n + 1) |-> more[i]]
      BY <3>3
    <3> HIDE DEF more
    <3>8. parts(longer) = more
      BY <3>5, <3>6, <3>7
    <3>9. QED
      BY <3>8 DEF longer, more
  <2>2. parts(text) \in Seq(Seq(S)) /\ EncodedByte(byte) \in Seq(S)
    BY <1>1, EncodedByteType
  <2>3. PercentEncoded(Append(text, byte)) = FlattenSeq(parts(Append(text, byte)))
        /\ PercentEncoded(text) = FlattenSeq(parts(text))
    BY DEF PercentEncoded
  <2> HIDE DEF parts, S
  <2>4. QED
    BY <2>1, <2>2, <2>3, FlattenAppend
<1>5. QED
  BY <1>2, <1>3, <1>4

(* decode_text's loop over the bytes of a value. *)
ReadsText(scans, raw) ==
    /\ scans[0] = [error |-> "NONE", text |-> <<>>, escape |-> <<>>]
    /\ \A i \in 0..(Len(raw) - 1) : scans[i + 1] = DecodeByte(scans[i], raw[i + 1])

(* An escape that has begun, or none. *)
Pending == {escape \in Seq(Nat) : Len(escape) <= 2}

TextScans == [error : {"NONE", "MALFORMED", "BAD_VALUE"},
              text : Seq(PrintableBytes), escape : Pending]

(* A text read, and nothing of the next byte. *)
Read(text) == [error |-> "NONE", text |-> text, escape |-> <<>>]

(* What has been read would take no more bytes to write. *)
Taken(scan) == Len(PercentEncoded(scan.text)) + Len(scan.escape)

(* Two sequences joined are as long as both.                               *)
LEMMA LengthsAdd ==
  ASSUME NEW S, NEW first \in Seq(S), NEW second \in Seq(S)
  PROVE  /\ first \o second \in Seq(S)
         /\ Len(first) \in Nat /\ Len(second) \in Nat
         /\ Len(first \o second) = Len(first) + Len(second)
OBVIOUS

(* The scans that a text is read by, and what may be pending in one.       *)
LEMMA ReadTypes ==
  /\ \A escape \in Pending : escape \in Seq(Nat) /\ Len(escape) \in 0..2
  /\ \A escape \in Seq(Nat) : Len(escape) <= 2 => escape \in Pending
  /\ \A text \in Seq(PrintableBytes) : Read(text) \in TextScans
  /\ \A text : /\ Read(text).error = "NONE" /\ Read(text).text = text
               /\ Read(text).escape = <<>>
<1>1. \A escape \in Pending : escape \in Seq(Nat) /\ Len(escape) \in 0..2
  <2> TAKE escape \in Pending
  <2>1. escape \in Seq(Nat) /\ Len(escape) <= 2
    BY DEF Pending
  <2> DEFINE length == Len(escape)
  <2>2. length \in Nat /\ length <= 2
    BY <2>1
  <2> HIDE DEF length
  <2>3. length \in 0..2
    BY <2>2
  <2>4. QED
    BY <2>1, <2>3 DEF length
<1>2. \A escape \in Seq(Nat) : Len(escape) <= 2 => escape \in Pending
  BY DEF Pending
<1>3. <<>> \in Pending
  <2>1. <<>> \in Seq(Nat) /\ Len(<<>>) = 0
    OBVIOUS
  <2>2. Len(<<>>) <= 2
    BY <2>1
  <2>3. QED
    BY <1>2, <2>1, <2>2
<1>4. \A text \in Seq(PrintableBytes) : Read(text) \in TextScans
  BY <1>3 DEF Read, TextScans
<1>5. \A text : /\ Read(text).error = "NONE" /\ Read(text).text = text
               /\ Read(text).escape = <<>>
  BY DEF Read
<1>6. QED
  BY <1>1, <1>2, <1>4, <1>5

(* A byte more is written in one byte or in three.                         *)
LEMMA EncodedLength ==
  ASSUME NEW text \in Seq(PrintableBytes)
  PROVE  /\ Len(PercentEncoded(text)) \in Nat
         /\ \A byte \in PrintableBytes :
              Len(PercentEncoded(Append(text, byte))) =
                Len(PercentEncoded(text)) + IF byte \in Unreserved THEN 1 ELSE 3
<1> DEFINE S == Unreserved \cup {EscapeByte}
           front == PercentEncoded(text)
<1>1. front \in Seq(S)
  BY EncodedText
<1>2. ASSUME NEW byte \in PrintableBytes
      PROVE  Len(PercentEncoded(Append(text, byte))) =
               Len(front) + IF byte \in Unreserved THEN 1 ELSE 3
  <2> DEFINE last == EncodedByte(byte)
  <2>1. last \in Seq(S) /\ Len(last) = IF byte \in Unreserved THEN 1 ELSE 3
    BY EncodedByteType
  <2>2. PercentEncoded(Append(text, byte)) = front \o last
    BY EncodedText
  <2> HIDE DEF front, last, S
  <2>3. Len(front \o last) = Len(front) + Len(last)
    <3>1. last \in Seq(S)
      BY <2>1
    <3>2. QED
      BY <1>1, <3>1, LengthsAdd
  <2>4. QED
    BY <2>1, <2>2, <2>3
<1>3. QED
  BY <1>1, <1>2

(* The byte that a scan adds to its text, when it adds one. *)
LEMMA ByteAdded ==
  ASSUME NEW scan \in TextScans, NEW next, NEW decoded, scan.error = "NONE",
         next = IF decoded \notin PrintableBytes THEN [scan EXCEPT !.error = "MALFORMED"]
                ELSE IF Len(scan.text) >= MaximumTextLength
                  THEN [scan EXCEPT !.error = "BAD_VALUE"]
                ELSE [scan EXCEPT !.text = Append(@, decoded), !.escape = <<>>]
  PROVE  /\ next \in TextScans
         /\ next.error = "NONE" =>
              /\ decoded \in PrintableBytes
              /\ Taken(next) =
                   Len(PercentEncoded(scan.text)) + IF decoded \in Unreserved THEN 1 ELSE 3
         /\ decoded \in PrintableBytes /\ Len(scan.text) < MaximumTextLength =>
              next = Read(Append(scan.text, decoded))
<1>0. /\ scan.text \in Seq(PrintableBytes) /\ Len(scan.text) \in Nat
      /\ MaximumTextLength \in Nat
  BY BoundsAssumption DEF TextScans, MaximumTextLength
<1>1. CASE decoded \notin PrintableBytes
  <2>1. next = [scan EXCEPT !.error = "MALFORMED"]
    BY <1>1
  <2>2. next \in TextScans /\ next.error = "MALFORMED"
    BY <2>1 DEF TextScans
  <2>3. QED
    BY <1>1, <2>2
<1>2. CASE decoded \in PrintableBytes /\ Len(scan.text) >= MaximumTextLength
  <2>1. next = [scan EXCEPT !.error = "BAD_VALUE"]
    BY <1>2
  <2>2. next \in TextScans /\ next.error = "BAD_VALUE"
    BY <2>1 DEF TextScans
  <2>3. ~(Len(scan.text) < MaximumTextLength)
    BY <1>0, <1>2
  <2>4. QED
    BY <2>2, <2>3
<1>3. CASE decoded \in PrintableBytes /\ ~(Len(scan.text) >= MaximumTextLength)
  <2> DEFINE text == Append(scan.text, decoded)
  <2>1. next = [scan EXCEPT !.text = text, !.escape = <<>>]
    BY <1>3
  <2>2. text \in Seq(PrintableBytes)
    BY <1>0, <1>3
  <2>3. Len(PercentEncoded(text)) =
          Len(PercentEncoded(scan.text)) + IF decoded \in Unreserved THEN 1 ELSE 3
    BY <1>0, <1>3, EncodedLength
  <2>4. Len(PercentEncoded(text)) \in Nat
    BY <2>2, EncodedLength
  <2> HIDE DEF text
  <2>5. next = Read(text)
    BY <2>1 DEF TextScans, Read
  <2>6. next \in TextScans
    BY <2>2, <2>5, ReadTypes
  <2>7. Taken(next) = Len(PercentEncoded(text))
    <3>1. next.text = text /\ next.escape = <<>>
      BY <2>5, ReadTypes
    <3>2. Taken(next) = Len(PercentEncoded(text)) + Len(<<>>)
      BY <3>1 DEF Taken
    <3>3. QED
      BY <2>4, <3>2
  <2>8. QED
    BY <1>3, <2>3, <2>5, <2>6, <2>7 DEF text
<1>4. QED
  BY <1>1, <1>2, <1>3

(* A byte read is a byte, or less, of what would be written. *)
LEMMA ByteRead ==
  ASSUME NEW scan \in TextScans, NEW byte \in Nat
  PROVE  /\ DecodeByte(scan, byte) \in TextScans
         /\ DecodeByte(scan, byte).error = "NONE" =>
              /\ scan.error = "NONE"
              /\ Taken(DecodeByte(scan, byte)) <= Taken(scan) + 1
<1> DEFINE pending == Append(scan.escape, byte)
           high == HexadecimalValue(pending[2])
           low == HexadecimalValue(pending[3])
           next == DecodeByte(scan, byte)
           written == Len(PercentEncoded(scan.text))
<1>0. /\ scan.text \in Seq(PrintableBytes)
      /\ scan.escape \in Seq(Nat) /\ Len(scan.escape) \in 0..2
      /\ written \in Nat /\ Taken(scan) = written + Len(scan.escape)
  <2>1. /\ scan.text \in Seq(PrintableBytes)
        /\ scan.escape \in Seq(Nat) /\ Len(scan.escape) \in 0..2
    BY ReadTypes DEF TextScans
  <2>2. QED
    BY <2>1, EncodedLength DEF Taken
<1>1. CASE scan.error # "NONE"
  BY <1>1 DEF DecodeByte
<1>2. CASE /\ scan.error = "NONE" /\ (scan.escape # <<>> \/ byte = EscapeByte)
           /\ Len(pending) < 3
  <2>1. next = [scan EXCEPT !.escape = pending]
    BY <1>2 DEF DecodeByte
  <2>2. pending \in Seq(Nat) /\ Len(pending) = Len(scan.escape) + 1
    BY <1>0
  <2> HIDE DEF pending
  <2>3. /\ next \in TextScans /\ next.text = scan.text /\ next.escape = pending
    <3>1. pending \in Pending
      <4>1. Len(pending) <= 2
        BY <1>0, <1>2, <2>2
      <4>2. QED
        BY <2>2, <4>1, ReadTypes
    <3>2. QED
      BY <1>2, <2>1, <3>1 DEF TextScans
  <2> HIDE DEF next
  <2>4. Taken(next) = written + Len(pending)
    BY <2>3 DEF Taken
  <2>5. Taken(next) <= Taken(scan) + 1
    <3> DEFINE a == Len(scan.escape)
               b == Len(pending)
    <3>1. /\ written \in Nat /\ a \in 0..2 /\ b = a + 1
          /\ Taken(next) = written + b /\ Taken(scan) = written + a
      BY <1>0, <2>2, <2>4
    <3> HIDE DEF a, b, written
    <3>2. QED
      BY <3>1
  <2>6. QED
    BY <1>2, <2>3, <2>5 DEF next
<1>3. CASE /\ scan.error = "NONE" /\ (scan.escape # <<>> \/ byte = EscapeByte)
           /\ ~(Len(pending) < 3)
  <2>1. Len(scan.escape) = 2
    <3> DEFINE a == Len(scan.escape)
               b == Len(pending)
    <3>1. a \in 0..2 /\ b = a + 1 /\ ~(b < 3)
      BY <1>0, <1>3
    <3> HIDE DEF a, b
    <3>2. a = 2
      BY <3>1
    <3>3. QED
      BY <3>2 DEF a
  <2>2. CASE 16 \in {high, low}
    <3>1. next = [scan EXCEPT !.error = "MALFORMED"]
      BY <1>3, <2>2 DEF DecodeByte
    <3>2. next \in TextScans /\ next.error = "MALFORMED"
      BY <3>1 DEF TextScans
    <3> HIDE DEF next
    <3>3. QED
      BY <3>2 DEF next
  <2>3. CASE ~(16 \in {high, low})
    <3> DEFINE decoded == 16 * high + low
    <3>1. next = IF decoded \notin PrintableBytes THEN [scan EXCEPT !.error = "MALFORMED"]
                 ELSE IF Len(scan.text) >= MaximumTextLength
                   THEN [scan EXCEPT !.error = "BAD_VALUE"]
                 ELSE [scan EXCEPT !.text = Append(@, decoded), !.escape = <<>>]
      BY <1>3, <2>3 DEF DecodeByte
    <3> HIDE DEF decoded, next
    <3>2. /\ next \in TextScans
          /\ next.error = "NONE" =>
               Taken(next) = written + IF decoded \in Unreserved THEN 1 ELSE 3
      BY <1>3, <3>1, ByteAdded
    <3>3. next.error = "NONE" => Taken(next) <= Taken(scan) + 1
      <4>1. written \in Nat /\ Taken(scan) = written + 2
        BY <1>0, <2>1
      <4> HIDE DEF written
      <4>2. QED
        BY <3>2, <4>1
    <3>4. QED
      BY <1>3, <3>2, <3>3 DEF next
  <2>4. QED
    BY <2>2, <2>3
<1>4. CASE scan.error = "NONE" /\ ~(scan.escape # <<>> \/ byte = EscapeByte)
  <2>1. CASE byte \notin Unreserved
    <3>1. next = [scan EXCEPT !.error = "MALFORMED"]
      BY <1>4, <2>1 DEF DecodeByte
    <3>2. next \in TextScans /\ next.error = "MALFORMED"
      BY <3>1 DEF TextScans
    <3> HIDE DEF next
    <3>3. QED
      BY <3>2 DEF next
  <2>2. CASE byte \in Unreserved
    <3>1. next = IF byte \notin PrintableBytes THEN [scan EXCEPT !.error = "MALFORMED"]
                 ELSE IF Len(scan.text) >= MaximumTextLength
                   THEN [scan EXCEPT !.error = "BAD_VALUE"]
                 ELSE [scan EXCEPT !.text = Append(@, byte), !.escape = <<>>]
      BY <1>4, <2>2 DEF DecodeByte
    <3> HIDE DEF next
    <3>2. /\ next \in TextScans
          /\ next.error = "NONE" =>
               Taken(next) = written + IF byte \in Unreserved THEN 1 ELSE 3
      BY <1>4, <3>1, ByteAdded
    <3>3. next.error = "NONE" => Taken(next) <= Taken(scan) + 1
      <4> DEFINE a == Len(scan.escape)
      <4>1. written \in Nat /\ a \in 0..2 /\ Taken(scan) = written + a
        BY <1>0
      <4> HIDE DEF written, a
      <4>2. next.error = "NONE" => Taken(next) = written + 1
        BY <2>2, <3>2
      <4>3. QED
        BY <4>1, <4>2
    <3>4. QED
      BY <1>4, <3>2, <3>3 DEF next
  <2>3. QED
    BY <2>1, <2>2
<1>5. QED
  BY <1>1, <1>2, <1>3, <1>4

(* decode_text, as its loop ends.                                          *)
LEMMA TextScanned ==
  ASSUME NEW field, NEW raw \in Seq(Nat)
  PROVE  \E scans :
           /\ ReadsText(scans, raw)
           /\ \A i \in 0..Len(raw) : scans[i] \in TextScans
           /\ DecodedText(field, raw) =
                IF scans[Len(raw)].error # "NONE" THEN Refused(scans[Len(raw)].error)
                ELSE IF scans[Len(raw)].escape # <<>> THEN Refused("MALFORMED")
                ELSE Accepted(field, Text(scans[Len(raw)].text))
<1> DEFINE n == Len(raw)
           start == [error |-> "NONE", text |-> <<>>, escape |-> <<>>]
           step == [at \in TextScans \X (1..n) |-> DecodeByte(at[1], raw[at[2]])]
           Defines(f) == f = [i \in 0..n |-> IF i = 0 THEN start
                                             ELSE DecodeByte(f[i - 1], raw[i])]
           scans == CHOOSE f : Defines(f)
<1>0. n \in Nat /\ \A i \in 1..n : raw[i] \in Nat
  OBVIOUS
<1>1. start \in TextScans
  <2>1. <<>> \in Seq(PrintableBytes)
    OBVIOUS
  <2>2. QED
    BY <2>1, ReadTypes DEF Read
<1>2. step \in [TextScans \X (1..n) -> TextScans]
  <2>1. ASSUME NEW at \in TextScans \X (1..n) PROVE DecodeByte(at[1], raw[at[2]]) \in TextScans
    BY <1>0, ByteRead
  <2>2. QED
    BY <2>1
<1>3. PICK run : IsRun(run, TextScans, start, step, n)
  <2> HIDE DEF step, start, n
  <2>1. QED
    BY <1>0, <1>1, <1>2, RunExists
<1>4. /\ run \in [0..n -> TextScans] /\ run[0] = start
      /\ \A i \in 0..(n - 1) : run[i + 1] = step[<<run[i], i + 1>>]
  BY <1>3 DEF IsRun
<1>5. ASSUME NEW i \in 0..(n - 1) PROVE run[i + 1] = DecodeByte(run[i], raw[i + 1])
  <2>1. i \in 0..n /\ i + 1 \in 1..n
    BY <1>0
  <2>2. <<run[i], i + 1>> \in TextScans \X (1..n)
    BY <1>4, <2>1
  <2>3. step[<<run[i], i + 1>>] = DecodeByte(run[i], raw[i + 1])
    BY <2>2
  <2> HIDE DEF step
  <2>4. QED
    BY <1>4, <2>3
<1> HIDE DEF start, step, n
<1>6. Defines(run)
  <2>1. ASSUME NEW i \in 0..n
        PROVE  run[i] = IF i = 0 THEN start ELSE DecodeByte(run[i - 1], raw[i])
    <3>1. CASE i = 0
      BY <1>4, <3>1
    <3>2. CASE i # 0
      <4>1. i - 1 \in 0..(n - 1) /\ (i - 1) + 1 = i
        BY <1>0, <3>2
      <4>2. run[(i - 1) + 1] = DecodeByte(run[i - 1], raw[(i - 1) + 1])
        BY <1>5, <4>1
      <4>3. QED
        BY <3>2, <4>1, <4>2
    <3>3. QED
      BY <3>1, <3>2
  <2>2. run = [i \in 0..n |-> run[i]]
    BY <1>4
  <2>3. QED
    BY <2>1, <2>2
<1>7. Defines(scans)
  <2> HIDE DEF Defines
  <2>1. QED
    BY <1>6
<1>8. DecodedText(field, raw) =
        IF scans[n].error # "NONE" THEN Refused(scans[n].error)
        ELSE IF scans[n].escape # <<>> THEN Refused("MALFORMED")
        ELSE Accepted(field, Text(scans[n].text))
  BY DEF DecodedText, start, n
<1> HIDE DEF scans
<1>9. scans[0] = start /\ \A i \in 0..(n - 1) : scans[i + 1] = DecodeByte(scans[i], raw[i + 1])
  <2>1. 0 \in 0..n
    BY <1>0
  <2>2. ASSUME NEW i \in 0..(n - 1) PROVE scans[i + 1] = DecodeByte(scans[i], raw[i + 1])
    <3>1. i + 1 \in 0..n /\ i + 1 # 0 /\ (i + 1) - 1 = i
      BY <1>0
    <3>2. scans[i + 1] = DecodeByte(scans[(i + 1) - 1], raw[i + 1])
      BY <1>7, <3>1
    <3>3. QED
      BY <3>1, <3>2
  <2>3. scans[0] = start
    BY <1>7, <2>1
  <2>4. QED
    BY <2>2, <2>3
<1>10. \A i \in 0..n : scans[i] \in TextScans
  <2> DEFINE T == {i \in 0..n : scans[i] \in TextScans}
  <2>1. 0 \in T
    BY <1>0, <1>1, <1>9
  <2>2. ASSUME NEW i \in 0..(n - 1), i \in T PROVE i + 1 \in T
    <3>1. i + 1 \in 1..n /\ raw[i + 1] \in Nat /\ i + 1 \in 0..n
      BY <1>0
    <3>2. DecodeByte(scans[i], raw[i + 1]) \in TextScans
      BY <2>2, <3>1, ByteRead
    <3>3. QED
      BY <1>9, <3>1, <3>2
  <2> HIDE DEF T
  <2>3. \A i \in 0..n : i \in T
    BY <1>0, <2>1, <2>2, ByNext
  <2>4. QED
    BY <2>3 DEF T
<1>11. ReadsText(scans, raw)
  BY <1>9 DEF ReadsText, start, n
<1>12. QED
  BY <1>8, <1>10, <1>11 DEF n

(* The bytes of what is read in two parts. *)
LEMMA ReadInParts ==
  ASSUME NEW first \in Seq(Nat), NEW second \in Seq(Nat), NEW scans,
         ReadsText(scans, first \o second)
  PROVE  /\ ReadsText(scans, first)
         /\ \A j \in 0..(Len(second) - 1) :
              scans[Len(first) + j + 1] = DecodeByte(scans[Len(first) + j], second[j + 1])
<1> DEFINE whole == first \o second
           m == Len(first)
           n == Len(second)
<1>1. m \in Nat /\ n \in Nat /\ Len(whole) = m + n
  OBVIOUS
<1>2. ASSUME NEW i \in 0..(m - 1) PROVE scans[i + 1] = DecodeByte(scans[i], first[i + 1])
  <2>1. i + 1 \in 1..m /\ i \in 0..(Len(whole) - 1)
    BY <1>1
  <2>2. whole[i + 1] = first[i + 1]
    BY <2>1
  <2>3. QED
    BY <2>1, <2>2 DEF ReadsText
<1>3. ASSUME NEW j \in 0..(n - 1)
      PROVE  scans[m + j + 1] = DecodeByte(scans[m + j], second[j + 1])
  <2>1. /\ j + 1 \in 1..n /\ m + j \in 0..(Len(whole) - 1)
        /\ (m + j) + 1 = m + (j + 1) /\ m + j + 1 = (m + j) + 1
    BY <1>1
  <2>2. whole[m + (j + 1)] = second[j + 1]
    BY <2>1
  <2>3. scans[(m + j) + 1] = DecodeByte(scans[m + j], whole[(m + j) + 1])
    BY <2>1 DEF ReadsText
  <2>4. QED
    BY <2>1, <2>2, <2>3
<1>4. QED
  BY <1>2, <1>3 DEF ReadsText

(* A byte that needs no escape is read at once, an escape at its third.    *)
LEMMA PlainByte ==
  ASSUME NEW text \in Seq(PrintableBytes), Len(text) < MaximumTextLength,
         NEW byte \in PrintableBytes, byte \in Unreserved
  PROVE  DecodeByte(Read(text), byte) = Read(Append(text, byte))
<1> DEFINE scan == Read(text)
           next == DecodeByte(scan, byte)
<1>1. /\ scan \in TextScans /\ scan.error = "NONE" /\ scan.text = text
      /\ scan.escape = <<>>
  BY ReadTypes
<1>2. byte # EscapeByte
  BY DEF EscapeByte, Unreserved
<1> HIDE DEF scan
<1>3. next = IF byte \notin PrintableBytes THEN [scan EXCEPT !.error = "MALFORMED"]
             ELSE IF Len(scan.text) >= MaximumTextLength
               THEN [scan EXCEPT !.error = "BAD_VALUE"]
             ELSE [scan EXCEPT !.text = Append(@, byte), !.escape = <<>>]
  BY <1>1, <1>2 DEF DecodeByte
<1> HIDE DEF next
<1>4. next = Read(Append(scan.text, byte))
  BY <1>1, <1>3, ByteAdded
<1>5. QED
  BY <1>1, <1>4 DEF next, scan

(* The three bytes of an escape.                                           *)
LEMMA EscapedByte ==
  ASSUME NEW text \in Seq(PrintableBytes), Len(text) < MaximumTextLength,
         NEW byte \in PrintableBytes,
         NEW high \in Nat, NEW low \in Nat,
         HexadecimalValue(high) \in 0..15, HexadecimalValue(low) \in 0..15,
         16 * HexadecimalValue(high) + HexadecimalValue(low) = byte
  PROVE  DecodeByte(DecodeByte(DecodeByte(Read(text), EscapeByte), high), low)
           = Read(Append(text, byte))
<1> DEFINE begun == [error |-> "NONE", text |-> text, escape |-> <<EscapeByte>>]
           scan == [error |-> "NONE", text |-> text, escape |-> <<EscapeByte, high>>]
           next == DecodeByte(scan, low)
<1>1. DecodeByte(Read(text), EscapeByte) = begun
  BY DEF DecodeByte, Read
<1>2. DecodeByte(begun, high) = scan
  BY DEF DecodeByte
<1>3. /\ scan \in TextScans /\ scan.error = "NONE" /\ scan.text = text
      /\ scan.escape = <<EscapeByte, high>>
  <2>1. <<EscapeByte, high>> \in Seq(Nat) /\ Len(<<EscapeByte, high>>) = 2
    BY DEF EscapeByte
  <2> DEFINE escape == <<EscapeByte, high>>
  <2> HIDE DEF escape
  <2>2. escape \in Pending
    <3>1. escape \in Seq(Nat) /\ Len(escape) <= 2
      BY <2>1 DEF escape
    <3>2. QED
      BY <3>1, ReadTypes
  <2>3. QED
    BY <2>2 DEF TextScans, escape
<1> HIDE DEF scan
<1>4. next = IF byte \notin PrintableBytes THEN [scan EXCEPT !.error = "MALFORMED"]
             ELSE IF Len(scan.text) >= MaximumTextLength
               THEN [scan EXCEPT !.error = "BAD_VALUE"]
             ELSE [scan EXCEPT !.text = Append(@, byte), !.escape = <<>>]
  <2> DEFINE pending == Append(scan.escape, low)
  <2>1. Len(pending) = 3 /\ pending[2] = high /\ pending[3] = low
    BY <1>3
  <2> HIDE DEF pending
  <2>2. /\ scan.escape # <<>> /\ ~(Len(pending) < 3)
        /\ ~(16 \in {HexadecimalValue(pending[2]), HexadecimalValue(pending[3])})
        /\ 16 * HexadecimalValue(pending[2]) + HexadecimalValue(pending[3]) = byte
    <3>1. scan.escape # <<>>
      <4>1. Len(<<EscapeByte, high>>) = 2 /\ Len(<<>>) = 0
        OBVIOUS
      <4>2. <<EscapeByte, high>> # <<>>
        BY <4>1
      <4>3. QED
        BY <1>3, <4>2
    <3>2. /\ HexadecimalValue(pending[2]) = HexadecimalValue(high)
          /\ HexadecimalValue(pending[3]) = HexadecimalValue(low)
      BY <2>1
    <3>3. 16 \notin 0..15
      OBVIOUS
    <3>4. HexadecimalValue(high) # 16 /\ HexadecimalValue(low) # 16
      BY <3>3
    <3>5. 16 * HexadecimalValue(pending[2]) + HexadecimalValue(pending[3]) = byte
      BY <3>2
    <3>6. ~(16 \in {HexadecimalValue(pending[2]), HexadecimalValue(pending[3])})
      BY <3>2, <3>4
    <3>7. ~(Len(pending) < 3)
      BY <2>1
    <3>8. QED
      BY <3>1, <3>5, <3>6, <3>7
  <2>3. QED
    BY <1>3, <2>2 DEF DecodeByte, pending
<1> HIDE DEF next
<1>5. next = Read(Append(scan.text, byte))
  BY <1>3, <1>4, ByteAdded
<1>6. QED
  BY <1>1, <1>2, <1>3, <1>5 DEF next

(* So a byte is read from what is written for it, escaped or not.          *)
LEMMA ByteIsRead ==
  ASSUME NEW text \in Seq(PrintableBytes), Len(text) < MaximumTextLength,
         NEW byte \in PrintableBytes, NEW scans, NEW k \in Nat, scans[k] = Read(text),
         \A j \in 0..(Len(EncodedByte(byte)) - 1) :
            scans[k + j + 1] = DecodeByte(scans[k + j], EncodedByte(byte)[j + 1])
  PROVE  scans[k + Len(EncodedByte(byte))] = Read(Append(text, byte))
<1> DEFINE written == EncodedByte(byte)
           high == HexadecimalDigit(byte \div 16)
           low == HexadecimalDigit(byte % 16)
<1>1. CASE byte \in Unreserved
  <2>1. Len(written) = 1 /\ written[1] = byte
    BY <1>1 DEF EncodedByte
  <2>2. 0 \in 0..(Len(written) - 1) /\ k + 0 + 1 = k + 1 /\ k + 0 = k /\ 0 + 1 = 1
    BY <2>1
  <2>3. scans[k + 1] = DecodeByte(scans[k], byte)
    BY <2>1, <2>2
  <2>4. scans[k + 1] = Read(Append(text, byte))
    BY <1>1, <2>3, PlainByte
  <2>5. QED
    BY <2>1, <2>4
<1>2. CASE byte \notin Unreserved
  <2>1. written = <<EscapeByte, high, low>>
    BY <1>2 DEF EncodedByte, Escaped
  <2>2. /\ high \in Nat /\ low \in Nat
        /\ HexadecimalValue(high) \in 0..15 /\ HexadecimalValue(low) \in 0..15
        /\ 16 * HexadecimalValue(high) + HexadecimalValue(low) = byte
    <3>1. Unreserved \subseteq Nat
      BY DEF Unreserved
    <3>2. /\ high \in Unreserved /\ low \in Unreserved
          /\ HexadecimalValue(high) \in 0..15 /\ HexadecimalValue(low) \in 0..15
          /\ 16 * HexadecimalValue(high) + HexadecimalValue(low) = byte
      BY HexadecimalDigits
    <3>3. QED
      BY <3>1, <3>2
  <2> HIDE DEF high, low
  <2>3. /\ Len(written) = 3 /\ written[1] = EscapeByte /\ written[2] = high
        /\ written[3] = low
    BY <2>1
  <2> HIDE DEF written
  <2>4. \A j \in 0..2 : scans[k + j + 1] = DecodeByte(scans[k + j], written[j + 1])
    BY <2>3 DEF written
  <2>5. /\ scans[k + 1] = DecodeByte(scans[k], EscapeByte)
        /\ scans[k + 2] = DecodeByte(scans[k + 1], high)
        /\ scans[k + 3] = DecodeByte(scans[k + 2], low)
    <3>1. /\ k + 0 + 1 = k + 1 /\ k + 0 = k /\ k + 1 + 1 = k + 2 /\ k + 2 + 1 = k + 3
          /\ 0 + 1 = 1 /\ 1 + 1 = 2 /\ 2 + 1 = 3 /\ {0, 1, 2} \subseteq 0..2
      OBVIOUS
    <3>2. scans[k + 0 + 1] = DecodeByte(scans[k + 0], written[0 + 1])
      BY <2>4, <3>1
    <3>3. scans[k + 1 + 1] = DecodeByte(scans[k + 1], written[1 + 1])
      BY <2>4, <3>1
    <3>4. scans[k + 2 + 1] = DecodeByte(scans[k + 2], written[2 + 1])
      BY <2>4, <3>1
    <3>5. QED
      BY <2>3, <3>1, <3>2, <3>3, <3>4
  <2>6. DecodeByte(DecodeByte(DecodeByte(Read(text), EscapeByte), high), low)
          = Read(Append(text, byte))
    BY <2>2, EscapedByte
  <2>7. scans[k + 3] = Read(Append(text, byte))
    BY <2>5, <2>6
  <2>8. QED
    BY <2>3, <2>7 DEF written
<1>3. QED
  BY <1>1, <1>2

(* A sequence of some set is one of every set that holds its elements.     *)
LEMMA WiderSequence ==
  ASSUME NEW S, NEW sequence \in Seq(S), NEW T,
         \A i \in 1..Len(sequence) : sequence[i] \in T
  PROVE  sequence \in Seq(T)
<1> DEFINE n == Len(sequence)
<1>1. n \in Nat /\ sequence = [i \in 1..n |-> sequence[i]]
  OBVIOUS
<1> HIDE DEF n
<1>2. \A i \in 1..n : sequence[i] \in T
  BY DEF n
<1>3. [i \in 1..n |-> sequence[i]] \in Seq(T)
  BY <1>1, <1>2
<1>4. QED
  BY <1>1, <1>3

(* Nor does it matter how much else the set holds.                         *)
LEMMA SequenceOfSubset ==
  ASSUME NEW S, NEW sequence \in Seq(S), NEW T, S \subseteq T
  PROVE  sequence \in Seq(T)
<1>1. \A i \in 1..Len(sequence) : sequence[i] \in S
  OBVIOUS
<1>2. \A i \in 1..Len(sequence) : sequence[i] \in T
  BY <1>1
<1>3. QED
  BY <1>2, WiderSequence

(* Nothing a text is written in needs an escape or is a separator.         *)
LEMMA PlainSequences ==
  \A bytes \in Seq(Unreserved \cup {EscapeByte}) :
    bytes \in Seq(Nat) /\ bytes \in Seq(33..126)
<1>1. Unreserved \cup {EscapeByte} \subseteq Nat /\ Unreserved \cup {EscapeByte} \subseteq 33..126
  BY DEF Unreserved, EscapeByte
<1>2. QED
  BY <1>1, SequenceOfSubset

(* A text that is written is read. *)
LEMMA TextIsRead ==
  ASSUME NEW text \in Seq(PrintableBytes), Len(text) <= MaximumTextLength,
         NEW scans, ReadsText(scans, PercentEncoded(text))
  PROVE  scans[Len(PercentEncoded(text))] = Read(text)
<1> DEFINE n == Len(text)
           prefix(i) == SubSeq(text, 1, i)
           written(i) == PercentEncoded(prefix(i))
           S == {i \in 0..n : ReadsText(scans, written(i)) =>
                                scans[Len(written(i))] = Read(prefix(i))}
<1>0. n \in Nat /\ MaximumTextLength \in Nat /\ n <= MaximumTextLength
  BY BoundsAssumption DEF MaximumTextLength
<1>1. ASSUME NEW i \in 0..n
      PROVE  prefix(i) \in Seq(PrintableBytes) /\ Len(prefix(i)) = i
  BY <1>0
<1>2. 0 \in S
  <2>1. prefix(0) = <<>>
    OBVIOUS
  <2>2. written(0) = <<>>
    BY <2>1, EncodedText
  <2>3. Len(written(0)) = 0
    BY <2>2
  <2>4. ReadsText(scans, written(0)) => scans[0] = Read(<<>>)
    BY DEF ReadsText, Read
  <2>5. 0 \in 0..n
    BY <1>0
  <2> HIDE DEF written, prefix
  <2>6. QED
    BY <2>1, <2>3, <2>4, <2>5
<1>3. ASSUME NEW i \in 0..(n - 1), i \in S PROVE i + 1 \in S
  <2> DEFINE byte == text[i + 1]
             first == written(i)
             second == EncodedByte(byte)
  <2>1. i \in 0..n /\ i + 1 \in 0..n /\ i + 1 \in 1..n /\ i < n /\ i \in Nat
    BY <1>0
  <2>2. byte \in PrintableBytes /\ prefix(i + 1) = Append(prefix(i), byte)
    <3>1. byte \in PrintableBytes
      BY <2>1
    <3>2. prefix(i + 1) = Append(prefix(i), byte)
      BY <2>1
    <3>3. QED
      BY <3>1, <3>2
  <2>3. prefix(i) \in Seq(PrintableBytes) /\ Len(prefix(i)) = i
    BY <1>1, <2>1
  <2>4. ReadsText(scans, first) => scans[Len(first)] = Read(prefix(i))
    BY <1>3
  <2> HIDE DEF S, byte, prefix
  <2>5. written(i + 1) = first \o second
    BY <2>2, <2>3, EncodedText
  <2>6. first \in Seq(Nat) /\ second \in Seq(Nat)
    <3>2. /\ first \in Seq(Unreserved \cup {EscapeByte})
          /\ second \in Seq(Unreserved \cup {EscapeByte})
      BY <2>2, <2>3, EncodedText, EncodedByteType
    <3> HIDE DEF first, second
    <3>3. QED
      BY <3>2, PlainSequences
  <2>7. ASSUME ReadsText(scans, first \o second)
        PROVE  scans[Len(first \o second)] = Read(prefix(i + 1))
    <3> HIDE DEF first
    <3>1. /\ ReadsText(scans, first)
          /\ \A j \in 0..(Len(second) - 1) :
               scans[Len(first) + j + 1] = DecodeByte(scans[Len(first) + j], second[j + 1])
      BY <2>6, <2>7, ReadInParts
    <3>2. scans[Len(first)] = Read(prefix(i))
      BY <2>4, <3>1
    <3>3. Len(first) \in Nat /\ Len(first \o second) = Len(first) + Len(second)
      BY <2>6, LengthsAdd
    <3>4. Len(prefix(i)) < MaximumTextLength
      BY <1>0, <2>1, <2>3
    <3>5. scans[Len(first) + Len(second)] = Read(Append(prefix(i), byte))
      BY <2>2, <2>3, <3>1, <3>2, <3>3, <3>4, ByteIsRead
    <3>6. QED
      BY <2>2, <3>3, <3>5
  <2> HIDE DEF first, second
  <2>8. ReadsText(scans, written(i + 1)) =>
          scans[Len(written(i + 1))] = Read(prefix(i + 1))
    BY <2>5, <2>7
  <2> HIDE DEF written
  <2>9. QED
    BY <2>1, <2>8 DEF S
<1> HIDE DEF S, n
<1>4. \A i \in 0..n : i \in S
  BY <1>0, <1>2, <1>3, ByNext
<1>5. n \in 0..n /\ prefix(n) = text
  BY <1>0 DEF n
<1>6. QED
  <2>1. n \in S
    BY <1>4, <1>5
  <2>2. ReadsText(scans, written(n)) => scans[Len(written(n))] = Read(prefix(n))
    BY <2>1 DEF S
  <2>3. written(n) = PercentEncoded(text)
    BY <1>5
  <2> HIDE DEF written, prefix
  <2>4. QED
    BY <1>5, <2>2, <2>3

(* What has been read of a text is no longer, written again, than what it  *)
(* was read from.                                                          *)
LEMMA ReadIsNoLonger ==
  ASSUME NEW raw \in Seq(Nat), NEW scans, ReadsText(scans, raw),
         \A i \in 0..Len(raw) : scans[i] \in TextScans,
         scans[Len(raw)].error = "NONE"
  PROVE  Len(PercentEncoded(scans[Len(raw)].text)) <= Len(raw)
<1> DEFINE n == Len(raw)
           T == {i \in 0..n : scans[i].error = "NONE" => Taken(scans[i]) <= i}
<1>0. n \in Nat /\ \A i \in 1..n : raw[i] \in Nat
  OBVIOUS
<1>1. ASSUME NEW scan \in TextScans
      PROVE  /\ Taken(scan) \in Nat /\ Len(PercentEncoded(scan.text)) \in Nat
             /\ Len(PercentEncoded(scan.text)) <= Taken(scan)
  <2> DEFINE a == Len(PercentEncoded(scan.text))
             b == Len(scan.escape)
  <2>1. a \in Nat /\ b \in 0..2
    BY EncodedLength, ReadTypes DEF TextScans
  <2>2. Taken(scan) = a + b
    BY DEF Taken
  <2> HIDE DEF a, b
  <2>3. a + b \in Nat /\ a <= a + b
    BY <2>1
  <2>4. QED
    BY <2>1, <2>2, <2>3 DEF a
<1>2. 0 \in T
  <2>1. scans[0] = Read(<<>>)
    BY DEF ReadsText, Read
  <2>2. scans[0].text = <<>> /\ scans[0].escape = <<>>
    BY <2>1, ReadTypes
  <2>3. Taken(scans[0]) = Len(<<>>) + Len(<<>>)
    BY <2>2, EncodedText DEF Taken
  <2>4. QED
    BY <1>0, <2>3
<1>3. ASSUME NEW i \in 0..(n - 1), i \in T PROVE i + 1 \in T
  <2>1. i \in 0..n /\ i + 1 \in 0..n /\ i + 1 \in 1..n /\ i \in Nat
    BY <1>0
  <2>2. scans[i + 1] = DecodeByte(scans[i], raw[i + 1])
    BY DEF ReadsText
  <2>3. scans[i] \in TextScans /\ scans[i + 1] \in TextScans /\ raw[i + 1] \in Nat
    BY <1>0, <2>1
  <2>4. scans[i + 1].error = "NONE" =>
          /\ scans[i].error = "NONE"
          /\ Taken(scans[i + 1]) <= Taken(scans[i]) + 1
    BY <2>2, <2>3, ByteRead
  <2>5. scans[i].error = "NONE" => Taken(scans[i]) <= i
    BY <1>3
  <2> DEFINE a == Taken(scans[i])
             b == Taken(scans[i + 1])
  <2>6. a \in Nat /\ b \in Nat
    BY <1>1, <2>3
  <2> HIDE DEF a, b
  <2>7. scans[i + 1].error = "NONE" => b <= i + 1
    <3>1. ASSUME scans[i + 1].error = "NONE" PROVE b <= i + 1
      <4>1. b <= a + 1 /\ a <= i
        BY <2>4, <2>5, <3>1 DEF a, b
      <4>2. QED
        BY <2>1, <2>6, <4>1
    <3>2. QED
      BY <3>1
  <2>8. QED
    BY <2>1, <2>7 DEF b
<1> HIDE DEF T
<1>4. \A i \in 0..n : i \in T
  <2> HIDE DEF n
  <2>1. QED
    BY <1>0, <1>2, <1>3, ByNext
<1>5. Taken(scans[n]) <= n /\ scans[n] \in TextScans
  <2>1. n \in 0..n
    BY <1>0
  <2>2. n \in T
    BY <1>4, <2>1
  <2>3. QED
    BY <2>1, <2>2 DEF T
<1>6. QED
  <2> DEFINE a == Taken(scans[n])
             b == Len(PercentEncoded(scans[n].text))
  <2>1. a \in Nat /\ b \in Nat /\ b <= a /\ a <= n
    BY <1>1, <1>5
  <2> HIDE DEF a, b, n
  <2>2. b <= n
    BY <1>0, <2>1
  <2>3. QED
    BY <2>2 DEF b, n

(* A text field reads what is written for it.                              *)
LEMMA TextReads ==
  ASSUME NEW field, NEW text \in Seq(PrintableBytes), Len(text) <= MaximumTextLength,
         IsValid(field, Text(text))
  PROVE  DecodedText(field, PercentEncoded(text)) = [error |-> "NONE", value |-> Text(text)]
<1> DEFINE raw == PercentEncoded(text)
<1>1. raw \in Seq(Nat)
  <2>2. raw \in Seq(Unreserved \cup {EscapeByte})
    BY EncodedText
  <2> HIDE DEF raw
  <2>3. QED
    BY <2>2, PlainSequences
<1> HIDE DEF raw
<1>2. PICK scans :
        /\ ReadsText(scans, raw)
        /\ DecodedText(field, raw) =
             IF scans[Len(raw)].error # "NONE" THEN Refused(scans[Len(raw)].error)
             ELSE IF scans[Len(raw)].escape # <<>> THEN Refused("MALFORMED")
             ELSE Accepted(field, Text(scans[Len(raw)].text))
  BY <1>1, TextScanned
<1>3. scans[Len(raw)] = Read(text)
  BY <1>2, TextIsRead DEF raw
<1>4. DecodedText(field, raw) = Accepted(field, Text(text))
  BY <1>2, <1>3, ReadTypes
<1>5. QED
  BY <1>4 DEF Accepted, raw

(* What is read as a text is no shorter than the text is written.          *)
LEMMA TextWasRead ==
  ASSUME NEW field, NEW raw \in Seq(Nat), DecodedText(field, raw).error = "NONE"
  PROVE  \E text \in Seq(PrintableBytes) :
           /\ DecodedText(field, raw).value = Text(text)
           /\ IsValid(field, Text(text))
           /\ Len(PercentEncoded(text)) <= Len(raw)
<1>1. PICK scans :
        /\ ReadsText(scans, raw)
        /\ \A i \in 0..Len(raw) : scans[i] \in TextScans
        /\ DecodedText(field, raw) =
             IF scans[Len(raw)].error # "NONE" THEN Refused(scans[Len(raw)].error)
             ELSE IF scans[Len(raw)].escape # <<>> THEN Refused("MALFORMED")
             ELSE Accepted(field, Text(scans[Len(raw)].text))
  BY TextScanned
<1> DEFINE text == scans[Len(raw)].text
<1>2. \A error : Refused(error).error = error
  BY DEF Refused
<1>3. /\ scans[Len(raw)].error = "NONE"
      /\ DecodedText(field, raw) = Accepted(field, Text(text))
  BY <1>1, <1>2
<1>4. Len(PercentEncoded(text)) <= Len(raw)
  BY <1>1, <1>3, ReadIsNoLonger
<1>5. text \in Seq(PrintableBytes)
  <2>1. Len(raw) \in 0..Len(raw)
    OBVIOUS
  <2>2. scans[Len(raw)] \in TextScans
    BY <1>1, <2>1
  <2>3. QED
    BY <2>2 DEF TextScans
<1> HIDE DEF text
<1>6. /\ Accepted(field, Text(text)).value = Text(text)
      /\ Accepted(field, Text(text)).error = "NONE" => IsValid(field, Text(text))
  BY DEF Accepted
<1>7. QED
  BY <1>3, <1>4, <1>5, <1>6

-----------------------------------------------------------------------------
(* The fields of the tables, written and read. *)

(* What the tables say of every field. *)
IsTableField(field) ==
    /\ field.name \in TableWords
    /\ \/ /\ field.type \in {"integer", "boolean"}
          /\ field.minimum \in Nat /\ field.maximum \in 0..MaximumUnsigned
       \/ /\ field.type = "enumeration" /\ field.name \in EnumerationNames
          /\ field.minimum = 0
          /\ field.maximum = Len(EnumerationValues[field.name]) - 1
       \/ /\ field.type = "token"
          /\ field.minimum = 1 /\ field.maximum \in 0..MaximumTextLength
       \/ /\ field.type = "text" /\ field.name = "payload"
          /\ field.minimum = 0 /\ field.maximum \in 0..MaximumTextLength

(* The tables, verb by verb (remote_protocol_tables.c).                    *)
LEMMA FieldsByVerb ==
  /\ FieldsOf["HELLO"] = <<IntegerField("version", 1, MaximumProtocolVersion),
                           TokenField("peripheral", MaximumTokenLength),
                           BooleanField("locked")>>
  /\ FieldsOf["BUTTON"] = <<EnumerationField("event"), BooleanField("foregrounded"),
                            BooleanField("unlocked")>>
  /\ FieldsOf["STATE"] = <<BooleanField("locked")>>
  /\ FieldsOf["DISPLAY"] = <<EnumerationField("status"), EnumerationField("page"),
                             TextField("payload", MaximumPayloadLength),
                             IntegerField("delivered", 0, MaximumDelivered),
                             EnumerationField("error")>>
BY DEF FieldsOf, Verbs

(* Every verb has one to five fields, of names of their own.               *)
LEMMA FieldsAreTabled ==
  ASSUME NEW verb \in Verbs
  PROVE  /\ Len(FieldsOf[verb]) \in 1..5
         /\ FieldsOf[verb] = [k \in 1..Len(FieldsOf[verb]) |-> FieldsOf[verb][k]]
         /\ \A k \in 1..Len(FieldsOf[verb]) : IsTableField(FieldsOf[verb][k])
         /\ \A k, l \in 1..Len(FieldsOf[verb]) :
              FieldsOf[verb][k].name = FieldsOf[verb][l].name => k = l
<1> DEFINE Good(field) ==
             \/ /\ field.type \in {"integer", "boolean"}
                /\ field.minimum \in Nat /\ field.maximum \in 0..MaximumUnsigned
             \/ /\ field.type = "enumeration" /\ field.name \in EnumerationNames
                /\ field.minimum = 0
                /\ field.maximum = Len(EnumerationValues[field.name]) - 1
             \/ /\ field.type = "token"
                /\ field.minimum = 1 /\ field.maximum \in 0..MaximumTextLength
             \/ /\ field.type = "text" /\ field.name = "payload"
                /\ field.minimum = 0 /\ field.maximum \in 0..MaximumTextLength
<1>1. /\ Good(IntegerField("version", 1, MaximumProtocolVersion))
      /\ Good(IntegerField("delivered", 0, MaximumDelivered))
  BY CodecAssumption, BoundsAssumption DEF IntegerField, Field
<1>2. \A name : Good(BooleanField(name))
  BY CodecAssumption DEF BooleanField, Field
<1>3. \A name \in EnumerationNames : Good(EnumerationField(name))
  BY DEF EnumerationField, Field
<1>4. /\ Good(TokenField("peripheral", MaximumTokenLength))
      /\ Good(TextField("payload", MaximumPayloadLength))
  BY BoundsAssumption DEF TokenField, TextField, Field, MaximumTextLength
<1>5. {"event", "status", "page", "error"} \subseteq EnumerationNames
  BY DEF EnumerationNames
<1> HIDE DEF Good
<1>6. /\ Len(FieldsOf[verb]) \in 1..5
      /\ FieldsOf[verb] = [k \in 1..Len(FieldsOf[verb]) |-> FieldsOf[verb][k]]
      /\ \A k \in 1..Len(FieldsOf[verb]) : Good(FieldsOf[verb][k])
  <2>1. CASE verb = "HELLO"
    BY <1>1, <1>2, <1>4, <2>1, FieldsByVerb
  <2>2. CASE verb = "BUTTON"
    BY <1>2, <1>3, <1>5, <2>2, FieldsByVerb
  <2>3. CASE verb = "STATE"
    BY <1>2, <2>3, FieldsByVerb
  <2>4. CASE verb = "DISPLAY"
    BY <1>1, <1>3, <1>4, <1>5, <2>4, FieldsByVerb
  <2>5. QED
    BY <2>1, <2>2, <2>3, <2>4 DEF Verbs
<1>7. \A k \in 1..Len(FieldsOf[verb]) : FieldsOf[verb][k].name \in TableWords
  <2>1. \A k \in 1..Len(FieldsOf[verb]) : k \in DOMAIN FieldsOf[verb]
    BY <1>6
  <2>2. \A k \in DOMAIN FieldsOf[verb] : FieldsOf[verb][k].name \in TableWords
    <3> DEFINE names(v) == {FieldsOf[v][i].name : i \in DOMAIN FieldsOf[v]}
    <3>1. names(verb) \in {names(v) : v \in Verbs}
      OBVIOUS
    <3>2. names(verb) \subseteq UNION {names(v) : v \in Verbs}
      BY <3>1, Zenon
    <3>3. \A k \in DOMAIN FieldsOf[verb] : FieldsOf[verb][k].name \in names(verb)
      OBVIOUS
    <3>4. UNION {names(v) : v \in Verbs} \subseteq TableWords
      BY Zenon DEF TableWords
    <3> HIDE DEF names
    <3>5. QED
      BY <3>2, <3>3, <3>4
  <2>3. QED
    BY <2>1, <2>2
<1>8. \A k, l \in 1..Len(FieldsOf[verb]) :
        FieldsOf[verb][k].name = FieldsOf[verb][l].name => k = l
  <2> USE DEF IntegerField, BooleanField, EnumerationField, TokenField, TextField, Field
  <2>1. CASE verb = "HELLO"
    BY <2>1, FieldsByVerb
  <2>2. CASE verb = "BUTTON"
    BY <2>2, FieldsByVerb
  <2>3. CASE verb = "STATE"
    BY <2>3, FieldsByVerb
  <2>4. CASE verb = "DISPLAY"
    BY <2>4, FieldsByVerb
  <2>5. QED
    BY <2>1, <2>2, <2>3, <2>4 DEF Verbs
<1>9. QED
  BY <1>6, <1>7, <1>8 DEF Good, IsTableField

(* The words of an enumeration, each once. *)
LEMMA EnumerationWords ==
  ASSUME NEW kind \in EnumerationNames
  PROVE  /\ Len(EnumerationValues[kind]) \in Nat
         /\ \A i \in 1..Len(EnumerationValues[kind]) :
              EnumerationValues[kind][i] \in TableWords
         /\ \A i, j \in 1..Len(EnumerationValues[kind]) :
              EnumerationValues[kind][i] = EnumerationValues[kind][j] => i = j
<1> DEFINE values == EnumerationValues[kind]
<1>1. Len(values) \in Nat /\ DOMAIN values = 1..Len(values)
  <2>1. /\ Len(EnumerationValues["event"]) = 4 /\ DOMAIN EnumerationValues["event"] = 1..4
        /\ Len(EnumerationValues["status"]) = 5 /\ DOMAIN EnumerationValues["status"] = 1..5
        /\ Len(EnumerationValues["page"]) = 3 /\ DOMAIN EnumerationValues["page"] = 1..3
        /\ Len(EnumerationValues["error"]) = 17 /\ DOMAIN EnumerationValues["error"] = 1..17
    BY DEF EnumerationValues
  <2>2. QED
    BY <2>1 DEF EnumerationNames
<1>2. \A i \in 1..Len(values) : values[i] \in TableWords
  <2> HIDE DEF values
  <2>1. \A i \in DOMAIN values : values[i] \in TableWords
    <3> DEFINE words(v) == {EnumerationValues[v][i] : i \in DOMAIN EnumerationValues[v]}
    <3>1. words(kind) \in {words(v) : v \in EnumerationNames}
      OBVIOUS
    <3>2. words(kind) \subseteq UNION {words(v) : v \in EnumerationNames}
      BY <3>1, Zenon
    <3>3. \A i \in DOMAIN values : values[i] \in words(kind)
      BY DEF values
    <3>4. UNION {words(v) : v \in EnumerationNames} \subseteq TableWords
      BY Zenon DEF TableWords
    <3> HIDE DEF words
    <3>5. QED
      BY <3>2, <3>3, <3>4
  <2>2. QED
    BY <1>1, <2>1
<1>3. \A i, j \in 1..Len(values) : values[i] = values[j] => i = j
  <2>1. CASE kind = "event"
    BY <2>1 DEF EnumerationValues
  <2>2. CASE kind = "status"
    BY <2>2 DEF EnumerationValues
  <2>3. CASE kind = "page"
    BY <2>3 DEF EnumerationValues
  <2>4. CASE kind = "error"
    BY <2>4 DEF EnumerationValues
  <2>5. QED
    BY <2>1, <2>2, <2>3, <2>4 DEF EnumerationNames
<1>4. QED
  BY <1>1, <1>2, <1>3

(* A word is read as itself, and nothing else is read as a word.           *)
LEMMA EnumerationReads ==
  ASSUME NEW field, field.name \in EnumerationNames, NEW raw
  PROVE  LET values == EnumerationValues[field.name]
             outcome == DecodedEnumeration(field, raw)
         IN  /\ \A i \in 1..Len(values) : raw = Spelling[values[i]] =>
                  outcome = Accepted(field, Number(i - 1))
             /\ outcome.error = "NONE" =>
                  \E i \in 1..Len(values) :
                    raw = Spelling[values[i]] /\ outcome = Accepted(field, Number(i - 1))
<1> DEFINE values == EnumerationValues[field.name]
           n == Len(values)
           found == {i \in 1..n : Spelling[values[i]] = raw}
           index == IF found # {} THEN Min(found) ELSE 0
           outcome == DecodedEnumeration(field, raw)
<1>1. outcome = IF index = 0 THEN Refused("BAD_VALUE")
                ELSE Accepted(field, Number(index - 1))
  BY DEF DecodedEnumeration, SelectInSeq
<1>2. n \in Nat /\ \A i, j \in 1..n : Spelling[values[i]] = Spelling[values[j]] => i = j
  BY EnumerationWords, SpellingAssumption
<1>3. found # {} => index \in found
  <2>1. found \in SUBSET Nat
    BY <1>2
  <2> HIDE DEF found
  <2>2. QED
    BY <2>1, LeastIsOne
<1> HIDE DEF outcome, index, values, n
<1>4. ASSUME NEW i \in 1..n, raw = Spelling[values[i]]
      PROVE  outcome = Accepted(field, Number(i - 1))
  <2>1. i \in found
    BY <1>4
  <2>2. index \in found
    BY <1>3, <2>1
  <2>3. index = i
    BY <1>2, <1>4, <2>2
  <2>4. i # 0
    BY <1>2
  <2>5. QED
    BY <1>1, <2>3, <2>4
<1>5. ASSUME outcome.error = "NONE"
      PROVE  \E i \in 1..n : raw = Spelling[values[i]] /\ outcome = Accepted(field, Number(i - 1))
  <2>1. index # 0
    BY <1>1, <1>5 DEF Refused
  <2>2. index \in found
    BY <1>3, <2>1 DEF index
  <2>3. QED
    BY <1>1, <2>1, <2>2
<1>6. QED
  BY <1>4, <1>5 DEF outcome, values, n

(* A value in the half of its record that its field's type uses. *)
IsShaped(field, value) ==
    value \in IF IsText(field) THEN [integer : {0}, text : Seq(Nat)]
             ELSE [integer : Nat, text : {<<>>}]

(* A field's valid value, as it is written, is read back.                  *)
LEMMA ValueReads ==
  ASSUME NEW field, IsTableField(field), NEW value,
         IsShaped(field, value), IsValid(field, value)
  PROVE  /\ EncodedValue(field, value) \in Seq(33..126)
         /\ DecodedValue(field, EncodedValue(field, value)) =
              [error |-> "NONE", value |-> value]
<1> DEFINE raw == EncodedValue(field, value)
           n == value.integer
           text == value.text
<1>1. CASE field.type \in {"integer", "boolean"}
  <2>1. ~IsText(field) /\ field.minimum \in Nat /\ field.maximum \in 0..MaximumUnsigned
    BY <1>1 DEF IsTableField, IsText
  <2>2. n \in Nat /\ value = Number(n)
    BY <2>1 DEF IsShaped, Number
  <2>3. n \in field.minimum..field.maximum
    BY <2>1 DEF IsValid
  <2>4. n \in 0..MaximumUnsigned
    BY <2>1, <2>2, <2>3, CodecAssumption
  <2>5. raw = Decimal[n] /\ DecodedValue(field, raw) = DecodedUnsigned(field, raw)
    BY <1>1 DEF EncodedValue, DecodedValue
  <2>6. Decimal[n] \in Seq(48..57) /\ 48..57 \subseteq 33..126
    BY <2>2, DecimalIsNumeral
  <2>7. Decimal[n] \in Seq(33..126)
    BY <2>6, SequenceOfSubset
  <2> HIDE DEF n, raw
  <2>8. DecodedUnsigned(field, Decimal[n]) = [error |-> "NONE", value |-> Number(n)]
    BY <2>1, <2>3, <2>4, UnsignedReads
  <2>9. QED
    BY <2>2, <2>5, <2>7, <2>8 DEF raw
<1>2. CASE field.type = "enumeration"
  <2> DEFINE values == EnumerationValues[field.name]
  <2>1. /\ ~IsText(field) /\ field.minimum = 0 /\ field.maximum = Len(values) - 1
        /\ field.name \in EnumerationNames
    BY <1>2 DEF IsTableField, IsText
  <2>2. n \in Nat /\ value = Number(n)
    BY <2>1 DEF IsShaped, Number
  <2>3. Len(values) \in Nat /\ \A i \in 1..Len(values) : values[i] \in TableWords
    BY <2>1, EnumerationWords
  <2>4. n \in 0..(Len(values) - 1)
    BY <2>1 DEF IsValid
  <2>5. raw = Spelling[values[n + 1]] /\ DecodedValue(field, raw) = DecodedEnumeration(field, raw)
    BY <1>2 DEF EncodedValue, DecodedValue
  <2> HIDE DEF n, raw, values
  <2>6. n + 1 \in 1..Len(values) /\ (n + 1) - 1 = n
    BY <2>3, <2>4
  <2>7. DecodedEnumeration(field, raw) = Accepted(field, Number((n + 1) - 1))
    BY <2>1, <2>5, <2>6, EnumerationReads DEF values
  <2>8. raw \in Seq(33..126)
    BY <2>3, <2>5, <2>6, SpellingAssumption
  <2>9. QED
    BY <2>2, <2>5, <2>6, <2>7, <2>8 DEF raw, Accepted
<1>3. CASE field.type = "token"
  <2>1. IsText(field)
    BY <1>3 DEF IsText
  <2>2. text \in Seq(Nat) /\ value = Text(text)
    BY <2>1 DEF IsShaped, Text
  <2>3. ToSet(text) \subseteq TokenCharacters
    BY <1>3, <2>1 DEF IsValid
  <2>4. raw = text /\ DecodedValue(field, raw) = Accepted(field, Text(raw))
    BY <1>3 DEF EncodedValue, DecodedValue
  <2>5. \A i \in 1..Len(text) : text[i] \in 33..126
    <3>1. \A i \in 1..Len(text) : text[i] \in TokenCharacters
      BY <2>2, <2>3 DEF ToSet
    <3>2. TokenCharacters \subseteq 33..126
      BY DEF TokenCharacters
    <3>3. QED
      BY <3>1, <3>2
  <2> HIDE DEF text, raw
  <2>6. text \in Seq(33..126)
    BY <2>2, <2>5, WiderSequence
  <2>7. QED
    BY <2>2, <2>4, <2>6 DEF raw, Accepted
<1>4. CASE field.type = "text"
  <2>1. /\ IsText(field) /\ field.type # "token"
        /\ field.minimum = 0 /\ field.maximum \in 0..MaximumTextLength
    BY <1>4 DEF IsTableField, IsText
  <2>2. text \in Seq(Nat) /\ value = Text(text)
    BY <2>1 DEF IsShaped, Text
  <2>3. ToSet(text) \subseteq PrintableBytes /\ Len(text) \in 0..field.maximum
    BY <2>1 DEF IsValid
  <2>4. raw = PercentEncoded(text) /\ DecodedValue(field, raw) = DecodedText(field, raw)
    BY <1>4 DEF EncodedValue, DecodedValue
  <2>5. \A i \in 1..Len(text) : text[i] \in PrintableBytes
    BY <2>2, <2>3 DEF ToSet
  <2>6. Len(text) <= MaximumTextLength
    <3> DEFINE m == Len(text)
    <3>1. m \in 0..field.maximum
      BY <2>3
    <3> HIDE DEF m
    <3>2. MaximumTextLength \in Nat
      BY BoundsAssumption DEF MaximumTextLength
    <3>3. m <= MaximumTextLength
      BY <2>1, <3>1, <3>2
    <3>4. QED
      BY <3>3 DEF m
  <2> HIDE DEF text, raw
  <2>7. text \in Seq(PrintableBytes)
    BY <2>2, <2>5, WiderSequence
  <2>8. PercentEncoded(text) \in Seq(33..126)
    BY <2>7, EncodedText, PlainSequences
  <2>9. DecodedText(field, PercentEncoded(text)) = [error |-> "NONE", value |-> Text(text)]
    BY <2>2, <2>6, <2>7, TextReads
  <2>10. QED
    BY <2>2, <2>4, <2>8, <2>9 DEF raw
<1>5. QED
  BY <1>1, <1>2, <1>3, <1>4 DEF IsTableField

(* What is read of a field is valid for it, and no longer when it is       *)
(* written again; but for a text, it is what is written.                   *)
LEMMA ValueWasRead ==
  ASSUME NEW field, IsTableField(field), NEW raw \in Seq(Nat),
         DecodedValue(field, raw).error = "NONE"
  PROVE  LET value == DecodedValue(field, raw).value
         IN  /\ IsShaped(field, value) /\ IsValid(field, value)
             /\ Len(EncodedValue(field, value)) <= Len(raw)
             /\ field.type # "text" => EncodedValue(field, value) = raw
<1> DEFINE outcome == DecodedValue(field, raw)
           value == outcome.value
           Kept == /\ IsShaped(field, value) /\ IsValid(field, value)
                   /\ Len(EncodedValue(field, value)) <= Len(raw)
                   /\ field.type # "text" => EncodedValue(field, value) = raw
<1>0. /\ \A n : Number(n).integer = n
      /\ \A n \in Nat : ~IsText(field) => IsShaped(field, Number(n))
      /\ \A text \in Seq(Nat) : IsText(field) => IsShaped(field, Text(text))
      /\ \A text : Text(text).text = text
  BY DEF IsShaped, Number, Text
<1>a. \A v : /\ Accepted(field, v).value = v
             /\ Accepted(field, v).error = "NONE" => IsValid(field, v)
  BY DEF Accepted
<1>b. Len(raw) <= Len(raw)
  <2> DEFINE m == Len(raw)
  <2>1. m \in Nat
    OBVIOUS
  <2> HIDE DEF m
  <2>2. m <= m
    BY <2>1
  <2>3. QED
    BY <2>2 DEF m
<1>1. CASE field.type \in {"integer", "boolean"}
  <2>1. ~IsText(field) /\ outcome = DecodedUnsigned(field, raw)
    BY <1>1 DEF IsText, DecodedValue
  <2>2. PICK n \in 0..MaximumUnsigned :
          /\ raw = Decimal[n] /\ value = Number(n) /\ IsValid(field, Number(n))
    BY <2>1, UnsignedWasWritten
  <2>3. n \in Nat
    BY CodecAssumption
  <2> HIDE DEF outcome, value
  <2>4. EncodedValue(field, value) = raw
    BY <1>0, <1>1, <2>2 DEF EncodedValue
  <2>5. Kept
    BY <1>0, <1>b, <2>1, <2>2, <2>3, <2>4
  <2>6. QED
    BY <2>5 DEF outcome, value
<1>2. CASE field.type = "enumeration"
  <2> DEFINE values == EnumerationValues[field.name]
  <2>1. ~IsText(field) /\ outcome = DecodedEnumeration(field, raw)
        /\ field.name \in EnumerationNames
    BY <1>2 DEF IsTableField, IsText, DecodedValue
  <2>2. PICK i \in 1..Len(values) :
          raw = Spelling[values[i]] /\ outcome = Accepted(field, Number(i - 1))
    BY <2>1, EnumerationReads
  <2>3. i - 1 \in Nat /\ (i - 1) + 1 = i
    <3>1. Len(values) \in Nat
      BY <2>1, EnumerationWords
    <3>2. QED
      BY <3>1
  <2>4. value = Number(i - 1) /\ IsValid(field, Number(i - 1))
    BY <1>a, <2>2
  <2> HIDE DEF outcome, value
  <2>5. EncodedValue(field, value) = raw
    <3>1. EncodedValue(field, value) = Spelling[values[value.integer + 1]]
      BY <1>2 DEF EncodedValue
    <3>2. QED
      BY <1>0, <2>2, <2>3, <2>4, <3>1
  <2>6. Kept
    BY <1>0, <1>b, <2>1, <2>3, <2>4, <2>5
  <2>7. QED
    BY <2>6 DEF outcome, value
<1>3. CASE field.type = "token"
  <2>1. IsText(field) /\ outcome = Accepted(field, Text(raw))
    BY <1>3 DEF IsText, DecodedValue
  <2>2. value = Text(raw) /\ IsValid(field, Text(raw))
    BY <1>a, <2>1
  <2> HIDE DEF outcome, value
  <2>3. EncodedValue(field, value) = raw
    BY <1>0, <1>3, <2>2 DEF EncodedValue
  <2>4. Kept
    BY <1>0, <1>b, <2>1, <2>2, <2>3
  <2>5. QED
    BY <2>4 DEF outcome, value
<1>4. CASE field.type = "text"
  <2>1. IsText(field) /\ outcome = DecodedText(field, raw)
    BY <1>4 DEF IsText, DecodedValue
  <2>2. PICK text \in Seq(PrintableBytes) :
          /\ value = Text(text) /\ IsValid(field, Text(text))
          /\ Len(PercentEncoded(text)) <= Len(raw)
    BY <2>1, TextWasRead
  <2>3. text \in Seq(Nat)
    <3>1. PrintableBytes \subseteq Nat
      BY DEF PrintableBytes
    <3>2. QED
      BY <3>1, SequenceOfSubset
  <2> HIDE DEF outcome, value
  <2>4. EncodedValue(field, value) = PercentEncoded(text)
    BY <1>0, <1>4, <2>2 DEF EncodedValue
  <2>5. Kept
    BY <1>0, <1>4, <2>1, <2>2, <2>3, <2>4
  <2>6. QED
    BY <2>5 DEF outcome, value
<1>5. QED
  BY <1>1, <1>2, <1>3, <1>4 DEF IsTableField

(* Every part lies within the whole. *)
LEMMA LiesWithin ==
  ASSUME NEW S, NEW parts \in Seq(Seq(S)), NEW whole, NEW after,
         LiesAfter(whole, parts, after), NEW k \in 1..Len(parts)
  PROVE  /\ after[k] \in Nat /\ Len(parts[k]) \in Nat
         /\ after[k + 1] = after[k] + Len(parts[k])
         /\ after[k + 1] <= Len(whole)
<1> DEFINE n == Len(parts)
<1>1. /\ n \in Nat /\ parts[k] \in Seq(S) /\ parts[n] \in Seq(S)
      /\ k \in 1..(n + 1) /\ k + 1 \in 1..(n + 1) /\ n \in 1..n /\ n \in 1..(n + 1)
  OBVIOUS
<1>2. /\ after \in [1..(n + 1) -> Nat]
      /\ after[n + 1] = Len(whole)
      /\ \A l \in 1..n : after[l + 1] = after[l] + Len(parts[l])
  BY DEF LiesAfter
<1> HIDE DEF n
<1>a. Len(parts[k]) \in Nat /\ Len(parts[n]) \in Nat
  BY <1>1
<1>3. /\ after[k] \in Nat /\ Len(parts[k]) \in Nat
      /\ after[k + 1] = after[k] + Len(parts[k])
  <2>1. k \in 1..n
    BY DEF n
  <2>2. QED
    BY <1>1, <1>2, <1>a, <2>1
<1>4. after[k + 1] <= Len(whole)
  <2> DEFINE a == after[k + 1]
             b == after[n]
             c == Len(parts[n])
  <2>1. a \in Nat /\ b \in Nat /\ c \in Nat /\ after[n + 1] = b + c
    BY <1>1, <1>2, <1>a
  <2>2. CASE k = n
    <3>1. a = after[n + 1]
      BY <2>2
    <3> HIDE DEF a, b, c
    <3>2. a <= after[n + 1]
      BY <2>1, <3>1
    <3>3. QED
      BY <1>2, <3>2 DEF a
  <2>3. CASE k # n
    <3>1. k < n
      BY <1>1, <2>3 DEF n
    <3>2. a <= b
      BY <1>1, <3>1, LiesInOrder DEF n
    <3> HIDE DEF a, b, c
    <3>3. a <= b + c
      BY <2>1, <3>2
    <3>4. QED
      BY <1>2, <2>1, <3>3 DEF a
  <2>4. QED
    BY <2>2, <2>3
<1>5. QED
  BY <1>3, <1>4

(* One part more in front. *)
LEMMA LiesPrepended ==
  ASSUME NEW S, NEW parts \in Seq(Seq(S)), NEW part \in Seq(S), NEW whole \in Seq(S),
         NEW after, LiesAfter(whole, parts, after)
  PROVE  \E more : LiesAfter(part \o whole, <<part>> \o parts, more)
<1> DEFINE n == Len(parts)
           m == Len(part)
           longer == <<part>> \o parts
           all == part \o whole
           more == [k \in 1..(n + 2) |-> IF k = 1 THEN 0 ELSE m + after[k - 1]]
<1>1. /\ n \in Nat /\ m \in Nat /\ Len(longer) = n + 1 /\ Len(whole) \in Nat
      /\ Len(all) = m + Len(whole)
      /\ longer[1] = part
  OBVIOUS
<1>2. /\ after \in [1..(n + 1) -> Nat]
      /\ after[1] = 0 /\ after[n + 1] = Len(whole)
      /\ \A k \in 1..n :
           /\ after[k + 1] = after[k] + Len(parts[k])
           /\ \A j \in 1..Len(parts[k]) : whole[after[k] + j] = parts[k][j]
  BY DEF LiesAfter
<1>3. ASSUME NEW k \in 1..(n + 1)
      PROVE  more[k + 1] = m + after[k] /\ k + 1 \in 1..(n + 2)
  <2>1. k + 1 \in 1..(n + 2) /\ k + 1 # 1 /\ (k + 1) - 1 = k
    BY <1>1
  <2>2. more[k + 1] = m + after[(k + 1) - 1]
    BY <2>1
  <2>3. QED
    BY <2>1, <2>2
<1>4. more \in [1..(n + 2) -> Nat] /\ more[1] = 0
  <2>1. ASSUME NEW k \in 1..(n + 2), k # 1 PROVE m + after[k - 1] \in Nat
    <3>1. k - 1 \in 1..(n + 1)
      BY <1>1, <2>1
    <3>2. after[k - 1] \in Nat
      BY <1>2, <3>1
    <3>3. QED
      BY <1>1, <3>2
  <2>2. \A k \in 1..(n + 2) : (IF k = 1 THEN 0 ELSE m + after[k - 1]) \in Nat
    BY <2>1
  <2>3. 1 \in 1..(n + 2)
    BY <1>1
  <2>4. QED
    BY <2>2, <2>3
<1> HIDE DEF more
<1>5. more[n + 2] = Len(all)
  <2>1. n + 1 \in 1..(n + 1) /\ (n + 1) + 1 = n + 2
    BY <1>1
  <2>2. more[(n + 1) + 1] = m + after[n + 1]
    BY <1>3, <2>1
  <2>3. QED
    BY <1>1, <1>2, <2>1, <2>2
<1>6. ASSUME NEW k \in 1..(n + 1)
      PROVE  /\ more[k + 1] = more[k] + Len(longer[k])
             /\ \A j \in 1..Len(longer[k]) : all[more[k] + j] = longer[k][j]
  <2>1. CASE k = 1
    <3>1. more[k + 1] = m /\ longer[k] = part /\ more[k] = 0
      <4>1. more[k + 1] = m + after[1]
        BY <1>3, <2>1
      <4>2. QED
        BY <1>1, <1>2, <1>4, <2>1, <4>1
    <3>2. \A j \in 1..m : all[j] = part[j] /\ 0 + j = j
      OBVIOUS
    <3>3. QED
      BY <1>1, <3>1, <3>2
  <2>2. CASE k # 1
    <3>1. PICK l \in 1..n : k = l + 1
      <4>1. k - 1 \in 1..n /\ k = (k - 1) + 1
        BY <1>1, <2>2
      <4>2. QED
        BY <4>1
    <3>2. longer[k] = parts[l] /\ parts[l] \in Seq(S)
      BY <1>1, <3>1
    <3>3. /\ more[k] = m + after[l] /\ more[k + 1] = m + after[l + 1]
          /\ after[l + 1] = after[l] + Len(parts[l])
          /\ after[l] \in Nat /\ after[l + 1] \in Nat
      <4>1. l \in 1..(n + 1) /\ l + 1 \in 1..(n + 1) /\ l + 1 = k
        BY <1>1, <3>1
      <4>2. QED
        BY <1>2, <1>3, <4>1
    <3>4. ASSUME NEW j \in 1..Len(parts[l]) PROVE all[more[k] + j] = parts[l][j]
      <4>1. whole[after[l] + j] = parts[l][j]
        BY <1>2
      <4> DEFINE a == after[l]
                 b == Len(parts[l])
      <4>2. a + b <= Len(whole)
        BY LiesWithin
      <4>3. b \in Nat /\ j \in 1..b /\ a \in Nat
        BY <3>2, <3>3
      <4> HIDE DEF a, b
      <4>4. /\ a + j \in 1..Len(whole) /\ m + (a + j) = (m + a) + j
            /\ m + (a + j) \in (m + 1)..(m + Len(whole))
            /\ (m + (a + j)) - m = a + j
        BY <1>1, <4>2, <4>3
      <4>5. all[m + (a + j)] = whole[a + j]
        BY <1>1, <4>4
      <4>6. more[k] + j = m + (a + j)
        BY <3>3, <4>4 DEF a
      <4>7. QED
        BY <4>1, <4>5, <4>6 DEF a
    <3>5. m + after[l + 1] = (m + after[l]) + Len(parts[l])
      <4>1. Len(parts[l]) \in Nat
        BY <3>2
      <4>2. QED
        BY <1>1, <3>3, <4>1
    <3>6. QED
      BY <3>2, <3>3, <3>4, <3>5
  <2>3. QED
    BY <2>1, <2>2
<1>7. LiesAfter(all, longer, more)
  <2>1. Len(longer) + 1 = n + 2
    BY <1>1
  <2> HIDE DEF all, longer
  <2>2. QED
    BY <1>1, <1>4, <1>5, <1>6, <2>1 DEF LiesAfter
<1>8. QED
  BY <1>7

-----------------------------------------------------------------------------
(* A line and its tokens. *)

(* Tokens, each with the separator before it; the first one's is the one   *)
(* that a line does not have.                                              *)
Cells(tokens) == [k \in 1..Len(tokens) |-> <<FieldSeparator>> \o tokens[k]]

(* Where a line's tokens lie: the token k after the separator at after[k]. *)
IsLineOf(line, tokens, after) ==
    /\ after[1] = 0 /\ after[Len(tokens) + 1] = Len(line) + 1
    /\ \A k \in 1..Len(tokens) :
         /\ after[k] \in Nat /\ Len(tokens[k]) \in Nat
         /\ after[k + 1] = (after[k] + 1) + Len(tokens[k])
         /\ after[k + 1] <= Len(line) + 1
         /\ after[k] > 0 => line[after[k]] = FieldSeparator
         /\ \A j \in 1..Len(tokens[k]) : line[after[k] + j] = tokens[k][j]
    /\ \A k, l \in 1..Len(tokens) : k < l => after[k + 1] <= after[l]
    /\ \A i \in 1..Len(line) : \E k \in 1..Len(tokens) :
         i = after[k] \/ \E j \in 1..Len(tokens[k]) : i = after[k] + j

(* Tokens joined by separators are a line of them.                         *)
LEMMA TokensLie ==
  ASSUME NEW tokens \in Seq(Seq(33..126)), NEW line \in Seq(Nat), NEW after,
         LiesAfter(<<FieldSeparator>> \o line, Cells(tokens), after)
  PROVE  IsLineOf(line, tokens, after)
<1> DEFINE n == Len(tokens)
           m == Len(line)
           whole == <<FieldSeparator>> \o line
           cells == Cells(tokens)
<1>1. /\ n \in Nat /\ m \in Nat /\ Len(whole) = m + 1 /\ whole \in Seq(Nat)
      /\ \A i \in 1..m : whole[i + 1] = line[i]
  BY DEF FieldSeparator
<1>2. ASSUME NEW k \in 1..n
      PROVE  /\ Len(tokens[k]) \in Nat /\ cells[k] \in Seq(Nat)
             /\ Len(cells[k]) = 1 + Len(tokens[k]) /\ cells[k][1] = FieldSeparator
             /\ \A j \in 1..Len(tokens[k]) : cells[k][1 + j] = tokens[k][j]
  <2> DEFINE token == tokens[k]
             cell == <<FieldSeparator>> \o token
  <2>1. token \in Seq(33..126)
    BY <1>1
  <2>2. cells[k] = cell
    BY DEF Cells
  <2> HIDE DEF token, cells
  <2>3. token \in Seq(Nat)
    <3>1. 33..126 \subseteq Nat
      OBVIOUS
    <3>2. QED
      BY <2>1, <3>1, SequenceOfSubset
  <2>4. /\ Len(token) \in Nat /\ cell \in Seq(Nat) /\ Len(cell) = 1 + Len(token)
        /\ cell[1] = FieldSeparator
        /\ \A j \in 1..Len(token) : cell[1 + j] = token[j]
    BY <2>3 DEF FieldSeparator
  <2> HIDE DEF cell
  <2>5. QED
    BY <2>2, <2>4 DEF token
<1>3. cells \in Seq(Seq(Nat)) /\ Len(cells) = n
  <2>1. cells = [k \in 1..n |-> cells[k]]
    BY DEF Cells
  <2>2. \A k \in 1..n : cells[k] \in Seq(Nat)
    BY <1>2
  <2> HIDE DEF cells, n
  <2>3. [k \in 1..n |-> cells[k]] \in Seq(Seq(Nat)) /\ Len([k \in 1..n |-> cells[k]]) = n
    BY <1>1, <2>2
  <2>4. QED
    BY <2>1, <2>3
<1> HIDE DEF cells, whole
<1>4. /\ after[1] = 0 /\ after[n + 1] = m + 1
      /\ \A k \in 1..n : \A j \in 1..Len(cells[k]) : whole[after[k] + j] = cells[k][j]
  BY <1>1, <1>3 DEF LiesAfter, cells, whole
<1>l. LiesAfter(whole, cells, after)
  BY DEF cells, whole
<1>5. ASSUME NEW k \in 1..n
      PROVE  /\ after[k] \in Nat /\ Len(tokens[k]) \in Nat
             /\ after[k + 1] = (after[k] + 1) + Len(tokens[k])
             /\ after[k + 1] <= m + 1
             /\ after[k] > 0 => line[after[k]] = FieldSeparator
             /\ \A j \in 1..Len(tokens[k]) : line[after[k] + j] = tokens[k][j]
  <2> DEFINE a == after[k]
             b == Len(tokens[k])
  <2>1. /\ a \in Nat /\ after[k + 1] = a + Len(cells[k]) /\ after[k + 1] <= Len(whole)
        /\ Len(cells[k]) = 1 + b /\ b \in Nat
    BY <1>2, <1>3, <1>l, LiesWithin
  <2>2. /\ after[k + 1] = (a + 1) + b /\ after[k + 1] <= m + 1
        /\ 1 \in 1..Len(cells[k])
    <3> HIDE DEF a, b, m
    <3>1. QED
      BY <1>1, <2>1
  <2>3. a > 0 => line[a] = FieldSeparator
    <3>1. whole[a + 1] = FieldSeparator
      BY <1>2, <1>4, <2>2
    <3>2. a > 0 => a \in 1..m
      <4> HIDE DEF a, b, m
      <4>1. QED
        BY <1>1, <2>1, <2>2
    <3>3. QED
      BY <1>1, <3>1, <3>2
  <2>4. ASSUME NEW j \in 1..b PROVE line[a + j] = tokens[k][j]
    <3>1. /\ 1 + j \in 1..Len(cells[k]) /\ a + j \in 1..m /\ a + (1 + j) = (a + j) + 1
      <4> HIDE DEF a, b, m
      <4>1. QED
        BY <1>1, <2>1, <2>2
    <3>2. whole[a + (1 + j)] = cells[k][1 + j]
      BY <1>4, <3>1
    <3>3. whole[(a + j) + 1] = line[a + j]
      BY <1>1, <3>1
    <3>4. cells[k][1 + j] = tokens[k][j]
      BY <1>2
    <3> HIDE DEF a, b, m, n
    <3>5. QED
      BY <3>1, <3>2, <3>3, <3>4
  <2>5. QED
    BY <2>1, <2>2, <2>3, <2>4
<1>6. \A k, l \in 1..n : k < l => after[k + 1] <= after[l]
  BY <1>3, <1>l, LiesInOrder
<1>7. ASSUME NEW i \in 1..m
      PROVE  \E k \in 1..n : i = after[k] \/ \E j \in 1..Len(tokens[k]) : i = after[k] + j
  <2>1. i + 1 \in 1..Len(whole)
    BY <1>1
  <2>2. PICK k \in 1..n : \E j \in 1..Len(cells[k]) : i + 1 = after[k] + j
    <3>1. IsOfAPart(i + 1, cells, after)
      BY <1>3, <1>l, <2>1, LiesSomewhere
    <3>2. QED
      BY <1>3, <3>1 DEF IsOfAPart
  <2>3. PICK j \in 1..Len(cells[k]) : i + 1 = after[k] + j
    BY <2>2
  <2> DEFINE a == after[k]
             b == Len(tokens[k])
  <2>4. a \in Nat /\ b \in Nat /\ Len(cells[k]) = 1 + b /\ i + 1 = a + j
    BY <1>2, <1>5, <2>3
  <2>5. CASE j = 1
    <3>1. i = a
      <4> HIDE DEF a, b, m
      <4>1. QED
        BY <1>1, <2>4, <2>5
    <3>2. QED
      BY <3>1
  <2>6. CASE j # 1
    <3>1. j - 1 \in 1..b /\ i = a + (j - 1)
      <4> HIDE DEF a, b, m
      <4>1. QED
        BY <1>1, <2>4, <2>6
    <3>2. QED
      BY <3>1
  <2>7. QED
    BY <2>5, <2>6
<1>8. QED
  BY <1>4, <1>5, <1>6, <1>7 DEF IsLineOf

(* Of a line of tokens: the separators are those before the tokens, and    *)
(* the tokens are cut where they lie.                                      *)
LEMMA TokensAreCut ==
  ASSUME NEW tokens \in Seq(Seq(33..126)), Len(tokens) >= 1,
         \A k \in 1..Len(tokens) : Len(tokens[k]) >= 1,
         NEW line \in Seq(Nat), NEW after, IsLineOf(line, tokens, after)
  PROVE  /\ WellStructured(line)
         /\ FieldStarts(line) = {after[k] + 1 : k \in 2..Len(tokens)}
         /\ TokenAt(line, 1) = tokens[1]
         /\ \A k \in 1..Len(tokens) : TokenAt(line, after[k] + 1) = tokens[k]
         /\ \A k, l \in 1..Len(tokens) : after[k] = after[l] => k = l
<1> DEFINE n == Len(tokens)
           m == Len(line)
<1>0. n \in Nat /\ n >= 1 /\ m \in Nat /\ \A i \in 1..m : line[i] \in Nat
  OBVIOUS
<1>1. /\ after[1] = 0 /\ after[n + 1] = m + 1
      /\ \A k \in 1..n :
           /\ after[k] \in Nat /\ Len(tokens[k]) \in Nat /\ Len(tokens[k]) >= 1
           /\ after[k + 1] = (after[k] + 1) + Len(tokens[k])
           /\ after[k + 1] <= m + 1
           /\ after[k] > 0 => line[after[k]] = FieldSeparator
           /\ \A j \in 1..Len(tokens[k]) : line[after[k] + j] = tokens[k][j]
      /\ \A k, l \in 1..n : k < l => after[k + 1] <= after[l]
      /\ \A i \in 1..m : \E k \in 1..n :
           i = after[k] \/ \E j \in 1..Len(tokens[k]) : i = after[k] + j
  BY DEF IsLineOf
<1>2. \A k \in 1..n : \A j \in 1..Len(tokens[k]) : tokens[k][j] \in 33..126
  <2> TAKE k \in 1..n
  <2> DEFINE token == tokens[k]
  <2>1. token \in Seq(33..126)
    OBVIOUS
  <2> HIDE DEF token
  <2>2. \A j \in 1..Len(token) : token[j] \in 33..126
    <3> DEFINE S == 33..126
    <3> HIDE DEF S
    <3>1. token \in Seq(S)
      BY <2>1 DEF S
    <3>2. \A j \in 1..Len(token) : token[j] \in S
      BY <3>1
    <3>3. QED
      BY <3>2 DEF S
  <2>3. QED
    BY <2>2 DEF token
<1> HIDE DEF n, m
<1>3. \A k, l \in 1..n : k < l => after[k] < after[l]
  <2> TAKE k, l \in 1..n
  <2>1. k < l => after[k + 1] <= after[l]
    BY <1>1
  <2> DEFINE a == after[k]
             b == Len(tokens[k])
             c == after[l]
             d == after[k + 1]
  <2>2. a \in Nat /\ b \in Nat /\ b >= 1 /\ c \in Nat /\ d = (a + 1) + b
    BY <1>1
  <2>3. k < l => d <= c
    BY <2>1
  <2> HIDE DEF a, b, c, d
  <2>4. k < l => a < c
    BY <2>2, <2>3
  <2>5. QED
    BY <2>4 DEF a, c
<1>4. \A k, l \in 1..n : after[k] = after[l] => k = l
  <2> TAKE k, l \in 1..n
  <2>1. k \in Nat /\ l \in Nat /\ after[k] \in Nat /\ after[l] \in Nat
    BY <1>0, <1>1
  <2>2. (k < l => after[k] < after[l]) /\ (l < k => after[l] < after[k])
    BY <1>3
  <2>3. QED
    BY <2>1, <2>2
<1>5. ASSUME NEW k \in 2..n
      PROVE  /\ after[k] \in 2..(m - 1) /\ line[after[k]] = FieldSeparator
             /\ line[after[k] + 1] # FieldSeparator
  <2>1. k \in 1..n /\ 1 \in 1..n /\ 1 < k
    BY <1>0
  <2> DEFINE a == after[k]
             b == Len(tokens[k])
             c == Len(tokens[1])
             d == after[1 + 1]
  <2>2. a \in Nat /\ b \in Nat /\ b >= 1 /\ (a + 1) + b <= m + 1
    BY <1>1, <2>1
  <2>3. c \in Nat /\ c >= 1 /\ d = (0 + 1) + c /\ d <= a
    BY <1>1, <2>1
  <2>4. a \in 2..(m - 1) /\ a > 0 /\ 1 \in 1..b
    <3> HIDE DEF a, b, c, d
    <3>1. QED
      BY <1>0, <2>2, <2>3
  <2>5. line[a + 1] = tokens[k][1] /\ tokens[k][1] \in 33..126
    BY <1>1, <1>2, <2>1, <2>4
  <2>6. line[a] = FieldSeparator
    BY <1>1, <2>1, <2>4
  <2>7. FieldSeparator \notin 33..126
    BY DEF FieldSeparator
  <2> HIDE DEF a
  <2>8. line[a + 1] # FieldSeparator
    BY <2>5, <2>7
  <2>9. QED
    BY <2>4, <2>6, <2>8 DEF a
<1>6. ASSUME NEW i \in 1..m
      PROVE  /\ line[i] \in PrintableBytes
             /\ line[i] = FieldSeparator => \E k \in 2..n : i = after[k]
  <2>1. PICK k \in 1..n : i = after[k] \/ \E j \in 1..Len(tokens[k]) : i = after[k] + j
    BY <1>1
  <2>2. CASE i = after[k]
    <3>1. k # 1
      BY <1>0, <1>1, <2>2
    <3>2. k \in 2..n
      BY <1>0, <3>1
    <3>3. line[i] = FieldSeparator
      BY <1>5, <2>2, <3>2
    <3>4. FieldSeparator \in PrintableBytes
      BY DEF FieldSeparator, PrintableBytes
    <3>5. QED
      BY <2>2, <3>2, <3>3, <3>4
  <2>3. CASE \E j \in 1..Len(tokens[k]) : i = after[k] + j
    <3>1. PICK j \in 1..Len(tokens[k]) : i = after[k] + j
      BY <2>3
    <3>2. line[i] = tokens[k][j] /\ tokens[k][j] \in 33..126
      BY <1>1, <1>2, <3>1
    <3>3. FieldSeparator \notin 33..126 /\ 33..126 \subseteq PrintableBytes
      BY DEF FieldSeparator, PrintableBytes
    <3>4. QED
      BY <3>2, <3>3
  <2>4. QED
    BY <2>1, <2>2, <2>3
<1>7. WellStructured(line)
  <2>1. line # <<>>
    <3>1. 1 \in 1..n
      BY <1>0
    <3> DEFINE c == Len(tokens[1])
               d == after[1 + 1]
    <3>2. c \in Nat /\ c >= 1 /\ d = (0 + 1) + c /\ d <= m + 1
      BY <1>1, <3>1
    <3>3. m > 0
      <4> HIDE DEF c, d
      <4>1. QED
        BY <1>0, <3>2
    <3>4. Len(<<>>) = 0
      OBVIOUS
    <3>5. QED
      BY <3>3, <3>4 DEF m
  <2>2. ToSet(line) \subseteq PrintableBytes
    <3>1. DOMAIN line = 1..m
      BY DEF m
    <3>2. \A i \in DOMAIN line : line[i] \in PrintableBytes
      BY <1>6, <3>1
    <3>3. QED
      BY <3>2 DEF ToSet
  <2>3. ASSUME NEW i \in DOMAIN line, line[i] = FieldSeparator
        PROVE  i \notin {1, Len(line)} /\ line[i + 1] # FieldSeparator
    <3>1. i \in 1..m
      BY DEF m
    <3>2. PICK k \in 2..n : i = after[k]
      BY <1>6, <2>3, <3>1
    <3>3. i \in 2..(m - 1) /\ line[i + 1] # FieldSeparator
      BY <1>5, <3>2
    <3>4. i # 1 /\ i # m
      BY <1>0, <3>3
    <3>5. QED
      BY <3>3, <3>4 DEF m
  <2>4. QED
    BY <2>1, <2>2, <2>3 DEF WellStructured
<1>8. FieldStarts(line) = {after[k] + 1 : k \in 2..n}
  <2>1. ASSUME NEW i \in FieldStarts(line) PROVE i \in {after[k] + 1 : k \in 2..n}
    <3>1. i \in 2..m /\ line[i - 1] = FieldSeparator
      BY DEF FieldStarts, m
    <3>2. i - 1 \in 1..m /\ (i - 1) + 1 = i
      BY <1>0, <3>1
    <3>3. PICK k \in 2..n : i - 1 = after[k]
      BY <1>6, <3>1, <3>2
    <3>4. QED
      BY <3>2, <3>3
  <2>2. ASSUME NEW k \in 2..n PROVE after[k] + 1 \in FieldStarts(line)
    <3> DEFINE i == after[k] + 1
    <3>1. after[k] \in 2..(m - 1) /\ line[after[k]] = FieldSeparator
      BY <1>5
    <3>2. i \in 2..m /\ i - 1 = after[k]
      BY <1>0, <3>1
    <3> HIDE DEF i
    <3>3. i \in FieldStarts(line)
      BY <3>1, <3>2 DEF FieldStarts, m
    <3>4. QED
      BY <3>3 DEF i
  <2>3. QED
    BY <2>1, <2>2
<1>9. ASSUME NEW k \in 1..n PROVE TokenAt(line, after[k] + 1) = tokens[k]
  <2> DEFINE a == after[k]
             b == Len(tokens[k])
             ends == {i \in (a + 1)..(m + 1) : i = m + 1 \/ line[i] = FieldSeparator}
             end == (a + 1) + b
  <2>1. /\ a \in Nat /\ b \in Nat /\ b >= 1 /\ end <= m + 1 /\ after[k + 1] = end
        /\ end - 1 = a + b
    <3>1. a \in Nat /\ b \in Nat /\ b >= 1 /\ end <= m + 1 /\ after[k + 1] = end
      BY <1>1
    <3> HIDE DEF a, b
    <3>2. end - 1 = a + b
      BY <3>1
    <3>3. QED
      BY <3>1, <3>2
  <2>2. end \in ends
    <3>1. end = m + 1 \/ line[end] = FieldSeparator
      <4>1. CASE k = n
        BY <1>1, <2>1, <4>1
      <4>2. CASE k # n
        <5>1. k + 1 \in 2..n
          BY <1>0, <4>2
        <5>2. line[after[k + 1]] = FieldSeparator
          BY <1>5, <5>1
        <5>3. QED
          BY <2>1, <5>2
      <4>3. QED
        BY <4>1, <4>2
    <3>2. end \in (a + 1)..(m + 1)
      <4> HIDE DEF a, b
      <4>1. QED
        BY <1>0, <2>1
    <3>3. QED
      BY <3>1, <3>2
  <2>3. ASSUME NEW i \in ends PROVE end <= i
    <3>1. SUFFICES ASSUME ~(end <= i) PROVE FALSE
      OBVIOUS
    <3>2. /\ i \in Nat /\ i - a \in 1..b /\ a + (i - a) = i /\ i # m + 1
      <4>1. i \in (a + 1)..(m + 1)
        OBVIOUS
      <4> HIDE DEF a, b, ends
      <4>2. QED
        BY <1>0, <2>1, <3>1, <4>1
    <3>3. line[i] = FieldSeparator
      BY <3>2
    <3>4. line[a + (i - a)] = tokens[k][i - a] /\ tokens[k][i - a] \in 33..126
      BY <1>1, <1>2, <3>2
    <3>5. FieldSeparator \notin 33..126
      BY DEF FieldSeparator
    <3> HIDE DEF a, b, end, ends
    <3>6. QED
      BY <3>2, <3>3, <3>4, <3>5
  <2>4. ends \in SUBSET Nat
    <3>1. (a + 1)..(m + 1) \subseteq Nat
      BY <1>0, <2>1
    <3>2. QED
      BY <3>1
  <2>5. TokenEnd(line, a + 1) = Min(ends)
    BY DEF TokenEnd, m
  <2>6. Min(ends) = end
    <3> DEFINE least == Min(ends)
    <3> HIDE DEF ends, end
    <3>1. least \in ends /\ \A i \in ends : least <= i
      BY <2>2, <2>4, LeastIsOne
    <3>2. least <= end /\ end <= least /\ least \in Nat /\ end \in Nat
      BY <2>2, <2>3, <2>4, <3>1
    <3> HIDE DEF least
    <3>3. least = end
      BY <3>2
    <3>4. QED
      BY <3>3 DEF least
  <2>7. TokenAt(line, a + 1) = SubSeq(line, a + 1, a + b)
    <3> HIDE DEF a, b, ends, end
    <3>1. TokenAt(line, a + 1) = SubSeq(line, a + 1, end - 1)
      BY <2>5, <2>6 DEF TokenAt
    <3>2. QED
      BY <2>1, <3>1
  <2>8. SubSeq(line, a + 1, a + b) = tokens[k]
    <3> DEFINE cut == SubSeq(line, a + 1, a + b)
    <3>1. a + 1 \in 1..(m + 1) /\ a + b \in a..m
      <4> HIDE DEF a, b
      <4>1. QED
        BY <1>0, <2>1
    <3>2. cut = [j \in 1..b |-> line[a + j]]
      <4>1. /\ Len(cut) = b /\ cut \in Seq(Nat)
            /\ \A j \in 1..b : cut[j] = line[(a + 1) + j - 1]
        <5> HIDE DEF a, b
        <5>1. line \in Seq(Nat) /\ a + 1 \in Nat /\ a + b \in Nat
              /\ (a + b) - (a + 1) + 1 = b
          BY <1>0, <2>1
        <5>2. QED
          BY <1>0, <2>1, <3>1, <5>1 DEF m
      <4>2. \A j \in 1..b : (a + 1) + j - 1 = a + j
        BY <2>1
      <4>3. \A j \in 1..b : cut[j] = line[a + j]
        BY <4>1, <4>2
      <4> HIDE DEF cut, a, b
      <4>4. cut = [j \in 1..b |-> cut[j]]
        BY <4>1
      <4>5. QED
        BY <4>3, <4>4
    <3>3. tokens[k] = [j \in 1..b |-> tokens[k][j]]
      BY DEF n
    <3>4. \A j \in 1..b : line[a + j] = tokens[k][j]
      BY <1>1
    <3> HIDE DEF cut, a, b
    <3>5. QED
      BY <3>2, <3>3, <3>4 DEF cut
  <2>9. QED
    BY <2>7, <2>8
<1>10. TokenAt(line, 1) = tokens[1]
  <2>1. 1 \in 1..n /\ 0 + 1 = 1
    BY <1>0
  <2>2. QED
    BY <1>1, <1>9, <2>1
<1>11. QED
  BY <1>4, <1>7, <1>8, <1>9, <1>10 DEF n

(* Joining is associative.                                                 *)
LEMMA JoiningIsAssociative ==
  ASSUME NEW S, NEW a \in Seq(S), NEW b \in Seq(S), NEW c \in Seq(S)
  PROVE  (a \o b) \o c = a \o (b \o c)
OBVIOUS

(* Where the parts of a name, its sign and its value lie.                  *)
LEMMA ThreeJoined ==
  ASSUME NEW S, NEW first \in Seq(S), NEW element \in S, NEW last \in Seq(S)
  PROVE  LET all == first \o <<element>> \o last
             n == Len(first)
         IN  /\ all \in Seq(S) /\ Len(all) = (n + 1) + Len(last)
             /\ \A i \in 1..n : all[i] = first[i]
             /\ all[n + 1] = element
             /\ \A i \in 1..Len(last) : all[(n + 1) + i] = last[i]
<1> DEFINE n == Len(first)
           front == first \o <<element>>
           all == front \o last
<1>1. n \in Nat /\ Len(last) \in Nat
  OBVIOUS
<1>2. /\ front \in Seq(S) /\ Len(front) = n + 1
      /\ \A i \in 1..n : front[i] = first[i]
      /\ front[n + 1] = element
  OBVIOUS
<1> HIDE DEF front, n
<1>3. /\ all \in Seq(S) /\ Len(all) = (n + 1) + Len(last)
      /\ \A i \in 1..(n + 1) : all[i] = front[i]
      /\ \A i \in 1..Len(last) : all[(n + 1) + i] = last[i]
  BY <1>2
<1>4. n + 1 \in 1..(n + 1) /\ \A i \in 1..n : i \in 1..(n + 1)
  BY <1>1
<1> HIDE DEF all
<1>5. all[n + 1] = element /\ \A i \in 1..n : all[i] = first[i]
  BY <1>2, <1>3, <1>4
<1>6. QED
  BY <1>3, <1>5 DEF all, front, n

(* A token is cut at its first "=", into its name and its value.           *)
LEMMA TokenIsCut ==
  ASSUME NEW name \in Seq(33..126), Len(name) >= 1,
         \A i \in 1..Len(name) : name[i] # NameValueSeparator,
         NEW value \in Seq(33..126)
  PROVE  LET token == name \o <<NameValueSeparator>> \o value
         IN  /\ token \in Seq(33..126) /\ Len(token) = Len(name) + 1 + Len(value)
             /\ EqualsIn(token) = Len(name) + 1
             /\ NameIn(token) = name /\ ValueIn(token) = value
<1> DEFINE token == name \o <<NameValueSeparator>> \o value
           n == Len(name)
           v == Len(value)
           equals == {i \in 1..Len(token) : token[i] = NameValueSeparator}
<1>0. /\ n \in Nat /\ v \in Nat /\ n >= 1
  OBVIOUS
<1>2. /\ token \in Seq(33..126) /\ Len(token) = (n + 1) + v
      /\ \A i \in 1..n : token[i] = name[i]
      /\ token[n + 1] = NameValueSeparator
      /\ \A i \in 1..v : token[(n + 1) + i] = value[i]
  BY ThreeJoined DEF NameValueSeparator
<1> HIDE DEF token, v
<1>3. EqualsIn(token) = n + 1
  <2>1. n + 1 \in equals
    BY <1>0, <1>2
  <2>2. ASSUME NEW i \in equals PROVE n + 1 <= i
    <3>1. i \in 1..Len(token) /\ token[i] = NameValueSeparator
      OBVIOUS
    <3>2. i \notin 1..n
      BY <1>2, <3>1
    <3>3. QED
      BY <1>0, <1>2, <3>1, <3>2
  <2>3. equals \in SUBSET Nat
    OBVIOUS
  <2>4. EqualsIn(token) = IF equals # {} THEN Min(equals) ELSE 0
    BY DEF EqualsIn, SelectInSeq
  <2>5. EqualsIn(token) = Min(equals)
    BY <2>1, <2>4
  <2> HIDE DEF equals
  <2>6. Min(equals) \in equals /\ \A i \in equals : Min(equals) <= i
    BY <2>1, <2>3, LeastIsOne
  <2>7. Min(equals) <= n + 1 /\ n + 1 <= Min(equals) /\ Min(equals) \in Nat
    BY <2>1, <2>2, <2>3, <2>6
  <2>8. Min(equals) = n + 1
    BY <1>0, <2>7
  <2>9. QED
    BY <2>5, <2>8
<1>4. NameIn(token) = name
  <2>1. (n + 1) - 1 = n
    BY <1>0
  <2>2. NameIn(token) = SubSeq(token, 1, n)
    BY <1>3, <2>1 DEF NameIn
  <2>3. SubSeq(token, 1, n) = [i \in 1..n |-> token[i]]
    BY <1>0, <1>2
  <2>4. name = [i \in 1..n |-> name[i]]
    OBVIOUS
  <2>5. QED
    BY <1>2, <2>2, <2>3, <2>4
<1>5. ValueIn(token) = value
  <2> DEFINE cut == SubSeq(token, (n + 1) + 1, (n + 1) + v)
  <2>1. ValueIn(token) = cut
    BY <1>2, <1>3 DEF ValueIn
  <2>2. /\ Len(cut) = v /\ cut \in Seq(33..126)
        /\ \A i \in 1..v : cut[i] = token[(n + 1) + i]
    <3> DEFINE p == n + 1
               q == (n + 1) + v
    <3>1. /\ p + 1 \in 1..(Len(token) + 1) /\ q \in (p + 1 - 1)..Len(token)
          /\ p \in Nat /\ q \in Nat /\ q = p + v /\ q = Len(token) /\ p >= 1
      BY <1>0, <1>2
    <3> DEFINE piece == SubSeq(token, p + 1, q)
               S == 33..126
    <3> HIDE DEF p, q, S
    <3>2. token \in Seq(S)
      BY <1>2 DEF S
    <3>3. Len(piece) = v /\ piece \in Seq(S) /\ \A i \in 1..v : piece[i] = token[p + i]
      <4>1. Len(piece) = v /\ \A i \in 1..v : piece[i] = token[p + i]
        BY <1>0, <3>1, <3>2
      <4>2. piece \in Seq(S)
        BY <1>0, <3>1, <3>2
      <4>3. QED
        BY <4>1, <4>2
    <3> HIDE DEF piece
    <3>4. QED
      BY <3>3 DEF p, q, S, piece
  <2>3. value = [i \in 1..v |-> value[i]]
    BY DEF v
  <2> HIDE DEF cut
  <2>4. cut = [i \in 1..v |-> cut[i]]
    BY <2>2
  <2>5. QED
    BY <1>2, <2>1, <2>2, <2>3, <2>4
<1>6. QED
  BY <1>2, <1>3, <1>4, <1>5 DEF token, v

-----------------------------------------------------------------------------
(* A message's line. *)

(* Of a message: its fields' tokens, and all of its line's.                *)
FieldToken(message, k) ==
    LET field == FieldsOf[message.verb][k]
    IN  Spelling[field.name] \o <<NameValueSeparator>>
        \o EncodedValue(field, message.fields[k])

LineTokens(message) ==
    <<Spelling[message.verb]>>
    \o [k \in 1..Len(FieldsOf[message.verb]) |-> FieldToken(message, k)]

(* The encoder's line without its terminator. *)
LineOf(message) ==
    SubSeq(EncodedLine(message), 1, Len(EncodedLine(message)) - 1)

(* A message whose values fill the halves their types use. *)
LEMMA MessagesAreShaped ==
  ASSUME NEW message, IsMessage(message)
  PROVE  /\ message.verb \in Verbs
         /\ message = Message(message.verb,
                [k \in 1..Len(FieldsOf[message.verb]) |-> message.fields[k]])
         /\ \A k \in 1..Len(FieldsOf[message.verb]) :
              IsShaped(FieldsOf[message.verb][k], message.fields[k])
<1> DEFINE fields == FieldsOf[message.verb]
<1>1. message.verb \in Verbs
  BY DEF IsMessage
<1>2. DOMAIN fields = 1..Len(fields)
  BY <1>1, FieldsAreTabled
<1>3. QED
  BY <1>1, <1>2 DEF IsMessage, IsShaped

(* A field's token is cut at its sign into its name and its value.         *)
LEMMA FieldTokenIsCut ==
  ASSUME NEW message, IsMessage(message), FieldsAreValid(message),
         NEW k \in 1..Len(FieldsOf[message.verb])
  PROVE  LET field == FieldsOf[message.verb][k]
             token == FieldToken(message, k)
             value == EncodedValue(field, message.fields[k])
         IN  /\ token \in Seq(33..126) /\ value \in Seq(33..126)
             /\ Len(token) = Len(Spelling[field.name]) + 1 + Len(value)
             /\ Len(Spelling[field.name]) >= 1
             /\ EqualsIn(token) = Len(Spelling[field.name]) + 1
             /\ NameIn(token) = Spelling[field.name] /\ ValueIn(token) = value
             /\ DecodedValue(field, value) = [error |-> "NONE", value |-> message.fields[k]]
<1> DEFINE field == FieldsOf[message.verb][k]
           name == Spelling[field.name]
           value == EncodedValue(field, message.fields[k])
<1>1. /\ message.verb \in Verbs /\ IsTableField(field)
      /\ IsShaped(field, message.fields[k])
  BY MessagesAreShaped, FieldsAreTabled
<1>2. IsValid(field, message.fields[k])
  <2>1. k \in DOMAIN FieldsOf[message.verb]
    BY <1>1, FieldsAreTabled
  <2>2. QED
    BY <2>1 DEF FieldsAreValid
<1> HIDE DEF field
<1>3. /\ value \in Seq(33..126)
      /\ DecodedValue(field, value) = [error |-> "NONE", value |-> message.fields[k]]
  BY <1>1, <1>2, ValueReads
<1>4. /\ name \in Seq(33..126) /\ Len(name) >= 1
      /\ \A i \in 1..Len(name) : name[i] # NameValueSeparator
  <2>1. field.name \in TableWords
    BY <1>1 DEF IsTableField
  <2> DEFINE word == Spelling[field.name]
  <2>2. /\ word \in Seq(33..126) /\ word # <<>>
        /\ \A i \in DOMAIN word : word[i] # 61
    BY <2>1, SpellingAssumption
  <2> HIDE DEF word
  <2>3. Len(word) >= 1 /\ DOMAIN word = 1..Len(word)
    BY <2>2
  <2>4. QED
    BY <2>2, <2>3 DEF word, NameValueSeparator
<1> HIDE DEF name, value
<1>5. LET token == name \o <<NameValueSeparator>> \o value
      IN  /\ token \in Seq(33..126) /\ Len(token) = Len(name) + 1 + Len(value)
          /\ EqualsIn(token) = Len(name) + 1
          /\ NameIn(token) = name /\ ValueIn(token) = value
  BY <1>3, <1>4, TokenIsCut
<1>6. FieldToken(message, k) = name \o <<NameValueSeparator>> \o value
  BY DEF FieldToken, name, value, field
<1>7. QED
  BY <1>3, <1>4, <1>5, <1>6 DEF name, value, field

(* The tokens of a line, the verb's before the fields'. *)
LEMMA LineTokensAre ==
  ASSUME NEW message, IsMessage(message), FieldsAreValid(message)
  PROVE  LET n == Len(FieldsOf[message.verb])
             tokens == LineTokens(message)
         IN  /\ n \in Nat /\ n >= 1
             /\ tokens \in Seq(Seq(33..126)) /\ Len(tokens) = n + 1
             /\ tokens[1] = Spelling[message.verb]
             /\ \A k \in 1..n : tokens[k + 1] = FieldToken(message, k)
             /\ \A k \in 1..(n + 1) : Len(tokens[k]) >= 1
<1> DEFINE n == Len(FieldsOf[message.verb])
           tokens == LineTokens(message)
           word == Spelling[message.verb]
           fields == [k \in 1..n |-> FieldToken(message, k)]
           S == Seq(33..126)
<1>1. message.verb \in Verbs /\ n \in 1..5
  BY MessagesAreShaped, FieldsAreTabled
<1>2. word \in S /\ Len(word) >= 1
  <2>1. message.verb \in TableWords
    BY <1>1 DEF TableWords
  <2>2. word \in Seq(33..126) /\ word # <<>>
    BY <2>1, SpellingAssumption
  <2> HIDE DEF word
  <2>3. Len(word) >= 1
    BY <2>2
  <2>4. QED
    BY <2>2, <2>3
<1>3. \A k \in 1..n : FieldToken(message, k) \in S /\ Len(FieldToken(message, k)) >= 1
  <2> TAKE k \in 1..n
  <2> DEFINE token == FieldToken(message, k)
             a == Len(Spelling[FieldsOf[message.verb][k].name])
             b == Len(EncodedValue(FieldsOf[message.verb][k], message.fields[k]))
  <2>1. /\ token \in Seq(33..126)
        /\ EncodedValue(FieldsOf[message.verb][k], message.fields[k]) \in Seq(33..126)
        /\ Len(token) = a + 1 + b /\ a >= 1
    BY FieldTokenIsCut
  <2>2. b \in Nat /\ Len(token) \in Nat
    <3>1. \A bytes \in Seq(33..126) : Len(bytes) \in Nat
      OBVIOUS
    <3>2. QED
      BY <2>1, <3>1
  <2>3. a \in Nat
    <3>1. FieldsOf[message.verb][k].name \in TableWords
      BY <1>1, FieldsAreTabled DEF IsTableField
    <3>2. Spelling[FieldsOf[message.verb][k].name] \in Seq(33..126)
      BY <3>1, SpellingAssumption
    <3>3. QED
      BY <3>2
  <2> HIDE DEF token, a, b
  <2>4. Len(token) >= 1
    BY <2>1, <2>2, <2>3
  <2>5. QED
    BY <2>1, <2>4 DEF token
<1> HIDE DEF S, word, n
<1>4. fields \in Seq(S) /\ Len(fields) = n
  BY <1>1, <1>3
<1>5. \A k \in 1..n : fields[k] = FieldToken(message, k)
  OBVIOUS
<1> HIDE DEF fields
<1>6. tokens = <<word>> \o fields
  BY DEF tokens, LineTokens, word, fields, n
<1> HIDE DEF tokens
<1>7. /\ tokens \in Seq(S) /\ Len(tokens) = n + 1 /\ tokens[1] = word
      /\ \A k \in 1..n : tokens[k + 1] = fields[k]
  BY <1>1, <1>2, <1>4, <1>6
<1>8. \A k \in 1..(n + 1) : Len(tokens[k]) >= 1
  <2> TAKE k \in 1..(n + 1)
  <2>1. CASE k = 1
    BY <1>2, <1>7, <2>1
  <2>2. CASE k # 1
    <3>1. k - 1 \in 1..n /\ (k - 1) + 1 = k
      BY <1>1, <2>2
    <3>2. tokens[(k - 1) + 1] = FieldToken(message, k - 1)
      BY <1>5, <1>7, <3>1
    <3>3. Len(FieldToken(message, k - 1)) >= 1
      BY <1>3, <3>1
    <3>4. QED
      BY <3>1, <3>2, <3>3
  <2>3. QED
    BY <2>1, <2>2
<1>9. n >= 1
  BY <1>1
<1>10. n \in Nat /\ tokens \in Seq(Seq(33..126)) /\ Len(tokens) = n + 1
  BY <1>1, <1>7 DEF S
<1>11. tokens[1] = word /\ \A k \in 1..n : tokens[k + 1] = FieldToken(message, k)
  BY <1>5, <1>7
<1>12. QED
  BY <1>8, <1>9, <1>10, <1>11 DEF n, tokens, word

(* The encoder's field, a separator and a token.                           *)
LEMMA BlockIsCell ==
  ASSUME NEW name \in Seq(32..126), NEW value \in Seq(32..126)
  PROVE  /\ <<FieldSeparator>> \o name \o <<NameValueSeparator>> \o value
            = <<FieldSeparator>> \o (name \o <<NameValueSeparator>> \o value)
         /\ <<FieldSeparator>> \o (name \o <<NameValueSeparator>> \o value) \in Seq(32..126)
<1> DEFINE S == 32..126
           space == <<FieldSeparator>>
           equals == <<NameValueSeparator>>
<1>1. space \in Seq(S) /\ equals \in Seq(S) /\ name \in Seq(S) /\ value \in Seq(S)
  BY DEF FieldSeparator, NameValueSeparator
<1> HIDE DEF S, space, equals
<1>2. (space \o name) \o equals = space \o (name \o equals)
  BY <1>1, JoiningIsAssociative
<1>3. name \o equals \in Seq(S)
  BY <1>1
<1>4. (space \o (name \o equals)) \o value = space \o ((name \o equals) \o value)
  <2> DEFINE front == name \o equals
  <2> HIDE DEF front
  <2>1. front \in Seq(S)
    BY <1>3 DEF front
  <2>2. (space \o front) \o value = space \o (front \o value)
    BY <1>1, <2>1, JoiningIsAssociative
  <2>3. QED
    BY <2>2 DEF front
<1>5. space \o ((name \o equals) \o value) \in Seq(S)
  BY <1>1, <1>3
<1>6. QED
  BY <1>2, <1>4, <1>5 DEF S, space, equals

(* The encoder's line is a line of its tokens, and a terminator.           *)
LEMMA LineLies ==
  ASSUME NEW message, IsMessage(message), FieldsAreValid(message)
  PROVE  /\ LineOf(message) \in Seq(32..126)
         /\ EncodedLine(message) = Append(LineOf(message), LineTerminator)
         /\ \E after : IsLineOf(LineOf(message), LineTokens(message), after)
<1> DEFINE S == 32..126
           fields == FieldsOf[message.verb]
           n == Len(fields)
           tokens == LineTokens(message)
           word == Spelling[message.verb]
           space == <<FieldSeparator>>
           block(k) == <<FieldSeparator>> \o Spelling[fields[k].name]
                       \o <<NameValueSeparator>> \o EncodedValue(fields[k], message.fields[k])
           blocks == [k \in DOMAIN fields |-> block(k)]
           rest == FlattenSeq(blocks)
           line == word \o rest
<1>0. /\ n \in Nat /\ n >= 1 /\ DOMAIN fields = 1..n
      /\ tokens \in Seq(Seq(33..126)) /\ Len(tokens) = n + 1
      /\ tokens[1] = word
      /\ \A k \in 1..n : tokens[k + 1] = FieldToken(message, k)
  BY LineTokensAre, MessagesAreShaped, FieldsAreTabled
<1>1. 33..126 \subseteq S /\ S \subseteq Nat /\ space \in Seq(S) /\ Len(space) = 1
  BY DEF FieldSeparator
<1>2. word \in Seq(33..126)
  <2>1. message.verb \in TableWords
    BY MessagesAreShaped DEF TableWords
  <2>2. QED
    BY <2>1, SpellingAssumption
<1>3. word \in Seq(S)
  <2> HIDE DEF S, word
  <2>1. QED
    BY <1>1, <1>2, SequenceOfSubset
<1>4. ASSUME NEW k \in 1..n
      PROVE  block(k) = space \o FieldToken(message, k) /\ block(k) \in Seq(S)
  <2> DEFINE name == Spelling[fields[k].name]
             value == EncodedValue(fields[k], message.fields[k])
  <2>1. value \in Seq(33..126)
    BY FieldTokenIsCut
  <2>2. name \in Seq(33..126)
    <3>1. fields[k].name \in TableWords
      BY MessagesAreShaped, FieldsAreTabled DEF IsTableField
    <3>2. QED
      BY <3>1, SpellingAssumption
  <2> HIDE DEF name, value, fields
  <2>3. name \in Seq(32..126) /\ value \in Seq(32..126)
    BY <1>1, <2>1, <2>2, SequenceOfSubset
  <2>4. /\ <<FieldSeparator>> \o name \o <<NameValueSeparator>> \o value
           = <<FieldSeparator>> \o (name \o <<NameValueSeparator>> \o value)
        /\ <<FieldSeparator>> \o (name \o <<NameValueSeparator>> \o value) \in Seq(32..126)
    BY <2>3, BlockIsCell
  <2>5. FieldToken(message, k) = name \o <<NameValueSeparator>> \o value
    BY DEF FieldToken, name, value, fields
  <2>6. block(k) = <<FieldSeparator>> \o name \o <<NameValueSeparator>> \o value
    BY DEF name, value
  <2> HIDE DEF block
  <2>7. QED
    BY <2>4, <2>5, <2>6
<1>5. EncodedLine(message) = word \o rest \o <<LineTerminator>>
  BY DEF EncodedLine
<1> HIDE DEF block, fields, n
<1>6. blocks \in Seq(Seq(S)) /\ Len(blocks) = n
  <2>1. blocks = [k \in 1..n |-> block(k)]
    BY <1>0
  <2> HIDE DEF blocks, S
  <2>2. QED
    BY <1>0, <1>4, <2>1
<1>b. \A k \in 1..n : blocks[k] = block(k)
  BY <1>0
<1> HIDE DEF blocks
<1>7. rest \in Seq(S) /\ \E after : LiesAfter(rest, blocks, after)
  BY <1>6, FlattenLies
<1> HIDE DEF rest
<1>8. PICK less : LiesAfter(rest, blocks, less)
  BY <1>7
<1> HIDE DEF S, word, space
<1>9. line \in Seq(S) /\ space \o word \in Seq(S)
  BY <1>1, <1>3, <1>7
<1>10. PICK after : LiesAfter((space \o word) \o rest, <<space \o word>> \o blocks, after)
  BY <1>6, <1>7, <1>8, <1>9, LiesPrepended
<1>11. (space \o word) \o rest = space \o line
  <2>1. rest \in Seq(S)
    BY <1>7
  <2>a. space \in Seq(S)
    BY <1>1
  <2>b. word \in Seq(S)
    BY <1>3
  <2> HIDE DEF line
  <2>2. (space \o word) \o rest = space \o (word \o rest)
    BY <2>a, <2>b, <2>1, JoiningIsAssociative
  <2>3. QED
    BY <2>2 DEF line
<1>12. <<space \o word>> \o blocks = Cells(tokens)
  <2> DEFINE left == <<space \o word>> \o blocks
             right == Cells(tokens)
  <2> DEFINE part == space \o word
             X == Seq(S)
  <2>0. part \in X /\ blocks \in Seq(X) /\ Len(blocks) = n /\ n \in Nat
    BY <1>0, <1>6, <1>9
  <2> HIDE DEF part, X
  <2>1. Len(left) = n + 1 /\ left = [k \in 1..(n + 1) |-> left[k]]
        /\ left[1] = space \o word
        /\ \A k \in 1..n : left[k + 1] = blocks[k]
    <3>1. <<part>> \in Seq(X) /\ Len(<<part>>) = 1 /\ <<part>>[1] = part
      BY <2>0
    <3>2. /\ Len(<<part>> \o blocks) = n + 1 /\ <<part>> \o blocks \in Seq(X)
          /\ (<<part>> \o blocks)[1] = part
      BY <2>0, <3>1
    <3>3. \A k \in 1..n : (<<part>> \o blocks)[k + 1] = blocks[k]
      BY <2>0, <3>1
    <3>4. <<part>> \o blocks = [k \in 1..(n + 1) |-> (<<part>> \o blocks)[k]]
      BY <3>2
    <3>5. QED
      BY <3>2, <3>3, <3>4 DEF part
  <2>2. right = [k \in 1..(n + 1) |-> space \o tokens[k]]
    BY <1>0 DEF Cells, space
  <2>3. ASSUME NEW k \in 1..(n + 1) PROVE left[k] = space \o tokens[k]
    <3>1. CASE k = 1
      BY <1>0, <2>1, <3>1
    <3>2. CASE k # 1
      <4>1. k - 1 \in 1..n /\ (k - 1) + 1 = k
        BY <1>0, <3>2
      <4>2. left[(k - 1) + 1] = space \o FieldToken(message, k - 1)
        BY <1>4, <1>b, <2>1, <4>1
      <4>3. tokens[(k - 1) + 1] = FieldToken(message, k - 1)
        BY <1>0, <4>1
      <4> HIDE DEF left
      <4>4. QED
        BY <4>1, <4>2, <4>3
    <3>3. QED
      BY <3>1, <3>2
  <2> HIDE DEF left, right
  <2>4. left = right
    BY <2>1, <2>2, <2>3
  <2>5. QED
    BY <2>4 DEF left, right
<1> HIDE DEF tokens
<1>13. line \in Seq(Nat)
  BY <1>1, <1>9, SequenceOfSubset
<1> HIDE DEF line
<1>14. IsLineOf(line, tokens, after)
  <2>1. LiesAfter(<<FieldSeparator>> \o line, Cells(tokens), after)
    BY <1>10, <1>11, <1>12 DEF space
  <2>2. QED
    BY <1>0, <1>13, <2>1, TokensLie
<1>15. LineOf(message) = line /\ EncodedLine(message) = Append(line, LineTerminator)
  <2> DEFINE all == EncodedLine(message)
  <2>1. all = line \o <<LineTerminator>>
    BY <1>5 DEF line
  <2>2. all = Append(line, LineTerminator) /\ Len(all) - 1 = Len(line)
    BY <1>13, <2>1 DEF LineTerminator
  <2> HIDE DEF all
  <2>3. SubSeq(all, 1, Len(line)) = line
    BY <1>13, <2>2 DEF LineTerminator
  <2>4. QED
    BY <2>2, <2>3 DEF all, LineOf
<1>16. QED
  BY <1>9, <1>14, <1>15 DEF S, tokens

-----------------------------------------------------------------------------
(* What is written is read. *)

(* A field is found by its name, and only by it.                           *)
LEMMA FieldsAreNamed ==
  ASSUME NEW verb \in Verbs, NEW token
  PROVE  LET fields == FieldsOf[verb]
             index == FieldIndex(verb, token)
         IN  /\ index \in 0..Len(fields)
             /\ index # 0 => NameIn(token) = Spelling[fields[index].name]
             /\ \A k \in 1..Len(fields) :
                  NameIn(token) = Spelling[fields[k].name] => index = k
<1> DEFINE fields == FieldsOf[verb]
           n == Len(fields)
           found == {k \in 1..n : Spelling[fields[k].name] = NameIn(token)}
           index == FieldIndex(verb, token)
<1>1. index = IF found # {} THEN Min(found) ELSE 0
  BY DEF FieldIndex, SelectInSeq
<1>2. /\ n \in Nat
      /\ \A k \in 1..n : fields[k].name \in TableWords
      /\ \A k, l \in 1..n : fields[k].name = fields[l].name => k = l
  <2>1. n \in Nat /\ \A k \in 1..n : IsTableField(fields[k])
    <3>1. n \in 1..5
      BY FieldsAreTabled
    <3>2. \A k \in 1..n : IsTableField(fields[k])
      BY FieldsAreTabled
    <3>3. QED
      BY <3>1, <3>2
  <2>2. \A k, l \in 1..n : fields[k].name = fields[l].name => k = l
    BY FieldsAreTabled
  <2>3. \A k \in 1..n : fields[k].name \in TableWords
    BY <2>1 DEF IsTableField
  <2>4. QED
    BY <2>1, <2>2, <2>3
<1>3. \A k, l \in 1..n : Spelling[fields[k].name] = Spelling[fields[l].name] => k = l
  BY <1>2, SpellingAssumption
<1>4. found # {} => Min(found) \in found
  <2>1. found \in SUBSET Nat
    BY <1>2
  <2> HIDE DEF found
  <2>2. QED
    BY <2>1, LeastIsOne
<1> HIDE DEF index, fields, n
<1>5. ASSUME NEW k \in 1..n, NameIn(token) = Spelling[fields[k].name]
      PROVE  index = k
  <2>1. k \in found
    BY <1>5
  <2>2. index \in found
    BY <1>1, <1>4, <2>1
  <2>3. QED
    BY <1>3, <1>5, <2>2
<1>6. index # 0 => index \in found
  <2> HIDE DEF found
  <2>1. QED
    BY <1>1, <1>4
<1>7. index \in 0..n
  BY <1>1, <1>2, <1>6
<1>8. index # 0 => NameIn(token) = Spelling[fields[index].name]
  BY <1>6
<1>9. QED
  BY <1>5, <1>7, <1>8 DEF index, fields, n

(* A verb is the only one of its spelling.                                 *)
LEMMA VerbsAreSpelled ==
  ASSUME NEW verb \in Verbs
  PROVE  {other \in Verbs : Spelling[other] = Spelling[verb]} = {verb}
<1>1. Verbs \subseteq TableWords
  BY DEF TableWords
<1>2. \A other \in Verbs : Spelling[other] = Spelling[verb] => other = verb
  BY <1>1, SpellingAssumption
<1>3. QED
  BY <1>2

(* What the encoder writes, the parser reads: whatever the verb, the       *)
(* spellings and the values within their bounds, escapes included          *)
(* (remote_protocol_encode and remote_protocol_parse_line).                *)
THEOREM MessagesAreRead ==
  ASSUME NEW message, IsMessage(message), FieldsAreValid(message)
  PROVE  ParseLine(LineOf(message)) = [kind |-> "message", message |-> message]
<1> DEFINE verb == message.verb
           fields == FieldsOf[verb]
           n == Len(fields)
           tokens == LineTokens(message)
           line == LineOf(message)
           value(k) == EncodedValue(fields[k], message.fields[k])
<1>0. /\ n \in Nat /\ n >= 1 /\ DOMAIN fields = 1..n
      /\ tokens \in Seq(Seq(33..126)) /\ Len(tokens) = n + 1
      /\ tokens[1] = Spelling[verb]
      /\ \A k \in 1..n : tokens[k + 1] = FieldToken(message, k)
      /\ \A k \in 1..(n + 1) : Len(tokens[k]) >= 1
      /\ verb \in Verbs
  <2>1. verb \in Verbs
    BY MessagesAreShaped
  <2>2. DOMAIN fields = 1..n
    BY <2>1, FieldsAreTabled
  <2>3. /\ n \in Nat /\ n >= 1
        /\ tokens \in Seq(Seq(33..126)) /\ Len(tokens) = n + 1
        /\ tokens[1] = Spelling[verb]
        /\ \A k \in 1..n : tokens[k + 1] = FieldToken(message, k)
        /\ \A k \in 1..(n + 1) : Len(tokens[k]) >= 1
    BY LineTokensAre
  <2>4. QED
    BY <2>1, <2>2, <2>3
<1>1. PICK after : IsLineOf(line, tokens, after)
  BY LineLies
<1> DEFINE start(k) == after[k + 1] + 1
<1>2. line \in Seq(Nat)
  <2>1. 32..126 \subseteq Nat /\ line \in Seq(32..126)
    BY LineLies
  <2> HIDE DEF line
  <2>2. QED
    BY <2>1, SequenceOfSubset
<1>c. \A k \in 1..n :
        /\ EqualsIn(FieldToken(message, k)) > 1
        /\ NameIn(FieldToken(message, k)) = Spelling[fields[k].name]
        /\ ValueIn(FieldToken(message, k)) = value(k)
        /\ DecodedValue(fields[k], value(k)) = [error |-> "NONE", value |-> message.fields[k]]
  <2> TAKE k \in 1..n
  <2> DEFINE a == Len(Spelling[fields[k].name])
  <2>1. EqualsIn(FieldToken(message, k)) = a + 1 /\ a >= 1
    BY FieldTokenIsCut
  <2>2. a \in Nat
    <3>1. fields[k].name \in TableWords
      BY <1>0, FieldsAreTabled DEF IsTableField
    <3>2. Spelling[fields[k].name] \in Seq(33..126)
      BY <3>1, SpellingAssumption
    <3>3. \A bytes \in Seq(33..126) : Len(bytes) \in Nat
      OBVIOUS
    <3>4. QED
      BY <3>2, <3>3
  <2>3. EqualsIn(FieldToken(message, k)) > 1
    <3> HIDE DEF a
    <3>1. QED
      BY <2>1, <2>2
  <2>4. QED
    BY <2>3, FieldTokenIsCut
<1>m. message = Message(verb, [k \in 1..n |-> message.fields[k]])
  BY MessagesAreShaped
<1> HIDE DEF line, tokens, verb, fields, n, value
<1>3. /\ WellStructured(line)
      /\ FieldStarts(line) = {after[k] + 1 : k \in 2..(n + 1)}
      /\ TokenAt(line, 1) = tokens[1]
      /\ \A k \in 1..(n + 1) : TokenAt(line, after[k] + 1) = tokens[k]
      /\ \A k, l \in 1..(n + 1) : after[k] = after[l] => k = l
  <2>1. Len(tokens) >= 1 /\ \A k \in 1..Len(tokens) : Len(tokens[k]) >= 1
    BY <1>0
  <2>2. /\ WellStructured(line)
        /\ FieldStarts(line) = {after[k] + 1 : k \in 2..Len(tokens)}
        /\ TokenAt(line, 1) = tokens[1]
        /\ \A k \in 1..Len(tokens) : TokenAt(line, after[k] + 1) = tokens[k]
        /\ \A k, l \in 1..Len(tokens) : after[k] = after[l] => k = l
    <3>1. tokens \in Seq(Seq(33..126))
      BY <1>0
    <3>2. QED
      BY <1>1, <1>2, <2>1, <3>1, TokensAreCut
  <2>3. Len(tokens) = n + 1
    BY <1>0
  <2>4. QED
    BY <2>2, <2>3
<1>4. FieldStarts(line) = {start(k) : k \in 1..n}
  <2>1. ASSUME NEW k \in 2..(n + 1) PROVE k - 1 \in 1..n /\ (k - 1) + 1 = k
    BY <1>0
  <2>2. ASSUME NEW k \in 1..n PROVE k + 1 \in 2..(n + 1)
    BY <1>0
  <2>3. ASSUME NEW i \in FieldStarts(line) PROVE i \in {start(k) : k \in 1..n}
    <3>1. PICK k \in 2..(n + 1) : i = after[k] + 1
      BY <1>3
    <3>2. i = start(k - 1)
      BY <2>1, <3>1
    <3> HIDE DEF start
    <3>3. QED
      BY <2>1, <3>2
  <2>4. ASSUME NEW k \in 1..n PROVE start(k) \in FieldStarts(line)
    BY <1>3, <2>2
  <2>5. QED
    BY <2>3, <2>4
<1>5. ASSUME NEW k \in 1..n
      PROVE  /\ TokenAt(line, start(k)) = FieldToken(message, k)
             /\ FieldIndex(verb, TokenAt(line, start(k))) = k
  <2>1. k + 1 \in 1..(n + 1)
    BY <1>0
  <2>2. TokenAt(line, start(k)) = FieldToken(message, k)
    BY <1>0, <1>3, <2>1
  <2> HIDE DEF start
  <2>3. FieldIndex(verb, FieldToken(message, k)) = k
    BY <1>0, <1>c, FieldsAreNamed DEF fields, n
  <2>4. QED
    BY <2>2, <2>3
<1> HIDE DEF start
<1>6. ASSUME NEW k \in 1..n PROVE Giving(verb, line, k) = {start(k)}
  BY <1>4, <1>5 DEF Giving
<1>7. ASSUME NEW i \in FieldStarts(line) PROVE FieldError(verb, line, i) = "NONE"
  <2>1. PICK k \in 1..n : i = start(k)
    BY <1>4
  <2> DEFINE token == FieldToken(message, k)
  <2>2. TokenAt(line, i) = token /\ FieldIndex(verb, token) = k /\ k # 0
    BY <1>0, <1>5, <2>1
  <2>3. ~(EqualsIn(token) <= 1)
    <3> DEFINE e == EqualsIn(token)
    <3>1. e > 1 /\ e \in Nat
      <4>1. e > 1
        BY <1>c
      <4>2. e \in Nat
        <5> DEFINE S == {p \in 1..Len(token) : token[p] = NameValueSeparator}
        <5>1. e = IF S # {} THEN Min(S) ELSE 0
          BY DEF EqualsIn, SelectInSeq
        <5>2. S \in SUBSET Nat
          OBVIOUS
        <5> HIDE DEF S, e
        <5>3. S # {} => Min(S) \in S
          BY <5>2, LeastIsOne
        <5>4. QED
          BY <5>1, <5>2, <5>3
      <4>3. QED
        BY <4>1, <4>2
    <3> HIDE DEF e
    <3>2. ~(e <= 1)
      BY <3>1
    <3>3. QED
      BY <3>2 DEF e
  <2>4. start(k) \in Nat
    <3>1. start(k) \in FieldStarts(line)
      BY <1>4
    <3>2. FieldStarts(line) \subseteq Nat
      BY DEF FieldStarts
    <3>3. QED
      BY <3>1, <3>2
  <2>5. ~\E earlier \in Giving(verb, line, k) : earlier < i
    BY <1>6, <2>1, <2>4
  <2>6. /\ ValueIn(token) = value(k)
        /\ DecodedValue(FieldsOf[verb][k], value(k)).error = "NONE"
    <3>1. \A v : [error |-> "NONE", value |-> v].error = "NONE"
      OBVIOUS
    <3>2. DecodedValue(fields[k], value(k)).error = "NONE"
      BY <1>c, <3>1
    <3>3. ValueIn(token) = value(k)
      BY <1>c
    <3>4. QED
      BY <3>2, <3>3 DEF fields
  <2> HIDE DEF token
  <2>7. QED
    BY <2>2, <2>3, <2>5, <2>6 DEF FieldError
<1>8. ParseFields(verb, line) = [kind |-> "message", message |-> message]
  <2> DEFINE failing == {i \in FieldStarts(line) : FieldError(verb, line, i) # "NONE"}
             given(index) == TokenAt(line, CHOOSE i \in Giving(verb, line, index) : TRUE)
             values == [index \in DOMAIN FieldsOf[verb] |->
                          DecodedValue(FieldsOf[verb][index], ValueIn(given(index))).value]
  <2>1. failing = {}
    BY <1>7
  <2>2. ~\E index \in DOMAIN FieldsOf[verb] : Giving(verb, line, index) = {}
    BY <1>0, <1>6 DEF fields
  <2>3. ASSUME NEW k \in 1..n
        PROVE  DecodedValue(FieldsOf[verb][k], ValueIn(given(k))).value = message.fields[k]
    <3>1. given(k) = FieldToken(message, k)
      <4>1. (CHOOSE i \in Giving(verb, line, k) : TRUE) = start(k)
        BY <1>6
      <4>2. QED
        BY <1>5, <4>1
    <3> HIDE DEF given
    <3>2. QED
      <4>1. \A v : [error |-> "NONE", value |-> v].value = v
        OBVIOUS
      <4>2. DecodedValue(fields[k], value(k)).value = message.fields[k]
        BY <1>c, <4>1
      <4>3. ValueIn(given(k)) = value(k)
        BY <1>c, <3>1
      <4>4. QED
        BY <4>2, <4>3 DEF fields
  <2>4. ParseFields(verb, line) = [kind |-> "message", message |-> Message(verb, values)]
    <3>1. ParseFields(verb, line) =
            IF failing # {}
              THEN [kind |-> "error", error |-> FieldError(verb, line, Min(failing))]
            ELSE IF \E index \in DOMAIN FieldsOf[verb] : Giving(verb, line, index) = {}
              THEN [kind |-> "error", error |-> "NO_FIELD"]
            ELSE [kind |-> "message", message |-> Message(verb, values)]
      BY DEF ParseFields
    <3> HIDE DEF failing, values
    <3>2. QED
      BY <2>1, <2>2, <3>1
  <2>5. values = [k \in 1..n |-> message.fields[k]]
    <3>1. DOMAIN FieldsOf[verb] = 1..n
      BY <1>0 DEF fields
    <3> HIDE DEF given
    <3>2. QED
      BY <2>3, <3>1
  <2> HIDE DEF values
  <2>6. QED
    BY <1>m, <2>4, <2>5
<1>9. ParseLine(line) = ParseFields(verb, line)
  <2> DEFINE verbs == {other \in Verbs : Spelling[other] = TokenAt(line, 1)}
  <2>1. verbs = {verb}
    BY <1>0, <1>3, VerbsAreSpelled
  <2>2. ParseLine(line) =
          IF ~WellStructured(line) THEN [kind |-> "error", error |-> "MALFORMED"]
          ELSE IF verbs = {} THEN [kind |-> "error", error |-> "BAD_VERB"]
          ELSE ParseFields(CHOOSE other \in verbs : TRUE, line)
    BY DEF ParseLine
  <2> HIDE DEF verbs
  <2>3. (CHOOSE other \in verbs : TRUE) = verb
    BY <2>1
  <2>4. QED
    BY <1>3, <2>1, <2>2, <2>3
<1>10. QED
  BY <1>8, <1>9 DEF line

-----------------------------------------------------------------------------
(* What is read is written again. *)

(* Cells of one line, laid out without a gap, and as many cells of another *)
(* that are no shorter and do not overlap: the first line is no longer.    *)
LEMMA CellsFit ==
  ASSUME NEW n \in Nat, NEW m \in Nat, NEW bound \in Nat,
         NEW after \in [1..n -> Nat], NEW size \in [1..n -> Nat],
         NEW place \in [1..n -> Nat], NEW room \in [1..n -> Nat],
         \A k \in 1..n : size[k] <= room[k] /\ place[k] + room[k] <= bound,
         \A p \in 0..m : \E k \in 1..n : after[k] <= p /\ p <= after[k] + size[k],
         \A k, l \in 1..n : k # l => \/ place[k] + room[k] < place[l]
                                     \/ place[l] + room[l] < place[k]
  PROVE  m <= bound
<1> DEFINE cell(p) == CHOOSE k \in 1..n : after[k] <= p /\ p <= after[k] + size[k]
           moved == [p \in 0..m |-> place[cell(p)] + (p - after[cell(p)])]
<1>1. SUFFICES ASSUME ~(m <= bound) PROVE FALSE
  OBVIOUS
<1>2. ASSUME NEW p \in 0..m
      PROVE  \E k \in 1..n :
               /\ moved[p] = place[k] + (p - after[k])
               /\ after[k] <= p /\ p <= after[k] + size[k]
               /\ place[k] <= moved[p] /\ moved[p] <= place[k] + room[k]
               /\ moved[p] \in 0..bound
  <2> DEFINE k == cell(p)
  <2>1. k \in 1..n /\ after[k] <= p /\ p <= after[k] + size[k]
    OBVIOUS
  <2>2. moved[p] = place[k] + (p - after[k])
    OBVIOUS
  <2> HIDE DEF k, moved
  <2>3. /\ place[k] \in Nat /\ room[k] \in Nat /\ after[k] \in Nat /\ size[k] \in Nat
        /\ size[k] <= room[k] /\ place[k] + room[k] <= bound
    BY <2>1
  <2>4. place[k] <= moved[p] /\ moved[p] <= place[k] + room[k] /\ moved[p] \in 0..bound
    <3> DEFINE a == after[k]
               s == size[k]
               c == place[k]
               r == room[k]
               d == moved[p]
    <3>1. /\ c \in Nat /\ r \in Nat /\ a \in Nat /\ s \in Nat
          /\ s <= r /\ c + r <= bound /\ a <= p /\ p <= a + s /\ d = c + (p - a)
          /\ p \in Nat
      BY <2>1, <2>2, <2>3
    <3> HIDE DEF a, s, c, r, d
    <3>2. c <= d /\ d <= c + r /\ d \in 0..bound
      BY <3>1
    <3>3. QED
      BY <3>2 DEF c, r, d
  <2>5. QED
    BY <2>1, <2>2, <2>4
<1> HIDE DEF moved
<1>3. moved \in [0..m -> 0..bound]
  <2>1. \A p \in 0..m : moved[p] \in 0..bound
    BY <1>2
  <2>2. QED
    BY <2>1 DEF moved
<1>4. PICK p \in 0..m, q \in 0..m : p # q /\ moved[p] = moved[q]
  <2>1. /\ IsFiniteSet(0..m) /\ Cardinality(0..m) = m + 1
        /\ IsFiniteSet(0..bound) /\ Cardinality(0..bound) = bound + 1
    <3>1. 0 \in Int /\ m \in Int /\ bound \in Int /\ ~(0 > m) /\ ~(0 > bound)
          /\ m - 0 + 1 = m + 1 /\ bound - 0 + 1 = bound + 1
      OBVIOUS
    <3>2. IsFiniteSet(0..m) /\ Cardinality(0..m) = IF 0 > m THEN 0 ELSE m - 0 + 1
      BY <3>1, FS_Interval
    <3>3. /\ IsFiniteSet(0..bound)
          /\ Cardinality(0..bound) = IF 0 > bound THEN 0 ELSE bound - 0 + 1
      BY <3>1, FS_Interval
    <3>4. QED
      BY <3>1, <3>2, <3>3
  <2>2. Cardinality(0..bound) < Cardinality(0..m)
    BY <1>1, <2>1
  <2> DEFINE S == 0..m
             T == 0..bound
  <2>3. IsFiniteSet(S) /\ IsFiniteSet(T) /\ Cardinality(T) < Cardinality(S) /\ moved \in [S -> T]
    BY <1>3, <2>1, <2>2
  <2> HIDE DEF S, T
  <2>4. \E p, q \in S : p # q /\ moved[p] = moved[q]
    BY <2>3, FS_PigeonHole
  <2>5. QED
    BY <2>4 DEF S
<1>5. PICK k \in 1..n :
        /\ moved[p] = place[k] + (p - after[k])
        /\ place[k] <= moved[p] /\ moved[p] <= place[k] + room[k]
  BY <1>2
<1>6. PICK l \in 1..n :
        /\ moved[q] = place[l] + (q - after[l])
        /\ place[l] <= moved[q] /\ moved[q] <= place[l] + room[l]
  BY <1>2
<1>7. /\ place[k] \in Nat /\ room[k] \in Nat /\ after[k] \in Nat
      /\ place[l] \in Nat /\ room[l] \in Nat /\ after[l] \in Nat
      /\ moved[p] \in Nat
  <2>1. moved[p] \in 0..bound
    BY <1>3
  <2>2. \A d \in 0..bound : d \in Nat
    OBVIOUS
  <2>3. moved[p] \in Nat
    BY <2>1, <2>2
  <2>4. QED
    BY <2>3
<1>8. k = l
  <2>1. SUFFICES ASSUME k # l PROVE FALSE
    OBVIOUS
  <2>2. \/ place[k] + room[k] < place[l]
        \/ place[l] + room[l] < place[k]
    BY <2>1
  <2>3. /\ place[k] <= moved[p] /\ moved[p] <= place[k] + room[k]
        /\ place[l] <= moved[p] /\ moved[p] <= place[l] + room[l]
    BY <1>4, <1>5, <1>6
  <2> DEFINE a == place[k]
             b == place[l]
             c == room[k]
             d == room[l]
             e == moved[p]
  <2>4. /\ a \in Nat /\ b \in Nat /\ c \in Nat /\ d \in Nat /\ e \in Nat
        /\ a + c < b \/ b + d < a
        /\ a <= e /\ e <= a + c /\ b <= e /\ e <= b + d
    BY <1>7, <2>2, <2>3
  <2> HIDE DEF a, b, c, d, e
  <2>5. QED
    BY <2>4
<1>9. place[k] + (p - after[k]) = place[k] + (q - after[k])
  BY <1>4, <1>5, <1>6, <1>8
<1>10. p = q
  <2> DEFINE a == place[k]
             b == after[k]
  <2>1. a \in Nat /\ b \in Nat /\ p \in Nat /\ q \in Nat /\ a + (p - b) = a + (q - b)
    BY <1>7, <1>9
  <2> HIDE DEF a, b
  <2>2. QED
    BY <2>1
<1>11. QED
  BY <1>4, <1>10

(* A token of a line ends before the next separator.                       *)
LEMMA TokensAreApart ==
  ASSUME NEW line \in Seq(Nat), NEW start \in 1..(Len(line) + 1)
  PROVE  /\ TokenEnd(line, start) \in start..(Len(line) + 1)
         /\ TokenAt(line, start) \in Seq(Nat)
         /\ Len(TokenAt(line, start)) = TokenEnd(line, start) - start
         /\ \A later \in FieldStarts(line) :
              start < later => TokenEnd(line, start) < later
<1> DEFINE m == Len(line)
           ends == {i \in start..(m + 1) : i = m + 1 \/ line[i] = FieldSeparator}
           end == TokenEnd(line, start)
<1>0. m \in Nat /\ start \in Nat
  OBVIOUS
<1>1. end = Min(ends)
  BY DEF TokenEnd
<1>2. ends \in SUBSET Nat /\ m + 1 \in ends
  BY <1>0
<1>3. end \in ends /\ \A i \in ends : end <= i
  <2> HIDE DEF ends, end
  <2>1. QED
    BY <1>1, <1>2, LeastIsOne
<1> HIDE DEF end
<1>4. end \in start..(m + 1)
  BY <1>3
<1>5. TokenAt(line, start) \in Seq(Nat) /\ Len(TokenAt(line, start)) = end - start
  <2>1. TokenAt(line, start) = SubSeq(line, start, end - 1)
    BY DEF TokenAt, end
  <2>2. end - 1 \in (start - 1)..m /\ (end - 1) - start + 1 = end - start
        /\ end - 1 \in Int
    BY <1>0, <1>4
  <2>3. SubSeq(line, start, end - 1) \in Seq(Nat)
    BY <1>0, <2>2
  <2>4. Len(SubSeq(line, start, end - 1)) = end - start
    BY <1>0, <2>2
  <2>5. QED
    BY <2>1, <2>3, <2>4
<1>6. ASSUME NEW later \in FieldStarts(line), start < later PROVE end < later
  <2>1. later \in 2..m /\ line[later - 1] = FieldSeparator
    BY DEF FieldStarts
  <2>2. later - 1 \in start..(m + 1)
    BY <1>0, <1>6, <2>1
  <2>3. later - 1 \in ends
    BY <2>1, <2>2
  <2>4. end <= later - 1
    BY <1>3, <2>3
  <2>5. QED
    BY <1>0, <1>4, <2>1, <2>4
<1>7. QED
  BY <1>4, <1>5, <1>6 DEF end

(* A token with a name is its name, "=" and its value.                     *)
LEMMA TokenIsJoined ==
  ASSUME NEW token \in Seq(Nat), ~(EqualsIn(token) <= 1)
  PROVE  /\ NameIn(token) \in Seq(Nat) /\ ValueIn(token) \in Seq(Nat)
         /\ token = NameIn(token) \o <<NameValueSeparator>> \o ValueIn(token)
         /\ Len(token) = (Len(NameIn(token)) + 1) + Len(ValueIn(token))
<1> DEFINE m == Len(token)
           equals == {i \in 1..m : token[i] = NameValueSeparator}
           e == EqualsIn(token)
           name == NameIn(token)
           value == ValueIn(token)
<1>0. m \in Nat /\ \A i \in 1..m : token[i] \in Nat
  OBVIOUS
<1>1. e = IF equals # {} THEN Min(equals) ELSE 0
  BY DEF EqualsIn, SelectInSeq
<1>2. equals \in SUBSET Nat
  OBVIOUS
<1>3. e # 0
  <2>1. ~(0 <= 1) => FALSE
    OBVIOUS
  <2>2. QED
    BY <2>1
<1>4. e \in equals
  <2> HIDE DEF equals, e
  <2>1. QED
    BY <1>1, <1>2, <1>3, LeastIsOne
<1> HIDE DEF e
<1>5. e \in 1..m /\ token[e] = NameValueSeparator
  BY <1>4
<1>6. name = SubSeq(token, 1, e - 1) /\ value = SubSeq(token, e + 1, m)
  BY DEF NameIn, ValueIn, e
<1> HIDE DEF name, value, m
<1>7. /\ name \in Seq(Nat) /\ Len(name) = e - 1
      /\ \A i \in 1..(e - 1) : name[i] = token[i]
  <2>1. 1 \in Nat /\ e - 1 \in 0..m
    BY <1>0, <1>5
  <2>2. name \in Seq(Nat)
    BY <1>6, <2>1 DEF m
  <2>3. Len(name) = e - 1
    BY <1>6, <2>1 DEF m
  <2>4. \A i \in 1..(e - 1) : name[i] = token[i]
    BY <1>6, <2>1 DEF m
  <2>5. QED
    BY <2>2, <2>3, <2>4
<1>8. /\ value \in Seq(Nat) /\ Len(value) = m - e
      /\ \A i \in 1..(m - e) : value[i] = token[e + i]
  <2>1. e + 1 \in 1..(m + 1) /\ m - (e + 1) + 1 = m - e /\ m - e \in Nat /\ e \in Nat
    BY <1>0, <1>5
  <2>2. value \in Seq(Nat)
    BY <1>6, <2>1 DEF m
  <2>3. Len(value) = m - e
    <3>1. \A a, b \in Nat : a <= Len(token) + 1 /\ a >= 1 /\ b = Len(token) =>
             Len(SubSeq(token, a, b)) = b - a + 1
      OBVIOUS
    <3>2. e + 1 \in Nat /\ e + 1 <= Len(token) + 1 /\ e + 1 >= 1 /\ m \in Nat
      BY <1>0, <2>1 DEF m
    <3>3. Len(SubSeq(token, e + 1, m)) = m - (e + 1) + 1
      BY <3>1, <3>2 DEF m
    <3>4. QED
      BY <1>6, <2>1, <3>3
  <2>4. \A i \in 1..(m - e) : value[i] = token[e + i]
    <3>1. \A i \in 1..(m - e) : value[i] = token[(e + 1) + i - 1]
      BY <1>6, <2>1 DEF m
    <3>2. \A i \in 1..(m - e) : (e + 1) + i - 1 = e + i
      BY <2>1
    <3>3. QED
      BY <3>1, <3>2
  <2>5. QED
    BY <2>2, <2>3, <2>4
<1>9. Len(token) = (Len(name) + 1) + Len(value)
  BY <1>0, <1>5, <1>7, <1>8 DEF m
<1>10. token = name \o <<NameValueSeparator>> \o value
  <2> DEFINE all == name \o <<NameValueSeparator>> \o value
  <2>1. NameValueSeparator \in Nat
    BY DEF NameValueSeparator
  <2>2. /\ all \in Seq(Nat) /\ Len(all) = (Len(name) + 1) + Len(value)
        /\ \A i \in 1..Len(name) : all[i] = name[i]
        /\ all[Len(name) + 1] = NameValueSeparator
        /\ \A i \in 1..Len(value) : all[(Len(name) + 1) + i] = value[i]
    <3>1. name \in Seq(Nat) /\ value \in Seq(Nat)
      BY <1>7, <1>8
    <3> HIDE DEF name, value
    <3>2. LET whole == name \o <<NameValueSeparator>> \o value
              n == Len(name)
          IN  /\ whole \in Seq(Nat) /\ Len(whole) = (n + 1) + Len(value)
              /\ \A i \in 1..n : whole[i] = name[i]
              /\ whole[n + 1] = NameValueSeparator
              /\ \A i \in 1..Len(value) : whole[(n + 1) + i] = value[i]
      BY <2>1, <3>1, ThreeJoined
    <3>3. QED
      BY <3>2
  <2> HIDE DEF all
  <2>3. Len(all) = m
    BY <1>9, <2>2 DEF m
  <2>4. ASSUME NEW i \in 1..m PROVE all[i] = token[i]
    <3>1. CASE i < e
      <4>1. i \in 1..(e - 1)
        BY <1>0, <1>5, <3>1
      <4>2. QED
        BY <1>7, <2>2, <4>1
    <3>2. CASE i = e
      <4>1. Len(name) + 1 = e
        BY <1>0, <1>5, <1>7
      <4>2. QED
        BY <1>5, <2>2, <3>2, <4>1
    <3>3. CASE i > e
      <4>1. i - e \in 1..(m - e) /\ e + (i - e) = i /\ (Len(name) + 1) + (i - e) = i
        BY <1>0, <1>5, <1>7, <3>3
      <4>2. all[(Len(name) + 1) + (i - e)] = value[i - e]
        BY <1>8, <2>2, <4>1
      <4>3. value[i - e] = token[e + (i - e)]
        BY <1>8, <4>1
      <4>4. QED
        BY <4>1, <4>2, <4>3
    <3>4. QED
      BY <1>0, <1>5, <3>1, <3>2, <3>3
  <2>5. all = [i \in 1..m |-> all[i]] /\ token = [i \in 1..m |-> token[i]]
    <3>1. all = [i \in 1..m |-> all[i]]
      BY <2>2, <2>3
    <3>2. token = [i \in 1..m |-> token[i]]
      BY DEF m
    <3>3. QED
      BY <3>1, <3>2
  <2>6. all = token
    BY <2>4, <2>5
  <2>7. QED
    BY <2>6 DEF all
<1>11. QED
  BY <1>7, <1>8, <1>9, <1>10 DEF name, value

(* Where a line gives a message: its verb first, and each of its fields at *)
(* a place of its own, in any order.                                       *)
GivenAt(line, message, at) ==
    LET fields == FieldsOf[message.verb]
        token(k) == TokenAt(line, at[k])
        outcome(k) == DecodedValue(fields[k], ValueIn(token(k)))
    IN  /\ message.verb \in Verbs /\ TokenAt(line, 1) = Spelling[message.verb]
        /\ message = Message(message.verb, [k \in 1..Len(fields) |-> message.fields[k]])
        /\ FieldStarts(line) = {at[k] : k \in 1..Len(fields)}
        /\ \A k, l \in 1..Len(fields) : at[k] = at[l] => k = l
        /\ \A k \in 1..Len(fields) :
             /\ ~(EqualsIn(token(k)) <= 1)
             /\ NameIn(token(k)) = Spelling[fields[k].name]
             /\ outcome(k).error = "NONE" /\ message.fields[k] = outcome(k).value

(* A line that is accepted gives its message so (remote_protocol_parse_line). *)
LEMMA AcceptedLineGives ==
  ASSUME NEW line, ParseLine(line).kind = "message"
  PROVE  /\ line # <<>>
         /\ ParseLine(line) = [kind |-> "message", message |-> ParseLine(line).message]
         /\ \E at : GivenAt(line, ParseLine(line).message, at)
<1> DEFINE verbs == {verb \in Verbs : Spelling[verb] = TokenAt(line, 1)}
           verb == CHOOSE verb \in verbs : TRUE
           fields == FieldsOf[verb]
           n == Len(fields)
           failing == {start \in FieldStarts(line) : FieldError(verb, line, start) # "NONE"}
           at == [k \in 1..n |-> CHOOSE start \in Giving(verb, line, k) : TRUE]
           token(k) == TokenAt(line, at[k])
           outcome(k) == DecodedValue(fields[k], ValueIn(token(k)))
           message == ParseLine(line).message
<1>e. \A error : [kind |-> "error", error |-> error].kind # "message"
  OBVIOUS
<1>1. WellStructured(line) /\ verbs # {} /\ ParseLine(line) = ParseFields(verb, line)
  <2>1. ParseLine(line) =
          IF ~WellStructured(line) THEN [kind |-> "error", error |-> "MALFORMED"]
          ELSE IF verbs = {} THEN [kind |-> "error", error |-> "BAD_VERB"]
          ELSE ParseFields(verb, line)
    BY DEF ParseLine
  <2> HIDE DEF verbs, verb
  <2>2. QED
    BY <1>e, <2>1
<1>2. verb \in Verbs /\ Spelling[verb] = TokenAt(line, 1)
  <2>1. verb \in verbs
    BY <1>1
  <2> HIDE DEF verb
  <2>2. QED
    BY <2>1
<1> HIDE DEF verbs, verb
<1>3. n \in Nat /\ DOMAIN fields = 1..n
  <2>1. n \in 1..5 /\ DOMAIN fields = 1..n
    BY <1>2, FieldsAreTabled
  <2> HIDE DEF n, fields
  <2>2. QED
    BY <2>1
<1>4. /\ failing = {}
      /\ ParseLine(line) = [kind |-> "message", message |-> message]
      /\ \A k \in 1..n : Giving(verb, line, k) # {}
      /\ message = Message(verb, [k \in 1..n |-> outcome(k).value])
  <2> DEFINE given(index) == TokenAt(line, CHOOSE start \in Giving(verb, line, index) : TRUE)
             values == [index \in DOMAIN fields |->
                          DecodedValue(fields[index], ValueIn(given(index))).value]
             lacking == \E index \in DOMAIN fields : Giving(verb, line, index) = {}
  <2>1. ParseFields(verb, line) =
          IF failing # {}
            THEN [kind |-> "error", error |-> FieldError(verb, line, Min(failing))]
          ELSE IF lacking
            THEN [kind |-> "error", error |-> "NO_FIELD"]
          ELSE [kind |-> "message", message |-> Message(verb, values)]
    BY DEF ParseFields
  <2>2. values = [k \in 1..n |-> outcome(k).value]
    <3>1. \A k \in 1..n : given(k) = token(k)
      OBVIOUS
    <3> HIDE DEF given, at
    <3>2. QED
      BY <1>3, <3>1
  <2>3. lacking <=> \E k \in 1..n : Giving(verb, line, k) = {}
    BY <1>3
  <2> HIDE DEF failing, lacking, values
  <2>4. failing = {} /\ ~lacking
    BY <1>1, <1>e, <2>1
  <2>5. ParseFields(verb, line) = [kind |-> "message", message |-> Message(verb, values)]
    BY <2>1, <2>4
  <2>6. message = Message(verb, values)
    BY <1>1, <2>5
  <2>7. ParseLine(line) = [kind |-> "message", message |-> message]
    BY <1>1, <2>5, <2>6
  <2> HIDE DEF message
  <2>8. QED
    BY <2>2, <2>3, <2>4, <2>6, <2>7
<1> HIDE DEF message
<1>5. ASSUME NEW k \in 1..n
      PROVE  at[k] \in FieldStarts(line) /\ FieldIndex(verb, token(k)) = k
  <2>1. at[k] \in Giving(verb, line, k)
    BY <1>4
  <2> HIDE DEF at
  <2>2. QED
    BY <2>1 DEF Giving
<1> HIDE DEF at
<1>6. ASSUME NEW start \in FieldStarts(line)
      PROVE  LET word == TokenAt(line, start)
                 index == FieldIndex(verb, word)
             IN  /\ ~(EqualsIn(word) <= 1) /\ index # 0
                 /\ ~\E earlier \in Giving(verb, line, index) : earlier < start
                 /\ DecodedValue(fields[index], ValueIn(word)).error = "NONE"
  <2>1. FieldError(verb, line, start) = "NONE"
    BY <1>4
  <2> DEFINE word == TokenAt(line, start)
             index == FieldIndex(verb, word)
             short == EqualsIn(word) <= 1
             repeated == \E earlier \in Giving(verb, line, index) : earlier < start
             error == DecodedValue(fields[index], ValueIn(word)).error
  <2>2. FieldError(verb, line, start) =
          IF short THEN "MALFORMED" ELSE IF index = 0 THEN "BAD_FIELD"
          ELSE IF repeated THEN "BAD_FIELD" ELSE error
    BY DEF FieldError
  <2> HIDE DEF index, short, repeated, error
  <2>3. ~short /\ index # 0 /\ ~repeated /\ error = "NONE"
    BY <2>1, <2>2
  <2>4. QED
    BY <2>3 DEF index, short, repeated, error
<1>7. \A start \in FieldStarts(line) : start \in Nat
  BY DEF FieldStarts
<1>8. ASSUME NEW start \in FieldStarts(line) PROVE \E k \in 1..n : start = at[k]
  <2> DEFINE k == FieldIndex(verb, TokenAt(line, start))
  <2>1. k \in 1..n
    <3>1. k \in 0..n /\ k # 0
      BY <1>2, <1>6, FieldsAreNamed
    <3> HIDE DEF k, n
    <3>2. QED
      BY <1>3, <3>1
  <2>2. start \in Giving(verb, line, k) /\ at[k] \in Giving(verb, line, k)
    BY <1>5, <2>1 DEF Giving
  <2>3. ~(at[k] < start)
    BY <1>6, <2>2
  <2>4. ~(start < at[k])
    <3>1. FieldIndex(verb, TokenAt(line, at[k])) = k /\ at[k] \in FieldStarts(line)
      BY <1>5, <2>1
    <3> HIDE DEF k
    <3>2. QED
      BY <1>6, <2>2, <3>1
  <2>5. start \in Nat /\ at[k] \in Nat
    <3>1. at[k] \in FieldStarts(line)
      BY <1>5, <2>1
    <3>2. QED
      BY <1>7, <3>1
  <2> DEFINE a == at[k]
  <2>6. start = a
    <3> HIDE DEF a
    <3>1. QED
      BY <2>3, <2>4, <2>5 DEF a
  <2>7. QED
    BY <2>1, <2>6
<1>9. ASSUME NEW k \in 1..n
      PROVE  /\ ~(EqualsIn(token(k)) <= 1)
             /\ NameIn(token(k)) = Spelling[fields[k].name]
             /\ outcome(k).error = "NONE"
  <2>1. at[k] \in FieldStarts(line) /\ FieldIndex(verb, token(k)) = k
    BY <1>5
  <2>2. ~(EqualsIn(token(k)) <= 1) /\ outcome(k).error = "NONE"
    BY <1>6, <2>1
  <2>3. k # 0
    BY <1>3
  <2>4. NameIn(token(k)) = Spelling[fields[k].name]
    BY <1>2, <2>1, <2>3, FieldsAreNamed
  <2>5. QED
    BY <2>2, <2>4
<1>10. FieldStarts(line) = {at[k] : k \in 1..n}
  BY <1>5, <1>8
<1>11. \A k, l \in 1..n : at[k] = at[l] => k = l
  BY <1>5
<1>12. message.verb = verb /\ \A k \in 1..n : message.fields[k] = outcome(k).value
  <2> HIDE DEF outcome, n
  <2>1. QED
    BY <1>4 DEF Message
<1>13. message = Message(verb, [k \in 1..n |-> message.fields[k]])
  <2> HIDE DEF outcome, n
  <2>1. [k \in 1..n |-> outcome(k).value] = [k \in 1..n |-> message.fields[k]]
    BY <1>12
  <2>2. QED
    BY <1>4, <2>1
<1>14. GivenAt(line, message, at)
  <2> DEFINE goal == GivenAt(line, message, at)
  <2>1. message.verb = verb
    BY <1>12
  <2>2. /\ verb \in Verbs /\ TokenAt(line, 1) = Spelling[verb]
        /\ message = Message(verb, [k \in 1..Len(FieldsOf[verb]) |-> message.fields[k]])
        /\ FieldStarts(line) = {at[k] : k \in 1..Len(FieldsOf[verb])}
        /\ \A k, l \in 1..Len(FieldsOf[verb]) : at[k] = at[l] => k = l
    BY <1>2, <1>10, <1>11, <1>13
  <2>3. \A k \in 1..Len(FieldsOf[verb]) :
             /\ ~(EqualsIn(TokenAt(line, at[k])) <= 1)
             /\ NameIn(TokenAt(line, at[k])) = Spelling[FieldsOf[verb][k].name]
             /\ DecodedValue(FieldsOf[verb][k], ValueIn(TokenAt(line, at[k]))).error = "NONE"
             /\ message.fields[k] =
                  DecodedValue(FieldsOf[verb][k], ValueIn(TokenAt(line, at[k]))).value
    BY <1>9, <1>12
  <2> HIDE DEF n, fields, token, outcome
  <2>4. QED
    BY <2>1, <2>2, <2>3, Zenon DEF GivenAt
<1>15. line # <<>>
  BY <1>1 DEF WellStructured
<1>16. QED
  BY <1>4, <1>14, <1>15 DEF message

(* A token of a line starts within it.                                     *)
LEMMA TokensOfALine ==
  ASSUME NEW line \in Seq(Nat), line # <<>>,
         NEW start, start = 1 \/ start \in FieldStarts(line)
  PROVE  start \in 1..Len(line) /\ TokenAt(line, start) \in Seq(Nat)
<1> DEFINE m == Len(line)
<1>1. m \in Nat /\ m >= 1
  OBVIOUS
<1>2. start \in 1..m
  BY <1>1 DEF FieldStarts
<1>3. start \in 1..(m + 1)
  <2> HIDE DEF m
  <2>1. QED
    BY <1>1, <1>2
<1>4. QED
  BY <1>2, <1>3, TokensAreApart

(* A message that a line gives is one, its values within their bounds, and *)
(* each of its fields is written no longer than the line has it; only a    *)
(* text's escapes can make a difference.                                   *)
LEMMA GivenMessagesAre ==
  ASSUME NEW line \in Seq(Nat), line # <<>>, NEW message, NEW at,
         GivenAt(line, message, at)
  PROVE  /\ IsMessage(message) /\ FieldsAreValid(message)
         /\ \A k \in 1..Len(FieldsOf[message.verb]) :
              /\ at[k] \in FieldStarts(line)
              /\ Len(FieldToken(message, k)) <= Len(TokenAt(line, at[k]))
              /\ FieldsOf[message.verb][k].type # "text" =>
                   FieldToken(message, k) = TokenAt(line, at[k])
<1> DEFINE verb == message.verb
           fields == FieldsOf[verb]
           n == Len(fields)
           token(k) == TokenAt(line, at[k])
           outcome(k) == DecodedValue(fields[k], ValueIn(token(k)))
<1>1. /\ verb \in Verbs
      /\ message = Message(verb, [k \in 1..n |-> message.fields[k]])
      /\ FieldStarts(line) = {at[k] : k \in 1..n}
      /\ \A k \in 1..n :
           /\ ~(EqualsIn(token(k)) <= 1)
           /\ NameIn(token(k)) = Spelling[fields[k].name]
           /\ outcome(k).error = "NONE" /\ message.fields[k] = outcome(k).value
  BY Zenon DEF GivenAt
<1>2. DOMAIN fields = 1..n /\ \A k \in 1..n : IsTableField(fields[k])
  BY <1>1, FieldsAreTabled
<1>3. ASSUME NEW k \in 1..n
      PROVE  /\ at[k] \in FieldStarts(line) /\ token(k) \in Seq(Nat)
             /\ NameIn(token(k)) \in Seq(Nat) /\ ValueIn(token(k)) \in Seq(Nat)
             /\ token(k) = NameIn(token(k)) \o <<NameValueSeparator>> \o ValueIn(token(k))
             /\ Len(token(k)) = (Len(NameIn(token(k))) + 1) + Len(ValueIn(token(k)))
  <2>1. at[k] \in FieldStarts(line)
    BY <1>1
  <2>2. token(k) \in Seq(Nat)
    BY <2>1, TokensOfALine
  <2>3. ~(EqualsIn(token(k)) <= 1)
    BY <1>1
  <2> HIDE DEF token
  <2>4. /\ NameIn(token(k)) \in Seq(Nat) /\ ValueIn(token(k)) \in Seq(Nat)
        /\ token(k) = NameIn(token(k)) \o <<NameValueSeparator>> \o ValueIn(token(k))
        /\ Len(token(k)) = (Len(NameIn(token(k))) + 1) + Len(ValueIn(token(k)))
    BY <2>2, <2>3, TokenIsJoined
  <2>5. QED
    BY <2>1, <2>2, <2>4
<1>4. ASSUME NEW k \in 1..n
      PROVE  /\ IsShaped(fields[k], message.fields[k]) /\ IsValid(fields[k], message.fields[k])
             /\ Len(EncodedValue(fields[k], message.fields[k])) <= Len(ValueIn(token(k)))
             /\ fields[k].type # "text" =>
                  EncodedValue(fields[k], message.fields[k]) = ValueIn(token(k))
  <2> DEFINE field == fields[k]
             raw == ValueIn(token(k))
  <2>1. IsTableField(field) /\ raw \in Seq(Nat)
    BY <1>2, <1>3
  <2>2. DecodedValue(field, raw).error = "NONE" /\ message.fields[k] = DecodedValue(field, raw).value
    BY <1>1
  <2> HIDE DEF field, raw
  <2>3. LET value == DecodedValue(field, raw).value
        IN  /\ IsShaped(field, value) /\ IsValid(field, value)
            /\ Len(EncodedValue(field, value)) <= Len(raw)
            /\ field.type # "text" => EncodedValue(field, value) = raw
    BY <2>1, <2>2, ValueWasRead
  <2>4. QED
    BY <2>2, <2>3 DEF field, raw
<1>5. FieldsAreValid(message)
  BY <1>2, <1>4 DEF FieldsAreValid
<1>6. IsMessage(message)
  <2>1. message = Message(verb, [k \in DOMAIN fields |-> message.fields[k]])
    BY <1>1, <1>2
  <2>2. \A k \in DOMAIN fields :
             message.fields[k] \in
               IF IsText(fields[k]) THEN [integer : {0}, text : Seq(Nat)]
               ELSE [integer : Nat, text : {<<>>}]
    BY <1>2, <1>4 DEF IsShaped
  <2>3. QED
    BY <1>1, <2>1, <2>2 DEF IsMessage
<1>7. ASSUME NEW k \in 1..n
      PROVE  /\ Len(FieldToken(message, k)) <= Len(token(k))
             /\ fields[k].type # "text" => FieldToken(message, k) = token(k)
  <2> DEFINE name == Spelling[fields[k].name]
             value == EncodedValue(fields[k], message.fields[k])
             raw == ValueIn(token(k))
  <2>1. FieldToken(message, k) = name \o <<NameValueSeparator>> \o value
    BY DEF FieldToken
  <2>2. NameIn(token(k)) = name
    BY <1>1
  <2>3. Len(FieldToken(message, k)) = Len(name) + 1 + Len(value) /\ value \in Seq(33..126)
    BY <1>5, <1>6, FieldTokenIsCut
  <2>4. /\ name \in Seq(Nat) /\ raw \in Seq(Nat)
        /\ token(k) = name \o <<NameValueSeparator>> \o raw
        /\ Len(token(k)) = (Len(name) + 1) + Len(raw)
    BY <1>3, <2>2
  <2>5. Len(value) <= Len(raw) /\ (fields[k].type # "text" => value = raw)
    BY <1>4
  <2>6. fields[k].type # "text" => FieldToken(message, k) = token(k)
    BY <2>1, <2>4, <2>5
  <2>7. Len(FieldToken(message, k)) <= Len(token(k))
    <3> DEFINE a == Len(name)
               b == Len(value)
               c == Len(raw)
    <3>1. a \in Nat /\ c \in Nat /\ b \in Nat /\ b <= c
      <4>1. \A bytes \in Seq(33..126) : Len(bytes) \in Nat
        OBVIOUS
      <4>2. \A bytes \in Seq(Nat) : Len(bytes) \in Nat
        OBVIOUS
      <4>3. QED
        BY <2>3, <2>4, <2>5, <4>1, <4>2
    <3>2. Len(FieldToken(message, k)) = a + 1 + b /\ Len(token(k)) = (a + 1) + c
      BY <2>3, <2>4
    <3> HIDE DEF a, b, c
    <3>3. QED
      BY <3>1, <3>2
  <2>8. QED
    BY <2>6, <2>7
<1>8. QED
  BY <1>3, <1>5, <1>6, <1>7

(* Where an accepted line's tokens start: the verb's, then each field's.   *)
StartOf(at, k) == IF k = 1 THEN 1 ELSE at[k - 1]

(* What is heard is never shorter than it is when written again.           *)
LEMMA WrittenIsNoLonger ==
  ASSUME NEW line \in Seq(Nat), line # <<>>, NEW message, NEW at,
         GivenAt(line, message, at)
  PROVE  Len(LineOf(message)) <= Len(line)
<1> DEFINE verb == message.verb
           n == Len(FieldsOf[verb])
           again == LineOf(message)
           tokens == LineTokens(message)
           c == n + 1
           m == Len(again)
           bound == Len(line)
           start(k) == StartOf(at, k)
           end(k) == TokenEnd(line, start(k))
           given(k) == TokenAt(line, start(k))
<1>1. /\ IsMessage(message) /\ FieldsAreValid(message)
      /\ \A k \in 1..n : at[k] \in FieldStarts(line)
                         /\ Len(FieldToken(message, k)) <= Len(TokenAt(line, at[k]))
  BY GivenMessagesAre
<1>2. /\ n \in Nat /\ n >= 1 /\ c \in Nat
      /\ Len(tokens) = c
      /\ tokens[1] = Spelling[verb]
      /\ \A k \in 1..n : tokens[k + 1] = FieldToken(message, k)
  <2>1. /\ n \in Nat /\ n >= 1 /\ Len(tokens) = n + 1
        /\ tokens[1] = Spelling[verb]
        /\ \A k \in 1..n : tokens[k + 1] = FieldToken(message, k)
    BY <1>1, LineTokensAre
  <2> HIDE DEF n, tokens
  <2>2. QED
    BY <2>1
<1>3. PICK after : IsLineOf(again, tokens, after)
  BY <1>1, LineLies
<1>4. m \in Nat /\ bound \in Nat
  <2>1. again \in Seq(32..126)
    BY <1>1, LineLies
  <2> HIDE DEF again
  <2>2. QED
    BY <2>1
<1>5. /\ TokenAt(line, 1) = Spelling[verb]
      /\ \A k, l \in 1..n : at[k] = at[l] => k = l
  BY Zenon DEF GivenAt
<1> HIDE DEF n, tokens, again, verb, m, bound, c
<1>6. ASSUME NEW k \in 1..c, k # 1
      PROVE  k - 1 \in 1..n /\ (k - 1) + 1 = k /\ start(k) = at[k - 1]
  BY <1>2, <1>6 DEF c, StartOf
<1>7. start(1) = 1
  BY DEF StartOf
<1>8. ASSUME NEW k \in 1..c
      PROVE  /\ start(k) = 1 \/ start(k) \in FieldStarts(line)
             /\ Len(tokens[k]) <= Len(given(k))
  <2>1. CASE k = 1
    <3>1. tokens[k] = given(k)
      BY <1>2, <1>5, <1>7, <2>1
    <3>2. given(k) \in Seq(Nat)
      BY <1>7, <2>1, TokensOfALine
    <3> DEFINE a == Len(given(k))
    <3>3. a \in Nat
      BY <3>2
    <3> HIDE DEF a
    <3>4. a <= a
      BY <3>3
    <3>5. QED
      BY <1>7, <2>1, <3>1, <3>4 DEF a
  <2>2. CASE k # 1
    <3>1. k - 1 \in 1..n /\ (k - 1) + 1 = k /\ start(k) = at[k - 1]
      BY <1>6, <2>2
    <3>2. tokens[k] = FieldToken(message, k - 1)
      BY <1>2, <3>1
    <3> HIDE DEF start
    <3>3. QED
      BY <1>1, <3>1, <3>2
  <2>3. QED
    BY <2>1, <2>2
<1>9. ASSUME NEW k \in 1..c
      PROVE  /\ start(k) \in 1..bound /\ end(k) \in start(k)..(bound + 1)
             /\ Len(given(k)) = end(k) - start(k)
             /\ \A later \in FieldStarts(line) : start(k) < later => end(k) < later
  <2>1. start(k) \in 1..Len(line)
    BY <1>8, TokensOfALine
  <2>2. start(k) \in 1..(Len(line) + 1)
    <3> DEFINE s == start(k)
               b == Len(line)
    <3>1. s \in 1..b /\ b \in Nat
      BY <2>1
    <3> HIDE DEF s, b
    <3>2. s \in 1..(b + 1)
      BY <3>1
    <3>3. QED
      BY <3>2 DEF s, b
  <2> HIDE DEF start
  <2>3. QED
    BY <2>1, <2>2, TokensAreApart DEF bound
<1> HIDE DEF start, end, given
<1> DEFINE places == [k \in 1..c |-> start(k) - 1]
           rooms == [k \in 1..c |-> Len(given(k))]
           sizes == [k \in 1..c |-> Len(tokens[k])]
           afters == [k \in 1..c |-> after[k]]
<1>10. ASSUME NEW k \in 1..c
       PROVE  /\ places[k] \in Nat /\ rooms[k] \in Nat /\ sizes[k] \in Nat
              /\ afters[k] \in Nat /\ sizes[k] <= rooms[k] /\ places[k] + rooms[k] <= bound
              /\ places[k] + rooms[k] = end(k) - 1 /\ places[k] = start(k) - 1
              /\ start(k) \in Nat /\ end(k) \in Nat
  <2> DEFINE s == start(k)
             e == end(k)
             r == Len(given(k))
             z == Len(tokens[k])
             f == after[k]
  <2>1. s \in 1..bound /\ e \in s..(bound + 1) /\ r = e - s /\ z <= r
    BY <1>8, <1>9
  <2>2. z \in Nat /\ f \in Nat
    BY <1>2, <1>3 DEF IsLineOf
  <2> HIDE DEF s, e, r, z, f
  <2>3. /\ s - 1 \in Nat /\ r \in Nat /\ (s - 1) + r <= bound /\ (s - 1) + r = e - 1
        /\ s \in Nat /\ e \in Nat
    BY <1>4, <2>1
  <2>4. QED
    BY <2>1, <2>2, <2>3 DEF s, e, r, z, f
<1>11. ASSUME NEW k \in 1..c, NEW l \in 1..c, start(k) < start(l)
       PROVE  places[k] + rooms[k] < places[l]
  <2> DEFINE s == start(k)
             t == start(l)
             e == end(k)
             p == places[k] + rooms[k]
             q == places[l]
  <2>1. /\ s \in Nat /\ t \in Nat /\ e \in Nat /\ s < t /\ p = e - 1 /\ q = t - 1 /\ s >= 1
    <3>1. s \in Nat /\ t \in Nat /\ e \in Nat /\ s < t /\ p = e - 1 /\ q = t - 1
      BY <1>10, <1>11
    <3>2. s \in 1..bound
      BY <1>9
    <3> HIDE DEF s, t, e, p, q
    <3>3. QED
      BY <3>1, <3>2, <1>4
  <2>2. t # 1
    <3> HIDE DEF s, t, e, p, q
    <3>1. QED
      BY <2>1
  <2>3. t \in FieldStarts(line)
    BY <1>8, <2>2
  <2>4. e < t
    BY <1>9, <1>11, <2>3
  <2> HIDE DEF s, t, e, p, q
  <2>5. p < q
    BY <2>1, <2>4
  <2>6. QED
    BY <2>5 DEF p, q
<1>12. ASSUME NEW k \in 1..c, NEW l \in 1..c, k # l PROVE start(k) # start(l)
  <2>1. \A i \in FieldStarts(line) : i # 1
    BY DEF FieldStarts
  <2>2. CASE k = 1
    <3>1. l # 1 /\ start(k) = 1
      BY <1>7, <1>12, <2>2
    <3>2. l - 1 \in 1..n /\ start(l) = at[l - 1]
      BY <1>6, <3>1
    <3>3. QED
      BY <1>1, <2>1, <3>1, <3>2
  <2>3. CASE l = 1
    <3>1. k # 1 /\ start(l) = 1
      BY <1>7, <1>12, <2>3
    <3>2. k - 1 \in 1..n /\ start(k) = at[k - 1]
      BY <1>6, <3>1
    <3>3. QED
      BY <1>1, <2>1, <3>1, <3>2
  <2>4. CASE k # 1 /\ l # 1
    <3>1. /\ k - 1 \in 1..n /\ (k - 1) + 1 = k /\ start(k) = at[k - 1]
          /\ l - 1 \in 1..n /\ (l - 1) + 1 = l /\ start(l) = at[l - 1]
      BY <1>6, <2>4
    <3>2. k - 1 # l - 1
      BY <1>12, <3>1
    <3>3. QED
      BY <1>5, <3>1, <3>2
  <2>5. QED
    BY <2>2, <2>3, <2>4
<1>13. ASSUME NEW k \in 1..c, NEW l \in 1..c, k # l
       PROVE  places[k] + rooms[k] < places[l] \/ places[l] + rooms[l] < places[k]
  <2>1. start(k) # start(l) /\ start(k) \in Nat /\ start(l) \in Nat
    BY <1>10, <1>12, <1>13
  <2> DEFINE s == start(k)
             t == start(l)
  <2>2. s < t \/ t < s
    <3>1. s # t /\ s \in Nat /\ t \in Nat
      BY <2>1
    <3> HIDE DEF s, t
    <3>2. QED
      BY <3>1
  <2> HIDE DEF places, rooms
  <2>3. QED
    BY <1>11, <2>2
<1>14. ASSUME NEW p \in 0..m
       PROVE  \E k \in 1..c : afters[k] <= p /\ p <= afters[k] + sizes[k]
  <2>1. CASE p = 0
    <3>1. 1 \in 1..c /\ after[1] = 0
      BY <1>2, <1>3 DEF IsLineOf, c
    <3>2. afters[1] = 0 /\ sizes[1] \in Nat
      BY <1>10, <3>1
    <3> HIDE DEF afters, sizes
    <3>3. afters[1] <= p /\ p <= afters[1] + sizes[1]
      BY <2>1, <3>2
    <3>4. QED
      BY <3>1, <3>3
  <2>2. CASE p # 0
    <3>1. p \in 1..m
      BY <1>4, <2>2
    <3>2. PICK k \in 1..c : p = after[k] \/ \E j \in 1..Len(tokens[k]) : p = after[k] + j
      BY <1>2, <1>3, <3>1 DEF IsLineOf, m
    <3> DEFINE a == afters[k]
               z == sizes[k]
    <3>3. p = a \/ \E j \in 1..z : p = a + j
      BY <1>10, <3>2
    <3>4. a \in Nat /\ z \in Nat
      BY <1>10
    <3>5. a <= p /\ p <= a + z
      <4> HIDE DEF a, z
      <4>1. QED
        BY <3>3, <3>4
    <3>6. QED
      BY <3>5
  <2>3. QED
    BY <2>1, <2>2
<1>15. /\ places \in [1..c -> Nat] /\ rooms \in [1..c -> Nat]
       /\ sizes \in [1..c -> Nat] /\ afters \in [1..c -> Nat]
  <2>1. \A k \in 1..c : /\ start(k) - 1 \in Nat /\ Len(given(k)) \in Nat
                        /\ Len(tokens[k]) \in Nat /\ after[k] \in Nat
    <3> TAKE k \in 1..c
    <3>1. places[k] \in Nat /\ rooms[k] \in Nat /\ sizes[k] \in Nat /\ afters[k] \in Nat
      BY <1>10
    <3>2. QED
      BY <3>1
  <2>2. QED
    BY <2>1
<1> HIDE DEF places, rooms, sizes, afters
<1>16. m <= bound
  <2>1. \A k \in 1..c : sizes[k] <= rooms[k] /\ places[k] + rooms[k] <= bound
    BY <1>10
  <2>2. QED
    BY <1>2, <1>4, <1>13, <1>14, <1>15, <2>1, CellsFit
<1>17. QED
  BY <1>16 DEF m, again, bound

(* The tokens of a line. *)
TokensOf(line) == {TokenAt(line, start) : start \in {1} \cup FieldStarts(line)}

(* An accepted line's tokens are those of the line written again, but for  *)
(* a text's.                                                               *)
LEMMA SameTokens ==
  ASSUME NEW line \in Seq(Nat), line # <<>>, NEW message, NEW at,
         GivenAt(line, message, at), NEW token, NameIn(token) # Spelling["payload"]
  PROVE  token \in TokensOf(LineOf(message)) <=> token \in TokensOf(line)
<1> DEFINE verb == message.verb
           fields == FieldsOf[verb]
           n == Len(fields)
           again == LineOf(message)
           tokens == LineTokens(message)
<1>1. /\ IsMessage(message) /\ FieldsAreValid(message) /\ verb \in Verbs
      /\ \A k \in 1..n : fields[k].type # "text" => FieldToken(message, k) = TokenAt(line, at[k])
  <2>1. IsMessage(message) /\ FieldsAreValid(message)
    BY GivenMessagesAre
  <2>2. \A k \in 1..n : fields[k].type # "text" => FieldToken(message, k) = TokenAt(line, at[k])
    BY GivenMessagesAre
  <2>3. QED
    BY <2>1, <2>2, MessagesAreShaped
<1>2. /\ n \in Nat /\ n >= 1
      /\ tokens \in Seq(Seq(33..126)) /\ Len(tokens) = n + 1
      /\ tokens[1] = Spelling[verb]
      /\ \A k \in 1..n : tokens[k + 1] = FieldToken(message, k)
      /\ \A k \in 1..(n + 1) : Len(tokens[k]) >= 1
  BY <1>1, LineTokensAre
<1>3. PICK after : IsLineOf(again, tokens, after)
  BY <1>1, LineLies
<1>4. again \in Seq(Nat)
  <2>1. 32..126 \subseteq Nat /\ again \in Seq(32..126)
    BY <1>1, LineLies
  <2> HIDE DEF again
  <2>2. QED
    BY <2>1, SequenceOfSubset
<1>5. /\ TokenAt(line, 1) = Spelling[verb]
      /\ FieldStarts(line) = {at[k] : k \in 1..n}
      /\ \A k \in 1..n : NameIn(TokenAt(line, at[k])) = Spelling[fields[k].name]
  BY Zenon DEF GivenAt
<1>6. ASSUME NEW k \in 1..n
      PROVE  /\ NameIn(FieldToken(message, k)) = Spelling[fields[k].name]
             /\ fields[k].type = "text" => fields[k].name = "payload"
  <2>1. IsTableField(fields[k])
    BY <1>1, FieldsAreTabled
  <2>2. fields[k].type = "text" => fields[k].name = "payload"
    BY <2>1 DEF IsTableField
  <2>3. QED
    BY <1>1, <2>2, FieldTokenIsCut
<1> HIDE DEF n, fields, tokens, again, verb
<1>7. /\ FieldStarts(again) = {after[k] + 1 : k \in 2..(n + 1)}
      /\ TokenAt(again, 1) = tokens[1]
      /\ \A k \in 1..(n + 1) : TokenAt(again, after[k] + 1) = tokens[k]
  <2>1. /\ FieldStarts(again) = {after[k] + 1 : k \in 2..Len(tokens)}
        /\ TokenAt(again, 1) = tokens[1]
        /\ \A k \in 1..Len(tokens) : TokenAt(again, after[k] + 1) = tokens[k]
    <3>1. /\ tokens \in Seq(Seq(33..126)) /\ Len(tokens) >= 1
          /\ \A k \in 1..Len(tokens) : Len(tokens[k]) >= 1
      BY <1>2
    <3>2. QED
      BY <1>3, <1>4, <3>1, TokensAreCut
  <2>2. QED
    BY <1>2, <2>1
<1>8. token \in TokensOf(again) <=>
        token = Spelling[verb] \/ \E k \in 1..n : token = FieldToken(message, k)
  <2>1. ASSUME NEW k \in 2..(n + 1) PROVE k - 1 \in 1..n /\ (k - 1) + 1 = k /\ k \in 1..(n + 1)
    BY <1>2
  <2>2. ASSUME NEW k \in 1..n PROVE k + 1 \in 2..(n + 1)
    BY <1>2
  <2>3. ASSUME NEW k \in 2..(n + 1)
        PROVE  TokenAt(again, after[k] + 1) = FieldToken(message, k - 1)
    <3>1. k - 1 \in 1..n /\ (k - 1) + 1 = k /\ k \in 1..(n + 1)
      BY <2>1
    <3>2. QED
      BY <1>2, <1>7, <3>1
  <2>4. ASSUME NEW start \in FieldStarts(again)
        PROVE  \E k \in 1..n : TokenAt(again, start) = FieldToken(message, k)
    <3>1. PICK k \in 2..(n + 1) : start = after[k] + 1
      BY <1>7
    <3>2. TokenAt(again, start) = FieldToken(message, k - 1) /\ k - 1 \in 1..n
      BY <2>1, <2>3, <3>1
    <3>3. QED
      BY <3>2
  <2>5. ASSUME NEW k \in 1..n
        PROVE  \E start \in FieldStarts(again) : TokenAt(again, start) = FieldToken(message, k)
    <3>1. k + 1 \in 2..(n + 1) /\ k + 1 \in 1..(n + 1)
      BY <2>1, <2>2
    <3>2. after[k + 1] + 1 \in FieldStarts(again)
      BY <1>7, <3>1
    <3>3. TokenAt(again, after[k + 1] + 1) = FieldToken(message, k)
      BY <1>2, <1>7, <3>1
    <3>4. QED
      BY <3>2, <3>3
  <2>6. TokenAt(again, 1) = Spelling[verb]
    BY <1>2, <1>7
  <2>7. QED
    BY <2>4, <2>5, <2>6 DEF TokensOf
<1>9. token \in TokensOf(line) <=>
        token = Spelling[verb] \/ \E k \in 1..n : token = TokenAt(line, at[k])
  BY <1>5 DEF TokensOf
<1>10. ASSUME NEW k \in 1..n
       PROVE  token = FieldToken(message, k) <=> token = TokenAt(line, at[k])
  <2>1. CASE fields[k].type = "text"
    <3>1. /\ NameIn(FieldToken(message, k)) = Spelling["payload"]
          /\ NameIn(TokenAt(line, at[k])) = Spelling["payload"]
      BY <1>5, <1>6, <2>1
    <3>2. QED
      BY <3>1
  <2>2. CASE fields[k].type # "text"
    BY <1>1, <2>2 DEF n, fields
  <2>3. QED
    BY <2>1, <2>2
<1>11. QED
  BY <1>8, <1>9, <1>10 DEF again

(* What the parser accepts has a line of its own, no longer than the one   *)
(* it came in, with the same words and numbers, that is read as the same   *)
(* message (remote_protocol_parse_line, then remote_protocol_encode).      *)
THEOREM AcceptedIsWrittenAgain ==
  ASSUME NEW line \in Seq(Nat), Len(line) < MaximumLineLength,
         ParseLine(line).kind = "message"
  PROVE  LET message == ParseLine(line).message
             again == LineOf(message)
         IN  /\ IsMessage(message) /\ Encodes(message)
             /\ Len(again) <= Len(line)
             /\ ParseLine(again) = ParseLine(line)
             /\ \A token : NameIn(token) # Spelling["payload"] =>
                  (token \in TokensOf(again) <=> token \in TokensOf(line))
<1> DEFINE message == ParseLine(line).message
           again == LineOf(message)
<1>1. /\ line # <<>> /\ ParseLine(line) = [kind |-> "message", message |-> message]
      /\ \E at : GivenAt(line, message, at)
  BY AcceptedLineGives
<1>2. PICK at : GivenAt(line, message, at)
  BY <1>1
<1> HIDE DEF message
<1>3. IsMessage(message) /\ FieldsAreValid(message)
  BY <1>1, <1>2, GivenMessagesAre
<1>4. Len(again) <= Len(line)
  BY <1>1, <1>2, WrittenIsNoLonger
<1>5. \A token : NameIn(token) # Spelling["payload"] =>
         (token \in TokensOf(again) <=> token \in TokensOf(line))
  BY <1>1, <1>2, SameTokens
<1>6. Len(EncodedLine(message)) <= MaximumLineLength
  <2>1. again \in Seq(32..126) /\ EncodedLine(message) = Append(again, LineTerminator)
    BY <1>3, LineLies
  <2> DEFINE a == Len(again)
             b == Len(line)
  <2>2. a \in Nat /\ b \in Nat /\ a <= b /\ b < MaximumLineLength /\ MaximumLineLength \in Nat
    <3>1. a <= b /\ b < MaximumLineLength
      BY <1>4
    <3> HIDE DEF again
    <3>2. a \in Nat /\ b \in Nat
      BY <2>1
    <3>3. QED
      BY <3>1, <3>2, CodecAssumption
  <2> HIDE DEF again
  <2>3. Len(EncodedLine(message)) = a + 1
    BY <2>1
  <2> HIDE DEF a, b
  <2>4. QED
    BY <2>2, <2>3
<1>7. Encodes(message)
  BY <1>3, <1>6 DEF Encodes
<1>8. ParseLine(again) = ParseLine(line)
  BY <1>1, <1>3, MessagesAreRead
<1>9. QED
  BY <1>3, <1>4, <1>5, <1>7, <1>8 DEF message
=============================================================================
