----------------------------- MODULE ExecProofs -----------------------------
(***************************************************************************)
(* Proofs about Exec, for any output and any size of reads: the info that  *)
(* two watches share is counted right, in whichever order they end; since  *)
(* a last reference never is given up, the info is never freed; and the    *)
(* lines of the child are handed on whole and in order, wherever the reads *)
(* cut its output.                                                         *)
(***************************************************************************)
EXTENDS Exec, FiniteSetTheorems, SequenceTheorems, WellFoundedInduction, TLAPS


(***************************************************************************)
(* The references are the watches.  (The second end gives up the last one  *)
(* when ref is 1 and not 0, so that freed stays FALSE.)                    *)
(***************************************************************************)
Counted ==
  /\ live \subseteq Pipes
  /\ ref = Cardinality(live)
  /\ freed = FALSE /\ results = 0

IInv == Counted /\ (mode = "none" => live = {})

LEMMA PipesFacts ==
  /\ IsFiniteSet(Pipes) /\ Cardinality(Pipes) = 2
  /\ \A S \in SUBSET Pipes : IsFiniteSet(S) /\ Cardinality(S) \in Nat
<1>1. "out" # "err" OBVIOUS
<1>2. IsFiniteSet({"out"}) /\ Cardinality({"out"}) = 1 BY FS_Singleton
<1>3. Pipes = {"out"} \cup {"err"} BY DEF Pipes
<1>4. IsFiniteSet(Pipes) /\ Cardinality(Pipes) = 2
  BY <1>1, <1>2, <1>3, FS_AddElement
<1>5. ASSUME NEW S \in SUBSET Pipes
      PROVE  IsFiniteSet(S) /\ Cardinality(S) \in Nat
  BY <1>4, FS_Subset, FS_CardinalityType
<1> QED BY <1>4, <1>5

\* the end of either watch takes its reference, and only that
LEMMA EndKeepsCount ==
  ASSUME Counted, NEW s \in live, Destroyed(s) PROVE Counted'
<1>1. IsFiniteSet(live) /\ Cardinality(live) \in Nat
  BY PipesFacts DEF Counted
<1>2. Cardinality(live \ {s}) = Cardinality(live) - 1
  BY <1>1, FS_RemoveElement
<1>3. IsFiniteSet(live \ {s}) /\ Cardinality(live \ {s}) \in Nat
  BY PipesFacts DEF Counted
<1>4. ref > 0 BY <1>1, <1>2, <1>3 DEF Counted
<1> QED BY <1>2, <1>4 DEF Counted, Destroyed

LEMMA InvStep == IInv /\ [Next]_vars => IInv'
<1> SUFFICES ASSUME IInv, [Next]_vars PROVE IInv' OBVIOUS
<1>1. CASE CmdExec
  <2>1. live' = Pipes /\ ref' = 2 /\ mode' # "none"
        /\ UNCHANGED <<results, freed>>
    BY <1>1 DEF CmdExec
  <2> QED BY <2>1, PipesFacts DEF IInv, Counted
<1>2. ASSUME NEW s \in Pipes, Write(s) PROVE IInv'
  BY <1>2 DEF Write, info, IInv, Counted
<1>3. ASSUME NEW s \in Pipes, Close(s) PROVE IInv'
  BY <1>3 DEF Close, info, IInv, Counted
<1>4. ASSUME NEW s \in Pipes, Readable(s) PROVE IInv'
  <2>1. s \in live /\ mode' = mode BY <1>4 DEF Readable, info
  <2>2. UNCHANGED <<live, ref, results, freed>> \/ Destroyed(s)
    BY <1>4 DEF Readable
  <2>3. CASE UNCHANGED <<live, ref, results, freed>>
    BY <2>1, <2>3 DEF IInv, Counted
  <2>4. CASE Destroyed(s)
    BY <2>1, <2>4, EndKeepsCount DEF IInv
  <2> QED BY <2>2, <2>3, <2>4
<1>5. ASSUME NEW s \in Pipes, HangUp(s) PROVE IInv'
  <2>1. s \in live /\ mode' = mode /\ Destroyed(s) BY <1>5 DEF HangUp, info
  <2> QED BY <2>1, EndKeepsCount DEF IInv
<1>6. CASE UNCHANGED vars
  BY <1>6 DEF vars, info, child, IInv, Counted
<1> QED BY <1>1, <1>2, <1>3, <1>4, <1>5, <1>6 DEF Next

LEMMA Invariance == Spec => []IInv
<1>1. Init => IInv BY FS_EmptySet DEF Init, IInv, Counted
<1> QED BY <1>1, InvStep, PTL DEF Spec

(***************************************************************************)
(* While a watch of /exec is there, so is the info it uses, with a         *)
(* reference for each.                                                     *)
(***************************************************************************)
THEOREM InfoIsHeld == Spec => []HeldWhileWatched
<1>1. IInv => HeldWhileWatched
  <2> SUFFICES ASSUME IInv PROVE HeldWhileWatched OBVIOUS
  <2>1. Cardinality(live) \in Nat BY PipesFacts DEF IInv, Counted
  <2> QED BY <2>1 DEF IInv, Counted, HeldWhileWatched
<1> QED BY <1>1, Invariance, PTL

\* No end of a watch is taken for the last: nothing is sent, nothing freed.
THEOREM ResultIsNeverSent == Spec => [](results = 0 /\ ~freed)
<1>1. IInv => results = 0 /\ ~freed BY DEF IInv, Counted
<1> QED BY <1>1, Invariance, PTL

-----------------------------------------------------------------------------
\* Numbers have a least.
LEMMA LeastNatural ==
  ASSUME NEW S \in SUBSET Nat, S # {}
  PROVE  \E x \in S : \A y \in S : x <= y
<1> DEFINE U == {0 .. x : x \in S}
<1>1. U \subseteq FiniteSubsetsOf(Nat) /\ U # {}
  <2>1. \A x \in S : 0 .. x \in SUBSET Nat /\ IsFiniteSet(0 .. x)
    BY FS_Interval
  <2> QED BY <2>1 DEF FiniteSubsetsOf
<1>2. PICK T \in U : \A V \in U : <<V, T>> \notin StrictSubsetOrdering(Nat)
  <2> HIDE DEF U
  <2> QED BY <1>1, FS_StrictSubsetOrderingWellFounded, WFMin
<1>3. PICK x \in S : T = 0 .. x BY <1>2
<1>4. ASSUME NEW y \in S, y < x PROVE FALSE
  <2>1. 0 .. y \subseteq 0 .. x /\ 0 .. y # 0 .. x BY <1>4
  <2>2. 0 .. y \in SUBSET Nat /\ 0 .. x \in SUBSET Nat OBVIOUS
  <2>3. <<0 .. y, 0 .. x>> \in StrictSubsetOrdering(Nat)
    BY <2>1, <2>2 DEF StrictSubsetOrdering
  <2> QED BY <1>2, <1>3, <2>3
<1> QED BY <1>4

\* A set of numbers up to n has a greatest, which is its Max.
LEMMA MaxIn ==
  ASSUME NEW n \in Nat, NEW S \in SUBSET (0 .. n), S # {}
  PROVE  Max(S) \in S /\ \A x \in S : x <= Max(S)
<1> DEFINE T == {t \in Nat : n - t \in S}
<1>1. T \in SUBSET Nat /\ T # {}
  <2>1. PICK x \in S : TRUE OBVIOUS
  <2>2. n - x \in Nat /\ n - (n - x) = x BY <2>1
  <2> QED BY <2>1, <2>2
<1>2. PICK t \in T : \A y \in T : t <= y
  <2> HIDE DEF T
  <2> QED BY <1>1, LeastNatural
<1>3. n - t \in S /\ t \in Nat BY <1>2
<1>4. ASSUME NEW x \in S PROVE x <= n - t
  <2>1. n - x \in Nat /\ n - (n - x) = x OBVIOUS
  <2>2. n - x \in T BY <2>1
  <2> QED BY <1>2, <1>3, <2>2
<1>5. \E x \in S : \A y \in S : x >= y BY <1>3, <1>4
<1> QED BY <1>5 DEF Max

\* What is in S and no less than the rest of it is its Max.
LEMMA MaxIs ==
  ASSUME NEW n \in Nat, NEW S \in SUBSET (0 .. n), NEW x \in S,
         \A y \in S : y <= x
  PROVE  Max(S) = x
<1>1. \A y \in S : y \in Int OBVIOUS
<1>2. S # {} OBVIOUS
<1>3. Max(S) \in S /\ x <= Max(S) BY <1>2, MaxIn
<1>4. Max(S) <= x BY <1>3
<1>5. x \in Int /\ Max(S) \in Int BY <1>1, <1>3
<1> QED BY <1>3, <1>4, <1>5

\* the members of S up to i, and how many they are
Upto(S, i) == {j \in S : j <= i}
Rank(S, i) == Cardinality(Upto(S, i))

\* The rank grows from number to number of S, up to how many there are.
LEMMA RankFacts ==
  ASSUME NEW n \in Nat, NEW S \in SUBSET (1 .. n)
  PROVE  /\ IsFiniteSet(S) /\ Cardinality(S) \in Nat
         /\ \A i \in Int : /\ IsFiniteSet(Upto(S, i)) /\ Rank(S, i) \in Nat
                           /\ Rank(S, i) <= Cardinality(S)
         /\ \A i \in Int, j \in S : i < j => Rank(S, i) < Rank(S, j)
         /\ \A i \in Int : n <= i => Rank(S, i) = Cardinality(S)
         /\ Rank(S, 0) = 0
<1>0. \A i \in S : i \in Int /\ 0 < i /\ i <= n OBVIOUS
<1>1. IsFiniteSet(S) /\ Cardinality(S) \in Nat
  <2>1. IsFiniteSet(1 .. n) BY FS_Interval
  <2> QED BY <2>1, FS_Subset, FS_CardinalityType
<1>2. ASSUME NEW i \in Int
      PROVE  /\ IsFiniteSet(Upto(S, i)) /\ Rank(S, i) \in Nat
             /\ Rank(S, i) <= Cardinality(S)
  <2>1. Upto(S, i) \in SUBSET S BY DEF Upto
  <2> QED BY <1>1, <2>1, FS_Subset, FS_CardinalityType DEF Rank
<1>3. ASSUME NEW i \in Int, NEW j \in S, i < j
      PROVE  Rank(S, i) < Rank(S, j)
  <2>1. j \in Int BY <1>0
  <2>a. \A x \in S : x <= i => x <= j BY <1>0, <1>3, <2>1
  <2>b. j <= j /\ ~(j <= i) BY <1>3, <2>1
  <2>2. Upto(S, i) \in SUBSET Upto(S, j) /\ j \in Upto(S, j)
        /\ j \notin Upto(S, i)
    BY <2>a, <2>b DEF Upto
  <2>3. IsFiniteSet(Upto(S, j)) /\ Rank(S, j) \in Nat /\ Rank(S, i) \in Nat
    BY <1>2, <2>1
  <2>4. Rank(S, i) <= Rank(S, j) /\ Rank(S, i) # Rank(S, j)
    BY <2>2, <2>3, FS_Subset DEF Rank
  <2> QED BY <2>3, <2>4
<1>4. ASSUME NEW i \in Int, n <= i PROVE Rank(S, i) = Cardinality(S)
  <2>a. \A x \in S : x <= i BY <1>0, <1>4
  <2>1. Upto(S, i) = S BY <2>a DEF Upto
  <2> QED BY <2>1 DEF Rank
<1>5. Rank(S, 0) = 0
  <2>a. \A x \in S : ~(x <= 0) BY <1>0
  <2>1. Upto(S, 0) = {} BY <2>a DEF Upto
  <2> QED BY <2>1, FS_EmptySet DEF Rank
<1> QED BY <1>1, <1>2, <1>3, <1>4, <1>5

\* Numbers have a k-th ...
LEMMA NthIn ==
  ASSUME NEW n \in Nat, NEW S \in SUBSET (1 .. n),
         NEW k \in 1 .. Cardinality(S)
  PROVE  Nth(S, k) \in S /\ Rank(S, Nth(S, k)) = k
<1> DEFINE T == {t \in Nat : Rank(S, t) >= k}
<1>1. T \in SUBSET Nat /\ n \in T
  <2>1. Cardinality(S) \in Nat /\ Rank(S, n) = Cardinality(S) BY RankFacts
  <2> QED BY <2>1
<1>2. PICK t \in T : \A y \in T : t <= y
  <2> HIDE DEF T
  <2> QED BY <1>1, LeastNatural
<1>3. t \in Nat /\ Rank(S, t) >= k /\ k \in Nat /\ k >= 1
  <2>1. Cardinality(S) \in Nat BY RankFacts
  <2> QED BY <1>2, <2>1
<1>4. t > 0 /\ Rank(S, t) \in Nat BY <1>3, RankFacts
<1>5. t - 1 \in Nat /\ Rank(S, t - 1) \in Nat /\ IsFiniteSet(Upto(S, t - 1))
  BY <1>3, <1>4, RankFacts
<1>6. Rank(S, t - 1) < k BY <1>2, <1>3, <1>5
<1>0. \A i \in S : i \in Int OBVIOUS
<1>7. Upto(S, t) = IF t \in S THEN Upto(S, t - 1) \cup {t} ELSE Upto(S, t - 1)
  <2>1. \A x \in S : x <= t <=> x <= t - 1 \/ x = t BY <1>0, <1>3
  <2> QED BY <2>1 DEF Upto
<1>8. t \notin Upto(S, t - 1) BY <1>3 DEF Upto
<1>9. t \in S BY <1>3, <1>4, <1>5, <1>6, <1>7 DEF Rank
<1>10. Rank(S, t) = Rank(S, t - 1) + 1
  BY <1>5, <1>7, <1>8, <1>9, FS_AddElement DEF Rank
<1>11. Rank(S, t) = k BY <1>3, <1>4, <1>5, <1>6, <1>10
<1> QED BY <1>9, <1>11 DEF Nth, Rank, Upto

\* ... and one only.
LEMMA NthIs ==
  ASSUME NEW n \in Nat, NEW S \in SUBSET (1 .. n), NEW i \in S
  PROVE  Nth(S, Rank(S, i)) = i /\ Rank(S, i) \in 1 .. Cardinality(S)
<1>0. \A j \in S : j \in Int /\ 0 < j OBVIOUS
<1>1. Rank(S, i) \in 1 .. Cardinality(S)
  <2>1. Rank(S, 0) = 0 /\ Rank(S, 0) < Rank(S, i) BY <1>0, RankFacts
  <2>2. Rank(S, i) \in Nat /\ Rank(S, i) <= Cardinality(S)
        /\ Cardinality(S) \in Nat
    BY <1>0, RankFacts
  <2> QED BY <2>1, <2>2
<1>2. PICK j \in S : j = Nth(S, Rank(S, i)) /\ Rank(S, j) = Rank(S, i)
  BY <1>1, NthIn
<1>3. Rank(S, i) \in Nat BY <1>0, RankFacts
<1>4. \A x, y \in S : x < y => Rank(S, x) < Rank(S, y) BY <1>0, RankFacts
<1>5. ~(i < j) /\ ~(j < i) BY <1>2, <1>3, <1>4
<1> QED BY <1>0, <1>1, <1>2, <1>5

-----------------------------------------------------------------------------
\* the sequence ends with a newline, if it is not empty
Ended(c) == c = <<>> \/ c[Len(c)] = 0

\* A line starts behind the newline before it, or at the front.
LEMMA StartFacts ==
  ASSUME NEW b \in Seq(Nat), NEW i \in 1 .. Len(b) + 1
  PROVE  /\ Start(b, i) \in 1 .. i
         /\ \A j \in Start(b, i) .. i - 1 : b[j] # 0
         /\ Start(b, i) = 1 \/ b[Start(b, i) - 1] = 0
<1> DEFINE S == {0} \cup {j \in 1 .. i - 1 : b[j] = 0}
           M == Max(S)
<1>1. i - 1 \in Nat /\ i \in Nat OBVIOUS
<1>2. S \in SUBSET (0 .. i - 1) /\ S # {} BY <1>1
<1>3. M \in S /\ \A x \in S : x <= M BY <1>1, <1>2, MaxIn
<1>4. Start(b, i) = M + 1 BY DEF Start
<1>5. M \in 0 .. i - 1 /\ (M = 0 \/ b[M] = 0) BY <1>1, <1>3
<1>6. \A j \in 1 .. i - 1 : b[j] = 0 => j <= M BY <1>3
<1> HIDE DEF M
<1>7. \A j \in M + 1 .. i - 1 : b[j] # 0 BY <1>1, <1>5, <1>6
<1> QED BY <1>1, <1>4, <1>5, <1>7

\* That place is the only one.
LEMMA StartIs ==
  ASSUME NEW b \in Seq(Nat), NEW i \in 1 .. Len(b) + 1, NEW t \in 1 .. i,
         \A j \in t .. i - 1 : b[j] # 0, t = 1 \/ b[t - 1] = 0
  PROVE  Start(b, i) = t
<1> DEFINE S == {0} \cup {j \in 1 .. i - 1 : b[j] = 0}
<1>1. i - 1 \in Nat /\ i \in Nat /\ t \in Nat /\ t - 1 \in Nat OBVIOUS
<1>2. S \in SUBSET (0 .. i - 1) BY <1>1
<1>3. t - 1 \in S BY <1>1
<1>4. \A j \in 1 .. i - 1 : b[j] = 0 => j <= t - 1 BY <1>1
<1>5. \A y \in S : y <= t - 1 BY <1>1, <1>4
<1>6. Start(b, i) = Max(S) + 1 BY DEF Start
<1> HIDE DEF S
<1>7. Max(S) = t - 1 BY <1>1, <1>2, <1>3, <1>5, MaxIs
<1> QED BY <1>1, <1>6, <1>7

\* A line is a sequence of pieces.
LEMMA LineType ==
  ASSUME NEW b \in Seq(Nat), NEW i \in 1 .. Len(b) + 1
  PROVE  Line(b, i) \in Seq(Nat)
<1>1. Start(b, i) \in 1 .. i BY StartFacts
<1>2. Start(b, i) \in Int /\ i - 1 \in Int
      /\ \A j \in Start(b, i) .. i - 1 : j \in 1 .. Len(b)
  BY <1>1
<1>3. \A j \in Start(b, i) .. i - 1 : b[j] \in Nat BY <1>2
<1> QED BY <1>2, <1>3, SubSeqProperties DEF Line

\* What is appended to c leaves the lines of c, and, if c ends with a newline,
\* is cut as it would be alone.
LEMMA LineCat ==
  ASSUME NEW c \in Seq(Nat), NEW d \in Seq(Nat)
  PROVE  /\ \A i \in 1 .. Len(c) : Line(c \o d, i) = Line(c, i)
         /\ Ended(c) => \A i \in 1 .. Len(d) :
                          Line(c \o d, Len(c) + i) = Line(d, i)
<1> DEFINE e == c \o d
           n == Len(c)
<1>1. /\ e \in Seq(Nat) /\ Len(e) = n + Len(d) /\ n \in Nat /\ Len(d) \in Nat
      /\ \A i \in 1 .. n : e[i] = c[i]
      /\ \A i \in 1 .. Len(d) : e[n + i] = d[i]
  <2>1. \A i \in 1 .. n + Len(d) : e[i] = IF i <= n THEN c[i] ELSE d[i - n]
    BY ConcatProperties
  <2>2. e \in Seq(Nat) /\ Len(e) = n + Len(d) BY ConcatProperties
  <2>3. n \in Nat /\ Len(d) \in Nat OBVIOUS
  <2>4. \A i \in 1 .. n : e[i] = c[i] BY <2>1, <2>3
  <2>5. \A i \in 1 .. Len(d) : e[n + i] = d[i]
    <3> SUFFICES ASSUME NEW i \in 1 .. Len(d) PROVE e[n + i] = d[i] OBVIOUS
    <3>1. n + i \in 1 .. n + Len(d) /\ ~(n + i <= n) /\ n + i - n = i
      BY <2>3
    <3> QED BY <2>1, <3>1
  <2> QED BY <2>2, <2>3, <2>4, <2>5
<1>2. ASSUME NEW i \in 1 .. n PROVE Line(e, i) = Line(c, i)
  <2> DEFINE t == Start(c, i)
  <2>1. /\ t \in 1 .. i /\ (\A j \in t .. i - 1 : c[j] # 0)
        /\ t = 1 \/ c[t - 1] = 0
    BY <1>1, StartFacts
  <2> HIDE DEF t, e, n
  <2>2. (\A j \in t .. i - 1 : e[j] # 0) /\ (t = 1 \/ e[t - 1] = 0)
    <3>1. \A j \in t .. i - 1 : j \in 1 .. n BY <1>1, <2>1
    <3>2. t # 1 => t - 1 \in 1 .. n BY <1>1, <2>1
    <3> QED BY <1>1, <2>1, <3>1, <3>2
  <2>3. i \in 1 .. Len(e) + 1 BY <1>1
  <2>4. Start(e, i) = t BY <1>1, <2>1, <2>2, <2>3, StartIs
  <2>5. SubSeq(e, t, i - 1) = SubSeq(c, t, i - 1)
    <3>1. CASE t <= i - 1
      <4>1. t \in 1 .. Len(c) /\ i - 1 \in 1 .. Len(c)
        BY <1>1, <2>1, <3>1 DEF n
      <4> QED BY <4>1, SubSeqOfConcat1 DEF e
    <3>2. CASE i - 1 < t
      <4>1. t \in Int /\ i - 1 \in Int BY <2>1
      <4> QED BY <3>2, <4>1, SubSeqEmpty
    <3> QED BY <2>1, <3>1, <3>2
  <2> QED BY <2>4, <2>5 DEF Line, t
<1>3. ASSUME Ended(c), NEW i \in 1 .. Len(d)
      PROVE  Line(e, n + i) = Line(d, i)
  <2> DEFINE t == Start(d, i)
             p == n + i
             q == n + t
             h == i - 1
             r == p - 1
  <2>1. /\ t \in 1 .. i /\ (\A j \in t .. i - 1 : d[j] # 0)
        /\ t = 1 \/ d[t - 1] = 0
    BY <1>1, StartFacts
  <2>2. n = 0 \/ c[n] = 0 BY <1>3 DEF Ended
  <2>3. Line(e, p) = SubSeq(e, Start(e, p), r) /\ Line(d, i) = SubSeq(d, t, h)
    BY DEF Line
  <2> HIDE DEF t, e, n
  <2>a. /\ i \in Int /\ t \in Int /\ n \in Nat /\ Len(d) \in Nat
        /\ 1 <= t /\ t <= i /\ i <= Len(d) /\ Len(e) = n + Len(d)
    BY <1>1, <2>1
  <2>4. /\ q \in 1 .. p /\ p \in 1 .. Len(e) + 1
        /\ t \in Int /\ h \in Int /\ q \in Int /\ r \in Int
        /\ h < t <=> r < q
    <3>1. p \in Int /\ q \in Int /\ r \in Int /\ h \in Int BY <2>a
    <3>2. 1 <= q /\ q <= p /\ p <= Len(e) + 1 /\ Len(e) + 1 \in Int
      BY <2>a
    <3>3. h < t <=> r < q BY <2>a
    <3> HIDE DEF p, q, r, h
    <3> QED BY <2>a, <3>1, <3>2, <3>3
  <2>5. \A j \in q .. p - 1 : e[j] # 0
    <3> SUFFICES ASSUME NEW j \in q .. p - 1 PROVE e[j] # 0 OBVIOUS
    <3> DEFINE k == j - n
    <3>1. k \in t .. i - 1 /\ k \in 1 .. Len(d) /\ n + k = j BY <2>a
    <3> HIDE DEF k
    <3>2. e[n + k] = d[k] BY <1>1, <3>1
    <3>3. d[k] # 0 BY <2>1, <3>1
    <3> QED BY <3>1, <3>2, <3>3
  <2>6. q = 1 \/ e[q - 1] = 0
    <3>1. CASE t = 1 /\ n = 0 BY <3>1
    <3>2. CASE t = 1 /\ n # 0
      <4>1. q - 1 = n /\ n \in 1 .. n BY <1>1, <3>2
      <4> QED BY <1>1, <2>2, <3>2, <4>1
    <3>3. CASE t # 1
      <4>1. q - 1 = n + (t - 1) /\ t - 1 \in 1 .. Len(d)
        BY <1>1, <2>1, <3>3
      <4> QED BY <1>1, <2>1, <3>3, <4>1
    <3> QED BY <3>1, <3>2, <3>3
  <2>7. ~(h < t) => /\ q \in n + 1 .. n + Len(d) /\ r \in n + 1 .. n + Len(d)
                    /\ q - n = t /\ r - n = h
    BY <2>a
  <2> HIDE DEF p, q, r, h
  <2>8. Start(e, p) = q BY <1>1, <2>4, <2>5, <2>6, StartIs
  <2>9. SubSeq(e, q, r) = SubSeq(d, t, h)
    <3>1. CASE h < t
      <4>1. SubSeq(d, t, h) = <<>> BY <2>4, <3>1, SubSeqEmpty
      <4>2. SubSeq(e, q, r) = <<>> BY <2>4, <3>1, SubSeqEmpty
      <4> QED BY <4>1, <4>2
    <3>2. CASE ~(h < t)
      <4>1. SubSeq(e, q, r) = SubSeq(d, q - n, r - n)
        BY <2>7, <3>2, SubSeqOfConcat2 DEF e, n
      <4> QED BY <2>7, <3>2, <4>1
    <3> QED BY <3>1, <3>2
  <2>10. Line(e, p) = Line(d, i) BY <2>3, <2>8, <2>9
  <2> QED BY <2>10 DEF p
<1> QED BY <1>2, <1>3

\* The ends of lines of c, and behind them those of d.
LEMMA EndsCat ==
  ASSUME NEW c \in Seq(Nat), NEW d \in Seq(Nat), Ended(c), NEW m
  PROVE  Ends(c \o d, m) = Ends(c, m) \cup {Len(c) + i : i \in Ends(d, m)}
<1> DEFINE e == c \o d
           n == Len(c)
<1>1. /\ DOMAIN e = 1 .. n + Len(d) /\ n \in Nat /\ Len(d) \in Nat
      /\ DOMAIN c = 1 .. n /\ DOMAIN d = 1 .. Len(d)
      /\ \A i \in 1 .. n : e[i] = c[i] /\ Line(e, i) = Line(c, i)
      /\ \A i \in 1 .. n + Len(d) : e[i] = IF i <= n THEN c[i] ELSE d[i - n]
      /\ \A i \in 1 .. Len(d) : Line(e, n + i) = Line(d, i)
  BY ConcatProperties, LenProperties, LineCat
<1> HIDE DEF e, n
<1>2. \A i \in 1 .. Len(d) : /\ n + i \in 1 .. n + Len(d)
                             /\ e[n + i] = d[i] /\ Line(e, n + i) = Line(d, i)
  <2> SUFFICES ASSUME NEW i \in 1 .. Len(d)
               PROVE  n + i \in 1 .. n + Len(d) /\ e[n + i] = d[i]
    BY <1>1
  <2>1. n + i \in 1 .. n + Len(d) /\ ~(n + i <= n) /\ n + i - n = i BY <1>1
  <2> QED BY <1>1, <2>1
<1>3. \A i \in 1 .. n : i \in Ends(e, m) <=> i \in Ends(c, m)
  <2>1. 1 .. n \subseteq 1 .. n + Len(d) BY <1>1
  <2> QED BY <1>1, <2>1 DEF Ends
<1>4. \A i \in 1 .. Len(d) : n + i \in Ends(e, m) <=> i \in Ends(d, m)
  BY <1>1, <1>2 DEF Ends
<1>5. \A j \in 1 .. n + Len(d) :
        j \in 1 .. n \/ \E i \in 1 .. Len(d) : j = n + i
  <2> SUFFICES ASSUME NEW j \in 1 .. n + Len(d), j \notin 1 .. n
               PROVE  \E i \in 1 .. Len(d) : j = n + i
    OBVIOUS
  <2>1. j - n \in 1 .. Len(d) /\ j = n + (j - n) BY <1>1
  <2> QED BY <2>1
<1>6. /\ Ends(e, m) \subseteq 1 .. n + Len(d) /\ Ends(c, m) \subseteq 1 .. n
      /\ Ends(d, m) \subseteq 1 .. Len(d)
  BY <1>1 DEF Ends
<1>7. Ends(e, m) = Ends(c, m) \cup {n + i : i \in Ends(d, m)}
  BY <1>3, <1>4, <1>5, <1>6
<1> QED BY <1>7 DEF e, n

\* the numbers of D, n further
Shift(n, D) == {n + j : j \in D}

\* Moving numbers does not change how many they are.
LEMMA ShiftCount ==
  ASSUME NEW n \in Nat, NEW D \in SUBSET Nat, IsFiniteSet(D)
  PROVE  IsFiniteSet(Shift(n, D)) /\ Cardinality(Shift(n, D)) = Cardinality(D)
<1> DEFINE f == [j \in D |-> n + j]
<1>1. f \in [D -> Shift(n, D)] BY DEF Shift
<1>2. \A j, k \in D : f[j] = f[k] => j = k
  <2> SUFFICES ASSUME NEW j \in D, NEW k \in D, n + j = n + k PROVE j = k
    OBVIOUS
  <2>1. j \in Nat /\ k \in Nat OBVIOUS
  <2> QED BY <2>1
<1>3. ASSUME NEW y \in Shift(n, D) PROVE \E j \in D : f[j] = y
  <2>1. PICK j \in D : y = n + j BY DEF Shift
  <2>2. f[j] = y BY <2>1
  <2> HIDE DEF f
  <2> QED BY <2>2
<1> HIDE DEF f
<1>4. f \in Bijection(D, Shift(n, D))
  BY <1>1, <1>2, <1>3 DEF Bijection, Injection, Surjection, IsInjective
<1>5. ExistsBijection(D, Shift(n, D)) BY <1>4 DEF ExistsBijection
<1> QED BY <1>5, FS_Bijection

\* Numbers up to n, and behind them others: the ranks go on.
LEMMA RankCat ==
  ASSUME NEW n \in Nat, NEW k \in Nat,
         NEW C \in SUBSET (1 .. n), NEW D \in SUBSET (1 .. k)
  PROVE  LET E == C \cup Shift(n, D)
         IN /\ E \in SUBSET (1 .. n + k)
            /\ Cardinality(E) = Cardinality(C) + Cardinality(D)
            /\ \A i \in C : Rank(E, i) = Rank(C, i)
            /\ \A i \in D : Rank(E, n + i) = Cardinality(C) + Rank(D, i)
<1> DEFINE E == C \cup Shift(n, D)
<1>1. /\ \A i \in C : i \in Int /\ 1 <= i /\ i <= n
      /\ \A i \in D : i \in Int /\ 1 <= i /\ i <= k
  OBVIOUS
<1>2. \A i \in Shift(n, D) : i \in Int /\ n < i /\ i <= n + k
  BY <1>1 DEF Shift
<1>3. E \in SUBSET (1 .. n + k)
  <2>1. \A i \in C : i \in 1 .. n + k BY <1>1
  <2>2. \A i \in Shift(n, D) : i \in 1 .. n + k BY <1>2
  <2> QED BY <2>1, <2>2
<1>4. IsFiniteSet(C) /\ IsFiniteSet(D)
      /\ Cardinality(C) \in Nat /\ Cardinality(D) \in Nat
  BY RankFacts
<1>5. ASSUME NEW T \in SUBSET D
      PROVE  Cardinality(C \cup Shift(n, T)) = Cardinality(C) + Cardinality(T)
  <2>1. IsFiniteSet(T) /\ Cardinality(T) \in Nat
    BY <1>4, FS_Subset, FS_CardinalityType
  <2>2. T \in SUBSET Nat BY <1>1
  <2>3. IsFiniteSet(Shift(n, T)) /\ Cardinality(Shift(n, T)) = Cardinality(T)
    BY <2>1, <2>2, ShiftCount
  <2>4. \A i \in Shift(n, T) : ~(i <= n) BY <1>2 DEF Shift
  <2>5. C \cap Shift(n, T) = {} BY <1>1, <2>4
  <2>6. Cardinality({}) = 0 BY FS_EmptySet
  <2>7. Cardinality(C \cup Shift(n, T)) = Cardinality(C)
          + Cardinality(Shift(n, T)) - Cardinality(C \cap Shift(n, T))
    BY <1>4, <2>3, FS_Union
  <2>8. Cardinality(C \cap Shift(n, T)) = 0 BY <2>5, <2>6
  <2> QED BY <1>4, <2>1, <2>3, <2>7, <2>8
<1>6. ASSUME NEW i \in C PROVE Rank(E, i) = Rank(C, i)
  <2>1. \A j \in Shift(n, D) : ~(j <= i) BY <1>1, <1>2
  <2>2. Upto(E, i) = Upto(C, i) BY <2>1 DEF Upto
  <2> QED BY <2>2 DEF Rank
<1>7. ASSUME NEW i \in D
      PROVE  Rank(E, n + i) = Cardinality(C) + Rank(D, i)
  <2>1. \A j \in C : j <= n + i BY <1>1
  <2>2. \A j \in D : n + j <= n + i <=> j <= i BY <1>1
  <2>3. Upto(E, n + i) = C \cup Shift(n, Upto(D, i))
    BY <2>1, <2>2 DEF Upto, Shift
  <2>4. Upto(D, i) \in SUBSET D BY DEF Upto
  <2> QED BY <1>5, <2>3, <2>4 DEF Rank
<1>8. Cardinality(E) = Cardinality(C) + Cardinality(D) BY <1>5
<1> QED BY <1>3, <1>6, <1>7, <1>8

\* The ends of lines are places, and the lines a sequence.
LEMMA EndsType ==
  ASSUME NEW b \in Seq(Nat), NEW m
  PROVE  /\ Ends(b, m) \in SUBSET (1 .. Len(b)) /\ Len(b) \in Nat
         /\ Cardinality(Ends(b, m)) \in Nat
         /\ Lines(b, m) \in Seq(Seq(Nat))
         /\ Len(Lines(b, m)) = Cardinality(Ends(b, m))
<1>1. Ends(b, m) \in SUBSET (1 .. Len(b)) /\ Len(b) \in Nat
  BY LenProperties DEF Ends
<1>2. Cardinality(Ends(b, m)) \in Nat BY <1>1, RankFacts
<1>3. \A i \in Ends(b, m) : Line(b, i) \in Seq(Nat)
  <2>1. \A i \in Ends(b, m) : i \in 1 .. Len(b) + 1 BY <1>1
  <2> QED BY <2>1, LineType
<1>4. \A k \in 1 .. Cardinality(Ends(b, m)) : Nth(Ends(b, m), k) \in Ends(b, m)
  BY <1>1, NthIn
<1>5. Lines(b, m) \in [1 .. Cardinality(Ends(b, m)) -> Seq(Nat)]
  BY <1>3, <1>4 DEF Lines
<1> QED BY <1>1, <1>2, <1>5

\* the lines of c and d together are those of c and then those of d
CutApart(c, d, m) == Lines(c \o d, m) = Lines(c, m) \o Lines(d, m)

(***************************************************************************)
(* The lines of what ends with a newline are handed on, and what follows   *)
(* is cut as if it came alone: it does not matter where a read stops.      *)
(***************************************************************************)
LEMMA LinesCat ==
  ASSUME NEW c \in Seq(Nat), NEW d \in Seq(Nat), Ended(c), NEW m
  PROVE  CutApart(c, d, m)
<1> DEFINE e == c \o d
           n == Len(c)
           C == Ends(c, m)
           D == Ends(d, m)
           E == Ends(e, m)
           a == Cardinality(C)
           z == Cardinality(D)
<1>1. e \in Seq(Nat) /\ n \in Nat BY ConcatProperties
<1>2. E = C \cup Shift(n, D) BY EndsCat DEF Shift
<1>3. /\ C \in SUBSET (1 .. n) /\ D \in SUBSET (1 .. Len(d)) /\ Len(d) \in Nat
      /\ a \in Nat /\ z \in Nat
  BY EndsType
<1>4. /\ E \in SUBSET (1 .. n + Len(d)) /\ Cardinality(E) = a + z
      /\ \A i \in C : Rank(E, i) = Rank(C, i)
      /\ \A i \in D : Rank(E, n + i) = a + Rank(D, i)
  <2> HIDE DEF C, D, E, n
  <2> DEFINE F == C \cup Shift(n, D)
  <2>1. /\ F \in SUBSET (1 .. n + Len(d))
        /\ Cardinality(F) = Cardinality(C) + Cardinality(D)
        /\ \A i \in C : Rank(F, i) = Rank(C, i)
        /\ \A i \in D : Rank(F, n + i) = Cardinality(C) + Rank(D, i)
    BY <1>1, <1>3, RankCat
  <2> QED BY <1>2, <2>1
<1>5. /\ \A i \in C : Line(e, i) = Line(c, i)
      /\ \A i \in D : Line(e, n + i) = Line(d, i)
  BY <1>3, LineCat
<1>6. /\ Lines(c, m) \in Seq(Seq(Nat)) /\ Len(Lines(c, m)) = a
      /\ Lines(d, m) \in Seq(Seq(Nat)) /\ Len(Lines(d, m)) = z
      /\ Lines(e, m) \in Seq(Seq(Nat)) /\ Len(Lines(e, m)) = a + z
  BY <1>1, <1>4, EndsType
<1>7. /\ \A k \in 1 .. a : Lines(c, m)[k] = Line(c, Nth(C, k))
      /\ \A k \in 1 .. z : Lines(d, m)[k] = Line(d, Nth(D, k))
      /\ \A k \in 1 .. a + z : Lines(e, m)[k] = Line(e, Nth(E, k))
  BY <1>4 DEF Lines
<1> DEFINE l == Lines(c, m) \o Lines(d, m)
<1>8. /\ l \in Seq(Seq(Nat)) /\ Len(l) = a + z
      /\ \A k \in 1 .. a + z : l[k] = IF k <= a THEN Lines(c, m)[k]
                                      ELSE Lines(d, m)[k - a]
  <2> HIDE DEF a, z
  <2> QED BY <1>6, ConcatProperties
<1> HIDE DEF l, C, D, E, n, e
<1>9. ASSUME NEW k \in 1 .. a PROVE Lines(e, m)[k] = l[k]
  <2>1. PICK i \in C : i = Nth(C, k) /\ Rank(C, i) = k
    BY <1>1, <1>3, NthIn
  <2>2. i \in E /\ Rank(E, i) = k BY <1>2, <1>4, <2>1
  <2>3. n + Len(d) \in Nat BY <1>1, <1>3
  <2>4. Nth(E, k) = i BY <1>4, <2>2, <2>3, NthIs
  <2> HIDE DEF a, z
  <2>5. k \in 1 .. a + z /\ k <= a BY <1>3
  <2> QED BY <1>5, <1>7, <1>8, <2>1, <2>4, <2>5
<1>10. ASSUME NEW p \in 1 .. a + z, p \notin 1 .. a
       PROVE  Lines(e, m)[p] = l[p]
  <2> HIDE DEF a, z
  <2>1. PICK k \in 1 .. z : p = a + k /\ k = p - a
    <3>1. p - a \in 1 .. z /\ a + (p - a) = p BY <1>3, <1>10
    <3> QED BY <3>1
  <2>2. PICK i \in D : i = Nth(D, k) /\ Rank(D, i) = k
    BY <1>1, <1>3, NthIn DEF z
  <2>3. PICK y \in E : y = n + i /\ Rank(E, y) = p
    BY <1>2, <1>4, <2>1, <2>2 DEF Shift
  <2>4. n + Len(d) \in Nat BY <1>1, <1>3
  <2>5. Nth(E, p) = y BY <1>4, <2>3, <2>4, NthIs
  <2>6. l[p] = Lines(d, m)[k]
    <3>1. ~(p <= a) BY <1>3, <1>10
    <3> QED BY <1>8, <2>1, <3>1
  <2>7. Lines(e, m)[p] = Line(e, y) BY <1>7, <2>5
  <2>8. Line(e, y) = Line(d, i) BY <1>5, <2>3
  <2>9. Lines(d, m)[k] = Line(d, i) BY <1>7, <2>2
  <2> QED BY <2>6, <2>7, <2>8, <2>9
<1>11. \A k \in 1 .. a + z : Lines(e, m)[k] = l[k] BY <1>9, <1>10
<1>12. Lines(e, m) = l
  <2> HIDE DEF a, z
  <2> QED BY <1>6, <1>8, <1>11, SeqEqual
<1> QED BY <1>12 DEF e, l, CutApart

\* A sequence without a newline has no lines.
LEMMA NoLines ==
  ASSUME NEW r \in Seq(Nat), \A i \in 1 .. Len(r) : r[i] # 0, NEW m
  PROVE  Lines(r, m) = <<>>
<1>1. Ends(r, m) = {} BY LenProperties DEF Ends
<1>2. Lines(r, m) \in Seq(Seq(Nat)) /\ Len(Lines(r, m)) = 0
  BY <1>1, EndsType, FS_EmptySet
<1> QED BY <1>2, EmptySeq

\* The buffer is cut behind its last newline.
LEMMA RestCut ==
  ASSUME NEW x \in Seq(Nat), NEW m
  PROVE  /\ Rest(x) \in Seq(Nat)
         /\ \E y \in Seq(Nat) : /\ Ended(y) /\ x = y \o Rest(x)
                                /\ Lines(x, m) = Lines(y, m)
<1> DEFINE n == Len(x)
           t == Start(x, n + 1)
           y == SubSeq(x, 1, t - 1)
<1>1. n \in Nat /\ n + 1 \in 1 .. n + 1 OBVIOUS
<1>2. /\ t \in 1 .. n + 1 /\ \A j \in t .. n : x[j] # 0
      /\ t = 1 \/ x[t - 1] = 0
  <2>1. /\ t \in 1 .. n + 1 /\ \A j \in t .. n + 1 - 1 : x[j] # 0
        /\ t = 1 \/ x[t - 1] = 0
    BY <1>1, StartFacts
  <2>2. n + 1 - 1 = n BY <1>1
  <2> QED BY <2>1, <2>2
<1>3. Rest(x) = SubSeq(x, t, n) BY DEF Rest
<1> HIDE DEF t, n
<1>4. t \in Int /\ t - 1 \in Int /\ n \in Int /\ t - 1 \in 0 .. n BY <1>1, <1>2
<1>5. \A i \in 1 .. n : x[i] \in Nat BY DEF n
<1>6. /\ Rest(x) \in Seq(Nat)
      /\ Len(Rest(x)) = IF t <= n THEN n - t + 1 ELSE 0
      /\ \A i \in 1 .. n - t + 1 : Rest(x)[i] = x[t + i - 1]
  <2>1. \A i \in t .. n : x[i] \in Nat BY <1>2, <1>4, <1>5
  <2> QED BY <1>3, <1>4, <2>1, SubSeqProperties
<1>7. /\ y \in Seq(Nat) /\ Len(y) = t - 1
      /\ \A i \in 1 .. t - 1 : y[i] = x[i]
  <2>1. \A i \in 1 .. t - 1 : x[i] \in Nat BY <1>4, <1>5
  <2>2. /\ y \in Seq(Nat)
        /\ Len(y) = IF 1 <= t - 1 THEN t - 1 - 1 + 1 ELSE 0
        /\ \A i \in 1 .. t - 1 - 1 + 1 : y[i] = x[1 + i - 1]
    BY <1>4, <2>1, SubSeqProperties
  <2> HIDE DEF y
  <2>3. \A i \in 1 .. t - 1 : i \in 1 .. t - 1 - 1 + 1 /\ 1 + i - 1 = i BY <1>4
  <2> QED BY <1>4, <2>2, <2>3
<1>8. x = y \o Rest(x)
  <2>1. SubSeq(x, 1, t - 1) \o SubSeq(x, t - 1 + 1, n) = SubSeq(x, 1, n)
    <3>1. /\ 1 \in 1 .. Len(x) + 1 /\ t - 1 \in 1 - 1 .. Len(x)
          /\ n \in t - 1 .. Len(x)
      BY <1>1, <1>4 DEF n
    <3> QED BY <3>1, ConcatAdjacentSubSeq
  <2>2. SubSeq(x, 1, n) = x BY SubSeqFull DEF n
  <2>3. t - 1 + 1 = t BY <1>4
  <2> QED BY <1>3, <2>1, <2>2, <2>3
<1> HIDE DEF y
<1>9. Ended(y)
  <2>1. CASE t = 1
    <3>1. Len(y) = 0 BY <1>7, <2>1
    <3> QED BY <1>7, <3>1, EmptySeq DEF Ended
  <2>2. CASE t # 1
    <3>1. t - 1 \in 1 .. t - 1 BY <1>2, <1>4, <2>2
    <3> QED BY <1>2, <1>7, <2>2, <3>1 DEF Ended
  <2> QED BY <2>1, <2>2
<1>10. Lines(Rest(x), m) = <<>>
  <2>1. ASSUME NEW i \in 1 .. Len(Rest(x)) PROVE Rest(x)[i] # 0
    <3>1. i \in 1 .. n - t + 1 /\ t + i - 1 \in t .. n BY <1>4, <1>6
    <3> QED BY <1>2, <1>6, <3>1
  <2>2. \A i \in 1 .. Len(Rest(x)) : Rest(x)[i] # 0 BY <2>1
  <2>3. Rest(x) \in Seq(Nat) BY <1>6
  <2> QED BY <2>2, <2>3, NoLines
<1>11. Lines(x, m) = Lines(y, m)
  <2> DEFINE r == Rest(x)
  <2>1. /\ r \in Seq(Nat) /\ y \in Seq(Nat) /\ Ended(y)
        /\ x = y \o r /\ Lines(r, m) = <<>>
    BY <1>6, <1>7, <1>8, <1>9, <1>10
  <2> HIDE DEF r
  <2>2. CutApart(y, r, m) BY <2>1, LinesCat
  <2>3. Lines(y \o r, m) = Lines(x, m) BY <2>1
  <2>4. Lines(x, m) = Lines(y, m) \o <<>>
    BY <2>1, <2>2, <2>3 DEF CutApart
  <2> QED BY <1>7, <2>4, EndsType, ConcatEmptySeq
<1> QED BY <1>6, <1>7, <1>8, <1>9, <1>11

\* What is appended to p leaves p in front.
LEMMA PrefixOfCat ==
  ASSUME NEW p \in Seq(Seq(Nat)), NEW q \in Seq(Seq(Nat))
  PROVE  IsPrefix(p, p \o q)
<1>1. /\ Len(p) \in Nat /\ Len(q) \in Nat /\ Len(p \o q) = Len(p) + Len(q)
  BY ConcatProperties, LenProperties
<1>2. SubSeq(p, 1, Len(p)) = SubSeq(p \o q, 1, Len(p))
  <2>1. CASE Len(p) = 0
    <3>1. 1 \in Int /\ Len(p) \in Int /\ Len(p) < 1 BY <1>1, <2>1
    <3> QED BY <3>1, SubSeqEmpty
  <2>2. CASE Len(p) # 0
    <3>1. 1 \in 1 .. Len(p) /\ Len(p) \in 1 .. Len(p) BY <1>1, <2>2
    <3> QED BY <3>1, SubSeqOfConcat1
  <2> QED BY <2>1, <2>2
<1>3. Len(p) <= Len(p \o q) BY <1>1
<1> QED BY <1>2, <1>3 DEF IsPrefix

(***************************************************************************)
(* What the child wrote, w, is a part that was handled, which ends with a  *)
(* line, and what waits in the buffer, b, and the pipe, p.                 *)
(***************************************************************************)
Behind(w, c, z) == w = c \o z        \* z comes behind c in w
Joined(w, c, b, p) == w = c \o (b \o p)
Cut(w, b, p, h, m) ==
  \E c \in Seq(Nat) : Ended(c) /\ Joined(w, c, b, p) /\ h = Lines(c, m)

\* LinesInOrder of a pipe whose watch is gone
Told(w, h, m) == IsPrefix(h, Lines(Append(w, 0), m))

\* Three sequences may be joined from either end.  (The provers find the
\* instance by the name.)
Either(s, t, u) == (s \o t) \o u = s \o (t \o u)
LEMMA JoinEither ==
  ASSUME NEW s \in Seq(Nat), NEW t \in Seq(Nat), NEW u \in Seq(Nat)
  PROVE  Either(s, t, u)
BY ConcatAssociative, SMTT(30) DEF Either

\* The parts are joined anew when a unit is written,
LEMMA JoinWrite ==
  ASSUME NEW w \in Seq(Nat), NEW c \in Seq(Nat), NEW b \in Seq(Nat),
         NEW p \in Seq(Nat), NEW u \in Nat, Joined(w, c, b, p)
  PROVE  /\ Joined(Append(w, u), c, b, Append(p, u))
         /\ Behind(Append(w, u), c, Append(b \o p, u))
<1> DEFINE v == <<u>>
           y == b \o p
<1>1. /\ v \in Seq(Nat) /\ y \in Seq(Nat)
      /\ Append(w, u) = w \o v /\ Append(p, u) = p \o v
      /\ Append(y, u) = y \o v
  BY AppendIsConcat, ConcatProperties
<1> HIDE DEF v
<1>2. Either(b, p, v) BY <1>1, JoinEither
<1> HIDE DEF y
<1>3. Either(c, y, v) BY <1>1, JoinEither
<1>4. w = c \o y BY DEF Joined, y
<1>5. Append(w, u) = c \o Append(y, u) BY <1>1, <1>3, <1>4 DEF Either
<1>6. Append(w, u) = c \o (b \o Append(p, u))
  BY <1>1, <1>2, <1>5 DEF Either, y
<1> QED BY <1>5, <1>6 DEF Joined, Behind, y

\* when a part of the pipe goes into the buffer,
LEMMA JoinRead ==
  ASSUME NEW c, NEW w, NEW b \in Seq(Nat), NEW q \in Seq(Nat),
         NEW p \in Seq(Nat), Joined(w, c, b, q \o p)
  PROVE  Joined(w, c, b \o q, p)
<1>1. Either(b, q, p) BY JoinEither
<1> QED BY <1>1 DEF Joined, Either

\* and when the front of the buffer is handled.
LEMMA JoinLine ==
  ASSUME NEW c \in Seq(Nat), NEW y \in Seq(Nat), NEW r \in Seq(Nat),
         NEW p \in Seq(Nat), NEW w, NEW x, x = y \o r, Joined(w, c, x, p)
  PROVE  Joined(w, c \o y, r, p)
<1> DEFINE z == r \o p
<1>1. z \in Seq(Nat) BY ConcatProperties
<1>2. (y \o r) \o p = y \o z BY JoinEither DEF Either
<1> HIDE DEF z
<1>3. Either(c, y, z) BY <1>1, JoinEither
<1>4. w = c \o ((y \o r) \o p) BY DEF Joined
<1>5. w = (c \o y) \o z BY <1>2, <1>3, <1>4 DEF Either
<1> QED BY <1>5 DEF Joined, z

\* Two parts that end with a line are one.
LEMMA EndedCat ==
  ASSUME NEW c \in Seq(Nat), NEW y \in Seq(Nat), Ended(c), Ended(y)
  PROVE  c \o y \in Seq(Nat) /\ Ended(c \o y)
<1> DEFINE d == c \o y
<1>1. /\ d \in Seq(Nat) /\ Len(d) = Len(c) + Len(y)
      /\ Len(c) \in Nat /\ Len(y) \in Nat
      /\ \A i \in Len(c) + 1 .. Len(c) + Len(y) : d[i] = y[i - Len(c)]
  BY ConcatProperties, LenProperties
<1> HIDE DEF d
<1>2. CASE Len(y) = 0
  <2>1. y = <<>> BY <1>2, EmptySeq
  <2>2. d = c BY <2>1, ConcatEmptySeq DEF d
  <2> QED BY <1>1, <2>2 DEF d
<1>3. CASE Len(y) # 0
  <2>1. Len(d) \in Len(c) + 1 .. Len(c) + Len(y) /\ Len(d) - Len(c) = Len(y)
    BY <1>1, <1>3
  <2>2. d[Len(d)] = y[Len(y)] BY <1>1, <2>1
  <2>3. y # <<>> BY <1>3, EmptySeq
  <2>4. Ended(d) BY <2>2, <2>3 DEF Ended
  <2> QED BY <1>1, <2>4 DEF d
<1> QED BY <1>1, <1>2, <1>3

\* The command line in the buffer is what is written first.
LEMMA CutStart ==
  ASSUME NEW b \in Seq(Nat), NEW m
  PROVE  Cut(b, b, <<>>, <<>>, m)
<1> DEFINE c == <<>>
<1>1. c \in Seq(Nat) /\ Len(c) = 0 BY EmptySeq
<1>2. Ended(c) BY <1>1 DEF Ended
<1>3. Lines(c, m) = <<>>
  <2> HIDE DEF c
  <2>1. \A i \in 1 .. Len(c) : c[i] # 0 BY <1>1
  <2> QED BY <1>1, <2>1, NoLines
<1>4. b \o <<>> = b /\ c \o b = b BY ConcatEmptySeq
<1>5. Joined(b, c, b, <<>>) BY <1>4 DEF Joined
<1> QED BY <1>1, <1>2, <1>3, <1>5 DEF Cut

\* What is written goes behind what waits.
LEMMA CutWrite ==
  ASSUME NEW w \in Seq(Nat), NEW b \in Seq(Nat), NEW p \in Seq(Nat), NEW h,
         NEW m, NEW u \in Nat, Cut(w, b, p, h, m)
  PROVE  Cut(Append(w, u), b, Append(p, u), h, m)
<1>1. PICK c \in Seq(Nat) : Ended(c) /\ Joined(w, c, b, p) /\ h = Lines(c, m)
  BY DEF Cut
<1>2. Joined(Append(w, u), c, b, Append(p, u)) BY <1>1, JoinWrite
<1> QED BY <1>1, <1>2 DEF Cut

(***************************************************************************)
(* A read moves q, the front of the pipe, behind the buffer, the lines of  *)
(* which are handed on; its rest begins a line.                            *)
(***************************************************************************)
LEMMA CutRead ==
  ASSUME NEW w \in Seq(Nat), NEW b \in Seq(Nat), NEW q \in Seq(Nat),
         NEW p \in Seq(Nat), NEW h, NEW m, Cut(w, b, q \o p, h, m)
  PROVE  /\ Rest(b \o q) \in Seq(Nat)
         /\ h \in Seq(Seq(Nat)) /\ h \o Lines(b \o q, m) \in Seq(Seq(Nat))
         /\ Cut(w, Rest(b \o q), p, h \o Lines(b \o q, m), m)
<1>1. PICK c \in Seq(Nat) :
        Ended(c) /\ Joined(w, c, b, q \o p) /\ h = Lines(c, m)
  BY DEF Cut
<1> DEFINE x == b \o q
           r == Rest(x)
<1>2. x \in Seq(Nat) BY ConcatProperties
<1>3. Joined(w, c, x, p) BY <1>1, JoinRead
<1> HIDE DEF x
<1>4. r \in Seq(Nat) BY <1>2, RestCut
<1>5. PICK y \in Seq(Nat) : Ended(y) /\ x = y \o r /\ Lines(x, m) = Lines(y, m)
  BY <1>2, RestCut
<1> HIDE DEF r
<1>6. c \o y \in Seq(Nat) /\ Ended(c \o y) BY <1>1, <1>5, EndedCat
<1>7. Joined(w, c \o y, r, p) BY <1>3, <1>4, <1>5, JoinLine
<1>8. Lines(c \o y, m) = h \o Lines(x, m)
  <2>1. Ended(c) BY <1>1
  <2>2. CutApart(c, y, m) BY <2>1, LinesCat
  <2> QED BY <1>1, <1>5, <2>2 DEF CutApart
<1>9. h \in Seq(Seq(Nat)) /\ h \o Lines(x, m) \in Seq(Seq(Nat))
  <2>1. Lines(c, m) \in Seq(Seq(Nat)) /\ Lines(c \o y, m) \in Seq(Seq(Nat))
    BY <1>6, EndsType
  <2> QED BY <1>1, <1>8, <2>1
<1>10. Cut(w, r, p, h \o Lines(x, m), m)
  <2> DEFINE d == c \o y
  <2>1. d \in Seq(Nat) /\ Ended(d) /\ Joined(w, d, r, p)
        /\ h \o Lines(x, m) = Lines(d, m)
    BY <1>6, <1>7, <1>8
  <2> HIDE DEF d
  <2> QED BY <2>1 DEF Cut
<1> QED BY <1>4, <1>9, <1>10 DEF x, r

(***************************************************************************)
(* A watch that is removed leaves what waits: what was handled is a prefix *)
(* of the lines, and all of them if the end of the pipe ended the last.    *)
(***************************************************************************)
LEMMA CutTold ==
  ASSUME NEW w \in Seq(Nat), NEW b \in Seq(Nat), NEW p \in Seq(Nat), NEW h,
         NEW m, Cut(w, b, p, h, m)
  PROVE  /\ Told(w, h, m)
         /\ p = <<>> => /\ h \o Lines(Append(b, 0), m) \in Seq(Seq(Nat))
                        /\ Told(w, h \o Lines(Append(b, 0), m), m)
<1>1. PICK c \in Seq(Nat) : Ended(c) /\ Joined(w, c, b, p) /\ h = Lines(c, m)
  BY DEF Cut
<1> DEFINE z == Append(b \o p, 0)
<1>2. Behind(Append(w, 0), c, z) BY <1>1, JoinWrite
<1>3. z \in Seq(Nat)
  <2>1. b \o p \in Seq(Nat) BY ConcatProperties
  <2> QED BY <2>1, AppendProperties
<1>4. p = <<>> => z = Append(b, 0) BY ConcatEmptySeq
<1> HIDE DEF z
<1>5. Lines(Append(w, 0), m) = h \o Lines(z, m)
  <2>1. Ended(c) BY <1>1
  <2>2. CutApart(c, z, m) BY <1>3, <2>1, LinesCat
  <2> QED BY <1>1, <1>2, <2>2 DEF CutApart, Behind
<1>6. h \in Seq(Seq(Nat)) /\ Lines(z, m) \in Seq(Seq(Nat))
  BY <1>1, <1>3, EndsType
<1> DEFINE a == h \o Lines(z, m)
<1>7. a \in Seq(Seq(Nat)) /\ IsPrefix(h, a)
  BY <1>6, ConcatProperties, PrefixOfCat
<1>8. IsPrefix(a, a)
  <2>1. <<>> \in Seq(Seq(Nat)) /\ a \o <<>> = a
    BY <1>7, EmptySeq, ConcatEmptySeq
  <2> HIDE DEF a
  <2> QED BY <1>7, <2>1, PrefixOfCat
<1> QED BY <1>4, <1>5, <1>7, <1>8 DEF Told

\* LinesInOrder of a pipe whose watch is there
Whole(w, b, p, h, m) ==
  LET before == SubSeq(w, 1, Len(w) - Len(b \o p))
  IN w = before \o (b \o p) /\ h = Lines(before, m)

\* So the part that was handled is what is written less what waits.
LEMMA CutWhole ==
  ASSUME NEW w \in Seq(Nat), NEW b \in Seq(Nat), NEW p \in Seq(Nat), NEW h,
         NEW m, Cut(w, b, p, h, m)
  PROVE  Whole(w, b, p, h, m)
<1>1. PICK c \in Seq(Nat) : w = c \o (b \o p) /\ h = Lines(c, m)
  BY DEF Cut, Joined
<1> DEFINE z == b \o p
           n == Len(w) - Len(z)
<1>2. z \in Seq(Nat) BY ConcatProperties
<1> HIDE DEF z
<1>3. Len(w) = Len(c) + Len(z) /\ Len(c) \in Nat /\ Len(z) \in Nat
  BY <1>1, <1>2, ConcatProperties, LenProperties DEF z
<1>4. n = Len(c) BY <1>3
<1>5. SubSeq(w, 1, Len(c)) = c
  <2>1. CASE Len(c) = 0
    <3>1. c = <<>> /\ 1 \in Int /\ Len(c) \in Int /\ Len(c) < 1
      BY <2>1, EmptySeq
    <3> QED BY <3>1, SubSeqEmpty
  <2>2. CASE Len(c) # 0
    <3>1. 1 \in 1 .. Len(c) /\ Len(c) \in 1 .. Len(c) BY <1>3, <2>2
    <3>2. SubSeq(c \o z, 1, Len(c)) = SubSeq(c, 1, Len(c))
      BY <1>2, <3>1, SubSeqOfConcat1
    <3>3. SubSeq(c, 1, Len(c)) = c BY SubSeqFull
    <3> QED BY <1>1, <3>2, <3>3 DEF z
  <2> QED BY <2>1, <2>2
<1> QED BY <1>1, <1>4, <1>5 DEF z, Whole

\* A read cuts the pipe in two.
LEMMA Split ==
  ASSUME NEW p \in Seq(Nat), NEW n \in 0 .. Len(p)
  PROVE  /\ SubSeq(p, 1, n) \in Seq(Nat)
         /\ SubSeq(p, n + 1, Len(p)) \in Seq(Nat)
         /\ p = SubSeq(p, 1, n) \o SubSeq(p, n + 1, Len(p))
<1> DEFINE k == Len(p)
<1>1. k \in Nat /\ n \in Int /\ n + 1 \in Int /\ \A i \in 1 .. k : p[i] \in Nat
  BY LenProperties
<1>2. SubSeq(p, 1, n) \o SubSeq(p, n + 1, k) = SubSeq(p, 1, k)
  <2>1. /\ 1 \in 1 .. Len(p) + 1 /\ n \in 1 - 1 .. Len(p)
        /\ k \in n .. Len(p)
    BY <1>1
  <2> QED BY <2>1, ConcatAdjacentSubSeq
<1>3. SubSeq(p, 1, k) = p BY SubSeqFull
<1> HIDE DEF k
<1>4. /\ \A i \in 1 .. n : p[i] \in Nat
      /\ \A i \in n + 1 .. k : p[i] \in Nat
  BY <1>1 DEF k
<1>5. SubSeq(p, 1, n) \in Seq(Nat) /\ SubSeq(p, n + 1, k) \in Seq(Nat)
  BY <1>1, <1>4, SubSeqProperties
<1> QED BY <1>2, <1>3, <1>5, Zenon DEF k

(***************************************************************************)
(* Of each pipe: while its watch is there, what was written is cut between *)
(* what was handled and what waits; when it is gone, a prefix was handled  *)
(* and nobody holds the pipe to write more.                                *)
(***************************************************************************)
Right(s) ==
  IF s \in live
  THEN Cut(written[s], buf[s], pipe[s], handled[s], mode)
  ELSE s \notin open /\ Told(written[s], handled[s], mode)

\* the types of what the lines are about
Units ==
  /\ written \in [Pipes -> Seq(Nat)] /\ pipe \in [Pipes -> Seq(Nat)]
  /\ buf \in [Pipes -> Seq(Nat)] /\ handled \in [Pipes -> Seq(Seq(Nat))]
  /\ open \subseteq Pipes
  /\ mode \in {"none", "print", "msg", "bmsg", "cmd"} /\ prompt \in BOOLEAN

\* nothing is read or handled before the command
Silent ==
  mode = "none" =>
    /\ live = {} /\ open = {}
    /\ \A s \in Pipes : pipe[s] = <<>> /\ handled[s] = <<>>

LInv == Units /\ Silent /\ \A s \in Pipes : Right(s)

\* To hand nothing on is to hand a prefix on.
LEMMA NoPrefix ==
  ASSUME NEW w \in Seq(Nat), NEW m PROVE Told(w, <<>>, m)
<1>1. Append(w, 0) \in Seq(Nat) BY AppendProperties
<1>2. <<>> \in Seq(Seq(Nat)) BY EmptySeq
<1>3. Lines(Append(w, 0), m) \in Seq(Seq(Nat)) BY <1>1, EndsType
<1>4. <<>> \o Lines(Append(w, 0), m) = Lines(Append(w, 0), m)
  BY <1>3, ConcatEmptySeq
<1>5. IsPrefix(<<>>, <<>> \o Lines(Append(w, 0), m))
  BY <1>2, <1>3, PrefixOfCat
<1> QED BY <1>4, <1>5 DEF Told

\* Every pipe is right at first ...
LEMMA InitLines == Init => LInv
<1> SUFFICES ASSUME Init PROVE LInv OBVIOUS
<1>1. <<>> \in Seq(Nat) /\ <<>> \in Seq(Seq(Nat)) BY EmptySeq
<1>2. Units /\ Silent BY <1>1 DEF Init, Units, Silent
<1>3. ASSUME NEW s \in Pipes PROVE Right(s)
  <2>1. s \notin live /\ s \notin open BY DEF Init
  <2>2. written[s] = <<>> /\ handled[s] = <<>> BY DEF Init
  <2>3. Told(written[s], handled[s], mode) BY <1>1, <2>2, NoPrefix
  <2> QED BY <2>1, <2>3 DEF Right
<1> QED BY <1>2, <1>3 DEF LInv

\* ... and kept right by the command,
LEMMA CmdExecLines == ASSUME LInv, CmdExec PROVE LInv'
<1>1. /\ mode = "none" /\ mode' \in {"print", "msg", "bmsg", "cmd"}
      /\ written' = buf' /\ open' = Pipes /\ live' = Pipes
      /\ pipe' = pipe /\ handled' = handled
  BY DEF CmdExec
<1>2. buf' \in [Pipes -> Seq(Nat)] /\ prompt' \in BOOLEAN
  <2>1. <<1, 0>> \in Seq(Nat) /\ <<>> \in Seq(Nat) BY EmptySeq
  <2>2. buf' = [buf EXCEPT !["err"] = IF prompt' THEN <<1, 0>> ELSE <<>>]
    BY DEF CmdExec
  <2>3. prompt' \in (IF mode' = "print" THEN {FALSE} ELSE BOOLEAN)
    BY DEF CmdExec
  <2>4. (IF prompt' THEN <<1, 0>> ELSE <<>>) \in Seq(Nat) BY <2>1
  <2>5. buf \in [Pipes -> Seq(Nat)] BY DEF LInv, Units
  <2>6. buf' \in [Pipes -> Seq(Nat)] BY <2>2, <2>4, <2>5
  <2> QED BY <2>3, <2>6
<1>3. Units' BY <1>1, <1>2 DEF LInv, Units
<1>4. Silent' BY <1>1 DEF Silent
<1>5. ASSUME NEW s \in Pipes PROVE Right(s)'
  <2>1. pipe'[s] = <<>> /\ handled'[s] = <<>> BY <1>1 DEF LInv, Silent
  <2>2. buf'[s] \in Seq(Nat) BY <1>2
  <2>3. Cut(buf'[s], buf'[s], <<>>, <<>>, mode') BY <2>2, CutStart
  <2> QED BY <1>1, <2>1, <2>3 DEF Right
<1> QED BY <1>3, <1>4, <1>5 DEF LInv

\* The other pipe is left alone.
LEMMA OtherPipe ==
  ASSUME NEW t \in Pipes, Right(t), mode' = mode,
         written'[t] = written[t], buf'[t] = buf[t], pipe'[t] = pipe[t],
         handled'[t] = handled[t], t \in live' <=> t \in live,
         t \in open' => t \in open
  PROVE  Right(t)'
BY DEF Right

\* by what the child writes,
LEMMA WriteLines == ASSUME LInv, NEW s \in Pipes, Write(s) PROVE LInv'
<1>1. PICK u \in {0, Len(written[s]) + 1} :
        /\ written' = [written EXCEPT ![s] = Append(@, u)]
        /\ pipe' = [pipe EXCEPT ![s] = Append(@, u)]
  BY DEF Write
<1>2. /\ s \in open /\ buf' = buf /\ handled' = handled /\ live' = live
      /\ open' = open /\ mode' = mode /\ prompt' = prompt
  BY DEF Write, info
<1>3. /\ written[s] \in Seq(Nat) /\ pipe[s] \in Seq(Nat) /\ buf[s] \in Seq(Nat)
      /\ written \in [Pipes -> Seq(Nat)] /\ pipe \in [Pipes -> Seq(Nat)]
  BY DEF LInv, Units
<1>4. u \in Nat BY <1>3, LenProperties
<1>5. Append(written[s], u) \in Seq(Nat) /\ Append(pipe[s], u) \in Seq(Nat)
  BY <1>3, <1>4, AppendProperties
<1>6. /\ written'[s] = Append(written[s], u) /\ pipe'[s] = Append(pipe[s], u)
      /\ \A t \in Pipes \ {s} : written'[t] = written[t] /\ pipe'[t] = pipe[t]
      /\ written' \in [Pipes -> Seq(Nat)] /\ pipe' \in [Pipes -> Seq(Nat)]
  BY <1>1, <1>3, <1>5
<1>7. Units' BY <1>2, <1>6 DEF LInv, Units
<1>8. Silent' BY <1>2 DEF LInv, Silent
<1>9. s \in live /\ Cut(written[s], buf[s], pipe[s], handled[s], mode)
  BY <1>2 DEF LInv, Right
<1>10. Right(s)'
  <2>1. Cut(Append(written[s], u), buf[s], Append(pipe[s], u), handled[s],
            mode)
    BY <1>3, <1>4, <1>9, CutWrite
  <2> QED BY <1>2, <1>6, <1>9, <2>1 DEF Right
<1>11. ASSUME NEW t \in Pipes, t # s PROVE Right(t)'
  BY <1>2, <1>6, <1>11, OtherPipe DEF LInv
<1> QED BY <1>7, <1>8, <1>10, <1>11 DEF LInv

\* by its closing of a pipe,
LEMMA CloseLines == ASSUME LInv, NEW s \in Pipes, Close(s) PROVE LInv'
<1>1. /\ open' = open \ {s} /\ s \in open
      /\ UNCHANGED <<mode, prompt, written, pipe, buf, live, handled>>
  BY DEF Close, info
<1>2. Units' BY <1>1 DEF LInv, Units
<1>3. Silent' BY <1>1 DEF LInv, Silent
<1>4. ASSUME NEW t \in Pipes PROVE Right(t)'
  BY <1>1, OtherPipe DEF LInv
<1> QED BY <1>2, <1>3, <1>4 DEF LInv

\* What the watch of s does with its buffer b, its pipe p and its lines h.
LEMMA WatchLines ==
  ASSUME LInv, NEW s \in live, NEW b \in Seq(Nat), NEW p \in Seq(Nat),
         NEW h \in Seq(Seq(Nat)),
         buf' = [buf EXCEPT ![s] = b], pipe' = [pipe EXCEPT ![s] = p],
         handled' = [handled EXCEPT ![s] = h],
         UNCHANGED <<mode, prompt, written, open>>,
         \/ live' = live /\ Cut(written[s], b, p, h, mode)
         \/ s \notin open /\ live' = live \ {s} /\ Told(written[s], h, mode),
         s \in Pipes
  PROVE  LInv'
<1>1. /\ buf \in [Pipes -> Seq(Nat)] /\ pipe \in [Pipes -> Seq(Nat)]
      /\ handled \in [Pipes -> Seq(Seq(Nat))]
  BY DEF LInv, Units
<1>2. /\ buf'[s] = b /\ pipe'[s] = p /\ handled'[s] = h
      /\ \A t \in Pipes \ {s} :
           buf'[t] = buf[t] /\ pipe'[t] = pipe[t] /\ handled'[t] = handled[t]
      /\ buf' \in [Pipes -> Seq(Nat)] /\ pipe' \in [Pipes -> Seq(Nat)]
      /\ handled' \in [Pipes -> Seq(Seq(Nat))]
  BY <1>1
<1>3. Units' BY <1>2 DEF LInv, Units
<1>4. Silent'
  <2>1. mode # "none" BY DEF LInv, Silent
  <2> QED BY <2>1 DEF Silent
<1>5. Right(s)' BY <1>2 DEF Right
<1>6. ASSUME NEW t \in Pipes, t # s PROVE Right(t)'
  <2>1. Right(t) BY DEF LInv
  <2>2. t \in live' <=> t \in live BY <1>6
  <2> QED BY <1>2, <1>6, <2>1, <2>2, OtherPipe
<1> QED BY <1>3, <1>4, <1>5, <1>6 DEF LInv

\* by a read,
LEMMA ReadableLines == ASSUME LInv, NEW s \in Pipes, Readable(s) PROVE LInv'
<1>1. s \in live /\ UNCHANGED <<mode, prompt, written, open>>
  BY DEF Readable, info, child
<1> DEFINE n == IF Len(pipe[s]) < MaxRead THEN Len(pipe[s]) ELSE MaxRead
           q == SubSeq(pipe[s], 1, n)
           p == SubSeq(pipe[s], n + 1, Len(pipe[s]))
           x == buf[s] \o q
           h == handled[s] \o Lines(x, mode)
<1>2. /\ buf' = [buf EXCEPT ![s] = Rest(x)]
      /\ handled' = [handled EXCEPT ![s] = h]
      /\ pipe' = [pipe EXCEPT ![s] = p]
  <2>1. /\ Take(s, x)
        /\ pipe' = [pipe EXCEPT ![s] = SubSeq(@, n + 1, Len(@))]
    BY DEF Readable
  <2> HIDE DEF n, x
  <2> QED BY <2>1 DEF Take
<1>3. live' = live \/ (s \notin open /\ live' = live \ {s})
  BY DEF Readable, Destroyed
<1>4. /\ written[s] \in Seq(Nat) /\ pipe[s] \in Seq(Nat) /\ buf[s] \in Seq(Nat)
      /\ Cut(written[s], buf[s], pipe[s], handled[s], mode)
  BY <1>1 DEF LInv, Units, Right
<1>5. n \in 0 .. Len(pipe[s]) BY <1>4, ExecAssumption, LenProperties
<1> HIDE DEF n
<1>6. q \in Seq(Nat) /\ p \in Seq(Nat) /\ pipe[s] = q \o p BY <1>4, <1>5, Split
<1> HIDE DEF q, p
<1>7. Cut(written[s], buf[s], q \o p, handled[s], mode) BY <1>4, <1>6
<1>8. /\ Rest(x) \in Seq(Nat) /\ h \in Seq(Seq(Nat))
      /\ Cut(written[s], Rest(x), p, h, mode)
  BY <1>4, <1>6, <1>7, CutRead
<1> HIDE DEF x, h
<1>9. Told(written[s], h, mode)
  BY <1>4, <1>6, <1>8, CutTold
<1> QED BY <1>1, <1>2, <1>3, <1>6, <1>8, <1>9, WatchLines

\* and by the end of a watch.
LEMMA HangUpLines == ASSUME LInv, NEW s \in Pipes, HangUp(s) PROVE LInv'
<1>1. /\ s \in live /\ s \notin open /\ pipe[s] = <<>>
      /\ live' = live \ {s} /\ pipe' = pipe
      /\ UNCHANGED <<mode, prompt, written, open>>
  BY DEF HangUp, info, child, Destroyed
<1>2. /\ written[s] \in Seq(Nat) /\ pipe[s] \in Seq(Nat) /\ buf[s] \in Seq(Nat)
      /\ handled[s] \in Seq(Seq(Nat))
      /\ Cut(written[s], buf[s], pipe[s], handled[s], mode)
      /\ pipe \in [Pipes -> Seq(Nat)] /\ buf \in [Pipes -> Seq(Nat)]
      /\ handled \in [Pipes -> Seq(Seq(Nat))]
  BY <1>1 DEF LInv, Units, Right
<1>3. pipe' = [pipe EXCEPT ![s] = pipe[s]] BY <1>1, <1>2
<1>4. Take(s, Append(buf[s], 0)) \/ UNCHANGED <<buf, handled>> BY DEF HangUp
<1>5. CASE UNCHANGED <<buf, handled>>
  <2>1. buf' = [buf EXCEPT ![s] = buf[s]]
        /\ handled' = [handled EXCEPT ![s] = handled[s]]
    BY <1>2, <1>5
  <2>2. Told(written[s], handled[s], mode) BY <1>2, CutTold
  <2> QED BY <1>1, <1>2, <1>3, <2>1, <2>2, WatchLines
<1>6. CASE Take(s, Append(buf[s], 0))
  <2> DEFINE x == Append(buf[s], 0)
             h == handled[s] \o Lines(x, mode)
  <2>1. x \in Seq(Nat) BY <1>2, AppendProperties
  <2>2. h \in Seq(Seq(Nat)) /\ Told(written[s], h, mode)
    BY <1>1, <1>2, CutTold
  <2>3. buf' = [buf EXCEPT ![s] = Rest(x)]
        /\ handled' = [handled EXCEPT ![s] = h]
    BY <1>6 DEF Take
  <2> HIDE DEF x, h
  <2>4. Rest(x) \in Seq(Nat) BY <2>1, RestCut
  <2> QED BY <1>1, <1>2, <1>3, <2>2, <2>3, <2>4, WatchLines
<1> QED BY <1>4, <1>5, <1>6

\* So every step keeps them right.
LEMMA LinesStep == LInv /\ [Next]_vars => LInv'
<1> SUFFICES ASSUME LInv, [Next]_vars PROVE LInv' OBVIOUS
<1>1. CASE CmdExec BY <1>1, CmdExecLines
<1>2. ASSUME NEW s \in Pipes, Write(s) PROVE LInv' BY <1>2, WriteLines
<1>3. ASSUME NEW s \in Pipes, Close(s) PROVE LInv' BY <1>3, CloseLines
<1>4. ASSUME NEW s \in Pipes, Readable(s) PROVE LInv' BY <1>4, ReadableLines
<1>5. ASSUME NEW s \in Pipes, HangUp(s) PROVE LInv' BY <1>5, HangUpLines
<1>6. CASE UNCHANGED vars
  <2>1. UNCHANGED <<mode, prompt, written, open, pipe, buf, live, handled>>
    BY <1>6 DEF vars, info, child
  <2>2. Units' /\ Silent' BY <2>1 DEF LInv, Units, Silent
  <2>3. ASSUME NEW t \in Pipes PROVE Right(t)'
    BY <2>1, OtherPipe DEF LInv
  <2> QED BY <2>2, <2>3 DEF LInv
<1> QED BY <1>1, <1>2, <1>3, <1>4, <1>5, <1>6 DEF Next

\* The strengthened invariant holds of every run.
LEMMA LinesInvariance == Spec => []LInv
BY InitLines, LinesStep, PTL DEF Spec

(***************************************************************************)
(* However the reads cut what the child writes, its lines are handed on    *)
(* whole, once and in the order written, and what was not handed on waits. *)
(***************************************************************************)
THEOREM LinesComeWhole == Spec => []LinesInOrder
<1>1. ASSUME LInv PROVE LinesInOrder
  <2>1. ASSUME NEW s \in Pipes, s \in live
        PROVE  LET waiting == buf[s] \o pipe[s]
                   n == Len(written[s]) - Len(waiting)
                   before == SubSeq(written[s], 1, n)
               IN /\ written[s] = before \o waiting
                  /\ handled[s] = Lines(before, mode)
    <3>1. /\ written[s] \in Seq(Nat) /\ pipe[s] \in Seq(Nat)
          /\ buf[s] \in Seq(Nat)
          /\ Cut(written[s], buf[s], pipe[s], handled[s], mode)
      BY <1>1, <2>1 DEF LInv, Units, Right
    <3>2. Whole(written[s], buf[s], pipe[s], handled[s], mode)
      BY <3>1, CutWhole
    <3> QED BY <3>2 DEF Whole
  <2>2. ASSUME NEW s \in Pipes, s \notin live
        PROVE  IsPrefix(handled[s], Lines(Append(written[s], 0), mode))
    BY <1>1, <2>2 DEF LInv, Right, Told
  <2> QED BY <2>1, <2>2 DEF LinesInOrder
<1> QED BY <1>1, LinesInvariance, PTL

\* The variables hold what TypeOK says, whatever the child does.
THEOREM ExecTyped == Spec => []TypeOK
<1>1. ASSUME LInv, IInv PROVE TypeOK
  <2>1. Cardinality(live) \in Nat BY <1>1, PipesFacts DEF IInv, Counted
  <2>2. live \subseteq Pipes /\ ref \in Int /\ results \in Nat
    BY <1>1, <2>1 DEF IInv, Counted
  <2>3. freed \in BOOLEAN BY <1>1 DEF IInv, Counted
  <2>4. Units BY <1>1 DEF LInv
  <2>5. {written, pipe, buf} \subseteq [Pipes -> Seq(Nat)] BY <2>4 DEF Units
  <2> QED BY <2>2, <2>3, <2>4, <2>5, Zenon DEF Units, TypeOK
<1> QED BY <1>1, LinesInvariance, Invariance, PTL

=============================================================================
